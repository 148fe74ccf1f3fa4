SPECIFICATION Spec
CONSTANTS
  Lines = {"a", "b", ""}
  Blank = ""
  MaxLines = 4
  MaxWindow = 3
  Defs <- MCDefs
  Exprs <- MCExprs
  Matches <- MCMatches
  EndsText <- MCEndsText
  ClosedBy <- MCClosedBy
INVARIANT BlankTailStands
