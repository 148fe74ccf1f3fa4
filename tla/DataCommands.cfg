SPECIFICATION Spec
CONSTANTS
  MaxValues = 6
  MaxDepth = 3
  MaxInput = 9
  MaxShownKeys = 1
  MaxArguments = 3
  Files <- MCFiles
  Registry <- MCRegistry
  Defines <- MCDefines
  Guesses <- MCGuesses
  Rows <- MCRows
  Commands <- MCCommands
  Placements <- MCPlacements
INVARIANTS PlanIsWhatIsSaid DocumentIsAsPlanned EachIsNew StreamIsWhole KeysJudged OptionsAreHeard
