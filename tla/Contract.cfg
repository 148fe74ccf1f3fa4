SPECIFICATION Spec
CONSTANTS
  MaxEnum = 2
  MaxVersion = 2
  Families <- MCFamilies
  DraftOf <- MCDraftOf
  InputsOf <- MCInputsOf
  Definitions <- MCDefinitions
  Same <- MCSame
  Breaks <- MCBreaks
  Fits <- MCFits
  Reads <- MCReads
INVARIANTS TypeOK CompareIsSound KeptStillFits ReaderStillReads
