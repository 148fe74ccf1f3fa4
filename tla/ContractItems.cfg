SPECIFICATION Spec
CONSTANTS
  MaxEnum = 2
  MaxVersion = 2
  Families <- MCItemFamilies
  DraftOf <- MCDraftOf
  InputsOf <- MCInputsOf
  Definitions <- MCDefinitions
  Same <- MCSame
  Breaks <- MCBreaks
  Fits <- MCFits
  Reads <- MCReads
INVARIANTS KeptStillFits
