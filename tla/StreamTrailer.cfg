SPECIFICATION Spec
CONSTANTS
  Letters = {"", "_", "#", "!", "-", "a", "b", "c", "e", "h", "q", "u", "x", "z"}
  Garbled = {"!"}
  Definitions <- MCTrailer
  MaxLines = 4
INVARIANT Agrees
