SPECIFICATION Spec
CONSTANTS
  Letters = {"", "_", "#", "!", "-", "a", "b", "c", "e", "h", "q", "u", "x", "z"}
  Garbled = {"!"}
  Definitions <- MCDefinitions
  MaxLines = 5
INVARIANTS Agrees NoneLate BooksBalance
