SPECIFICATION Spec
CONSTANTS
  Names = {"ls", "gls", "df"}
  VariantNames = {"a", "b"}
  Registries <- MCRegistries
  Layers = 3
  Workers = {w1, w2}
  NamesAsked <- MCNamesAsked
INVARIANTS AllDecoded LoadedAsLayered NamedAgrees WarnedRightly
