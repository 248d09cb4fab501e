CONSTANTS
  Schema <- MCSchema
  Configs <- MCConfigs
  Idents = {"id", "d"}
  DeclaredTypes <- MCTypes
  Inputs <- MCInputs
  MaxLive = 1
  MaxList = 1
  MaxMap = 2
SPECIFICATION Spec
INVARIANTS
  TypeSound
  PanicsExplained
  ResultsReadBack
