CONSTANTS
  MAX_DEPTH = 5
  Size = 2
  PrimaryKeys <- MCPrimaryKeys
  KeyValue <- MCKeyValue
  Schemas <- MCSchemas
  MaxDeployments = 3
  MaxPath = 5
SPECIFICATION Spec
INVARIANTS
  CompiledAsDeclared
  PlanFits
  PlansAccepted
  KeysDistinct
  KeyKeepsType
  DataStaysReachable
  MemberRangesExact
  PathsHaveTheirOwnKeys
CHECK_DEADLOCK FALSE
