CONSTANTS
  MAX_DEPTH = 64
  Size = 2
  PrimaryKeys <- MCPrimaryKeys
  KeyValue <- MCKeyValue
  Schemas <- TreeOfSets
  MaxDeployments = 1
  MaxPath = 5
SPECIFICATION Spec
INVARIANTS
  FieldsAreFound
CHECK_DEADLOCK FALSE
