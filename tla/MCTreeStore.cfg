CONSTANTS
  MAX_DEPTH = 64
  Size = 2
  PrimaryKeys <- MCPrimaryKeys
  KeyValue <- MCKeyValue
  Schema <- MCSchema
  Numbers = {"n1"}
  Marker = "marker"
  MaxPath = 5
SPECIFICATION Spec
INVARIANTS
  ReduceVisitsTheRange
  MembersKnowTheirKey
  RowsAreTheDocument
