CONSTANTS
  Keys <- MCKeys
  Bounds <- MCBounds
  Values = {v1}
  Txns = {t1, t2}
  NoValue = NoValue
  NoWrite = NoWrite
  MaxVersion = 2
SYMMETRY TxnSymmetry
SPECIFICATION Spec
INVARIANTS
  TypeOK
  VersionsIdentifyValues
  ModifiedNotesFirstVersion
PROPERTIES
  NoLostUpdate
  VersionsGrow
  SnapshotIsolation
