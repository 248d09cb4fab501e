CONSTANTS
  Graphs <- Twice
SPECIFICATION Spec
INVARIANTS
  FiresOnce
