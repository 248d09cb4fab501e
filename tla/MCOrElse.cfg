CONSTANTS
  Graphs = {}
  Scripts <- DefaultNames
SPECIFICATION ScriptSpec
INVARIANTS
  ScriptMeant
