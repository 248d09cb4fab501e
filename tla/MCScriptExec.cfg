CONSTANTS
  Graphs <- MCGraphs
  Scripts <- MCScripts
SPECIFICATION FairScriptSpec
INVARIANTS
  FiresOnce
  OnlyMeantNodesFire
  Confluent
  OutputMeant
  ScriptMeant
PROPERTIES
  Terminates
