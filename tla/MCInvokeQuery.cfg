CONSTANTS
  a1 = a1
  a2 = a2
  Admins <- MCAdmins
  r1 = r1
  r2 = r2
  Clients <- OneRequest
  Namespaces = {n1}
  q1 = q1
  q2 = q2
  QueryScripts <- MCScripts
  s1 = s1
  s2 = s2
  Schemas <- MCSchemas
  Texts <- MCSchemas
  Loads <- MCLoads
  Absent = Absent
  NoItem = NoItem
  MaxPrefix = 2
  MaxDepl = 2
  MaxRev = 2
  ms1 = ms1
  ms2 = ms2
  Millis <- MCMillis
  MillisDiffer = TRUE
  Ttl = 0
  MinSize = 1
  ShrinkStep = 1
  Life = 1
  MaxNow = 4
CONSTRAINT MCBound
SYMMETRY MCSymmetry
SPECIFICATION Spec
INVARIANTS
  ColdHitIsTheScript
  StaleScriptsFade
  HotEntriesExpire
  StoredScriptsLoad
PROPERTIES
  NewNamespaceIsEmpty
