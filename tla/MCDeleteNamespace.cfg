CONSTANTS
  a1 = a1
  a2 = a2
  Admins <- MCAdmins
  r1 = r1
  r2 = r2
  Clients <- MCRequests
  Namespaces = {n1}
  q1 = q1
  q2 = q2
  QueryScripts <- MCScripts
  s1 = s1
  s2 = s2
  Schemas <- MCSchemas
  Texts <- MCSchemas
  Loads <- MCLoads
  Absent = Absent
  NoItem = NoItem
  MaxPrefix = 2
  MaxDepl = 1
  MaxRev = 2
  ms1 = ms1
  ms2 = ms2
  Millis <- MCMillis
  MillisDiffer = TRUE
  Ttl = 1
  MinSize = 1
  ShrinkStep = 1
  Life = 1
  MaxNow = 0
SYMMETRY MCSymmetry
SPECIFICATION Spec
PROPERTIES
  DeletedNamespaceIsEmpty
