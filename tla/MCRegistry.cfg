SPECIFICATION FairSpec
CONSTANTS
  z1 = z1
  z2 = z2
  i1 = i1
  i2 = i2
  p1 = p1
  q1 = q1
  t1 = t1
  s1 = s1
  None = None
  Bazels = {z1, z2}
  Ids = {i1, i2}
  Pids = {p1}
  IdOf <- Invocation2
  PidOf <- ReusedPid
  TailOf <- SharedTail
  Requests = {}
  Tails = {t1}
  Passes = {s1}
  Unresolved = {z2}
  StoreMayFail = TRUE
  MayRestart = TRUE
INVARIANTS TypeOK StoredEndIsFinal
PROPERTIES GoneMeansVanished GhostsVanish
