SPECIFICATION FairSpec
CONSTANTS
  z1 = z1
  z2 = z2
  i1 = i1
  i2 = i2
  p1 = p1
  q1 = q1
  t1 = t1
  s1 = s1
  None = None
  Bazels = {z1}
  Ids = {i1}
  Pids = {p1}
  IdOf <- Invocation1
  PidOf <- Pid1
  TailOf <- Tail1
  Requests = {}
  Tails = {t1}
  Passes = {s1}
  Unresolved = {}
  StoreMayFail = FALSE
  MayRestart = TRUE
PROPERTIES LiveBuildsReAdded
