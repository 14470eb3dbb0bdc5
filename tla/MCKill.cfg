SPECIFICATION FairKillSpec
CONSTANTS
  z1 = z1
  i1 = i1
  p1 = p1
  t1 = t1
  s1 = s1
  k1 = k1
  None = None
  Bazels = {z1}
  Ids = {i1}
  Pids = {p1}
  IdOf <- Invocation1
  PidOf <- Pid1
  TailOf <- Tail1
  Requests = {}
  Tails = {t1}
  Passes = {s1, k1}
  Unresolved = {z1}
  StoreMayFail = FALSE
  MayRestart = TRUE
  Killers = {k1}
  SlowReuse = TRUE
INVARIANTS KillTypeOK KilledMeansDead
PROPERTIES StrangersSpared KillAnswered
