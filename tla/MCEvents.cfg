SPECIFICATION EventsFairSpec
CONSTANTS
  z1 = z1
  i1 = i1
  p1 = p1
  q1 = q1
  t1 = t1
  s1 = s1
  w1 = w1
  None = None
  Bazels = {z1}
  Ids = {i1}
  Pids = {p1}
  IdOf <- Invocation1
  PidOf <- Pid1
  TailOf <- Tail1
  Requests = {q1}
  Tails = {t1}
  Passes = {}
  Unresolved = {}
  StoreMayFail = FALSE
  MayRestart = TRUE
  Watchers = {w1}
  SubBufferSize = 2
INVARIANTS EventsTypeOK ClientNeverAhead NoSilentLoss
PROPERTIES EndsOnce DroppedResyncs
