SPECIFICATION FairSpec
CONSTANTS
  t1 = t1
  t2 = t2
  Last = 2
  Tailers = {t1, t2}
  Off = Off
  None = None
  Floor = 50
  Delta = 20
  MinProcs = 5
  CountsOf <- WarmThenCold
  Outcomes <- OneFails
  Past <- WarmPast
  Trailing = 2
  Prompt = TRUE
  MetricsMayFail = TRUE
  MayRestart = TRUE
INVARIANTS IngestTypeOK   
   
