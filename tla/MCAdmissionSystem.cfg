SPECIFICATION SysSpec
CONSTANTS
  i1 = i1
  i2 = i2
  h1 = h1
  h2 = h2
  r1 = r1
  r2 = r2
  terminal = terminal
  reaper = reaper
  o1 = o1
  None = None
  Ids = {i1, i2}
  Gens = {1, 2}
  Handlers = {h1, h2}
  Releasers = {r1, r2, terminal, reaper}
  Operators = {}
  Others = {}
  Overlap <- Overlap1
  MaxConcurrent = 1
  CPUHighWater = 0
  Samples = {}
  HandlerOf <- Handle2
  ReleaserOf <- Free2
  TerminalLoop = terminal
  ReaperLoop = reaper
  Flaky = {i1}
  HubWired = TRUE
  PromptRepoll = FALSE
INVARIANTS SysTypeOK SlotBound IndexOK NoLeakedSlot   AllowNotLost
PROPERTIES KeepsPromise
