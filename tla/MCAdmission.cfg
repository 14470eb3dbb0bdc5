SPECIFICATION Spec
CONSTANTS
  i1 = i1
  i2 = i2
  h1 = h1
  r1 = r1
  o1 = o1
  b1 = b1
  None = None
  Ids = {i1, i2}
  Gens = {1}
  Handlers = {h1}
  Releasers = {r1}
  Operators = {o1}
  Others = {b1}
  Overlap <- SharedTarget
  MaxConcurrent = 1
  CPUHighWater = 1
  Samples <- CalmAndBusy
INVARIANTS TypeOK NoLostWakeup
SYMMETRY IdSymmetry
