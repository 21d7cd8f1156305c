SPECIFICATION Spec
CONSTANTS
  NPROC = 2
  CPU = {c0, c1}
  Cpu0 = c0
  NoCpu = NoCpu
  MaxSched = 1
  Loads <- MCLoads
INVARIANTS OneStack PickIsBest
