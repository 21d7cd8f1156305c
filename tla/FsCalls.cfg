CONSTANTS
  Proc = {p1, p2}
  NINODES = 6
  NBLOCKS = 6
  NFILE = 2
  NOFILE = 2
  NDIRECT = 1
  NINDIRECT = 1
  DPB = 4
  Calls <- MCCalls
  Budget = 2
  Start <- MCStart
SYMMETRY Symmetry
SPECIFICATION Spec
INVARIANTS RefsExact LastRefUnlocked LinksCovered BlocksExact OnlyDotdotPanics
