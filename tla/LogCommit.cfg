SPECIFICATION FairSpec
CONSTANTS
  Thread = {t1, t2}
  Block = {b1, b2}
  Val = {"x", "y"}
  NoVal = NoVal
  NoThread = NoThread
  MAXOPBLOCKS = 1
  LOGSIZE = 3
  NLOG = 3
  MaxCrash = 1
INVARIANTS SpaceIsReserved
PROPERTIES ImplementsAtomicDisk SleepersWake
