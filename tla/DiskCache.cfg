SPECIFICATION Spec
CONSTANTS
  Thread = {t1, t2}
  Buf = {b1, b2}
  Block = {k1, k2, k3}
  Val = {0, 1}
  Sizes = {4, 6}
  NoBlock = NoBlock
  NoBuf = NoBuf
  MaxPinned = 1
SYMMETRY Symm
INVARIANTS RefcntExact DescriptorsAccounted SleepersHaveReason
PROPERTIES ImplementsBlockStore
