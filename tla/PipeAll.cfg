SPECIFICATION FairSpec
CONSTANTS
  w1 = w1
  w2 = w2
  Reader = {r1}
  Writer = {w1, w2}
  NoProc = NoProc
  Junk = Junk
  Text <- MCText
  PIPESIZE = 2
  WRAP = 4
  Sizes = {1, 3}
  MaxReads = 4
  MaxWrites = 1
  Kill = {r1, w1}
INVARIANTS NoLostWakeup
PROPERTIES ImplementsByteStream AllReturn
