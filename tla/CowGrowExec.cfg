SPECIFICATION Spec
CONSTANTS
  Proc = {p0, p1}
  InitProc = p0
  Frame = {f1, f2, f3}
  NoFrame = NoFrame
  NV = 2
  Val = {"a"}
  KVal = {}
  Image <- TextStack
  Calls = {"fork", "sbrk", "exec", "wait"}
SYMMETRY FrameSymmetry
INVARIANTS RefCountExact NoInternalPanic NoLeak
PROPERTIES ImplementsPrivateMemory
