SPECIFICATION FairSpec
CONSTANTS
  Proc = {p0, p1}
  InitProc = p0
  Frame = {f1, f2}
  NoFrame = NoFrame
  NV = 1
  Val = {"a"}
  KVal = {"k"}
  Image <- TextOnly
  Calls = {"fork", "sbrk", "exec", "read", "wait", "kill"}
INVARIANTS WritableIsPrivate
PROPERTIES IsolatedExceptCopyout KillLostOnlyInFault KernelReturns
