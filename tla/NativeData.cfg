\* One thread, three calls, every kind and size of buffer.
SPECIFICATION FairSpec
CONSTANTS
  NoThread = NoThread
  Threads = {t1}
  Modes = {"COMPRESSING", "DECOMPRESSING"}
  BufferSize = 2
  InKinds = {"heap", "direct"}
  OutKinds = {"heap", "direct", "null"}
  InSizes = {0, 1, 3}
  OutSizes <- RichOutputs
  MaxCalls = 3
  MaxHeld = 3
  AllocationMayFail = TRUE
  AssertionsEnabled = TRUE
INVARIANTS
  IInv
  Accounted
  ErrorLosesLastCall
  IndexesInBounds
  InsufficientMeansFull
  NeverFlushesTwice
  OkMeansDrained
  StateAgreesWithZlib
  NothingHeldAtReturn
PROPERTY CallsReturn
