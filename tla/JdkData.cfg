\* Two threads, three calls, every kind and size of buffer.
SPECIFICATION FairSpec
CONSTANTS
  NoThread = NoThread
  Threads = {t1, t2}
  Modes = {"COMPRESSING", "DECOMPRESSING"}
  BufferSize = 2
  InKinds = {"heap", "direct"}
  OutKinds = {"heap", "direct", "null"}
  InSizes = {0, 1, 3}
  OutSizes <- SharedOutputs
  LateInput = FALSE
  MaxCalls = 3
  MaxHeld = 2
INVARIANTS
  IInv
  Accounted
  InsufficientMeansFull
  OkMeansDrained
  FinishedConsumesInput
  OkOnlyBeforeFinish
PROPERTY CallsReturnOrStall
