\* A heap output is decompressed into in more than one step.
SPECIFICATION Spec
CONSTANTS
  NoThread = NoThread
  Threads = {t1}
  Modes = {"DECOMPRESSING"}
  BufferSize = 2
  InKinds = {"heap"}
  OutKinds = {"heap"}
  InSizes = {1, 3}
  OutSizes <- RichOutputs
  MaxCalls = 1
  MaxHeld = 3
  AllocationMayFail = FALSE
  AssertionsEnabled = FALSE
INVARIANT NoIndexOutOfBounds
