\* A heap input longer than BUFFER_SIZE is compressed with finish.
SPECIFICATION Spec
CONSTANTS
  NoThread = NoThread
  Threads = {t1}
  Modes = {"COMPRESSING"}
  BufferSize = 2
  InKinds = {"heap"}
  OutKinds = {"heap"}
  InSizes = {3}
  OutSizes <- RichOutputs
  MaxCalls = 1
  MaxHeld = 2
  AllocationMayFail = FALSE
  AssertionsEnabled = FALSE
INVARIANT FinishedConsumesInput
