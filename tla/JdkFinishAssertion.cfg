\* A compression that is told to finish, into an output that is full before its
\* input is read.
SPECIFICATION Spec
CONSTANTS
  NoThread = NoThread
  Threads = {t1}
  Modes = {"COMPRESSING"}
  BufferSize = 2
  InKinds = {"heap"}
  OutKinds = {"heap"}
  InSizes = {0, 2}
  OutSizes <- FixedOutputs
  LateInput = FALSE
  MaxCalls = 2
  MaxHeld = 2
INVARIANT FinishesOnce
