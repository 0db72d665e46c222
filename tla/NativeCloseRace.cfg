\* close() by a second thread while a compression finishes.
SPECIFICATION Spec
CONSTANTS
  NoThread = NoThread
  Threads = {t1, t2}
  Modes = {"COMPRESSING"}
  BufferSize = 2
  InKinds = {"direct"}
  OutKinds = {"direct"}
  InSizes = {1}
  OutSizes <- SmallOutputs
  MaxCalls = 2
  MaxHeld = 1
  AllocationMayFail = FALSE
  AssertionsEnabled = TRUE
INVARIANT FinishedStateStays
