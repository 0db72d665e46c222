\* A decompression whose output is full and whose input is not read.
SPECIFICATION FairSpec
CONSTANTS
  NoThread = NoThread
  Threads = {t1}
  Modes = {"DECOMPRESSING"}
  BufferSize = 2
  InKinds = {"heap"}
  OutKinds = {"heap"}
  InSizes = {0, 2}
  OutSizes <- FixedOutputs
  LateInput = FALSE
  MaxCalls = 2
  MaxHeld = 2
PROPERTY CallsReturn
