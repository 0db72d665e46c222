\* Two threads share a stream; small buffers, every interleaving.
SPECIFICATION FairSpec
CONSTANTS
  NoThread = NoThread
  Threads = {t1, t2}
  Modes = {"COMPRESSING", "DECOMPRESSING"}
  BufferSize = 1
  InKinds = {"heap", "direct"}
  OutKinds = {"direct"}
  InSizes = {2}
  OutSizes <- GrowingOutput
  MaxCalls = 3
  MaxHeld = 1
  AllocationMayFail = FALSE
  AssertionsEnabled = FALSE
INVARIANTS
  IInv
  NoUseAfterFree
  FreedOnce
PROPERTIES
  ExclusiveSpec
  OnlyCloseBesideCall
  CallsReturn
