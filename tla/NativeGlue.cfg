\* Two loads of the library and two creations, every failure.
SPECIFICATION Spec
CONSTANTS
  ConstantClasses <- CreationClasses
  MaxLoads = 2
  TempSize = 3
  Platforms = {"c99", "windows"}
  MessageLengths <- MessagesAround
  Streams = {s1, s2}
  Levels <- SomeLevels
SYMMETRY StreamSymmetry
INVARIANTS
  IInv
  ClassesLive
  GlobalsAccounted
  PointersValid
  CrashesExplained
  MessageSafe
  MessageComplete
