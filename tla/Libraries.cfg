\* Two threads create, look up, load and forget libraries.
SPECIFICATION Spec
CONSTANTS
  NoThread = NoThread
  NoObject = NoObject
  acceleratedJava = acceleratedJava
  z = z
  invalid = invalid
  Threads = {t1, t2}
  Objects = {o1, o2, o3}
  Names <- SomeNames
  ValidNames <- SomeValidNames
  DependencySets <- SomeDependencySets
  MaxCalls = 5
SYMMETRY IdentitySymmetry
INVARIANTS
  IInv
  LoadedMeansLinked
  OneObjectPerName
  LoadedOnce
