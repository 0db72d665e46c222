\* Short format strings with every kind of argument array.
SPECIFICATION FairSpec
CONSTANTS
  Null <- NullLength
  IntSpan = 64
  Formats <- SomeFormats
  ArgLists <- SomeArgLists
INVARIANTS
  IInv
  TextAsDocumented
  AcceptedAsDocumented
  
  RoomSuffices
PROPERTY Terminates
