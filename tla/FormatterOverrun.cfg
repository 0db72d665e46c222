\* An unused argument more than the expected size of the result.
SPECIFICATION Spec
CONSTANTS
  Null <- NullLength
  IntSpan = 64
  Formats <- RepeatedFormats
  ArgLists <- ManyArgLists
INVARIANT AsDocumented
