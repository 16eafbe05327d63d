SPECIFICATION Spec
CONSTANTS
  Values <- SomeValues
  Formats <- AllFormats
  Added <- SomeAdded
  AllocSize = 4
  Null = Null
INVARIANT Fits
INVARIANT RoundTrip
INVARIANT NewFields
INVARIANT CodeIsIndexed
CHECK_DEADLOCK FALSE
