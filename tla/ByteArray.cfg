CONSTANTS
  ByteBits = 3
  VarBits = 5
  FixBytes = 2
  Base = 2
  MaxSize = 5
  MaxTyped = 1
  Raw <- RawData
  Fixed = {10}
  Unsigned = {4}
  Signed <- SomeSigned
  Strings <- SomeStrings
  LenBits = 1
  Garbage = 7
SPECIFICATION Spec
INVARIANTS CursorExact CrashOnlyAtEnd BuffersExact TypedExact
PROPERTIES ImplementsByteSeq
CHECK_DEADLOCK FALSE
