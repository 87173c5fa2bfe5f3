CONSTANTS
  LongBits = 6
  IntBits = 5
  MaxDigits = 2
  MaxCuts = 1
SPECIFICATION Spec
INVARIANTS UriAccepted UriComponents RequestFramed RequestRead ResponseFramed ResponseRead
CHECK_DEADLOCK FALSE
