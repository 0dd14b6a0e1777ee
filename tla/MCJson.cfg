CONSTANTS
  Chars <- SomeChars
  Params = 2
  MaxLen = 2
SPECIFICATION Spec
INVARIANTS ReadsBack
CHECK_DEADLOCK FALSE
