CONSTANTS
  Messages = {m1}
  NoMessage = NoMessage
  SmsKinds <- OneOfAnyKind
  MaxGarbage = 1
  MaxCalls = 1
  MaxFaults = 0
SPECIFICATION Spec
INVARIANTS TextCarried
CHECK_DEADLOCK FALSE
