CONSTANTS
  Messages = {m1, m2}
  NoMessage = NoMessage
  SmsKinds <- OneOfAnyKind
  MaxGarbage = 1
  MaxCalls = 2
  MaxFaults = 1
SPECIFICATION FairSpec
INVARIANTS TypeOK ReportTruthful AckedWasHandled CallPerDelivery TextInBounds NoTextLeak
 
CHECK_DEADLOCK FALSE
