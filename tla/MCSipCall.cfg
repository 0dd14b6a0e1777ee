CONSTANTS
  Callers = {receiver, signalled}
  Main = signalled
  Calls = {i1, i2}
  NoCall = NoCall
  MaxRepeats = 1
SPECIFICATION FairSpec
INVARIANTS TypeOK WokenReadsDecision MutexOutlivesAnswer AnswerFindsMapAtRest NoEntryLeft
PROPERTIES CallKeepsPromise AnswerWakesCaller AcceptedIsEnded CallIsReported
CHECK_DEADLOCK TRUE
