CONSTANTS
  Slots = {s1, s2}
  NoSlot = NoSlot
  SeqMod = 2
  Ops = {"enquire"}
  MaxInbox = 2
SPECIFICATION FairSpec
INVARIANTS TypeOK NoLostWakeup MemorySafe OwnAnswer StoreRaceFree
PROPERTIES AnswerWakes
CHECK_DEADLOCK TRUE
