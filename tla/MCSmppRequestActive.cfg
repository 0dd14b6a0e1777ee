CONSTANTS
  Slots = {s1, s2}
  NoSlot = NoSlot
  SeqMod = 3
  Ops = {"enquire", "unbind"}
  MaxInbox = 2
SPECIFICATION Spec
INVARIANTS StoreHoldsActive
