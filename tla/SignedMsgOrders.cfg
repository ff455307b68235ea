\* Slots 1 to 5, a buffer of 1, a table of up to 2 entries, order ids of at most 5.
CONSTANTS
  a1 = a1
  a2 = a2
  Accounts = {a1, a2}
  Messages <- MCMessages
  NoUuid = "none"
  EvictionBuffer = 1
  MaxAge = 3
  MaxTable = 2
  MaxSlot = 5
  MaxSignedId = 5
SPECIFICATION TableSpec
CHECK_DEADLOCK FALSE
INVARIANTS TableTypeOK PlacedOnce EntriesSound TableNotClogged
PROPERTY UuidBlocksForLife
