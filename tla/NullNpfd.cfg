\* Two users, one slot.
CONSTANTS
  MaxPfds = 2
  Batch = 1
  Users = {u1, u2}
  MaxPacks = 1
  EventsAfter = 0
  MaxWriter = 4
  NULL = NULL
SPECIFICATION Spec
INVARIANT NoNullNpfd
