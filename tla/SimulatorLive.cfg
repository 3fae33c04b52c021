\* One user that reconnects on changing slots, and a fair loop.
CONSTANTS
  MaxPfds = 3
  Batch = 1
  Users = {u1}
  MaxPacks = 1
  EventsAfter = 0
  MaxWriter = 4
  NULL = NULL
SPECIFICATION FairSpec
PROPERTIES
  SessionFair
  FlushedThenClosed
  EventsStart
