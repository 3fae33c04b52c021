\* Two users for one slot: the second one waits for it, or meets the full table.
CONSTANTS
  MaxPfds = 2
  Batch = 2
  Users = {u1, u2}
  MaxPacks = 1
  EventsAfter = 0
  MaxWriter = 4
  NULL = NULL
SYMMETRY Symmetry
SPECIFICATION Spec
PROPERTIES
  SessionSpec
\* A crashed process takes no further step.
CHECK_DEADLOCK FALSE
