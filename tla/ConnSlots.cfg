\* Every order of taking and releasing the slots 2..8, refilled by threes and then by one.
CONSTANTS
  MaxPfds = 8
  Batch = 3
SPECIFICATION SlotsSpec
INVARIANTS
  NoSharedSlot
  EveryFdPolled
  NoLostSlot
  CrashOnlyWhenFull
\* A crashed process takes no further step.
CHECK_DEADLOCK FALSE
