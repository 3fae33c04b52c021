\* Two users on two slots handed out one by one.
CONSTANTS
  MaxPfds = 3
  Batch = 1
  Users = {u1, u2}
  MaxPacks = 1
  EventsAfter = 1
  MaxWriter = 3
  NULL = NULL
SYMMETRY Symmetry
SPECIFICATION Spec
INVARIANTS
  TypeOK
  Linked
  PolloutIffQueued
  LoggedOnStream
  RepliesFitState
  NothingOutlivesConn
  CountersAgree
  CrashNeedsTooManyUsers
PROPERTIES
  OverfullQueueOnlyForced
  SlotsSpec
