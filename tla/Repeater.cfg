\* Two repeaters of every kind, frequency and counter; seven units of time.
CONSTANTS
  N = 2
  Frequencies <- MCFrequencies
  Kinds <- AllKinds
  Counters <- MCCounters
  Grain = 2
  HalfSpread = 1
  NEVER = 3
  Start = 5
  MaxNow = 12
SPECIFICATION RSpec
INVARIANTS
  NeverOverslept
  CountersKept
PROPERTIES
  CallsSpaced
