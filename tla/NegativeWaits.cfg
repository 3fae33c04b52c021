CONSTANTS
  N = 2
  Kinds <- AllKinds
  Counters <- MCCounters
  Grain = 2
  HalfSpread = 1
  NEVER = 3
  Start = 5
  Frequencies <- MCFrequencies
  MaxNow = 10
SPECIFICATION RSpec
PROPERTY NegativeWaits
