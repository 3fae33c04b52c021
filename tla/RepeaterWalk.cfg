\* Three repeaters that connect, kill and use a session, in every order of the list,
\* and a fair loop; the clock may stop at any time.
CONSTANTS
  N = 3
  Frequencies <- MCFewFrequencies
  Kinds <- MCFewKinds
  Counters <- MCFewCounters
  Grain = 2
  HalfSpread = 1
  NEVER = 3
  Start = 5
  MaxNow = 8
SPECIFICATION RFairSpec
PROPERTIES
  SessionsConnected
  DueIsCalled
