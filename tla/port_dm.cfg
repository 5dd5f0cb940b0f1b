\* A direct-mapped cache of two blocks of two bytes over seven bytes.
SPECIFICATION Spec
CONSTANTS
  TwoWay = FALSE
  BlockSize = 2
  NumSets = 2
  MissLatency = 2
  CounterMod = 8
  Ages = TRUE
  Byte <- MCByte
  MemSize = 7
  InitMem <- MCInitMem
  Requests <- MCRequests
  Garbage <- MCGarbage
  MaxCycle = 9
  None = None
INVARIANTS TypeOK CleanMatches VictimExists StatsExact FetchedWhenThawed
PROPERTIES MissCost DrainKeepsView FlatSpec
\* The simulator stops after finalizeSimulator.
CHECK_DEADLOCK FALSE
