\* One two-way set of two blocks of two bytes over six bytes.
SPECIFICATION FairSpec
CONSTANTS
  TwoWay = TRUE
  BlockSize = 2
  NumSets = 1
  MissLatency = 2
  CounterMod = 8
  Ages = TRUE
  Byte <- MCByte
  MemSize = 6
  InitMem <- MCInitMem
  Requests <- MCRequests
  Garbage <- MCGarbage
  MaxCycle = 8
  None = None
INVARIANTS UniqueCopy CleanMatches RecentSurvives
PROPERTIES DrainKeepsView FlatSpec EventuallyServed
\* The simulator stops after finalizeSimulator.
CHECK_DEADLOCK FALSE
