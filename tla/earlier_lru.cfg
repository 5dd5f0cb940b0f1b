\* The two-way set of port_twoway, with updateLRU of the earlier version.
SPECIFICATION Spec
CONSTANTS
  TwoWay = TRUE
  BlockSize = 2
  NumSets = 1
  MissLatency = 2
  CounterMod = 8
  Ages = FALSE
  Byte <- MCByte
  MemSize = 6
  InitMem <- MCInitMem
  Requests <- MCRequests
  Garbage <- MCGarbage
  MaxCycle = 8
  None = None
INVARIANTS RecentSurvives
\* The simulator stops after finalizeSimulator.
CHECK_DEADLOCK FALSE
