\* The direct-mapped cache of port_dm, with stores to every block of memory.
SPECIFICATION Spec
CONSTANTS
  TwoWay = FALSE
  BlockSize = 2
  NumSets = 2
  MissLatency = 2
  CounterMod = 8
  Ages = TRUE
  Byte <- MCByte
  MemSize = 8
  InitMem <- MCInitMem
  Requests <- MCAnyStore
  Garbage <- MCGarbage
  MaxCycle = 9
  None = None
PROPERTIES FlatSpec
\* The simulator stops after finalizeSimulator.
CHECK_DEADLOCK FALSE
