\* One two-way set of two blocks of two bytes over seven bytes.
SPECIFICATION Spec
CONSTANTS
  TwoWay = TRUE
  BlockSize = 2
  NumSets = 1
  MissLatency = 2
  CounterMod = 8
  Byte <- MCByte
  MemSize = 7
  InitMem <- MCInitMem
  Calls <- MCCalls
  Garbage <- MCGarbage
  MaxCalls = 6
  None = None
INVARIANTS SameAnswers SameDrain SameTotal
\* The caller stops after the drain.
CHECK_DEADLOCK FALSE
