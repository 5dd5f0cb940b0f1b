\* Straight code with misses in both caches under many ways to drive it.
SPECIFICATION FairDriverSpec
CONSTANTS
  ByteMod = 4
  HalfWord = 128
  ImmMod = 128
  JumpMod = 16
  Bits = {0, 1, 2, 3, 4, 5, 6, 7}
  NumRegs = 4
  LinkReg = 3
  ExcAddr = 32
  HaltWord <- MCHalt
  Code <- MCCode
  Alphabet <- MCStraight
  Families <- MCOneFamily
  Handler = 238
  ICTwoWay = FALSE
  ICSets = 2
  ICLatency = 2
  DCTwoWay = FALSE
  DCSets = 2
  DCLatency = 2
  BlockSize = 16
  MemSize = 47
  Junk = {1, 2}
  CounterMod = 64
  Images <- MCDriven
  MaxCycle = 40
  Batches = {0, 3, 4}
  TillHalt = TillHalt
  Again <- MCAgain
  MaxCalls = 3
  MaxRuns = 2
  NoValue = NoValue
  None = None
INVARIANTS InOrder RegsAgree HaltAgrees FinalState ClockAtHalt
PROPERTIES QuietAfterHalt TillHaltReturns
\* The driver stops after the last simulation.
CHECK_DEADLOCK FALSE
