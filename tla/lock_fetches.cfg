\* Misses of the instruction cache, but for those that lose an instruction.
SPECIFICATION ClearSpec
CONSTANTS
  ByteMod = 4
  HalfWord = 128
  ImmMod = 128
  JumpMod = 16
  Bits = {0, 1, 2, 3, 4, 5, 6, 7}
  NumRegs = 4
  LinkReg = 3
  ExcAddr = 32
  HaltWord <- MCHalt
  Code <- MCCode
  Alphabet <- MCMixed
  Families <- MCOneFamily
  Handler = 238
  ICTwoWay = FALSE
  ICSets = 1
  ICLatency = 2
  DCTwoWay = TRUE
  DCSets = 4
  DCLatency = 2
  BlockSize = 16
  MemSize = 47
  Junk = {1, 2}
  CounterMod = 64
  Images <- MCImages
  MaxCycle = 40
  NoValue = NoValue
  None = None
INVARIANTS InOrder RegsAgree MemAgrees HaltAgrees
\* The simulator stops when it has halted.
CHECK_DEADLOCK FALSE
