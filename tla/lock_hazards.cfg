\* Every dependence between instructions, and exceptions; instructions are always
\* cached.
SPECIFICATION LockSpec
CONSTANTS
  ByteMod = 4
  HalfWord = 128
  ImmMod = 128
  JumpMod = 16
  Bits = {0, 1, 2, 3, 4, 5, 6, 7}
  NumRegs = 4
  LinkReg = 3
  ExcAddr = 32
  HaltWord <- MCHalt
  Code <- MCCode
  Alphabet <- MCProgramAlphabet
  Families <- MCProgramFamilies
  Handler = 21
  ICTwoWay = FALSE
  ICSets = 2
  ICLatency = 0
  DCTwoWay = FALSE
  DCSets = 4
  DCLatency = 2
  BlockSize = 8
  MemSize = 47
  Junk = {1, 2}
  CounterMod = 64
  Images <- MCImages
  MaxCycle = 24
  NoValue = NoValue
  None = None
INVARIANTS TypeOK InOrder RegsAgree MemAgrees HaltAgrees OnTime
\* The simulator stops when it has halted.
CHECK_DEADLOCK FALSE
