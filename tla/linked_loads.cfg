\* Load-linked and store-conditional in the functional simulator.
SPECIFICATION LinkSpec
CONSTANTS
  ByteMod = 4
  HalfWord = 128
  ImmMod = 128
  JumpMod = 16
  Bits = {0, 1, 2, 3, 4, 5, 6, 7}
  NumRegs = 4
  LinkReg = 3
  ExcAddr = 32
  HaltWord <- MCHalt
  Code <- MCCode
  MemSize = 40
  Images <- MCImages
  None = None
INVARIANTS TypeOK LinkHolds
PROPERTIES  ConditionalIsAtomic
\* The simulator stops at the halt word and when it fails.
CHECK_DEADLOCK FALSE
