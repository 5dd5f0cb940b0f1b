-------------------------------- MODULE Mips --------------------------------
(***************************************************************************)
(* The instructions both simulators run, on words of a size to be chosen.  *)
(* A word is four bytes; addresses and the program counter count bytes.    *)
(* Memory is a function from the addresses the memory store backs to       *)
(* bytes.  The bit fields of an instruction are abstracted by the table    *)
(* Code, which maps a word to what it decodes to.                          *)
(***************************************************************************)
EXTENDS Integers, Sequences

CONSTANTS
  ByteMod,    \* bytes run from 0 to ByteMod - 1 (2^8 in the code)
  HalfWord,   \* words run from 0 to 2 * HalfWord - 1 (2^31)
  ImmMod,     \* immediates run from 0 to ImmMod - 1 (2^16)
  JumpMod,    \* jump targets run from 0 to JumpMod - 1 (2^26)
  Bits,       \* the bit positions of a word (0 .. 31)
  NumRegs,    \* registers (32)
  LinkReg,    \* the register jal writes (31)
  ExcAddr,    \* EXCEPTION_ADDR (0x8000)
  HaltWord,   \* the word that ends a program (0xfeedfeed)
  Code,       \* what each word decodes to
  MemSize     \* bytes the memory store backs (0xffff)

WordMod == 2 * HalfWord
Word    == 0 .. WordMod - 1
Byte    == 0 .. ByteMod - 1
Addr    == 0 .. MemSize - 1
Reg     == 0 .. NumRegs - 1

\* Kinds of instructions.  "badFunct" is an R-type word with an invalid
\* function code, "illegal" one with an unknown opcode.
RAlu     == {"add", "addu", "and", "nor", "or", "slt", "sltu", "sll", "srl",
             "sub", "subu"}
IAlu     == {"addi", "addiu", "andi", "lui", "ori", "slti", "sltiu"}
Loads    == {"lbu", "lhu", "lw"}
Stores   == {"sb", "sh", "sw"}
Atomics  == {"ll", "sc"}
Branches == {"beq", "bne", "bgtz", "blez"}
Jumps    == {"j", "jal", "jr"}
IType    == IAlu \union Loads \union Stores \union Atomics \union Branches
Ops      == RAlu \union IType \union Jumps \union {"badFunct", "illegal", "halt"}

Instr == [op : Ops, rs : Reg, rt : Reg, rd : Reg, imm : Nat]

\* A word of all zeros shifts register 0 by nothing.
Nop == [op |-> "sll", rs |-> 0, rt |-> 0, rd |-> 0, imm |-> 0]

\* The values of one to four digits of a byte each; the number of a bit.
Weight      == <<1, ByteMod, ByteMod * ByteMod, ByteMod * ByteMod * ByteMod>>
BitOf(x, k) == (x \div 2^k) % 2

\* Every set of bit positions is that of a word.  What has no register fields
\* has them 0, as rs() and rt() report.
ASSUME MipsAssumption ==
  /\ ByteMod \in Nat \ {0} /\ HalfWord \in Nat \ {0} /\ 2 * HalfWord = ByteMod * Weight[4]
  /\ ImmMod \in Nat \ {0} /\ JumpMod \in Nat \ {0}
  /\ WordMod % ImmMod = 0 /\ WordMod % (4 * JumpMod) = 0
  /\ \A k \in Bits : 2^k \in Nat \ {0}
  /\ \A S \in SUBSET Bits : \E w \in Word : \A k \in Bits : BitOf(w, k) = 1 <=> k \in S
  /\ NumRegs \in Nat \ {0} /\ LinkReg \in Reg \ {0}
  /\ ExcAddr \in Word /\ HaltWord \in Word \ {0}
  /\ MemSize \in Nat /\ MemSize <= WordMod
  /\ Code \in [Word -> Instr] /\ Code[0] = Nop
  /\ \A w \in Word :
       /\ Code[w].op = "halt" <=> w = HaltWord
       /\ Code[w].op \in {"j", "jal", "illegal", "badFunct", "halt"} =>
            Code[w].rs = 0 /\ Code[w].rt = 0
       /\ Code[w].op \in IType => Code[w].imm < ImmMod
       /\ Code[w].op \in {"sll", "srl"} => Code[w].imm \in Bits
       /\ Code[w].op \in {"j", "jal"} => Code[w].imm < JumpMod

-----------------------------------------------------------------------------
(***************************************************************************)
(* Arithmetic.                                                             *)
(***************************************************************************)

Sign(x)       == IF x >= HalfWord THEN 1 ELSE 0
Signed(x)     == IF x >= HalfWord THEN x - WordMod ELSE x
SignExtend(i) == IF 2 * i >= ImmMod THEN WordMod - ImmMod + i ELSE i

Plus(x, y)  == (x + y) % WordMod
Minus(x, y) == (x - y) % WordMod

\* doAddSub: the overflow test compares the signs of operands and result.
AddOverflows(x, y) == Sign(x) = Sign(y) /\ Sign(y) # Sign(Plus(x, y))
SubOverflows(x, y) == Sign(x) # Sign(y) /\ Sign(y) = Sign(Minus(x, y))

\* The numbers a word can stand for, and what that test is there to find.
SignedRange == - HalfWord .. HalfWord - 1
AddOutOfRange(x, y) == Signed(x) + Signed(y) \notin SignedRange
SubOutOfRange(x, y) == Signed(x) - Signed(y) \notin SignedRange

\* The word with the bits of S.
BitWord(S)    == CHOOSE w \in Word : \A k \in Bits : BitOf(w, k) = 1 <=> k \in S
AndBits(x, y) == BitWord({k \in Bits : BitOf(x, k) = 1 /\ BitOf(y, k) = 1})
OrBits(x, y)  == BitWord({k \in Bits : BitOf(x, k) = 1 \/ BitOf(y, k) = 1})
Less(x, y)    == IF x < y THEN 1 ELSE 0

\* The instructions that trap when the result does not fit.
Overflows(op, x, y, imm) ==
  \/ op = "add"  /\ AddOverflows(x, y)
  \/ op = "sub"  /\ SubOverflows(x, y)
  \/ op = "addi" /\ AddOverflows(x, SignExtend(imm))

\* What an arithmetic instruction computes from the values of rs and rt.
Alu(op, x, y, imm) ==
  CASE op \in {"add", "addu"}   -> Plus(x, y)
    [] op \in {"sub", "subu"}   -> Minus(x, y)
    [] op = "and"               -> AndBits(x, y)
    [] op = "or"                -> OrBits(x, y)
    [] op = "nor"               -> WordMod - 1 - OrBits(x, y)
    [] op = "slt"               -> Less(Signed(x), Signed(y))
    [] op = "sltu"              -> Less(x, y)
    [] op = "sll"               -> (y * 2^imm) % WordMod
    [] op = "srl"               -> y \div 2^imm
    [] op \in {"addi", "addiu"} -> Plus(x, SignExtend(imm))
    [] op = "andi"              -> AndBits(x, imm)
    [] op = "ori"               -> OrBits(x, imm)
    [] op = "lui"               -> (imm * (WordMod \div ImmMod)) % WordMod
    [] op = "slti"              -> Less(Signed(x), Signed(SignExtend(imm)))
    [] op = "sltiu"             -> Less(x, SignExtend(imm))

-----------------------------------------------------------------------------
(***************************************************************************)
(* Addresses and memory.                                                   *)
(***************************************************************************)

DataAddr(base, imm)   == Plus(base, SignExtend(imm))
BranchTarget(pc, imm) == Plus(pc + 4, 4 * SignExtend(imm))
JumpTarget(pc, imm)   == Plus(pc, 4) - (Plus(pc, 4) % (4 * JumpMod)) + 4 * imm

\* The bytes an instruction that accesses memory moves.
Size(op) == CASE op \in {"lbu", "sb"} -> 1 [] op \in {"lhu", "sh"} -> 2 [] OTHER -> 4

\* Words and their bytes, the most significant first: the value of one, two or
\* four bytes, and the n low bytes of a word.
WordOf(b) ==
  CASE Len(b) = 1 -> b[1]
    [] Len(b) = 2 -> b[1] * ByteMod + b[2]
    [] Len(b) = 4 -> ((b[1] * ByteMod + b[2]) * ByteMod + b[3]) * ByteMod + b[4]
BytesOf(w, n) == [k \in 1 .. n |-> (w \div Weight[n - k + 1]) % ByteMod]

\* The memory store: it refuses an access that is not all backed.
Backed(a, n) == a + n <= MemSize
ReadMem(mem, a, n)     == WordOf([k \in 1 .. n |-> mem[a + k - 1]])
WriteMem(mem, a, w, n) ==
  [x \in Addr |-> IF x - a \in 0 .. n - 1 THEN BytesOf(w, n)[x - a + 1] ELSE mem[x]]

=============================================================================
