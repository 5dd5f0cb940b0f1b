--------------------------- MODULE LockstepProofs ---------------------------
(***************************************************************************)
(* The pipeline is a simulator of the instruction set: every instruction   *)
(* is written back in the order, and with the effect, the functional       *)
(* simulator gives it, for data caches of every kind, words, memories and  *)
(* tables of instructions of every size, and all programs that keep to     *)
(* Meant, also in pieces and one after the other, as a driver runs them.   *)
(* Both caches may miss, as long as no miss of the instruction cache meets *)
(* what Clash says: then the two are known to differ.                      *)
(***************************************************************************)
EXTENDS PipelineProofs, Programs

-----------------------------------------------------------------------------
(***************************************************************************)
(* States of the functional simulator.                                     *)
(***************************************************************************)

\* The text is the same wherever it is read.
TextAt(m, a) == WordOf(<<m[a], m[a + 1], m[a + 2], m[a + 3]>>)

LEMMA TextWord ==
  ASSUME NEW T, NEW m, NEW s, \A a \in T : s[a] = m[a], NEW a \in Nat, InText(a, T)
  PROVE  ReadMem(s, a, 4) = TextAt(m, a)
  <1>1. s[a] = m[a] /\ s[a + 1] = m[a + 1] /\ s[a + 2] = m[a + 2] /\ s[a + 3] = m[a + 3]
    BY DEF InText
  <1>2. [k \in 1 .. 4 |-> s[a + k - 1]] = <<s[a], s[a + 1], s[a + 2], s[a + 3]>>
    <2>1. a + 1 - 1 = a /\ a + 2 - 1 = a + 1 /\ a + 3 - 1 = a + 2 /\ a + 4 - 1 = a + 3
      OBVIOUS
    <2> DEFINE f == [k \in 1 .. 4 |-> s[a + k - 1]]
               g == <<s[a], s[a + 1], s[a + 2], s[a + 3]>>
    <2>2. f[1] = g[1] /\ f[2] = g[2] /\ f[3] = g[3] /\ f[4] = g[4]
      BY <2>1
    <2>3. DOMAIN f = 1 .. 4 /\ DOMAIN g = 1 .. 4
      OBVIOUS
    <2>4. \A k \in 1 .. 4 : f[k] = g[k]
      <3> HIDE DEF f, g
      <3> QED
        BY <2>2
    <2>5. f = [k \in 1 .. 4 |-> f[k]] /\ g = [k \in 1 .. 4 |-> g[k]]
      OBVIOUS
    <2> HIDE DEF f, g
    <2>6. f = g
      BY <2>4, <2>5
    <2> QED
      BY <2>6 DEF f, g
  <1> QED
    BY <1>1, <1>2 DEF ReadMem, TextAt

\* A state among those a program reaches.
Reached(s, m, T, G) == Certified(m, T, G) /\ s \in G

LEMMA StateParts ==
  ASSUME NEW s \in RefState
  PROVE  /\ s.regs \in [Reg -> Word] /\ s.regs[0] = 0 /\ s.mem \in [Addr -> Byte]
         /\ s.pc \in Word /\ s.slot \in Word \union {None}
         /\ CurOf(s) \in Word /\ CurOf(s) \in Nat /\ Follow(s) \in Word /\ Follow(s) \in Nat
         /\ s = [regs |-> s.regs, mem |-> s.mem, pc |-> s.pc, slot |-> s.slot]
  <1>1. /\ s.regs \in [Reg -> Word] /\ s.regs[0] = 0 /\ s.mem \in [Addr -> Byte]
        /\ s.pc \in Word /\ s.slot \in Word \union {None}
        /\ s = [regs |-> s.regs, mem |-> s.mem, pc |-> s.pc, slot |-> s.slot]
    BY DEF RefState
  <1>2. Word \subseteq Nat /\ Word \subseteq Int
    BY WordNat
  <1>3. s.pc \in Int
    BY ONLY <1>1, <1>2
  <1>4. Plus(s.pc, 4) \in Word
    BY ONLY <1>3, PlusWord
  <1> QED
    BY <1>1, <1>2, <1>4 DEF CurOf, Follow

\* The instruction of a state.
LEMMA InstrParts ==
  ASSUME NEW s, NEW m, NEW T, NEW G, Reached(s, m, T, G)
  PROVE  /\ s \in RefState /\ Meant(s, m, T) /\ StepOf(s) \in G
         /\ T \in SUBSET Addr
         /\ WordIn(s) = TextAt(m, CurOf(s)) /\ WordIn(s) \in Word
         /\ Decoded(InstrIn(s)) /\ InstrIn(s) \in Instr
         /\ InstrIn(s).op \in Ops /\ InstrIn(s).rs \in Reg /\ InstrIn(s).rt \in Reg
         /\ InstrIn(s).imm \in Nat
         /\ RsIn(s) \in Word /\ RtIn(s) \in Word
         /\ InstrIn(s).op = "halt" <=> WordIn(s) = HaltWord
         /\ InstrIn(s).op = "halt" <=> AtEnd(s)
         /\ IllegalIn(s) \/ AtEnd(s) => InstrIn(s).rs = 0 /\ InstrIn(s).rt = 0
  <1>1. s \in RefState /\ Meant(s, m, T) /\ StepOf(s) \in G /\ T \in SUBSET Addr
    BY DEF Reached, Certified
  <1>2. /\ InText(CurOf(s), T) /\ \A a \in T : s.mem[a] = m[a]
        /\ s.slot # None => InstrIn(s).op # "halt"
    BY <1>1 DEF Meant
  <1>3. CurOf(s) \in Nat /\ s.regs \in [Reg -> Word] /\ s.mem \in [Addr -> Byte]
    BY <1>1, StateParts
  <1>4. WordIn(s) = TextAt(m, CurOf(s))
    BY <1>2, <1>3, TextWord DEF WordIn
  <1>5. WordIn(s) \in Word
    <2>1. CurOf(s) + 3 \in Addr
      BY <1>1, <1>2 DEF InText
    <2>2. Backed(CurOf(s), 4)
      BY <1>3, <2>1, BytesHere DEF Backed
    <2>3. 4 \in {1, 2, 4}
      OBVIOUS
    <2> QED
      BY <1>3, <2>2, <2>3, ReadMemWord DEF WordIn
  <1>6. Decoded(InstrIn(s))
    BY <1>5, CodeDecoded DEF InstrIn
  <1>7. /\ InstrIn(s) \in Instr
        /\ InstrIn(s).op \in Ops /\ InstrIn(s).rs \in Reg /\ InstrIn(s).rt \in Reg
        /\ InstrIn(s).imm \in Nat
    BY <1>6 DEF Decoded, Instr
  <1>8. RsIn(s) \in Word /\ RtIn(s) \in Word
    BY <1>3, <1>7 DEF RsIn, RtIn
  <1>9. /\ InstrIn(s).op = "halt" <=> WordIn(s) = HaltWord
        /\ InstrIn(s).op \in {"illegal", "badFunct", "halt"} =>
             InstrIn(s).rs = 0 /\ InstrIn(s).rt = 0
    BY <1>5, MipsAssumption DEF InstrIn
  <1>10. InstrIn(s).op = "halt" <=> AtEnd(s)
    BY <1>2, <1>9 DEF AtEnd
  <1> QED
    BY <1>1, <1>4, <1>5, <1>6, <1>7, <1>8, <1>9, <1>10 DEF IllegalIn

\* What Meant says of an access, in the terms of CacheProofs.
LEMMA MeantAccess ==
  ASSUME NEW s, NEW m, NEW T, NEW G, Reached(s, m, T, G)
  PROVE  /\ InstrIn(s).op \in Loads \union Stores =>
              D!AccessIn(PlaceIn(s), Size(InstrIn(s).op), MemSize)
         /\ InstrIn(s).op \in Stores => D!StoreTag(PlaceIn(s)) = D!Tag(PlaceIn(s))
  <1>1. Meant(s, m, T) /\ RsIn(s) \in Word /\ InstrIn(s).imm \in Nat
    BY InstrParts
  <1>2. PlaceIn(s) \in Nat
    <2>1. PlaceIn(s) \in Word
      BY <1>1, DataWord DEF PlaceIn
    <2> QED
      BY <2>1, WordNat
  <1>3. InstrIn(s).op \in Loads \union Stores =>
          D!AccessIn(PlaceIn(s), Size(InstrIn(s).op), MemSize)
    <2> DEFINE a == PlaceIn(s)
               n == Size(InstrIn(s).op)
    <2>1. DCache!Offset(a) = D!Offset(a)
      BY DEF DCache!Offset, D!Offset
    <2>2. n \in {1, 2, 4} /\ MemSize \in Nat
      BY SizeIn, BytesHere
    <2>3. InstrIn(s).op \in Loads \union Stores =>
            Backed(a, n) /\ DCache!Offset(a) + n <= BlockSize
      BY <1>1 DEF Meant
    <2>4. a \in Nat
      BY <1>2
    <2> HIDE DEF a, n
    <2>5. InstrIn(s).op \in Loads \union Stores => D!AccessIn(a, n, MemSize)
      BY <2>1, <2>2, <2>3, <2>4 DEF Backed, D!AccessIn
    <2> QED
      BY <2>5 DEF a, n
  <1>4. InstrIn(s).op \in Stores => D!StoreTag(PlaceIn(s)) = D!Tag(PlaceIn(s))
    BY <1>1 DEF Meant, DCache!StoreTag, DCache!Tag, D!StoreTag, D!Tag
  <1> QED
    BY <1>3, <1>4

LEMMA StepReached ==
  ASSUME NEW s, NEW m, NEW T, NEW G, Reached(s, m, T, G)
  PROVE  Reached(StepOf(s), m, T, G)
  BY InstrParts DEF Reached

\* An instruction that traps or ends the program has no effect.
LEMMA NoEffect ==
  ASSUME NEW s, TrapsIn(s) \/ AtEnd(s)
  PROVE  StepOf(s).regs = s.regs /\ StepOf(s).mem = s.mem
  BY DEF StepOf, Trapped

\* Which kinds of instructions overflow.
LEMMA OverflowOps ==
  ASSUME NEW s, OverflowIn(s)
  PROVE  /\ InstrIn(s).op \in {"add", "sub", "addi"}
         /\ InstrIn(s).op \in RAlu \union IAlu
         /\ InstrIn(s).op \notin Loads \union Stores \union {"halt", "jal", "illegal", "badFunct"}
  BY DEF OverflowIn, Overflows, RAlu, IAlu, Loads, Stores

\* An instruction changes the register it is said to, to a word.
LEMMA RegsStep ==
  ASSUME NEW s, NEW m, NEW T, NEW G, Reached(s, m, T, G)
  PROVE  /\ Dest(InstrIn(s)) \in Reg
         /\ \A r \in Reg : r = 0 \/ r # Dest(InstrIn(s)) => StepOf(s).regs[r] = s.regs[r]
         /\ ~ TrapsIn(s) => StepOf(s).regs = RegsAfter(s)
         /\ ~ TrapsIn(s) /\ Dest(InstrIn(s)) # 0 => ResultIn(s) \in Word
  <1> DEFINE i == InstrIn(s)
  <1>1. /\ s \in RefState /\ Meant(s, m, T) /\ Decoded(i) /\ i.op \in Ops /\ i.imm \in Nat
        /\ i.op \in {"sll", "srl"} => i.imm \in Bits
        /\ RsIn(s) \in Word /\ RtIn(s) \in Word /\ (i.op = "halt" <=> AtEnd(s))
    BY InstrParts DEF Decoded
  <1>2. /\ s.regs \in [Reg -> Word] /\ s.mem \in [Addr -> Byte] /\ s.pc \in Word
        /\ s.regs[0] = 0
    BY <1>1, StateParts
  <1>3. Dest(i) \in Reg
    BY <1>1, DestReg
  <1>4. ~ TrapsIn(s) => StepOf(s).regs = RegsAfter(s)
    <2>1. CASE AtEnd(s)
      <3>1. Dest(i) = 0
        BY <1>1, <2>1 DEF Dest, RAlu, IAlu, Loads, Atomics
      <3> QED
        BY <2>1, <3>1 DEF StepOf, RegsAfter, Put
    <2>2. CASE ~ AtEnd(s)
      BY <2>2 DEF StepOf, Completed
    <2> QED
      BY <2>1, <2>2
  <1>5. ASSUME ~ TrapsIn(s), Dest(i) # 0
        PROVE  ResultIn(s) \in Word
    <2>1. i.op \notin Atomics
      BY <1>1 DEF Meant
    <2>2. i.op \in RAlu \union IAlu \union Loads \union {"jal"}
      BY <1>5, <2>1 DEF Dest
    <2>3. CASE i.op \in RAlu \union IAlu
      <3>1. ResultIn(s) = Alu(i.op, RsIn(s), RtIn(s), i.imm)
        BY <2>3 DEF ResultIn, RAlu, IAlu, Loads
      <3>2. Alu(i.op, RsIn(s), RtIn(s), i.imm) \in Word
        <4> HIDE DEF i
        <4> QED
          BY <1>1, <2>3, AluWord
      <3> QED
        BY <3>1, <3>2
    <2>4. CASE i.op \in Loads
      <3>1. D!AccessIn(PlaceIn(s), Size(i.op), MemSize)
        BY <2>4, MeantAccess
      <3>2. PlaceIn(s) \in Nat /\ Size(i.op) \in {1, 2, 4} /\ Backed(PlaceIn(s), Size(i.op))
        BY <3>1, BytesHere DEF D!AccessIn, Backed
      <3>3. ReadMem(s.mem, PlaceIn(s), Size(i.op)) \in Word
        BY <1>2, <3>2, ReadMemWord
      <3>4. ResultIn(s) = ReadMem(s.mem, PlaceIn(s), Size(i.op))
        BY <2>4 DEF ResultIn, RAlu, IAlu, Loads
      <3> QED
        BY <3>3, <3>4
    <2>5. CASE i.op = "jal"
      <3>1. ResultIn(s) = Plus(s.pc, 8)
        BY <2>5 DEF ResultIn, RAlu, IAlu, Loads
      <3>2. s.pc \in Int
        <4>1. Word \subseteq Int
          BY WordNat
        <4> QED
          BY ONLY <1>2, <4>1
      <3>3. Plus(s.pc, 8) \in Word
        BY ONLY <3>2, PlusWord
      <3> QED
        BY <3>1, <3>3
    <2> QED
      BY <2>2, <2>3, <2>4, <2>5
  <1>6. \A r \in Reg : r = 0 \/ r # Dest(i) => StepOf(s).regs[r] = s.regs[r]
    <2>1. CASE TrapsIn(s)
      BY <2>1, NoEffect
    <2>2. CASE ~ TrapsIn(s)
      BY <1>2, <1>3, <1>4, <2>2 DEF RegsAfter, Put
    <2> QED
      BY <2>1, <2>2
  <1> QED
    BY <1>3, <1>4, <1>5, <1>6

-----------------------------------------------------------------------------
(***************************************************************************)
(* The instructions in flight.  The state of the functional simulator, and *)
(* what it is going to be before the instruction in the memory stage, in   *)
(* the execute stage and in the decode stage.                              *)
(***************************************************************************)

Past(s, l) == IF l.at = None THEN s ELSE StepOf(s)

S0 == [regs |-> rregs, mem |-> rmem, pc |-> rpc, slot |-> rslot]
S1 == Past(S0, memwb)
S2 == Past(S1, exmem)
S3 == Past(S2, idex)

LEMMA PastReached ==
  ASSUME NEW s, NEW m, NEW T, NEW G, Reached(s, m, T, G), NEW l
  PROVE  Reached(Past(s, l), m, T, G)
  BY StepReached DEF Past

LEMMA FlightReached ==
  ASSUME NEW m, NEW T, NEW G, Reached(S0, m, T, G)
  PROVE  Reached(S1, m, T, G) /\ Reached(S2, m, T, G) /\ Reached(S3, m, T, G)
  BY PastReached DEF S1, S2, S3

\* The functional simulator has the words and instructions of the pipeline.
LEMMA ReferenceSame ==
  /\ Ref!RAlu = RAlu /\ Ref!IAlu = IAlu /\ Ref!Loads = Loads /\ Ref!Stores = Stores
  /\ Ref!Jumps = Jumps
  /\ \A x, y : Ref!Plus(x, y) = Plus(x, y) /\ Ref!DataAddr(x, y) = DataAddr(x, y)
  /\ \A x, y : Ref!BranchTarget(x, y) = BranchTarget(x, y) /\ Ref!JumpTarget(x, y) = JumpTarget(x, y)
  /\ \A op, x, y, k : Ref!Overflows(op, x, y, k) = Overflows(op, x, y, k)
  /\ \A op \in RAlu \union IAlu : \A x, y, k : Ref!Alu(op, x, y, k) = Alu(op, x, y, k)
  /\ \A op : Ref!Size(op) = Size(op)
  /\ \A a, n : Ref!Backed(a, n) = Backed(a, n)
  /\ \A f, a, n : Ref!ReadMem(f, a, n) = ReadMem(f, a, n)
  /\ \A f, a, w, n : Ref!WriteMem(f, a, w, n) = WriteMem(f, a, w, n)
  <1>1. /\ Ref!WordMod = WordMod
        /\ Ref!RAlu = RAlu /\ Ref!IAlu = IAlu /\ Ref!Loads = Loads /\ Ref!Stores = Stores
        /\ Ref!Jumps = Jumps
    BY DEF Ref!WordMod, WordMod, Ref!RAlu, RAlu, Ref!IAlu, IAlu, Ref!Loads, Loads,
           Ref!Stores, Stores, Ref!Jumps, Jumps
  <1>2. Ref!Word = Word /\ Ref!Addr = Addr /\ Ref!Weight = Weight
    BY <1>1 DEF Ref!Word, Word, Ref!Addr, Addr, Ref!Weight, Weight
  <1>3. /\ \A x, y : Ref!Plus(x, y) = Plus(x, y) /\ Ref!Minus(x, y) = Minus(x, y)
        /\ \A x : Ref!SignExtend(x) = SignExtend(x) /\ Ref!Sign(x) = Sign(x)
        /\ \A x : Ref!Signed(x) = Signed(x)
        /\ \A x, k : Ref!BitOf(x, k) = BitOf(x, k)
        /\ \A x, y : Ref!Less(x, y) = Less(x, y)
    BY <1>1 DEF Ref!Plus, Plus, Ref!Minus, Minus, Ref!SignExtend, SignExtend, Ref!Sign, Sign,
           Ref!Signed, Signed, Ref!BitOf, BitOf, Ref!Less, Less
  <1>4. \A S : Ref!BitWord(S) = BitWord(S)
    BY <1>2, <1>3 DEF Ref!BitWord, BitWord
  <1>5. \A x, y : Ref!AndBits(x, y) = AndBits(x, y) /\ Ref!OrBits(x, y) = OrBits(x, y)
    BY <1>3, <1>4 DEF Ref!AndBits, AndBits, Ref!OrBits, OrBits
  <1>6. \A op \in RAlu \union IAlu : \A x, y, k : Ref!Alu(op, x, y, k) = Alu(op, x, y, k)
    BY <1>1, <1>3, <1>5 DEF Ref!Alu, Alu, RAlu, IAlu
  <1>7. /\ \A x, y : Ref!AddOverflows(x, y) = AddOverflows(x, y)
        /\ \A x, y : Ref!SubOverflows(x, y) = SubOverflows(x, y)
    BY <1>3 DEF Ref!AddOverflows, AddOverflows, Ref!SubOverflows, SubOverflows
  <1>8. \A op, x, y, k : Ref!Overflows(op, x, y, k) = Overflows(op, x, y, k)
    BY <1>3, <1>7 DEF Ref!Overflows, Overflows
  <1>9. /\ \A x, y : Ref!DataAddr(x, y) = DataAddr(x, y)
        /\ \A x, y : Ref!BranchTarget(x, y) = BranchTarget(x, y)
        /\ \A x, y : Ref!JumpTarget(x, y) = JumpTarget(x, y)
    BY <1>3 DEF Ref!DataAddr, DataAddr, Ref!BranchTarget, BranchTarget, Ref!JumpTarget, JumpTarget
  <1>10. \A op : Ref!Size(op) = Size(op)
    BY DEF Ref!Size, Size
  <1>11. \A a, n : Ref!Backed(a, n) = Backed(a, n)
    BY DEF Ref!Backed, Backed
  <1>12. \A b : Ref!WordOf(b) = WordOf(b)
    BY DEF Ref!WordOf, WordOf
  <1>13. \A w, n : Ref!BytesOf(w, n) = BytesOf(w, n)
    BY <1>2 DEF Ref!BytesOf, BytesOf
  <1>14. \A f, a, n : Ref!ReadMem(f, a, n) = ReadMem(f, a, n)
    BY <1>12 DEF Ref!ReadMem, ReadMem
  <1>15. \A f, a, w, n : Ref!WriteMem(f, a, w, n) = WriteMem(f, a, w, n)
    BY <1>2, <1>13 DEF Ref!WriteMem, WriteMem
  <1> QED
    BY ONLY <1>1, <1>3, <1>6, <1>8, <1>9, <1>10, <1>11, <1>14, <1>15

\* A step of the functional simulator is StepOf.
LEMMA ReferenceStep ==
  ASSUME NEW m, NEW T, NEW G, Reached(S0, m, T, G), ~ rfailed, ~ AtEnd(S0), Ref!Next
  PROVE  S0' = StepOf(S0) /\ ~ rfailed'
  <1> DEFINE i == InstrIn(S0)
             next == Follow(S0)
  <1>1. /\ S0 \in RefState /\ Meant(S0, m, T) /\ T \in SUBSET Addr /\ WordIn(S0) \in Word
        /\ i.op \in Ops /\ i.op # "halt"
    BY InstrParts
  <1>2. S0.regs = rregs /\ S0.mem = rmem /\ S0.pc = rpc /\ S0.slot = rslot
    BY DEF S0
  <1>3. Ref!Current = CurOf(S0) /\ Ref!Fetched = WordIn(S0)
    BY <1>2, ReferenceSame DEF Ref!Current, Ref!Fetched, CurOf, WordIn
  <1>4. Backed(Ref!Current, 4)
    <2>1. CurOf(S0) + 3 \in Addr
      BY <1>1 DEF Meant, InText
    <2>2. CurOf(S0) \in Nat
      BY <1>1, StateParts
    <2> QED
      BY <1>3, <2>1, <2>2, BytesHere DEF Backed
  <1>5. Ref!Run(i, next)
    <2>1. Code[Ref!Fetched] = i
      BY <1>3 DEF InstrIn
    <2>2. CASE Ref!RunInstruction
      BY <1>2, <2>1, <2>2, ReferenceSame DEF Ref!RunInstruction, Follow
    <2>3. CASE Ref!RunDelayInstruction
      BY <1>2, <2>1, <2>3 DEF Ref!RunDelayInstruction, Follow
    <2>4. ~ Ref!FailedFetch
      BY <1>4, ReferenceSame DEF Ref!FailedFetch
    <2> QED
      BY <2>2, <2>3, <2>4 DEF Ref!Next
  <1>6. /\ rregs[i.rs] = RsIn(S0) /\ rregs[i.rt] = RtIn(S0)
        /\ Ref!Place(i) = PlaceIn(S0)
    BY <1>2, ReferenceSame DEF RsIn, RtIn, PlaceIn, Ref!Place
  <1>7. i.op \notin Atomics \union {"bgtz", "blez"}
    BY <1>1 DEF Meant
  <1>8. Ref!Traps(i) <=> TrapsIn(S0)
    BY <1>1, <1>6, <1>7, ReferenceSame DEF Ref!Traps, Ref!Illegal, TrapsIn, IllegalIn, OverflowIn
  <1>9. ~ Ref!Refused(i)
    <2>2. i.op # "ll"
      BY <1>7 DEF Atomics
    <2>3. i.op \in Loads \union Stores => Backed(PlaceIn(S0), Size(i.op))
      BY <1>1 DEF Meant
    <2> QED
      BY <1>6, <2>2, <2>3, ReferenceSame DEF Ref!Refused
  <1>10. CASE TrapsIn(S0)
    <2>1. Ref!Trap
      BY <1>5, <1>8, <1>10 DEF Ref!Run
    <2>2. /\ rregs' = rregs /\ rmem' = rmem /\ rpc' = ExcAddr /\ rslot' = None
          /\ rfailed' = rfailed
      BY <2>1 DEF Ref!Trap
    <2>3. StepOf(S0) = Trapped(S0)
      BY <1>10 DEF StepOf
    <2> QED
      BY <1>2, <2>2, <2>3 DEF Trapped, S0
  <1>11. CASE ~ TrapsIn(S0)
    <2>1. /\ Ref!Effect(i)
          /\ IF Ref!Target(i) = None THEN rpc' = next /\ rslot' = None
             ELSE rpc' = Ref!Target(i) /\ rslot' = Plus(rpc, 4)
          /\ rfailed' = rfailed
      BY <1>5, <1>8, <1>9, <1>11, ReferenceSame DEF Ref!Run
    <2>2. Ref!Target(i) = GoesTo(S0)
      BY <1>2, <1>6, ReferenceSame DEF Ref!Target, GoesTo
    <2>3. rregs' = RegsAfter(S0) /\ rmem' = MemAfter(S0)
      <3>1. CASE Ref!Arithmetic(i)
        <4>1. /\ i.op \in RAlu \union IAlu /\ i.op \notin Stores
              /\ Dest(i) = IF i.op \in RAlu THEN i.rd ELSE i.rt
          BY <3>1, ReferenceSame DEF Ref!Arithmetic, Dest, RAlu, IAlu, Stores, Loads, Atomics
        <4>2. ResultIn(S0) = Alu(i.op, RsIn(S0), RtIn(S0), i.imm)
          BY <4>1 DEF ResultIn, RAlu, IAlu, Loads
        <4> HIDE DEF i
        <4> DEFINE v == Ref!Alu(i.op, rregs[i.rs], rregs[i.rt], i.imm)
                   r == IF i.op \in RAlu THEN i.rd ELSE i.rt
        <4>3. /\ rregs' = (IF r = 0 THEN rregs ELSE [rregs EXCEPT ![r] = v])
              /\ rmem' = rmem
          BY <3>1, ReferenceSame DEF Ref!Arithmetic, Ref!SetReg
        <4>4. v = ResultIn(S0) /\ r = Dest(i)
          BY <1>6, <4>1, <4>2, ReferenceSame
        <4> HIDE DEF v, r
        <4>5. rregs' = Put(rregs, Dest(i), ResultIn(S0)) /\ rmem' = rmem
          BY <4>3, <4>4 DEF Put
        <4> QED
          BY <1>2, <4>1, <4>5 DEF RegsAfter, MemAfter, i
      <3>2. CASE Ref!Load(i)
        <4>1. i.op \in Loads /\ i.op \notin Stores /\ Dest(i) = i.rt
          BY <1>7, <3>2, ReferenceSame DEF Ref!Load, Dest, RAlu, IAlu, Stores, Loads, Atomics
        <4>2. ResultIn(S0) = ReadMem(rmem, PlaceIn(S0), Size(i.op))
          BY <1>2, <4>1 DEF ResultIn, RAlu, IAlu, Loads
        <4> HIDE DEF i
        <4>3. rregs' = Put(rregs, Dest(i), ResultIn(S0)) /\ rmem' = rmem
          BY <1>6, <3>2, <4>1, <4>2, ReferenceSame DEF Ref!Load, Ref!SetReg, Put
        <4> QED
          BY <1>2, <4>1, <4>3 DEF RegsAfter, MemAfter, i
      <3>3. CASE Ref!Store(i)
        <4>1. i.op \in Stores /\ Dest(i) = 0
          BY <3>3, ReferenceSame DEF Ref!Store, Dest, RAlu, IAlu, Stores, Loads, Atomics
        <4> HIDE DEF i
        <4>2. /\ rregs' = rregs
              /\ rmem' = WriteMem(rmem, PlaceIn(S0), RtIn(S0), Size(i.op))
          BY <1>6, <3>3, ReferenceSame DEF Ref!Store
        <4> QED
          BY <1>2, <4>1, <4>2 DEF RegsAfter, MemAfter, Put, i
      <3>4. CASE Ref!StoreConditional(i)
        BY <1>7, <3>4 DEF Ref!StoreConditional, Atomics
      <3>5. CASE Ref!Control(i)
        <4>1. /\ i.op \in Jumps \union {"beq", "bne"} /\ i.op \notin Stores
              /\ Dest(i) = IF i.op = "jal" THEN LinkReg ELSE 0
          BY <3>5, ReferenceSame DEF Ref!Control, Dest, RAlu, IAlu, Stores, Loads, Atomics, Jumps
        <4>2. i.op = "jal" => ResultIn(S0) = Plus(rpc, 8)
          BY <1>2, <4>1 DEF ResultIn, RAlu, IAlu, Loads
        <4> HIDE DEF i
        <4>3. rregs' = Put(rregs, Dest(i), ResultIn(S0)) /\ rmem' = rmem
          BY <3>5, <4>1, <4>2, ReferenceSame DEF Ref!Control, Ref!SetReg, Put
        <4> QED
          BY <1>2, <4>1, <4>3 DEF RegsAfter, MemAfter, i
      <3> QED
        BY <2>1, <3>1, <3>2, <3>3, <3>4, <3>5 DEF Ref!Effect
    <2>4. S0' = Completed(S0)
      <3> HIDE DEF next
      <3>1. /\ rpc' = (IF GoesTo(S0) = None THEN next ELSE GoesTo(S0))
            /\ rslot' = (IF GoesTo(S0) = None THEN None ELSE Plus(rpc, 4))
        BY <2>1, <2>2
      <3>2. S0' = [regs |-> rregs', mem |-> rmem', pc |-> rpc', slot |-> rslot']
        BY DEF S0
      <3> QED
        BY ONLY <1>2, <2>3, <3>1, <3>2 DEF Completed, next
    <2>5. StepOf(S0) = Completed(S0)
      BY <1>11 DEF StepOf
    <2> QED
      BY <2>1, <2>4, <2>5
  <1> QED
    BY <1>10, <1>11

-----------------------------------------------------------------------------
(***************************************************************************)
(* Latches.  What each holds of the instruction it carries.                *)
(***************************************************************************)

\* A latch without effect; one that carries the instruction of s.
Idle(l) == l.op = "sll" /\ l.dest = 0
Carries(l, s) ==
  LET i == InstrIn(s)
  IN  /\ l.op = i.op /\ l.rs = i.rs /\ l.rt = i.rt /\ l.imm = i.imm
      /\ l.dest = Dest(i) /\ l.rsValue = RsIn(s) /\ l.rtValue = RtIn(s)

Of(l, s) == l.at # None => l.at = CurOf(s)

Written(rg, l) == IF Writes(l) THEN [rg EXCEPT ![l.dest] = l.value] ELSE rg

\* An instruction in the write-back stage has its result, one in the memory
\* stage has it unless it is a load, one in the execute stage if it is a jal.
WbOK(l, s) ==
  /\ Of(l, s)
  /\ IF l.at = None \/ TrapsIn(s) THEN Idle(l) ELSE l.op = InstrIn(s).op
  /\ Written(s.regs, l) = Past(s, l).regs
  /\ l.op \in Stores => DataAddr(l.rsValue, l.imm) = PlaceIn(s)
MemOK(l, s) ==
  /\ Of(l, s)
  /\ IF l.at = None \/ TrapsIn(s) THEN Idle(l)
     ELSE Carries(l, s) /\ l.value = IF l.op \in Loads THEN NoValue ELSE ResultIn(s)
ExOK(l, s) ==
  /\ Of(l, s)
  /\ IF l.at = None \/ IllegalIn(s) THEN Idle(l)
     ELSE Carries(l, s) /\ l.value = IF l.op = "jal" THEN ResultIn(s) ELSE NoValue

\* Registers are written back as the functional simulator writes them.
LEMMA WritesBack ==
  ASSUME NEW s, WbOK(memwb, s), regs = s.regs
  PROVE  WriteBack(memwb) = Past(s, memwb).regs
  BY DEF WbOK, Written, WriteBack

LEMMA BubbleOK ==
  ASSUME NEW s
  PROVE  WbOK(Bubble, s) /\ MemOK(Bubble, s) /\ ExOK(Bubble, s) /\ Past(s, Bubble) = s
  <1>1. /\ Bubble.at = None /\ Bubble.op = "sll" /\ Bubble.dest = 0
        /\ Bubble.value = NoValue
    BY DEF Bubble
  <1>2. ~ Writes(Bubble)
    BY <1>1 DEF Writes
  <1> HIDE DEF Bubble
  <1> QED
    BY <1>1, <1>2 DEF WbOK, MemOK, ExOK, Past, Of, Idle, Written, Stores

\* The halt word is where the program ends.
LEMMA WbHalts ==
  ASSUME NEW s, NEW m, NEW T, NEW G, Reached(s, m, T, G), NEW l, WbOK(l, s)
  PROVE  l.op = "halt" <=> l.at # None /\ AtEnd(s)
  <1>1. InstrIn(s).op = "halt" <=> AtEnd(s)
    BY InstrParts
  <1>2. AtEnd(s) => ~ TrapsIn(s)
    BY <1>1, OverflowOps DEF TrapsIn, IllegalIn
  <1> QED
    BY <1>1, <1>2 DEF WbOK, Idle

\* What has its result may be written back.
LEMMA PassesOn ==
  ASSUME NEW s, NEW m, NEW T, NEW G, Reached(s, m, T, G), NEW l, MemOK(l, s),
         NEW k, k.op = l.op, k.dest = l.dest, k.at = l.at,
         l.op \in Stores => k.rsValue = l.rsValue /\ k.imm = l.imm,
         l.at # None /\ ~ TrapsIn(s) /\ l.dest # 0 => k.value = ResultIn(s)
  PROVE  WbOK(k, s)
  <1>1. Of(k, s)
    BY DEF MemOK, Of
  <1>2. CASE l.at = None \/ TrapsIn(s)
    <2>1. Idle(k)
      BY <1>2 DEF MemOK, Idle
    <2>2. Written(s.regs, k) = s.regs
      BY <2>1 DEF Idle, Written, Writes
    <2>3. Past(s, k).regs = s.regs
      BY <1>2, NoEffect DEF Past
    <2>4. k.op \notin Stores
      BY <2>1 DEF Idle, Stores
    <2> QED
      BY <1>1, <1>2, <2>1, <2>2, <2>3, <2>4 DEF WbOK
  <1>3. CASE l.at # None /\ ~ TrapsIn(s)
    <2>1. k.op = InstrIn(s).op /\ k.dest = Dest(InstrIn(s))
      BY <1>3 DEF MemOK, Carries
    <2>2. Past(s, k).regs = RegsAfter(s)
      BY <1>3, RegsStep DEF Past
    <2>5. k.op \in Stores => DataAddr(k.rsValue, k.imm) = PlaceIn(s)
      BY <1>3 DEF MemOK, Carries, PlaceIn
    <2>3. CASE k.dest = 0
      BY <1>1, <1>3, <2>1, <2>2, <2>3, <2>5 DEF WbOK, Written, Writes, RegsAfter, Put
    <2>4. CASE k.dest # 0
      <3>1. k.value = ResultIn(s) /\ ResultIn(s) \in Word
        BY <1>3, <2>1, <2>4, RegsStep
      <3>2. Writes(k)
        BY <2>4, <3>1, PipelineAssumption DEF Writes
      <3> QED
        BY <1>1, <1>3, <2>1, <2>2, <2>4, <2>5, <3>1, <3>2 DEF WbOK, Written, RegsAfter, Put
    <2> QED
      BY <2>3, <2>4
  <1> QED
    BY <1>2, <1>3

\* What an access to memory carries.
LEMMA AccessCarried ==
  ASSUME NEW s, NEW m, NEW T, NEW G, Reached(s, m, T, G), NEW l, MemOK(l, s),
         l.op \in Loads \union Stores
  PROVE  /\ l.at # None /\ ~ TrapsIn(s) /\ ~ AtEnd(s) /\ Carries(l, s)
         /\ D!AccessIn(PlaceIn(s), Size(l.op), MemSize)
         /\ DataAddr(l.rsValue, l.imm) = PlaceIn(s)
         /\ l.op \in Stores => D!StoreTag(PlaceIn(s)) = D!Tag(PlaceIn(s))
         /\ Past(s, l) = Completed(s)
  <1>1. l.at # None /\ ~ TrapsIn(s) /\ Carries(l, s)
    BY DEF MemOK, Idle, Loads, Stores
  <1>2. l.op = InstrIn(s).op /\ l.rsValue = RsIn(s) /\ l.imm = InstrIn(s).imm
    BY <1>1 DEF Carries
  <1>3. ~ AtEnd(s) /\ Meant(s, m, T)
    <2>1. Meant(s, m, T) /\ (InstrIn(s).op = "halt" <=> AtEnd(s))
      BY InstrParts
    <2> QED
      BY <1>2, <2>1 DEF Loads, Stores
  <1>4. Past(s, l) = Completed(s)
    BY <1>1, <1>3 DEF Past, StepOf
  <1> QED
    BY <1>1, <1>2, <1>3, <1>4, MeantAccess DEF PlaceIn

\* Nothing but a store changes memory.
LEMMA MemStep ==
  ASSUME NEW s, NEW l, IF l.at = None \/ TrapsIn(s) THEN Idle(l) ELSE l.op = InstrIn(s).op,
         l.op \notin Stores
  PROVE  Past(s, l).mem = s.mem
  <1>1. CASE l.at = None \/ TrapsIn(s)
    BY <1>1, NoEffect DEF Past
  <1>2. CASE l.at # None /\ ~ TrapsIn(s)
    BY <1>2 DEF Past, StepOf, Completed, MemAfter
  <1> QED
    BY <1>1, <1>2

\* A latch and what it is of.
Kind(l, s) == IF l.at = None \/ TrapsIn(s) THEN Idle(l) ELSE l.op = InstrIn(s).op

LEMMA MemKind ==
  ASSUME NEW s, NEW l, MemOK(l, s)
  PROVE  Kind(l, s)
  BY DEF MemOK, Carries, Kind

\* handleMemForwarding has nothing to give: the operands are forwarded already.
LEMMA NothingToForward ==
  ASSUME PipeInv, NEW m, NEW T, NEW G, Reached(S0, m, T, G),
         WbOK(memwb, S0), MemOK(exmem, S1)
  PROVE  Accessing = exmem
  <1>1. CASE exmem.op \notin IType
    BY <1>1 DEF Accessing
  <1>2. CASE exmem.op \in IType
    <2>1. exmem.at # None /\ ~ TrapsIn(S1)
      BY <1>2 DEF MemOK, Idle, IType, IAlu, Loads, Stores, Atomics, Branches
    <2>2. exmem.rtValue = S1.regs[exmem.rt]
      BY <2>1 DEF MemOK, Carries, RtIn
    <2>3. exmem \in Latch /\ memwb \in Latch
      BY DEF PipeInv, TypeOK
    <2>4. ASSUME Writes(memwb), memwb.dest = exmem.rt
          PROVE  memwb.value = exmem.rtValue
      <3>1. S1.regs = [S0.regs EXCEPT ![memwb.dest] = memwb.value]
        BY <2>4 DEF WbOK, Written, S1
      <3>2. S0.regs \in [Reg -> Word] /\ memwb.dest \in Reg
        BY <2>3, LatchParts, InstrParts, StateParts
      <3> QED
        BY <2>2, <2>4, <3>1, <3>2
    <2>5. (IF Writes(memwb) /\ memwb.dest = exmem.rt THEN memwb.value ELSE exmem.rtValue)
            = exmem.rtValue
      BY <2>4
    <2>6. ForwardMem(exmem, memwb) = [exmem EXCEPT !.rtValue = exmem.rtValue]
      BY <2>5 DEF ForwardMem
    <2>7. [exmem EXCEPT !.rtValue = exmem.rtValue] = exmem
      BY <2>3 DEF Latch
    <2> QED
      BY <1>2, <2>6, <2>7 DEF Accessing
  <1> QED
    BY <1>1, <1>2

-----------------------------------------------------------------------------
(***************************************************************************)
(* The memory stage.                                                       *)
(***************************************************************************)

\* What is assumed of the data cache: blocks are ready after at most the
\* latency, and the text is what it was.
DataKept(ls, ms, now, T, m) == D!ReadyBound(ls, now) /\ D!TextKept(ls, ms, T, m)

\* The cache finds the pipeline's data cache as CacheProofs describes it.
LEMMA BeforeOK ==
  ASSUME PipeInv, D!ReadyBound(dLines, cycle), NEW u \in Byte
  PROVE  /\ D!CacheOK(Before(dLines, mem, dStats, u), Byte, MemSize, cycle)
         /\ Before(dLines, mem, dStats, u) \in D!CacheState(Byte, MemSize)
         /\ Before(dLines, mem, dStats, u).lines = dLines
         /\ Before(dLines, mem, dStats, u).mem = mem
         /\ cycle \in Nat /\ 0 \in Nat
  <1>1. /\ LinesTyped /\ cycle \in Nat /\ 0 \in Nat
        /\ D!OneCopy(dLines) /\ D!CleanAgrees(dLines, mem)
    BY TypedLines, PipelineAssumption DEF PipeInv, TypeOK, CachesSound
  <1>2. /\ Before(dLines, mem, dStats, u) \in D!CacheState(Byte, MemSize)
        /\ Before(dLines, mem, dStats, u).lines = dLines
        /\ Before(dLines, mem, dStats, u).mem = mem
    BY <1>1, BeforeState DEF Before
  <1> QED
    BY <1>1, <1>2 DEF D!CacheOK

\* An access counts as a miss exactly if it is to wait, for the latency.
Charged(delay, stats) ==
  IF delay = 0 THEN stats.misses = dStats.misses
  ELSE delay = DCLatency /\ stats.misses = (dStats.misses + 1) % CounterMod

LEMMA LoadRight ==
  ASSUME PipeInv, NEW T \in SUBSET Addr, NEW m, DataKept(dLines, mem, cycle, T, m),
         NEW x \in Latch, x.op \in Loads, NEW a, a = DataAddr(x.rsValue, x.imm),
         D!AccessIn(a, Size(x.op), MemSize), NEW u \in Byte,
         NEW r, r = MemAccess(x, mem, u)
  PROVE  /\ r.latch.op = x.op /\ r.latch.dest = x.dest /\ r.latch.at = x.at
         /\ r.delay # 0 => r.latch = x
         /\ r.delay = 0 => r.latch.value = ReadMem(D!View(dLines, mem), a, Size(x.op))
         /\ D!View(r.lines, r.mem) = D!View(dLines, mem)
         /\ DataKept(r.lines, r.mem, cycle, T, m)
         /\ Charged(r.delay, r.stats)
  <1> DEFINE p == Before(dLines, mem, dStats, u)
             n == Size(x.op)
             t == D!GetCacheValue(p, a, n, cycle, 0, u)
             V == D!View(dLines, mem)
  <1>1. /\ D!CacheOK(p, Byte, MemSize, cycle) /\ p \in D!CacheState(Byte, MemSize)
        /\ p.lines = dLines /\ p.mem = mem /\ cycle \in Nat /\ 0 \in Nat
    BY BeforeOK DEF DataKept
  <1>2. r = Accessed(x, t)
    <2>1. Loads \intersect Stores = {}
      BY DEF Loads, Stores
    <2> QED
      BY <2>1, DCacheSame DEF MemAccess, Before
  <1>3. n \in {1, 2, 4} /\ a \in Nat /\ MemSize \in Nat /\ T \in SUBSET (0 .. MemSize - 1)
    BY SizeIn, BytesHere DEF D!AccessIn
  <1> HIDE DEF p, n
  <1>4. D!Loaded(t.cache, t.bytes, p, a, n, Byte, MemSize, cycle)
    BY <1>1, <1>3, Geometries, D!GetValueKeeps DEF n
  <1>5. /\ D!TextKept(t.cache.lines, t.cache.mem, T, m) /\ D!ReadyBound(t.cache.lines, cycle)
    <2>1. D!ReadyBound(p.lines, cycle) /\ D!TextCache(p, Byte, MemSize, T, m)
      BY <1>1, <1>3 DEF DataKept, D!TextCache
    <2>2. D!TextRead(t, a, n, cycle, T, m)
      BY <1>1, <1>3, <2>1, Geometries, D!ReadText
    <2> QED
      BY <2>2 DEF D!TextRead
  <1> HIDE DEF t
  <1>6. /\ r.delay = t.cache.result /\ r.lines = t.cache.lines /\ r.mem = t.cache.mem
        /\ r.latch = IF t.cache.result = 0 THEN [x EXCEPT !.value = WordOf(t.bytes)] ELSE x
    BY <1>2 DEF Accessed
  <1>7. D!View(r.lines, r.mem) = V
    BY <1>1, <1>4, <1>6 DEF D!Loaded
  <1>8. ASSUME r.delay = 0
        PROVE  r.latch.value = ReadMem(V, a, n)
    <2>1. t.bytes = [k \in 1 .. n |-> V[a + k - 1]]
      BY <1>1, <1>4, <1>6, <1>8 DEF D!Loaded
    <2>2. WordOf(t.bytes) = ReadMem(V, a, n)
      BY <2>1 DEF ReadMem
    <2>3. r.latch = [x EXCEPT !.value = WordOf(t.bytes)]
      BY <1>6, <1>8
    <2> QED
      BY <2>2, <2>3 DEF Latch
  <1>9. r.latch.op = x.op /\ r.latch.dest = x.dest /\ r.latch.at = x.at
    BY <1>6 DEF Latch
  <1>10. Charged(r.delay, r.stats)
    <2>1. t.cache.result \in {0, DCLatency}
      BY <1>4, Geometries, D!StateParts DEF D!Loaded, D!CacheOK
    <2>2. p.misses = dStats.misses
      BY DEF p, Before
    <2>3. r.stats.misses = t.cache.misses
      BY <1>2 DEF Accessed
    <2> QED
      BY <1>4, <1>6, <2>1, <2>2, <2>3 DEF Charged, D!Loaded
  <1> QED
    BY <1>5, <1>6, <1>7, <1>8, <1>9, <1>10 DEF DataKept, n

LEMMA StoreRight ==
  ASSUME PipeInv, NEW T \in SUBSET Addr, NEW m, DataKept(dLines, mem, cycle, T, m),
         NEW x \in Latch, x.op \in Stores, NEW a, a = DataAddr(x.rsValue, x.imm),
         D!AccessIn(a, Size(x.op), MemSize), D!StoreTag(a) = D!Tag(a), NEW u \in Byte,
         NEW v, v = BytesOf(x.rtValue, Size(x.op)),
         \A k \in 1 .. Size(x.op) : a + k - 1 \in T => v[k] = m[a + k - 1],
         NEW r, r = MemAccess(x, mem, u)
  PROVE  /\ r.latch = x
         /\ r.delay = 0 => D!View(r.lines, r.mem) = D!Stored(D!View(dLines, mem), a, v)
         /\ r.delay # 0 => D!View(r.lines, r.mem) \in
                             {D!View(dLines, mem), D!Patched(D!View(dLines, mem), a, v[1])}
         /\ DataKept(r.lines, r.mem, cycle, T, m)
         /\ Charged(r.delay, r.stats)
  <1> DEFINE p == Before(dLines, mem, dStats, u)
             n == Size(x.op)
             c == D!SetCacheValue(p, a, v, cycle, 0, u)
  <1>1. /\ D!CacheOK(p, Byte, MemSize, cycle) /\ p \in D!CacheState(Byte, MemSize)
        /\ p.lines = dLines /\ p.mem = mem /\ cycle \in Nat /\ 0 \in Nat
    BY BeforeOK DEF DataKept
  <1>2. r = Accessed(x, [cache |-> c, bytes |-> <<>>])
    <2>1. Loads \intersect Stores = {}
      BY DEF Loads, Stores
    <2> QED
      BY <2>1, DCacheSame DEF MemAccess, Before
  <1>3. /\ n \in {1, 2, 4} /\ a \in Nat /\ MemSize \in Nat /\ T \in SUBSET (0 .. MemSize - 1)
        /\ x.rtValue \in Word
    BY SizeIn, BytesHere, LatchParts DEF D!AccessIn
  <1>4. v \in [1 .. n -> Byte]
    BY <1>3, BytesOfBytes
  <1> HIDE DEF p, n
  <1>5. D!Wrote(c, p, a, v, Byte, MemSize, cycle)
    BY <1>1, <1>3, <1>4, Geometries, D!SetValueKeeps DEF n
  <1>6. D!TextKept(c.lines, c.mem, T, m)
    <2>1. D!TextCache(p, Byte, MemSize, T, m)
      BY <1>1, <1>3 DEF DataKept, D!TextCache
    <2> QED
      BY <1>1, <1>3, <1>4, <2>1, Geometries, D!WriteText DEF n
  <1> HIDE DEF c
  <1>7. D!ReadyBound(c.lines, cycle)
    BY <1>5 DEF D!Wrote, D!CacheOK
  <1>8. /\ r.delay = c.result /\ r.lines = c.lines /\ r.mem = c.mem /\ r.latch = x
    <2>1. x.op \notin Loads
      BY DEF Loads, Stores
    <2> QED
      BY <1>2, <2>1 DEF Accessed
  <1>9. /\ r.delay = 0 => D!View(r.lines, r.mem) = D!Stored(D!View(dLines, mem), a, v)
        /\ r.delay # 0 => D!View(r.lines, r.mem) \in
                             {D!View(dLines, mem), D!Patched(D!View(dLines, mem), a, v[1])}
    BY <1>1, <1>5, <1>8 DEF D!Wrote
  <1>10. Charged(r.delay, r.stats)
    <2>1. c.result \in {0, DCLatency}
      BY <1>5, Geometries, D!StateParts DEF D!Wrote, D!CacheOK
    <2>2. p.misses = dStats.misses
      BY DEF p, Before
    <2>3. r.stats.misses = c.misses
      BY <1>2 DEF Accessed
    <2> QED
      BY <1>5, <1>8, <2>1, <2>2, <2>3 DEF Charged, D!Wrote
  <1> QED
    BY <1>6, <1>7, <1>8, <1>9, <1>10 DEF DataKept

\* The bytes a store that waits for its block may have written already.
Between(V, f, g) == \A a \in Addr : V[a] \in {f[a], g[a]}

SeenOK ==
  LET V == D!View(dLines, mem)
  IN  IF exmem.op \in Stores /\ memHalt > 0
      THEN Between(V, S1.mem, S2.mem) ELSE V = S1.mem

LEMMA SeenBetween ==
  ASSUME SeenOK, NEW m, NEW T, NEW G, Reached(S0, m, T, G), mem \in [Addr -> Byte]
  PROVE  /\ Between(D!View(dLines, mem), S1.mem, S2.mem) /\ DOMAIN D!View(dLines, mem) = Addr
         /\ S1.mem \in [Addr -> Byte] /\ S2.mem \in [Addr -> Byte]
         /\ S1 \in RefState /\ S2 \in RefState
  <1>1. /\ S1.mem \in [Addr -> Byte] /\ S2.mem \in [Addr -> Byte]
        /\ S1 \in RefState /\ S2 \in RefState
    BY FlightReached, InstrParts, StateParts
  <1>2. DOMAIN D!View(dLines, mem) = Addr
    BY DEF D!View
  <1>3. Between(D!View(dLines, mem), S1.mem, S2.mem)
    BY DEF SeenOK, Between
  <1> QED
    BY <1>1, <1>2, <1>3

\* A store, in one go or byte by byte, stays between memory before and after it.
LEMMA StoredBetween ==
  ASSUME NEW V, DOMAIN V = Addr, NEW f \in [Addr -> Byte], NEW a \in Nat, NEW w,
         NEW n \in {1, 2, 4}, NEW g, g = WriteMem(f, a, w, n), g \in [Addr -> Byte],
         Between(V, f, g), V = [x \in Addr |-> V[x]]
  PROVE  /\ D!Stored(V, a, BytesOf(w, n)) = g
         /\ Between(D!Patched(V, a, BytesOf(w, n)[1]), f, g)
  <1> DEFINE b == BytesOf(w, n)
  <1>1. Len(b) = n /\ DOMAIN b = 1 .. n
    <2>1. b = [k \in 1 .. n |-> b[k]] /\ n \in Nat
      BY DEF BytesOf
    <2> QED
      BY ONLY <2>1
  <1> HIDE DEF b
  <1>2. \A x \in Addr : g[x] = IF x - a \in 0 .. n - 1 THEN b[x - a + 1] ELSE f[x]
    BY DEF WriteMem, b
  <1>3. \A x \in Addr : ~ (x - a \in 0 .. n - 1) => V[x] = f[x]
    BY <1>2 DEF Between
  <1>4. D!Stored(V, a, b) = g
    <2>1. D!Stored(V, a, b) = [x \in Addr |-> IF x - a \in 0 .. n - 1 THEN b[x - a + 1] ELSE V[x]]
      BY <1>1 DEF D!Stored
    <2>2. \A x \in Addr : g[x] = IF x - a \in 0 .. n - 1 THEN b[x - a + 1] ELSE V[x]
      BY <1>2, <1>3
    <2> QED
      BY <2>1, <2>2
  <1>5. Between(D!Patched(V, a, b[1]), f, g)
    <2> SUFFICES ASSUME NEW x \in Addr
                 PROVE  D!Patched(V, a, b[1])[x] \in {f[x], g[x]}
      BY DEF Between
    <2>1. CASE x = a
      <3>1. x - a \in 0 .. n - 1 /\ x - a + 1 = 1
        BY <2>1
      <3>2. g[x] = b[1]
        BY <1>2, <3>1
      <3>3. D!Patched(V, a, b[1])[x] = b[1]
        BY <2>1 DEF D!Patched
      <3> QED
        BY <3>2, <3>3
    <2>2. CASE x # a
      <3>1. D!Patched(V, a, b[1])[x] = V[x]
        BY <2>2 DEF D!Patched
      <3> QED
        BY <3>1 DEF Between
    <2> QED
      BY <2>1, <2>2
  <1> QED
    BY <1>4, <1>5 DEF b

\* What the memory stage leaves: the result, and memory as it is to be seen.
Answered(r, m, T) ==
  /\ r.delay = 0 => WbOK(r.latch, S1) /\ D!View(r.lines, r.mem) = S2.mem
  /\ r.delay # 0 =>
       /\ r.latch = exmem
       /\ IF exmem.op \in Stores THEN Between(D!View(r.lines, r.mem), S1.mem, S2.mem)
          ELSE D!View(r.lines, r.mem) = S1.mem
  /\ DataKept(r.lines, r.mem, cycle, T, m)
  /\ Charged(r.delay, r.stats)

LEMMA MemRight ==
  ASSUME PipeInv, NEW m, NEW T, NEW G, Reached(S0, m, T, G),
         WbOK(memwb, S0), MemOK(exmem, S1), SeenOK, DataKept(dLines, mem, cycle, T, m),
         NEW u \in Byte, NEW r, r = MemAccess(Accessing, mem, u)
  PROVE  Answered(r, m, T)
  <1> DEFINE i == InstrIn(S1)
             a == DataAddr(exmem.rsValue, exmem.imm)
             n == Size(exmem.op)
             V == D!View(dLines, mem)
  <1>1. /\ Accessing = exmem /\ exmem \in Latch /\ mem \in [Addr -> Byte]
        /\ Reached(S1, m, T, G) /\ Reached(S2, m, T, G) /\ T \in SUBSET Addr
    <2>1. Accessing = exmem /\ Reached(S1, m, T, G) /\ Reached(S2, m, T, G)
      BY NothingToForward, FlightReached
    <2>2. exmem \in Latch /\ mem \in [Addr -> Byte]
      BY DEF PipeInv, TypeOK
    <2>3. T \in SUBSET Addr
      BY InstrParts
    <2> QED
      BY <2>1, <2>2, <2>3
  <1>2. S2 = Past(S1, exmem) /\ Kind(exmem, S1)
    BY <1>1, MemKind DEF S2
  <1>3. CASE exmem.op \in Loads
    <2>1. /\ exmem.at # None /\ ~ TrapsIn(S1) /\ Carries(exmem, S1)
          /\ D!AccessIn(a, n, MemSize) /\ a = PlaceIn(S1)
      BY <1>1, <1>3, AccessCarried
    <2>2. exmem.op \notin Stores
      BY <1>3 DEF Loads, Stores
    <2>3. V = S1.mem /\ S2.mem = S1.mem
      BY <1>2, <2>2, MemStep DEF SeenOK, Kind
    <2> HIDE DEF a, n, V
    <2>4. /\ r.latch.op = exmem.op /\ r.latch.dest = exmem.dest /\ r.latch.at = exmem.at
          /\ r.delay # 0 => r.latch = exmem
          /\ r.delay = 0 => r.latch.value = ReadMem(V, a, n)
          /\ D!View(r.lines, r.mem) = V
          /\ DataKept(r.lines, r.mem, cycle, T, m)
          /\ Charged(r.delay, r.stats)
      BY <1>1, <1>3, <2>1, LoadRight DEF a, n, V
    <2>5. ASSUME r.delay = 0
          PROVE  WbOK(r.latch, S1)
      <3>1. ResultIn(S1) = ReadMem(S1.mem, PlaceIn(S1), n)
        BY <1>3, <2>1 DEF ResultIn, Carries, RAlu, IAlu, Loads, n
      <3>2. r.latch.value = ResultIn(S1)
        BY <2>1, <2>3, <2>4, <2>5, <3>1
      <3> QED
        BY <1>1, <2>2, <2>4, <3>2, PassesOn
    <2> QED
      BY <2>2, <2>3, <2>4, <2>5 DEF Answered
  <1>4. CASE exmem.op \in Stores
    <2> DEFINE w == exmem.rtValue
               v == BytesOf(w, n)
    <2>1. /\ exmem.at # None /\ ~ TrapsIn(S1) /\ Carries(exmem, S1)
          /\ D!AccessIn(a, n, MemSize) /\ a = PlaceIn(S1)
          /\ D!StoreTag(a) = D!Tag(a) /\ S2 = Completed(S1)
      BY <1>1, <1>2, <1>4, AccessCarried
    <2>2. exmem.op = i.op /\ w = RtIn(S1) /\ exmem.dest = Dest(i)
      BY <2>1 DEF Carries
    <2>3. S2.mem = WriteMem(S1.mem, a, w, n)
      BY <1>4, <2>1, <2>2 DEF Completed, MemAfter
    <2>4. /\ Between(V, S1.mem, S2.mem) /\ DOMAIN V = Addr
          /\ S1.mem \in [Addr -> Byte] /\ S2.mem \in [Addr -> Byte]
      BY <1>1, SeenBetween
    <2>5. V = [x \in Addr |-> V[x]] /\ n \in {1, 2, 4} /\ a \in Nat
      <3>1. \E f : V = [x \in DOMAIN mem |-> f[x]]
        <4>1. V = [x \in DOMAIN mem |-> V[x]]
          BY DEF D!View
        <4> QED
          BY <4>1
      <3>2. n \in {1, 2, 4} /\ a \in Nat
        BY <2>1 DEF D!AccessIn
      <3> QED
        BY <1>1, <2>4, <3>1, <3>2
    <2> HIDE DEF a, n, V, v
    <2>6. /\ D!Stored(V, a, v) = S2.mem
          /\ Between(D!Patched(V, a, v[1]), S1.mem, S2.mem)
      BY <2>3, <2>4, <2>5, StoredBetween DEF v
    <2>7. ASSUME NEW k \in 1 .. n, a + k - 1 \in T
          PROVE  v[k] = m[a + k - 1]
      <3> DEFINE x == a + k - 1
      <3>1. x \in Addr /\ S2.mem[x] = m[x]
        BY <1>1, <2>7, InstrParts DEF Meant
      <3>2. x - a \in 0 .. n - 1 /\ x - a + 1 = k
        BY <2>5
      <3> HIDE DEF x
      <3>3. S2.mem[x] = v[k]
        BY <2>3, <3>1, <3>2 DEF WriteMem, v
      <3> QED
        BY <3>1, <3>3 DEF x
    <2>8. /\ r.latch = exmem
          /\ r.delay = 0 => D!View(r.lines, r.mem) = D!Stored(V, a, v)
          /\ r.delay # 0 => D!View(r.lines, r.mem) \in {V, D!Patched(V, a, v[1])}
          /\ DataKept(r.lines, r.mem, cycle, T, m)
          /\ Charged(r.delay, r.stats)
      <3> HIDE DEF w
      <3>1. \A k \in 1 .. n : a + k - 1 \in T => v[k] = m[a + k - 1]
        BY <2>7
      <3> QED
        BY <1>1, <1>4, <2>1, <3>1, StoreRight DEF a, n, V, v, w
    <2>9. WbOK(r.latch, S1)
      <3>1. exmem.dest = 0
        BY <1>4, <2>2 DEF Dest, RAlu, IAlu, Loads, Stores, Atomics
      <3> QED
        BY <1>1, <2>8, <3>1, PassesOn
    <2> QED
      BY <1>4, <2>4, <2>6, <2>8, <2>9 DEF Answered
  <1>5. CASE exmem.op \notin Loads \union Stores
    <2>1. r = [latch |-> exmem, delay |-> 0, lines |-> dLines, mem |-> mem, stats |-> dStats]
      BY <1>1, <1>5, MemKeeps DEF MemLeaves
    <2>2. V = S1.mem /\ S2.mem = S1.mem
      BY <1>2, <1>5, MemStep DEF SeenOK, Kind
    <2>3. exmem.at # None /\ ~ TrapsIn(S1) => exmem.value = ResultIn(S1)
      BY <1>5 DEF MemOK
    <2>4. WbOK(exmem, S1)
      BY <1>1, <2>3, PassesOn
    <2> QED
      BY <2>1, <2>2, <2>4 DEF Answered, Charged
  <1> QED
    BY <1>3, <1>4, <1>5

-----------------------------------------------------------------------------
(***************************************************************************)
(* The execute stage and the forwarding paths.                             *)
(***************************************************************************)

Overflowing == idex.at # None /\ OverflowIn(S2)

LEMMA ExecuteRight ==
  ASSUME NEW s, NEW m, NEW T, NEW G, Reached(s, m, T, G), NEW e \in Latch, ExOK(e, s)
  PROVE  /\ MemOK(Execute(e), s) /\ Execute(e).at = e.at
         /\ ExOverflow(e) <=> e.at # None /\ OverflowIn(s)
  <1> DEFINE i == InstrIn(s)
  <1>1. Of(e, s) /\ (OverflowIn(s) => ~ IllegalIn(s))
    BY OverflowOps DEF ExOK, IllegalIn
  <1>2. CASE e.at = None \/ IllegalIn(s)
    <2>1. Idle(e)
      BY <1>2 DEF ExOK
    <2>2. ~ ExOverflow(e)
      BY <2>1, QuietStages DEF Idle
    <2>3. \E v : Execute(e) = [e EXCEPT !.value = v]
      BY <2>1, <2>2 DEF Execute, Idle, RAlu
    <2>4. Execute(e).op = e.op /\ Execute(e).dest = e.dest /\ Execute(e).at = e.at
      BY <2>3 DEF Latch
    <2> QED
      BY <1>1, <1>2, <2>1, <2>2, <2>4 DEF MemOK, Of, Idle, TrapsIn
  <1>3. CASE e.at # None /\ ~ IllegalIn(s)
    <2>1. Carries(e, s) /\ e.value = IF e.op = "jal" THEN ResultIn(s) ELSE NoValue
      BY <1>3 DEF ExOK
    <2>2. ExOverflow(e) <=> OverflowIn(s)
      BY <2>1 DEF Carries, ExOverflow, OverflowIn
    <2>3. CASE ExOverflow(e)
      <3>1. Execute(e) = [Bubble EXCEPT !.at = e.at]
        BY <2>3 DEF Execute
      <3>2. Execute(e).op = "sll" /\ Execute(e).dest = 0 /\ Execute(e).at = e.at
        BY <3>1 DEF Bubble
      <3> QED
        BY <1>1, <1>3, <2>2, <2>3, <3>2 DEF MemOK, Of, Idle, TrapsIn
    <2>4. CASE ~ ExOverflow(e) /\ e.op \in RAlu \union IAlu
      <3> DEFINE v == Alu(e.op, e.rsValue, e.rtValue, e.imm)
      <3>1. Execute(e) = [e EXCEPT !.value = v]
        BY <2>4 DEF Execute
      <3>2. v = ResultIn(s) /\ e.op \notin Loads
        <4>1. e.op = i.op /\ e.rsValue = RsIn(s) /\ e.rtValue = RtIn(s) /\ e.imm = i.imm
          BY <2>1 DEF Carries
        <4>2. e.op \notin Loads
          BY <2>4 DEF RAlu, IAlu, Loads
        <4>3. ResultIn(s) = Alu(i.op, RsIn(s), RtIn(s), i.imm)
          BY <2>4, <4>1, <4>2 DEF ResultIn, RAlu, IAlu, Loads
        <4> QED
          BY <4>1, <4>2, <4>3
      <3> HIDE DEF v
      <3>3. /\ SameInstr(Execute(e), [e EXCEPT !.value = v])
            /\ Execute(e).rsValue = e.rsValue /\ Execute(e).rtValue = e.rtValue
            /\ Execute(e).value = v /\ Execute(e).op = e.op /\ Execute(e).at = e.at
            /\ Execute(e).rs = e.rs /\ Execute(e).rt = e.rt /\ Execute(e).imm = e.imm
            /\ Execute(e).dest = e.dest
        BY <3>1 DEF Latch, SameInstr
      <3> HIDE DEF i
      <3>4. Carries(Execute(e), s)
        BY <2>1, <3>3 DEF Carries
      <3> QED
        BY <1>1, <1>3, <2>2, <2>4, <3>2, <3>3, <3>4 DEF MemOK, Of, TrapsIn
    <2>5. CASE ~ ExOverflow(e) /\ e.op \notin RAlu \union IAlu
      <3>1. Execute(e) = e
        BY <2>5 DEF Execute
      <3>2. e.value = IF e.op \in Loads THEN NoValue ELSE ResultIn(s)
        <4>1. e.op = i.op
          BY <2>1 DEF Carries
        <4>2. e.op \notin Loads \union {"jal"} => ResultIn(s) = NoValue
          BY <2>5, <4>1 DEF ResultIn
        <4> QED
          BY <2>1, <4>2 DEF Loads
      <3> QED
        BY <1>1, <1>3, <2>1, <2>2, <2>5, <3>1, <3>2 DEF MemOK, TrapsIn
    <2> QED
      BY <2>3, <2>4, <2>5
  <1> QED
    BY <1>2, <1>3

\* The value of register r, told x, that latch l may have a newer one of.
Newest(l, r, x) == IF Writes(l) /\ l.dest = r THEN l.value ELSE x

LEMMA ForwardParts ==
  ASSUME NEW d \in Latch, NEW l \in Latch
  PROVE  /\ Forward(d, l) \in Latch /\ SameInstr(Forward(d, l), d)
         /\ Forward(d, l).rsValue = Newest(l, d.rs, d.rsValue)
         /\ Forward(d, l).rtValue = Newest(l, d.rt, d.rtValue)
  <1> DEFINE x == Newest(l, d.rs, d.rsValue)
             y == Newest(l, d.rt, d.rtValue)
  <1>1. Forward(d, l) = [d EXCEPT !.rsValue = x, !.rtValue = y]
    BY DEF Forward, Newest
  <1> HIDE DEF x, y
  <1>2. Forward(d, l).rsValue = x /\ Forward(d, l).rtValue = y
    BY <1>1 DEF Latch
  <1> QED
    BY <1>2, ForwardKeeps DEF x, y

\* A register is that of the state behind the instruction in l, if it was that
\* or the one of the state before it.
LEMMA NewestWritten ==
  ASSUME NEW rg \in [Reg -> Word], NEW l, NEW r \in Reg, NEW q, q = Written(rg, l),
         NEW x, x \in {rg[r], q[r]}
  PROVE  Newest(l, r, x) = q[r]
  BY DEF Newest, Written

\* What l writes back when it has its result.
LEMMA MemWritten ==
  ASSUME NEW s, NEW m, NEW T, NEW G, Reached(s, m, T, G), NEW l, MemOK(l, s)
  PROVE  /\ l.op \notin Loads => Written(s.regs, l) = Past(s, l).regs
         /\ Writes(l) => Written(s.regs, l) = Past(s, l).regs
         /\ l.op \in Loads => ~ Writes(l)
         /\ \A r \in Reg : r = 0 \/ r # l.dest => Past(s, l).regs[r] = s.regs[r]
  <1>1. CASE l.at = None \/ TrapsIn(s)
    <2>1. l.op = "sll" /\ ~ Writes(l) /\ Past(s, l).regs = s.regs
      BY <1>1, NoEffect DEF MemOK, Idle, Writes, Past
    <2> QED
      BY <2>1 DEF Written, Loads
  <1>2. CASE l.at # None /\ ~ TrapsIn(s)
    <2>1. /\ l.op = InstrIn(s).op /\ l.dest = Dest(InstrIn(s))
          /\ l.value = IF l.op \in Loads THEN NoValue ELSE ResultIn(s)
      BY <1>2 DEF MemOK, Carries
    <2>2. l.op \in Loads => ~ Writes(l)
      BY <2>1 DEF Writes
    <2>3. \A r \in Reg : r = 0 \/ r # l.dest => Past(s, l).regs[r] = s.regs[r]
      BY <1>2, <2>1, RegsStep DEF Past
    <2>4. ASSUME l.op \notin Loads
          PROVE  Written(s.regs, l) = Past(s, l).regs
      <3>1. l.value = ResultIn(s)
        BY <2>1, <2>4
      <3>2. WbOK(l, s)
        BY <3>1, PassesOn
      <3> QED
        BY <3>2 DEF WbOK
    <2> QED
      BY <2>2, <2>3, <2>4
  <1> QED
    BY <1>1, <1>2

LEMMA NewestInMem ==
  ASSUME NEW s, NEW m, NEW T, NEW G, Reached(s, m, T, G), NEW l, MemOK(l, s),
         NEW r \in Reg, ~ (l.op \in Loads /\ l.dest # 0 /\ l.dest = r),
         NEW x, x \in {s.regs[r], Past(s, l).regs[r]}
  PROVE  Newest(l, r, x) = Past(s, l).regs[r]
  <1>1. s.regs \in [Reg -> Word]
    BY InstrParts, StateParts
  <1>2. CASE l.op \notin Loads
    BY <1>1, <1>2, MemWritten, NewestWritten
  <1>3. CASE l.op \in Loads
    <2>1. Past(s, l).regs[r] = s.regs[r] /\ ~ Writes(l)
      BY <1>3, MemWritten
    <2> QED
      BY <2>1 DEF Newest
  <1> QED
    BY <1>2, <1>3

\* A latch that is to get its operands from the state s or the one after it.
Awaits(d, s, t, q) ==
  LET i == InstrIn(q)
  IN  /\ Of(d, q)
      /\ IF d.at = None \/ IllegalIn(q) THEN Idle(d)
         ELSE /\ d.op = i.op /\ d.rs = i.rs /\ d.rt = i.rt /\ d.imm = i.imm
              /\ d.dest = Dest(i)
              /\ d.rsValue \in {s.regs[i.rs], t.regs[i.rs]}
              /\ d.rtValue \in {s.regs[i.rt], t.regs[i.rt]}
              /\ d.value = IF d.op = "jal" THEN ResultIn(q) ELSE NoValue

\* The forwarding paths of the execute stage deliver the operands, unless one is
\* still being loaded.
LEMMA OperandsRight ==
  ASSUME NEW s, NEW m, NEW T, NEW G, Reached(s, m, T, G),
         NEW d \in Latch, NEW k \in Latch, NEW l \in Latch,
         WbOK(k, s), NEW t, t = Past(s, k), MemOK(l, t), NEW q, q = Past(t, l),
         Awaits(d, s, t, q), ~ (l.op \in Loads /\ l.dest # 0 /\ l.dest \in {d.rs, d.rt})
  PROVE  ExOK(Forward(Forward(d, k), l), q)
  <1> DEFINE i == InstrIn(q)
             c == Forward(d, k)
             e == Forward(c, l)
  <1>1. /\ Reached(t, m, T, G) /\ s.regs \in [Reg -> Word] /\ t.regs \in [Reg -> Word]
        /\ d.rs \in Reg /\ d.rt \in Reg
    BY PastReached, InstrParts, StateParts, LatchParts
  <1>2. /\ c \in Latch /\ SameInstr(c, d)
        /\ c.rsValue = Newest(k, d.rs, d.rsValue) /\ c.rtValue = Newest(k, d.rt, d.rtValue)
    BY ForwardParts
  <1> HIDE DEF c
  <1>3. /\ SameInstr(e, c)
        /\ e.rsValue = Newest(l, c.rs, c.rsValue) /\ e.rtValue = Newest(l, c.rt, c.rtValue)
    BY <1>2, ForwardParts
  <1> HIDE DEF e
  <1>4. SameInstr(e, d) /\ c.rs = d.rs /\ c.rt = d.rt
    BY <1>2, <1>3 DEF SameInstr
  <1>5. Of(e, q)
    BY <1>4 DEF Of, Awaits, SameInstr
  <1>6. CASE d.at = None \/ IllegalIn(q)
    <2>1. Idle(e) /\ e.at = d.at
      BY <1>4, <1>6 DEF Awaits, Idle, SameInstr
    <2>2. ExOK(e, q)
      BY <1>5, <1>6, <2>1 DEF ExOK
    <2> QED
      BY <2>2 DEF e, c
  <1>7. CASE d.at # None /\ ~ IllegalIn(q)
    <2>1. /\ d.op = i.op /\ d.rs = i.rs /\ d.rt = i.rt /\ d.imm = i.imm
          /\ d.dest = Dest(i)
          /\ d.rsValue \in {s.regs[d.rs], t.regs[d.rs]}
          /\ d.rtValue \in {s.regs[d.rt], t.regs[d.rt]}
          /\ d.value = IF d.op = "jal" THEN ResultIn(q) ELSE NoValue
      BY <1>7 DEF Awaits
    <2>2. t.regs = Written(s.regs, k)
      BY DEF WbOK
    <2>3. c.rsValue = t.regs[d.rs] /\ c.rtValue = t.regs[d.rt]
      BY <1>1, <1>2, <2>1, <2>2, NewestWritten
    <2>4. e.rsValue = q.regs[d.rs] /\ e.rtValue = q.regs[d.rt]
      BY <1>1, <1>3, <1>4, <2>3, NewestInMem
    <2>5. e.rsValue = RsIn(q) /\ e.rtValue = RtIn(q)
      BY <2>1, <2>4 DEF RsIn, RtIn
    <2> HIDE DEF i
    <2>6. Carries(e, q)
      BY <1>4, <2>1, <2>5 DEF Carries, SameInstr, i
    <2>7. e.value = (IF e.op = "jal" THEN ResultIn(q) ELSE NoValue) /\ e.at = d.at
      BY <1>4, <2>1 DEF SameInstr
    <2>8. ExOK(e, q)
      BY <1>5, <1>7, <2>6, <2>7 DEF ExOK
    <2> QED
      BY <2>8 DEF e, c
  <1> QED
    BY <1>6, <1>7

-----------------------------------------------------------------------------
(***************************************************************************)
(* Decode.                                                                 *)
(***************************************************************************)

\* An instruction with its operands, as decode has them.
Ready(rg, i) ==
  IF i.op \in Branches \union {"jr"} THEN ForwardBranch(Plain(rg, i)) ELSE Plain(rg, i)

TargetOf(d, i) ==
  CASE i.op = "jr" -> d.rsValue
    [] i.op \in {"j", "jal"} -> JumpTarget(ifid.pc, i.imm)
    [] i.op \in Branches ->
         IF BranchTaken(i.op, d.rsValue, d.rtValue)
         THEN BranchTarget(ifid.pc, i.imm) ELSE None
    [] OTHER -> None

Waits(d, i) ==
  \/ i.op \in Branches \union {"jr"} /\ BranchNeedsStall(d, i.op \in {"beq", "bne"})
  \/ LoadUse(d)

LEMMA DecodeIs ==
  ASSUME NEW rg, NEW i, i = Code[ifid.word], NEW d, d = Decode(rg)
  PROVE  /\ d.trap <=> i.op \in {"illegal", "badFunct"}
         /\ d.stall <=> Waits(Ready(rg, i), i)
         /\ i.op \in {"illegal", "badFunct"} =>
              d.latch = [Bubble EXCEPT !.at = ifid.at] /\ d.target = ExcAddr
         /\ i.op \notin {"illegal", "badFunct"} =>
              d.latch = Ready(rg, i) /\ d.target = TargetOf(Ready(rg, i), i)
  <1> DEFINE trap == i.op \in {"illegal", "badFunct"}
             x == Ready(rg, i)
             target ==
               CASE trap -> ExcAddr
                 [] i.op = "jr" -> x.rsValue
                 [] i.op \in {"j", "jal"} -> JumpTarget(ifid.pc, i.imm)
                 [] i.op \in Branches ->
                      IF BranchTaken(i.op, x.rsValue, x.rtValue)
                      THEN BranchTarget(ifid.pc, i.imm) ELSE None
                 [] OTHER -> None
  <1>1. d = [latch |-> IF trap THEN [Bubble EXCEPT !.at = ifid.at] ELSE x,
             target |-> target, trap |-> trap, stall |-> Waits(x, i)]
    BY DEF Decode, Plain, Ready, Waits
  <1>2. trap => target = ExcAddr
    BY DEF Branches
  <1>3. ~ trap => target = TargetOf(x, i)
    BY DEF TargetOf, Branches
  <1> DEFINE bubble == [Bubble EXCEPT !.at = ifid.at]
             w == Waits(x, i)
  <1> HIDE DEF target, x, trap, bubble, w
  <1>4. /\ d.latch = (IF trap THEN bubble ELSE x) /\ d.target = target
        /\ d.trap = trap /\ d.stall = w
    BY <1>1 DEF bubble, w
  <1>5. /\ d.trap <=> trap
        /\ d.stall <=> w
        /\ trap => d.latch = bubble /\ d.target = ExcAddr
        /\ ~ trap => d.latch = x /\ d.target = TargetOf(x, i)
    BY <1>2, <1>3, <1>4
  <1> QED
    BY <1>5 DEF x, trap, bubble, w

\* A register nothing in the execute stage is going to write.
LEMMA NotWritten ==
  ASSUME NEW s, NEW m, NEW T, NEW G, Reached(s, m, T, G), NEW e, ExOK(e, s),
         NEW r \in Reg, r = 0 \/ r # e.dest
  PROVE  Past(s, e).regs[r] = s.regs[r]
  <1>1. CASE e.at = None \/ IllegalIn(s)
    BY <1>1, NoEffect DEF Past, TrapsIn
  <1>2. CASE e.at # None /\ ~ IllegalIn(s)
    <2>1. e.dest = Dest(InstrIn(s))
      BY <1>2 DEF ExOK, Carries
    <2> QED
      BY <1>2, <2>1, RegsStep DEF Past
  <1> QED
    BY <1>1, <1>2

LEMMA LoadDest ==
  ASSUME NEW s, NEW e, ExOK(e, s), e.op \in Loads
  PROVE  e.dest = e.rt
  <1>1. Carries(e, s)
    BY DEF ExOK, Idle, Loads
  <1>2. e.op = InstrIn(s).op /\ e.dest = Dest(InstrIn(s)) /\ e.rt = InstrIn(s).rt
    BY <1>1 DEF Carries
  <1> QED
    BY <1>2 DEF Dest, RAlu, IAlu, Loads

\* handleBranchForwarding gives a value of this state or the next, and the next
\* one's where it is not being loaded and the registers are two.
LEMMA BranchOperands ==
  ASSUME NEW s, NEW m, NEW T, NEW G, Reached(s, m, T, G), exmem \in Latch, MemOK(exmem, s),
         NEW d \in Latch, d.rsValue = s.regs[d.rs], d.rtValue = s.regs[d.rt],
         NEW q, q = Past(s, exmem), NEW b, b = ForwardBranch(d)
  PROVE  /\ SameInstr(b, d)
         /\ b.rsValue \in {s.regs[d.rs], q.regs[d.rs]}
         /\ b.rtValue \in {s.regs[d.rt], q.regs[d.rt]}
         /\ ~ (exmem.op \in Loads /\ exmem.dest # 0 /\ exmem.dest = d.rs) =>
              b.rsValue = q.regs[d.rs]
         /\ /\ ~ (exmem.op \in Loads /\ exmem.dest # 0 /\ exmem.dest = d.rt)
            /\ d.rs # d.rt \/ d.rs = 0
            => b.rtValue = q.regs[d.rt]
  <1> DEFINE first == Writes(exmem) /\ exmem.dest = d.rs
  <1>1. SameInstr(b, d)
    BY ForwardBranchKeeps
  <1>2. /\ b.rsValue = Newest(exmem, d.rs, d.rsValue)
        /\ b.rtValue = IF first THEN d.rtValue ELSE Newest(exmem, d.rt, d.rtValue)
    <2>1. CASE first
      <3>1. b = [d EXCEPT !.rsValue = exmem.value]
        BY <2>1 DEF ForwardBranch
      <3> QED
        BY <2>1, <3>1 DEF Latch, Newest
    <2>2. CASE ~ first
      <3> DEFINE y == Newest(exmem, d.rt, d.rtValue)
      <3>1. b = [d EXCEPT !.rtValue = y]
        BY <2>2 DEF ForwardBranch, Newest
      <3> HIDE DEF y
      <3>2. b.rsValue = d.rsValue /\ b.rtValue = y
        BY <3>1 DEF Latch
      <3> QED
        BY <2>2, <3>2 DEF Newest, y
    <2> QED
      BY <2>1, <2>2
  <1>3. d.rs \in Reg /\ d.rt \in Reg /\ s.regs \in [Reg -> Word]
    BY LatchParts, InstrParts, StateParts
  <1>4. \A r \in Reg : Newest(exmem, r, s.regs[r]) \in {s.regs[r], q.regs[r]}
    <2> SUFFICES ASSUME NEW r \in Reg
                 PROVE  Newest(exmem, r, s.regs[r]) \in {s.regs[r], q.regs[r]}
      OBVIOUS
    <2>1. CASE Writes(exmem)
      <3>1. q.regs = Written(s.regs, exmem)
        BY <2>1, MemWritten
      <3> QED
        BY <1>3, <3>1, NewestWritten
    <2>2. CASE ~ Writes(exmem)
      BY <2>2 DEF Newest
    <2> QED
      BY <2>1, <2>2
  <1>5. \A r \in Reg : ~ (exmem.op \in Loads /\ exmem.dest # 0 /\ exmem.dest = r) =>
          Newest(exmem, r, s.regs[r]) = q.regs[r]
    BY NewestInMem
  <1>6. ASSUME first, d.rs # d.rt \/ d.rs = 0
        PROVE  d.rtValue = q.regs[d.rt]
    <2>1. exmem.dest # 0 /\ exmem.dest # d.rt
      BY <1>6 DEF Writes
    <2> QED
      BY <1>3, <2>1, MemWritten
  <1> HIDE DEF first
  <1> QED
    BY <1>1, <1>2, <1>3, <1>4, <1>5, <1>6

\* What decode makes of the instruction of S3.
DecodedRight(d) ==
  /\ d.trap <=> IllegalIn(S3)
  /\ d.latch.at = ifid.at
  /\ IllegalIn(S3) => ~ d.stall /\ d.target = ExcAddr
  /\ ~ IllegalIn(S3) /\ ~ d.stall => d.target = GoesTo(S3)
  /\ ~ d.stall =>
       /\ Awaits(d.latch, S1, S2, S3)
       /\ ~ (idex.op \in Loads /\ idex.dest # 0 /\ idex.dest \in {d.latch.rs, d.latch.rt})

\* The registers decode reads, written back already.
LEMMA DecodeReadsRight ==
  ASSUME PipeInv, NEW m, NEW T, NEW G, Reached(S0, m, T, G), regs = rregs, WbOK(memwb, S0)
  PROVE  WriteBack(memwb) = S1.regs /\ S1.regs \in [Reg -> Word]
  <1>1. regs = S0.regs
    BY DEF S0
  <1>2. WriteBack(memwb) = S1.regs
    BY <1>1, WritesBack DEF S1
  <1> QED
    BY <1>2, StageTypes

LEMMA DecodeRight ==
  ASSUME PipeInv, NEW m, NEW T, NEW G, Reached(S0, m, T, G), regs = rregs,
         WbOK(memwb, S0), MemOK(exmem, S1), ExOK(Operands, S2),
         ifid.at = CurOf(S3), ifid.pc = ifid.at, ifid.word = WordIn(S3),
         NEW d, d = Decode(WriteBack(memwb))
  PROVE  DecodedRight(d)
  <1> DEFINE i == InstrIn(S3)
             plain == Plain(S1.regs, i)
             x == Ready(S1.regs, i)
             branch == i.op \in Branches \union {"jr"}
             checkRt == i.op \in {"beq", "bne"}
  <1>1. /\ WriteBack(memwb) = S1.regs /\ S1.regs \in [Reg -> Word]
        /\ Reached(S1, m, T, G) /\ Reached(S2, m, T, G) /\ Reached(S3, m, T, G)
        /\ exmem \in Latch /\ TypeOK
    BY DecodeReadsRight, FlightReached DEF PipeInv, TypeOK
  <1>2. /\ i = Code[ifid.word] /\ Decoded(i) /\ Meant(S3, m, T) /\ S3 \in RefState
        /\ IllegalIn(S3) => i.rs = 0 /\ i.rt = 0
    BY <1>1, InstrParts DEF InstrIn
  <1>3. /\ IllegalIn(S3) <=> i.op \in {"illegal", "badFunct"}
    BY DEF IllegalIn
  <1>4. plain \in Latch
    BY <1>1, <1>2, PlainLatch
  <1>5. /\ plain.op = i.op /\ plain.rs = i.rs /\ plain.rt = i.rt /\ plain.imm = i.imm
        /\ plain.dest = Dest(i) /\ plain.at = ifid.at
        /\ plain.rsValue = S1.regs[plain.rs] /\ plain.rtValue = S1.regs[plain.rt]
        /\ plain.value = IF i.op = "jal" THEN Plus(ifid.pc, 8) ELSE NoValue
    BY DEF Plain
  <1>6. S2 = Past(S1, exmem)
    BY DEF S2
  <1> HIDE DEF plain
  <1>7. /\ SameInstr(x, plain)
        /\ x.rsValue \in {S1.regs[i.rs], S2.regs[i.rs]}
        /\ x.rtValue \in {S1.regs[i.rt], S2.regs[i.rt]}
        /\ branch /\ ~ (exmem.op \in Loads /\ exmem.dest # 0 /\ exmem.dest = i.rs) =>
             x.rsValue = S2.regs[i.rs]
        /\ /\ branch
           /\ ~ (exmem.op \in Loads /\ exmem.dest # 0 /\ exmem.dest = i.rt)
           /\ i.rs # i.rt \/ i.rs = 0
           => x.rtValue = S2.regs[i.rt]
    <2>1. CASE branch
      <3>1. x = ForwardBranch(plain)
        BY <2>1 DEF Ready, plain
      <3> HIDE DEF x, branch
      <3> QED
        BY <1>1, <1>4, <1>5, <1>6, <3>1, BranchOperands
    <2>2. CASE ~ branch
      <3>1. x = plain
        BY <2>2 DEF Ready, plain
      <3> QED
        BY <1>5, <2>2, <3>1 DEF SameInstr
    <2> QED
      BY <2>1, <2>2
  <1>8. /\ d.trap <=> i.op \in {"illegal", "badFunct"}
        /\ d.stall <=> Waits(x, i)
        /\ IllegalIn(S3) => d.latch = [Bubble EXCEPT !.at = ifid.at] /\ d.target = ExcAddr
        /\ ~ IllegalIn(S3) => d.latch = x /\ d.target = TargetOf(x, i)
    BY <1>1, <1>2, <1>3, DecodeIs
  <1>9. CASE IllegalIn(S3)
    <2>1. ~ branch /\ x.rs = 0 /\ x.rt = 0
      BY <1>2, <1>3, <1>5, <1>7, <1>9 DEF Branches, SameInstr
    <2>2. ~ Waits(x, i)
      BY <2>1 DEF Waits, LoadUse
    <2>3. /\ d.latch.op = "sll" /\ d.latch.dest = 0 /\ d.latch.at = ifid.at
          /\ d.latch.rs = 0 /\ d.latch.rt = 0
      BY <1>8, <1>9 DEF Bubble
    <2>4. Awaits(d.latch, S1, S2, S3)
      BY <1>9, <2>3 DEF Awaits, Of, Idle
    <2> QED
      BY <1>3, <1>8, <1>9, <2>2, <2>3, <2>4 DEF DecodedRight
  <1>10. CASE ~ IllegalIn(S3)
    <2>1. /\ x.op = i.op /\ x.rs = i.rs /\ x.rt = i.rt /\ x.imm = i.imm
          /\ x.dest = Dest(i) /\ x.at = ifid.at /\ x.value = plain.value
      BY <1>5, <1>7 DEF SameInstr
    <2>2. i.op \in Branches \union Jumps => ifid.pc = S3.pc
      BY <1>2 DEF Meant, CurOf
    <2>3. x.value = IF x.op = "jal" THEN ResultIn(S3) ELSE NoValue
      <3>1. i.op = "jal" => ResultIn(S3) = Plus(S3.pc, 8) /\ ifid.pc = S3.pc
        BY <2>2 DEF ResultIn, RAlu, IAlu, Loads, Jumps
      <3> QED
        BY <1>5, <2>1, <3>1
    <2>4. Awaits(x, S1, S2, S3)
      <3>1. Of(x, S3)
        BY <2>1 DEF Of
      <3>2. x.rsValue \in {S1.regs[i.rs], S2.regs[i.rs]} /\ x.rtValue \in {S1.regs[i.rt], S2.regs[i.rt]}
        BY <1>7
      <3> HIDE DEF x
      <3>3. x.at # None
        BY <1>2, <2>1, StateParts, PipelineAssumption
      <3> QED
        BY <1>10, <2>1, <2>3, <3>1, <3>2, <3>3 DEF Awaits
    <2> DEFINE e == Operands
    <2>5. /\ e.op = idex.op /\ e.dest = idex.dest /\ e.rt = idex.rt /\ e.at = idex.at
      BY StageTypes DEF SameInstr
    <2>6. S3 = Past(S2, e)
      BY <2>5 DEF S3, Past
    <2> HIDE DEF e, x
    <2>7. ASSUME ~ d.stall
          PROVE  ~ (idex.op \in Loads /\ idex.dest # 0 /\ idex.dest \in {x.rs, x.rt})
      <3>1. ~ LoadUse(x)
        BY <1>8, <2>7 DEF Waits
      <3>2. idex.op \in Loads => idex.dest = idex.rt
        BY <2>5, LoadDest DEF e
      <3> QED
        BY <3>1, <3>2 DEF LoadUse, IsMemRead
    <2>8. ASSUME ~ d.stall, branch
          PROVE  /\ x.rsValue = RsIn(S3)
                 /\ checkRt => x.rtValue = RtIn(S3)
      <3>1. ~ BranchNeedsStall(x, checkRt)
        BY <1>8, <2>8 DEF Waits
      <3>2. /\ ~ (exmem.op \in Loads /\ exmem.dest # 0 /\ exmem.dest = i.rs)
            /\ i.rs = 0 \/ i.rs # e.dest
            /\ checkRt => /\ ~ (exmem.op \in Loads /\ exmem.dest # 0 /\ exmem.dest = i.rt)
                          /\ i.rt = 0 \/ i.rt # e.dest
        BY <2>1, <2>5, <3>1 DEF BranchNeedsStall, IsMemRead
      <3>3. checkRt => i.rs # i.rt \/ i.rs = 0
        BY <1>2 DEF Meant
      <3>4. i.rs \in Reg /\ i.rt \in Reg
        BY <1>1, InstrParts
      <3>5. ExOK(e, S2)
        BY DEF e
      <3> HIDE DEF i
      <3>6. \A r \in Reg : r = 0 \/ r # e.dest => S3.regs[r] = S2.regs[r]
        BY <1>1, <2>6, <3>5, NotWritten
      <3>7. x.rsValue = S2.regs[i.rs] /\ (checkRt => x.rtValue = S2.regs[i.rt])
        BY <1>7, <2>8, <3>2, <3>3
      <3> QED
        BY <3>2, <3>4, <3>6, <3>7 DEF RsIn, RtIn, i
    <2>9. ASSUME ~ d.stall
          PROVE  TargetOf(x, i) = GoesTo(S3)
      <3>1. i.op \notin Atomics \union {"bgtz", "blez"}
        BY <1>2 DEF Meant
      <3>2. CASE i.op = "jr"
        BY <2>8, <2>9, <3>2 DEF TargetOf, GoesTo, Branches
      <3>3. CASE i.op \in {"j", "jal"}
        BY <2>2, <3>3 DEF TargetOf, GoesTo, Jumps, Branches
      <3>4. CASE i.op \in {"beq", "bne"}
        <4>1. x.rsValue = RsIn(S3) /\ x.rtValue = RtIn(S3) /\ ifid.pc = S3.pc
          BY <2>2, <2>8, <2>9, <3>4 DEF Branches
        <4> QED
          BY <3>4, <4>1 DEF TargetOf, GoesTo, BranchTaken, Branches
      <3>5. CASE i.op \notin {"jr", "j", "jal", "beq", "bne"}
        BY <3>1, <3>5 DEF TargetOf, GoesTo, Branches
      <3> QED
        BY <3>2, <3>3, <3>4, <3>5
    <2>10. d.latch = x /\ d.target = TargetOf(x, i)
      BY <1>8, <1>10
    <2> QED
      BY <1>3, <1>8, <1>10, <2>1, <2>4, <2>7, <2>9, <2>10 DEF DecodedRight
  <1> QED
    BY <1>9, <1>10

\* Without an instruction nothing is decoded.
LEMMA DecodeNothing ==
  ASSUME ifid.at = None, ifid.word = 0, NEW rg, NEW d, d = Decode(rg)
  PROVE  /\ ~ d.trap /\ ~ d.stall /\ d.target = None
         /\ d.latch.at = None /\ Awaits(d.latch, S1, S2, S3)
         /\ d.latch.rs = 0 /\ d.latch.rt = 0
  <1> DEFINE x == Ready(rg, Nop)
  <1>1. Code[ifid.word] = Nop
    BY MipsAssumption
  <1>2. /\ d.trap <=> Nop.op \in {"illegal", "badFunct"}
        /\ d.stall <=> Waits(x, Nop)
        /\ Nop.op \notin {"illegal", "badFunct"} => d.latch = x /\ d.target = TargetOf(x, Nop)
    BY <1>1, DecodeIs
  <1>3. Nop.op = "sll" /\ Nop.op \notin Branches \union {"jr", "illegal", "badFunct"}
    BY DEF Nop, Branches
  <1>4. x = Plain(rg, Nop) /\ Dest(Nop) = 0 /\ Nop.rs = 0 /\ Nop.rt = 0
    BY <1>3 DEF Ready, Dest, RAlu, Nop
  <1>5. x.op = "sll" /\ x.dest = 0 /\ x.at = None /\ x.rs = 0 /\ x.rt = 0
    BY <1>3, <1>4 DEF Plain
  <1>6. TargetOf(x, Nop) = None
    BY <1>3 DEF TargetOf, Nop, Branches
  <1> HIDE DEF x
  <1>7. ~ Waits(x, Nop)
    BY <1>3, <1>5 DEF Waits, LoadUse
  <1>8. Awaits(x, S1, S2, S3)
    BY <1>5 DEF Awaits, Of, Idle
  <1> QED
    BY <1>2, <1>3, <1>5, <1>6, <1>7, <1>8

\* What is neither a branch nor behind a load does not wait.
LEMMA DecodeAtOnce ==
  ASSUME Code[ifid.word].op \notin Branches \union {"jr"}, idex.op \notin Loads,
         NEW rg, NEW d, d = Decode(rg)
  PROVE  ~ d.stall
  BY DecodeIs DEF Waits, LoadUse, IsMemRead

-----------------------------------------------------------------------------
(***************************************************************************)
(* The instruction fetch: the word of pc, or nothing until it is there.    *)
(***************************************************************************)

\* What is known of the instruction cache and of the last word fetched.
TextCached(ls, T, m) == I!TextKept(ls, mem, T, m) /\ I!ReadyBound(ls, cycle)
LastRight(p, w, T, m) == p # None /\ InText(p, T) => w = TextAt(m, p)

\* The word is there; or it is waited for, and everything else is as before.
Found(f) ==
  /\ f.wait = 0
  /\ (haltSeen => lastPc = pc) => f.word = f.lastWord /\ f.lastPc = pc /\ f.at = pc
  /\ haltSeen => /\ f.lastPc = lastPc /\ f.lastWord = lastWord
                 /\ \/ f.word = lastWord /\ f.at = pc /\ pc = lastPc
                    \/ f.word = 0 /\ f.at = None
Missing(f) ==
  /\ f.wait > 0 /\ ~ haltSeen
  /\ f.word = 0 /\ f.at = None /\ f.lastPc = lastPc /\ f.lastWord = lastWord

FetchedRight(f, T, m) ==
  /\ TextCached(f.lines, T, m) /\ LastRight(f.lastPc, f.lastWord, T, m)
  /\ Found(f) \/ Missing(f)

\* Of a lookup that misses the pipeline gets bytes, but not to decode.
Unread(f) ==
  [word |-> IF f.stall THEN 0 ELSE f.word, at |-> f.at, stall |-> f.stall, wait |-> f.wait,
   lines |-> f.lines, stats |-> f.stats, mem |-> f.mem,
   lastPc |-> f.lastPc, lastWord |-> f.lastWord]

LEMMA LookupRight ==
  ASSUME PipeInv, ~ Split, NEW u \in Byte, NEW T \in SUBSET Addr, NEW m,
         TextCached(iLines, T, m), NEW f, f = Lookup(u)
  PROVE  /\ TextCached(f.lines, T, m) /\ f.wait \in Nat /\ (f.stall <=> f.wait # 0)
         /\ f.wait = 0 => /\ f.word = f.lastWord /\ f.lastPc = pc /\ f.at = pc
                          /\ LastRight(pc, f.word, T, m)
         /\ f.wait # 0 => f.at = None /\ f.lastPc = lastPc /\ f.lastWord = lastWord
  <1> DEFINE p == Before(iLines, mem, iStats, u)
             t == I!GetCacheValue(p, pc, 4, cycle, 0, u)
             c == t.cache
  <1>1. /\ LinesTyped /\ pc \in Word /\ cycle \in Nat /\ I!Clean(iLines)
        /\ ICLatency \in Nat
    BY TypedLines, PipelineAssumption DEF PipeInv, TypeOK, CachesSound
  <1>2. p \in I!CacheState(Byte, MemSize) /\ p.lines = iLines /\ p.mem = mem
    BY <1>1, BeforeState DEF Before
  <1>3. f = Fetched(t)
    BY ICacheSame DEF Lookup, Before
  <1>4. /\ pc \in Nat /\ MemSize \in Nat /\ 4 \in {1, 2, 4} /\ 0 \in Nat
        /\ T \in SUBSET (0 .. MemSize - 1)
    BY <1>1, WordNat, BytesHere
  <1> HIDE DEF p
  <1>5. c.result \in {0, ICLatency} /\ c.mem = mem
    <2>1. I!ReadKept(c, p, Byte, MemSize)
      BY <1>1, <1>2, <1>4, Geometries, I!ReadAny
    <2> HIDE DEF t
    <2>2. c \in I!CacheState(Byte, MemSize) /\ c.mem = mem
      BY <1>1, <1>2, <2>1 DEF I!ReadKept
    <2> QED
      BY <1>1, <2>2, Geometries, I!StateParts
  <1>6. I!TextRead(t, pc, 4, cycle, T, m)
    <2>1. I!TextCache(p, Byte, MemSize, T, m) /\ I!ReadyBound(p.lines, cycle)
      BY <1>2, <1>4 DEF TextCached, I!TextCache
    <2> QED
      BY <1>1, <1>4, <2>1, Geometries, I!ReadText
  <1> HIDE DEF t
  <1>7. /\ TextCached(c.lines, T, m)
        /\ c.result = 0 /\ InText(pc, T) =>
             t.bytes = <<m[pc], m[pc + 1], m[pc + 2], m[pc + 3]>>
    <2>1. ICLatency = 0 \/ I!Offset(pc) + 4 <= BlockSize
      <3>1. ICache!Offset(pc) = I!Offset(pc)
        BY DEF ICache!Offset, I!Offset
      <3>2. I!Offset(pc) \in Nat /\ BlockSize \in Nat
        BY <1>4, Geometries, I!AddressFields, PipelineAssumption DEF I!Offsets
      <3> QED
        BY <1>1, <3>1, <3>2 DEF Split
    <2> QED
      BY <1>5, <1>6, <2>1 DEF I!TextRead, TextCached, InText
  <1>8. /\ f.wait = c.result /\ f.stall = ~ (c.result = 0) /\ f.lines = c.lines
        /\ f.word = WordOf(t.bytes) /\ f.at = (IF c.result = 0 THEN pc ELSE None)
        /\ f.lastPc = (IF c.result = 0 THEN pc ELSE lastPc)
        /\ f.lastWord = (IF c.result = 0 THEN WordOf(t.bytes) ELSE lastWord)
    BY <1>3 DEF Fetched
  <1>9. c.result = 0 => LastRight(pc, f.word, T, m)
    BY <1>7, <1>8 DEF LastRight, TextAt
  <1>10. f.stall <=> f.wait # 0
    BY <1>8
  <1> QED
    BY <1>1, <1>5, <1>7, <1>8, <1>9, <1>10

\* A fetch while another is waited for is neither of the halt word nor of the
\* word fetched last.
LEMMA FetchRight ==
  ASSUME PipeInv, ~ Split, fetchHalt > 0 => ~ haltSeen, NEW u \in Byte,
         NEW T \in SUBSET Addr, NEW m, TextCached(iLines, T, m),
         LastRight(lastPc, lastWord, T, m), NEW f, f = Fetch(u), ~ (f.wait > 0 /\ f.at # None)
  PROVE  /\ FetchedRight(Unread(f), T, m)
         /\ f.stall => f.wait > 0
         /\ f.wait > 0 => f.stall \/ fetchHalt > 0
  <1>1. fetchHalt \in Nat /\ pc \in Word /\ pc # None /\ lastPc \in Word \union {None}
    BY PipelineAssumption DEF PipeInv, TypeOK
  <1>2. ASSUME NEW word, NEW at, NEW wait, f = NoFetch(word, at, wait)
        PROVE  /\ f.wait = wait /\ f.stall = FALSE /\ f.lines = iLines /\ f.word = word
               /\ f.at = at /\ f.lastPc = lastPc /\ f.lastWord = lastWord
    BY <1>2 DEF NoFetch
  <1>3. CASE lastPc = pc
    <2>1. f = NoFetch(lastWord, pc, fetchHalt)
      BY <1>3 DEF Fetch
    <2>2. /\ f.wait = fetchHalt /\ f.stall = FALSE /\ f.lines = iLines /\ f.word = lastWord
          /\ f.at = pc /\ f.lastPc = lastPc /\ f.lastWord = lastWord
      BY <1>2, <2>1
    <2>3. fetchHalt = 0
      BY <1>1, <2>2
    <2> QED
      BY <1>3, <2>2, <2>3 DEF FetchedRight, Found, Unread
  <1>4. CASE lastPc # pc /\ haltSeen
    <2>1. f = NoFetch(0, None, fetchHalt)
      BY <1>4 DEF Fetch
    <2>2. fetchHalt = 0
      BY <1>1, <1>4
    <2> QED
      BY <1>2, <1>4, <2>1, <2>2 DEF FetchedRight, Found, Unread
  <1>5. CASE lastPc # pc /\ ~ haltSeen /\ fetchHalt > 1
    <2>1. f = NoFetch(0, None, fetchHalt - 1)
      BY <1>5 DEF Fetch
    <2>2. fetchHalt - 1 > 0 /\ fetchHalt > 0
      BY <1>1, <1>5
    <2> QED
      BY <1>2, <1>5, <2>1, <2>2 DEF FetchedRight, Missing, Unread
  <1>6. CASE lastPc # pc /\ ~ haltSeen /\ ~ (fetchHalt > 1)
    <2>1. f = Lookup(u)
      BY <1>6 DEF Fetch
    <2>2. /\ TextCached(f.lines, T, m) /\ f.wait \in Nat /\ (f.stall <=> f.wait # 0)
          /\ f.wait = 0 => /\ f.word = f.lastWord /\ f.lastPc = pc /\ f.at = pc
                           /\ LastRight(pc, f.word, T, m)
          /\ f.wait # 0 => f.at = None /\ f.lastPc = lastPc /\ f.lastWord = lastWord
      BY <2>1, LookupRight
    <2>3. CASE f.wait = 0
      BY <1>6, <2>2, <2>3 DEF FetchedRight, Found, Unread
    <2>4. CASE f.wait # 0
      <3>1. f.wait > 0
        BY <2>2, <2>4
      <3> QED
        BY <1>6, <2>2, <2>4, <3>1 DEF FetchedRight, Missing, Unread
    <2> QED
      BY <2>3, <2>4
  <1> QED
    BY <1>3, <1>4, <1>5, <1>6

-----------------------------------------------------------------------------
(***************************************************************************)
(* Between fetch and decode.                                               *)
(***************************************************************************)

Unknown(i) == Code[i.word].op \in {"illegal", "badFunct"}

\* The IF/ID latch i holds the instruction of s; or, when the instruction
\* before it overflows and i is to be squashed, one that will not stall.
IdRight(i, s, over) ==
  /\ i.at = None => i.word = 0
  /\ s.slot # None => i.at # None
  /\ IF over THEN Code[i.word].op \notin Branches \union {"jr"}
     ELSE i.at # None => i.at = CurOf(s) /\ i.pc = i.at /\ i.word = WordIn(s)

\* The program counter is behind the instruction in i; or the halt word has
\* been fetched and nothing but the halt word is fetched any more.
IfRight(i, s, over, p, seen, lp, lw) ==
  ~ over /\ ~ Unknown(i) =>
    \/ seen /\ lw = HaltWord /\ AtEnd(s) /\ lp = CurOf(s)
    \/ /\ i.at # None => ~ AtEnd(s)
       /\ p = IF i.at = None THEN CurOf(s) ELSE Follow(s)
       /\ seen => lw = HaltWord /\ lp = p

\* While the IF/ID latch is held, fetching again changes nothing.
LEMMA HoldRight ==
  ASSUME NEW f, NEW T, NEW m, FetchedRight(f, T, m), NEW i, NEW s, NEW over,
         IfRight(i, s, over, pc, haltSeen, lastPc, lastWord)
  PROVE  IfRight(i, s, over, pc, haltSeen \/ f.word = HaltWord, f.lastPc, f.lastWord)
  <1> SUFFICES ASSUME ~ over, ~ Unknown(i)
               PROVE  IfRight(i, s, over, pc, haltSeen \/ f.word = HaltWord, f.lastPc, f.lastWord)
    BY DEF IfRight
  <1>3. CASE Missing(f)
    BY <1>3, MipsAssumption DEF IfRight, Missing
  <1>1. CASE Found(f) /\ haltSeen /\ lastWord = HaltWord /\ AtEnd(s) /\ lastPc = CurOf(s)
    BY <1>1 DEF IfRight, Found
  <1>2. CASE /\ Found(f)
             /\ i.at # None => ~ AtEnd(s)
             /\ pc = IF i.at = None THEN CurOf(s) ELSE Follow(s)
             /\ haltSeen => lastWord = HaltWord /\ lastPc = pc
    <2>1. f.word = f.lastWord /\ f.lastPc = pc
      BY <1>2 DEF Found
    <2>2. haltSeen => f.lastWord = lastWord
      BY <1>2 DEF Found
    <2>3. haltSeen \/ f.word = HaltWord => f.lastWord = HaltWord /\ f.lastPc = pc
      BY <1>2, <2>1, <2>2
    <2> QED
      BY <1>2, <2>3 DEF IfRight
  <1> QED
    BY <1>1, <1>2, <1>3 DEF IfRight, FetchedRight

\* An instruction enters the IF/ID latch, or none while it is waited for, and
\* the one before it leaves decode.
LEMMA MoveRight ==
  ASSUME NEW s, NEW m, NEW T, NEW G, Reached(s, m, T, G), NEW f, FetchedRight(f, T, m),
         pc \in Word,
         IdRight(ifid, s, FALSE), IfRight(ifid, s, FALSE, pc, haltSeen, lastPc, lastWord),
         ~ Unknown(ifid), NEW i, i = [pc |-> pc, word |-> f.word, at |-> f.at],
         NEW q, q = (IF ifid.at = None THEN s ELSE StepOf(s)),
         NEW goal, goal = (IF ifid.at = None THEN None ELSE GoesTo(s)),
         f.wait > 0 => goal = None,
         NEW p, p = (IF goal # None THEN goal ELSE IF f.wait > 0 THEN pc ELSE Plus(pc, 4)),
         NEW over, over <=> ifid.at # None /\ OverflowIn(s)
  PROVE  /\ IdRight(i, q, over)
         /\ IfRight(i, q, over, p, haltSeen \/ f.word = HaltWord, f.lastPc, f.lastWord)
  <1>1. /\ Reached(q, m, T, G) /\ Meant(s, m, T) /\ Meant(q, m, T)
        /\ WordIn(q) = TextAt(m, CurOf(q)) /\ s \in RefState /\ q \in RefState
        /\ InText(CurOf(q), T)
    <2>1. Reached(q, m, T, G)
      BY StepReached
    <2>2. /\ Meant(s, m, T) /\ Meant(q, m, T) /\ s \in RefState /\ q \in RefState
          /\ WordIn(q) = TextAt(m, CurOf(q))
      BY <2>1, InstrParts
    <2>3. InText(CurOf(q), T)
      BY <2>2 DEF Meant
    <2> QED
      BY <2>1, <2>2, <2>3
  <1>2. i.at = f.at /\ i.pc = pc /\ i.word = f.word
    OBVIOUS
  <1>3. pc # None
    BY PipelineAssumption
  <1>4. ifid.at # None => WordIn(s) = ifid.word
    BY DEF IdRight
  <1>7. CASE Missing(f)
    <2>1. /\ ~ haltSeen /\ f.word = 0 /\ f.at = None /\ f.wait > 0
          /\ f.lastPc = lastPc /\ f.lastWord = lastWord /\ goal = None /\ p = pc
      BY <1>7 DEF Missing
    <2>2. /\ ifid.at # None => ~ AtEnd(s)
          /\ pc = IF ifid.at = None THEN CurOf(s) ELSE Follow(s)
      BY <2>1 DEF IfRight
    <2>3. q.slot = None /\ (~ over => CurOf(q) = pc)
      <3>1. CASE ifid.at = None
        BY <2>2, <3>1 DEF IdRight
      <3>2. CASE ifid.at # None /\ OverflowIn(s)
        BY <2>2, <3>2 DEF StepOf, TrapsIn, Trapped
      <3>3. CASE ifid.at # None /\ ~ OverflowIn(s)
        <4>1. ~ IllegalIn(s)
          BY <1>4, <3>3 DEF Unknown, IllegalIn, InstrIn
        <4>2. q = Completed(s) /\ GoesTo(s) = None
          BY <2>1, <2>2, <3>3, <4>1 DEF StepOf, TrapsIn
        <4> QED
          BY <2>2, <3>3, <4>2 DEF Completed, CurOf
      <3> QED
        BY <3>1, <3>2, <3>3
    <2>4. Code[0].op \notin Branches \union {"jr"} /\ 0 # HaltWord
      BY MipsAssumption DEF Nop, Branches
    <2>5. IdRight(i, q, over)
      BY <1>2, <2>1, <2>3, <2>4 DEF IdRight
    <2>6. IfRight(i, q, over, p, haltSeen \/ f.word = HaltWord, f.lastPc, f.lastWord)
      BY <1>2, <2>1, <2>3, <2>4 DEF IfRight
    <2> QED
      BY <2>5, <2>6
  <1>5. CASE Found(f) /\ haltSeen /\ lastWord = HaltWord /\ AtEnd(s) /\ lastPc = CurOf(s)
    <2>1. q = s /\ ~ over
      <3>1. ~ OverflowIn(s)
        BY <1>5, OverflowOps, InstrParts
      <3> QED
        BY <1>5, <3>1 DEF StepOf
    <2>2. s.slot = None /\ WordIn(s) = HaltWord
      BY <1>5 DEF AtEnd
    <2>3. /\ f.lastPc = lastPc /\ f.lastWord = lastWord
          /\ \/ f.word = lastWord /\ f.at = pc /\ pc = lastPc
             \/ f.word = 0 /\ f.at = None
      BY <1>5 DEF Found
    <2>4. IfRight(i, q, over, p, haltSeen \/ f.word = HaltWord, f.lastPc, f.lastWord)
      BY <1>5, <2>1, <2>3 DEF IfRight
    <2>5. IdRight(i, q, over)
      BY <1>2, <1>3, <1>5, <2>1, <2>2, <2>3 DEF IdRight
    <2> QED
      BY <2>4, <2>5
  <1>6. CASE /\ Found(f)
             /\ ifid.at # None => ~ AtEnd(s)
             /\ pc = IF ifid.at = None THEN CurOf(s) ELSE Follow(s)
             /\ haltSeen => lastWord = HaltWord /\ lastPc = pc
    <2>1. /\ f.word = f.lastWord /\ f.lastPc = pc /\ f.at = pc
          /\ haltSeen => f.word = HaltWord
          /\ InText(pc, T) => f.word = TextAt(m, pc)
          /\ p = IF goal # None THEN goal ELSE Plus(pc, 4)
      BY <1>3, <1>6 DEF FetchedRight, Found, LastRight
    <2>2. IfRight(i, q, over, p, f.word = HaltWord, pc, f.word) /\ IdRight(i, q, over)
      <3>1. CASE over
        <4>1. ifid.at # None /\ OverflowIn(s)
          BY <3>1
        <4>2. f.word = ReadMem(m, pc, 4) /\ Code[f.word].op \notin Branches \union {"jr"}
          <5>1. pc = Follow(s) /\ InText(pc, T)
            BY <1>1, <1>6, <4>1 DEF Meant
          <5>2. pc \in Nat
            BY <1>1, <5>1, StateParts
          <5>3. ReadMem(m, pc, 4) = TextAt(m, pc)
            BY <5>1, <5>2, TextWord
          <5> QED
            BY <1>1, <2>1, <4>1, <5>1, <5>3 DEF Meant
        <4>3. q.slot = None
          BY <1>6, <4>1 DEF StepOf, TrapsIn, Trapped
        <4> QED
          BY <1>2, <1>3, <2>1, <3>1, <4>2, <4>3 DEF IdRight, IfRight
      <3>2. CASE ~ over
        <4>1. /\ CurOf(q) = pc
              /\ ~ AtEnd(q) => p = Follow(q)
          <5>1. CASE ifid.at = None
            <6>1. q = s /\ s.slot = None /\ pc = CurOf(s) /\ p = Plus(pc, 4)
              BY <1>6, <2>1, <5>1 DEF IdRight
            <6> QED
              BY <6>1 DEF CurOf, Follow
          <5>2. CASE ifid.at # None
            <6>1. q = Completed(s) /\ pc = Follow(s)
              <7>1. ~ IllegalIn(s)
                BY <1>4, <5>2 DEF Unknown, IllegalIn, InstrIn
              <7> QED
                BY <1>6, <3>2, <5>2, <7>1 DEF StepOf, TrapsIn
            <6>2. CASE GoesTo(s) = None
              BY <2>1, <5>2, <6>1, <6>2 DEF Completed, CurOf, Follow
            <6>3. CASE GoesTo(s) # None
              <7>1. s.slot = None
                <8>1. InstrIn(s).op \in Branches \union Jumps
                  BY <6>3 DEF GoesTo, Branches, Jumps
                <8> QED
                  BY <1>1, <8>1 DEF Meant
              <7>2. Plus(s.pc, 4) # None
                BY <1>1, <7>1, StateParts, PipelineAssumption DEF Follow
              <7> QED
                BY <2>1, <5>2, <6>1, <6>3, <7>1, <7>2 DEF Completed, CurOf, Follow
            <6> QED
              BY <6>2, <6>3
          <5> QED
            BY <5>1, <5>2
        <4>2. f.word = WordIn(q) /\ f.at = CurOf(q)
          BY <1>1, <2>1, <4>1
        <4>3. f.word = HaltWord <=> AtEnd(q)
          BY <1>1, <4>2, InstrParts
        <4>4. IdRight(i, q, over)
          BY <1>2, <1>3, <2>1, <3>2, <4>1, <4>2 DEF IdRight
        <4>5. IfRight(i, q, over, p, f.word = HaltWord, pc, f.word)
          BY <1>2, <1>3, <2>1, <4>1, <4>3 DEF IfRight
        <4> QED
          BY <4>4, <4>5
      <3> QED
        BY <3>1, <3>2
    <2>3. (haltSeen \/ f.word = HaltWord) <=> f.word = HaltWord
      BY <2>1
    <2>4. IfRight(i, q, over, p, haltSeen \/ f.word = HaltWord, f.lastPc, f.lastWord)
      BY <2>1, <2>2, <2>3 DEF IfRight
    <2> QED
      BY <2>2, <2>4
  <1> QED
    BY <1>5, <1>6, <1>7 DEF IfRight, FetchedRight

-----------------------------------------------------------------------------
(***************************************************************************)
(* The two simulators keep step.                                           *)
(***************************************************************************)

\* While a fetch is waited for there is nothing to decode, and no halt word.
WaitsEmpty == fetchHalt > 0 => ~ haltSeen /\ ifid.at = None

Flight(m, T, G) ==
  /\ Reached(S0, m, T, G) /\ ~ rfailed /\ regs = rregs
  /\ WbOK(memwb, S0) /\ MemOK(exmem, S1) /\ ExOK(Operands, S2)
  /\ IdRight(ifid, S3, Overflowing)
  /\ IfRight(ifid, S3, Overflowing, pc, haltSeen, lastPc, lastWord)
  /\ SeenOK
  /\ TextCached(iLines, T, m) /\ DataKept(dLines, mem, cycle, T, m)
  /\ LastRight(lastPc, lastWord, T, m)
  /\ halted => AtEnd(S0)
  /\ memHalt > 0 => memwb.at = None
  /\ WaitsEmpty

\* The functional simulator sees the end of the program.
LEMMA EndIsHalt ==
  ASSUME NEW m, NEW T, NEW G, Reached(S0, m, T, G)
  PROVE  Ref!AtHalt <=> AtEnd(S0)
  <1>1. Ref!Fetched = WordIn(S0) /\ S0.slot = rslot
    BY ReferenceSame DEF S0, Ref!Fetched, Ref!Current, WordIn, CurOf
  <1>2. AtEnd(S0) => Backed(rpc, 4)
    <2>1. Meant(S0, m, T) /\ T \in SUBSET Addr /\ S0 \in RefState
      BY InstrParts
    <2>2. CurOf(S0) + 3 \in Addr /\ CurOf(S0) \in Nat
      BY <2>1, StateParts DEF Meant, InText
    <2>3. AtEnd(S0) => CurOf(S0) = rpc
      BY DEF AtEnd, CurOf, S0
    <2> QED
      BY <2>2, <2>3, BytesHere DEF Backed
  <1> QED
    BY <1>1, <1>2, ReferenceSame DEF Ref!AtHalt, AtEnd

\* The functional simulator runs an instruction when the pipeline has one to
\* write back, and there is one to run then.
LEMMA ReferenceMoves ==
  ASSUME PipeInv, NEW m, NEW T, NEW G, Reached(S0, m, T, G), WbOK(memwb, S0), ~ rfailed,
         Cycle, LockCycle
  PROVE  S0' = S1 /\ ~ rfailed' /\ (memwb.op = "halt" => AtEnd(S0) /\ S1 = S0)
  <1>1. memwb.op = "halt" <=> memwb.at # None /\ AtEnd(S0)
    BY WbHalts
  <1>2. Ref!AtHalt <=> AtEnd(S0)
    BY EndIsHalt
  <1>3. CASE memwb.at # None /\ ~ AtEnd(S0)
    <2>1. Retiring
      BY <1>1, <1>2, <1>3 DEF Retiring
    <2>2. Ref!Next
      <3>1. Retire
        <4>1. Retire \/ Freeze
          BY <2>1 DEF LockCycle, Other
        <4>2. ~ Freeze
          BY DEF Cycle, Freeze, PipeInv, TypeOK
        <4> QED
          BY <4>1, <4>2
      <3> QED
        BY <3>1 DEF Retire
    <2>3. S0' = StepOf(S0) /\ ~ rfailed'
      BY <1>3, <2>2, ReferenceStep
    <2> QED
      BY <1>1, <1>3, <2>3 DEF S1, Past
  <1>4. CASE memwb.at = None \/ AtEnd(S0)
    <2>1. ~ Retiring
      BY <1>1, <1>2, <1>4 DEF Retiring
    <2>2. UNCHANGED <<rregs, rmem, rpc, rslot, rfailed>>
      BY <2>1 DEF LockCycle, Retire, Other, refVars
    <2>3. S0' = S0
      BY <2>2 DEF S0
    <2>4. S1 = S0
      BY <1>4 DEF S1, Past, StepOf
    <2> QED
      BY <1>1, <2>2, <2>3, <2>4
  <1> QED
    BY <1>3, <1>4

LEMMA PrimedStages ==
  /\ S1' = Past(S0', memwb') /\ S2' = Past(S1', exmem') /\ S3' = Past(S2', idex')
  /\ Operands' = Forward(Forward(idex', memwb'), exmem')
  /\ Overflowing' <=> idex'.at # None /\ OverflowIn(S2')
  /\ SeenOK' <=> IF exmem'.op \in Stores /\ memHalt' > 0
                 THEN Between(D!View(dLines', mem'), S1'.mem, S2'.mem)
                 ELSE D!View(dLines', mem') = S1'.mem
  BY DEF S1, S2, S3, Operands, Overflowing, SeenOK

\* Blocks do not get ready later when time passes.
LEMMA LaterReady ==
  ASSUME NEW now \in Nat
  PROVE  /\ \A ls \in D!LinesOver(Byte) : D!ReadyBound(ls, now) => D!ReadyBound(ls, now + 1)
         /\ \A ls \in I!LinesOver(Byte) : I!ReadyBound(ls, now) => I!ReadyBound(ls, now + 1)
  <1>1. DCLatency \in Nat /\ ICLatency \in Nat
    BY PipelineAssumption
  <1>2. ASSUME NEW ls \in D!LinesOver(Byte), D!ReadyBound(ls, now)
        PROVE  D!ReadyBound(ls, now + 1)
    <2>1. \A i \in D!Sets, w \in D!Ways : ls[i][w].cycleReady \in Nat
      BY Geometries, D!LineParts
    <2> QED
      BY <1>1, <1>2, <2>1 DEF D!ReadyBound
  <1>3. ASSUME NEW ls \in I!LinesOver(Byte), I!ReadyBound(ls, now)
        PROVE  I!ReadyBound(ls, now + 1)
    <2>1. \A i \in I!Sets, w \in I!Ways : ls[i][w].cycleReady \in Nat
      BY Geometries, I!LineParts
    <2> QED
      BY <1>1, <1>3, <2>1 DEF I!ReadyBound
  <1> QED
    BY <1>2, <1>3

\* What a cycle that fetched f, and whose memory stage left r, does to caches.
CachesMove(f, r) ==
  /\ iLines' = f.lines /\ dLines' = r.lines /\ mem' = r.mem /\ cycle' = cycle + 1
  /\ dStats' = r.stats
  /\ lastPc' = f.lastPc /\ lastWord' = f.lastWord

LEMMA CachesFly ==
  ASSUME PipeInv, NEW T, NEW m, NEW f, FetchLeaves(f), FetchedRight(f, T, m),
         NEW r, NEW x, MemLeaves(r, x), DataKept(r.lines, r.mem, cycle, T, m),
         CachesMove(f, r)
  PROVE  /\ TextCached(iLines, T, m)' /\ DataKept(dLines', mem', cycle', T, m)
         /\ LastRight(lastPc', lastWord', T, m)
  <1>1. cycle \in Nat
    BY PipelineAssumption DEF PipeInv, TypeOK
  <1>2. D!ReadyBound(r.lines, cycle + 1) /\ I!ReadyBound(f.lines, cycle + 1)
    <2>1. f.lines \in I!LinesOver(Byte) /\ r.lines \in D!LinesOver(Byte)
      BY DEF FetchLeaves, MemLeaves
    <2>2. D!ReadyBound(r.lines, cycle) /\ I!ReadyBound(f.lines, cycle)
      BY DEF FetchedRight, TextCached, DataKept
    <2> QED
      BY <1>1, <2>1, <2>2, LaterReady
  <1>3. D!TextKept(r.lines, r.mem, T, m)
    BY DEF DataKept
  <1>4. I!TextKept(f.lines, r.mem, T, m)
    <2>1. \A a \in T : r.mem[a] = m[a]
      BY <1>3 DEF D!TextKept
    <2> QED
      BY <2>1 DEF FetchedRight, TextCached, I!TextKept
  <1>5. DataKept(dLines', mem', cycle', T, m)
    BY <1>2, <1>3 DEF CachesMove, DataKept
  <1>6. TextCached(iLines, T, m)'
    BY <1>2, <1>4 DEF CachesMove, TextCached
  <1>7. LastRight(lastPc', lastWord', T, m)
    BY DEF CachesMove, FetchedRight
  <1> QED
    BY <1>5, <1>6, <1>7

\* The memory stage is to go on: every instruction stays where it is.
LEMMA HeldLatches ==
  ASSUME PipeInv, NEW m, NEW T, NEW G, Flight(m, T, G), S0' = S1,
         memwb' = Bubble, exmem' = exmem, idex' = Operands
  PROVE  /\ S1' = S1 /\ S2' = S2 /\ S3' = S3 /\ (Overflowing' <=> Overflowing)
         /\ WbOK(memwb', S0') /\ MemOK(exmem', S1') /\ ExOK(Operands', S2')
  <1>1. idex \in Latch /\ exmem \in Latch /\ memwb \in Latch
    BY DEF PipeInv, TypeOK
  <1>2. Operands \in Latch /\ SameInstr(Operands, idex)
    BY StageTypes
  <1>3. /\ S1' = Past(S0', memwb') /\ S2' = Past(S1', exmem') /\ S3' = Past(S2', idex')
        /\ Operands' = Forward(Forward(idex', memwb'), exmem')
        /\ Overflowing' <=> idex'.at # None /\ OverflowIn(S2')
    BY PrimedStages
  <1>4. S1' = S1
    BY <1>3, BubbleOK
  <1>5. S2' = S2
    BY <1>3, <1>4 DEF S2
  <1>6. S3' = S3
    BY <1>2, <1>3, <1>5 DEF S3, Past, SameInstr
  <1>7. Operands' = Operands
    <2> DEFINE d == Forward(idex, memwb)
    <2>1. d \in Latch
      BY <1>1, ForwardKeeps
    <2>2. SameInstr(exmem, exmem)
      BY DEF SameInstr
    <2>3. Operands = Forward(d, exmem)
      BY DEF Operands
    <2> HIDE DEF d
    <2>4. Forward(Forward(Forward(d, exmem), Bubble), exmem) = Forward(d, exmem)
      BY <1>1, <2>1, <2>2, SameOperands
    <2> QED
      BY <1>3, <2>3, <2>4
  <1>8. Overflowing' <=> Overflowing
    BY <1>2, <1>3, <1>5 DEF Overflowing, SameInstr
  <1>9. WbOK(memwb', S0')
    BY BubbleOK
  <1> QED
    BY <1>4, <1>5, <1>6, <1>7, <1>8, <1>9 DEF Flight

\* The instructions move on: idex' is decoded, or a bubble.
LEMMA MovedLatches ==
  ASSUME PipeInv, PipeInv', NEW m, NEW T, NEW G, Flight(m, T, G), S0' = S1,
         NEW l, WbOK(l, S1), l.at = exmem.at,
         memwb' = l, exmem' = Execute(Operands),
         \/ idex' = Bubble
         \/ /\ ~ Overflowing /\ Awaits(idex', S1, S2, S3)
            /\ ~ (idex.op \in Loads /\ idex.dest # 0 /\ idex.dest \in {idex'.rs, idex'.rt})
  PROVE  /\ S1' = S2 /\ S2' = S3 /\ S3' = Past(S3, idex')
         /\ Overflowing' <=> idex'.at # None /\ OverflowIn(S3)
         /\ WbOK(memwb', S0') /\ MemOK(exmem', S1') /\ ExOK(Operands', S2')
  <1> DEFINE e == Operands
             x == Execute(e)
             d == idex'
  <1>1. /\ idex' \in Latch /\ exmem' \in Latch /\ memwb' \in Latch
    BY DEF PipeInv, TypeOK
  <1>2. e \in Latch /\ SameInstr(e, idex) /\ Shifts(e)
    BY StageTypes
  <1>3. /\ S1' = Past(S0', memwb') /\ S2' = Past(S1', exmem') /\ S3' = Past(S2', idex')
        /\ Operands' = Forward(Forward(idex', memwb'), exmem')
        /\ Overflowing' <=> idex'.at # None /\ OverflowIn(S2')
    BY PrimedStages
  <1>4. /\ Reached(S0, m, T, G) /\ Reached(S1, m, T, G) /\ Reached(S2, m, T, G)
        /\ Reached(S3, m, T, G) /\ ExOK(e, S2)
    BY FlightReached DEF Flight
  <1> HIDE DEF e
  <1>5. /\ MemOK(x, S2) /\ x.at = e.at /\ (ExOverflow(e) <=> e.at # None /\ OverflowIn(S2))
    BY <1>2, <1>4, ExecuteRight
  <1>6. S1' = S2
    BY <1>3 DEF S2, Past
  <1>7. S2' = S3
    <2>1. x.at = idex.at /\ exmem' = x
      BY <1>2, <1>5 DEF SameInstr, e
    <2> HIDE DEF x
    <2> QED
      BY <1>3, <1>6, <2>1 DEF S3, Past
  <1>8. x.op \in Loads => idex.op \in Loads /\ x.dest = idex.dest
    <2>1. CASE ExOverflow(e)
      BY <1>2, <2>1, ExecuteKeeps DEF Loads
    <2>2. CASE ~ ExOverflow(e)
      BY <1>2, <2>2, ExecuteKeeps DEF SameInstr
    <2> QED
      BY <2>1, <2>2
  <1>9. ExOK(Operands', S2')
    <2>1. exmem' = x
      BY DEF e
    <2> HIDE DEF x
    <2>2. S2 = Past(S1, l) /\ S3 = Past(S2, x)
      <3>1. S2 = Past(S1, l)
        BY DEF S2, Past
      <3> QED
        BY <1>3, <1>6, <1>7, <2>1, <3>1
    <2>3. CASE idex' = Bubble
      <3>1. Awaits(Bubble, S1, S2, S3)
        BY DEF Awaits, Of, Idle, Bubble
      <3>2. Bubble.rs = 0 /\ Bubble.rt = 0
        BY DEF Bubble
      <3>3. ~ (x.op \in Loads /\ x.dest # 0 /\ x.dest \in {Bubble.rs, Bubble.rt})
        BY <3>2
      <3>4. x \in Latch /\ l \in Latch
        BY <1>1, <2>1
      <3>5. ExOK(Forward(Forward(Bubble, l), x), S3)
        BY <1>4, <1>5, <2>2, <3>1, <3>3, <3>4, BubbleLatch, OperandsRight
      <3> QED
        BY <1>3, <1>7, <2>1, <2>3, <3>5
    <2>4. CASE /\ Awaits(d, S1, S2, S3)
               /\ ~ (idex.op \in Loads /\ idex.dest # 0 /\ idex.dest \in {d.rs, d.rt})
      <3>1. ~ (x.op \in Loads /\ x.dest # 0 /\ x.dest \in {d.rs, d.rt})
        BY <1>8, <2>4
      <3>2. x \in Latch /\ l \in Latch /\ d \in Latch
        BY <1>1, <2>1
      <3> HIDE DEF d
      <3>3. ExOK(Forward(Forward(d, l), x), S3)
        BY <1>4, <1>5, <2>2, <2>4, <3>1, <3>2, OperandsRight
      <3> QED
        BY <1>3, <1>7, <2>1, <3>3 DEF d
    <2> QED
      BY <2>3, <2>4
  <1>10. WbOK(memwb', S0')
    OBVIOUS
  <1>11. MemOK(exmem', S1')
    BY <1>5, <1>6 DEF e
  <1> QED
    BY <1>3, <1>6, <1>7, <1>9, <1>10, <1>11

\* What is decoded in flight: an instruction that overflows is not waited for,
\* one that does not decode is told from the others.
LEMMA DecodedInFlight ==
  ASSUME PipeInv, NEW m, NEW T, NEW G, Flight(m, T, G), NEW d, d = Decode(WriteBack(memwb))
  PROVE  /\ d.trap <=> Unknown(ifid)
         /\ Overflowing => ~ d.stall
         /\ Unknown(ifid) => ifid.at # None
         /\ ~ Overflowing /\ ifid.at # None => DecodedRight(d) /\ ifid.word = WordIn(S3)
         /\ ~ Overflowing /\ ifid.at = None =>
              /\ ~ d.stall /\ d.target = None /\ d.latch.at = None
              /\ Awaits(d.latch, S1, S2, S3) /\ d.latch.rs = 0 /\ d.latch.rt = 0
  <1>1. d.trap <=> Unknown(ifid)
    BY DecodeIs DEF Unknown
  <1>2. ifid.at = None => ifid.word = 0
    BY DEF Flight, IdRight
  <1>3. Unknown(ifid) => ifid.at # None
    <2>1. Code[0].op = "sll"
      BY MipsAssumption DEF Nop
    <2> QED
      BY <1>2, <2>1 DEF Unknown
  <1>4. ASSUME Overflowing
        PROVE  ~ d.stall
    <2>1. Code[ifid.word].op \notin Branches \union {"jr"}
      BY <1>4 DEF Flight, IdRight
    <2>2. idex.at # None /\ OverflowIn(S2)
      BY <1>4 DEF Overflowing
    <2>3. Operands.op = idex.op /\ Operands.at = idex.at /\ ExOK(Operands, S2)
      BY StageTypes DEF SameInstr, Flight
    <2>4. idex.op \notin Loads
      <3>1. InstrIn(S2).op \notin Loads \union {"illegal", "badFunct"}
        BY <2>2, OverflowOps
      <3>2. Carries(Operands, S2)
        BY <2>2, <2>3, <3>1 DEF ExOK, IllegalIn
      <3> QED
        BY <2>3, <3>1, <3>2 DEF Carries
    <2> QED
      BY <2>1, <2>4, DecodeAtOnce
  <1>5. ASSUME ~ Overflowing, ifid.at # None
        PROVE  DecodedRight(d) /\ ifid.word = WordIn(S3)
    <2>1. ifid.at = CurOf(S3) /\ ifid.pc = ifid.at /\ ifid.word = WordIn(S3)
      BY <1>5 DEF Flight, IdRight
    <2> QED
      BY <2>1, DecodeRight DEF Flight
  <1>6. ifid.at = None =>
          /\ ~ d.stall /\ d.target = None /\ d.latch.at = None
          /\ Awaits(d.latch, S1, S2, S3) /\ d.latch.rs = 0 /\ d.latch.rt = 0
    BY <1>2, DecodeNothing
  <1> QED
    BY <1>1, <1>3, <1>4, <1>5, <1>6

\* What the front of the pipeline is to be after a cycle.
FrontRight ==
  /\ IdRight(ifid, S3, Overflowing)
  /\ IfRight(ifid, S3, Overflowing, pc, haltSeen, lastPc, lastWord)

\* What a cycle does to it: nextPc as Advance computes it.
SameFetch(x, y) == x.word = y.word /\ x.at = y.at /\ (y.at # None => x.pc = y.pc)

FrontMoves(f, d, overflow, wait) ==
  LET trap == d.trap \/ overflow
  IN  /\ lastPc' = f.lastPc /\ lastWord' = f.lastWord
      /\ haltSeen' <=> ~ trap /\ (haltSeen \/ f.word = HaltWord)
      /\ d.stall \/ wait => pc' = pc /\ SameFetch(ifid', ifid)
      /\ ~ d.stall /\ ~ wait =>
           /\ pc' = IF overflow THEN ExcAddr
                    ELSE IF d.target # None THEN d.target
                    ELSE IF f.wait > 0 THEN pc ELSE Plus(pc, 4)
           /\ SameFetch(ifid', [pc |-> pc, word |-> IF trap THEN 0 ELSE f.word,
                                at |-> IF trap THEN None ELSE f.at])
      /\ fetchHalt' = f.wait
      /\ f.wait > 0 => ifid'.at = None /\ d.target = None

LEMMA FrontHeld ==
  ASSUME PipeInv, NEW m, NEW T, NEW G, Flight(m, T, G), NEW f, FetchedRight(f, T, m),
         NEW d, d = Decode(WriteBack(memwb)), NEW wait, d.stall \/ wait,
         FrontMoves(f, d, Overflowing, wait),
         S3' = S3, Overflowing' => Overflowing, wait => (Overflowing' <=> Overflowing)
  PROVE  FrontRight'
  <1>1. /\ d.trap <=> Unknown(ifid)
        /\ Overflowing => ~ d.stall
    BY DecodedInFlight
  <1>2. Overflowing' <=> Overflowing
    BY <1>1
  <1>3. /\ pc' = pc /\ lastPc' = f.lastPc /\ lastWord' = f.lastWord
        /\ ifid'.word = ifid.word /\ ifid'.at = ifid.at
        /\ ifid.at # None => ifid'.pc = ifid.pc
    BY DEF FrontMoves, SameFetch
  <1>4. IdRight(ifid, S3, Overflowing)
    BY DEF Flight
  <1>5. IdRight(ifid', S3', Overflowing')
    BY <1>2, <1>3, <1>4 DEF IdRight
  <1>6. IfRight(ifid', S3', Overflowing', pc', haltSeen', lastPc', lastWord')
    <2>1. CASE Unknown(ifid) \/ Overflowing
      BY <1>2, <1>3, <2>1 DEF IfRight, Unknown
    <2>2. CASE ~ Unknown(ifid) /\ ~ Overflowing
      <3>1. haltSeen' <=> haltSeen \/ f.word = HaltWord
        BY <1>1, <2>2 DEF FrontMoves
      <3>2. IfRight(ifid, S3, Overflowing, pc, haltSeen, lastPc, lastWord)
        BY DEF Flight
      <3>3. IfRight(ifid, S3, Overflowing, pc, haltSeen \/ f.word = HaltWord, f.lastPc, f.lastWord)
        BY <3>2, HoldRight
      <3> QED
        BY <1>2, <1>3, <3>1, <3>3 DEF IfRight, Unknown
    <2> QED
      BY <2>1, <2>2
  <1> QED
    BY <1>5, <1>6 DEF FrontRight

LEMMA FrontFlushed ==
  ASSUME PipeInv, NEW f, NEW d, FrontMoves(f, d, Overflowing, FALSE), ~ d.stall,
         d.trap \/ Overflowing, ~ Overflowing => d.target = ExcAddr,
         S3'.slot = None, S3'.pc = ExcAddr, ~ Overflowing'
  PROVE  FrontRight'
  <1>1. ExcAddr # None
    BY MipsAssumption, PipelineAssumption
  <1>2. /\ pc' = ExcAddr /\ ifid'.word = 0 /\ ifid'.at = None /\ ~ haltSeen'
    BY <1>1 DEF FrontMoves, SameFetch
  <1>3. CurOf(S3') = pc'
    BY <1>2 DEF CurOf
  <1>4. IdRight(ifid', S3', Overflowing')
    BY <1>2 DEF IdRight
  <1>5. IfRight(ifid', S3', Overflowing', pc', haltSeen', lastPc', lastWord')
    BY <1>2, <1>3 DEF IfRight
  <1> QED
    BY <1>4, <1>5 DEF FrontRight

LEMMA FrontMoved ==
  ASSUME PipeInv, NEW m, NEW T, NEW G, Flight(m, T, G), NEW f, FetchedRight(f, T, m),
         NEW d, d = Decode(WriteBack(memwb)), FrontMoves(f, d, Overflowing, FALSE),
         ~ d.stall, ~ Unknown(ifid), ~ Overflowing,
         S3' = Past(S3, d.latch), Overflowing' <=> d.latch.at # None /\ OverflowIn(S3)
  PROVE  FrontRight'
  <1>1. /\ ~ d.trap /\ d.latch.at = ifid.at
        /\ d.target = IF ifid.at = None THEN None ELSE GoesTo(S3)
    <2>1. ifid.at # None => ~ IllegalIn(S3)
      BY DecodedInFlight DEF Unknown, IllegalIn, InstrIn
    <2> QED
      BY <2>1, DecodedInFlight DEF DecodedRight
  <1>2. Reached(S3, m, T, G) /\ pc \in Word
    BY FlightReached DEF Flight, PipeInv, TypeOK
  <1>3. IdRight(ifid, S3, FALSE) /\ IfRight(ifid, S3, FALSE, pc, haltSeen, lastPc, lastWord)
    BY DEF Flight, IdRight, IfRight
  <1> DEFINE i == [pc |-> pc, word |-> f.word, at |-> f.at]
             q == IF ifid.at = None THEN S3 ELSE StepOf(S3)
             goal == IF ifid.at = None THEN None ELSE GoesTo(S3)
             p == IF goal # None THEN goal ELSE IF f.wait > 0 THEN pc ELSE Plus(pc, 4)
             over == ifid.at # None /\ OverflowIn(S3)
  <1>4. /\ pc' = p /\ S3' = q /\ (Overflowing' <=> over)
        /\ haltSeen' <=> haltSeen \/ f.word = HaltWord
        /\ lastPc' = f.lastPc /\ lastWord' = f.lastWord
        /\ f.wait > 0 => goal = None
    BY <1>1 DEF FrontMoves, Past
  <1>8. ifid'.word = i.word /\ ifid'.at = i.at /\ (i.at # None => ifid'.pc = i.pc)
    BY <1>1 DEF FrontMoves, SameFetch
  <1>5. /\ IdRight(i, q, over)
        /\ IfRight(i, q, over, p, haltSeen \/ f.word = HaltWord, f.lastPc, f.lastWord)
    <2> HIDE DEF i, q, goal, p, over
    <2>1. /\ i = [pc |-> pc, word |-> f.word, at |-> f.at]
          /\ q = (IF ifid.at = None THEN S3 ELSE StepOf(S3))
          /\ goal = (IF ifid.at = None THEN None ELSE GoesTo(S3))
          /\ p = (IF goal # None THEN goal ELSE IF f.wait > 0 THEN pc ELSE Plus(pc, 4))
          /\ over <=> ifid.at # None /\ OverflowIn(S3)
      BY DEF i, q, goal, p, over
    <2> QED
      BY <1>2, <1>3, <1>4, <2>1, MoveRight
  <1> HIDE DEF i, q, goal, p, over
  <1>6. IdRight(ifid', S3', Overflowing')
    BY <1>4, <1>5, <1>8 DEF IdRight
  <1>7. IfRight(ifid', S3', Overflowing', pc', haltSeen', lastPc', lastWord')
    BY <1>4, <1>5, <1>8 DEF IfRight, Unknown
  <1> QED
    BY <1>6, <1>7 DEF FrontRight


-----------------------------------------------------------------------------
(***************************************************************************)
(* A cycle keeps the two in step.                                          *)
(***************************************************************************)

\* What a cycle does that fetched f and decoded d, and whose memory stage left r.
CycleMoves(f, d, r) ==
  /\ CachesMove(f, r) /\ FrontMoves(f, d, Overflowing, r.delay # 0)
  /\ regs' = WriteBack(memwb) /\ memHalt' = r.delay
  /\ halted' = (halted \/ memwb.op = "halt")
  /\ r.delay # 0 => memwb' = Bubble /\ exmem' = r.latch /\ idex' = Operands
  /\ r.delay = 0 => /\ memwb' = r.latch /\ exmem' = Execute(Operands)
                    /\ idex' = IF d.stall \/ Overflowing THEN Bubble ELSE d.latch

\* A cycle without a clash, in the terms the clash is told in.
LEMMA ClearSteps ==
  ASSUME PipeInv, Cycle, ~ Clash
  PROVE  /\ ~ Split
         /\ \E u \in Byte :
              /\ FetchLeaves(Fetch(u)) /\ Step(u, Fetch(u))
              /\ ~ Loses(Fetch(u), Decode(WriteBack(memwb)), MemAccess(Accessing, mem, u).delay)
  <1>1. PICK u \in Junk :
          Advance(WriteBack(memwb), Fetch(u), Decode(WriteBack(memwb)), Operands,
                  MemAccess(Accessing, Fetch(u).mem, u))
    BY DEF Cycle
  <1>2. u \in Byte
    BY PipelineAssumption
  <1>3. FetchLeaves(Fetch(u)) /\ Fetch(u).mem = mem
    BY <1>2, FetchKeeps DEF FetchLeaves
  <1>4. Step(u, Fetch(u))
    BY <1>1, <1>3 DEF Step
  <1>5. memHalt <= 1
    BY DEF Cycle
  <1>6. /\ ~ Split
        /\ ~ Loses(Fetch(u), Decode(WriteBack(memwb)),
                   MemAccess(Accessing, Fetch(u).mem, u).delay)
    BY <1>1, <1>5 DEF Clash
  <1> QED
    BY <1>2, <1>3, <1>4, <1>6

\* The fetch k of such a cycle does to the front what the fetch of no word does.
LEMMA FrontIs ==
  ASSUME PipeInv, NEW m, NEW T, NEW G, Flight(m, T, G), NEW d, d = Decode(WriteBack(memwb)),
         NEW k, NEW r, NEW rg, Advance(rg, k, d, Operands, r), ~ Loses(k, d, r.delay),
         ExOverflow(Operands) <=> Overflowing,
         NEW f, f = Unread(k), FetchedRight(f, T, m),
         k.stall => k.wait > 0, k.wait > 0 => k.stall \/ fetchHalt > 0
  PROVE  FrontMoves(f, d, Overflowing, r.delay # 0)
  <1>1. /\ f.word = IF k.stall THEN 0 ELSE k.word
        /\ f.at = k.at /\ f.wait = k.wait /\ f.lastPc = k.lastPc /\ f.lastWord = k.lastWord
    BY DEF Unread
  <1>2. /\ pc' = IF k.stall \/ d.stall \/ r.delay # 0 THEN pc
                 ELSE IF Overflowing THEN ExcAddr
                 ELSE IF d.target # None THEN d.target
                 ELSE IF k.wait > 0 THEN pc ELSE Plus(pc, 4)
        /\ ifid' = IF k.stall THEN EmptyFetch
                   ELSE IF d.stall \/ r.delay # 0 THEN ifid
                   ELSE [pc |-> pc, word |-> IF d.trap \/ Overflowing THEN 0 ELSE k.word,
                         at |-> IF d.trap \/ Overflowing THEN None ELSE k.at]
        /\ haltSeen' <=> ~ (d.trap \/ Overflowing) /\ (haltSeen \/ k.word = HaltWord)
        /\ lastPc' = k.lastPc /\ lastWord' = k.lastWord /\ fetchHalt' = k.wait
    BY DEF Advance, SeesHalt
  <1>3. k.stall => /\ ~ Overflowing /\ k.word # HaltWord
                   /\ ifid.at # None => ~ d.stall /\ r.delay = 0 /\ d.target = None
    BY DEF Loses
  <1>4. ifid.at = None => ifid.word = 0 /\ ~ d.trap /\ ~ d.stall /\ d.target = None
    <2>1. ifid.at = None => ifid.word = 0
      BY DEF Flight, IdRight
    <2> QED
      BY <2>1, DecodeNothing
  <1>5. k.wait > 0 => f.at = None /\ (k.stall \/ ifid.at = None)
    <2>1. f.wait > 0 => f.at = None
      BY DEF FetchedRight, Found, Missing
    <2> QED
      BY <1>1, <2>1 DEF Flight, WaitsEmpty
  <1>6. k.stall => ~ d.trap
    <2> SUFFICES ASSUME k.stall, d.trap
                 PROVE  FALSE
      OBVIOUS
    <2>1. ~ Overflowing /\ ifid.at # None
      BY <1>3, <1>4
    <2>2. DecodedRight(d)
      BY <2>1, DecodedInFlight
    <2>3. d.target = ExcAddr /\ ExcAddr # None
      BY <2>2, MipsAssumption, PipelineAssumption DEF DecodedRight
    <2> QED
      BY <1>3, <2>1, <2>3
  <1>7. EmptyFetch.word = 0 /\ EmptyFetch.at = None /\ 0 # HaltWord
    BY MipsAssumption DEF EmptyFetch
  <1>8. CASE k.stall
    <2>1. /\ pc' = pc /\ ifid'.word = 0 /\ ifid'.at = None /\ f.word = 0 /\ f.at = None
          /\ f.wait > 0 /\ ~ d.trap /\ ~ Overflowing /\ d.target = None
          /\ d.stall \/ r.delay # 0 => ifid.at = None /\ ifid.word = 0
      BY <1>1, <1>2, <1>3, <1>4, <1>5, <1>6, <1>7, <1>8
    <2>2. haltSeen' <=> haltSeen
      BY <1>2, <1>3, <1>8, <2>1
    <2> QED
      BY <1>1, <1>2, <1>7, <2>1, <2>2 DEF FrontMoves, SameFetch
  <1>9. CASE ~ k.stall
    <2>1. f.word = k.word
      BY <1>1, <1>9
    <2>2. d.stall \/ r.delay # 0 => pc' = pc /\ ifid' = ifid
      BY <1>2, <1>9
    <2>3. ~ d.stall /\ ~ (r.delay # 0) =>
            /\ pc' = IF Overflowing THEN ExcAddr
                     ELSE IF d.target # None THEN d.target
                     ELSE IF f.wait > 0 THEN pc ELSE Plus(pc, 4)
            /\ ifid' = [pc |-> pc, word |-> IF d.trap \/ Overflowing THEN 0 ELSE f.word,
                        at |-> IF d.trap \/ Overflowing THEN None ELSE f.at]
      BY <1>1, <1>2, <1>9
    <2>4. f.wait > 0 => ifid'.at = None /\ d.target = None
      BY <1>1, <1>4, <1>5, <1>9, <2>2, <2>3
    <2> QED
      BY <1>1, <1>2, <2>1, <2>2, <2>3, <2>4 DEF FrontMoves, SameFetch
  <1> QED
    BY <1>8, <1>9

LEMMA CycleFetches ==
  ASSUME PipeInv, NEW m, NEW T, NEW G, Flight(m, T, G), Cycle, ~ Clash
  PROVE  \E u, f, r :
           /\ u \in Byte /\ f = Unread(Fetch(u)) /\ iStats' = f.stats
           /\ FetchLeaves(f) /\ FetchedRight(f, T, m)
           /\ MemLeaves(r, exmem) /\ Answered(r, m, T)
           /\ CycleMoves(f, Decode(WriteBack(memwb)), r)
  <1>1. PICK u \in Byte :
          /\ FetchLeaves(Fetch(u)) /\ Step(u, Fetch(u))
          /\ ~ Loses(Fetch(u), Decode(WriteBack(memwb)), MemAccess(Accessing, mem, u).delay)
    BY ClearSteps
  <1> DEFINE k == Fetch(u)
             f == Unread(k)
             d == Decode(WriteBack(memwb))
             e == Operands
             r == MemAccess(Accessing, mem, u)
  <1>2. /\ Reached(S0, m, T, G) /\ WbOK(memwb, S0) /\ MemOK(exmem, S1) /\ SeenOK
        /\ ExOK(Operands, S2) /\ DataKept(dLines, mem, cycle, T, m)
        /\ TextCached(iLines, T, m) /\ LastRight(lastPc, lastWord, T, m)
        /\ Reached(S2, m, T, G) /\ T \in SUBSET Addr /\ WaitsEmpty
    BY FlightReached DEF Flight, Reached, Certified
  <1>3. /\ FetchedRight(f, T, m)
        /\ k.stall => k.wait > 0
        /\ k.wait > 0 => k.stall \/ fetchHalt > 0
    <2>1. ~ Split /\ (fetchHalt > 0 => ~ haltSeen) /\ ~ (k.wait > 0 /\ k.at # None)
      BY <1>1, <1>2, ClearSteps DEF WaitsEmpty, Loses
    <2> QED
      BY <1>2, <2>1, FetchRight
  <1>4. Accessing = exmem
    BY <1>2, NothingToForward
  <1>5. MemLeaves(r, exmem)
    BY <1>4, StageTypes, MemKeeps
  <1>6. Answered(r, m, T)
    BY <1>2, MemRight
  <1>7. e \in Latch /\ e.at = idex.at
    BY StageTypes DEF SameInstr
  <1>8. ExOverflow(e) <=> Overflowing
    <2>1. ExOverflow(e) <=> e.at # None /\ OverflowIn(S2)
      BY <1>2, <1>7, ExecuteRight
    <2> QED
      BY <1>7, <2>1 DEF Overflowing
  <1> DEFINE rg == WriteBack(memwb)
  <1>9. Advance(rg, k, d, e, r)
    BY <1>1 DEF Step
  <1>10. FetchLeaves(f)
    <2>1. 0 \in Word
      BY Moduli
    <2> QED
      BY <1>1, <2>1 DEF FetchLeaves, Unread
  <1>11. ~ Loses(k, d, r.delay)
    BY <1>1
  <1>12. f.lines = k.lines /\ f.lastPc = k.lastPc /\ f.lastWord = k.lastWord
    BY DEF Unread
  <1>17. d = Decode(WriteBack(memwb)) /\ f = Unread(k)
    OBVIOUS
  <1> HIDE DEF k, f, d, e, r, rg
  <1>13. CachesMove(f, r)
    BY <1>9, <1>12 DEF Advance, CachesMove
  <1>14. FrontMoves(f, d, Overflowing, r.delay # 0)
    BY <1>3, <1>8, <1>9, <1>11, <1>17, FrontIs DEF e
  <1>15. /\ regs' = rg /\ memHalt' = r.delay
         /\ halted' = (halted \/ memwb.op = "halt")
         /\ r.delay # 0 => memwb' = Bubble /\ exmem' = r.latch /\ idex' = e
         /\ r.delay = 0 => /\ memwb' = r.latch /\ exmem' = Execute(e)
                           /\ idex' = IF d.stall \/ Overflowing THEN Bubble ELSE d.latch
    BY <1>8, <1>9 DEF Advance
  <1>16. CycleMoves(f, d, r)
    BY <1>13, <1>14, <1>15 DEF CycleMoves, e, rg
  <1>18. f = Unread(Fetch(u)) /\ iStats' = f.stats
    BY <1>9, <1>17 DEF Advance, Unread, k
  <1> QED
    BY <1>3, <1>5, <1>6, <1>10, <1>16, <1>18 DEF d

LEMMA CycleIs ==
  ASSUME PipeInv, NEW m, NEW T, NEW G, Flight(m, T, G), Cycle, ~ Clash
  PROVE  \E f, r :
           /\ FetchLeaves(f) /\ FetchedRight(f, T, m)
           /\ MemLeaves(r, exmem) /\ Answered(r, m, T)
           /\ CycleMoves(f, Decode(WriteBack(memwb)), r)
  BY CycleFetches

\* What a cycle leaves of the two whatever the memory stage does.
LEMMA CycleCommon ==
  ASSUME PipeInv, NEW m, NEW T, NEW G, Flight(m, T, G), Cycle, LockCycle,
         NEW f, FetchLeaves(f), FetchedRight(f, T, m), NEW d,
         NEW r, MemLeaves(r, exmem), Answered(r, m, T), CycleMoves(f, d, r)
  PROVE  /\ S0' = S1 /\ Reached(S0', m, T, G) /\ ~ rfailed' /\ regs' = rregs'
         /\ TextCached(iLines, T, m)' /\ DataKept(dLines', mem', cycle', T, m)
         /\ LastRight(lastPc', lastWord', T, m)
         /\ (halted' => AtEnd(S0')) /\ (memHalt' > 0 => memwb'.at = None) /\ WaitsEmpty'
  <1>1. /\ Reached(S0, m, T, G) /\ WbOK(memwb, S0) /\ ~ rfailed /\ regs = rregs
        /\ Reached(S1, m, T, G)
    BY FlightReached DEF Flight
  <1>2. /\ S0' = S1 /\ ~ rfailed' /\ (memwb.op = "halt" => AtEnd(S0) /\ S1 = S0)
    BY <1>1, ReferenceMoves
  <1>3. regs' = rregs'
    <2>1. WriteBack(memwb) = S1.regs
      BY <1>1, DecodeReadsRight
    <2>2. S0'.regs = rregs'
      BY DEF S0
    <2> QED
      BY <1>2, <2>1, <2>2 DEF CycleMoves
  <1>4. halted' => AtEnd(S0')
    <2>1. AtEnd(S0) => S1 = S0
      BY DEF S1, Past, StepOf
    <2> QED
      BY <1>2, <2>1 DEF CycleMoves, Flight
  <1>6. memHalt' > 0 => memwb'.at = None
    <2>1. memHalt' > 0 => r.delay # 0
      BY PipelineAssumption DEF CycleMoves, MemLeaves
    <2>2. Bubble.at = None
      BY DEF Bubble
    <2> QED
      BY <2>1, <2>2 DEF CycleMoves
  <1>5. /\ TextCached(iLines, T, m)' /\ DataKept(dLines', mem', cycle', T, m)
        /\ LastRight(lastPc', lastWord', T, m)
    <2>1. DataKept(r.lines, r.mem, cycle, T, m) /\ CachesMove(f, r)
      BY DEF Answered, CycleMoves
    <2> QED
      BY <2>1, CachesFly
  <1>7. WaitsEmpty'
    <2>1. f.wait > 0 => ~ haltSeen /\ f.word # HaltWord
      BY MipsAssumption DEF FetchedRight, Found, Missing
    <2> QED
      BY <2>1 DEF CycleMoves, FrontMoves, WaitsEmpty
  <1> QED
    BY <1>1, <1>2, <1>3, <1>4, <1>5, <1>6, <1>7

\* The memory stage is to go on in a later cycle.
LEMMA WaitingFlight ==
  ASSUME PipeInv, NEW m, NEW T, NEW G, Flight(m, T, G), S0' = S1,
         NEW f, FetchedRight(f, T, m), NEW d, d = Decode(WriteBack(memwb)),
         NEW r, MemLeaves(r, exmem), Answered(r, m, T), CycleMoves(f, d, r), r.delay # 0
  PROVE  /\ WbOK(memwb', S0') /\ MemOK(exmem', S1') /\ ExOK(Operands', S2')
         /\ FrontRight' /\ SeenOK'
  <1>1. memwb' = Bubble /\ exmem' = exmem /\ idex' = Operands
    BY DEF CycleMoves, Answered
  <1>2. /\ S1' = S1 /\ S2' = S2 /\ S3' = S3 /\ (Overflowing' <=> Overflowing)
        /\ WbOK(memwb', S0') /\ MemOK(exmem', S1') /\ ExOK(Operands', S2')
    BY <1>1, HeldLatches
  <1>3. FrontRight'
    <2> DEFINE wait == r.delay # 0
    <2>1. FrontMoves(f, d, Overflowing, wait)
      BY DEF CycleMoves
    <2>2. wait
      OBVIOUS
    <2> HIDE DEF wait
    <2> QED
      BY <1>2, <2>1, <2>2, FrontHeld
  <1>4. SeenOK'
    <2>1. memHalt' > 0
      BY PipelineAssumption DEF CycleMoves, MemLeaves
    <2>2. dLines' = r.lines /\ mem' = r.mem
      BY DEF CycleMoves, CachesMove
    <2>3. IF exmem.op \in Stores THEN Between(D!View(r.lines, r.mem), S1.mem, S2.mem)
          ELSE D!View(r.lines, r.mem) = S1.mem
      BY DEF Answered
    <2> QED
      BY <1>1, <1>2, <2>1, <2>2, <2>3, PrimedStages
  <1> QED
    BY <1>2, <1>3, <1>4

\* The memory stage is done, and the instructions move on.
LEMMA MovingFlight ==
  ASSUME PipeInv, PipeInv', NEW m, NEW T, NEW G, Flight(m, T, G), S0' = S1,
         NEW f, FetchedRight(f, T, m), NEW d, d = Decode(WriteBack(memwb)),
         NEW r, MemLeaves(r, exmem), Answered(r, m, T), CycleMoves(f, d, r), r.delay = 0
  PROVE  /\ WbOK(memwb', S0') /\ MemOK(exmem', S1') /\ ExOK(Operands', S2')
         /\ FrontRight' /\ SeenOK'
  <1> DEFINE l == r.latch
  <1>1. /\ WbOK(l, S1) /\ l.at = exmem.at /\ memwb' = l /\ exmem' = Execute(Operands)
        /\ idex' = IF d.stall \/ Overflowing THEN Bubble ELSE d.latch
    BY DEF CycleMoves, Answered, MemLeaves
  <1>2. /\ d.trap <=> Unknown(ifid)
        /\ Overflowing => ~ d.stall
        /\ Unknown(ifid) => ifid.at # None
        /\ ~ Overflowing /\ ifid.at # None => DecodedRight(d) /\ ifid.word = WordIn(S3)
        /\ ~ Overflowing /\ ifid.at = None =>
             /\ ~ d.stall /\ d.target = None /\ d.latch.at = None
             /\ Awaits(d.latch, S1, S2, S3) /\ d.latch.rs = 0 /\ d.latch.rt = 0
    BY DecodedInFlight
  <1>3. \/ idex' = Bubble
        \/ /\ ~ Overflowing /\ Awaits(idex', S1, S2, S3)
           /\ ~ (idex.op \in Loads /\ idex.dest # 0 /\ idex.dest \in {idex'.rs, idex'.rt})
    <2>1. CASE d.stall \/ Overflowing
      BY <1>1, <2>1
    <2>2. CASE ~ d.stall /\ ~ Overflowing /\ ifid.at # None
      <3>1. DecodedRight(d) /\ idex' = d.latch
        BY <1>1, <1>2, <2>2
      <3> QED
        BY <2>2, <3>1 DEF DecodedRight
    <2>3. CASE ~ d.stall /\ ~ Overflowing /\ ifid.at = None
      BY <1>1, <1>2, <2>3
    <2> QED
      BY <2>1, <2>2, <2>3
  <1>4. /\ S1' = S2 /\ S2' = S3 /\ S3' = Past(S3, idex')
        /\ Overflowing' <=> idex'.at # None /\ OverflowIn(S3)
        /\ WbOK(memwb', S0') /\ MemOK(exmem', S1') /\ ExOK(Operands', S2')
    <2> HIDE DEF l
    <2> QED
      BY <1>1, <1>3, MovedLatches
  <1>5. SeenOK'
    <2>1. ~ (memHalt' > 0)
      BY DEF CycleMoves
    <2>2. dLines' = r.lines /\ mem' = r.mem /\ D!View(r.lines, r.mem) = S2.mem
      BY DEF CycleMoves, CachesMove, Answered
    <2> QED
      BY <1>4, <2>1, <2>2, PrimedStages
  <1>6. FrontMoves(f, d, Overflowing, FALSE)
    BY DEF CycleMoves
  <1>7. Bubble.at = None
    BY DEF Bubble
  <1>8. CASE Overflowing
    <2>1. S3' = S3 /\ ~ Overflowing' /\ ~ d.stall
      BY <1>1, <1>2, <1>4, <1>7, <1>8 DEF Past
    <2>2. S3 = Trapped(S2)
      <3>1. idex.at # None /\ OverflowIn(S2)
        BY <1>8 DEF Overflowing
      <3>2. ~ AtEnd(S2)
        <4>1. Reached(S2, m, T, G)
          BY FlightReached DEF Flight
        <4>2. InstrIn(S2).op = "halt" <=> AtEnd(S2)
          BY <4>1, InstrParts
        <4> QED
          BY <3>1, <4>2, OverflowOps
      <3> QED
        BY <3>1, <3>2 DEF S3, Past, StepOf, TrapsIn
    <2>3. S3'.slot = None /\ S3'.pc = ExcAddr
      BY <2>1, <2>2 DEF Trapped
    <2> QED
      BY <1>4, <1>5, <1>6, <1>8, <2>1, <2>3, FrontFlushed
  <1>9. CASE ~ Overflowing /\ Unknown(ifid)
    <2>1. /\ DecodedRight(d) /\ ifid.at # None /\ d.trap /\ IllegalIn(S3)
          /\ ~ d.stall /\ d.target = ExcAddr /\ d.latch.at = ifid.at
      BY <1>2, <1>9 DEF DecodedRight
    <2>2. idex' = d.latch
      BY <1>1, <1>9, <2>1
    <2>3. ~ OverflowIn(S3) /\ ~ AtEnd(S3)
      <3>1. Reached(S3, m, T, G)
        BY FlightReached DEF Flight
      <3>2. InstrIn(S3).op = "halt" <=> AtEnd(S3)
        BY <3>1, InstrParts
      <3>3. ~ OverflowIn(S3)
        BY <2>1, OverflowOps DEF IllegalIn
      <3> QED
        BY <2>1, <3>2, <3>3 DEF IllegalIn
    <2>4. S3' = Trapped(S3) /\ ~ Overflowing'
      BY <1>4, <2>1, <2>2, <2>3 DEF Past, StepOf, TrapsIn
    <2>5. S3'.slot = None /\ S3'.pc = ExcAddr
      BY <2>4 DEF Trapped
    <2> QED
      BY <1>4, <1>5, <1>6, <1>9, <2>1, <2>4, <2>5, FrontFlushed
  <1>10. CASE ~ Overflowing /\ ~ Unknown(ifid) /\ d.stall
    <2>1. S3' = S3 /\ ~ Overflowing'
      BY <1>1, <1>4, <1>7, <1>10 DEF Past
    <2> DEFINE wait == FALSE
    <2>2. FrontMoves(f, d, Overflowing, wait) /\ ~ wait
      BY <1>6
    <2> HIDE DEF wait
    <2>3. FrontRight'
      BY <1>10, <2>1, <2>2, FrontHeld
    <2> QED
      BY <1>4, <1>5, <2>3
  <1>11. CASE ~ Overflowing /\ ~ Unknown(ifid) /\ ~ d.stall
    <2>1. idex' = d.latch
      BY <1>1, <1>11
    <2>2. S3' = Past(S3, d.latch) /\ (Overflowing' <=> d.latch.at # None /\ OverflowIn(S3))
      BY <1>4, <2>1
    <2>3. FrontRight'
      BY <1>6, <1>11, <2>2, FrontMoved
    <2> QED
      BY <1>4, <1>5, <2>3
  <1> QED
    BY <1>8, <1>9, <1>10, <1>11

LEMMA CycleFlight ==
  ASSUME PipeInv, PipeInv', NEW m, NEW T, NEW G, Flight(m, T, G), Cycle, LockCycle, ~ Clash
  PROVE  Flight(m, T, G)'
  <1> DEFINE d == Decode(WriteBack(memwb))
  <1>1. PICK f, r : /\ FetchLeaves(f) /\ FetchedRight(f, T, m)
                    /\ MemLeaves(r, exmem) /\ Answered(r, m, T)
                    /\ CycleMoves(f, d, r)
    BY CycleIs
  <1>2. d = Decode(WriteBack(memwb))
    OBVIOUS
  <1> HIDE DEF d
  <1>3. /\ S0' = S1 /\ Reached(S0', m, T, G) /\ ~ rfailed' /\ regs' = rregs'
        /\ TextCached(iLines, T, m)' /\ DataKept(dLines', mem', cycle', T, m)
        /\ LastRight(lastPc', lastWord', T, m)
        /\ (halted' => AtEnd(S0')) /\ (memHalt' > 0 => memwb'.at = None) /\ WaitsEmpty'
    BY <1>1, CycleCommon
  <1>4. /\ WbOK(memwb', S0') /\ MemOK(exmem', S1') /\ ExOK(Operands', S2')
        /\ FrontRight' /\ SeenOK'
    <2>1. CASE r.delay # 0
      BY <1>1, <1>2, <1>3, <2>1, WaitingFlight
    <2>2. CASE r.delay = 0
      BY <1>1, <1>2, <1>3, <2>2, MovingFlight
    <2> QED
      BY <2>1, <2>2
  <1> QED
    BY <1>3, <1>4 DEF Flight, FrontRight

\* Time passes and nothing else happens, or nothing happens at all.
LEMMA QuietFlight ==
  ASSUME PipeInv, NEW m, NEW T, NEW G, Flight(m, T, G),
         UNCHANGED <<regs, mem, iLines, dLines, pc, ifid, haltSeen, lastPc, lastWord,
                     idex, exmem, memwb, halted, rregs, rmem, rpc, rslot, rfailed>>,
         cycle' \in {cycle, cycle + 1}, memHalt' > 0 <=> memHalt > 0,
         fetchHalt' > 0 => fetchHalt > 0
  PROVE  Flight(m, T, G)'
  <1>1. /\ S0' = S0 /\ S1' = S1 /\ S2' = S2 /\ S3' = S3
    BY DEF S0, S1, S2, S3
  <1>2. /\ Operands' = Operands /\ (Overflowing' <=> Overflowing)
    BY <1>1 DEF Operands, Overflowing
  <1>3. DataKept(dLines', mem', cycle', T, m) /\ TextCached(iLines, T, m)'
    <2>1. /\ D!ReadyBound(dLines, cycle) /\ I!ReadyBound(iLines, cycle)
          /\ D!TextKept(dLines, mem, T, m) /\ I!TextKept(iLines, mem, T, m)
      BY DEF Flight, DataKept, TextCached
    <2>2. cycle \in Nat /\ iLines \in I!LinesOver(Byte) /\ dLines \in D!LinesOver(Byte)
      BY TypedLines, PipelineAssumption DEF PipeInv, TypeOK, LinesTyped
    <2>3. D!ReadyBound(dLines, cycle + 1) /\ I!ReadyBound(iLines, cycle + 1)
      BY <2>1, <2>2, LaterReady
    <2>4. D!ReadyBound(dLines, cycle') /\ I!ReadyBound(iLines, cycle')
      BY <2>1, <2>3
    <2> QED
      BY <2>1, <2>4 DEF DataKept, TextCached
  <1>4. SeenOK'
    <2>1. SeenOK
      BY DEF Flight
    <2> QED
      BY <1>1, <2>1 DEF SeenOK
  <1>5. /\ Reached(S0', m, T, G) /\ ~ rfailed' /\ regs' = rregs'
        /\ WbOK(memwb', S0') /\ MemOK(exmem', S1') /\ ExOK(Operands', S2')
        /\ LastRight(lastPc', lastWord', T, m)
        /\ (halted' => AtEnd(S0')) /\ (memHalt' > 0 => memwb'.at = None) /\ WaitsEmpty'
    BY <1>1, <1>2 DEF Flight, WaitsEmpty
  <1>6. /\ IdRight(ifid', S3', Overflowing')
        /\ IfRight(ifid', S3', Overflowing', pc', haltSeen', lastPc', lastWord')
    BY <1>1, <1>2 DEF Flight, IdRight, IfRight
  <1> QED
    BY <1>3, <1>4, <1>5, <1>6 DEF Flight

LEMMA FreezeFlight ==
  ASSUME PipeInv, NEW m, NEW T, NEW G, Flight(m, T, G), Freeze, LockCycle
  PROVE  Flight(m, T, G)'
  <1>1. memHalt \in Nat /\ fetchHalt \in Nat
    BY PipelineAssumption DEF PipeInv, TypeOK
  <1>2. ~ Cycle
    BY <1>1 DEF Freeze, Cycle
  <1>3. UNCHANGED <<rregs, rmem, rpc, rslot, rfailed>>
    BY <1>2 DEF LockCycle, Retire, Other, refVars
  <1>4. UNCHANGED <<regs, mem, iLines, dLines, pc, ifid, haltSeen, lastPc, lastWord,
                    idex, exmem, memwb, halted>>
    BY DEF Freeze, cacheVars, latchVars
  <1>5. /\ cycle' \in {cycle, cycle + 1} /\ (memHalt' > 0 <=> memHalt > 0)
        /\ fetchHalt' > 0 => fetchHalt > 0
    BY <1>1 DEF Freeze
  <1> QED
    BY <1>3, <1>4, <1>5, QuietFlight

LEMMA StutterFlight ==
  ASSUME PipeInv, NEW m, NEW T, NEW G, Flight(m, T, G), UNCHANGED lockVars
  PROVE  Flight(m, T, G)'
  <1>1. UNCHANGED <<regs, mem, iLines, dLines, pc, ifid, haltSeen, lastPc, lastWord,
                    idex, exmem, memwb, halted, rregs, rmem, rpc, rslot, rfailed>>
    BY DEF lockVars, vars, cacheVars, fetchVars, latchVars, refVars
  <1>2. /\ cycle' \in {cycle, cycle + 1} /\ (memHalt' > 0 <=> memHalt > 0)
        /\ fetchHalt' > 0 => fetchHalt > 0
    BY DEF lockVars, vars, fetchVars
  <1> QED
    BY <1>1, <1>2, QuietFlight

\* The caches of a simulation that starts show memory as it is.
LEMMA EmptyShows ==
  ASSUME NEW m \in [Addr -> Byte], NEW T
  PROVE  /\ D!View(D!EmptyLines, m) = m
         /\ D!TextKept(D!EmptyLines, m, T, m) /\ D!ReadyBound(D!EmptyLines, 0)
         /\ I!TextKept(I!EmptyLines, m, T, m) /\ I!ReadyBound(I!EmptyLines, 0)
  <1>1. DOMAIN m \subseteq Nat /\ m = [a \in DOMAIN m |-> m[a]]
    BY BytesHere
  <1>2. 0 \in Nat
    OBVIOUS
  <1> QED
    BY <1>1, <1>2, Geometries, D!EmptyView, D!EmptyText, I!EmptyText

\* A simulation starts with nothing in flight.
StartFlight ==
  \A m, T, G :
    /\ Started /\ m = mem /\ S0 = StartWith(regs, m) /\ ~ rfailed /\ regs = rregs
    /\ Certified(m, T, G) /\ S0 \in G
    => Flight(m, T, G)

LEMMA StartsInFlight == StartFlight
  <1> SUFFICES ASSUME NEW T, NEW G, Started, S0 = StartWith(regs, mem), ~ rfailed,
                      regs = rregs, Certified(mem, T, G), S0 \in G
               PROVE  Flight(mem, T, G)
    BY DEF StartFlight
  <1>1. mem \in [Addr -> Byte]
    BY DEF Started
  <1>2. /\ idex = Bubble /\ exmem = Bubble /\ memwb = Bubble /\ ifid = EmptyFetch
        /\ iLines = I!EmptyLines /\ dLines = D!EmptyLines
        /\ pc = 0 /\ haltSeen = FALSE /\ lastPc = None /\ cycle = 0 /\ halted = FALSE
        /\ memHalt = 0 /\ fetchHalt = 0
    BY ICacheSame, DCacheSame DEF Started
  <1>4. S1 = S0 /\ S2 = S0 /\ S3 = S0
    BY <1>2, BubbleOK DEF S1, S2, S3
  <1>5. /\ Bubble.at = None /\ Bubble.op = "sll"
        /\ EmptyFetch.at = None /\ EmptyFetch.word = 0
    BY DEF Bubble, EmptyFetch
  <1>6. WbOK(memwb, S0) /\ MemOK(exmem, S1) /\ ExOK(Operands, S2)
    <2>1. Forward(Forward(Bubble, Bubble), Bubble) = Bubble
      <3>1. ~ Writes(Bubble)
        BY DEF Writes, Bubble
      <3>2. Forward(Bubble, Bubble) = [Bubble EXCEPT !.rsValue = Bubble.rsValue,
                                                     !.rtValue = Bubble.rtValue]
        BY <3>1 DEF Forward
      <3>3. Forward(Bubble, Bubble) = Bubble
        BY <3>2, BubbleLatch DEF Latch
      <3> QED
        BY <3>3
    <2>2. Operands = Bubble
      BY <1>2, <2>1 DEF Operands
    <2> QED
      BY <1>2, <2>2, BubbleOK
  <1>7. ~ Overflowing
    BY <1>2, <1>5 DEF Overflowing
  <1>8. S3.slot = None /\ CurOf(S3) = pc
    BY <1>2, <1>4 DEF StartWith, CurOf
  <1>9. IdRight(ifid, S3, Overflowing)
    BY <1>2, <1>5, <1>7, <1>8 DEF IdRight
  <1>10. IfRight(ifid, S3, Overflowing, pc, haltSeen, lastPc, lastWord)
    BY <1>2, <1>5, <1>8 DEF IfRight
  <1>11. /\ D!View(dLines, mem) = mem
         /\ TextCached(iLines, T, mem) /\ DataKept(dLines, mem, cycle, T, mem)
    BY <1>1, <1>2, EmptyShows DEF TextCached, DataKept
  <1>12. SeenOK
    <2>1. exmem.op \notin Stores
      BY <1>2, <1>5 DEF Stores
    <2>2. S1.mem = mem
      BY <1>4 DEF StartWith
    <2> QED
      BY <1>11, <2>1, <2>2 DEF SeenOK
  <1>13. LastRight(lastPc, lastWord, T, mem)
    BY <1>2 DEF LastRight
  <1>14. Reached(S0, mem, T, G)
    BY DEF Reached
  <1>15. WaitsEmpty
    BY <1>2 DEF WaitsEmpty
  <1> QED
    BY <1>2, <1>5, <1>6, <1>9, <1>10, <1>11, <1>12, <1>13, <1>14, <1>15 DEF Flight

-----------------------------------------------------------------------------
(***************************************************************************)
(* Theorems.                                                               *)
(***************************************************************************)

\* The inductive invariant.
InStep == Sound /\ \E m, T, G : Flight(m, T, G)

LEMMA InitInStep ==
  ASSUME Behaved({}), LockInit
  PROVE  InStep
  <1>1. Sound /\ Started
    BY InitStarts, StartSound DEF LockInit
  <1>2. mem \in Images
    BY DEF LockInit, Init
  <1>3. S0 = Start(mem) /\ ~ rfailed /\ regs = rregs /\ S0 = StartWith(regs, mem)
    BY DEF LockInit, Ref!Init, Init, S0, Start, StartWith, Reg, Ref!Reg
  <1>4. PICK T, G : Certifies(T, G, {})
    BY DEF Behaved
  <1>5. Certified(mem, T[mem], G[mem]) /\ S0 \in G[mem]
    BY <1>2, <1>3, <1>4 DEF Certifies
  <1>6. Flight(mem, T[mem], G[mem])
    BY <1>1, <1>3, <1>5, StartsInFlight DEF StartFlight
  <1> QED
    BY <1>1, <1>6 DEF InStep

LEMMA NextInStep ==
  ASSUME InStep, [LockNext /\ ~ Clash]_lockVars
  PROVE  InStep'
  <1>1. PICK m, T, G : Flight(m, T, G)
    BY DEF InStep
  <1>2. Sound /\ PipeInv
    BY DEF InStep, Sound
  <1>3. CASE UNCHANGED lockVars
    <2>1. UNCHANGED vars
      BY <1>3 DEF lockVars
    <2>2. Sound' /\ Flight(m, T, G)'
      BY <1>1, <1>2, <1>3, <2>1, StutterSound, StutterFlight
    <2> QED
      BY <2>2 DEF InStep
  <1>4. CASE LockNext /\ ~ Clash
    <2>1. Freeze \/ Cycle
      BY <1>4 DEF LockNext, LockCycle, Retire, Other
    <2>2. Sound' /\ PipeInv'
      <3>1. Sound'
        BY <1>2, <1>4, <2>1, RunCycleSound DEF LockNext
      <3> QED
        BY <3>1 DEF Sound
    <2>3. Flight(m, T, G)'
      <3>1. LockCycle
        BY <1>4 DEF LockNext
      <3>2. CASE Freeze
        BY <1>1, <1>2, <3>1, <3>2, FreezeFlight
      <3>3. CASE Cycle
        BY <1>1, <1>2, <1>4, <2>2, <3>1, <3>3, CycleFlight
      <3> QED
        BY <2>1, <3>2, <3>3
    <2> QED
      BY <2>2, <2>3 DEF InStep
  <1> QED
    BY <1>3, <1>4

LEMMA AlwaysInStep ==
  ASSUME Behaved({})
  PROVE  ClearSpec => []InStep
  <1>1. LockInit => InStep
    BY InitInStep
  <1>2. InStep /\ [LockNext /\ ~ Clash]_lockVars => InStep'
    BY NextInStep
  <1> QED
    BY <1>1, <1>2, PTL DEF ClearSpec

\* What an instruction in flight says of the two simulators.
LEMMA FlightShows ==
  ASSUME Sound, NEW m, NEW T, NEW G, Flight(m, T, G)
  PROVE  InOrder /\ RegsAgree /\ MemAgrees /\ HaltAgrees
  <1>1. InOrder
    <2>1. memwb.at # None => memwb.at = CurOf(S0)
      BY DEF Flight, WbOK, Of
    <2>2. CurOf(S0) = Ref!Current
      BY DEF CurOf, S0, Ref!Current
    <2> QED
      BY <2>1, <2>2 DEF InOrder
  <1>2. RegsAgree
    BY DEF Flight, RegsAgree
  <1>3. MemAgrees
    <2> SUFFICES ASSUME ~ StoreInFlight
                 PROVE  D!View(dLines, mem) = rmem
      BY DCacheSame DEF MemAgrees
    <2>1. D!View(dLines, mem) = S1.mem
      BY DEF Flight, SeenOK, StoreInFlight
    <2>2. S1.mem = S0.mem
      BY MemStep DEF Flight, WbOK, StoreInFlight, S1
    <2> QED
      BY <2>1, <2>2 DEF S0
  <1>4. HaltAgrees
    <2> SUFFICES ASSUME halted
                 PROVE  Ref!AtHalt /\ regs = rregs /\ Drained = rmem
      BY DEF HaltAgrees, Drained
    <2>1. AtEnd(S0) /\ regs = rregs /\ Reached(S0, m, T, G)
      BY DEF Flight
    <2>2. Ref!AtHalt
      BY <2>1, EndIsHalt
    <2>3. Drained = D!View(dLines, mem)
      BY DrainShows, DCacheSame DEF Sound
    <2>4. D!View(dLines, mem) = S1.mem
      <3>1. exmem.op \notin Stores
        BY DEF Sound, HaltInv, HaltLast, Quiet, Stores
      <3> QED
        BY <3>1 DEF Flight, SeenOK
    <2>5. S1 = S0
      BY <2>1 DEF S1, Past, StepOf
    <2> QED
      BY <2>1, <2>2, <2>3, <2>4, <2>5 DEF S0
  <1> QED
    BY <1>1, <1>2, <1>3, <1>4

LEMMA StepShows == InStep => InOrder /\ RegsAgree /\ MemAgrees /\ HaltAgrees
  BY FlightShows DEF InStep

\* What is written back is the instruction the functional simulator runs next
\* (runCycle and runInstruction), whatever is fetched behind branches and
\* exceptions, and however long data misses hold it up.
THEOREM PipelineInOrder ==
  ASSUME Behaved({})
  PROVE  ClearSpec => []InOrder
  BY StepShows, AlwaysInStep, PTL

\* After every cycle the registers are those of the functional simulator: the
\* forwarding paths and the stalls of the decode stage give every instruction
\* the values of the instructions before it.
THEOREM PipelineRegs ==
  ASSUME Behaved({})
  PROVE  ClearSpec => []RegsAgree
  BY StepShows, AlwaysInStep, PTL

\* What programs see through the data cache is the memory of the functional
\* simulator, unless a store has been let into the cache and is not yet written
\* back: no stall of handleMem drops one or does it twice.
THEOREM PipelineMemory ==
  ASSUME Behaved({})
  PROVE  ClearSpec => []MemAgrees
  BY StepShows, AlwaysInStep, PTL

\* When runCycle reports the halt, the functional simulator is at the halt word
\* with the same registers, and finalizeSimulator leaves its memory behind.
THEOREM PipelineHalt ==
  ASSUME Behaved({})
  PROVE  ClearSpec => []HaltAgrees
  BY StepShows, AlwaysInStep, PTL

-----------------------------------------------------------------------------
(***************************************************************************)
(* The calls of a driver.  A simulation that is finalized keeps what is in *)
(* flight, and one that starts takes over the registers.                   *)
(***************************************************************************)

\* Memory is what it is seen to be once the caches have been drained, and no
\* call is in progress then.
Dumped == ~ up => mem = D!View(dLines, mem) /\ left = 0

\* The simulator runs one of the programs of T and G.
Serves(T, G) == \E m \in Images \union Again : Flight(m, T[m], G[m])

InDrive == Sound /\ Dumped /\ \E T, G : Certifies(T, G, Again) /\ Serves(T, G)

LEMMA FinalizeFlight ==
  ASSUME PipeInv, NEW m, NEW T, NEW G, Flight(m, T, G), FinalizeSimulator
  PROVE  Flight(m, T, G)' /\ mem' = D!View(dLines', mem')
  <1> DEFINE V == D!View(dLines, mem)
  <1>1. /\ UNCHANGED <<regs, iLines, dLines, pc, ifid, haltSeen, lastPc, lastWord, idex,
                       fetchHalt, exmem, memwb, memHalt, cycle, halted, rregs, rmem, rpc, rslot, rfailed>>
        /\ mem' = Drained
    BY DEF FinalizeSimulator, fetchVars, latchVars, refVars
  <1>2. mem' = V
    BY <1>1, DrainShows, DCacheSame
  <1>3. D!View(dLines', mem') = V
    BY <1>1, <1>2 DEF D!View
  <1>4. /\ S0' = S0 /\ S1' = S1 /\ S2' = S2 /\ S3' = S3
    BY <1>1 DEF S0, S1, S2, S3
  <1>5. /\ Operands' = Operands /\ (Overflowing' <=> Overflowing)
    BY <1>1, <1>4 DEF Operands, Overflowing
  <1>6. \A a \in T : V[a] = m[a]
    <2>1. /\ Reached(S1, m, T, G) /\ Reached(S2, m, T, G) /\ Reached(S0, m, T, G)
          /\ mem \in [Addr -> Byte] /\ SeenOK
      BY FlightReached DEF Flight, PipeInv, TypeOK
    <2>2. T \in SUBSET Addr /\ \A a \in T : S1.mem[a] = m[a] /\ S2.mem[a] = m[a]
      BY <2>1, InstrParts DEF Meant
    <2>3. Between(V, S1.mem, S2.mem)
      BY <2>1, SeenBetween
    <2> HIDE DEF V
    <2> QED
      BY <2>2, <2>3 DEF Between
  <1> HIDE DEF V
  <1>7. DataKept(dLines', mem', cycle', T, m) /\ TextCached(iLines, T, m)'
    <2>1. /\ D!ReadyBound(dLines, cycle) /\ I!ReadyBound(iLines, cycle)
          /\ D!TextKept(dLines, mem, T, m) /\ I!TextKept(iLines, mem, T, m)
      BY DEF Flight, DataKept, TextCached
    <2>2. D!TextKept(dLines, V, T, m) /\ I!TextKept(iLines, V, T, m)
      BY <1>6, <2>1 DEF D!TextKept, I!TextKept
    <2> QED
      BY <1>1, <1>2, <2>1, <2>2 DEF DataKept, TextCached
  <1>8. SeenOK'
    <2>1. SeenOK
      BY DEF Flight
    <2> QED
      BY <1>1, <1>3, <1>4, <2>1 DEF SeenOK, V
  <1>9. /\ Reached(S0', m, T, G) /\ ~ rfailed' /\ regs' = rregs'
        /\ WbOK(memwb', S0') /\ MemOK(exmem', S1') /\ ExOK(Operands', S2')
        /\ LastRight(lastPc', lastWord', T, m)
        /\ (halted' => AtEnd(S0')) /\ (memHalt' > 0 => memwb'.at = None) /\ WaitsEmpty'
    BY <1>1, <1>4, <1>5 DEF Flight, WaitsEmpty
  <1>10. /\ IdRight(ifid', S3', Overflowing')
         /\ IfRight(ifid', S3', Overflowing', pc', haltSeen', lastPc', lastWord')
    BY <1>1, <1>4, <1>5 DEF Flight, IdRight, IfRight
  <1>11. Flight(m, T, G)'
    BY <1>7, <1>8, <1>9, <1>10 DEF Flight
  <1> QED
    BY <1>2, <1>3, <1>11

LEMMA RestartFlight ==
  ASSUME Sound, NEW T, NEW G, Certifies(T, G, Again), Serves(T, G), Restart
  PROVE  Serves(T, G)'
  <1>1. PICK m \in Images \union Again : Flight(m, T[m], G[m])
    BY DEF Serves
  <1>2. PICK n \in Again : n = mem'
    BY DEF Restart, InitSimulator
  <1>3. /\ S0' = StartWith(regs, n) /\ ~ rfailed' /\ regs' = rregs' /\ regs' = regs
    BY <1>2 DEF Restart, InitSimulator, RestartReference, S0, StartWith
  <1>4. regs = S0.regs /\ S0 \in G[m]
    BY <1>1 DEF Flight, Reached, S0
  <1>5. StartWith(regs, n) \in G[n] /\ Certified(n, T[n], G[n])
    BY <1>1, <1>2, <1>4 DEF Certifies
  <1>6. Started'
    BY RestartStarts
  <1>7. StartFlight'
    BY StartsInFlight, PTL
  <1>8. Flight(n, T[n], G[n])'
    BY <1>2, <1>3, <1>5, <1>6, <1>7 DEF StartFlight
  <1> QED
    BY <1>2, <1>8 DEF Serves

LEMMA DriveInitAt ==
  ASSUME DriverInit, NEW T, NEW G, Certifies(T, G, Again)
  PROVE  Sound /\ Dumped /\ Serves(T, G)
  <1>1. LockInit /\ up = TRUE
    BY DEF DriverInit
  <1>2. Sound /\ Started /\ mem \in Images
    BY <1>1, InitStarts, StartSound DEF LockInit, Init
  <1>3. S0 = Start(mem) /\ ~ rfailed /\ regs = rregs /\ S0 = StartWith(regs, mem)
    BY <1>1 DEF LockInit, Ref!Init, Init, S0, Start, StartWith, Reg, Ref!Reg
  <1>4. Certified(mem, T[mem], G[mem]) /\ S0 \in G[mem]
    BY <1>2, <1>3 DEF Certifies
  <1>5. Flight(mem, T[mem], G[mem])
    BY <1>2, <1>3, <1>4, StartsInFlight DEF StartFlight
  <1> QED
    BY <1>1, <1>2, <1>5 DEF Dumped, Serves

LEMMA DriveInit == DriverInit /\ Behaved(Again) => InDrive
  BY DriveInitAt DEF Behaved, InDrive

LEMMA DriveStepAt ==
  ASSUME Sound, Dumped, NEW T, NEW G, Certifies(T, G, Again), Serves(T, G),
         [DriverNext /\ (CallCycle => ~ Clash)]_driverVars
  PROVE  Sound' /\ Dumped' /\ Serves(T, G)'
  <1>1. PICK m \in Images \union Again : Flight(m, T[m], G[m])
    BY DEF Serves
  <1>2. Sound /\ PipeInv /\ Sound' /\ PipeInv'
    <2>1. Sound /\ Sound'
      BY DriverStep
    <2> QED
      BY <2>1 DEF Sound
  <1>3. CASE RunCycles \/ RunTillHalt \/ UNCHANGED driverVars
    <2>1. UNCHANGED lockVars /\ up' = up
      BY <1>3 DEF RunCycles, RunTillHalt, Call, driverVars, driverState
    <2>2. ~ up => left' = left
      BY <1>3 DEF RunCycles, RunTillHalt, Call, driverVars, driverState
    <2>3. Flight(m, T[m], G[m])'
      BY <1>1, <1>2, <2>1, StutterFlight
    <2>4. dLines' = dLines /\ mem' = mem
      BY <2>1 DEF lockVars, vars, cacheVars
    <2>5. Dumped'
      BY <2>1, <2>2, <2>4 DEF Dumped
    <2> QED
      BY <1>2, <2>3, <2>5 DEF Serves
  <1>4. CASE CallCycle /\ ~ Clash
    <2>1. LockCycle /\ up' = up /\ left # 0
      BY <1>4 DEF CallCycle
    <2>2. Freeze \/ Cycle
      BY <2>1 DEF LockCycle, Retire, Other
    <2>3. Flight(m, T[m], G[m])'
      BY <1>1, <1>2, <1>4, <2>1, <2>2, FreezeFlight, CycleFlight
    <2> QED
      BY <1>2, <2>1, <2>3 DEF Serves, Dumped
  <1>5. CASE FinalizeSimulator
    <2>1. Flight(m, T[m], G[m])' /\ mem' = D!View(dLines', mem') /\ left' = 0
      BY <1>1, <1>2, <1>5, FinalizeFlight DEF FinalizeSimulator
    <2> QED
      BY <1>2, <2>1 DEF Serves, Dumped
  <1>6. CASE Restart
    <2>1. up' = TRUE
      BY <1>6 DEF Restart, InitSimulator
    <2> QED
      BY <1>2, <1>6, <2>1, RestartFlight DEF Dumped
  <1> QED
    BY <1>3, <1>4, <1>5, <1>6 DEF DriverNext

LEMMA DriveStep ==
  ASSUME InDrive, [DriverNext /\ (CallCycle => ~ Clash)]_driverVars
  PROVE  InDrive'
  <1>1. PICK T, G : Certifies(T, G, Again) /\ Serves(T, G)
    BY DEF InDrive
  <1>2. Sound' /\ Dumped' /\ Serves(T, G)'
    BY <1>1, DriveStepAt DEF InDrive
  <1> QED
    BY <1>1, <1>2 DEF InDrive

LEMMA AlwaysInDrive ==
  ASSUME Behaved(Again)
  PROVE  ClearDriver => []InDrive
  <1>1. DriverInit => InDrive
    BY DriveInit
  <1>2. InDrive /\ [DriverNext /\ (CallCycle => ~ Clash)]_driverVars => InDrive'
    BY DriveStep
  <1> QED
    BY <1>1, <1>2, PTL DEF ClearDriver

\* Only the bytes a store writes are other than before.
LEMMA OnlyThese ==
  ASSUME NEW s, NEW m, NEW T, NEW G, Reached(s, m, T, G), NEW l,
         IF l.at = None \/ TrapsIn(s) THEN Idle(l) ELSE l.op = InstrIn(s).op,
         l.op \in Stores, DataAddr(l.rsValue, l.imm) = PlaceIn(s), NEW x \in Addr,
         x \notin LET a == DataAddr(l.rsValue, l.imm) IN a .. a + Size(l.op) - 1
  PROVE  Past(s, l).mem[x] = s.mem[x]
  <1> DEFINE i == InstrIn(s)
             a == PlaceIn(s)
             n == Size(i.op)
  <1>1. /\ l.at # None /\ ~ TrapsIn(s) /\ l.op = i.op
    BY DEF Idle, Stores
  <1>2. ~ AtEnd(s)
    <2>1. i.op = "halt" <=> AtEnd(s)
      BY InstrParts
    <2> QED
      BY <1>1, <2>1 DEF Stores
  <1>3. Past(s, l).mem = WriteMem(s.mem, a, RtIn(s), n)
    BY <1>1, <1>2 DEF Past, StepOf, Completed, MemAfter
  <1>4. x \notin a .. a + n - 1
    BY <1>1
  <1>5. a \in Nat /\ n \in Nat /\ x \in Nat
    <2>1. D!AccessIn(a, n, MemSize)
      BY <1>1, MeantAccess
    <2> QED
      BY <2>1, BytesHere, SizeIn DEF D!AccessIn
  <1>6. DOMAIN s.mem = Addr
    BY InstrParts, StateParts
  <1> HIDE DEF a, n, i
  <1>7. ~ (x - a \in 0 .. n - 1)
    BY <1>4, <1>5
  <1> QED
    BY <1>3, <1>6, <1>7 DEF WriteMem

LEMMA DriveShows == InDrive => InOrder /\ RegsAgree /\ MemAgrees /\ HaltAgrees /\ FinalState
  <1> SUFFICES ASSUME InDrive
               PROVE  InOrder /\ RegsAgree /\ MemAgrees /\ HaltAgrees /\ FinalState
    OBVIOUS
  <1>1. PICK m, T, G : Flight(m, T, G)
    BY DEF InDrive, Serves
  <1>2. InOrder /\ RegsAgree /\ MemAgrees /\ HaltAgrees
    BY <1>1, FlightShows DEF InDrive
  <1>3. FinalState
    <2> SUFFICES ASSUME ~ up, NEW x \in Addr, x \notin InFlight
                 PROVE  mem[x] = rmem[x]
      BY <1>1 DEF FinalState, Flight
    <2> DEFINE V == D!View(dLines, mem)
    <2>1. mem = V /\ rmem = S0.mem
      BY DEF InDrive, Dumped, S0
    <2>2. /\ Reached(S0, m, T, G) /\ Reached(S1, m, T, G)
          /\ WbOK(memwb, S0) /\ MemOK(exmem, S1) /\ SeenOK
          /\ memHalt > 0 => memwb.at = None
      BY <1>1, FlightReached DEF Flight
    <2>3. IF memwb.at = None \/ TrapsIn(S0) THEN Idle(memwb) ELSE memwb.op = InstrIn(S0).op
      BY <2>2 DEF WbOK
    <2>4. S1.mem[x] = S0.mem[x]
      <3>1. CASE memwb.op \notin Stores
        BY <2>3, <3>1, MemStep DEF S1
      <3>2. CASE memwb.op \in Stores
        <4>1. x \notin LET a == DataAddr(memwb.rsValue, memwb.imm)
                      IN  a .. a + Size(memwb.op) - 1
          BY <3>2 DEF InFlight, StoreInFlight
        <4>2. DataAddr(memwb.rsValue, memwb.imm) = PlaceIn(S0)
          BY <2>2, <3>2 DEF WbOK
        <4> QED
          BY <2>2, <2>3, <3>2, <4>1, <4>2, OnlyThese DEF S1
      <3> QED
        BY <3>1, <3>2
    <2>5. V[x] = S1.mem[x]
      <3>1. CASE ~ (exmem.op \in Stores /\ memHalt > 0)
        BY <2>2, <3>1 DEF SeenOK
      <3>2. CASE exmem.op \in Stores /\ memHalt > 0
        <4>1. memwb.op \notin Stores
          BY <2>2, <2>3, <3>2 DEF Idle, Stores
        <4>2. x \notin LET a == DataAddr(exmem.rsValue, exmem.imm)
                      IN  a .. a + Size(exmem.op) - 1
          BY <3>2, <4>1 DEF InFlight, StoreInFlight
        <4>3. /\ DataAddr(exmem.rsValue, exmem.imm) = PlaceIn(S1)
              /\ Kind(exmem, S1)
          BY <2>2, <3>2, AccessCarried, MemKind
        <4>4. S2.mem[x] = S1.mem[x]
          BY <2>2, <3>2, <4>2, <4>3, OnlyThese DEF S2, Kind
        <4>5. V[x] \in {S1.mem[x], S2.mem[x]}
          BY <2>2, <3>2 DEF SeenOK, Between
        <4> QED
          BY <4>4, <4>5
      <3> QED
        BY <3>1, <3>2
    <2> HIDE DEF V
    <2> QED
      BY <2>1, <2>4, <2>5
  <1> QED
    BY <1>2, <1>3

\* Neither the calls a driver makes of runCycles and runTillHalt, nor those
\* after the halt, nor a simulation given up before this one, show in the
\* instructions that are completed and their order.
THEOREM DriverInOrder ==
  ASSUME Behaved(Again)
  PROVE  ClearDriver => []InOrder
  BY DriveShows, AlwaysInDrive, PTL

\* Nor do they show in the registers: the next simulation, which starts with
\* those the one before had when it was given up, computes from them.
THEOREM DriverRegs ==
  ASSUME Behaved(Again)
  PROVE  ClearDriver => []RegsAgree
  BY DriveShows, AlwaysInDrive, PTL

\* A driver that sees the halt finds the final state of the program.
THEOREM DriverHalt ==
  ASSUME Behaved(Again)
  PROVE  ClearDriver => []HaltAgrees
  BY DriveShows, AlwaysInDrive, PTL

\* finalizeSimulator, called between any two cycles, dumps the registers and
\* the memory of the functional simulator after the instructions written back,
\* but for the bytes of a store that is on its way.
THEOREM DumpIsState ==
  ASSUME Behaved(Again)
  PROVE  ClearDriver => []FinalState
  BY DriveShows, AlwaysInDrive, PTL

-----------------------------------------------------------------------------
(***************************************************************************)
(* An instruction cache that answers at once never clashes.                *)
(***************************************************************************)

LEMMA AtOnceClear ==
  ASSUME ICLatency = 0, PipeInv
  PROVE  ~ Clash
  <1>1. ~ Split
    BY DEF Split
  <1>2. ASSUME NEW u \in Junk
        PROVE  Fetch(u).wait = 0 /\ ~ Fetch(u).stall
    <2>1. u \in Byte
      BY PipelineAssumption
    <2>2. Fetch(u).wait \in 0 .. ICLatency
      BY <2>1, FetchKeeps DEF FetchLeaves
    <2>3. Fetch(u).wait = 0
      BY <2>2
    <2>4. CASE \E word, at, wait : Fetch(u) = NoFetch(word, at, wait)
      <3>1. PICK word, at, wait : Fetch(u) = NoFetch(word, at, wait)
        BY <2>4
      <3>2. Fetch(u).stall = FALSE
        BY <3>1 DEF NoFetch
      <3> QED
        BY <2>3, <3>2
    <2>5. CASE Fetch(u) = Lookup(u)
      <3>1. PICK t : Fetch(u) = Fetched(t)
        BY <2>5 DEF Lookup
      <3>2. Fetch(u).stall = ~ (t.cache.result = 0) /\ Fetch(u).wait = t.cache.result
        BY <3>1 DEF Fetched
      <3> QED
        BY <2>3, <3>2
    <2>6. Fetch(u) = Lookup(u) \/ \E word, at, wait : Fetch(u) = NoFetch(word, at, wait)
      BY DEF Fetch
    <2> QED
      BY <2>3, <2>4, <2>5, <2>6
  <1> QED
    BY <1>1, <1>2 DEF Clash, Loses

\* With an instruction cache without latency the theorems above are about all
\* runs of the pipeline, and all those of a driver.
THEOREM PerfectFetch ==
  ASSUME ICLatency = 0
  PROVE  (LockSpec => ClearSpec) /\ (DriverSpec => ClearDriver)
  <1>1. LockSpec => []Sound
    <2>1. LockInit => Sound
      BY InitStarts, StartSound DEF LockInit
    <2>2. Sound /\ [LockNext]_lockVars => Sound'
      BY RunCycleSound, StutterSound DEF LockNext, LockCycle, Retire, Other, lockVars
    <2> QED
      BY <2>1, <2>2, PTL DEF LockSpec
  <1>2. Sound => ~ Clash
    BY AtOnceClear DEF Sound
  <1>3. LockSpec => ClearSpec
    BY <1>1, <1>2, PTL DEF LockSpec, ClearSpec
  <1>4. DriverSpec => ClearDriver
    BY <1>2, DriverSound, PTL DEF DriverSpec, ClearDriver
  <1> QED
    BY <1>3, <1>4

=============================================================================
