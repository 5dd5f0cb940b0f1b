------------------------- MODULE LinkedLoadsProofs -------------------------
(***************************************************************************)
(* What a load-linked promises, for every program: every table of          *)
(* instructions, every size of words and memory, every initial memory.     *)
(***************************************************************************)
EXTENDS LinkedLoads, MipsProofs

LEMMA TargetWord ==
  ASSUME NEW i, Decoded(i), regs \in [Reg -> Word], pc \in Word
  PROVE  Target(i) \in Word \union {None}
  <1>1. i.rs \in Reg /\ i.imm \in Nat /\ pc \in Int
    BY DEF Decoded, Instr, Word
  <1>2. regs[i.rs] \in Word
    BY <1>1
  <1>3. BranchTarget(pc, i.imm) \in Word
    BY <1>1, BranchWord
  <1>4. CASE i.op \in {"j", "jal"}
    <2>1. i.imm < JumpMod
      BY <1>4 DEF Decoded
    <2> QED
      BY <1>1, <1>4, <2>1, JumpWord DEF Target
  <1>5. CASE i.op \notin {"j", "jal"}
    BY <1>2, <1>3, <1>5 DEF Target
  <1> QED
    BY <1>4, <1>5

-----------------------------------------------------------------------------
(***************************************************************************)
(* Types.                                                                  *)
(***************************************************************************)

\* The word the next step fetches.
LEMMA FetchedWord ==
  ASSUME TypeOK, Backed(Current, 4)
  PROVE  Fetched \in Word
  <1>1. Current \in Nat
    <2>1. Current \in Word
      BY DEF TypeOK, Current
    <2> QED
      BY <2>1 DEF Word
  <1> QED
    BY <1>1, ReadMemWord DEF TypeOK, Fetched

LEMMA SetRegTypes ==
  ASSUME TypeOK, NEW r \in Reg, NEW v \in Word, SetReg(r, v)
  PROVE  regs' \in [Reg -> Word] /\ regs'[0] = 0
  BY Moduli DEF TypeOK, SetReg

\* The address and the operands of an instruction.
LEMMA PlaceWord ==
  ASSUME TypeOK, NEW i, Decoded(i)
  PROVE  /\ i.rs \in Reg /\ i.rt \in Reg /\ i.rd \in Reg /\ i.imm \in Nat
         /\ regs[i.rs] \in Word /\ regs[i.rt] \in Word
         /\ Place(i) \in Word /\ Place(i) \in Nat
         /\ Size(i.op) \in {1, 2, 4}
  <1>1. /\ i.rs \in Reg /\ i.rt \in Reg /\ i.rd \in Reg /\ i.imm \in Nat
        /\ regs[i.rs] \in Word /\ regs[i.rt] \in Word
    BY DEF TypeOK, Decoded, Instr
  <1>2. Place(i) \in Word
    BY <1>1, SignExtendInt, PlusWord, WordNat DEF Place, DataAddr
  <1>3. Size(i.op) \in {1, 2, 4}
    BY DEF Size
  <1> QED
    BY <1>1, <1>2, <1>3, WordNat

LEMMA EffectTypes ==
  ASSUME TypeOK, NEW i, Decoded(i), ~ Refused(i), Effect(i)
  PROVE  /\ regs' \in [Reg -> Word] /\ regs'[0] = 0
         /\ mem' \in [Addr -> Byte] /\ link' \in Word \union {None}
  <1>0. /\ i.rs \in Reg /\ i.rt \in Reg /\ i.rd \in Reg /\ i.imm \in Nat
        /\ regs[i.rs] \in Word /\ regs[i.rt] \in Word
        /\ Place(i) \in Word /\ Place(i) \in Nat
        /\ Size(i.op) \in {1, 2, 4}
    BY PlaceWord
  <1>00. /\ regs \in [Reg -> Word] /\ regs[0] = 0 /\ mem \in [Addr -> Byte]
         /\ link \in Word \union {None} /\ pc \in Word
    BY DEF TypeOK
  <1>1. CASE Arithmetic(i)
    <2>1. Alu(i.op, regs[i.rs], regs[i.rt], i.imm) \in Word
      BY <1>0, <1>1, AluWord DEF Arithmetic, Decoded
    <2>2. (IF i.op \in RAlu THEN i.rd ELSE i.rt) \in Reg
      BY <1>0
    <2> QED
      BY <1>00, <1>1, <2>1, <2>2, SetRegTypes DEF Arithmetic
  <1>2. CASE Load(i)
    <2>1. Backed(Place(i), Size(i.op))
      BY <1>2 DEF Load, Refused
    <2>2. ReadMem(mem, Place(i), Size(i.op)) \in Word
      BY <1>0, <1>00, <2>1, ReadMemWord
    <2> QED
      BY <1>0, <1>00, <1>2, <2>2, SetRegTypes DEF Load, Links
  <1>3. CASE Store(i)
    <2>1. WriteMem(mem, Place(i), regs[i.rt], Size(i.op)) \in [Addr -> Byte]
      BY <1>0, <1>00, WriteMemBytes
    <2> QED
      BY <1>00, <1>3, <2>1 DEF Store, Breaks
  <1>4. CASE StoreConditional(i)
    <2>1. link = Place(i) => WriteMem(mem, link, regs[i.rt], 4) \in [Addr -> Byte]
      BY <1>0, <1>00, WriteMemBytes
    <2>2. (IF link = Place(i) THEN 1 ELSE 0) \in Word
      <3>1. 1 \in Word
        BY Moduli DEF Word
      <3> QED
        BY <3>1, Moduli
    <2> QED
      BY <1>0, <1>00, <1>4, <2>1, <2>2, SetRegTypes DEF StoreConditional
  <1>5. CASE Control(i)
    <2>1. Plus(pc, 8) \in Word /\ LinkReg \in Reg
      BY <1>00, PlusWord, WordNat, MipsAssumption
    <2> QED
      BY <1>00, <1>5, <2>1, SetRegTypes DEF Control
  <1> QED
    BY <1>1, <1>2, <1>3, <1>4, <1>5 DEF Effect

LEMMA RunTypes ==
  ASSUME TypeOK, NEW i, Decoded(i), NEW next \in Word, Run(i, next)
  PROVE  TypeOK'
  <1>0. /\ regs \in [Reg -> Word] /\ regs[0] = 0 /\ mem \in [Addr -> Byte]
        /\ link \in Word \union {None} /\ pc \in Word /\ failed \in BOOLEAN
    BY DEF TypeOK
  <1>00. Plus(pc, 4) \in Word
    BY <1>0, PlusWord, WordNat
  <1>1. CASE Traps(i)
    BY <1>0, <1>1, MipsAssumption DEF Run, Trap, TypeOK
  <1>2. CASE ~ Traps(i) /\ Refused(i)
    <2>1. link' \in Word \union {None}
      BY <1>0, <1>2, PlaceWord DEF Run, Refuse, Breaks, Links
    <2> QED
      BY <1>0, <1>00, <1>2, <2>1 DEF Run, Refuse, Fail, TypeOK
  <1>3. CASE ~ Traps(i) /\ ~ Refused(i)
    <2>1. Target(i) \in Word \union {None}
      BY <1>0, TargetWord
    <2>2. /\ Effect(i) /\ failed' = failed
          /\ pc' \in Word /\ slot' \in Word \union {None}
      BY <1>00, <1>3, <2>1 DEF Run
    <2> QED
      BY <1>0, <1>3, <2>2, EffectTypes DEF TypeOK
  <1> QED
    BY <1>1, <1>2, <1>3

LEMMA NextTypes == TypeOK /\ [Next]_vars => TypeOK'
  <1> SUFFICES ASSUME TypeOK, [Next]_vars PROVE TypeOK'
    OBVIOUS
  <1>0. pc \in Word /\ Plus(pc, 4) \in Word
    BY PlusWord, WordNat DEF TypeOK
  <1>1. CASE RunInstruction
    <2>1. Fetched \in Word
      BY <1>1, FetchedWord DEF RunInstruction, Current
    <2> QED
      BY <1>0, <1>1, <2>1, CodeDecoded, RunTypes DEF RunInstruction
  <1>2. CASE RunDelayInstruction
    <2>1. Fetched \in Word
      BY <1>2, FetchedWord DEF RunDelayInstruction, Current
    <2> QED
      BY <1>0, <1>2, <2>1, CodeDecoded, RunTypes DEF RunDelayInstruction
  <1>3. CASE FailedFetch
    BY <1>0, <1>3 DEF FailedFetch, Fail, TypeOK
  <1>4. CASE UNCHANGED vars
    BY <1>4 DEF vars, TypeOK
  <1> QED
    BY <1>1, <1>2, <1>3, <1>4 DEF Next

LEMMA InitTypes == LinkInit => TypeOK
  <1> SUFFICES ASSUME LinkInit PROVE TypeOK
    OBVIOUS
  <1>1. 0 \in Reg
    BY MipsAssumption DEF Reg
  <1>2. regs \in [Reg -> Word] /\ regs[0] = 0
    BY <1>1, Moduli DEF LinkInit, Init
  <1>3. mem \in [Addr -> Byte]
    BY ImagesAssumption DEF LinkInit
  <1> QED
    BY <1>2, <1>3, Moduli DEF LinkInit, Init, TypeOK

-----------------------------------------------------------------------------
(***************************************************************************)
(* The link.                                                               *)
(***************************************************************************)

\* The inductive invariant.  A program that failed takes no step, and the word
\* a link stands for was read once: memory backs it.
LinkInv ==
  /\ TypeOK
  /\ reserved \in Word \union {None} /\ stored \in BOOLEAN
  /\ failed => slot = None
  /\ link # None /\ ~ failed => Backed(link, 4)
  /\ LinkHolds

\* checkLLSCOverlap compares the ends of the store with those of the linked
\* word.  For every store of at most a word that finds exactly the stores that
\* touch a byte of it.
THEOREM OverlapExact ==
  ASSUME NEW a \in Nat, NEW n \in {1, 2, 4}, link \in Nat, link # None
  PROVE  Overlaps(a, n) <=> Bytes(a, n) \cap Bytes(link, 4) # {}
  <1>1. ASSUME Overlaps(a, n)
        PROVE  Bytes(a, n) \cap Bytes(link, 4) # {}
    <2>1. CASE a >= link /\ a < link + 4
      <3>1. a \in Bytes(a, n) /\ a \in Bytes(link, 4)
        BY <2>1 DEF Bytes
      <3> QED
        BY <3>1
    <2>2. CASE a + n > link /\ a + n <= link + 4
      <3>1. a + n - 1 \in Bytes(a, n) /\ a + n - 1 \in Bytes(link, 4)
        BY <2>2 DEF Bytes
      <3> QED
        BY <3>1
    <2> QED
      BY <1>1, <2>1, <2>2 DEF Overlaps
  <1>2. ASSUME NEW x \in Bytes(a, n) \cap Bytes(link, 4)
        PROVE  Overlaps(a, n)
    BY DEF Bytes, Overlaps
  <1> QED
    BY <1>1, <1>2

\* Memory that agrees on four bytes has the same word there.
LEMMA ReadSame ==
  ASSUME NEW m, NEW o, NEW a \in Nat, \A x \in Bytes(a, 4) : o[x] = m[x]
  PROVE  ReadMem(o, a, 4) = ReadMem(m, a, 4)
  <1>1. \A k \in 1 .. 4 : a + k - 1 \in Bytes(a, 4)
    BY DEF Bytes
  <1>2. [k \in 1 .. 4 |-> o[a + k - 1]] = [k \in 1 .. 4 |-> m[a + k - 1]]
    BY <1>1
  <1> QED
    BY <1>2 DEF ReadMem

\* A store elsewhere leaves a word as it is.
LEMMA StoreElsewhere ==
  ASSUME TypeOK, NEW a \in Nat, NEW n \in {1, 2, 4}, NEW w,
         NEW l \in Nat, Backed(l, 4), Bytes(a, n) \cap Bytes(l, 4) = {}
  PROVE  ReadMem(WriteMem(mem, a, w, n), l, 4) = ReadMem(mem, l, 4)
  <1>1. ASSUME NEW x \in Bytes(l, 4)
        PROVE  WriteMem(mem, a, w, n)[x] = mem[x]
    <2>1. x \in Addr
      BY Moduli DEF Bytes, Backed, Addr
    <2>2. x \notin Bytes(a, n) /\ x \in Int
      BY DEF Bytes
    <2>3. x - a \notin 0 .. n - 1
      BY <2>2 DEF Bytes
    <2> QED
      BY <2>1, <2>3 DEF WriteMem
  <1> QED
    BY <1>1, ReadSame

\* The history of the reserved word keeps its types.
LEMMA WatchTypes ==
  ASSUME LinkInv, NEW i, Decoded(i), Watch(i)
  PROVE  reserved' \in Word \union {None} /\ stored' \in BOOLEAN
  <1>1. Place(i) \in Word
    BY PlaceWord DEF LinkInv
  <1>2. CASE i.op = "ll"
    BY <1>1, <1>2 DEF Watch, LinkInv
  <1>3. CASE i.op # "ll"
    BY <1>3 DEF Watch, LinkInv
  <1> QED
    BY <1>2, <1>3

\* What an effect of the instruction does to a link that stands after it.
LEMMA EffectLink ==
  ASSUME LinkInv, NEW i, Decoded(i), Effect(i), Watch(i), ~ Traps(i), ~ Refused(i),
         link' # None, ~ failed
  PROVE  /\ Backed(link', 4)
         /\ link' = reserved' /\ ~ stored' /\ ReadMem(mem', link', 4) = loaded'
  <1>0. /\ Place(i) \in Word /\ Place(i) \in Nat /\ Size(i.op) \in {1, 2, 4}
        /\ TypeOK
    BY PlaceWord DEF LinkInv
  <1>1. CASE i.op = "ll"
    <2>1. link' = Place(i) /\ mem' = mem
      BY <1>1 DEF Effect, Load, Links, Arithmetic, Store, StoreConditional, Control,
                  RAlu, IAlu, Loads, Stores, Jumps
    <2>2. reserved' = Place(i) /\ loaded' = ReadMem(mem, Place(i), 4) /\ stored' = FALSE
      BY <1>1 DEF Watch
    <2>3. Backed(Place(i), 4)
      BY <1>1 DEF Refused, Size
    <2> QED
      BY <2>1, <2>2, <2>3
  <1>2. CASE i.op \in Stores
    <2>1. /\ link' = link /\ ~ Overlaps(Place(i), Size(i.op))
          /\ mem' = WriteMem(mem, Place(i), regs[i.rt], Size(i.op))
      BY <1>2 DEF Effect, Load, Breaks, Arithmetic, Store, StoreConditional, Control,
                  RAlu, IAlu, Loads, Stores, Jumps
    <2>2. /\ link # None /\ link \in Nat /\ Backed(link, 4)
          /\ link = reserved /\ ~ stored /\ ReadMem(mem, link, 4) = loaded
      BY <2>1, <1>0, WordNat DEF LinkInv, LinkHolds, TypeOK
    <2>3. Bytes(Place(i), Size(i.op)) \cap Bytes(link, 4) = {}
      BY <1>0, <2>1, <2>2, OverlapExact
    <2>4. /\ reserved' = reserved /\ loaded' = loaded
          /\ stored' = (stored \/ Stored(i))
      BY <1>2 DEF Watch, Stores
    <2>5. ~ Stored(i)
      BY <2>2, <2>3 DEF Stored
    <2>6. ReadMem(mem', link, 4) = ReadMem(mem, link, 4)
      BY <1>0, <2>1, <2>2, <2>3, StoreElsewhere
    <2> QED
      BY <2>1, <2>2, <2>4, <2>5, <2>6
  <1>3. CASE i.op # "ll" /\ i.op \notin Stores
    <2>1. i.op # "sc" /\ link' = link /\ mem' = mem
      <3>1. CASE Arithmetic(i)
        BY <3>1 DEF Arithmetic, RAlu, IAlu
      <3>2. CASE Load(i)
        BY <1>3, <3>2 DEF Load, Links, Loads
      <3>3. CASE Control(i)
        BY <3>3 DEF Control, Jumps
      <3> QED
        BY <1>3, <3>1, <3>2, <3>3 DEF Effect, Store, StoreConditional
    <2>2. /\ reserved' = reserved /\ loaded' = loaded
          /\ stored' = (stored \/ Stored(i))
      BY <1>3 DEF Watch
    <2>3. ~ Stored(i)
      BY <1>3, <2>1 DEF Stored
    <2> QED
      BY <2>1, <2>2, <2>3 DEF LinkInv, LinkHolds
  <1> QED
    BY <1>1, <1>2, <1>3

LEMMA RunLink ==
  ASSUME LinkInv, NEW i, Decoded(i), NEW next \in Word, Run(i, next), Watch(i), ~ failed
  PROVE  LinkInv'
  <1>1. TypeOK'
    BY RunTypes DEF LinkInv
  <1>2. reserved' \in Word \union {None} /\ stored' \in BOOLEAN
    BY WatchTypes
  <1>3. CASE Traps(i)
    <2>1. link' = None /\ slot' = None
      BY <1>3 DEF Run, Trap
    <2> QED
      BY <1>1, <1>2, <2>1 DEF LinkInv, LinkHolds
  <1>4. CASE ~ Traps(i) /\ Refused(i)
    <2>1. failed' /\ slot' = None
      BY <1>4 DEF Run, Refuse, Fail
    <2> QED
      BY <1>1, <1>2, <2>1 DEF LinkInv, LinkHolds
  <1>5. CASE ~ Traps(i) /\ ~ Refused(i)
    <2>1. Effect(i) /\ failed' = failed
      BY <1>5 DEF Run
    <2>2. link' # None =>
            /\ Backed(link', 4)
            /\ link' = reserved' /\ ~ stored' /\ ReadMem(mem', link', 4) = loaded'
      BY <1>5, <2>1, EffectLink
    <2> QED
      BY <1>1, <1>2, <2>1, <2>2 DEF LinkInv, LinkHolds
  <1> QED
    BY <1>3, <1>4, <1>5

\* A step runs the instruction it is said to run, in a program that has not
\* failed, or fails to fetch one.
LEMMA StepRuns ==
  ASSUME LinkInv, Next
  PROVE  /\ ~ failed /\ Decoded(Instruction)
         /\ \/ \E next \in Word : Run(Instruction, next)
            \/ FailedFetch /\ Instruction = Nop
  <1>0. pc \in Word /\ Plus(pc, 4) \in Word /\ TypeOK
    BY PlusWord, WordNat DEF LinkInv, TypeOK
  <1>1. CASE RunInstruction
    <2>1. Backed(Current, 4) /\ Instruction = Code[Fetched] /\ ~ failed
      BY <1>1 DEF RunInstruction, Current, Instruction
    <2>2. Decoded(Instruction)
      BY <1>0, <2>1, FetchedWord, CodeDecoded
    <2> QED
      BY <1>0, <1>1, <2>1, <2>2 DEF RunInstruction
  <1>2. CASE RunDelayInstruction
    <2>1. Backed(Current, 4) /\ Instruction = Code[Fetched] /\ ~ failed
      BY <1>2 DEF RunDelayInstruction, Current, Instruction, LinkInv
    <2>2. Decoded(Instruction)
      BY <1>0, <2>1, FetchedWord, CodeDecoded
    <2> QED
      BY <1>0, <1>2, <2>1, <2>2 DEF RunDelayInstruction
  <1>3. CASE FailedFetch
    <2>1. Instruction = Nop /\ ~ failed
      BY <1>3 DEF FailedFetch, Instruction
    <2> QED
      BY <1>3, <2>1, NopDecoded
  <1> QED
    BY <1>1, <1>2, <1>3 DEF Next

LEMMA NextLink == LinkInv /\ [LinkNext]_linkVars => LinkInv'
  <1> SUFFICES ASSUME LinkInv, [LinkNext]_linkVars PROVE LinkInv'
    OBVIOUS
  <1>1. CASE LinkNext
    <2>1. Next /\ Watch(Instruction)
      BY <1>1 DEF LinkNext
    <2>2. /\ ~ failed /\ Decoded(Instruction)
          /\ \/ \E next \in Word : Run(Instruction, next)
             \/ FailedFetch /\ Instruction = Nop
      BY <2>1, StepRuns
    <2>3. CASE \E next \in Word : Run(Instruction, next)
      BY <2>1, <2>2, <2>3, RunLink
    <2>4. CASE FailedFetch
      <3>1. TypeOK'
        BY <2>1, NextTypes DEF LinkInv
      <3>2. reserved' \in Word \union {None} /\ stored' \in BOOLEAN
        BY <2>1, <2>2, WatchTypes
      <3>3. failed' /\ slot' = None
        BY <2>4 DEF FailedFetch, Fail
      <3> QED
        BY <3>1, <3>2, <3>3 DEF LinkInv, LinkHolds
    <2> QED
      BY <2>2, <2>3, <2>4
  <1>2. CASE UNCHANGED linkVars
    BY <1>2 DEF linkVars, vars, LinkInv, TypeOK, LinkHolds
  <1> QED
    BY <1>1, <1>2

LEMMA InitLink == LinkInit => LinkInv
  BY InitTypes DEF LinkInit, Init, LinkInv, LinkHolds

LEMMA LinkInvariant == LinkSpec => []LinkInv
  BY InitLink, NextLink, PTL DEF LinkSpec

-----------------------------------------------------------------------------
(***************************************************************************)
(* The theorems.                                                           *)
(***************************************************************************)

\* Registers, memory and program counter hold words and bytes, and register 0
\* holds zero, after every instruction of every program.
THEOREM LinkTypes == LinkSpec => []TypeOK
  <1>1. LinkInv => TypeOK
    BY DEF LinkInv
  <1> QED
    BY <1>1, LinkInvariant, PTL

\* A link that stands is that of the last load-linked, no byte of whose word was
\* stored to since (doLoad, checkLLSCOverlap, runInstruction's exceptions).
THEOREM LinkStands == LinkSpec => []LinkHolds
  <1>1. LinkInv => LinkHolds
    BY DEF LinkInv
  <1> QED
    BY <1>1, LinkInvariant, PTL

\* A store ends the link exactly if it touches the linked word, and of the other
\* instructions a store-conditional alone does.
LEMMA EffectEnds ==
  ASSUME LinkInv, ~ failed, NEW i, Decoded(i), Effect(i), ~ Traps(i), ~ Refused(i),
         link # None
  PROVE  link' = None <=> i.op = "sc" \/ Stored(i)
  <1>0. Place(i) \in Word /\ Place(i) \in Nat /\ Size(i.op) \in {1, 2, 4}
    BY PlaceWord DEF LinkInv
  <1>1. CASE StoreConditional(i)
    BY <1>1 DEF StoreConditional
  <1>2. CASE Store(i)
    <2>1. link \in Nat /\ link = reserved /\ reserved # None
      BY WordNat DEF LinkInv, TypeOK, LinkHolds
    <2>2. Overlaps(Place(i), Size(i.op)) <=>
            Bytes(Place(i), Size(i.op)) \cap Bytes(reserved, 4) # {}
      BY <1>0, <2>1, OverlapExact
    <2>3. i.op \in Stores /\ i.op # "sc"
      BY <1>2 DEF Store, Stores
    <2> QED
      BY <1>2, <2>1, <2>2, <2>3 DEF Store, Breaks, Stored
  <1>3. CASE Arithmetic(i) \/ Load(i) \/ Control(i)
    <2>1. link' # None
      BY <1>0, <1>3, NoneAssumption DEF Arithmetic, Load, Links, Control
    <2>2. i.op # "sc" /\ i.op \notin Stores
      BY <1>3 DEF Arithmetic, Load, Control, RAlu, IAlu, Loads, Stores, Jumps
    <2> QED
      BY <2>1, <2>2 DEF Stored
  <1> QED
    BY <1>1, <1>2, <1>3 DEF Effect

\* In a program that goes on a link ends at every exception, every
\* store-conditional and every store into its word, and at nothing else
\* (checkLLSCOverlap, handleImmInst, runInstruction's exceptions).
THEOREM LinkEnds == LinkSpec => LinkLasts
  <1> DEFINE i == Instruction
             Exact == link' = None <=> Traps(i) \/ i.op = "sc" \/ Stored(i)
  <1>1. LinkInv /\ [LinkNext]_linkVars =>
          [link # None /\ ~ failed' => Exact]_linkVars
    <2> SUFFICES ASSUME LinkInv, LinkNext, link # None, ~ failed'
                 PROVE  Exact
      OBVIOUS
    <2>1. /\ ~ failed /\ Decoded(i)
          /\ \/ \E next \in Word : Run(i, next)
             \/ FailedFetch
      BY StepRuns DEF LinkNext
    <2>2. CASE FailedFetch
      BY <2>2 DEF FailedFetch, Fail
    <2>3. CASE \E next \in Word : Run(i, next)
      <3> HIDE DEF i
      <3>1. CASE Traps(i)
        BY <2>3, <3>1 DEF Run, Trap
      <3>2. CASE ~ Traps(i)
        <4>1. ~ Refused(i)
          BY <2>3, <3>2 DEF Run, Refuse, Fail
        <4>2. Effect(i)
          BY <2>3, <3>2, <4>1 DEF Run
        <4> QED
          BY <2>1, <3>2, <4>1, <4>2, EffectEnds
      <3> QED
        BY <3>1, <3>2
    <2> QED
      BY <2>1, <2>2, <2>3
  <1> QED
    BY <1>1, LinkInvariant, PTL DEF LinkSpec, LinkLasts

\* A store-conditional stores and reports 1, or does neither and reports 0, and
\* it stores only over the word the load-linked loaded (opcode 0x38 of
\* handleImmInst).
THEOREM ConditionalAtomic == LinkSpec => ConditionalIsAtomic
  <1> DEFINE i == Instruction
             a == Place(i)
             Atomic ==
               IF regs'[i.rt] = 1
               THEN /\ a = reserved /\ ~ stored /\ ReadMem(mem, a, 4) = loaded
                    /\ ReadMem(mem', a, 4) = regs[i.rt]
               ELSE regs'[i.rt] = 0 /\ mem' = mem
  <1>1. LinkInv /\ [LinkNext]_linkVars => [i.op = "sc" /\ i.rt # 0 => Atomic]_linkVars
    <2> SUFFICES ASSUME LinkInv, LinkNext, i.op = "sc", i.rt # 0
                 PROVE  Atomic
      OBVIOUS
    <2>1. /\ ~ failed /\ Decoded(i)
          /\ \/ \E next \in Word : Run(i, next)
             \/ FailedFetch /\ i = Nop
      BY StepRuns DEF LinkNext
    <2>2. PICK next \in Word : Run(i, next)
      BY <2>1 DEF Nop
    <2>3. i \in Instr /\ regs \in [Reg -> Word] /\ a \in Word
      BY <2>1, PlaceWord DEF Decoded, LinkInv, TypeOK
    <2> HIDE DEF i
    <2>4. ~ Traps(i) /\ ~ Refused(i)
      BY DEF Traps, Illegal, Overflows, Refused, Loads, Stores
    <2>5. Effect(i)
      BY <2>2, <2>4 DEF Run
    <2>6. StoreConditional(i)
      BY <2>5 DEF Effect, Arithmetic, Load, Store, Control, RAlu, IAlu, Loads, Stores,
                  Jumps
    <2>7. i.rt \in Reg
      BY <2>3 DEF Instr
    <2>8. CASE link = a
      <3>1. link # None
        BY <2>3, <2>8, NoneAssumption
      <3>2. /\ a = reserved /\ ~ stored /\ ReadMem(mem, a, 4) = loaded
            /\ Backed(a, 4)
        BY <2>1, <2>8, <3>1 DEF LinkInv, LinkHolds
      <3>3. regs'[i.rt] = 1 /\ mem' = WriteMem(mem, a, regs[i.rt], 4)
        BY <2>3, <2>6, <2>7, <2>8 DEF StoreConditional, SetReg
      <3>4. ReadMem(mem', a, 4) = regs[i.rt]
        BY <2>3, <2>7, <3>2, <3>3, ReadStored, WordNat
      <3> QED
        BY <3>2, <3>3, <3>4
    <2>9. CASE link # a
      <3>1. regs'[i.rt] = 0 /\ mem' = mem
        BY <2>3, <2>6, <2>7, <2>9 DEF StoreConditional, SetReg
      <3> QED
        BY <3>1
    <2> QED
      BY <2>8, <2>9
  <1> QED
    BY <1>1, LinkInvariant, PTL DEF LinkSpec, ConditionalIsAtomic

=============================================================================
