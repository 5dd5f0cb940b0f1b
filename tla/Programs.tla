------------------------------ MODULE Programs ------------------------------
(***************************************************************************)
(* The functional simulator once more, as a function from states to        *)
(* states, and the programs it and the pipeline give one meaning to.       *)
(* LockstepProofs shows that a step of Sequential is StepOf, and that the  *)
(* pipeline runs these programs as the functional simulator does.          *)
(***************************************************************************)
EXTENDS Lockstep

-----------------------------------------------------------------------------
(***************************************************************************)
(* States and steps.                                                       *)
(***************************************************************************)

RefState ==
  [regs : {r \in [Reg -> Word] : r[0] = 0}, mem : [Addr -> Byte],
   pc : Word, slot : Word \union {None}]

\* A program starts with the registers it finds.
StartWith(rg, m) == [regs |-> rg, mem |-> m, pc |-> 0, slot |-> None]
Start(m)         == StartWith([r \in Reg |-> 0], m)

\* The address of the instruction a state runs next, and the instruction.
CurOf(s)   == IF s.slot = None THEN s.pc ELSE s.slot
WordIn(s)  == ReadMem(s.mem, CurOf(s), 4)
InstrIn(s) == Code[WordIn(s)]

\* The values of its operands, and the address of a load or store.
RsIn(s)    == s.regs[InstrIn(s).rs]
RtIn(s)    == s.regs[InstrIn(s).rt]
PlaceIn(s) == DataAddr(RsIn(s), InstrIn(s).imm)

AtEnd(s)      == s.slot = None /\ WordIn(s) = HaltWord
IllegalIn(s)  == InstrIn(s).op \in {"illegal", "badFunct"}
OverflowIn(s) == Overflows(InstrIn(s).op, RsIn(s), RtIn(s), InstrIn(s).imm)
TrapsIn(s)    == IllegalIn(s) \/ OverflowIn(s)

\* What the instruction writes to its register, or NoValue.
ResultIn(s) ==
  LET i == InstrIn(s)
  IN  CASE i.op \in RAlu \union IAlu -> Alu(i.op, RsIn(s), RtIn(s), i.imm)
        [] i.op \in Loads            -> ReadMem(s.mem, PlaceIn(s), Size(i.op))
        [] i.op = "jal"              -> Plus(s.pc, 8)
        [] OTHER                     -> NoValue

Put(rg, r, v) == IF r = 0 THEN rg ELSE [rg EXCEPT ![r] = v]
RegsAfter(s)    == Put(s.regs, Dest(InstrIn(s)), ResultIn(s))

MemAfter(s) ==
  IF InstrIn(s).op \in Stores
  THEN WriteMem(s.mem, PlaceIn(s), RtIn(s), Size(InstrIn(s).op)) ELSE s.mem

\* The address behind the instruction, and where it jumps to, or None.
Follow(s) == IF s.slot = None THEN Plus(s.pc, 4) ELSE s.pc

GoesTo(s) ==
  LET i == InstrIn(s)
  IN  CASE i.op = "jr"           -> RsIn(s)
        [] i.op \in {"j", "jal"} -> JumpTarget(s.pc, i.imm)
        [] i.op = "beq"          -> IF RsIn(s) = RtIn(s) THEN BranchTarget(s.pc, i.imm) ELSE None
        [] i.op = "bne"          -> IF RsIn(s) # RtIn(s) THEN BranchTarget(s.pc, i.imm) ELSE None
        [] OTHER                 -> None

Trapped(s)   == [regs |-> s.regs, mem |-> s.mem, pc |-> ExcAddr, slot |-> None]
Completed(s) ==
  [regs |-> RegsAfter(s), mem |-> MemAfter(s),
   pc   |-> IF GoesTo(s) = None THEN Follow(s) ELSE GoesTo(s),
   slot |-> IF GoesTo(s) = None THEN None ELSE Plus(s.pc, 4)]

StepOf(s) ==
  IF AtEnd(s) THEN s ELSE IF TrapsIn(s) THEN Trapped(s) ELSE Completed(s)

-----------------------------------------------------------------------------
(***************************************************************************)
(* The programs the pipeline runs as the functional simulator does.  The   *)
(* addresses T are the text of the program, which stays what it is in m.   *)
(* Of what an instruction may not be, most the two simulators are known to *)
(* differ in:                                                              *)
(*   - ll and sc are plain arithmetic to the pipeline, bgtz and blez are   *)
(*     unknown to the functional simulator;                                *)
(*   - a halt word in a delay slot ends only the pipeline's run, a branch  *)
(*     or jump there replaces the one before it in the functional          *)
(*     simulator only;                                                     *)
(*   - handleBranchForwarding gives a branch that compares a register with *)
(*     itself one new and one old value;                                   *)
(*   - an access the memory store refuses, or one across a block, and a    *)
(*     store whose tag is computed wrongly;                                *)
(*   - a branch or jr behind an instruction that overflows: when it stalls *)
(*     pc is not set to the address of the handler.                        *)
(***************************************************************************)

InText(a, T) == {a, a + 1, a + 2, a + 3} \subseteq T

Meant(s, m, T) ==
  LET i == InstrIn(s)
  IN  /\ InText(CurOf(s), T)
      /\ \A a \in T : s.mem[a] = m[a]
      /\ i.op \notin Atomics \union {"bgtz", "blez"}
      /\ s.slot # None => i.op \notin Branches \union Jumps \union {"halt"}
      /\ i.op \in {"beq", "bne"} => i.rs # i.rt \/ i.rs = 0
      /\ i.op \in Loads \union Stores =>
           /\ Backed(PlaceIn(s), Size(i.op))
           /\ DCache!Offset(PlaceIn(s)) + Size(i.op) <= BlockSize
      /\ i.op \in Stores => DCache!StoreTag(PlaceIn(s)) = DCache!Tag(PlaceIn(s))
      /\ OverflowIn(s) =>
           /\ InText(Follow(s), T)
           /\ Code[ReadMem(m, Follow(s), 4)].op \notin Branches \union {"jr"}

\* The states G, of a program that started with memory m and has the text T,
\* lead to states of G only.
Certified(m, T, G) ==
  /\ T \in SUBSET Addr /\ G \in SUBSET RefState
  /\ \A s \in G : Meant(s, m, T) /\ StepOf(s) \in G

\* Texts and states for all memories a first simulation may start with, and for
\* those of A, with which the next ones may: a simulation given up at any
\* moment leaves its registers to the next.
Certifies(T, G, A) ==
  /\ \A m \in Images \union A : Certified(m, T[m], G[m])
  /\ \A m \in Images : Start(m) \in G[m]
  /\ \A m \in Images \union A, n \in A : {StartWith(s.regs, n) : s \in G[m]} \subseteq G[n]

Behaved(A) ==
  \E T \in [Images \union A -> SUBSET Addr], G \in [Images \union A -> SUBSET RefState] :
    Certifies(T, G, A)

\* Straight code: nothing redirects the fetch, and no instruction waits for
\* the one before it.
Straight(s) ==
  LET i == InstrIn(s)
      j == InstrIn(StepOf(s))
  IN  /\ ~ TrapsIn(s) /\ i.op \notin Branches \union Jumps
      /\ i.op \in Loads => i.rt \notin {j.rs, j.rt} \ {0}

RunsStraight(A) ==
  \E T \in [Images \union A -> SUBSET Addr], G \in [Images \union A -> SUBSET RefState] :
    Certifies(T, G, A) /\ \A m \in Images \union A : \A s \in G[m] : Straight(s)

=============================================================================
