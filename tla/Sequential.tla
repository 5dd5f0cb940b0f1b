----------------------------- MODULE Sequential -----------------------------
(***************************************************************************)
(* The functional simulator (project1_sim.cpp): one instruction after the  *)
(* other, each with its effect complete before the next is fetched.        *)
(*                                                                         *)
(* A taken branch or jump runs the instruction of its delay slot before it *)
(* returns; the call is a step of its own here, in the variable slot.  The *)
(* flag and address of a load-linked are one variable, link.               *)
(***************************************************************************)
EXTENDS Mips

CONSTANT None

ASSUME NoneAssumption == None \notin Word

VARIABLES
  regs,   \* the registers
  mem,    \* the bytes of the memory store
  pc,     \* progCounter
  slot,   \* the delay slot still to be run, or None
  link,   \* ll_sc_addr while ll_sc_flag is set, otherwise None
  failed  \* the memory store refused an access, which ends the program

vars == <<regs, mem, pc, slot, link, failed>>

Init ==
  /\ regs = [r \in Reg |-> 0]
  /\ pc = 0 /\ slot = None /\ link = None /\ failed = FALSE

-----------------------------------------------------------------------------
(***************************************************************************)
(* Effects of the instruction i on registers, memory and link.             *)
(***************************************************************************)

SetReg_zero(r, v) == regs' = [regs EXCEPT ![r] = v]
SetReg(r, v) == regs' = IF r = 0 THEN regs ELSE [regs EXCEPT ![r] = v]

\* The opcodes this simulator knows, and the exceptions.
Illegal(i) == i.op \in {"illegal", "badFunct", "halt", "bgtz", "blez"}
Traps(i)   == Illegal(i) \/ Overflows(i.op, regs[i.rs], regs[i.rt], i.imm)

\* The address of a load or store, and the word a linked instruction means.
Place(i) == DataAddr(regs[i.rs], i.imm)

Arithmetic(i) ==
  /\ i.op \in RAlu \union IAlu
  /\ SetReg(IF i.op \in RAlu THEN i.rd ELSE i.rt,
            Alu(i.op, regs[i.rs], regs[i.rt], i.imm))
  /\ UNCHANGED <<mem, link>>

\* A load-linked sets the link before it knows whether the load is refused.
Links(i) == link' = IF i.op = "ll" THEN Place(i) ELSE link

Load(i) ==
  /\ i.op \in Loads \union {"ll"}
  /\ SetReg(i.rt, ReadMem(mem, Place(i), Size(i.op)))
  /\ Links(i)
  /\ UNCHANGED mem

\* Overlaps that only the first or only the last byte of a store can have.
Overlaps_start(a, n) == link # None /\ a - link \in 0 .. 3
Overlaps_word(a, n)  == link = a
Overlaps_next(a, n)  == link # None /\ a <= link + 4 /\ a + n >= link

\* checkLLSCOverlap: the store of n bytes at a touches the linked word.
Overlaps(a, n) ==
  link # None /\ \/ a >= link /\ a < link + 4
                 \/ a + n > link /\ a + n <= link + 4

\* A store to the linked word breaks the link, refused or not.
Breaks(i) == link' = IF Overlaps(Place(i), Size(i.op)) THEN None ELSE link

Store(i) ==
  /\ i.op \in Stores
  /\ mem' = WriteMem(mem, Place(i), regs[i.rt], Size(i.op))
  /\ Breaks(i)
  /\ UNCHANGED regs

\* A store-conditional to any address while some link stands.
StoreConditional_any(i) ==
  /\ i.op = "sc"
  /\ mem' = IF link # None THEN WriteMem(mem, Place(i), regs[i.rt], 4) ELSE mem
  /\ SetReg(i.rt, IF link # None THEN 1 ELSE 0)
  /\ link' = None

\* What it stores to was linked by a load that was not refused.
StoreConditional(i) ==
  /\ i.op = "sc"
  /\ mem' = IF link = Place(i) THEN WriteMem(mem, link, regs[i.rt], 4) ELSE mem
  /\ SetReg(i.rt, IF link = Place(i) THEN 1 ELSE 0)
  /\ link' = None

\* Where an instruction goes other than to the next one, or None.
Target(i) ==
  CASE i.op = "jr"           -> regs[i.rs]
    [] i.op \in {"j", "jal"} -> JumpTarget(pc, i.imm)
    [] i.op = "beq"          -> IF regs[i.rs] = regs[i.rt]
                                THEN BranchTarget(pc, i.imm) ELSE None
    [] i.op = "bne"          -> IF regs[i.rs] # regs[i.rt]
                                THEN BranchTarget(pc, i.imm) ELSE None
    [] OTHER                 -> None

Control(i) ==
  /\ i.op \in Jumps \union {"beq", "bne"}
  /\ IF i.op = "jal" THEN SetReg(LinkReg, Plus(pc, 8)) ELSE UNCHANGED regs
  /\ UNCHANGED <<mem, link>>

Effect(i) == Arithmetic(i) \/ Load(i) \/ Store(i) \/ StoreConditional(i) \/ Control(i)

-----------------------------------------------------------------------------
(***************************************************************************)
(* Steps.  next is where a plain instruction leaves the program counter.   *)
(***************************************************************************)

\* An exception that leaves the link as it is.
Trap_keeps ==
  /\ pc' = ExcAddr /\ slot' = None
  /\ UNCHANGED <<regs, mem, link, failed>>

\* An exception in a delay slot goes to the handler from the jump's target.
Trap ==
  /\ pc' = ExcAddr /\ slot' = None /\ link' = None
  /\ UNCHANGED <<regs, mem, failed>>

\* The store refuses the access of i: neither registers nor memory change, and
\* runInstruction of the instruction, or of the jump it is the delay slot of,
\* still adds 4 to the program counter.
Refused(i) == i.op \in Loads \union Stores \union {"ll"} /\ ~ Backed(Place(i), Size(i.op))
Fail ==
  /\ pc' = Plus(pc, 4) /\ slot' = None /\ failed' = TRUE
  /\ UNCHANGED <<regs, mem>>
Refuse(i) == (IF i.op \in Stores THEN Breaks(i) ELSE Links(i)) /\ Fail

Run(i, next) ==
  IF Traps(i) THEN Trap
  ELSE IF Refused(i) THEN Refuse(i)
  ELSE /\ Effect(i)
       /\ IF Target(i) = None THEN pc' = next /\ slot' = None
          ELSE pc' = Target(i) /\ slot' = Plus(pc, 4)
       /\ UNCHANGED failed

\* The address of the instruction the next step runs, and its word.
Current == IF slot = None THEN pc ELSE slot
Fetched == ReadMem(mem, Current, 4)

AtHalt == slot = None /\ Backed(pc, 4) /\ Fetched = HaltWord

\* The instruction at the program counter, in runProgram's loop.
RunInstruction ==
  /\ slot = None /\ ~ failed
  /\ Backed(pc, 4) /\ Fetched # HaltWord
  /\ Run(Code[Fetched], Plus(pc, 4))

\* The delay slot of the jump just made; it leaves the program counter alone.
RunDelayInstruction ==
  /\ slot # None /\ Backed(slot, 4)
  /\ Run(Code[Fetched], pc)

\* An instruction that cannot be fetched ends the program too: in the loop the
\* program counter stays, after a jump it is the target and 4.
FailedFetch ==
  /\ ~ failed /\ ~ Backed(Current, 4)
  /\ IF slot = None THEN failed' = TRUE /\ UNCHANGED <<regs, mem, pc, slot>> ELSE Fail
  /\ UNCHANGED link

Next == RunInstruction \/ RunDelayInstruction \/ FailedFetch

\* The values the variables take; register 0 stays zero.
TypeOK ==
  /\ regs \in [Reg -> Word] /\ regs[0] = 0
  /\ mem \in [Addr -> Byte]
  /\ pc \in Word /\ slot \in Word \union {None} /\ link \in Word \union {None}
  /\ failed \in BOOLEAN

=============================================================================
