------------------------------ MODULE Lockstep ------------------------------
(***************************************************************************)
(* The pipeline and the functional simulator side by side on one program:  *)
(* whenever the pipeline writes an instruction back, the functional        *)
(* simulator runs its next one.  What the two agree on is what it means    *)
(* for the timing simulator to be a simulator of the instruction set.      *)
(***************************************************************************)
EXTENDS Pipeline, FiniteSetsExt

VARIABLES
  rregs, rmem, rpc, rslot,  \* the state of the functional simulator
  rlink, rfailed,
  last,    \* history: when the last instruction was written back,
  after,   \* how long after it the next one is due at the earliest,
  made,    \* and for each register when it was last written by an
  loaded   \* arithmetic instruction or jal, and when by a load

refVars   == <<rregs, rmem, rpc, rslot, rlink, rfailed>>
scoreVars == <<last, after, made, loaded>>
lockVars  == <<vars, refVars, scoreVars>>

Ref == INSTANCE Sequential WITH
         regs <- rregs, mem <- rmem, pc <- rpc, slot <- rslot,
         link <- rlink, failed <- rfailed

-----------------------------------------------------------------------------
(***************************************************************************)
(* The timing a pipeline with full forwarding and branches resolved in the *)
(* decode stage has, told from the instructions the functional simulator   *)
(* runs.  Time does not pass while a data miss is served.                  *)
(***************************************************************************)

Long == 4  \* a time before any that matters

Now == cycle - DCLatency * dStats.misses

\* The instruction the functional simulator is about to run, if any.
Instruction == IF Backed(Ref!Current, 4) THEN Code[Ref!Fetched] ELSE Nop

\* The registers a control transfer needs in the decode stage.
DecodeReads(i) ==
  CASE i.op \in {"beq", "bne"}        -> {i.rs, i.rt}
    [] i.op \in {"jr", "bgtz", "blez"} -> {i.rs}
    [] OTHER                           -> {}

\* When instruction i is due in the write-back stage.
Due(i) ==
  LET used    == {i.rs, i.rt} \ {0}
      decoded == DecodeReads(i) \ {0}
  IN  Max({last + after} \union {loaded[r] + 2 : r \in used}
          \union {made[r] + 2 : r \in decoded}
          \union {loaded[r] + 3 : r \in decoded})

\* The cycles an exception takes from the instruction after it.
Squashes(i) ==
  IF Ref!Illegal(i) THEN 1 ELSE IF Ref!Traps(i) THEN 2 ELSE 0

Score(i) ==
  /\ last'   = Now
  /\ after'  = 1 + Squashes(i)
  /\ made'   = IF i.op \in RAlu \union IAlu \union {"jal"} /\ ~ Ref!Traps(i)
               THEN [made EXCEPT ![Dest(i)] = Now] ELSE made
  /\ loaded' = IF i.op \in Loads THEN [loaded EXCEPT ![i.rt] = Now] ELSE loaded

-----------------------------------------------------------------------------
LockInit ==
  /\ Init /\ Ref!Init
  /\ rmem = mem
  /\ last = 3 /\ after = 1
  /\ made = [r \in Reg |-> - Long] /\ loaded = made

\* A cycle that writes an instruction back.  The two part company when the
\* memory store refuses an access: that ends the functional simulator.
Retiring == memwb.at # None /\ memwb.op # "halt" /\ ~ Ref!AtHalt /\ ~ rfailed

Retire == Cycle /\ Retiring /\ Ref!Next /\ Score(Instruction)
Other  == (Freeze \/ (Cycle /\ ~ Retiring)) /\ UNCHANGED <<refVars, scoreVars>>

LockCycle == Retire \/ Other

LockNext == ~ halted /\ cycle < MaxCycle /\ LockCycle

LockSpec == LockInit /\ [][LockNext]_lockVars

-----------------------------------------------------------------------------
(***************************************************************************)
(* What a miss in the instruction cache does not go together with.  The    *)
(* cycle of the miss empties the IF/ID latch and leaves pc as it is:       *)
(*   1. decode stalls, or the data cache misses too: the instruction that  *)
(*      is to be decoded again is lost;                                    *)
(*   2. decode or execute redirects the fetch: where to is forgotten;      *)
(*   3. the bytes that are there, or were never written, read as the halt  *)
(*      word: nothing is fetched any more.                                 *)
(* And while the fetch is waited for                                       *)
(*   4. a handler that starts with the word fetched last is entered: that  *)
(*      word is fetched at once, and again in every cycle.                 *)
(* Where there are misses, a word in two blocks is not trusted either:     *)
(*   5. with its second block there and its first on its way, bytes that   *)
(*      were never written are fetched.                                    *)
(***************************************************************************)

Loses(f, d, delay) ==
  \/ /\ f.stall
     /\ \/ ifid.at # None /\ (d.stall \/ delay # 0 \/ d.target # None)
        \/ ExOverflow(Operands)
        \/ f.word = HaltWord
  \/ f.wait > 0 /\ f.at # None

Split == ICLatency > 0 /\ ICache!Offset(pc) + 4 > BlockSize

Clash ==
  /\ memHalt <= 1
  /\ \/ Split
     \/ \E u \in Junk :
          LET f == Fetch(u)
          IN  Loses(f, Decode(WriteBack(memwb)), MemAccess(Accessing, f.mem, u).delay)

\* Runs in which it never does.  When the instruction cache answers at once
\* these are all runs.
ClearSpec == LockInit /\ [][LockNext /\ ~ Clash]_lockVars

-----------------------------------------------------------------------------
(***************************************************************************)
(* Properties.                                                             *)
(***************************************************************************)

\* The pipeline writes back exactly the instructions of the program, in
\* order: none is dropped by a stall, run twice, or let through a squash, and
\* every branch, jump and exception goes where the architecture says.
InOrder == memwb.at # None /\ ~ halted /\ ~ rfailed => memwb.at = Ref!Current

\* After every instruction the registers are what they are after it in the
\* functional simulator: forwarding never delivers a stale or a foreign value.
RegsAgree == rfailed \/ regs = rregs

\* A store is between its cache access and its write-back.
StoreInFlight == memwb.op \in Stores \/ (exmem.op \in Stores /\ memHalt > 0)

\* Through the data cache memory is that of the functional simulator, unless
\* a store is in flight.
MemAgrees == rfailed \/ StoreInFlight \/ DCache!View(dLines, mem) = rmem

\* When the pipeline halts the functional simulator has reached the halt word
\* too, and the final dump of both would be the same.
HaltAgrees ==
  halted /\ ~ rfailed =>
    /\ Ref!AtHalt
    /\ regs = rregs
    /\ DCache!Drain(dLines, ICache!Drain(iLines, mem)) = rmem

\* With a perfect instruction cache every instruction is written back in the
\* very cycle it is due: no stall is missing, none is superfluous, and a data
\* miss costs its latency once.
OnTime ==
  ~ halted /\ ~ rfailed =>
    IF memwb.at # None THEN Now = Due(Instruction) ELSE Now < Due(Instruction)

=============================================================================
