------------------------------- MODULE Driver -------------------------------
(***************************************************************************)
(* The interface the simulator offers to a driver: initSimulator,          *)
(* runCycles, runTillHalt and finalizeSimulator, called in any order that  *)
(* starts a simulation before it runs it and uses nothing after it has     *)
(* been finalized.  Every program the simulator is started with also runs  *)
(* on the functional simulator, as in Lockstep.                            *)
(***************************************************************************)
EXTENDS Lockstep

CONSTANTS
  Batches,   \* the arguments of runCycles
  TillHalt,  \* stands for the cycles runTillHalt is still going to run
  Again,     \* the memories a second simulation may be started with
  MaxCalls,  \* bound on the calls of runCycles and runTillHalt
  MaxRuns    \* bound on the simulations of one process

ASSUME DriverAssumption ==
  /\ Batches \subseteq Nat /\ TillHalt \notin Nat /\ Again \subseteq [Addr -> Byte]
  /\ MaxCalls \in Nat /\ MaxRuns \in Nat

VARIABLES
  left,   \* cycles the call in progress may still run, 0 when there is none
  up,     \* FALSE between finalizeSimulator and the next initSimulator
  calls,  \* how often runCycles and runTillHalt have been called
  runs,   \* how often initSimulator has been called
  late    \* history: the cycles of this simulation since it halted

driverState == <<left, up, calls, runs, late>>
driverVars  == <<lockVars, driverState>>

DriverInit ==
  /\ LockInit
  /\ left = 0 /\ up = TRUE /\ calls = 0 /\ runs = 1 /\ late = 0

-----------------------------------------------------------------------------
(***************************************************************************)
(* Running.  A call starts with a status of its own, NOT_HALTED, whatever  *)
(* the status of the simulator is; after each of its cycles it has the     *)
(* simulator's.                                                            *)
(***************************************************************************)

Call(n) ==
  /\ up /\ left = 0 /\ calls < MaxCalls
  /\ left' = n
  /\ calls' = calls + 1
  /\ UNCHANGED <<lockVars, up, runs, late>>

RunCycles   == \E n \in Batches : Call(n)
RunTillHalt == Call(TillHalt)

\* The cycles a call has left after one of them.
Remaining == IF halted' THEN 0 ELSE IF left = TillHalt THEN left ELSE left - 1

\* One turn of the loop of a call.
CallCycle ==
  /\ left # 0 /\ cycle < MaxCycle
  /\ LockCycle
  /\ left' = Remaining
  /\ late' = IF halted THEN late + 1 ELSE late
  /\ UNCHANGED <<up, calls, runs>>

-----------------------------------------------------------------------------
(***************************************************************************)
(* The end and the beginning of a simulation.                              *)
(***************************************************************************)

\* Draining the data cache before the instruction cache makes no difference,
\* draining only the instruction cache does.
Drained_i == ICache!Drain(iLines, mem)
Drained   == DCache!Drain(dLines, ICache!Drain(iLines, mem))

FinalizeSimulator ==
  /\ up /\ left = 0
  /\ up' = FALSE
  /\ mem' = Drained
  /\ UNCHANGED <<regs, iLines, iStats, dLines, dStats, fetchVars, latchVars, memHalt,
                 cycle, halted, refVars, scoreVars, left, calls, runs, late>>

\* What a new simulation knows of the last fetch.
ForgetFetch_keeps == UNCHANGED <<lastPc, lastWord>>
ForgetFetch       == lastPc' = None /\ lastWord' = 0

ForgetHalt_keeps == UNCHANGED haltSeen /\ fetchHalt' = 0 /\ memHalt' = 0
ForgetHalt       == haltSeen' = FALSE /\ fetchHalt' = 0 /\ memHalt' = 0

\* All but the registers starts anew.
InitSimulator ==
  /\ ~ up /\ runs < MaxRuns
  /\ up' = TRUE /\ runs' = runs + 1 /\ late' = 0
  /\ mem' \in Again
  /\ iLines' = ICache!EmptyLines /\ dLines' = DCache!EmptyLines
  /\ iStats' = [hits |-> 0, misses |-> 0] /\ dStats' = iStats'
  /\ pc' = 0 /\ ifid' = EmptyFetch
  /\ idex' = Bubble /\ exmem' = Bubble /\ memwb' = Bubble
  /\ ForgetHalt /\ ForgetFetch
  /\ cycle' = 0 /\ halted' = FALSE
  /\ UNCHANGED <<regs, left, calls>>

\* The functional simulator starts with the registers the simulator has.
RestartReference ==
  /\ rregs' = regs /\ rmem' = mem'
  /\ rpc' = 0 /\ rslot' = None /\ rlink' = None /\ rfailed' = FALSE
  /\ last' = 3 /\ after' = 1
  /\ made' = [r \in Reg |-> - Long] /\ loaded' = made'

Restart == InitSimulator /\ RestartReference

-----------------------------------------------------------------------------
DriverNext ==
  RunCycles \/ RunTillHalt \/ CallCycle \/ FinalizeSimulator \/ Restart

DriverSpec == DriverInit /\ [][DriverNext]_driverVars

\* Calls without a clash of misses.
ClearDriver == DriverInit /\ [][DriverNext /\ (CallCycle => ~ Clash)]_driverVars

\* The loops of runCycles and runTillHalt go on until they are done.  Every
\* CallCycle is a tick of the clock, and nothing else is.
Tick == left # 0 /\ cycle < MaxCycle /\ cycle' = cycle + 1
FairDriverSpec == DriverSpec /\ WF_cycle(Tick)

-----------------------------------------------------------------------------
(***************************************************************************)
(* Properties.                                                             *)
(***************************************************************************)

\* The bytes the store in the last two stages is writing.
InFlight ==
  LET s == IF memwb.op \in Stores THEN memwb ELSE exmem
  IN  IF StoreInFlight
      THEN LET a == DataAddr(s.rsValue, s.imm) IN a .. a + Size(s.op) - 1
      ELSE {}

\* Whenever the driver stops, also in the middle of a miss, and however it cut
\* the run into calls, the registers and the memory finalizeSimulator dumps are
\* those of the functional simulator after the instructions written back, but
\* for the bytes of a store that is on its way.  That holds for a second
\* simulation whatever state the first was abandoned in.
FinalState ==
  ~ up /\ ~ rfailed =>
    /\ regs = rregs
    /\ \A a \in Addr : mem[a] = rmem[a] \/ a \in InFlight

\* A cycle after the halt, which runCycles and runTillHalt both run when they
\* are called once more, changes no register, no cache, no counter of hits and
\* misses: nothing of what finalizeSimulator prints but the cycles.
QuietAfterHalt ==
  [][halted /\ CallCycle => UNCHANGED <<regs, cacheVars, refVars>>]_driverVars

\* The cycles finalizeSimulator prints, for straight code: one for each
\* instruction, five for the halt word to go through the stages, the latency of
\* each instruction miss, that of each data miss as far as it is not spent
\* waiting for an instruction anyway, and one for each call that came after the
\* halt.  Where the calls before the halt were cut makes no difference to them,
\* nor to the hits and misses of the instruction cache.
ClockAtHalt ==
  halted /\ ~ rfailed =>
    LET least == (rpc \div 4) + 5 + ICLatency * iStats.misses
    IN  /\ cycle - late \in least .. least + DCLatency * dStats.misses
        /\ iStats.hits + iStats.misses = (rpc \div 4) + 1

\* runTillHalt returns.
TillHaltReturns == left = TillHalt ~> left = 0

=============================================================================
