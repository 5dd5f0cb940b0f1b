# A verification of the MIPS timing simulator

The repository holds two simulators of one instruction set. `src/src/cycle_sim.cpp` is a
*timing* simulator: a five-stage pipeline with forwarding, an instruction cache and a data
cache, which reports cycles, hits and misses. `src/src/project1_sim.cpp` is a *functional*
simulator, which runs one instruction after the other. This directory states what the
first promises - to compute what the second computes, in the cycles a pipeline with full
forwarding takes, over caches that behave as memory, however a driver calls it - and
checks it: TLC on small instances, TLAPS for every value of the constants where that is in
reach.

## 1. The system

| part | state | operations | correct means |
|---|---|---|---|
| class `Cache` (cycle_sim.cpp:20-271) | blocks with valid, dirty, tag, recency, `cycleReady`; hits, misses | `getCacheValue`, `setCacheValue` (byte by byte: hit, pending, miss with write-back and fill), `updateLRU`, `drain` | reads return what was written last; no block twice; a dirty block is never dropped; a drain loses nothing; counters add up |
| memory stage (`handleMem`, `memHaltCycles`) | the request in EX/MEM, the count of the freeze | try, freeze on a miss, try again | every request is answered, once, after exactly the latency of a miss |
| pipeline (`runCycle`) | pc, four latches, `haltSeen`, `fetchHaltCycles`, last fetch, registers | one call per cycle: write-back, fetch, decode, execute, memory, then the latches | the instructions of the program are completed in order, with right operands, at the right time; exceptions squash what follows and nothing else |
| driver interface (`initSimulator`, `runCycles`, `runTillHalt`, `finalizeSimulator`) | the status of a call, `pipeState.cycle`, everything above | start, run, drain and dump, start again | the dump is the state of the program, and how the run was cut into calls does not show in it |
| instruction set (decoding, `doAddSub`, `handleRInstEx`, `handleImmInstEx`) | none | arithmetic, overflow, addresses | the overflow test is exact |
| functional simulator (`project1_sim.cpp`) | registers, memory, pc, `ll_sc_flag` and address | `runInstruction`, `runDelayInstruction`, exceptions | a store-conditional succeeds only on an untouched word |
| earlier cache (`cache_sim.cpp`, `cache_sim.h`) | as class `Cache` | the same; `updateLRU` never ages a block | answers as class `Cache` does, whatever it replaces |
| `MemoryStore` and output (`UtilityFunctions.o`) | bytes of memory | object code, no source | external |

The parts interact by calls and shared state inside one `runCycle`: decode and execute
redirect the fetch by the local `nextPc`, three local flags (`stallIf`, `stallId`,
`stallMem`) decide which latches move, and the caches answer with a delay that freezes one
end of the pipeline or all of it. There are no threads. What is hard is that five stages
act on different instructions in one call, so that every pair of stages has to agree about
stalls, squashes and values in flight; and that a miss is *tried again* later, so that
counters, freezes and half-written stores span several calls, between any two of which the
driver may stop. The list `hazards` of `PROJECT.json` names these places line by line.

## 2. The modules

* `Cache` - the cache as operators on a record (blocks, memory, counters), in both versions
  (`Ages`). An access of several bytes is the composition of byte lookups, as in the code.
  `Drain`, `View` (memory seen through the cache) and the invariants of the blocks are here
  too. The tag of the store path is `StoreTag`, which the code computes without the
  address: it is always 0. Bytes of a block that memory does not back keep what an
  uninitialised variable held (`ReadBlock`).
* `FlatMemory` - the abstract specification: an array of bytes, requests answered one at a
  time. The first byte of a pending store may become visible early, because a store miss
  writes it.
* `BlockingPort` - the data cache behind the memory stage, for *arbitrary* requests.
  `Access` tries the request in EX/MEM; on a delay the count of `memHaltCycles` starts,
  `Wait` is a cycle of the freeze, `Idle` one without a memory instruction, `Finalize` is
  the driver's drain, possible between any two cycles. `Supported` names the two things the
  code does not handle: a store to a block of another tag than 0, and a request that lies
  in two blocks. A value the code leaves uninitialised, and the meta data it reads past the
  end of a set, are chosen from sets (`u` and `Garbage`); the bytes one access leaves
  uninitialised all have one value. `MCBlockingPort` has the instances.
* `EarlierCache` - the two versions of the cache side by side under the same accesses, each
  repeated after its delay. `MCEarlierCache` has the instance.
* `Mips` - the instruction set. Memory is a function from addresses to bytes, a word is four
  of them; the bit fields of an instruction are the table `Code` from words to decoded
  instructions; the sizes of a byte, a word, an immediate are constants.
* `Sequential` - the functional simulator; a delay slot is a step of its own (`slot`). An
  access that memory does not back ends the program (`failed`).
* `LinkedLoads` - `Sequential` with a history of the word reserved by a load-linked.
  `MCLinkedLoads` has the instance.
* `Pipeline` - `runCycle`: `Freeze` is its early return, `Cycle` all five stages. The stages
  are operators on the state at the start of the cycle (`WriteBack`, `Fetch`, `Decode`,
  `Execute`, `MemAccess`), combined in the order of the code. Both caches are instances of
  `Cache`. The field `at` of the latches is history: the address an instruction came from.
* `Lockstep` - `Pipeline` and `Sequential` on one program: a cycle that writes an instruction
  back is a step of the functional simulator. It also keeps the times at which registers
  were written, and computes from the functional simulator alone when each instruction is
  due (`Due`). `Clash` names, cycle by cycle, what a miss of the instruction cache must not
  come together with; `ClearSpec` are the runs in which it never does. `MCLockstep` has the
  instances: all programs of four instructions over an alphabet.
* `Driver` - the four functions of the interface in any order a driver may call them:
  `RunCycles` with any count, also 0, `RunTillHalt`, one `CallCycle` per turn of their loops,
  `FinalizeSimulator` between any two calls, and `Restart`: `initSimulator` once more in the
  same process, which resets everything but the registers, together with a new run of the
  functional simulator from those registers. `ClearDriver` has the runs without a clash.
  `MCDriver` has the instance.
* `Programs` - the functional simulator once more, as a function `StepOf` from states to
  states, the programs the two simulators give one meaning to (`Meant`, `Certified`,
  `Behaved`), and the straight ones among them (`RunsStraight`): what the theorems about the
  pipeline ask of a program. `MCLockstep` extends
  it and has TLC evaluate, for every instruction of each alphabet, that some program
  that is certified runs it (`EachIsMeant`); `MCDriver`, that all its programs behave, from
  whatever registers one simulation leaves to the next, and are straight (`AllBehave`).
* `CacheProofs`, `BlockingPortProofs`, `EarlierCacheProofs`, `MipsProofs`,
  `LinkedLoadsProofs`, `PipelineProofs`, `LockstepProofs`, `TimingProofs` - the theorems.

Operators named `F_x` next to `F` (such as `Count_retry`) are `F` with a mistake in it; no
module uses them. They record, for each property of each run, a mistake that the property
reveals: with `F_x` in the place of `F` TLC finds the property violated.

## 3. What the runs show

| run | instance | what it shows |
|---|---|---|
| `port_dm` | direct-mapped, two blocks of two bytes over seven bytes, latency 2; loads of 1 byte everywhere and of 2 bytes in every other block, stores to both blocks of tag 0 | types; clean blocks agree with memory, also in the block memory ends in; a victim that exists; exact statistics; the freeze ends when the block is there; a miss costs its latency once; the drain keeps what the program saw; the port implements flat memory |
| `port_twoway` | one two-way set over three blocks | no block twice, the block used last survives, the drain and flat memory again; every miss is served in the end |
| `earlier_cache` | one two-way set of both versions over four blocks, the last one backed in part, up to six accesses | the same bytes and the same drained memory although the two replace different blocks; the sum of their counters |
| `lock_hazards` | all programs over 13 instructions and nop - arithmetic, loads and stores of every size, branches, jumps, with every dependence - and all over 11 others and nop: overflows, illegal opcodes and function codes, jumps, a handler that stores | order, registers, memory, the final state, and the exact cycle of every instruction |
| `lock_fetches` | all programs over 10 instructions - arithmetic, overflows, illegal words, loads, stores, branches, jumps - with an instruction cache of one block, a two-way data cache and misses in both, as long as they meet no `Clash` (`ClearSpec`) | order, registers, memory and the final state also across instruction misses: what they must not meet is what `Clash` says, and no more |
| `driver` | straight code of 4 instructions, instruction and data misses, up to three calls of `runCycles(0, 3 or 4)` or `runTillHalt` per process, up to two simulations | order, registers and final state however the run is cut; the hits and misses of the instruction cache, and the cycles: exactly, but for instruction and data misses waited for at the same time, where they are bounded from both sides; cycles after the halt change nothing; a second simulation is as good as the first; `runTillHalt` returns |
| `linked_loads` | all programs of four of 14 instructions in the functional simulator, with unaligned accesses and a loop | the link of a load-linked stands only while its word is untouched, and ends exactly at an exception, a store into the word or a store-conditional, whether that succeeds or not; success is atomic |
| `port_store_tag`, `port_crossing` | `port_dm` over eight bytes with stores to every block; with loads that lie in two blocks | violated, see below |
| `earlier_lru` | `port_twoway` with the `updateLRU` of the earlier version (`Ages = FALSE`) | violated, see below |
| `lock_jump_miss`, `lock_self_branch` | two instructions each | violated, see below |

**Bounds.** In the port runs `MaxCycle` is 9 (direct-mapped) and 8 (two-way): no new request
is taken from then on, but what is pending is finished. A miss takes 3 cycles, so that
there is time for a store miss, the eviction of the block and the miss that brings it back.
Counters wrap at 8, so that the decrement below zero happens at once. In `earlier_cache` six
accesses (`MaxCalls`) fill the set, let the versions replace different blocks and read what
was evicted. In the lockstep runs `MaxCycle` (24; 40 with instruction misses) is more than any
loop-free program of the instance takes; loops are cut there. Four instructions are enough
for every pair of distances that forwarding and stalls look at (two latches), together with
a consumer and a delay slot. `Junk` has a byte the halt word is made of and one
it is not. Words 5 to 7 hold data and are the targets of the
stores; their blocks compete with those of the words the program loads from. Memory
(`MemSize`) ends one byte short of a block, as 0xffff bytes do in the code. In `driver`
blocks have four words, so that the halt word is the first of the second one; the calls
(`MaxCalls`, `Batches`) can cut a run in the middle of either miss and go on after the halt,
and two simulations (`MaxRuns`) are enough for one to inherit what the other left.

**Fairness.** `port_twoway` assumes weak fairness of the cycles: the driver's loops call
`runCycle` again and again. A run that ends by `Finalize` is excused from serving the
request in flight. `driver` assumes it of the loops of `runCycles` and `runTillHalt`, stated
as `WF_cycle(Tick)`: a `CallCycle` is exactly a step that ticks the clock, and `Tick` is
enabled whenever a call has cycles left, which is when the loop of the code goes on. Nothing
is assumed of which function the driver calls next. Deadlock is not checked because the
simulator stops: after the last `finalizeSimulator`, at the halt, or at the bound.

**Disagreements.** Each of these runs checks one property and finds it violated by what the
code does; `findings` in `PROJECT.json` has the lines.
1. `port_store_tag`: stores to a block whose tag is not 0 go to the block of tag 0.
2. `port_crossing`: of an access that lies in two blocks only the delay of the last byte is
   reported, so that a load may be answered while its first block is still being fetched.
3. `lock_jump_miss`: a jump in decode is lost when the fetch of its delay slot misses.
4. `lock_self_branch`: a branch on one register twice gets its new value once.
5. `earlier_lru`: the earlier version of the cache, put behind the same port, does not
   replace the least recently used block of a two-way set (`RecentSurvives`, which
   `port_twoway` shows of the later one). Its `updateLRU` compares the recency of a way with
   itself, so nothing ages. What a program reads does not depend on it: `earlier_cache`.

One more has no run of its own. Where `ll_sc_flag` is set, `project1_sim.cpp:391` says that it
is cleared "on any exception or when the SC succeeds", or by a store into the word. `OP_SC`
clears it when it fails as well (line 431): an `sc` to another address ends the link.
`LinkLasts` states what the code does.

The two assignments behind 3 explain more. The cycle in which a fetch misses empties IF/ID
(line 1207) and leaves `pc` as it is (line 1198), so that an instruction in decode is lost too
when it is held back in that cycle, by a load - of two loads of one register the second
disappears when the word behind it misses - or by a data miss, and so is the address of the
handler when the instruction in execute overflows or the one in decode traps. The exception
address of an overflow is lost as well when a branch in decode waits for the result, because
`pc` is not assigned in that cycle either. Two more cases have to do with the bytes of a
fetch that is not over: if they read as the halt word nothing is fetched any more (out of
reach of the instances, where the bytes that nothing was written to have one value), and if
the fetch lies in two blocks it is answered before its first one is there (as in 2). And
while a fetch is waited for, a handler whose first word is the one fetched last is fetched
again in every cycle.
`Clash` in `Lockstep` lists these cases. Of its five clauses the first, second and fifth are
needed for the order of the instructions: without any part of them that `lock_fetches` can
reach TLC finds `InOrder` violated. The third and the fourth keep the pipeline from standing
still or from running one word several times.

The passing lockstep runs therefore leave these combinations out: in `driver` instruction
misses are combined with code that neither stalls nor jumps, and not with a data miss in one
cycle (`MCDriven`), and in `lock_fetches` with everything that is no `Clash`; no branch compares a register with itself, no branch waits for an instruction
that overflows, stores go to tag 0 and to data, no access crosses a block. Besides, `bgtz`
and `blez` (illegal in the functional simulator), `ll` and `sc` (without effect in the
pipeline), control transfers and the halt word in delay slots and self-modifying code have no
common meaning in the two simulators and are left out.

`ForwardMem` (`handleMemForwarding`) is modelled but no property depends on it: the
stall behind a load and the forwarding into execute already deliver every value it could.

## 4. What is proved

The theorems hold for every geometry, latency, counter width, word size, memory size, set
of requests, table of instructions and program, from the assumptions on the constants
(`CacheAssumption`, `PortAssumption`, `EarlierAssumption`, `MipsAssumption`,
`PipelineAssumption`, `DriverAssumption`, `NoneAssumption`, `ImagesAssumption`), which TLC
evaluates on each instance. Those of the port also assume `Supported`: stores go to blocks
of tag 0 and requests lie in one block; `port_store_tag` and `port_crossing` show that they
are false without it. Those of `PipelineProofs` assume nothing of the program: they hold
also for programs that fall into the disagreements of section 3. Those of `LockstepProofs`
and `TimingProofs` are about the programs and the runs that do not.

**The cache.** `CacheProofs` proves what one access does, along the structure of the code:
address fields name a byte (`AddressFields`, `InBlock`); a miss with its write-back and fill
keeps the view of memory (`MissKeeps`); a byte read or write keeps the blocks coherent
(`GetByteKeeps`, `SetByteKeeps`); an access of several bytes returns the bytes of the view
or changes exactly those (`GetValueKeeps`, `SetValueKeeps`); the drain makes memory equal
to the view (`DrainView`). A further section is about accesses of any kind, also to two
blocks, to another tag, past the end of memory or before a miss is over (`ReadAny`,
`WriteAny`): they keep the types, one copy of each block and the agreement of clean blocks
with memory, a read keeps the view, and a cache that is only read never has anything to
write back. The last part is about what an access does to time and recency: the block
it works on is cached afterwards, is the most recent one of its set, and is ready when the
delay it reports is over (`GetValueWorks`, `SetValueWorks`); and that an access repeated
after its delay is answered (`CallServed`).

**The port.** `BlockingPortProofs` proves that `PortInv` is inductive. The safety properties
are not inductive one by one: that a clean block agrees with memory is kept by a miss only
if no block is cached twice, and the write of a pending store, whose block the retry must
find again, needs the bound on `cycleReady` (`ReadyBound`), which says that no block is ready
later than the freeze lasts. From `PortInv` follow the types (`PortTypes`), coherence
(`PortUnique`, `PortCoherent`), the existence of the victim (`PortVictim`), exact
statistics (`PortStats`), the drain (`PortDrain`) and the refinement (`PortIsFlat`): every
step of the port is a step of `FlatMemory`, or leaves it unchanged, under the mapping
`store <- View(lines, mem)`, `pending <- req`. Its second part is about time. `TimeInv` says
that the freeze of a request that missed ends exactly when its latency is over, and that
its block stays cached until then (nothing else is accessed in between); so the block is
there and ready when the request is tried again (`PortThaw`), no request is ever answered
as pending, and one that missed is answered exactly the latency after the miss
(`PortMissCost`). `Newest` says that the block a set used last is its only most recent one,
from which the victim of a miss is another (`PortRecent`, for the version that ages blocks).

**The two versions of the cache.** `EarlierCacheProofs` proves the properties of
`EarlierCache`: the two versions answer alike (`VersionsAnswerAlike`), drain to the same
memory (`VersionsDrainAlike`) and count the same total (`VersionsCountAlike`). `EarlierInv`
relates them through what is seen, not through what is cached: the blocks and recencies of the two differ, the view does not.
A hit may be counted where the other version counts a miss, which takes one from the hits
first, so the totals agree modulo the width of the counters only (`Balanced`).

**The instruction set.** `MipsProofs` proves that the sign tests of `doAddSub` are exact, for
words of every width: they report an overflow if and only if the sum or difference of the
numbers the words stand for is not the number of any word. It also has the lemmas that
results, addresses and targets are words.

**The functional simulator.** `LinkedLoadsProofs` proves its types (`LinkTypes`) and what it
promises of a load-linked (`LinkStands`, `LinkEnds`, `ConditionalAtomic`). The comparisons
of `checkLLSCOverlap` are exact for the sizes stores have (`OverlapExact`), so that a link
ends by the stores that touch its word and by no others (`EffectEnds`), and a store
that leaves the link standing misses every byte of the word and reading it again gives
what it gave (`StoreElsewhere`). `LinkInv` adds to the properties that the linked word is
backed - a refused load-linked does set the link, but ends the program - and that a
program that failed has no delay slot left to run. That the word a successful
store-conditional writes can be read again rests on a lemma of its own: the bytes of a
word, taken apart by division, make the word (`WordOfBytes`).

**The pipeline and the driver.** `PipelineProofs` proves, of every program:
* the types (`PipelineTypes`, `LockTypes`, `DriverTypes`). `PipeInv` adds that an instruction
  in ID/EX that shifts does so by less than a word, without which the result would not be
  one, that the instruction cache is never dirty, and that the data cache is coherent.
* `HaltIsQuiet`: cycles after the halt change neither registers nor caches (`QuietAfterHalt`).
  `HaltInv` follows the halt word through the stages: once it is in ID/EX the fetch has seen
  it (`haltSeen`) and would fetch no other word, and every stage behind it holds a bubble or
  another halt word. For a halt word in IF/ID this is false: an instruction in front of it
  that overflows during a data miss resets `haltSeen` in every cycle that tries it, while the
  squash of the halt word waits until the miss is over. `Doomed` excludes that case, and the
  proof shows that it lasts: the operands of the instruction are forwarded anew in each of
  those cycles, from the same latch, to the same values (`SameOperands`).
* `DumpShowsView`: the memory that `finalizeSimulator` dumps is what loads would have been
  answered at that moment, whatever the driver interrupted. The drain of the instruction
  cache is without effect (`CleanDrain`), which is why the order of the two drains in the code
  does not matter.
* `OnlyStoresShow`: only a store in the memory stage changes what loads are answered.

**The pipeline is the functional simulator.** `LockstepProofs` proves that the pipeline
completes the instructions the functional simulator runs, in its order (`PipelineInOrder`),
with its registers after every cycle (`PipelineRegs`) and its memory behind the data cache
(`PipelineMemory`), and that it halts where the other does, leaving the same registers and
memory (`PipelineHalt`). The same holds under a driver (`DriverInOrder`, `DriverRegs`,
`DriverHalt`): the calls of `runCycles` and `runTillHalt`, also those after the halt, do not
show, and a simulation abandoned anywhere passes nothing on to the next but its registers.
What `finalizeSimulator` dumps, between any two cycles, is the state of the functional
simulator but for the bytes of a store in flight (`DumpIsState`).

They assume two things. Of the run, that no instruction miss comes together with what it
clashes with (`ClearSpec`, `ClearDriver`), since the claim is false where it does
(disagreement 3 and what goes with it). With an instruction cache that answers at once nothing clashes and
all runs are of this kind (`PerfectFetch`). Of the program, `Behaved`: for every
initial memory there are a set of addresses, the text, and a set of states, closed under
`StepOf` and with the start in it, such that every one of them is `Meant`: its instruction
lies in the text, the text is what it was at first, and the instruction is none of those the
two simulators treat differently. For a driver the sets also have the states in which the
next simulation starts, with the registers of any state of the one before. Every clause of
`Meant` stands for something the code does:

| clause | why |
|---|---|
| a branch does not compare a register with itself | disagreement 4 |
| no access crosses a block; the tag of a store is what the store path computes | disagreements 1 and 2 |
| behind an instruction that overflows there is no branch or `jr` | when it stalls the exception address is lost (section 3); one that does not wait would do no harm |
| no `bgtz`, `blez`, `ll`, `sc` | illegal in the one simulator, plain arithmetic in the other |
| no branch, jump or halt word in a delay slot | one simulator runs the delay slot inside the branch, the other between two fetches |
| accesses are backed by memory | the functional simulator ends, the pipeline ignores the refusal |
| stores leave the text alone | the instruction cache is never told |

All the rest is free: loops, exceptions and their handlers, the distance between dependent
instructions, the geometry and latency of both caches. That
there are programs of this kind with each instruction of the alphabets is what
`EachIsMeant` has TLC evaluate. Most programs of the instances are of this kind: 17419 of the
22200 over the first alphabet of `lock_hazards`, 12497 of the 13851 over the second, all of
`driver`.

The invariant is `InStep`. Let `S0` be the state of the functional simulator, which is the
one before the instruction in MEM/WB, and `S1`, `S2`, `S3` the states after that one and
those in EX/MEM and ID/EX; a stage with a bubble leaves the state as it is. `Flight` says
that each latch holds what the functional simulator computes from the state of its stage:
`WbOK` the value to be written, `MemOK` the result or the address and the value to be
stored, `ExOK` operands that are right once forwarding has replaced those still in flight,
and `IdRight` and `IfRight` that IF/ID and `pc` hold the next two instructions, unless an
instruction ahead is going to trap, from where on they are of no consequence. The view of
the data cache is the memory of `S1`, or that of `S2` in part while the store in EX/MEM
waits for its block (`SeenOK`), and never less: that is why it may be drained at any time.
`TextCached` says that the instruction cache holds the text, which uses that the data cache
writes back only what the program stored. What a fetch answers follows from it byte by byte
(`TextRead`): a word in one block is all there or not at all, since a block that was cached
and ready at its first byte is so at its last (`StaysOut`, `ReadTells`); for a word in two
blocks this is false, hence `Split`. While a fetch is waited for (`fetchHalt > 0`) IF/ID is
empty and the halt has not been seen (`WaitsEmpty`, a part of `Flight`): nothing that decode
could hold back is there to be lost, and a fetch that misses is a cycle in which the front of
the pipeline stands and the rest moves on. `StutterFlight`, `FreezeFlight` and `CycleFlight`
are the three kinds of steps; the last one follows the stages backwards, as the code does, so
that each finds the state it needs in the stage in front. `ReferenceStep` connects `S0` to
`Sequential`: a step of it is `StepOf`. `InDrive` is the invariant under a driver; it adds
that the dump leaves the view as it is (`FinalizeFlight`), so that what is in flight stays
right, and that a start finds nothing in flight (`RestartFlight`).

**When instructions are written back.** `TimingProofs` proves that every instruction is
written back in the cycle it is due (`PipelineOnTime`). `Due` knows the order of the
instructions and which read what, but nothing of latches: it is one cycle after the
instruction before, later if an operand is loaded or, for a branch or `jr`, computed too late
for decode, and one or two cycles more behind an exception. So the theorem says that of the
stalls and squashes of `runCycle` none is missing and none is superfluous, and that a data
miss costs its latency once. The hypotheses are `Behaved`, `ICLatency = 0` - `Due` knows of
no instruction misses - and `MaxCycle < CounterMod`: the
time without data misses (`Now`) is computed from the cycle and the counter of misses, which
must not wrap within the run (`CountersSuffice`; both have 32 bits in the code).

The invariant is `InTime`: `InStep`, and `Timed` until the halt. `Clock` is the time of the
cycle, which stands while the data cache is waited for. `K0` is the record of write-backs
that `Lockstep` keeps, and `K1`, `K2`, `K3` what it is going to be behind the instructions in
MEM/WB, EX/MEM and ID/EX, the counterparts in time of `S1`, `S2` and `S3`. `OnSchedule` says
of each of these latches that its instruction is due, by the record of its stage, when it
will get to write-back if nothing else holds it up; if the latch holds a bubble, that the
next instruction is not due that early, which is what makes a stall necessary. `FrontOnTime`
says of the instruction in IF/ID, or of the one at `pc` if there is none, that it is not due
before it can get through all stages, and that those before it hold it up no longer. When
it is due after all depends on whether decode stalls, which it does exactly for the operands
that are not there in time (`StallIs`, `DecodeDue`).
`WaitingTimed`, `QuietTimed` and `MovingTimed` are the kinds of steps: a cycle that begins to
wait, a freeze, and a cycle in which the stages move on.

**The clock of a run.** Its last part proves the cycles and the statistics of the instruction
cache that `finalizeSimulator` prints (`DriverClock`, about `ClockAtHalt`), with misses in both
caches, under any driver. Besides what the driver theorems assume, the program is
straight (`RunsStraight`, which TLC evaluates on the instance of `driver`): no branch, jump or
exception, and no instruction that reads what the one before it loads. Then nothing but
the caches holds the pipeline up. `4 * MaxCycle < WordMod` and `MaxCycle < CounterMod` say
that neither `pc` nor a counter wraps within the run. The invariant is `Counted`, until the
halt: with w words behind `pc` (`Paced`), w and what the instruction misses have cost so far
(`Lost`, without the cycles the miss in progress is going to cost, `Fill`) add up to no more
than the cycles, and to no less than those that are not spent on data misses. The two
bounds are apart because a fetch and an access to data can be waited for in the same cycles.
Of the n words that were fetched each is a hit or a miss
(`Tally`), but a miss takes one from the hits until the word arrives (`Borrowed`); that it
arrives as a hit, and is not missed again, needs that its block stays cached and is ready
when `fetchHalt` is over (`ReadAgain`). `HaltOnWay` says where the halt word
is, which is the last word fetched, so that n and w tell at its write-back how many
instructions there were. `CycleCounts`, `FreezeCounts` and `HaltCounts` are the kinds of
cycles before the halt; behind it `QuietCall` is all there is to say.

**Only model-checked.** Liveness (`EventuallyServed`, `TillHaltReturns`) is out of the
prover's reach. What happens behind a clash is
checked in the runs with disagreements only, and `driver` stays clear of it by the
instances it has.

## 5. Not modelled

* Output: dumps of `pipeState`, registers and memory, the copy of the latches that is
  printed, the name tables of `RegisterInfo.h`. `runCycles(0)` before the first cycle prints
  cycle 2^32 - 1; the state is not affected.
* The object code of `MemoryStore` (a function from addresses to bytes here, which refuses
  what it does not back) and `example.cpp`, which shows its interface; reading the program
  image from a file and the endian conversion of its words.
* The bit fields of an instruction word: the table `Code` stands for them.
* Addresses whose access wraps around at 2^32, instruction fetches that are not aligned, a
  `pipeState.cycle` that wraps around: `hazards` says what the code would do.
* `runInstruction` is called by a wrapper that returns no value although its result is used;
  `Sequential` has the value the inner call returns.
* Blocks of one byte and caches of one block with two ways, for which the code shifts by
  the width of a word or divides into no sets.
* The test drivers and programs: configurations to run the simulator on, read for what the
  code is expected to do.

## 6. Plan

1. Done: `Cache`, `FlatMemory`, `BlockingPort`; `EarlierCache`; `Mips`, `Sequential`,
   `LinkedLoads`; `Pipeline`, `Lockstep`, `Driver`; the theorems above.
2. Done: the correctness of the pipeline for every program that keeps to the conditions of
   section 4, under any driver.
3. Done: the cycle each instruction is due in, for the same programs.
4. Done: the correctness of the pipeline across instruction misses.
5. Done: the cycles of runs of straight code with misses in both caches (`ClockAtHalt`).
