------------------------------ MODULE Pipeline ------------------------------
(***************************************************************************)
(* The five-stage pipeline of cycle_sim.cpp with its two caches.  One      *)
(* action is one call of runCycle: the stages are operators on the state   *)
(* at its start, combined in the order the code runs them.                 *)
(*                                                                         *)
(* runCycle may be called at any time; Next calls it as runTillHalt does,  *)
(* until the halt word is written back.  Driver models the other calls.    *)
(***************************************************************************)
EXTENDS Mips

CONSTANTS
  ICTwoWay, ICSets,  \* the instruction cache: ways, sets,
  ICLatency,         \* and the cycles of a miss
  DCTwoWay, DCSets,  \* the data cache
  DCLatency,
  BlockSize,         \* bytes in a block of either
  CounterMod,        \* hits and misses count modulo CounterMod
  Images,            \* the memories the simulator may be started with
  Junk,              \* what an uninitialised byte may hold
  MaxCycle,          \* bound: the driver runs this many cycles at most
  NoValue,           \* UINT64_MAX: a register write that has no value
  None               \* no address

ICache == INSTANCE Cache WITH TwoWay <- ICTwoWay, NumSets <- ICSets,
            MissLatency <- ICLatency, Ages <- TRUE
DCache == INSTANCE Cache WITH TwoWay <- DCTwoWay, NumSets <- DCSets,
            MissLatency <- DCLatency, Ages <- TRUE

ASSUME PipelineAssumption ==
  /\ BlockSize \in Nat \ {0, 1} /\ ICSets \in Nat \ {0} /\ DCSets \in Nat \ {0}
  /\ ICTwoWay \in BOOLEAN /\ DCTwoWay \in BOOLEAN
  /\ ICLatency \in Nat /\ DCLatency \in Nat /\ CounterMod \in Nat \ {0}
  /\ Images \subseteq [Addr -> Byte] /\ Junk \subseteq Byte /\ MaxCycle \in Nat
  /\ NoValue \notin Word /\ None \notin Word

VARIABLES
  regs,               \* the registers
  mem,                \* the bytes of the memory store
  iLines, iStats,     \* blocks and [hits, misses] of icache
  dLines, dStats,     \* blocks and [hits, misses] of dcache
  pc,
  ifid,               \* [pc, word, at]
  idex, exmem, memwb, \* latches, see Bubble
  haltSeen,
  fetchHalt,          \* fetchHaltCycles, kept at 0 where the code counts below
  memHalt,            \* memHaltCycles
  lastPc, lastWord,   \* lastPcFetch and lastInstructionFetch
  cycle,              \* pipeState.cycle
  halted              \* cycleStatus = HALTED

cacheVars == <<mem, iLines, iStats, dLines, dStats>>
fetchVars == <<pc, ifid, haltSeen, fetchHalt, lastPc, lastWord>>
latchVars == <<idex, exmem, memwb>>
vars == <<regs, cacheVars, fetchVars, latchVars, memHalt, cycle, halted>>

\* A latch: the instruction, the values of its operands, the register it
\* writes and the value when it is known.  at is history: the address the
\* instruction was fetched from, None for a bubble.
Bubble ==
  [op |-> "sll", rs |-> 0, rt |-> 0, imm |-> 0, rsValue |-> 0, rtValue |-> 0,
   dest |-> 0, value |-> NoValue, at |-> None]
EmptyFetch == [pc |-> 0, word |-> 0, at |-> None]

Init ==
  /\ regs = [r \in Reg |-> 0]
  /\ mem \in Images
  /\ iLines = ICache!EmptyLines /\ dLines = DCache!EmptyLines
  /\ iStats = [hits |-> 0, misses |-> 0] /\ dStats = iStats
  /\ pc = 0 /\ ifid = EmptyFetch
  /\ idex = Bubble /\ exmem = Bubble /\ memwb = Bubble
  /\ haltSeen = FALSE /\ fetchHalt = 0 /\ memHalt = 0
  /\ lastPc = None /\ lastWord = 0
  /\ cycle = 0 /\ halted = FALSE

-----------------------------------------------------------------------------
(***************************************************************************)
(* Write-back and the forwarding paths.                                    *)
(***************************************************************************)

\* The latch l writes a register, and its value is known.
Writes(l) == l.value # NoValue /\ l.dest # 0

WriteBack(l) == IF Writes(l) THEN [regs EXCEPT ![l.dest] = l.value] ELSE regs

\* Forwarding to the first operand only.
Forward_rs(d, l) ==
  [d EXCEPT !.rsValue = IF Writes(l) /\ l.dest = d.rs THEN l.value ELSE @]

\* The operands of d, taken from latch l where it has a newer value.
Forward(d, l) ==
  [d EXCEPT !.rsValue = IF Writes(l) /\ l.dest = d.rs THEN l.value ELSE @,
            !.rtValue = IF Writes(l) /\ l.dest = d.rt THEN l.value ELSE @]

\* handleBranchForwarding: the second operand only if the first is not.
ForwardBranch(d) ==
  IF Writes(exmem) /\ exmem.dest = d.rs
  THEN [d EXCEPT !.rsValue = exmem.value]
  ELSE [d EXCEPT !.rtValue = IF Writes(exmem) /\ exmem.dest = d.rt
                             THEN exmem.value ELSE @]

\* handleMemForwarding: the word a store is about to write.
ForwardMem(d, l) ==
  [d EXCEPT !.rtValue = IF Writes(l) /\ l.dest = d.rt THEN l.value ELSE @]

\* What execute and the memory stage work on.
Operands  == Forward(Forward(idex, memwb), exmem)
Accessing == IF exmem.op \in IType THEN ForwardMem(exmem, memwb) ELSE exmem

IsMemRead(l) == l.op \in Loads

-----------------------------------------------------------------------------
(***************************************************************************)
(* Instruction fetch: the word for the IF/ID latch (0 when there is none), *)
(* the address it is from, and what fetching leaves behind.                *)
(***************************************************************************)

\* Nothing is looked up: the last word is fetched again, or no word is.
NoFetch(word, at, wait) ==
  [word |-> word, at |-> at, stall |-> FALSE, wait |-> wait, lines |-> iLines,
   stats |-> iStats, mem |-> mem, lastPc |-> lastPc, lastWord |-> lastWord]

\* What is fetched by the lookup t.  Of a word that is not all there yet the
\* code has some bytes, and junk for the others.
Fetched(t) ==
  LET c == t.cache
      found == c.result = 0
      word  == WordOf(t.bytes)
  IN  [word |-> word, at |-> IF found THEN pc ELSE None,
       stall |-> ~ found, wait |-> c.result, lines |-> c.lines,
       stats |-> [hits |-> c.hits, misses |-> c.misses], mem |-> c.mem,
       lastPc |-> IF found THEN pc ELSE lastPc,
       lastWord |-> IF found THEN word ELSE lastWord]

\* The lookup, in the cycle the wait for it is over.
Lookup(u) ==
  LET p == [lines |-> iLines, mem |-> mem, hits |-> iStats.hits,
            misses |-> iStats.misses, result |-> 0, byte |-> u]
  IN  Fetched(ICache!GetCacheValue(p, pc, 4, cycle, 0, u))

\* A wait that counts down after its test.
Fetch_late(u) ==
  IF lastPc = pc THEN NoFetch(lastWord, pc, fetchHalt)
  ELSE IF haltSeen THEN NoFetch(0, None, fetchHalt)
  ELSE IF fetchHalt > 0 THEN NoFetch(0, None, fetchHalt - 1)
  ELSE Lookup(u)

Fetch(u) ==
  IF lastPc = pc THEN NoFetch(lastWord, pc, fetchHalt)
  ELSE IF haltSeen THEN NoFetch(0, None, fetchHalt)
  ELSE IF fetchHalt > 1 THEN NoFetch(0, None, fetchHalt - 1)
  ELSE Lookup(u)

-----------------------------------------------------------------------------
(***************************************************************************)
(* Whether the halt word has been fetched, after a cycle that fetched f and *)
(* raised an exception or not.                                             *)
(***************************************************************************)

SeesHalt_sticky(f, trap) == haltSeen \/ f.word = HaltWord
SeesHalt_brief(f, trap)  == ~ trap /\ f.word = HaltWord
SeesHalt(f, trap) == ~ trap /\ (haltSeen \/ f.word = HaltWord)

-----------------------------------------------------------------------------
(***************************************************************************)
(* Decode: the ID/EX latch for the word in IF/ID, where it redirects the   *)
(* fetch to (or None), whether it is an exception and whether it stalls.   *)
(***************************************************************************)

\* Not waiting for a load in the memory stage, or waiting for anything there.
BranchNeedsStall_ex(d, checkRt) ==
  idex.dest # 0 /\ (idex.dest = d.rs \/ (checkRt /\ idex.dest = d.rt))
BranchNeedsStall_wide(d, checkRt) ==
  \E l \in {idex, exmem} :
    l.dest # 0 /\ (l.dest = d.rs \/ (checkRt /\ l.dest = d.rt))

\* A branch waits for a value still being computed or loaded.
BranchNeedsStall(d, checkRt) ==
  LET Needs(l) == l.dest # 0 /\ (l.dest = d.rs \/ (checkRt /\ l.dest = d.rt))
  IN  (Needs(exmem) /\ IsMemRead(exmem)) \/ Needs(idex)

LoadUse_rs(d) == IsMemRead(idex) /\ idex.rt # 0 /\ idex.rt = d.rs

\* The instruction after a load waits for it.
LoadUse(d) == IsMemRead(idex) /\ idex.rt # 0 /\ idex.rt \in {d.rs, d.rt}

\* The register an instruction is going to write.
Dest(i) ==
  CASE i.op \in RAlu -> i.rd
    [] i.op \in IAlu \union Loads \union Atomics -> i.rt
    [] i.op = "jal" -> LinkReg
    [] OTHER -> 0

BranchTaken(op, x, y) ==
  CASE op = "beq"  -> x = y
    [] op = "bne"  -> x # y
    [] op = "bgtz" -> x # 0     \* the operand is unsigned
    [] op = "blez" -> x = 0

Decode(rg) ==
  LET i == Code[ifid.word]
      plain == [op |-> i.op, rs |-> i.rs, rt |-> i.rt, imm |-> i.imm,
                rsValue |-> rg[i.rs], rtValue |-> rg[i.rt], dest |-> Dest(i),
                value |-> IF i.op = "jal" THEN Plus(ifid.pc, 8) ELSE NoValue,
                at |-> ifid.at]
      d == IF i.op \in Branches \union {"jr"} THEN ForwardBranch(plain) ELSE plain
      trap == i.op \in {"illegal", "badFunct"}
      target ==
        CASE trap -> ExcAddr
          [] i.op = "jr" -> d.rsValue
          [] i.op \in {"j", "jal"} -> JumpTarget(ifid.pc, i.imm)
          [] i.op \in Branches ->
               IF BranchTaken(i.op, d.rsValue, d.rtValue)
               THEN BranchTarget(ifid.pc, i.imm) ELSE None
          [] OTHER -> None
  IN  [latch |-> IF trap THEN [Bubble EXCEPT !.at = ifid.at] ELSE d,
       target |-> target,
       trap   |-> trap,
       stall  |-> \/ /\ i.op \in Branches \union {"jr"}
                     /\ BranchNeedsStall(d, i.op \in {"beq", "bne"})
                  \/ LoadUse(d)]

-----------------------------------------------------------------------------
(***************************************************************************)
(* Execute and memory.                                                     *)
(***************************************************************************)

ExOverflow_never(d) == FALSE
ExOverflow(d) == Overflows(d.op, d.rsValue, d.rtValue, d.imm)

\* An overflow that is written back.
Execute_keeps(d) ==
  IF d.op \in RAlu \union IAlu
  THEN [d EXCEPT !.value = Alu(d.op, d.rsValue, d.rtValue, d.imm)] ELSE d

\* The EX/MEM latch for d; an overflow leaves a bubble.
Execute(d) ==
  IF ExOverflow(d) THEN [Bubble EXCEPT !.at = d.at]
  ELSE IF d.op \in RAlu \union IAlu
       THEN [d EXCEPT !.value = Alu(d.op, d.rsValue, d.rtValue, d.imm)]
       ELSE d

\* What the memory stage leaves of the latch x and the access t.
Accessed(x, t) ==
  LET c == t.cache
  IN  [latch |-> IF x.op \in Loads /\ c.result = 0
                 THEN [x EXCEPT !.value = WordOf(t.bytes)] ELSE x,
       delay |-> c.result, lines |-> c.lines, mem |-> c.mem,
       stats |-> [hits |-> c.hits, misses |-> c.misses]]

\* handleMem for the latch x: the latch, the delay and the data cache after it.
MemAccess(x, memory, u) ==
  LET p == [lines |-> dLines, mem |-> memory, hits |-> dStats.hits,
            misses |-> dStats.misses, result |-> 0, byte |-> u]
      a == DataAddr(x.rsValue, x.imm)
      n == Size(x.op)
      Only(c) == [cache |-> c, bytes |-> <<>>]
  IN  Accessed(x,
        CASE x.op \in Loads  -> DCache!GetCacheValue(p, a, n, cycle, 0, u)
          [] x.op \in Stores -> Only(DCache!SetCacheValue(p, a, BytesOf(x.rtValue, n), cycle, 0, u))
          [] OTHER           -> Only(p))

-----------------------------------------------------------------------------
(***************************************************************************)
(* One cycle.                                                              *)
(***************************************************************************)

\* A cycle of a data miss that is not over.
Freeze ==
  /\ memHalt > 1
  /\ memHalt' = memHalt - 1
  /\ fetchHalt' = IF fetchHalt > 0 THEN fetchHalt - 1 ELSE 0
  /\ cycle' = cycle + 1
  /\ UNCHANGED <<regs, cacheVars, pc, ifid, haltSeen, lastPc, lastWord,
                 latchVars, halted>>

\* The latches and the program counter after a cycle that wrote rg back,
\* fetched f, decoded d, executed e with its forwarded operands, and whose
\* memory stage left m.
Advance(rg, f, d, e, m) ==
  LET overflow == ExOverflow(e)
      trap     == d.trap \/ overflow
      stallMem == m.delay # 0
      nextPc == IF overflow THEN ExcAddr
                ELSE IF d.target # None THEN d.target
                ELSE IF f.wait > 0 THEN pc ELSE Plus(pc, 4)
      fetched == [pc |-> pc, word |-> IF trap THEN 0 ELSE f.word,
                  at |-> IF trap THEN None ELSE f.at]
  IN  /\ regs' = rg
      /\ mem' = m.mem
      /\ iLines' = f.lines /\ iStats' = f.stats
      /\ dLines' = m.lines /\ dStats' = m.stats
      /\ lastPc' = f.lastPc /\ lastWord' = f.lastWord
      /\ fetchHalt' = f.wait /\ memHalt' = m.delay
      /\ haltSeen' = SeesHalt(f, trap)
      /\ pc' = IF f.stall \/ d.stall \/ stallMem THEN pc ELSE nextPc
      /\ ifid' = IF f.stall THEN EmptyFetch
                 ELSE IF d.stall \/ stallMem THEN ifid ELSE fetched
      /\ idex' = IF stallMem THEN e
                 ELSE IF d.stall \/ overflow THEN Bubble ELSE d.latch
      /\ exmem' = IF stallMem THEN m.latch ELSE Execute(e)
      /\ memwb' = IF stallMem THEN Bubble ELSE m.latch
      /\ halted' = (halted \/ memwb.op = "halt")
      /\ cycle' = cycle + 1

\* Any other cycle: all five stages, and then the latches.
Cycle ==
  /\ memHalt <= 1
  /\ \E u \in Junk :
       LET rg == WriteBack(memwb)
           f  == Fetch(u)
       IN  Advance(rg, f, Decode(rg), Operands, MemAccess(Accessing, f.mem, u))

RunCycle == Freeze \/ Cycle

Next == ~ halted /\ cycle < MaxCycle /\ RunCycle

Spec == Init /\ [][Next]_vars

-----------------------------------------------------------------------------
(***************************************************************************)
(* Types.                                                                  *)
(***************************************************************************)

Latch == [op : Ops, rs : Reg, rt : Reg, imm : Nat,
          rsValue : Word, rtValue : Word, dest : Reg,
          value : Word \union {NoValue}, at : Word \union {None}]

Counters == [hits : 0 .. CounterMod - 1, misses : 0 .. CounterMod - 1]

\* The values the variables of the pipeline take; no latch holds a value that
\* does not fit a word, whatever stalls, squashes and forwarding did to it.
TypeOK ==
  /\ regs \in [Reg -> Word] /\ regs[0] = 0
  /\ mem \in [Addr -> Byte]
  /\ iLines \in [ICache!Sets -> [ICache!Ways -> ICache!LineOf(Byte)]]
  /\ dLines \in [DCache!Sets -> [DCache!Ways -> DCache!LineOf(Byte)]]
  /\ iStats \in Counters /\ dStats \in Counters
  /\ pc \in Word /\ ifid \in [pc : Word, word : Word, at : Word \union {None}]
  /\ idex \in Latch /\ exmem \in Latch /\ memwb \in Latch
  /\ haltSeen \in BOOLEAN /\ halted \in BOOLEAN
  /\ fetchHalt \in 0 .. ICLatency /\ memHalt \in 0 .. DCLatency
  /\ lastPc \in Word \union {None} /\ lastWord \in Word
  /\ cycle \in 0 .. MaxCycle

=============================================================================
