--------------------------- MODULE PipelineProofs ---------------------------
(***************************************************************************)
(* Types, caches and the end of a program in the pipeline, for words,      *)
(* memories, caches and programs of every kind, and however the simulator  *)
(* is driven.                                                              *)
(***************************************************************************)
EXTENDS Driver, MipsProofs

I == INSTANCE CacheProofs WITH TwoWay <- ICTwoWay, NumSets <- ICSets,
       MissLatency <- ICLatency, Ages <- TRUE
D == INSTANCE CacheProofs WITH TwoWay <- DCTwoWay, NumSets <- DCSets,
       MissLatency <- DCLatency, Ages <- TRUE

-----------------------------------------------------------------------------
(***************************************************************************)
(* The caches.                                                             *)
(***************************************************************************)

LEMMA Geometries == I!CacheAssumption /\ D!CacheAssumption
  BY PipelineAssumption DEF I!CacheAssumption, D!CacheAssumption

\* ICache and I are the same instance of the cache.
LEMMA ICacheSame ==
  /\ \A p, a, n, now, g, u :
       ICache!GetCacheValue(p, a, n, now, g, u) = I!GetCacheValue(p, a, n, now, g, u)
  /\ \A p, a, v, now, g, u :
       ICache!SetCacheValue(p, a, v, now, g, u) = I!SetCacheValue(p, a, v, now, g, u)
  /\ \A ls, ms : ICache!Drain(ls, ms) = I!Drain(ls, ms)
  /\ ICache!EmptyLines = I!EmptyLines
  /\ \A ls, ms : ICache!View(ls, ms) = I!View(ls, ms)
  /\ ICache!Sets = I!Sets /\ ICache!Ways = I!Ways
  /\ \A B : ICache!LineOf(B) = I!LineOf(B)
  <1>1. /\ \A a : /\ ICache!Offset(a) = I!Offset(a) /\ ICache!Index(a) = I!Index(a)
                  /\ ICache!Tag(a) = I!Tag(a) /\ ICache!StoreTag(a) = I!StoreTag(a)
                  /\ ICache!BlockStart(a) = I!BlockStart(a)
        /\ \A t, i : ICache!BlockAddr(t, i) = I!BlockAddr(t, i)
    BY DEF ICache!Offset, ICache!Index, ICache!Tag, ICache!StoreTag,
           ICache!BlockStart, ICache!BlockAddr,
           I!Offset, I!Index, I!Tag, I!StoreTag, I!BlockStart, I!BlockAddr
  <1>2. /\ ICache!Ways = I!Ways /\ ICache!Sets = I!Sets /\ ICache!Offsets = I!Offsets
    BY DEF ICache!Ways, ICache!Assoc, ICache!Sets, ICache!Offsets,
           I!Ways, I!Assoc, I!Sets, I!Offsets
  <1>3. /\ \A set, g : ICache!Victim(set, g) = I!Victim(set, g)
        /\ \A W : ICache!FirstWay(W) = I!FirstWay(W)
        /\ \A l, now : ICache!Ready(l, now) = I!Ready(l, now)
        /\ \A now : ICache!ReadyAt(now) = I!ReadyAt(now)
    BY DEF ICache!Victim, ICache!FirstWay, ICache!Ready, ICache!ReadyAt,
           I!Victim, I!FirstWay, I!Ready, I!ReadyAt
  <1>4. \A set, t : ICache!Holding(set, t) = I!Holding(set, t)
    BY <1>2 DEF ICache!Holding, I!Holding
  <1>5. \A set, w : ICache!UpdateLRU(set, w) = I!UpdateLRU(set, w)
    BY DEF ICache!UpdateLRU, ICache!Ways, ICache!Assoc,
           I!UpdateLRU, I!Ways, I!Assoc
  <1>6. \A ms, data, t, i :
          ICache!WriteBack(ms, data, t, i) = I!WriteBack(ms, data, t, i)
    BY <1>1, <1>2 DEF ICache!WriteBack, I!WriteBack
  <1>7. \A ms, start, u : ICache!ReadBlock(ms, start, u) = I!ReadBlock(ms, start, u)
    BY <1>2 DEF ICache!ReadBlock, I!ReadBlock
  <1>8. ASSUME NEW p, NEW a, NEW t, NEW g, NEW u
        PROVE  ICache!CacheMiss(p, a, t, g, u) = I!CacheMiss(p, a, t, g, u)
    BY <1>1, <1>3, <1>5, <1>6, <1>7 DEF ICache!CacheMiss, I!CacheMiss
  <1>9. ASSUME NEW p, NEW a, NEW now, NEW g, NEW u
        PROVE  ICache!ReadMiss(p, a, now, g, u) = I!ReadMiss(p, a, now, g, u)
    BY <1>1, <1>3, <1>8 DEF ICache!ReadMiss, I!ReadMiss
  <1>10. /\ \A p, u : ICache!ReadPending(p, u) = I!ReadPending(p, u)
         /\ \A p : ICache!WritePending(p) = I!WritePending(p)
    BY DEF ICache!ReadPending, ICache!WritePending, I!ReadPending, I!WritePending
  <1>11. ASSUME NEW p, NEW a, NEW w
         PROVE  ICache!ReadHit(p, a, w) = I!ReadHit(p, a, w)
    BY <1>1, <1>5 DEF ICache!ReadHit, I!ReadHit
  <1>12. ASSUME NEW p, NEW a, NEW v, NEW now, NEW g, NEW u
         PROVE  ICache!WriteMiss(p, a, v, now, g, u) = I!WriteMiss(p, a, v, now, g, u)
    BY <1>1, <1>3, <1>8 DEF ICache!WriteMiss, I!WriteMiss
  <1>13. ASSUME NEW p, NEW a, NEW v, NEW w
         PROVE  ICache!WriteHit(p, a, v, w) = I!WriteHit(p, a, v, w)
    BY <1>1, <1>5 DEF ICache!WriteHit, I!WriteHit
  <1>14. ASSUME NEW p, NEW a, NEW now, NEW g, NEW u
         PROVE  ICache!GetByte(p, a, now, g, u) = I!GetByte(p, a, now, g, u)
    BY <1>1, <1>3, <1>4, <1>9, <1>10, <1>11 DEF ICache!GetByte, I!GetByte
  <1>15. ASSUME NEW p, NEW a, NEW v, NEW now, NEW g, NEW u
         PROVE  ICache!SetByte(p, a, v, now, g, u) = I!SetByte(p, a, v, now, g, u)
    BY <1>1, <1>3, <1>4, <1>10, <1>12, <1>13 DEF ICache!SetByte, I!SetByte
  <1>16. \A p, f : ICache!Count(p, f) = I!Count(p, f)
    BY DEF ICache!Count, I!Count
  <1>17. ASSUME NEW p, NEW a, NEW n, NEW now, NEW g, NEW u
         PROVE  ICache!GetCacheValue(p, a, n, now, g, u) = I!GetCacheValue(p, a, n, now, g, u)
    BY <1>14, <1>16 DEF ICache!GetCacheValue, I!GetCacheValue
  <1>18. ASSUME NEW p, NEW a, NEW v, NEW now, NEW g, NEW u
         PROVE  ICache!SetCacheValue(p, a, v, now, g, u) = I!SetCacheValue(p, a, v, now, g, u)
    BY <1>15, <1>16 DEF ICache!SetCacheValue, I!SetCacheValue
  <1>19. \A ls, ms : ICache!Drain(ls, ms) = I!Drain(ls, ms)
    BY DEF ICache!Drain, ICache!DirtyBlocks, ICache!Sets, ICache!Ways, ICache!Assoc,
           ICache!Offsets, ICache!BlockAddr,
           I!Drain, I!DirtyBlocks, I!Sets, I!Ways, I!Assoc, I!Offsets, I!BlockAddr
  <1>20. ICache!EmptyLines = I!EmptyLines
    BY <1>2 DEF ICache!EmptyLines, ICache!EmptyLine, I!EmptyLines, I!EmptyLine
  <1>21. \A ls, ms : ICache!View(ls, ms) = I!View(ls, ms)
    BY <1>1, <1>3, <1>4 DEF ICache!View, I!View
  <1>22. \A B : ICache!LineOf(B) = I!LineOf(B)
    BY DEF ICache!LineOf, ICache!Assoc, ICache!Offsets, I!LineOf, I!Assoc, I!Offsets
  <1> QED
    BY ONLY <1>2, <1>17, <1>18, <1>19, <1>20, <1>21, <1>22

\* DCache and D are the same instance of the cache.
LEMMA DCacheSame ==
  /\ \A p, a, n, now, g, u :
       DCache!GetCacheValue(p, a, n, now, g, u) = D!GetCacheValue(p, a, n, now, g, u)
  /\ \A p, a, v, now, g, u :
       DCache!SetCacheValue(p, a, v, now, g, u) = D!SetCacheValue(p, a, v, now, g, u)
  /\ \A ls, ms : DCache!Drain(ls, ms) = D!Drain(ls, ms)
  /\ DCache!EmptyLines = D!EmptyLines
  /\ \A ls, ms : DCache!View(ls, ms) = D!View(ls, ms)
  /\ DCache!Sets = D!Sets /\ DCache!Ways = D!Ways
  /\ \A B : DCache!LineOf(B) = D!LineOf(B)
  <1>1. /\ \A a : /\ DCache!Offset(a) = D!Offset(a) /\ DCache!Index(a) = D!Index(a)
                  /\ DCache!Tag(a) = D!Tag(a) /\ DCache!StoreTag(a) = D!StoreTag(a)
                  /\ DCache!BlockStart(a) = D!BlockStart(a)
        /\ \A t, i : DCache!BlockAddr(t, i) = D!BlockAddr(t, i)
    BY DEF DCache!Offset, DCache!Index, DCache!Tag, DCache!StoreTag,
           DCache!BlockStart, DCache!BlockAddr,
           D!Offset, D!Index, D!Tag, D!StoreTag, D!BlockStart, D!BlockAddr
  <1>2. /\ DCache!Ways = D!Ways /\ DCache!Sets = D!Sets /\ DCache!Offsets = D!Offsets
    BY DEF DCache!Ways, DCache!Assoc, DCache!Sets, DCache!Offsets,
           D!Ways, D!Assoc, D!Sets, D!Offsets
  <1>3. /\ \A set, g : DCache!Victim(set, g) = D!Victim(set, g)
        /\ \A W : DCache!FirstWay(W) = D!FirstWay(W)
        /\ \A l, now : DCache!Ready(l, now) = D!Ready(l, now)
        /\ \A now : DCache!ReadyAt(now) = D!ReadyAt(now)
    BY DEF DCache!Victim, DCache!FirstWay, DCache!Ready, DCache!ReadyAt,
           D!Victim, D!FirstWay, D!Ready, D!ReadyAt
  <1>4. \A set, t : DCache!Holding(set, t) = D!Holding(set, t)
    BY <1>2 DEF DCache!Holding, D!Holding
  <1>5. \A set, w : DCache!UpdateLRU(set, w) = D!UpdateLRU(set, w)
    BY DEF DCache!UpdateLRU, DCache!Ways, DCache!Assoc,
           D!UpdateLRU, D!Ways, D!Assoc
  <1>6. \A ms, data, t, i :
          DCache!WriteBack(ms, data, t, i) = D!WriteBack(ms, data, t, i)
    BY <1>1, <1>2 DEF DCache!WriteBack, D!WriteBack
  <1>7. \A ms, start, u : DCache!ReadBlock(ms, start, u) = D!ReadBlock(ms, start, u)
    BY <1>2 DEF DCache!ReadBlock, D!ReadBlock
  <1>8. ASSUME NEW p, NEW a, NEW t, NEW g, NEW u
        PROVE  DCache!CacheMiss(p, a, t, g, u) = D!CacheMiss(p, a, t, g, u)
    BY <1>1, <1>3, <1>5, <1>6, <1>7 DEF DCache!CacheMiss, D!CacheMiss
  <1>9. ASSUME NEW p, NEW a, NEW now, NEW g, NEW u
        PROVE  DCache!ReadMiss(p, a, now, g, u) = D!ReadMiss(p, a, now, g, u)
    BY <1>1, <1>3, <1>8 DEF DCache!ReadMiss, D!ReadMiss
  <1>10. /\ \A p, u : DCache!ReadPending(p, u) = D!ReadPending(p, u)
         /\ \A p : DCache!WritePending(p) = D!WritePending(p)
    BY DEF DCache!ReadPending, DCache!WritePending, D!ReadPending, D!WritePending
  <1>11. ASSUME NEW p, NEW a, NEW w
         PROVE  DCache!ReadHit(p, a, w) = D!ReadHit(p, a, w)
    BY <1>1, <1>5 DEF DCache!ReadHit, D!ReadHit
  <1>12. ASSUME NEW p, NEW a, NEW v, NEW now, NEW g, NEW u
         PROVE  DCache!WriteMiss(p, a, v, now, g, u) = D!WriteMiss(p, a, v, now, g, u)
    BY <1>1, <1>3, <1>8 DEF DCache!WriteMiss, D!WriteMiss
  <1>13. ASSUME NEW p, NEW a, NEW v, NEW w
         PROVE  DCache!WriteHit(p, a, v, w) = D!WriteHit(p, a, v, w)
    BY <1>1, <1>5 DEF DCache!WriteHit, D!WriteHit
  <1>14. ASSUME NEW p, NEW a, NEW now, NEW g, NEW u
         PROVE  DCache!GetByte(p, a, now, g, u) = D!GetByte(p, a, now, g, u)
    BY <1>1, <1>3, <1>4, <1>9, <1>10, <1>11 DEF DCache!GetByte, D!GetByte
  <1>15. ASSUME NEW p, NEW a, NEW v, NEW now, NEW g, NEW u
         PROVE  DCache!SetByte(p, a, v, now, g, u) = D!SetByte(p, a, v, now, g, u)
    BY <1>1, <1>3, <1>4, <1>10, <1>12, <1>13 DEF DCache!SetByte, D!SetByte
  <1>16. \A p, f : DCache!Count(p, f) = D!Count(p, f)
    BY DEF DCache!Count, D!Count
  <1>17. ASSUME NEW p, NEW a, NEW n, NEW now, NEW g, NEW u
         PROVE  DCache!GetCacheValue(p, a, n, now, g, u) = D!GetCacheValue(p, a, n, now, g, u)
    BY <1>14, <1>16 DEF DCache!GetCacheValue, D!GetCacheValue
  <1>18. ASSUME NEW p, NEW a, NEW v, NEW now, NEW g, NEW u
         PROVE  DCache!SetCacheValue(p, a, v, now, g, u) = D!SetCacheValue(p, a, v, now, g, u)
    BY <1>15, <1>16 DEF DCache!SetCacheValue, D!SetCacheValue
  <1>19. \A ls, ms : DCache!Drain(ls, ms) = D!Drain(ls, ms)
    BY DEF DCache!Drain, DCache!DirtyBlocks, DCache!Sets, DCache!Ways, DCache!Assoc,
           DCache!Offsets, DCache!BlockAddr,
           D!Drain, D!DirtyBlocks, D!Sets, D!Ways, D!Assoc, D!Offsets, D!BlockAddr
  <1>20. DCache!EmptyLines = D!EmptyLines
    BY <1>2 DEF DCache!EmptyLines, DCache!EmptyLine, D!EmptyLines, D!EmptyLine
  <1>21. \A ls, ms : DCache!View(ls, ms) = D!View(ls, ms)
    BY <1>1, <1>3, <1>4 DEF DCache!View, D!View
  <1>22. \A B : DCache!LineOf(B) = D!LineOf(B)
    BY DEF DCache!LineOf, DCache!Assoc, DCache!Offsets, D!LineOf, D!Assoc, D!Offsets
  <1> QED
    BY ONLY <1>2, <1>17, <1>18, <1>19, <1>20, <1>21, <1>22

\* A latch that never shifts by more than a word has bits, and the caches as
\* the pipeline leaves them: the instruction cache has nothing to write back,
\* whatever happens to memory behind it.
Shifts(l) == l.op \in {"sll", "srl"} => l.imm \in Bits

CachesSound ==
  /\ I!Clean(iLines)
  /\ D!OneCopy(dLines) /\ D!CleanAgrees(dLines, mem)

PipeInv == TypeOK /\ Shifts(idex) /\ CachesSound

-----------------------------------------------------------------------------
(***************************************************************************)
(* The parts of a cycle.                                                   *)
(***************************************************************************)

LEMMA BytesHere == 0 \in Byte /\ 0 \in Nat /\ Addr = 0 .. MemSize - 1 /\ MemSize \in Nat
  BY MipsAssumption DEF Byte, Addr

LEMMA BubbleLatch == Bubble \in Latch /\ Shifts(Bubble) /\ "sll" \in Ops
  <1>1. 0 \in Reg /\ 0 \in Word /\ "sll" \in Ops
    BY Moduli, MipsAssumption DEF Reg, Ops, RAlu
  <1>2. 0 \in Bits
    BY NopDecoded DEF Decoded, Nop
  <1> QED
    BY <1>1, <1>2 DEF Bubble, Latch, Shifts

LEMMA LatchParts ==
  ASSUME NEW l \in Latch
  PROVE  /\ l.op \in Ops /\ l.rs \in Reg /\ l.rt \in Reg /\ l.imm \in Nat
         /\ l.rsValue \in Word /\ l.rtValue \in Word /\ l.dest \in Reg
         /\ l.value \in Word \union {NoValue} /\ l.at \in Word \union {None}
         /\ Writes(l) => l.value \in Word
  BY DEF Latch, Writes

LEMMA WriteBackKeeps ==
  ASSUME NEW l \in Latch, regs \in [Reg -> Word], regs[0] = 0
  PROVE  WriteBack(l) \in [Reg -> Word] /\ WriteBack(l)[0] = 0
  <1>1. CASE Writes(l)
    <2>1. l.value \in Word /\ l.dest \in Reg /\ l.dest # 0 /\ 0 \in Reg
      BY <1>1, LatchParts, MipsAssumption DEF Writes, Reg
    <2> QED
      BY <1>1, <2>1 DEF WriteBack
  <1>2. CASE ~ Writes(l)
    BY <1>2 DEF WriteBack
  <1> QED
    BY <1>1, <1>2

\* Forwarding changes the values of the operands only.
SameInstr(k, l) ==
  /\ k.op = l.op /\ k.rs = l.rs /\ k.rt = l.rt /\ k.imm = l.imm
  /\ k.dest = l.dest /\ k.value = l.value /\ k.at = l.at

LEMMA OperandsKeep ==
  ASSUME NEW d \in Latch, NEW x \in Word
  PROVE  /\ [d EXCEPT !.rsValue = x] \in Latch /\ SameInstr([d EXCEPT !.rsValue = x], d)
         /\ [d EXCEPT !.rtValue = x] \in Latch /\ SameInstr([d EXCEPT !.rtValue = x], d)
  BY DEF Latch, SameInstr

LEMMA ForwardKeeps ==
  ASSUME NEW d \in Latch, NEW l \in Latch
  PROVE  Forward(d, l) \in Latch /\ SameInstr(Forward(d, l), d)
  <1> DEFINE x == IF Writes(l) /\ l.dest = d.rs THEN l.value ELSE d.rsValue
             y == IF Writes(l) /\ l.dest = d.rt THEN l.value ELSE d.rtValue
  <1>1. x \in Word /\ y \in Word
    BY LatchParts
  <1>2. Forward(d, l) = [d EXCEPT !.rsValue = x, !.rtValue = y]
    BY DEF Forward
  <1> HIDE DEF x, y
  <1>3. /\ [d EXCEPT !.rsValue = x, !.rtValue = y] \in Latch
        /\ SameInstr([d EXCEPT !.rsValue = x, !.rtValue = y], d)
    BY ONLY d \in Latch, <1>1 DEF Latch, SameInstr
  <1> QED
    BY ONLY <1>2, <1>3

LEMMA ForwardMemKeeps ==
  ASSUME NEW d \in Latch, NEW l \in Latch
  PROVE  ForwardMem(d, l) \in Latch /\ SameInstr(ForwardMem(d, l), d)
  <1> DEFINE y == IF Writes(l) /\ l.dest = d.rt THEN l.value ELSE d.rtValue
  <1>1. y \in Word
    BY LatchParts
  <1>2. ForwardMem(d, l) = [d EXCEPT !.rtValue = y]
    BY DEF ForwardMem
  <1> HIDE DEF y
  <1> QED
    BY <1>1, <1>2, OperandsKeep

LEMMA ForwardBranchKeeps ==
  ASSUME NEW d \in Latch, exmem \in Latch
  PROVE  ForwardBranch(d) \in Latch /\ SameInstr(ForwardBranch(d), d)
  <1> DEFINE y == IF Writes(exmem) /\ exmem.dest = d.rt THEN exmem.value ELSE d.rtValue
  <1>1. y \in Word /\ (Writes(exmem) => exmem.value \in Word)
    BY LatchParts
  <1>2. ForwardBranch(d) = IF Writes(exmem) /\ exmem.dest = d.rs
                           THEN [d EXCEPT !.rsValue = exmem.value]
                           ELSE [d EXCEPT !.rtValue = y]
    BY DEF ForwardBranch
  <1> HIDE DEF y
  <1> QED
    BY <1>1, <1>2, OperandsKeep

LEMMA ValueKeeps ==
  ASSUME NEW d \in Latch, NEW v \in Word \union {NoValue}
  PROVE  LET k == [d EXCEPT !.value = v]
         IN  /\ k \in Latch /\ k.op = d.op /\ k.dest = d.dest /\ k.at = d.at
             /\ k.imm = d.imm
  BY DEF Latch

\* The execute stage computes words and never changes what an instruction is,
\* unless it makes a bubble of it.
LEMMA ExecuteKeeps ==
  ASSUME NEW d \in Latch, Shifts(d)
  PROVE  /\ Execute(d) \in Latch
         /\ ~ ExOverflow(d) => /\ Execute(d).op = d.op /\ Execute(d).dest = d.dest
                               /\ Execute(d).at = d.at
         /\ ExOverflow(d) => Execute(d).op = "sll" /\ Execute(d).dest = 0
  <1>1. d.at \in Word \union {None}
    BY LatchParts
  <1>2. CASE ExOverflow(d)
    <2>1. Execute(d) = [Bubble EXCEPT !.at = d.at]
      BY <1>2 DEF Execute
    <2>2. Execute(d) \in Latch
      BY <1>1, <2>1, BubbleLatch DEF Latch
    <2> QED
      BY <1>2, <2>1, <2>2 DEF Bubble
  <1>3. CASE ~ ExOverflow(d) /\ d.op \in RAlu \union IAlu
    <2> DEFINE v == Alu(d.op, d.rsValue, d.rtValue, d.imm)
    <2>1. v \in Word
      BY <1>3, LatchParts, AluWord DEF Shifts
    <2>2. Execute(d) = [d EXCEPT !.value = v]
      BY <1>3 DEF Execute
    <2> HIDE DEF v
    <2> QED
      BY <1>3, <2>1, <2>2, ValueKeeps
  <1>4. CASE ~ ExOverflow(d) /\ d.op \notin RAlu \union IAlu
    BY <1>4 DEF Execute
  <1> QED
    BY <1>2, <1>3, <1>4

-----------------------------------------------------------------------------
(***************************************************************************)
(* The instruction fetch.                                                  *)
(***************************************************************************)

LinesTyped ==
  /\ iLines \in I!LinesOver(Byte) /\ dLines \in D!LinesOver(Byte)
  /\ mem \in [0 .. MemSize - 1 -> Byte] /\ iStats \in Counters /\ dStats \in Counters

LEMMA TypedLines ==
  ASSUME TypeOK
  PROVE  LinesTyped
  BY ICacheSame, DCacheSame DEF TypeOK, LinesTyped, I!LinesOver, D!LinesOver, Addr

\* What a fetch leaves behind: it only reads.
FetchLeaves(f) ==
  /\ f.word \in Word /\ f.at \in Word \union {None} /\ f.stall \in BOOLEAN
  /\ f.wait \in 0 .. ICLatency
  /\ f.lines \in I!LinesOver(Byte) /\ f.stats \in Counters
  /\ I!Clean(f.lines) /\ f.mem = mem
  /\ f.lastPc \in Word \union {None} /\ f.lastWord \in Word

\* Without a lookup nothing is touched.
LEMMA NoFetchLeaves ==
  ASSUME PipeInv, NEW word \in Word, NEW at \in Word \union {None},
         NEW wait \in 0 .. ICLatency
  PROVE  FetchLeaves(NoFetch(word, at, wait))
  <1>1. /\ LinesTyped /\ lastPc \in Word \union {None} /\ lastWord \in Word
        /\ I!Clean(iLines)
    BY TypedLines DEF PipeInv, TypeOK, CachesSound
  <1> QED
    BY <1>1 DEF FetchLeaves, NoFetch, LinesTyped

\* A record of the state of a cache before an access.
Before(ls, ms, stats, u) ==
  [lines |-> ls, mem |-> ms, hits |-> stats.hits, misses |-> stats.misses,
   result |-> 0, byte |-> u]

LEMMA BeforeState ==
  ASSUME LinesTyped, NEW u \in Byte
  PROVE  /\ Before(iLines, mem, iStats, u) \in I!CacheState(Byte, MemSize)
         /\ Before(dLines, mem, dStats, u) \in D!CacheState(Byte, MemSize)
  <1>1. 0 \in {0, ICLatency} /\ 0 \in {0, DCLatency}
    OBVIOUS
  <1> QED
    BY <1>1 DEF LinesTyped, Before, I!CacheState, D!CacheState, I!LinesOver, D!LinesOver,
                Counters

LEMMA LookupLeaves ==
  ASSUME PipeInv, NEW u \in Byte
  PROVE  FetchLeaves(Lookup(u))
  <1> DEFINE p == Before(iLines, mem, iStats, u)
             t == I!GetCacheValue(p, pc, 4, cycle, 0, u)
             c == t.cache
             w == WordOf(t.bytes)
  <1>1. /\ LinesTyped /\ pc \in Word /\ cycle \in Nat /\ ICLatency \in Nat
        /\ lastPc \in Word \union {None} /\ lastWord \in Word
        /\ I!Clean(iLines)
    BY TypedLines, PipelineAssumption DEF PipeInv, TypeOK, CachesSound
  <1>2. p \in I!CacheState(Byte, MemSize) /\ p.lines = iLines /\ p.mem = mem
    BY <1>1, BeforeState DEF Before
  <1>3. Lookup(u) = Fetched(t)
    BY ICacheSame DEF Lookup, Before
  <1> HIDE DEF p
  <1>4. I!ReadKept(c, p, Byte, MemSize) /\ t.bytes \in [1 .. 4 -> Byte]
    <2>1. pc \in Nat /\ MemSize \in Nat /\ 4 \in {1, 2, 4} /\ 0 \in Nat
      BY <1>1, WordNat, BytesHere
    <2> QED
      BY <1>1, <1>2, <2>1, Geometries, I!ReadAny
  <1> HIDE DEF t
  <1>5. w \in Word
    <2>1. 4 \in {1, 2, 4}
      OBVIOUS
    <2> QED
      BY <1>4, <2>1, WordOfWord
  <1> HIDE DEF w
  <1>6. c \in I!CacheState(Byte, MemSize)
    BY <1>4 DEF I!ReadKept
  <1>7. /\ c.lines \in I!LinesOver(Byte) /\ c.result \in 0 .. ICLatency
        /\ [hits |-> c.hits, misses |-> c.misses] \in Counters
    BY <1>1, <1>6, Geometries, I!StateParts DEF Counters
  <1>8. I!Clean(c.lines) /\ c.mem = mem
    BY <1>1, <1>2, <1>4 DEF I!ReadKept
  <1> QED
    BY <1>1, <1>3, <1>5, <1>7, <1>8 DEF FetchLeaves, Fetched, w

LEMMA FetchKeeps ==
  ASSUME PipeInv, NEW u \in Byte
  PROVE  FetchLeaves(Fetch(u))
  <1>1. /\ pc \in Word /\ lastWord \in Word /\ fetchHalt \in 0 .. ICLatency
        /\ 0 \in Word /\ ICLatency \in Nat
    BY Moduli, PipelineAssumption DEF PipeInv, TypeOK
  <1>2. CASE lastPc = pc
    BY <1>1, <1>2, NoFetchLeaves DEF Fetch
  <1>3. CASE lastPc # pc /\ haltSeen
    BY <1>1, <1>3, NoFetchLeaves DEF Fetch
  <1>4. CASE lastPc # pc /\ ~ haltSeen /\ fetchHalt > 1
    <2>1. fetchHalt - 1 \in 0 .. ICLatency
      BY <1>1, <1>4
    <2> QED
      BY <1>1, <1>4, <2>1, NoFetchLeaves DEF Fetch
  <1>5. CASE lastPc # pc /\ ~ haltSeen /\ ~ (fetchHalt > 1)
    BY <1>5, LookupLeaves DEF Fetch
  <1> QED
    BY <1>2, <1>3, <1>4, <1>5

-----------------------------------------------------------------------------
(***************************************************************************)
(* Decode and memory.                                                      *)
(***************************************************************************)

DecodeLeaves(d) ==
  /\ d.latch \in Latch /\ Shifts(d.latch)
  /\ d.target \in Word \union {None} /\ d.trap \in BOOLEAN /\ d.stall \in BOOLEAN

LEMMA DestReg ==
  ASSUME NEW i, Decoded(i)
  PROVE  Dest(i) \in Reg
  <1>1. i.op \in Ops /\ i.rt \in Reg /\ i.rd \in Reg /\ 0 \in Reg /\ LinkReg \in Reg
    BY MipsAssumption DEF Decoded, Instr, Reg
  <1> QED
    BY <1>1 DEF Dest

\* The latch an instruction is decoded to, before a branch gets its operands.
Plain(rg, i) ==
  [op |-> i.op, rs |-> i.rs, rt |-> i.rt, imm |-> i.imm,
   rsValue |-> rg[i.rs], rtValue |-> rg[i.rt], dest |-> Dest(i),
   value |-> IF i.op = "jal" THEN Plus(ifid.pc, 8) ELSE NoValue, at |-> ifid.at]

LEMMA PlainLatch ==
  ASSUME TypeOK, NEW rg \in [Reg -> Word], NEW i, Decoded(i)
  PROVE  Plain(rg, i) \in Latch /\ Shifts(Plain(rg, i))
  <1>1. /\ i.op \in Ops /\ i.rs \in Reg /\ i.rt \in Reg /\ i.imm \in Nat
        /\ i.op \in {"sll", "srl"} => i.imm \in Bits
    BY DEF Decoded, Instr
  <1>2. Dest(i) \in Reg
    BY DestReg
  <1>3. ifid.pc \in Word /\ ifid.at \in Word \union {None}
    BY DEF TypeOK
  <1>4. Plus(ifid.pc, 8) \in Word
    <2>1. ifid.pc \in Word /\ Word \subseteq Int
      BY <1>3, WordNat
    <2>2. ifid.pc \in Int
      BY ONLY <2>1
    <2> QED
      BY ONLY <2>2, PlusWord
  <1>5. rg[i.rs] \in Word /\ rg[i.rt] \in Word
    BY <1>1
  <1> QED
    BY ONLY <1>1, <1>2, <1>3, <1>4, <1>5 DEF Plain, Latch, Shifts

LEMMA DecodeKeeps ==
  ASSUME TypeOK, NEW rg \in [Reg -> Word]
  PROVE  /\ DecodeLeaves(Decode(rg))
         /\ Decode(rg).latch.op = "halt" => ifid.word = HaltWord
         /\ ifid.word \in {0, HaltWord} =>
              /\ ~ Decode(rg).trap /\ ~ Decode(rg).stall
              /\ Decode(rg).latch.op = (IF ifid.word = 0 THEN "sll" ELSE "halt")
              /\ Decode(rg).latch.dest = 0 /\ Decode(rg).latch.at = ifid.at
  <1> DEFINE i == Code[ifid.word]
             plain == Plain(rg, i)
             branch == i.op \in Branches \union {"jr"}
             d == IF branch THEN ForwardBranch(plain) ELSE plain
             trap == i.op \in {"illegal", "badFunct"}
             target ==
               CASE trap -> ExcAddr
                 [] i.op = "jr" -> d.rsValue
                 [] i.op \in {"j", "jal"} -> JumpTarget(ifid.pc, i.imm)
                 [] i.op \in Branches ->
                      IF BranchTaken(i.op, d.rsValue, d.rtValue)
                      THEN BranchTarget(ifid.pc, i.imm) ELSE None
                 [] OTHER -> None
             latch == IF trap THEN [Bubble EXCEPT !.at = ifid.at] ELSE d
             stall == \/ /\ i.op \in Branches \union {"jr"}
                         /\ BranchNeedsStall(d, i.op \in {"beq", "bne"})
                      \/ LoadUse(d)
  <1>1. ifid.word \in Word /\ ifid.pc \in Word /\ ifid.at \in Word \union {None}
    BY DEF TypeOK
  <1>2. Decoded(i)
    BY <1>1, CodeDecoded
  <1>3. /\ i.imm \in Nat /\ i.op \in Ops /\ i.rs \in Reg /\ i.rt \in Reg
        /\ i.op \in {"j", "jal"} => i.imm < JumpMod
    BY <1>2 DEF Decoded, Instr
  <1>4. /\ i.op = "halt" <=> ifid.word = HaltWord
        /\ i.op = "halt" => i.rs = 0 /\ i.rt = 0
    BY <1>1, MipsAssumption
  <1>5. Decode(rg) = [latch |-> latch, target |-> target, trap |-> trap, stall |-> stall]
    BY DEF Decode, Plain
  <1>6. plain \in Latch /\ Shifts(plain)
    BY <1>2, PlainLatch
  <1>7. plain.op = i.op /\ plain.at = ifid.at /\ plain.rs = i.rs /\ plain.rt = i.rt
        /\ plain.dest = Dest(i)
    BY DEF Plain
  <1>12. ifid.word = 0 => i = Nop
    BY MipsAssumption
  <1> HIDE DEF plain, i
  <1>8. d \in Latch /\ SameInstr(d, plain)
    <2>1. exmem \in Latch
      BY DEF TypeOK
    <2> QED
      BY <1>6, <2>1, ForwardBranchKeeps DEF SameInstr
  <1> HIDE DEF d
  <1>9. /\ d.op = i.op /\ d.at = ifid.at /\ d.rs = i.rs /\ d.rt = i.rt
        /\ d.dest = Dest(i) /\ d.rsValue \in Word /\ Shifts(d)
    BY <1>6, <1>7, <1>8, LatchParts DEF SameInstr, Shifts
  <1>10. latch \in Latch /\ Shifts(latch)
    <2>1. CASE trap
      BY <1>1, <2>1, BubbleLatch DEF Latch, Shifts
    <2>2. CASE ~ trap
      BY <1>8, <1>9, <2>2
    <2> QED
      BY <2>1, <2>2
  <1>11. target \in Word \union {None}
    <2>1. i.op \in {"j", "jal"} => JumpTarget(ifid.pc, i.imm) \in Word
      BY <1>1, <1>3, JumpWord
    <2>2. BranchTarget(ifid.pc, i.imm) \in Word /\ ExcAddr \in Word
      BY <1>1, <1>3, BranchWord, MipsAssumption
    <2> QED
      BY <1>9, <2>1, <2>2
  <1>13. stall \in BOOLEAN /\ trap \in BOOLEAN
    BY DEF LoadUse, BranchNeedsStall
  <1>14. DecodeLeaves(Decode(rg))
    BY <1>5, <1>10, <1>11, <1>13 DEF DecodeLeaves
  <1>15. Decode(rg).latch.op = "halt" => ifid.word = HaltWord
    <2>1. CASE trap
      BY <1>5, <2>1 DEF Bubble
    <2>2. CASE ~ trap
      BY <1>4, <1>5, <1>9, <2>2
    <2> QED
      BY <2>1, <2>2
  <1>16. ASSUME ifid.word \in {0, HaltWord}
         PROVE  /\ ~ trap /\ ~ stall /\ latch = d /\ d.dest = 0
                /\ d.op = (IF ifid.word = 0 THEN "sll" ELSE "halt")
    <2>1. HaltWord # 0
      BY MipsAssumption
    <2>2. /\ i.op = (IF ifid.word = 0 THEN "sll" ELSE "halt")
          /\ i.rs = 0 /\ i.rt = 0 /\ (i.op = "sll" => i.rd = 0)
      BY <1>4, <1>12, <1>16, <2>1 DEF Nop
    <2>3. Dest(i) = 0
      BY <2>2 DEF Dest, RAlu, IAlu, Loads, Atomics
    <2>4. ~ LoadUse(d)
      BY <1>9, <2>2 DEF LoadUse
    <2>5. i.op \notin Branches \union {"jr", "illegal", "badFunct"}
      BY <2>2 DEF Branches
    <2> QED
      BY <1>9, <2>2, <2>3, <2>4, <2>5
  <1> HIDE DEF trap, stall, latch, target
  <1> QED
    BY <1>5, <1>9, <1>14, <1>15, <1>16

\* What the memory stage leaves of latch x: an access keeps the data cache
\* sound, a load also what programs see through it, and what is not an access
\* changes nothing.
MemLeaves(m, x) ==
  /\ m.latch \in Latch /\ m.latch.op = x.op /\ m.latch.dest = x.dest /\ m.latch.at = x.at
  /\ m.delay \in 0 .. DCLatency /\ (m.delay # 0 => m.latch = x)
  /\ m.lines \in D!LinesOver(Byte) /\ m.mem \in [0 .. MemSize - 1 -> Byte]
  /\ m.stats \in Counters
  /\ D!OneCopy(m.lines) /\ D!CleanAgrees(m.lines, m.mem)
  /\ x.op \notin Stores => D!View(m.lines, m.mem) = D!View(dLines, mem)
  /\ x.op \notin Loads \union Stores =>
       m = [latch |-> x, delay |-> 0, lines |-> dLines, mem |-> mem, stats |-> dStats]

\* The rest of handleMem, after the cache has answered with t.
LEMMA AccessedLeaves ==
  ASSUME NEW x \in Latch, NEW t,
         t.cache \in D!CacheState(Byte, MemSize),
         D!OneCopy(t.cache.lines), D!CleanAgrees(t.cache.lines, t.cache.mem),
         x.op \in Loads => WordOf(t.bytes) \in Word,
         x.op \notin Stores => D!View(t.cache.lines, t.cache.mem) = D!View(dLines, mem),
         x.op \in Loads \union Stores
  PROVE  MemLeaves(Accessed(x, t), x)
  <1> DEFINE c == t.cache
             l == IF x.op \in Loads /\ c.result = 0
                  THEN [x EXCEPT !.value = WordOf(t.bytes)] ELSE x
  <1>1. /\ c.lines \in D!LinesOver(Byte) /\ c.mem \in [0 .. MemSize - 1 -> Byte]
        /\ c.hits \in 0 .. CounterMod - 1 /\ c.misses \in 0 .. CounterMod - 1
        /\ c.result \in {0, DCLatency}
    BY Geometries, D!StateParts
  <1>2. c.result \in 0 .. DCLatency
    BY <1>1, PipelineAssumption
  <1>3. /\ l \in Latch /\ l.op = x.op /\ l.dest = x.dest /\ l.at = x.at
        /\ c.result # 0 => l = x
    <2>1. CASE x.op \in Loads /\ c.result = 0
      <3>1. WordOf(t.bytes) \in Word
        BY <2>1
      <3> QED
        BY <2>1, <3>1, ValueKeeps
    <2>2. CASE ~ (x.op \in Loads /\ c.result = 0)
      BY <2>2
    <2> QED
      BY <2>1, <2>2
  <1>4. Accessed(x, t) = [latch |-> l, delay |-> c.result, lines |-> c.lines, mem |-> c.mem,
                          stats |-> [hits |-> c.hits, misses |-> c.misses]]
    BY DEF Accessed
  <1> HIDE DEF l
  <1> QED
    BY <1>1, <1>2, <1>3, <1>4 DEF MemLeaves, Counters

LEMMA SizeIn == \A op : Size(op) \in {1, 2, 4}
  BY DEF Size

LEMMA MemKeeps ==
  ASSUME PipeInv, NEW x \in Latch, NEW u \in Byte
  PROVE  MemLeaves(MemAccess(x, mem, u), x)
  <1> DEFINE p == Before(dLines, mem, dStats, u)
             a == DataAddr(x.rsValue, x.imm)
             n == Size(x.op)
             t == D!GetCacheValue(p, a, n, cycle, 0, u)
             s == D!SetCacheValue(p, a, BytesOf(x.rtValue, n), cycle, 0, u)
  <1>1. /\ LinesTyped /\ cycle \in Nat /\ 0 \in Nat /\ DCLatency \in Nat
        /\ D!OneCopy(dLines) /\ D!CleanAgrees(dLines, mem)
    BY TypedLines, PipelineAssumption DEF PipeInv, TypeOK, CachesSound
  <1>2. /\ p \in D!CacheState(Byte, MemSize) /\ p.lines = dLines /\ p.mem = mem
        /\ p.result = 0 /\ p.hits = dStats.hits /\ p.misses = dStats.misses
    BY <1>1, BeforeState DEF Before
  <1>3. D!Sound(p)
    BY <1>1, <1>2 DEF D!Sound
  <1>4. n \in {1, 2, 4} /\ a \in Nat /\ MemSize \in Nat /\ x.rtValue \in Word
    <2>1. a \in Word
      BY LatchParts, DataWord
    <2>2. Word \subseteq Nat
      BY WordNat
    <2> HIDE DEF a
    <2> QED
      BY <2>1, <2>2, SizeIn, BytesHere, LatchParts
  <1>5. MemAccess(x, mem, u) =
          Accessed(x, CASE x.op \in Loads  -> t
                        [] x.op \in Stores -> [cache |-> s, bytes |-> <<>>]
                        [] OTHER           -> [cache |-> p, bytes |-> <<>>])
    BY DCacheSame DEF MemAccess, Before
  <1>6. Loads \intersect Stores = {}
    BY DEF Loads, Stores
  <1> HIDE DEF p, a, n
  <1>7. CASE x.op \in Loads
    <2>1. D!ReadKept(t.cache, p, Byte, MemSize) /\ t.bytes \in [1 .. n -> Byte]
      BY <1>1, <1>2, <1>4, Geometries, D!ReadAny
    <2> HIDE DEF t
    <2>2. WordOf(t.bytes) \in Word
      BY <1>4, <2>1, WordOfWord
    <2>3. /\ t.cache \in D!CacheState(Byte, MemSize)
          /\ D!OneCopy(t.cache.lines) /\ D!CleanAgrees(t.cache.lines, t.cache.mem)
          /\ D!View(t.cache.lines, t.cache.mem) = D!View(dLines, mem)
      BY <1>2, <1>3, <2>1 DEF D!ReadKept, D!Sound
    <2>4. MemLeaves(Accessed(x, t), x)
      BY <1>7, <2>2, <2>3, AccessedLeaves
    <2>5. MemAccess(x, mem, u) = Accessed(x, t)
      BY <1>5, <1>6, <1>7
    <2> QED
      BY <2>4, <2>5
  <1>8. CASE x.op \in Stores
    <2> DEFINE r == [cache |-> s, bytes |-> <<>>]
    <2>1. BytesOf(x.rtValue, n) \in [1 .. n -> Byte]
      BY <1>4, BytesOfBytes
    <2>2. D!WriteKept(s, p, Byte, MemSize)
      BY <1>1, <1>2, <1>4, <2>1, Geometries, D!WriteAny
    <2> HIDE DEF s
    <2>3. /\ r.cache \in D!CacheState(Byte, MemSize)
          /\ D!OneCopy(r.cache.lines) /\ D!CleanAgrees(r.cache.lines, r.cache.mem)
      BY <1>3, <2>2 DEF D!WriteKept, D!Sound
    <2> HIDE DEF r
    <2>4. MemLeaves(Accessed(x, r), x)
      BY <1>6, <1>8, <2>3, AccessedLeaves
    <2>5. MemAccess(x, mem, u) = Accessed(x, r)
      BY <1>5, <1>6, <1>8 DEF r
    <2> QED
      BY <2>4, <2>5
  <1>9. CASE x.op \notin Loads \union Stores
    <2>1. MemAccess(x, mem, u) = Accessed(x, [cache |-> p, bytes |-> <<>>])
      BY <1>5, <1>9
    <2>2. dStats = [hits |-> dStats.hits, misses |-> dStats.misses]
      BY <1>1 DEF LinesTyped, Counters
    <2>3. MemAccess(x, mem, u) = [latch |-> x, delay |-> 0, lines |-> dLines, mem |-> mem,
                                  stats |-> dStats]
      BY <1>2, <1>9, <2>1, <2>2 DEF Accessed
    <2> QED
      BY <1>1, <2>3 DEF MemLeaves, LinesTyped
  <1> QED
    BY <1>7, <1>8, <1>9

-----------------------------------------------------------------------------
(***************************************************************************)
(* A cycle.                                                                *)
(***************************************************************************)

\* A simulation that starts, with any registers and memory.
Started ==
  /\ regs \in [Reg -> Word] /\ regs[0] = 0 /\ mem \in [Addr -> Byte]
  /\ iLines = ICache!EmptyLines /\ dLines = DCache!EmptyLines
  /\ iStats = [hits |-> 0, misses |-> 0] /\ dStats = [hits |-> 0, misses |-> 0]
  /\ pc = 0 /\ ifid = EmptyFetch
  /\ idex = Bubble /\ exmem = Bubble /\ memwb = Bubble
  /\ haltSeen = FALSE /\ fetchHalt = 0 /\ memHalt = 0
  /\ lastPc = None /\ lastWord = 0 /\ cycle = 0 /\ halted = FALSE

LEMMA InitStarts == Init => Started
  <1>1. 0 \in Word /\ 0 \in Reg
    BY Moduli, MipsAssumption DEF Reg
  <1>2. Images \subseteq [Addr -> Byte]
    BY PipelineAssumption
  <1> QED
    BY <1>1, <1>2 DEF Init, Started

LEMMA StartTypes == Started => PipeInv
  <1> SUFFICES ASSUME Started
               PROVE  PipeInv
    OBVIOUS
  <1>1. /\ mem \in [Addr -> Byte] /\ regs \in [Reg -> Word] /\ regs[0] = 0
        /\ MaxCycle \in Nat /\ CounterMod \in Nat \ {0}
        /\ ICLatency \in Nat /\ DCLatency \in Nat
    BY PipelineAssumption DEF Started
  <1>2. 0 \in Word /\ 0 \in Reg
    BY Moduli, MipsAssumption DEF Reg
  <1>3. /\ iLines \in I!LinesOver(Byte) /\ dLines \in D!LinesOver(Byte)
        /\ CachesSound
    BY ICacheSame, DCacheSame, Geometries, I!EmptyAny, D!EmptyAny, BytesHere
       DEF Started, CachesSound
  <1>4. [hits |-> 0, misses |-> 0] \in Counters
    BY <1>1 DEF Counters
  <1>5. EmptyFetch \in [pc : Word, word : Word, at : Word \union {None}]
    BY <1>2 DEF EmptyFetch
  <1>7. TypeOK
    <2>1. /\ iStats \in Counters /\ dStats \in Counters
          /\ ifid \in [pc : Word, word : Word, at : Word \union {None}]
      BY <1>4, <1>5 DEF Started
    <2>3. idex \in Latch /\ exmem \in Latch /\ memwb \in Latch
      BY BubbleLatch DEF Started
    <2>4. /\ pc \in Word /\ haltSeen \in BOOLEAN /\ halted \in BOOLEAN
          /\ fetchHalt \in 0 .. ICLatency /\ memHalt \in 0 .. DCLatency
          /\ lastPc \in Word \union {None} /\ lastWord \in Word
          /\ cycle \in 0 .. MaxCycle
      <3>1. 0 \in 0 .. ICLatency /\ 0 \in 0 .. DCLatency /\ 0 \in 0 .. MaxCycle
        BY <1>1
      <3>2. /\ pc = 0 /\ haltSeen = FALSE /\ halted = FALSE /\ fetchHalt = 0
            /\ memHalt = 0 /\ lastPc = None /\ lastWord = 0 /\ cycle = 0
        BY DEF Started
      <3> QED
        BY ONLY <1>2, <3>1, <3>2
    <2>2. /\ iLines \in [ICache!Sets -> [ICache!Ways -> ICache!LineOf(Byte)]]
          /\ dLines \in [DCache!Sets -> [DCache!Ways -> DCache!LineOf(Byte)]]
      BY <1>3, ICacheSame, DCacheSame DEF I!LinesOver, D!LinesOver
    <2> QED
      BY <1>1, <2>1, <2>2, <2>3, <2>4 DEF TypeOK
  <1>8. Shifts(idex)
    BY BubbleLatch DEF Started
  <1> QED
    BY <1>3, <1>7, <1>8 DEF PipeInv

\* The stages of a cycle.
Doomed == ExOverflow(Operands)
Step(u, f) ==
  Advance(WriteBack(memwb), f, Decode(WriteBack(memwb)), Operands,
          MemAccess(Accessing, mem, u))

\* A cycle fetches f, and the memory stage finds the memory as the fetch did.
LEMMA CycleSteps ==
  ASSUME PipeInv, Cycle
  PROVE  memHalt <= 1 /\ \E u \in Byte : FetchLeaves(Fetch(u)) /\ Step(u, Fetch(u))
  <1>1. PICK u \in Junk :
          Advance(WriteBack(memwb), Fetch(u), Decode(WriteBack(memwb)), Operands,
                  MemAccess(Accessing, Fetch(u).mem, u))
    BY DEF Cycle
  <1>2. u \in Byte
    BY PipelineAssumption
  <1>3. FetchLeaves(Fetch(u)) /\ Fetch(u).mem = mem
    BY <1>2, FetchKeeps DEF FetchLeaves
  <1>4. Step(u, Fetch(u))
    BY <1>1, <1>3 DEF Step
  <1> QED
    BY <1>2, <1>3, <1>4 DEF Cycle

LEMMA StageTypes ==
  ASSUME PipeInv
  PROVE  /\ Operands \in Latch /\ SameInstr(Operands, idex) /\ Shifts(Operands)
         /\ Accessing \in Latch /\ SameInstr(Accessing, exmem)
         /\ WriteBack(memwb) \in [Reg -> Word] /\ WriteBack(memwb)[0] = 0
         /\ DecodeLeaves(Decode(WriteBack(memwb)))
  <1>1. /\ TypeOK /\ Shifts(idex) /\ idex \in Latch /\ exmem \in Latch /\ memwb \in Latch
        /\ regs \in [Reg -> Word] /\ regs[0] = 0
    BY DEF PipeInv, TypeOK
  <1>2. Forward(idex, memwb) \in Latch /\ SameInstr(Forward(idex, memwb), idex)
    BY <1>1, ForwardKeeps
  <1>3. Operands \in Latch /\ SameInstr(Operands, Forward(idex, memwb))
    BY <1>1, <1>2, ForwardKeeps DEF Operands
  <1>4. SameInstr(Operands, idex) /\ Shifts(Operands)
    BY <1>1, <1>2, <1>3 DEF SameInstr, Shifts
  <1>5. Accessing \in Latch /\ SameInstr(Accessing, exmem)
    <2>1. CASE exmem.op \in IType
      BY <1>1, <2>1, ForwardMemKeeps DEF Accessing
    <2>2. CASE exmem.op \notin IType
      BY <1>1, <2>2 DEF Accessing, SameInstr
    <2> QED
      BY <2>1, <2>2
  <1>6. WriteBack(memwb) \in [Reg -> Word] /\ WriteBack(memwb)[0] = 0
    BY <1>1, WriteBackKeeps
  <1>7. DecodeLeaves(Decode(WriteBack(memwb)))
    BY <1>1, <1>6, DecodeKeeps
  <1> QED
    BY <1>3, <1>4, <1>5, <1>6, <1>7

LEMMA CycleKeeps ==
  ASSUME PipeInv, Cycle, cycle < MaxCycle
  PROVE  PipeInv'
  <1>1. PICK u \in Byte : FetchLeaves(Fetch(u)) /\ Step(u, Fetch(u))
    BY CycleSteps
  <1> DEFINE rg == WriteBack(memwb)
             f  == Fetch(u)
             d  == Decode(rg)
             e  == Operands
             m  == MemAccess(Accessing, mem, u)
  <1>2. /\ e \in Latch /\ SameInstr(e, idex) /\ Shifts(e)
        /\ rg \in [Reg -> Word] /\ rg[0] = 0 /\ DecodeLeaves(d)
    BY StageTypes
  <1>3. MemLeaves(m, Accessing)
    BY StageTypes, MemKeeps
  <1>4. Execute(e) \in Latch
    BY <1>2, ExecuteKeeps
  <1>5. /\ TypeOK /\ pc \in Word /\ Plus(pc, 4) \in Word /\ ExcAddr \in Word /\ 0 \in Word
    <2>1. TypeOK /\ pc \in Word /\ Word \subseteq Int
      BY WordNat DEF PipeInv, TypeOK
    <2>2. pc \in Int
      BY ONLY <2>1
    <2>3. Plus(pc, 4) \in Word
      BY ONLY <2>2, PlusWord
    <2> QED
      BY <2>1, <2>3, Moduli, MipsAssumption
  <1>6. Advance(rg, f, d, e, m)
    BY <1>1 DEF Step
  <1> HIDE DEF rg, f, d, e, m
  <1>7. FetchLeaves(f)
    BY <1>1 DEF f
  <1>8. /\ regs' \in [Reg -> Word] /\ regs'[0] = 0
        /\ mem' \in [Addr -> Byte]
        /\ iStats' \in Counters /\ dStats' \in Counters
        /\ fetchHalt' \in 0 .. ICLatency /\ memHalt' \in 0 .. DCLatency
        /\ lastPc' \in Word \union {None} /\ lastWord' \in Word
    BY <1>2, <1>3, <1>6, <1>7 DEF Advance, FetchLeaves, MemLeaves, Addr
  <1>9. /\ iLines' \in I!LinesOver(Byte) /\ dLines' \in D!LinesOver(Byte)
        /\ CachesSound'
    <2>1. iLines' = f.lines /\ dLines' = m.lines /\ mem' = m.mem
      BY <1>6 DEF Advance
    <2> QED
      BY <1>3, <1>7, <2>1 DEF FetchLeaves, MemLeaves, CachesSound
  <1>10. pc' \in Word
    BY <1>2, <1>5, <1>6 DEF Advance, DecodeLeaves
  <1>11. ifid' \in [pc : Word, word : Word, at : Word \union {None}]
    <2>1. EmptyFetch \in [pc : Word, word : Word, at : Word \union {None}]
      BY <1>5 DEF EmptyFetch
    <2>2. /\ ifid \in [pc : Word, word : Word, at : Word \union {None}]
          /\ f.word \in Word /\ f.at \in Word \union {None}
      BY <1>5, <1>7 DEF TypeOK, FetchLeaves
    <2> QED
      BY <1>5, <1>6, <2>1, <2>2 DEF Advance
  <1>12. /\ idex' \in Latch /\ Shifts(idex') /\ exmem' \in Latch /\ memwb' \in Latch
    BY <1>2, <1>3, <1>4, <1>6, BubbleLatch DEF Advance, DecodeLeaves, MemLeaves
  <1>13. haltSeen' \in BOOLEAN /\ halted' \in BOOLEAN
    BY <1>5, <1>6 DEF Advance, SeesHalt, TypeOK
  <1>14. cycle' \in 0 .. MaxCycle
    BY <1>5, <1>6, PipelineAssumption DEF Advance, TypeOK
  <1>15. TypeOK'
    <2>1. /\ iLines' \in [ICache!Sets -> [ICache!Ways -> ICache!LineOf(Byte)]]
          /\ dLines' \in [DCache!Sets -> [DCache!Ways -> DCache!LineOf(Byte)]]
      BY <1>9, ICacheSame, DCacheSame DEF I!LinesOver, D!LinesOver
    <2> QED
      BY ONLY <1>8, <1>10, <1>11, <1>12, <1>13, <1>14, <2>1 DEF TypeOK
  <1> QED
    BY <1>9, <1>12, <1>15 DEF PipeInv, Shifts

LEMMA FreezeKeeps ==
  ASSUME PipeInv, Freeze, cycle < MaxCycle
  PROVE  PipeInv'
  <1>1. /\ memHalt \in 0 .. DCLatency /\ fetchHalt \in 0 .. ICLatency /\ cycle \in 0 .. MaxCycle
        /\ DCLatency \in Nat /\ ICLatency \in Nat /\ MaxCycle \in Nat
    BY PipelineAssumption DEF PipeInv, TypeOK
  <1>2. /\ memHalt' \in 0 .. DCLatency /\ fetchHalt' \in 0 .. ICLatency
        /\ cycle' \in 0 .. MaxCycle
    BY <1>1 DEF Freeze
  <1>3. UNCHANGED <<regs, mem, iLines, iStats, dLines, dStats, pc, ifid, haltSeen, lastPc,
                    lastWord, idex, exmem, memwb, halted>>
    BY DEF Freeze, cacheVars, latchVars
  <1>4. TypeOK'
    BY <1>2, <1>3 DEF PipeInv, TypeOK
  <1>5. CachesSound' /\ Shifts(idex)'
    BY <1>3 DEF PipeInv, CachesSound, Shifts
  <1> QED
    BY <1>4, <1>5 DEF PipeInv

LEMMA StutterKeeps ==
  ASSUME PipeInv, UNCHANGED vars
  PROVE  PipeInv'
  <1>1. UNCHANGED <<regs, mem, iLines, iStats, dLines, dStats, pc, ifid, haltSeen, lastPc,
                    lastWord, idex, exmem, memwb, halted, fetchHalt, memHalt, cycle>>
    BY DEF vars, cacheVars, fetchVars, latchVars
  <1>2. TypeOK'
    BY <1>1 DEF PipeInv, TypeOK
  <1>3. CachesSound' /\ Shifts(idex)'
    BY <1>1 DEF PipeInv, CachesSound, Shifts
  <1> QED
    BY <1>2, <1>3 DEF PipeInv

\* The values the pipeline computes and stores fit their variables, in every run
\* of runTillHalt (runCycle).
THEOREM PipelineTypes == Spec => []TypeOK
  <1>1. Init => PipeInv
    BY InitStarts, StartTypes
  <1>2. PipeInv /\ [Next]_vars => PipeInv'
    BY CycleKeeps, FreezeKeeps, StutterKeeps DEF Next, RunCycle
  <1>3. PipeInv => TypeOK
    BY DEF PipeInv
  <1> QED
    BY <1>1, <1>2, <1>3, PTL DEF Spec

-----------------------------------------------------------------------------
(***************************************************************************)
(* The end of a program.  Once the halt word is on its way nothing behind  *)
(* it writes a register, accesses memory or traps.                         *)
(***************************************************************************)

Quiet(l)   == l.dest = 0 /\ l.op \in {"sll", "halt"} /\ (l.op = "halt" \/ l.at = None)
QuietFetch == ifid.word = HaltWord \/ (ifid.word = 0 /\ ifid.at = None)

\* The fetch has seen the halt word, and would fetch no other.
Ends == haltSeen /\ lastWord = HaltWord

\* The halt word in each stage.  A data miss delays the squash that an overflow
\* makes of a halt word in the IF/ID latch: haltSeen is reset before it.
HaltFetched  == ifid.word = HaltWord => Ends \/ Doomed
HaltDecoded  == idex.op = "halt" => Ends /\ QuietFetch
HaltExecuted == exmem.op = "halt" => Ends /\ QuietFetch /\ Quiet(idex)
HaltLast     == /\ memwb.op = "halt" \/ halted =>
                     Ends /\ QuietFetch /\ Quiet(idex) /\ Quiet(exmem)
                /\ halted => Quiet(memwb)

HaltInv == HaltFetched /\ HaltDecoded /\ HaltExecuted /\ HaltLast

\* A halt word that is fetched is the last word; with haltSeen none other is.
LEMMA FetchHalts ==
  ASSUME NEW u
  PROVE  /\ Fetch(u).word = HaltWord /\ ~ Fetch(u).stall => Fetch(u).lastWord = HaltWord
         /\ haltSeen => /\ Fetch(u).stall = FALSE /\ Fetch(u).lastWord = lastWord
                        /\ \/ Fetch(u).word = lastWord
                           \/ Fetch(u).word = 0 /\ Fetch(u).at = None
                        /\ Fetch(u).lines = iLines /\ Fetch(u).stats = iStats
                        /\ Fetch(u).mem = mem
  <1>1. HaltWord # 0
    BY MipsAssumption
  <1>2. CASE lastPc = pc
    BY <1>2 DEF Fetch, NoFetch
  <1>3. CASE lastPc # pc /\ haltSeen
    BY <1>1, <1>3 DEF Fetch, NoFetch
  <1>4. CASE lastPc # pc /\ ~ haltSeen /\ fetchHalt > 1
    BY <1>1, <1>4 DEF Fetch, NoFetch
  <1>5. CASE lastPc # pc /\ ~ haltSeen /\ ~ (fetchHalt > 1)
    <2> DEFINE t == ICache!GetCacheValue(Before(iLines, mem, iStats, u), pc, 4, cycle, 0, u)
    <2>1. Fetch(u) = Fetched(t)
      BY <1>5 DEF Fetch, Lookup, Before
    <2> DEFINE found == t.cache.result = 0
               word  == WordOf(t.bytes)
    <2>2. /\ Fetched(t).word = word /\ Fetched(t).stall = ~ found
          /\ Fetched(t).lastWord = IF found THEN word ELSE lastWord
      BY DEF Fetched
    <2> HIDE DEF t, found, word
    <2> QED
      BY <1>5, <2>1, <2>2
  <1> QED
    BY <1>2, <1>3, <1>4, <1>5

\* What is quiet neither overflows nor accesses memory.
LEMMA QuietStages ==
  ASSUME NEW l, l.op \in {"sll", "halt"}
  PROVE  /\ ~ ExOverflow(l) /\ l.op \notin Loads \union Stores
         /\ l.op \notin IType
  BY DEF ExOverflow, Overflows, Loads, Stores, IType, IAlu, Atomics, Branches

\* A cycle of a data miss is tried again with the same operands.
LEMMA SameOperands ==
  ASSUME NEW d \in Latch, NEW l \in Latch, NEW k \in Latch,
         SameInstr(k, l)
  PROVE  Forward(Forward(Forward(d, l), Bubble), k) = Forward(d, l)
  <1> DEFINE e == Forward(d, l)
             x == IF Writes(l) /\ l.dest = d.rs THEN l.value ELSE d.rsValue
             y == IF Writes(l) /\ l.dest = d.rt THEN l.value ELSE d.rtValue
  <1>1. e = [d EXCEPT !.rsValue = x, !.rtValue = y]
    BY DEF Forward
  <1>2. ~ Writes(Bubble)
    BY DEF Writes, Bubble
  <1>3. e \in Latch /\ SameInstr(e, d)
    BY ForwardKeeps
  <1> HIDE DEF e
  <1>4. e.rs = d.rs /\ e.rt = d.rt
    BY <1>3 DEF SameInstr
  <1>5. e.rsValue = x /\ e.rtValue = y
    BY <1>1 DEF Latch
  <1>6. Forward(e, Bubble) = e
    <2>1. Forward(e, Bubble) = [e EXCEPT !.rsValue = e.rsValue, !.rtValue = e.rtValue]
      BY <1>2 DEF Forward
    <2> QED
      BY <1>3, <2>1 DEF Latch
  <1>7. (Writes(k) <=> Writes(l)) /\ k.value = l.value /\ k.dest = l.dest
    BY DEF SameInstr, Writes
  <1>8. Forward(e, k) = e
    <2>1. (IF Writes(k) /\ k.dest = e.rs THEN k.value ELSE e.rsValue) = e.rsValue
      BY <1>4, <1>5, <1>7
    <2>2. (IF Writes(k) /\ k.dest = e.rt THEN k.value ELSE e.rtValue) = e.rtValue
      BY <1>4, <1>5, <1>7
    <2>3. Forward(e, k) = [e EXCEPT !.rsValue = e.rsValue, !.rtValue = e.rtValue]
      BY <2>1, <2>2 DEF Forward
    <2> QED
      BY <1>3, <2>3 DEF Latch
  <1> QED
    BY <1>6, <1>8 DEF e

LEMMA QuietSame ==
  ASSUME NEW k, NEW l, k.op = l.op, k.dest = l.dest, k.at = l.at
  PROVE  Quiet(k) <=> Quiet(l)
  BY DEF Quiet

\* Behind a halt word nothing but halt words and bubbles is fetched and decoded.
LEMMA EndsStay ==
  ASSUME PipeInv, NEW u \in Byte, Step(u, Fetch(u)), Ends, QuietFetch, ~ Doomed
  PROVE  /\ Ends' /\ QuietFetch'
         /\ MemAccess(Accessing, mem, u).delay = 0 => Quiet(idex')
  <1> DEFINE rg == WriteBack(memwb)
             f  == Fetch(u)
             d  == Decode(rg)
             e  == Operands
             m  == MemAccess(Accessing, mem, u)
  <1>1. TypeOK /\ rg \in [Reg -> Word]
    BY StageTypes DEF PipeInv
  <1>2. ifid.word \in {0, HaltWord}
    BY DEF QuietFetch
  <1>3. /\ ~ d.trap /\ ~ d.stall /\ d.latch.dest = 0 /\ d.latch.at = ifid.at
        /\ d.latch.op = (IF ifid.word = 0 THEN "sll" ELSE "halt")
    BY <1>1, <1>2, DecodeKeeps
  <1>4. /\ f.stall = FALSE /\ f.lastWord = HaltWord
        /\ f.word = HaltWord \/ (f.word = 0 /\ f.at = None)
    BY FetchHalts DEF Ends
  <1>5. Advance(rg, f, d, e, m) /\ ~ ExOverflow(e) /\ haltSeen
    BY DEF Step, Doomed, Ends
  <1> HIDE DEF rg, f, d, e, m
  <1>6. Ends'
    BY <1>3, <1>4, <1>5 DEF Advance, SeesHalt, Ends
  <1>7. QuietFetch'
    <2>1. ifid' = IF m.delay # 0 THEN ifid ELSE [pc |-> pc, word |-> f.word, at |-> f.at]
      BY <1>3, <1>4, <1>5 DEF Advance
    <2>2. CASE m.delay # 0
      BY <2>1, <2>2 DEF QuietFetch
    <2>3. CASE m.delay = 0
      BY <1>4, <2>1, <2>3 DEF QuietFetch
    <2> QED
      BY <2>2, <2>3
  <1>8. ASSUME m.delay = 0
        PROVE  Quiet(idex')
    <2>1. idex' = d.latch
      BY <1>3, <1>5, <1>8 DEF Advance
    <2>2. Quiet(d.latch)
      BY <1>3, MipsAssumption DEF Quiet, QuietFetch
    <2> QED
      BY <2>1, <2>2
  <1> QED
    BY <1>6, <1>7, <1>8 DEF m

\* What moves on when the halt word has reached the last stage, or the one
\* before it.
LEMMA EndMoves ==
  ASSUME PipeInv, NEW u \in Byte, Step(u, Fetch(u)), Ends, QuietFetch, Quiet(idex),
         exmem.op \in {"sll", "halt"}
  PROVE  /\ Ends' /\ QuietFetch' /\ Quiet(idex') /\ Quiet(exmem')
         /\ memwb'.op = exmem.op /\ memwb'.dest = exmem.dest /\ memwb'.at = exmem.at
  <1> DEFINE rg == WriteBack(memwb)
             f  == Fetch(u)
             d  == Decode(rg)
             e  == Operands
             m  == MemAccess(Accessing, mem, u)
  <1>1. e \in Latch /\ SameInstr(e, idex) /\ Shifts(e) /\ SameInstr(Accessing, exmem)
    BY StageTypes
  <1>2. ~ ExOverflow(e) /\ ~ Doomed
    BY <1>1, QuietStages DEF Doomed, SameInstr, Quiet
  <1>3. Accessing.op \notin Loads \union Stores
    BY <1>1, QuietStages DEF SameInstr
  <1>4. MemLeaves(m, Accessing)
    BY StageTypes, MemKeeps
  <1>5. Advance(rg, f, d, e, m)
    BY DEF Step
  <1>6. Ends' /\ QuietFetch' /\ (m.delay = 0 => Quiet(idex'))
    BY <1>2, EndsStay
  <1>7. /\ Execute(e).op = e.op /\ Execute(e).dest = e.dest /\ Execute(e).at = e.at
    BY <1>1, <1>2, ExecuteKeeps
  <1>8. Quiet(Execute(e))
    BY <1>1, <1>7, QuietSame DEF SameInstr, Quiet
  <1> HIDE DEF rg, f, d, e, m
  <1>9. m.delay = 0 /\ m.latch = Accessing
    BY <1>3, <1>4 DEF MemLeaves
  <1>10. exmem' = Execute(e) /\ memwb' = m.latch
    BY <1>5, <1>9 DEF Advance
  <1> QED
    BY <1>1, <1>6, <1>8, <1>9, <1>10 DEF SameInstr

LEMMA HaltsKept ==
  ASSUME PipeInv, HaltInv, Cycle
  PROVE  HaltInv'
  <1>1. PICK u \in Byte : FetchLeaves(Fetch(u)) /\ Step(u, Fetch(u))
    BY CycleSteps
  <1> DEFINE rg == WriteBack(memwb)
             f  == Fetch(u)
             d  == Decode(rg)
             e  == Operands
             m  == MemAccess(Accessing, mem, u)
  <1>2. /\ e \in Latch /\ SameInstr(e, idex) /\ Shifts(e) /\ rg \in [Reg -> Word]
        /\ Accessing \in Latch /\ SameInstr(Accessing, exmem) /\ TypeOK
    BY StageTypes DEF PipeInv
  <1>3. MemLeaves(m, Accessing)
    BY StageTypes, MemKeeps
  <1>4. Advance(rg, f, d, e, m)
    BY <1>1 DEF Step
  <1>5. /\ d.latch.op = "halt" => ifid.word = HaltWord
        /\ ifid.word = HaltWord => ~ d.trap /\ ~ d.stall
    BY <1>2, DecodeKeeps
  <1>6. /\ Doomed <=> ExOverflow(e)
        /\ e.op = "halt" => ~ ExOverflow(e)
    BY QuietStages DEF Doomed
  <1>7. Ends /\ QuietFetch /\ ~ Doomed =>
          Ends' /\ QuietFetch' /\ (m.delay = 0 => Quiet(idex'))
    BY <1>1, EndsStay
  <1>8. Ends /\ QuietFetch /\ Quiet(idex) /\ exmem.op \in {"sll", "halt"} =>
          /\ Ends' /\ QuietFetch' /\ Quiet(idex') /\ Quiet(exmem')
          /\ memwb'.op = exmem.op /\ memwb'.dest = exmem.dest /\ memwb'.at = exmem.at
    BY <1>1, EndMoves
  <1>9. /\ f.word = HaltWord /\ ~ f.stall => f.lastWord = HaltWord
        /\ haltSeen => f.lastWord = lastWord
    BY FetchHalts
  <1>10. HaltWord # 0
    BY MipsAssumption
  <1>11. ifid.word = HaltWord => QuietFetch
    BY DEF QuietFetch
  <1>12. m.delay # 0 => m.latch = Accessing /\ Accessing.op \in Loads \union Stores
    BY <1>3 DEF MemLeaves
  <1>13. /\ Execute(e).op = "halt" => e.op = "halt" /\ ~ Doomed
    BY <1>2, <1>6, ExecuteKeeps
  <1>14. Operands' = Forward(Forward(idex', memwb'), exmem')
    BY DEF Operands
  <1>15. \A k : SameInstr(k, exmem) /\ k \in Latch =>
           Forward(Forward(e, Bubble), k) = e
    <2> SUFFICES ASSUME NEW k \in Latch, SameInstr(k, exmem)
                 PROVE  Forward(Forward(e, Bubble), k) = e
      OBVIOUS
    <2>1. Forward(idex, memwb) \in Latch /\ exmem \in Latch
      BY <1>2, ForwardKeeps DEF TypeOK
    <2> QED
      BY <2>1, SameOperands DEF Operands
  <1> HIDE DEF rg, f, d, e, m
  <1>16. HaltFetched'
    <2> SUFFICES ASSUME ifid'.word = HaltWord
                 PROVE  Ends' \/ Doomed'
      BY DEF HaltFetched
    <2>1. ~ f.stall
      BY <1>4, <1>10 DEF Advance, EmptyFetch
    <2>2. CASE d.stall \/ m.delay # 0
      <3>1. ifid' = ifid
        BY <1>4, <2>1, <2>2 DEF Advance
      <3>2. ifid.word = HaltWord /\ m.delay # 0 /\ ~ d.trap
        BY <1>5, <2>2, <3>1
      <3>3. CASE Doomed
        <4>1. idex' = e /\ memwb' = Bubble /\ exmem' = Accessing
          BY <1>4, <1>12, <3>2 DEF Advance
        <4>2. Operands' = e
          BY <1>2, <1>14, <1>15, <4>1
        <4> QED
          BY <1>6, <3>3, <4>2 DEF Doomed
      <3>4. CASE ~ Doomed
        BY <1>7, <1>11, <3>2, <3>4 DEF HaltInv, HaltFetched
      <3> QED
        BY <3>3, <3>4
    <2>3. CASE ~ d.stall /\ m.delay = 0
      <3>1. f.word = HaltWord /\ ~ (d.trap \/ ExOverflow(e))
        BY <1>4, <1>10, <2>1, <2>3 DEF Advance
      <3>2. haltSeen' = TRUE /\ lastWord' = HaltWord
        BY <1>4, <1>9, <2>1, <3>1 DEF Advance, SeesHalt
      <3> QED
        BY <3>2 DEF Ends
    <2> QED
      BY <2>2, <2>3
  <1>17. HaltDecoded'
    <2> SUFFICES ASSUME idex'.op = "halt"
                 PROVE  Ends' /\ QuietFetch'
      BY DEF HaltDecoded
    <2>1. CASE m.delay # 0
      <3>1. idex.op = "halt" /\ ~ Doomed
        BY <1>2, <1>4, <1>6, <2>1 DEF Advance, SameInstr
      <3> QED
        BY <1>7, <3>1 DEF HaltInv, HaltDecoded
    <2>2. CASE m.delay = 0
      <3>1. ~ ExOverflow(e) /\ d.latch.op = "halt"
        BY <1>4, <2>2 DEF Advance, Bubble
      <3> QED
        BY <1>5, <1>6, <1>7, <1>11, <3>1 DEF HaltInv, HaltFetched
    <2> QED
      BY <2>1, <2>2
  <1>18. HaltExecuted'
    <2> SUFFICES ASSUME exmem'.op = "halt"
                 PROVE  Ends' /\ QuietFetch' /\ Quiet(idex')
      BY DEF HaltExecuted
    <2>1. m.delay = 0
      <3>1. CASE m.delay # 0
        <4>1. Accessing.op = "halt"
          BY <1>4, <1>12, <3>1 DEF Advance
        <4> QED
          BY <1>12, <3>1, <4>1 DEF Loads, Stores
      <3> QED
        BY <3>1
    <2>2. idex.op = "halt" /\ ~ Doomed
      BY <1>2, <1>4, <1>13, <2>1 DEF Advance, SameInstr
    <2> QED
      BY <1>7, <2>1, <2>2 DEF HaltInv, HaltDecoded
  <1>19. HaltLast'
    <2>1. halted' <=> (halted \/ memwb.op = "halt")
      BY <1>2, <1>4 DEF Advance, TypeOK
    <2>2. CASE halted \/ memwb.op = "halt"
      <3>1. Ends /\ QuietFetch /\ Quiet(idex) /\ Quiet(exmem)
        BY <2>2 DEF HaltInv, HaltLast
      <3>2. exmem.op \in {"sll", "halt"}
        BY <3>1 DEF Quiet
      <3>3. Quiet(memwb')
        BY <1>8, <3>1, <3>2, QuietSame
      <3> QED
        BY <1>8, <3>1, <3>2, <3>3 DEF HaltLast
    <2>3. CASE ~ (halted \/ memwb.op = "halt")
      <3>1. ASSUME memwb'.op = "halt"
            PROVE  exmem.op = "halt"
        <4>1. m.delay = 0
          BY <1>4, <3>1 DEF Advance, Bubble
        <4> QED
          BY <1>2, <1>3, <1>4, <3>1, <4>1 DEF Advance, MemLeaves, SameInstr
      <3>2. exmem.op = "halt" => Ends' /\ QuietFetch' /\ Quiet(idex') /\ Quiet(exmem')
        BY <1>8 DEF HaltInv, HaltExecuted
      <3> QED
        BY <2>1, <2>3, <3>1, <3>2 DEF HaltLast
    <2> QED
      BY <2>2, <2>3
  <1> QED
    BY <1>16, <1>17, <1>18, <1>19 DEF HaltInv

LEMMA HaltsHeld ==
  ASSUME HaltInv, UNCHANGED <<ifid, idex, exmem, memwb, haltSeen, lastWord, halted>>
  PROVE  HaltInv'
  <1>1. (Ends' <=> Ends) /\ (QuietFetch' <=> QuietFetch) /\ (Doomed' <=> Doomed)
    BY DEF Ends, QuietFetch, Doomed, Operands
  <1>2. /\ Quiet(idex') <=> Quiet(idex)
        /\ Quiet(exmem') <=> Quiet(exmem)
        /\ Quiet(memwb') <=> Quiet(memwb)
    BY QuietSame
  <1> QED
    BY <1>1, <1>2 DEF HaltInv, HaltFetched, HaltDecoded, HaltExecuted, HaltLast

LEMMA StartHalts == Started => HaltInv
  BY MipsAssumption
     DEF Started, HaltInv, HaltFetched, HaltDecoded, HaltExecuted, HaltLast, EmptyFetch, Bubble

-----------------------------------------------------------------------------
(***************************************************************************)
(* The calls of a driver.                                                  *)
(***************************************************************************)

Sound == PipeInv /\ HaltInv

LEMMA StartSound == Started => Sound
  BY StartTypes, StartHalts DEF Sound

LEMMA RunCycleSound ==
  ASSUME Sound, Freeze \/ Cycle, cycle < MaxCycle
  PROVE  Sound'
  <1>1. CASE Freeze
    <2>1. UNCHANGED <<ifid, idex, exmem, memwb, haltSeen, lastWord, halted>>
      BY <1>1 DEF Freeze, latchVars
    <2> QED
      BY <1>1, <2>1, FreezeKeeps, HaltsHeld DEF Sound
  <1>2. CASE Cycle
    BY <1>2, CycleKeeps, HaltsKept DEF Sound
  <1> QED
    BY <1>1, <1>2

LEMMA StutterSound ==
  ASSUME Sound, UNCHANGED vars
  PROVE  Sound'
  <1>1. UNCHANGED <<ifid, idex, exmem, memwb, haltSeen, lastWord, halted>>
    BY DEF vars, fetchVars, latchVars
  <1> QED
    BY <1>1, StutterKeeps, HaltsHeld DEF Sound

\* What finalizeSimulator leaves in memory: what programs see through the data
\* cache.  The instruction cache has nothing to write back, so the order of the
\* two drains makes no difference.
LEMMA DrainShows ==
  ASSUME PipeInv
  PROVE  /\ Drained = DCache!View(dLines, mem)
         /\ Drained \in [Addr -> Byte]
         /\ D!CleanAgrees(dLines, Drained)
  <1>1. /\ LinesTyped /\ I!Clean(iLines) /\ D!OneCopy(dLines) /\ D!CleanAgrees(dLines, mem)
    BY TypedLines DEF PipeInv, CachesSound
  <1>2. MemSize \in Nat /\ Addr = 0 .. MemSize - 1
    BY BytesHere
  <1>3. I!Drain(iLines, mem) = mem
    BY <1>1, Geometries, I!CleanDrain DEF LinesTyped
  <1>4. Drained = D!Drain(dLines, mem)
    BY <1>3, ICacheSame, DCacheSame DEF Drained
  <1>5. /\ D!Drain(dLines, mem) = D!View(dLines, mem)
        /\ D!Drain(dLines, mem) \in [0 .. MemSize - 1 -> Byte]
        /\ D!CleanAgrees(dLines, D!Drain(dLines, mem))
    BY <1>1, <1>2, Geometries, D!DrainView DEF LinesTyped
  <1> QED
    BY <1>2, <1>4, <1>5, DCacheSame

LEMMA FinalizeSound ==
  ASSUME Sound, FinalizeSimulator
  PROVE  Sound'
  <1>1. /\ UNCHANGED <<regs, iLines, iStats, dLines, dStats, pc, ifid, haltSeen, fetchHalt,
                       lastPc, lastWord, idex, exmem, memwb, memHalt, cycle, halted>>
        /\ mem' = Drained
    BY DEF FinalizeSimulator, fetchVars, latchVars
  <1>2. mem' \in [Addr -> Byte] /\ D!CleanAgrees(dLines, mem')
    BY <1>1, DrainShows DEF Sound
  <1>3. TypeOK'
    BY <1>1, <1>2 DEF Sound, PipeInv, TypeOK
  <1>4. CachesSound' /\ Shifts(idex)'
    BY <1>1, <1>2 DEF Sound, PipeInv, CachesSound, Shifts
  <1>5. HaltInv'
    BY <1>1, HaltsHeld DEF Sound
  <1> QED
    BY <1>3, <1>4, <1>5 DEF Sound, PipeInv

LEMMA RestartStarts ==
  ASSUME Sound, Restart
  PROVE  Started'
  <1>1. regs' \in [Reg -> Word] /\ regs'[0] = 0
    BY DEF Restart, InitSimulator, Sound, PipeInv, TypeOK
  <1>2. mem' \in [Addr -> Byte]
    <2>1. Again \subseteq [Addr -> Byte] /\ mem' \in Again
      BY DriverAssumption DEF Restart, InitSimulator
    <2> QED
      BY ONLY <2>1
  <1> QED
    BY <1>1, <1>2 DEF Restart, InitSimulator, ForgetHalt, ForgetFetch, Started

LEMMA RestartSound ==
  ASSUME Sound, Restart
  PROVE  Sound'
  <1>1. Started' => Sound'
    BY StartSound, PTL
  <1> QED
    BY <1>1, RestartStarts

LEMMA DriverStep == Sound /\ [DriverNext]_driverVars => Sound'
  <1> SUFFICES ASSUME Sound, [DriverNext]_driverVars
               PROVE  Sound'
    OBVIOUS
  <1>1. CASE RunCycles \/ RunTillHalt \/ UNCHANGED driverVars
    <2>1. UNCHANGED vars
      BY <1>1 DEF RunCycles, RunTillHalt, Call, driverVars, lockVars
    <2> QED
      BY <2>1, StutterSound
  <1>2. CASE CallCycle
    BY <1>2, RunCycleSound DEF CallCycle, LockCycle, Retire, Other
  <1>3. CASE FinalizeSimulator
    BY <1>3, FinalizeSound
  <1>4. CASE Restart
    BY <1>4, RestartSound
  <1> QED
    BY <1>1, <1>2, <1>3, <1>4 DEF DriverNext

LEMMA DriverSound == DriverSpec => []Sound
  <1>1. DriverInit => Sound
    BY InitStarts, StartSound DEF DriverInit, LockInit
  <1> QED
    BY <1>1, DriverStep, PTL DEF DriverSpec

\* The types of the pipeline, also beside the functional simulator.
THEOREM LockTypes == LockSpec => []TypeOK
  <1>1. LockInit => PipeInv
    BY InitStarts, StartTypes DEF LockInit
  <1>2. PipeInv /\ [LockNext]_lockVars => PipeInv'
    BY CycleKeeps, FreezeKeeps, StutterKeeps
       DEF LockNext, LockCycle, Retire, Other, lockVars
  <1>3. PipeInv => TypeOK
    BY DEF PipeInv
  <1> QED
    BY <1>1, <1>2, <1>3, PTL DEF LockSpec

\* A driver that runs the simulator in pieces, goes on after the halt, gives a
\* simulation up in the middle of a miss and starts another one finds the types
\* of the pipeline as they are in one run.
THEOREM DriverTypes == DriverSpec => []TypeOK
  <1>1. Sound => TypeOK
    BY DEF Sound, PipeInv
  <1> QED
    BY <1>1, DriverSound, PTL

-----------------------------------------------------------------------------
(***************************************************************************)
(* What a cycle shows.                                                     *)
(***************************************************************************)

\* A cycle with nothing to write back, the halt word fetched and no access to
\* memory changes neither registers nor caches.
LEMMA QuietCycle ==
  ASSUME Sound, halted, Cycle
  PROVE  UNCHANGED <<regs, cacheVars>>
  <1>1. PipeInv /\ Ends /\ Quiet(exmem) /\ Quiet(memwb)
    BY DEF Sound, HaltInv, HaltLast
  <1>2. PICK u \in Byte : FetchLeaves(Fetch(u)) /\ Step(u, Fetch(u))
    BY <1>1, CycleSteps
  <1> DEFINE f == Fetch(u)
             m == MemAccess(Accessing, mem, u)
  <1>3. f.lines = iLines /\ f.stats = iStats
    BY <1>1, FetchHalts DEF Ends
  <1>4. WriteBack(memwb) = regs
    BY <1>1 DEF WriteBack, Writes, Quiet
  <1>5. SameInstr(Accessing, exmem) /\ MemLeaves(m, Accessing)
    BY <1>1, StageTypes, MemKeeps
  <1>6. Accessing.op \notin Loads \union Stores
    BY <1>1, <1>5, QuietStages DEF Quiet, SameInstr
  <1>7. m.lines = dLines /\ m.mem = mem /\ m.stats = dStats
    BY <1>5, <1>6 DEF MemLeaves
  <1>8. Advance(WriteBack(memwb), f, Decode(WriteBack(memwb)), Operands, m)
    BY <1>2 DEF Step
  <1> HIDE DEF f, m
  <1> QED
    BY <1>3, <1>4, <1>7, <1>8 DEF Advance, cacheVars

LEMMA QuietCall ==
  ASSUME Sound, halted, CallCycle
  PROVE  UNCHANGED <<regs, cacheVars, refVars>>
  <1>1. Quiet(memwb)
    BY DEF Sound, HaltInv, HaltLast
  <1>2. ~ Retiring
    BY <1>1 DEF Quiet, Retiring
  <1>3. Other
    BY <1>2 DEF CallCycle, LockCycle, Retire
  <1>4. CASE Freeze
    BY <1>3, <1>4 DEF Freeze, Other
  <1>5. CASE Cycle
    BY <1>3, <1>5, QuietCycle DEF Other
  <1> QED
    BY <1>3, <1>4, <1>5 DEF Other

\* Cycles after the halt change nothing a driver is shown but their number,
\* however many a driver asks for and whatever state the halt found the
\* pipeline in (runCycle, runCycles, runTillHalt).
THEOREM HaltIsQuiet == DriverSpec => QuietAfterHalt
  <1>1. Sound /\ halted /\ CallCycle => UNCHANGED <<regs, cacheVars, refVars>>
    BY QuietCall
  <1> QED
    BY <1>1, DriverSound, PTL DEF QuietAfterHalt

\* What finalizeSimulator writes to memory is what loads would have been
\* answered at that moment, also when a miss or a store is in progress.
THEOREM DumpShowsView ==
  DriverSpec => [][FinalizeSimulator => mem' = DCache!View(dLines, mem)]_driverVars
  <1>1. Sound /\ FinalizeSimulator => mem' = DCache!View(dLines, mem)
    BY DrainShows DEF Sound, FinalizeSimulator
  <1> QED
    BY <1>1, DriverSound, PTL

\* Only a store in the memory stage changes what loads are answered: no fetch,
\* load, refill, eviction or cycle of waiting does.
THEOREM OnlyStoresShow ==
  DriverSpec =>
    [][CallCycle /\ exmem.op \notin Stores =>
         DCache!View(dLines', mem') = DCache!View(dLines, mem)]_driverVars
  <1>1. ASSUME Sound, CallCycle, exmem.op \notin Stores
        PROVE  DCache!View(dLines', mem') = DCache!View(dLines, mem)
    <2>1. CASE Freeze
      BY <2>1 DEF Freeze, cacheVars
    <2>2. CASE Cycle
      <3>1. PipeInv
        BY <1>1 DEF Sound
      <3>2. PICK u \in Byte : FetchLeaves(Fetch(u)) /\ Step(u, Fetch(u))
        BY <2>2, <3>1, CycleSteps
      <3> DEFINE f == Fetch(u)
                 m == MemAccess(Accessing, mem, u)
      <3>3. SameInstr(Accessing, exmem) /\ MemLeaves(m, Accessing)
        BY <3>1, StageTypes, MemKeeps
      <3>4. D!View(m.lines, m.mem) = D!View(dLines, mem)
        BY <1>1, <3>3 DEF MemLeaves, SameInstr
      <3>5. Advance(WriteBack(memwb), f, Decode(WriteBack(memwb)), Operands, m)
        BY <3>2 DEF Step
      <3> HIDE DEF f, m
      <3>6. dLines' = m.lines /\ mem' = m.mem
        BY <3>5 DEF Advance
      <3> QED
        BY <3>4, <3>6, DCacheSame
    <2> QED
      BY <1>1, <2>1, <2>2 DEF CallCycle, LockCycle, Retire, Other
  <1> QED
    BY <1>1, DriverSound, PTL

=============================================================================
