------------------------- MODULE EarlierCacheProofs -------------------------
(***************************************************************************)
(* The two versions of the cache answer alike, for every geometry, memory  *)
(* and latency: the properties of EarlierCache follow from an inductive    *)
(* invariant.  Accesses meet caches at rest, so each is served by one way  *)
(* (module CacheProofs); what differs is which.                            *)
(***************************************************************************)
EXTENDS EarlierCache, TLAPS

E == INSTANCE CacheProofs WITH Ages <- FALSE
L == INSTANCE CacheProofs WITH Ages <- TRUE

\* Between two accesses nothing is being fetched in either cache, and a program
\* sees the same bytes through both.
Settled ==
  /\ E!AtRest(earlier, Byte, MemSize) /\ L!AtRest(later, Byte, MemSize)
  /\ E!View(earlier.p.lines, earlier.p.mem) = E!View(later.p.lines, later.p.mem)

\* The counters together, up to one wrap of either.
Balanced ==
  earlier.p.hits + earlier.p.misses - later.p.hits - later.p.misses
    \in {- CounterMod, 0, CounterMod}

\* The records of the two callers.
Record(c) == c = [p |-> c.p, now |-> c.now, bytes |-> c.bytes]

EarlierInv ==
  /\ Record(earlier) /\ Record(later)
  /\ SameAnswers /\ SameDrain /\ Balanced
  /\ up => Settled

-----------------------------------------------------------------------------
(***************************************************************************)
(* The instances.                                                          *)
(***************************************************************************)

LEMMA Geometry == E!CacheAssumption /\ L!CacheAssumption
  BY EarlierAssumption DEF E!CacheAssumption, L!CacheAssumption

\* Earlier and E are the same instance of the cache.
LEMMA EarlierSame ==
  /\ \A p, a, n, now, g, u :
       Earlier!GetCacheValue(p, a, n, now, g, u) = E!GetCacheValue(p, a, n, now, g, u)
  /\ \A p, a, v, now, g, u :
       Earlier!SetCacheValue(p, a, v, now, g, u) = E!SetCacheValue(p, a, v, now, g, u)
  /\ \A lines, mem : Earlier!Drain(lines, mem) = E!Drain(lines, mem)
  /\ Earlier!EmptyLines = E!EmptyLines
  <1>1. /\ \A a : /\ Earlier!Offset(a) = E!Offset(a) /\ Earlier!Index(a) = E!Index(a)
                  /\ Earlier!Tag(a) = E!Tag(a) /\ Earlier!StoreTag(a) = E!StoreTag(a)
                  /\ Earlier!BlockStart(a) = E!BlockStart(a)
        /\ \A t, i : Earlier!BlockAddr(t, i) = E!BlockAddr(t, i)
    BY DEF Earlier!Offset, Earlier!Index, Earlier!Tag, Earlier!StoreTag,
           Earlier!BlockStart, Earlier!BlockAddr,
           E!Offset, E!Index, E!Tag, E!StoreTag, E!BlockStart, E!BlockAddr
  <1>2. /\ Earlier!Ways = E!Ways /\ Earlier!Sets = E!Sets /\ Earlier!Offsets = E!Offsets
    BY DEF Earlier!Ways, Earlier!Assoc, Earlier!Sets, Earlier!Offsets,
           E!Ways, E!Assoc, E!Sets, E!Offsets
  <1>3. /\ \A set, g : Earlier!Victim(set, g) = E!Victim(set, g)
        /\ \A W : Earlier!FirstWay(W) = E!FirstWay(W)
        /\ \A l, now : Earlier!Ready(l, now) = E!Ready(l, now)
        /\ \A now : Earlier!ReadyAt(now) = E!ReadyAt(now)
    BY DEF Earlier!Victim, Earlier!FirstWay, Earlier!Ready, Earlier!ReadyAt,
           E!Victim, E!FirstWay, E!Ready, E!ReadyAt
  <1>4. \A set, t : Earlier!Holding(set, t) = E!Holding(set, t)
    BY <1>2 DEF Earlier!Holding, E!Holding
  <1>5. \A set, w : Earlier!UpdateLRU(set, w) = E!UpdateLRU(set, w)
    BY DEF Earlier!UpdateLRU, Earlier!Ways, Earlier!Assoc,
           E!UpdateLRU, E!Ways, E!Assoc
  <1>6. \A mem, data, t, i :
          Earlier!WriteBack(mem, data, t, i) = E!WriteBack(mem, data, t, i)
    BY <1>1, <1>2 DEF Earlier!WriteBack, E!WriteBack
  <1>7. \A mem, start, u : Earlier!ReadBlock(mem, start, u) = E!ReadBlock(mem, start, u)
    BY <1>2 DEF Earlier!ReadBlock, E!ReadBlock
  <1>8. ASSUME NEW p, NEW a, NEW t, NEW g, NEW u
        PROVE  Earlier!CacheMiss(p, a, t, g, u) = E!CacheMiss(p, a, t, g, u)
    BY <1>1, <1>3, <1>5, <1>6, <1>7 DEF Earlier!CacheMiss, E!CacheMiss
  <1>9. ASSUME NEW p, NEW a, NEW now, NEW g, NEW u
        PROVE  Earlier!ReadMiss(p, a, now, g, u) = E!ReadMiss(p, a, now, g, u)
    BY <1>1, <1>3, <1>8 DEF Earlier!ReadMiss, E!ReadMiss
  <1>10. /\ \A p, u : Earlier!ReadPending(p, u) = E!ReadPending(p, u)
         /\ \A p : Earlier!WritePending(p) = E!WritePending(p)
    BY DEF Earlier!ReadPending, Earlier!WritePending, E!ReadPending, E!WritePending
  <1>11. ASSUME NEW p, NEW a, NEW w
         PROVE  Earlier!ReadHit(p, a, w) = E!ReadHit(p, a, w)
    BY <1>1, <1>5 DEF Earlier!ReadHit, E!ReadHit
  <1>12. ASSUME NEW p, NEW a, NEW v, NEW now, NEW g, NEW u
         PROVE  Earlier!WriteMiss(p, a, v, now, g, u) = E!WriteMiss(p, a, v, now, g, u)
    BY <1>1, <1>3, <1>8 DEF Earlier!WriteMiss, E!WriteMiss
  <1>13. ASSUME NEW p, NEW a, NEW v, NEW w
         PROVE  Earlier!WriteHit(p, a, v, w) = E!WriteHit(p, a, v, w)
    BY <1>1, <1>5 DEF Earlier!WriteHit, E!WriteHit
  <1>14. ASSUME NEW p, NEW a, NEW now, NEW g, NEW u
         PROVE  Earlier!GetByte(p, a, now, g, u) = E!GetByte(p, a, now, g, u)
    BY <1>1, <1>3, <1>4, <1>9, <1>10, <1>11 DEF Earlier!GetByte, E!GetByte
  <1>15. ASSUME NEW p, NEW a, NEW v, NEW now, NEW g, NEW u
         PROVE  Earlier!SetByte(p, a, v, now, g, u) = E!SetByte(p, a, v, now, g, u)
    BY <1>1, <1>3, <1>4, <1>10, <1>12, <1>13 DEF Earlier!SetByte, E!SetByte
  <1>16. \A p, f : Earlier!Count(p, f) = E!Count(p, f)
    BY DEF Earlier!Count, E!Count
  <1>17. ASSUME NEW p, NEW a, NEW n, NEW now, NEW g, NEW u
         PROVE  Earlier!GetCacheValue(p, a, n, now, g, u) = E!GetCacheValue(p, a, n, now, g, u)
    BY <1>14, <1>16 DEF Earlier!GetCacheValue, E!GetCacheValue
  <1>18. ASSUME NEW p, NEW a, NEW v, NEW now, NEW g, NEW u
         PROVE  Earlier!SetCacheValue(p, a, v, now, g, u) = E!SetCacheValue(p, a, v, now, g, u)
    BY <1>15, <1>16 DEF Earlier!SetCacheValue, E!SetCacheValue
  <1>19. \A lines, mem : Earlier!Drain(lines, mem) = E!Drain(lines, mem)
    BY DEF Earlier!Drain, Earlier!DirtyBlocks, Earlier!Sets, Earlier!Ways, Earlier!Assoc,
           Earlier!Offsets, Earlier!BlockAddr,
           E!Drain, E!DirtyBlocks, E!Sets, E!Ways, E!Assoc, E!Offsets, E!BlockAddr
  <1>20. Earlier!EmptyLines = E!EmptyLines
    BY <1>2 DEF Earlier!EmptyLines, Earlier!EmptyLine, E!EmptyLines, E!EmptyLine
  <1> QED
    BY ONLY <1>17, <1>18, <1>19, <1>20

\* Later and L are the same instance of the cache.
LEMMA LaterSame ==
  /\ \A p, a, n, now, g, u :
       Later!GetCacheValue(p, a, n, now, g, u) = L!GetCacheValue(p, a, n, now, g, u)
  /\ \A p, a, v, now, g, u :
       Later!SetCacheValue(p, a, v, now, g, u) = L!SetCacheValue(p, a, v, now, g, u)
  /\ \A lines, mem : Later!Drain(lines, mem) = L!Drain(lines, mem)
  /\ Later!EmptyLines = L!EmptyLines
  <1>1. /\ \A a : /\ Later!Offset(a) = L!Offset(a) /\ Later!Index(a) = L!Index(a)
                  /\ Later!Tag(a) = L!Tag(a) /\ Later!StoreTag(a) = L!StoreTag(a)
                  /\ Later!BlockStart(a) = L!BlockStart(a)
        /\ \A t, i : Later!BlockAddr(t, i) = L!BlockAddr(t, i)
    BY DEF Later!Offset, Later!Index, Later!Tag, Later!StoreTag,
           Later!BlockStart, Later!BlockAddr,
           L!Offset, L!Index, L!Tag, L!StoreTag, L!BlockStart, L!BlockAddr
  <1>2. /\ Later!Ways = L!Ways /\ Later!Sets = L!Sets /\ Later!Offsets = L!Offsets
    BY DEF Later!Ways, Later!Assoc, Later!Sets, Later!Offsets,
           L!Ways, L!Assoc, L!Sets, L!Offsets
  <1>3. /\ \A set, g : Later!Victim(set, g) = L!Victim(set, g)
        /\ \A W : Later!FirstWay(W) = L!FirstWay(W)
        /\ \A l, now : Later!Ready(l, now) = L!Ready(l, now)
        /\ \A now : Later!ReadyAt(now) = L!ReadyAt(now)
    BY DEF Later!Victim, Later!FirstWay, Later!Ready, Later!ReadyAt,
           L!Victim, L!FirstWay, L!Ready, L!ReadyAt
  <1>4. \A set, t : Later!Holding(set, t) = L!Holding(set, t)
    BY <1>2 DEF Later!Holding, L!Holding
  <1>5. \A set, w : Later!UpdateLRU(set, w) = L!UpdateLRU(set, w)
    BY DEF Later!UpdateLRU, Later!Ways, Later!Assoc,
           L!UpdateLRU, L!Ways, L!Assoc
  <1>6. \A mem, data, t, i :
          Later!WriteBack(mem, data, t, i) = L!WriteBack(mem, data, t, i)
    BY <1>1, <1>2 DEF Later!WriteBack, L!WriteBack
  <1>7. \A mem, start, u : Later!ReadBlock(mem, start, u) = L!ReadBlock(mem, start, u)
    BY <1>2 DEF Later!ReadBlock, L!ReadBlock
  <1>8. ASSUME NEW p, NEW a, NEW t, NEW g, NEW u
        PROVE  Later!CacheMiss(p, a, t, g, u) = L!CacheMiss(p, a, t, g, u)
    BY <1>1, <1>3, <1>5, <1>6, <1>7 DEF Later!CacheMiss, L!CacheMiss
  <1>9. ASSUME NEW p, NEW a, NEW now, NEW g, NEW u
        PROVE  Later!ReadMiss(p, a, now, g, u) = L!ReadMiss(p, a, now, g, u)
    BY <1>1, <1>3, <1>8 DEF Later!ReadMiss, L!ReadMiss
  <1>10. /\ \A p, u : Later!ReadPending(p, u) = L!ReadPending(p, u)
         /\ \A p : Later!WritePending(p) = L!WritePending(p)
    BY DEF Later!ReadPending, Later!WritePending, L!ReadPending, L!WritePending
  <1>11. ASSUME NEW p, NEW a, NEW w
         PROVE  Later!ReadHit(p, a, w) = L!ReadHit(p, a, w)
    BY <1>1, <1>5 DEF Later!ReadHit, L!ReadHit
  <1>12. ASSUME NEW p, NEW a, NEW v, NEW now, NEW g, NEW u
         PROVE  Later!WriteMiss(p, a, v, now, g, u) = L!WriteMiss(p, a, v, now, g, u)
    BY <1>1, <1>3, <1>8 DEF Later!WriteMiss, L!WriteMiss
  <1>13. ASSUME NEW p, NEW a, NEW v, NEW w
         PROVE  Later!WriteHit(p, a, v, w) = L!WriteHit(p, a, v, w)
    BY <1>1, <1>5 DEF Later!WriteHit, L!WriteHit
  <1>14. ASSUME NEW p, NEW a, NEW now, NEW g, NEW u
         PROVE  Later!GetByte(p, a, now, g, u) = L!GetByte(p, a, now, g, u)
    BY <1>1, <1>3, <1>4, <1>9, <1>10, <1>11 DEF Later!GetByte, L!GetByte
  <1>15. ASSUME NEW p, NEW a, NEW v, NEW now, NEW g, NEW u
         PROVE  Later!SetByte(p, a, v, now, g, u) = L!SetByte(p, a, v, now, g, u)
    BY <1>1, <1>3, <1>4, <1>10, <1>12, <1>13 DEF Later!SetByte, L!SetByte
  <1>16. \A p, f : Later!Count(p, f) = L!Count(p, f)
    BY DEF Later!Count, L!Count
  <1>17. ASSUME NEW p, NEW a, NEW n, NEW now, NEW g, NEW u
         PROVE  Later!GetCacheValue(p, a, n, now, g, u) = L!GetCacheValue(p, a, n, now, g, u)
    BY <1>14, <1>16 DEF Later!GetCacheValue, L!GetCacheValue
  <1>18. ASSUME NEW p, NEW a, NEW v, NEW now, NEW g, NEW u
         PROVE  Later!SetCacheValue(p, a, v, now, g, u) = L!SetCacheValue(p, a, v, now, g, u)
    BY <1>15, <1>16 DEF Later!SetCacheValue, L!SetCacheValue
  <1>19. \A lines, mem : Later!Drain(lines, mem) = L!Drain(lines, mem)
    BY DEF Later!Drain, Later!DirtyBlocks, Later!Sets, Later!Ways, Later!Assoc,
           Later!Offsets, Later!BlockAddr,
           L!Drain, L!DirtyBlocks, L!Sets, L!Ways, L!Assoc, L!Offsets, L!BlockAddr
  <1>20. Later!EmptyLines = L!EmptyLines
    BY <1>2 DEF Later!EmptyLines, Later!EmptyLine, L!EmptyLines, L!EmptyLine
  <1> QED
    BY ONLY <1>17, <1>18, <1>19, <1>20

\* What a program sees does not depend on how recency is kept.
LEMMA SameViews ==
  /\ \A ls, mem : L!View(ls, mem) = E!View(ls, mem)
  /\ \A V, a, v : L!Stored(V, a, v) = E!Stored(V, a, v)
  /\ L!EmptyLines = E!EmptyLines
  <1>1. /\ \A a : /\ L!Offset(a) = E!Offset(a) /\ L!Index(a) = E!Index(a)
                  /\ L!Tag(a) = E!Tag(a)
        /\ L!Ways = E!Ways /\ L!Sets = E!Sets /\ L!Offsets = E!Offsets
        /\ \A W : L!FirstWay(W) = E!FirstWay(W)
    BY DEF E!Offset, E!Index, E!Tag, E!Ways, E!Assoc, E!Sets, E!Offsets, E!FirstWay,
           L!Offset, L!Index, L!Tag, L!Ways, L!Assoc, L!Sets, L!Offsets, L!FirstWay
  <1>2. \A set, t : L!Holding(set, t) = E!Holding(set, t)
    BY <1>1 DEF E!Holding, L!Holding
  <1>3. \A ls, mem : L!View(ls, mem) = E!View(ls, mem)
    BY <1>1, <1>2 DEF E!View, L!View
  <1>4. \A V, a, v : L!Stored(V, a, v) = E!Stored(V, a, v)
    BY DEF E!Stored, L!Stored
  <1>5. L!EmptyLines = E!EmptyLines
    BY <1>1 DEF E!EmptyLines, E!EmptyLine, L!EmptyLines, L!EmptyLine
  <1> QED
    BY <1>3, <1>4, <1>5

\* A try of the caller is a try of the repeating caller of CacheProofs.
LEMMA EarlierTries ==
  ASSUME NEW p, NEW r, NEW now, NEW g, NEW u
  PROVE  EarlierTry(p, r, now, g, u) = E!TryCall(p, r, now, g, u)
  BY EarlierSame DEF EarlierTry, EarlierRead, EarlierWrite, E!TryCall

LEMMA LaterTries ==
  ASSUME NEW p, NEW r, NEW now, NEW g, NEW u
  PROVE  LaterTry(p, r, now, g, u) = L!TryCall(p, r, now, g, u)
  BY LaterSame DEF LaterTry, L!TryCall

LEMMA CallsFit ==
  ASSUME NEW r \in Calls
  PROVE  E!CallIn(r, Byte, MemSize) /\ L!CallIn(r, Byte, MemSize)
  <1>1. /\ BlockSize \in Nat \ {0} /\ MemSize \in Nat
        /\ r \in LoadCalls \/ r \in StoreCalls
    BY EarlierAssumption
  <1>2. ASSUME NEW a \in Addr, NEW n \in {1, 2, 4}, a + n <= MemSize,
               (a % BlockSize) + n <= BlockSize
        PROVE  /\ E!AccessIn(a, n, MemSize) /\ L!AccessIn(a, n, MemSize)
    <2>1. a \in Nat /\ a < MemSize /\ n - 1 \in Nat /\ a % BlockSize \in Nat
      BY <1>1, E!DivMod DEF Addr
    <2> QED
      BY <1>1, <1>2, <2>1
         DEF E!AccessIn, E!Offset, L!AccessIn, L!Offset
  <1>3. CASE r \in LoadCalls
    <2>1. /\ r.op = "load" /\ r.addr \in Addr /\ r.n \in {1, 2, 4}
          /\ r.addr + r.n <= MemSize /\ (r.addr % BlockSize) + r.n <= BlockSize
      BY <1>3 DEF LoadCalls, Within, Earlier!Offset
    <2> QED
      BY <1>2, <2>1 DEF E!CallIn, L!CallIn
  <1>4. CASE r \in StoreCalls
    <2>1. /\ r.op = "store" /\ r.addr \in Addr
          /\ \E n \in {1, 2, 4} : r.data \in [1 .. n -> Byte]
          /\ r.addr + Len(r.data) <= MemSize
          /\ (r.addr % BlockSize) + Len(r.data) <= BlockSize
          /\ E!StoreTag(r.addr) = E!Tag(r.addr) /\ L!StoreTag(r.addr) = L!Tag(r.addr)
      BY <1>4 DEF StoreCalls, Within, Earlier!Offset, Earlier!StoreTag, Earlier!Tag,
                  E!StoreTag, E!Tag, L!StoreTag, L!Tag
    <2>2. PICK n \in {1, 2, 4} : r.data \in [1 .. n -> Byte]
      BY <2>1
    <2>3. Len(r.data) = n
      <3>1. r.data \in Seq(Byte) /\ DOMAIN r.data = 1 .. n /\ n \in Nat
        BY ONLY <2>2, n \in {1, 2, 4}
      <3> QED
        BY ONLY <3>1
    <2>4. E!AccessIn(r.addr, n, MemSize) /\ L!AccessIn(r.addr, n, MemSize)
      BY <1>2, <2>1, <2>3
    <2> QED
      BY <2>1, <2>2, <2>4 DEF E!CallIn, L!CallIn
  <1> QED
    BY <1>1, <1>3, <1>4

-----------------------------------------------------------------------------
(***************************************************************************)
(* One step.                                                               *)
(***************************************************************************)

\* A counter counts, modulo its width.
LEMMA CountsUp ==
  ASSUME NEW C \in Nat \ {0}, NEW x \in 0 .. C - 1
  PROVE  /\ (x + 1) % C \in 0 .. C - 1
         /\ (x + 1) % C = x + 1 \/ (x + 1) % C = x + 1 - C
  <1>1. (x + 1) % C = IF x = C - 1 THEN 0 ELSE x + 1
    OBVIOUS
  <1> QED
    BY <1>1

\* The sums of two pairs of counters, each counted once, differ as before.
LEMMA StillBalanced ==
  ASSUME NEW C \in Nat \ {0}, NEW h \in 0 .. C - 1, NEW m \in 0 .. C - 1,
         NEW k \in 0 .. C - 1, NEW n \in 0 .. C - 1,
         h + m - k - n \in {- C, 0, C},
         NEW h1 \in 0 .. C - 1, NEW m1 \in 0 .. C - 1,
         NEW k1 \in 0 .. C - 1, NEW n1 \in 0 .. C - 1,
         h1 + m1 = h + m + 1 \/ h1 + m1 = h + m + 1 - C,
         k1 + n1 = k + n + 1 \/ k1 + n1 = k + n + 1 - C
  PROVE  h1 + m1 - k1 - n1 \in {- C, 0, C}
  OBVIOUS

LEMMA InitHolds == Init => EarlierInv
  <1> SUFFICES ASSUME Init PROVE EarlierInv
    OBVIOUS
  <1>1. /\ earlier.p = [lines |-> E!EmptyLines, mem |-> InitMem, hits |-> 0,
                        misses |-> 0, result |-> 0, byte |-> 0]
        /\ later.p = earlier.p
        /\ earlier.now = 0 /\ later.now = 0
        /\ earlier.bytes = later.bytes /\ up
        /\ Record(earlier) /\ Record(later)
    BY EarlierSame, LaterSame, SameViews DEF Init, Fresh, Record
  <1>2. 0 \in Byte /\ MemSize \in Nat /\ InitMem \in [0 .. MemSize - 1 -> Byte]
        /\ CounterMod \in Nat \ {0}
    BY EarlierAssumption DEF Addr
  <1>3. E!AtRest(earlier, Byte, MemSize)
    BY <1>1, <1>2, Geometry, E!EmptyAtRest
  <1>4. L!AtRest(later, Byte, MemSize)
    BY <1>1, <1>2, SameViews, Geometry, L!EmptyAtRest
  <1>5. Settled
    BY <1>1, <1>3, <1>4 DEF Settled
  <1>6. Balanced
    BY <1>1, <1>2 DEF Balanced
  <1> QED
    BY <1>1, <1>5, <1>6 DEF EarlierInv, SameAnswers, SameDrain

\* How an access leaves both caches.
LEMMA AccessServed ==
  ASSUME EarlierInv, NEW r \in Calls, Access(r)
  PROVE  /\ Settled' /\ SameAnswers' /\ Record(earlier') /\ Record(later')
         /\ E!CountsOne(earlier'.p, earlier.p) /\ L!CountsOne(later'.p, later.p)
  <1>1. PICK g \in Nat, u \in Byte :
          /\ earlier' = E!ServeCall(earlier, r, g, u)
          /\ later' = L!ServeCall(later, r, g, u)
    <2>1. Garbage \subseteq Nat
      BY EarlierAssumption
    <2> QED
      BY <2>1, EarlierTries, LaterTries
         DEF Access, Served, Answered, E!ServeCall, E!AnsweredAt,
             L!ServeCall, L!AnsweredAt
  <1>2. Settled /\ MemSize \in Nat
    BY EarlierAssumption DEF Access, EarlierInv
  <1>3. E!CallIn(r, Byte, MemSize) /\ L!CallIn(r, Byte, MemSize)
    BY CallsFit
  <1> DEFINE V == E!View(earlier.p.lines, earlier.p.mem)
  <1>4. /\ E!AtRest(earlier', Byte, MemSize) /\ E!CountsOne(earlier'.p, earlier.p)
        /\ E!Saw(earlier', r, V)
    <2> DEFINE c == earlier
    <2>1. E!AtRest(c, Byte, MemSize)
      BY <1>2 DEF Settled
    <2> HIDE DEF c
    <2>2. LET d == E!ServeCall(c, r, g, u)
          IN  /\ E!AtRest(d, Byte, MemSize) /\ E!CountsOne(d.p, c.p)
              /\ E!Saw(d, r, E!View(c.p.lines, c.p.mem))
      BY <1>2, <1>3, <2>1, Geometry, E!CallServed
    <2> QED
      BY <1>1, <2>2 DEF c
  <1>5. /\ L!AtRest(later', Byte, MemSize) /\ L!CountsOne(later'.p, later.p)
        /\ L!Saw(later', r, V)
    <2> DEFINE c == later
    <2>1. L!AtRest(c, Byte, MemSize)
      BY <1>2 DEF Settled
    <2> HIDE DEF c, V
    <2>2. LET d == L!ServeCall(c, r, g, u)
          IN  /\ L!AtRest(d, Byte, MemSize) /\ L!CountsOne(d.p, c.p)
              /\ L!Saw(d, r, L!View(c.p.lines, c.p.mem))
      BY <1>2, <1>3, <2>1, Geometry, L!CallServed
    <2>3. L!View(c.p.lines, c.p.mem) = V
      BY <1>2, SameViews DEF Settled, V, c
    <2> QED
      BY <1>1, <2>2, <2>3 DEF c
  <1> HIDE DEF V
  <1>6. /\ E!View(earlier'.p.lines, earlier'.p.mem)
            = E!View(later'.p.lines, later'.p.mem)
        /\ earlier'.bytes = later'.bytes
    BY <1>4, <1>5, SameViews DEF E!Saw, L!Saw
  <1>7. Settled'
    BY <1>4, <1>5, <1>6 DEF Settled
  <1>8. SameAnswers'
    BY <1>4, <1>5, <1>6 DEF SameAnswers, E!AtRest, L!AtRest
  <1>9. Record(earlier') /\ Record(later')
    BY <1>1 DEF Record, E!ServeCall, E!AnsweredAt, L!ServeCall, L!AnsweredAt
  <1> QED
    BY <1>4, <1>5, <1>7, <1>8, <1>9

LEMMA AccessHolds ==
  ASSUME EarlierInv, NEW r \in Calls, Access(r)
  PROVE  EarlierInv'
  <1>1. /\ Settled /\ Balanced /\ up /\ up'
    BY DEF Access, EarlierInv
  <1>2. /\ Settled' /\ SameAnswers' /\ Record(earlier') /\ Record(later')
        /\ E!CountsOne(earlier'.p, earlier.p) /\ L!CountsOne(later'.p, later.p)
    BY AccessServed
  <1>3. CounterMod \in Nat \ {0} /\ MemSize \in Nat
    BY EarlierAssumption
  <1>4. Balanced'
    <2> DEFINE C  == CounterMod
               h  == earlier.p.hits    m  == earlier.p.misses
               k  == later.p.hits      n  == later.p.misses
               h1 == earlier'.p.hits   m1 == earlier'.p.misses
               k1 == later'.p.hits     n1 == later'.p.misses
    <2>1. /\ C \in Nat \ {0}
          /\ h \in 0 .. C - 1 /\ m \in 0 .. C - 1
          /\ k \in 0 .. C - 1 /\ n \in 0 .. C - 1
      BY <1>1, <1>3 DEF Settled, E!AtRest, L!AtRest, E!CacheOK, L!CacheOK,
                        E!CacheState, L!CacheState
    <2>2. /\ \/ h1 = (h + 1) % C /\ m1 = m
             \/ h1 = h /\ m1 = (m + 1) % C
          /\ \/ k1 = (k + 1) % C /\ n1 = n
             \/ k1 = k /\ n1 = (n + 1) % C
      BY <1>2 DEF E!CountsOne, L!CountsOne
    <2>3. h + m - k - n \in {- C, 0, C}
      BY <1>1 DEF Balanced
    <2> HIDE DEF C, h, m, k, n, h1, m1, k1, n1
    <2>4. /\ h1 \in 0 .. C - 1 /\ m1 \in 0 .. C - 1
          /\ h1 + m1 = h + m + 1 \/ h1 + m1 = h + m + 1 - C
      <3>1. /\ (h + 1) % C \in 0 .. C - 1
            /\ (h + 1) % C = h + 1 \/ (h + 1) % C = h + 1 - C
        BY ONLY <2>1, CountsUp
      <3>2. /\ (m + 1) % C \in 0 .. C - 1
            /\ (m + 1) % C = m + 1 \/ (m + 1) % C = m + 1 - C
        BY ONLY <2>1, CountsUp
      <3> QED
        BY ONLY <2>1, <2>2, <3>1, <3>2
    <2>5. /\ k1 \in 0 .. C - 1 /\ n1 \in 0 .. C - 1
          /\ k1 + n1 = k + n + 1 \/ k1 + n1 = k + n + 1 - C
      <3>1. /\ (k + 1) % C \in 0 .. C - 1
            /\ (k + 1) % C = k + 1 \/ (k + 1) % C = k + 1 - C
        BY ONLY <2>1, CountsUp
      <3>2. /\ (n + 1) % C \in 0 .. C - 1
            /\ (n + 1) % C = n + 1 \/ (n + 1) % C = n + 1 - C
        BY ONLY <2>1, CountsUp
      <3> QED
        BY ONLY <2>1, <2>2, <3>1, <3>2
    <2>6. h1 + m1 - k1 - n1 \in {- C, 0, C}
      BY ONLY <2>1, <2>3, <2>4, <2>5, StillBalanced
    <2> QED
      BY <2>6 DEF Balanced, C, h1, m1, k1, n1
  <1> QED
    BY <1>1, <1>2, <1>4 DEF EarlierInv, SameDrain

\* The drains leave in both memories what the program saw.
LEMMA FinishHolds ==
  ASSUME EarlierInv, Finish
  PROVE  EarlierInv'
  <1> DEFINE p == earlier.p
             q == later.p
  <1>1. /\ Settled /\ MemSize \in Nat /\ ~ up' /\ up
    BY EarlierAssumption DEF Finish, EarlierInv
  <1>2. /\ p \in [lines : E!LinesOver(Byte), mem : [0 .. MemSize - 1 -> Byte],
                  hits : 0 .. CounterMod - 1, misses : 0 .. CounterMod - 1,
                  result : {0, MissLatency}, byte : Byte]
        /\ E!OneCopy(p.lines) /\ E!CleanAgrees(p.lines, p.mem)
    BY <1>1 DEF Settled, E!AtRest, E!CacheOK, E!CacheState, E!LinesOver
  <1>3. /\ q \in [lines : L!LinesOver(Byte), mem : [0 .. MemSize - 1 -> Byte],
                  hits : 0 .. CounterMod - 1, misses : 0 .. CounterMod - 1,
                  result : {0, MissLatency}, byte : Byte]
        /\ L!OneCopy(q.lines) /\ L!CleanAgrees(q.lines, q.mem)
    BY <1>1 DEF Settled, L!AtRest, L!CacheOK, L!CacheState, L!LinesOver
  <1>4. E!Drain(p.lines, p.mem) = E!View(p.lines, p.mem)
    BY <1>1, <1>2, Geometry, E!DrainView
  <1>5. L!Drain(q.lines, q.mem) = L!View(q.lines, q.mem)
    BY <1>1, <1>3, Geometry, L!DrainView
  <1>6. /\ earlier' = [earlier EXCEPT !.p.mem = E!Drain(p.lines, p.mem)]
        /\ later' = [later EXCEPT !.p.mem = L!Drain(q.lines, q.mem)]
    BY EarlierSame, LaterSame DEF Finish
  <1>7. /\ earlier'.p = [p EXCEPT !.mem = E!Drain(p.lines, p.mem)]
        /\ earlier'.bytes = earlier.bytes /\ Record(earlier')
    BY <1>6 DEF EarlierInv, Record
  <1>8. /\ later'.p = [q EXCEPT !.mem = L!Drain(q.lines, q.mem)]
        /\ later'.bytes = later.bytes /\ Record(later')
    BY <1>6 DEF EarlierInv, Record
  <1> DEFINE p1 == earlier'.p
             q1 == later'.p
  <1>9. /\ p1.lines = p.lines /\ p1.result = p.result
        /\ p1.hits = p.hits /\ p1.misses = p.misses
        /\ p1.mem = E!Drain(p.lines, p.mem)
    BY <1>2, <1>7
  <1>10. /\ q1.lines = q.lines /\ q1.result = q.result
         /\ q1.hits = q.hits /\ q1.misses = q.misses
         /\ q1.mem = L!Drain(q.lines, q.mem)
    BY <1>3, <1>8
  <1>11. p1.mem = q1.mem
    BY <1>1, <1>4, <1>5, <1>9, <1>10, SameViews DEF Settled
  <1>12. SameDrain'
    BY <1>11 DEF SameDrain
  <1>13. SameAnswers' /\ Balanced'
    BY <1>7, <1>8, <1>9, <1>10 DEF EarlierInv, SameAnswers, Balanced
  <1> QED
    BY <1>1, <1>7, <1>8, <1>12, <1>13 DEF EarlierInv

LEMMA NextHolds == EarlierInv /\ [Next]_vars => EarlierInv'
  <1> SUFFICES ASSUME EarlierInv, [Next]_vars PROVE EarlierInv'
    OBVIOUS
  <1>1. ASSUME NEW r \in Calls, Access(r) PROVE EarlierInv'
    BY <1>1, AccessHolds
  <1>2. CASE Finish
    BY <1>2, FinishHolds
  <1>3. CASE UNCHANGED vars
    BY <1>3 DEF vars, EarlierInv, SameAnswers, SameDrain, Balanced, Settled
  <1> QED
    BY <1>1, <1>2, <1>3 DEF Next

LEMMA Invariant == Spec => []EarlierInv
  BY InitHolds, NextHolds, PTL DEF Spec

-----------------------------------------------------------------------------
(***************************************************************************)
(* The properties.                                                         *)
(***************************************************************************)

\* However differently the two versions of updateLRU replace blocks, every
\* access is answered at its second try at the latest, with the same bytes.
THEOREM VersionsAnswerAlike == Spec => []SameAnswers
  <1>1. EarlierInv => SameAnswers
    BY DEF EarlierInv
  <1> QED
    BY <1>1, Invariant, PTL

\* The drains of both versions leave the same memory.
THEOREM VersionsDrainAlike == Spec => []SameDrain
  <1>1. EarlierInv => SameDrain
    BY DEF EarlierInv
  <1> QED
    BY <1>1, Invariant, PTL

\* Hits and misses together are the same in both versions, modulo the width of
\* the counters.
THEOREM VersionsCountAlike == Spec => []SameTotal
  <1>1. EarlierInv => SameTotal
    <2> SUFFICES ASSUME EarlierInv PROVE SameTotal
      OBVIOUS
    <2>1. CounterMod \in Nat \ {0}
      BY EarlierAssumption
    <2>2. ASSUME NEW C \in Nat \ {0}, NEW d \in {- C, 0, C}
          PROVE  d % C = 0
      OBVIOUS
    <2> QED
      BY <2>1, <2>2 DEF EarlierInv, Balanced, SameTotal
  <1> QED
    BY <1>1, Invariant, PTL

=============================================================================
