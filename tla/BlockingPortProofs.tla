------------------------- MODULE BlockingPortProofs -------------------------
(***************************************************************************)
(* What the blocking data port keeps true, for every geometry, latency,    *)
(* memory size and set of requests within one block, whose stores go to    *)
(* the blocks the store path can name: types, coherence, statistics and    *)
(* the refinement of flat memory, then time and replacement.               *)
(***************************************************************************)
EXTENDS BlockingPort, CacheProofs

\* Hits and misses exceed the accesses served by nothing or by one wrap.
StatsSum == hits + misses - served \in {0, CounterMod}

\* The inductive invariant.  The bound on readiness is what makes a block that
\* is reported as served a block that is ready.
PortInv ==
  /\ TypeOK
  /\ UniqueCopy
  /\ CleanMatches
  /\ ReadyBound(lines, cycle)
  /\ StatsSum

-----------------------------------------------------------------------------
(***************************************************************************)
(* Counters.                                                               *)
(***************************************************************************)

LEMMA CountUpDown ==
  ASSUME NEW C \in Nat \ {0}, NEW x \in 0 .. C - 1
  PROVE  /\ (x + 1) % C = IF x = C - 1 THEN 0 ELSE x + 1
         /\ (x - 1) % C = IF x = 0 THEN C - 1 ELSE x - 1
  OBVIOUS

\* A sum within one wrap is a multiple of the modulus only if it is 0 or C.
LEMMA WrapSum ==
  ASSUME NEW C \in Nat \ {0}, NEW q \in {0, C}
  PROVE  q % C = 0
  <1>1. 0 \in Nat /\ 1 \in Nat /\ 0 \in 0 .. C - 1
    OBVIOUS
  <1>2. (0 * C + 0) % C = 0 /\ (1 * C + 0) % C = 0
    BY <1>1, DivModUnique
  <1> QED
    BY <1>2

-----------------------------------------------------------------------------
(***************************************************************************)
(* The call the memory stage makes.                                        *)
(***************************************************************************)

\* How the cache c and the bytes t of a call for request r follow the state.
Follows(c, t, r) ==
  LET V == View(lines, mem)
      W == View(c.lines, c.mem)
  IN  /\ CacheOK(c, Byte, MemSize, cycle)
      /\ r.op = "load" =>
           /\ W = V
           /\ c.result = 0 => t = [k \in 1 .. r.n |-> V[r.addr + k - 1]]
      /\ r.op = "store" =>
           /\ t = r.data
           /\ IF c.result = 0 THEN W = Stored(V, r.addr, r.data)
              ELSE W \in {V, Patched(V, r.addr, r.data[1])}
      /\ IF c.result = 0
         THEN c.hits = (hits + 1) % CounterMod /\ c.misses = misses
         ELSE /\ c.hits = (hits - 1) % CounterMod
              /\ c.misses = (misses + 1) % CounterMod

LEMMA RequestParts ==
  ASSUME Supported, NEW r \in Requests
  PROVE  /\ r.op \in {"load", "store"}
         /\ r.op = "load" => AccessIn(r.addr, r.n, MemSize)
         /\ r.op = "store" => \E n : /\ r.data \in [1 .. n -> Byte]
                                    /\ AccessIn(r.addr, n, MemSize)
  <1>1. (r \in LoadReq \/ r \in StoreReq) /\ InOneBlock(r)
    BY PortAssumption DEF Supported, RequestsInOneBlock
  <1>2. CASE r \in LoadReq
    BY <1>1, <1>2, PortAssumption DEF LoadReq, InOneBlock, Addr, AccessIn
  <1>3. CASE r \in StoreReq
    <2>1. PICK n \in {1, 2, 4} : r.data \in [1 .. n -> Byte]
      BY <1>3 DEF StoreReq
    <2>2. Len(r.data) = n
      <3>1. r.data \in Seq(Byte) /\ DOMAIN r.data = 1 .. n /\ n \in Nat
        BY ONLY <2>1, n \in {1, 2, 4}
      <3> QED
        BY ONLY <3>1
    <2>3. /\ r.op = "store" /\ r.addr \in Addr /\ r.addr + Len(r.data) - 1 \in Addr
          /\ Offset(r.addr) + Len(r.data) <= BlockSize
      BY <1>1, <1>3 DEF StoreReq, InOneBlock
    <2>4. AccessIn(r.addr, n, MemSize)
      BY <2>2, <2>3, PortAssumption DEF Addr, AccessIn
    <2> QED
      BY <2>1, <2>3, <2>4
  <1> QED
    BY <1>1, <1>2, <1>3

LEMMA TryFollows ==
  ASSUME Supported, PortInv, NEW r \in Requests,
         NEW g \in Garbage, NEW u \in Byte
  PROVE  Follows(Try(r, g, u).cache, Try(r, g, u).bytes, r)
  <1> DEFINE p == [lines |-> lines, mem |-> mem, hits |-> hits, misses |-> misses,
                   result |-> 0, byte |-> u]
             V == View(lines, mem)
             t == Try(r, g, u)
             c == t.cache
  <1>1. /\ lines \in LinesOver(Byte) /\ mem \in [0 .. MemSize - 1 -> Byte]
        /\ hits \in 0 .. CounterMod - 1 /\ misses \in 0 .. CounterMod - 1
        /\ cycle \in Nat /\ g \in Nat
    BY PortAssumption DEF PortInv, TypeOK, Addr, LinesOver
  <1>2. CacheOK(p, Byte, MemSize, cycle)
    <2>1. p \in CacheState(Byte, MemSize)
      BY <1>1 DEF CacheState, LinesOver
    <2> QED
      BY <2>1 DEF CacheOK, PortInv, UniqueCopy, CleanMatches
  <1>3. p.lines = lines /\ p.mem = mem /\ p.hits = hits /\ p.misses = misses
    OBVIOUS
  <1>4. /\ r.op \in {"load", "store"}
        /\ r.op = "load" => AccessIn(r.addr, r.n, MemSize)
        /\ r.op = "store" => \E n : /\ r.data \in [1 .. n -> Byte]
                                   /\ AccessIn(r.addr, n, MemSize)
    BY RequestParts
  <1>5. CASE r.op = "load"
    <2>1. t = GetCacheValue(p, r.addr, r.n, cycle, g, u)
      BY <1>5 DEF Try
    <2> HIDE DEF p, t
    <2>2. Loaded(c, t.bytes, p, r.addr, r.n, Byte, MemSize, cycle)
      BY <1>1, <1>2, <1>4, <1>5, <2>1, GetValueKeeps
    <2> QED
      BY <1>3, <1>5, <2>2 DEF Follows, Loaded, t
  <1>6. CASE r.op = "store"
    <2>1. t = [cache |-> SetCacheValue(p, r.addr, r.data, cycle, g, u),
               bytes |-> r.data]
      BY <1>6 DEF Try
    <2>2. StoreTag(r.addr) = Tag(r.addr)
      BY <1>6 DEF Supported, StoresNameTheirBlock
    <2>3. PICK n : r.data \in [1 .. n -> Byte] /\ AccessIn(r.addr, n, MemSize)
      BY <1>4, <1>6
    <2> HIDE DEF p, t
    <2>4. Wrote(c, p, r.addr, r.data, Byte, MemSize, cycle)
      BY <1>1, <1>2, <2>1, <2>2, <2>3, SetValueKeeps
    <2> QED
      BY <1>3, <1>6, <2>1, <2>4 DEF Follows, Wrote, t
  <1> QED
    BY <1>4, <1>5, <1>6

-----------------------------------------------------------------------------
(***************************************************************************)
(* The invariant.                                                          *)
(***************************************************************************)

LEMMA InitInv == Init => PortInv
  <1> SUFFICES ASSUME Init PROVE PortInv
    OBVIOUS
  <1> USE DEF Init
  <1>1. /\ MissLatency \in Nat /\ CounterMod \in Nat \ {0} /\ 0 \in Byte
        /\ InitMem \in [Addr -> Byte]
    BY CacheAssumption, PortAssumption
  <1>2. EmptyLine \in LineOf(Byte) /\ EmptyLine.cycleReady = 0 /\ ~ EmptyLine.valid
        /\ ~ EmptyLine.dirty
    BY <1>1, WaysTwoOrOne DEF EmptyLine, LineOf
  <1>3. \A i \in Sets, w \in Ways : lines[i][w] = EmptyLine
    BY DEF EmptyLines
  <1>4. TypeOK
    <2>1. lines \in [Sets -> [Ways -> LineOf(Byte)]]
      BY <1>2 DEF EmptyLines
    <2>2. 0 \in 0 .. CounterMod - 1 /\ 0 \in 0 .. MissLatency
      BY <1>1
    <2> QED
      BY <1>1, <2>1, <2>2 DEF TypeOK
  <1>5. UniqueCopy /\ CleanMatches
    BY <1>2, <1>3 DEF UniqueCopy, OneCopy, CleanMatches, CleanAgrees
  <1>6. ReadyBound(lines, cycle)
    BY <1>1, <1>2, <1>3 DEF ReadyBound
  <1>7. StatsSum
    BY DEF StatsSum
  <1> QED
    BY <1>4, <1>5, <1>6, <1>7 DEF PortInv

\* A later cycle keeps the bound on readiness.
LEMMA LaterBound ==
  ASSUME NEW ls \in LinesOver(Byte), NEW now \in Nat, ReadyBound(ls, now)
  PROVE  ReadyBound(ls, now + 1)
  <1>1. ASSUME NEW i \in Sets, NEW w \in Ways
        PROVE  ls[i][w].cycleReady <= (now + 1) + MissLatency
    <2>1. ls[i][w].cycleReady \in Nat /\ MissLatency \in Nat
      BY LineParts, CacheAssumption
    <2>2. ls[i][w].cycleReady <= now + MissLatency
      BY DEF ReadyBound
    <2> QED
      BY <2>1, <2>2
  <1> QED
    BY <1>1 DEF ReadyBound

\* The stage takes a request the program may make, or none.
LEMMA NextRequestTypes ==
  ASSUME NextRequest, cycle \in Nat
  PROVE  req' \in Requests \union {None} /\ since' \in Nat /\ missed' \in BOOLEAN
  <1>1. req' \in Requests \union {None}
    <2>1. CASE cycle < MaxCycle
      BY <2>1 DEF NextRequest
    <2>2. CASE ~ (cycle < MaxCycle)
      <3>1. req' \in {None}
        BY <2>2 DEF NextRequest
      <3> QED
        BY <3>1
    <2> QED
      BY <2>1, <2>2
  <1>2. since' \in Nat
    BY DEF NextRequest
  <1>3. missed' = FALSE
    BY DEF NextRequest
  <1> QED
    BY <1>1, <1>2, <1>3

LEMMA WaitInv == PortInv /\ Wait => PortInv'
  <1> SUFFICES ASSUME PortInv, Wait PROVE PortInv'
    OBVIOUS
  <1> USE DEF Wait, cacheVars, historyVars
  <1>1. TypeOK'
    BY CacheAssumption DEF PortInv, TypeOK
  <1>2. ReadyBound(lines, cycle + 1)
    BY LaterBound DEF PortInv, TypeOK, LinesOver
  <1> QED
    BY <1>1, <1>2 DEF PortInv, UniqueCopy, CleanMatches, StatsSum

LEMMA IdleInv == PortInv /\ Idle => PortInv'
  <1> SUFFICES ASSUME PortInv, Idle PROVE PortInv'
    OBVIOUS
  <1> USE DEF Idle, cacheVars
  <1>1. TypeOK'
    <2>1. req' \in Requests \union {None} /\ since' \in Nat /\ missed' \in BOOLEAN
      BY NextRequestTypes DEF PortInv, TypeOK
    <2>2. cycle' \in Nat /\ halt' \in 0 .. MissLatency
      BY CacheAssumption DEF PortInv, TypeOK
    <2> QED
      BY <2>1, <2>2 DEF PortInv, TypeOK
  <1>2. ReadyBound(lines, cycle + 1)
    BY LaterBound DEF PortInv, TypeOK, LinesOver
  <1> QED
    BY <1>1, <1>2 DEF PortInv, UniqueCopy, CleanMatches, StatsSum

\* A request that is tried.
LEMMA AccessInv == Supported /\ PortInv /\ Access => PortInv'
  <1> SUFFICES ASSUME Supported, PortInv, Access PROVE PortInv'
    OBVIOUS
  <1>0. req \in Requests
    BY DEF PortInv, TypeOK, Access
  <1>1. PICK g \in Garbage, u \in Byte :
          LET t == Try(req, g, u)
              c == t.cache
          IN  /\ lines' = c.lines /\ mem' = c.mem
              /\ hits' = c.hits /\ misses' = c.misses
              /\ halt' = c.result
              /\ IF c.result = 0
                 THEN /\ NextRequest
                      /\ answer' = [req |-> req, bytes |-> t.bytes]
                      /\ served' = (served + 1) % CounterMod
                 ELSE missed' = TRUE /\ UNCHANGED <<req, since, answer, served>>
    BY DEF Access
  <1> DEFINE t == Try(req, g, u)
             c == t.cache
  <1>2. Follows(c, t.bytes, req)
    BY <1>0, TryFollows
  <1> HIDE DEF t
  <1>3. /\ lines' = c.lines /\ mem' = c.mem
        /\ hits' = c.hits /\ misses' = c.misses /\ halt' = c.result
        /\ c.result = 0 => NextRequest /\ served' = (served + 1) % CounterMod
        /\ c.result # 0 => missed' = TRUE /\ UNCHANGED <<req, since, served>>
    BY <1>1 DEF t
  <1>4. cycle' = cycle + 1 /\ up' = up /\ recent' = Touched(req)
    BY DEF Access
  <1>5. CacheOK(c, Byte, MemSize, cycle)
    BY <1>2 DEF Follows
  <1>6. /\ lines' \in LinesOver(Byte) /\ mem' \in [0 .. MemSize - 1 -> Byte]
        /\ hits' \in 0 .. CounterMod - 1 /\ misses' \in 0 .. CounterMod - 1
        /\ halt' \in {0, MissLatency}
        /\ OneCopy(lines') /\ CleanAgrees(lines', mem') /\ ReadyBound(lines', cycle)
    BY <1>3, <1>5 DEF CacheOK, CacheState, LinesOver
  <1>7. /\ cycle \in Nat /\ served \in 0 .. CounterMod - 1
        /\ hits \in 0 .. CounterMod - 1 /\ misses \in 0 .. CounterMod - 1
        /\ CounterMod \in Nat \ {0} /\ MissLatency \in Nat
        /\ since \in Nat /\ up \in BOOLEAN
        /\ hits + misses - served \in {0, CounterMod}
    BY CacheAssumption DEF PortInv, TypeOK, StatsSum
  <1>8. ReadyBound(lines', cycle')
    BY <1>4, <1>6, <1>7, LaterBound
  <1>9. /\ req' \in Requests \union {None} /\ since' \in Nat /\ missed' \in BOOLEAN
        /\ served' \in 0 .. CounterMod - 1
    <2>1. (served + 1) % CounterMod \in 0 .. CounterMod - 1
      BY <1>7, CountUpDown
    <2>2. CASE c.result = 0
      BY <1>3, <1>7, <2>1, <2>2, NextRequestTypes
    <2>3. CASE c.result # 0
      BY <1>0, <1>3, <1>7, <2>3
    <2> QED
      BY <2>2, <2>3
  <1>10. recent' \in [Sets -> Nat \union {None}]
    <2>1. Tag(req.addr) \in Nat /\ StoreTag(req.addr) \in Nat
      BY <1>0, RequestParts, AddressFields DEF AccessIn, StoreTag
    <2> QED
      BY <1>4, <2>1 DEF Touched, PortInv, TypeOK
  <1>11. TypeOK'
    BY <1>4, <1>6, <1>7, <1>9, <1>10 DEF TypeOK, LinesOver, Addr
  <1>12. StatsSum'
    <2>1. IF c.result = 0
          THEN /\ hits' = (hits + 1) % CounterMod /\ misses' = misses
               /\ served' = (served + 1) % CounterMod
          ELSE /\ hits' = (hits - 1) % CounterMod
               /\ misses' = (misses + 1) % CounterMod /\ served' = served
      BY <1>2, <1>3 DEF Follows
    <2>2. CASE c.result = 0
      <3>1. hits' = IF hits = CounterMod - 1 THEN 0 ELSE hits + 1
        BY <1>7, <2>1, <2>2, CountUpDown
      <3>2. served' = IF served = CounterMod - 1 THEN 0 ELSE served + 1
        BY <1>7, <2>1, <2>2, CountUpDown
      <3>3. misses' = misses
        BY <2>1, <2>2
      <3> QED
        BY ONLY <1>7, <3>1, <3>2, <3>3 DEF StatsSum
    <2>3. CASE c.result # 0
      <3>1. hits' = IF hits = 0 THEN CounterMod - 1 ELSE hits - 1
        BY <1>7, <2>1, <2>3, CountUpDown
      <3>2. misses' = IF misses = CounterMod - 1 THEN 0 ELSE misses + 1
        BY <1>7, <2>1, <2>3, CountUpDown
      <3>3. served' = served
        BY <2>1, <2>3
      <3> QED
        BY ONLY <1>7, <3>1, <3>2, <3>3 DEF StatsSum
    <2> QED
      BY <2>2, <2>3
  <1> QED
    BY <1>6, <1>8, <1>11, <1>12 DEF PortInv, UniqueCopy, CleanMatches

LEMMA FinalizeInv == PortInv /\ Finalize => PortInv'
  <1> SUFFICES ASSUME PortInv, Finalize PROVE PortInv'
    OBVIOUS
  <1> USE DEF Finalize, historyVars
  <1>1. /\ MemSize \in Nat /\ lines \in LinesOver(Byte)
        /\ mem \in [0 .. MemSize - 1 -> Byte]
        /\ OneCopy(lines) /\ CleanAgrees(lines, mem)
    BY PortAssumption DEF PortInv, TypeOK, UniqueCopy, CleanMatches, LinesOver, Addr
  <1>2. /\ mem' \in [0 .. MemSize - 1 -> Byte] /\ CleanAgrees(lines, mem')
    BY <1>1, DrainView
  <1>3. TypeOK'
    BY <1>2 DEF PortInv, TypeOK, Addr
  <1> QED
    BY <1>2, <1>3 DEF PortInv, UniqueCopy, CleanMatches, StatsSum

\* Every step keeps the invariant.
LEMMA NextInv == Supported /\ PortInv /\ [Next]_vars => PortInv'
  <1> SUFFICES ASSUME Supported, PortInv, [Next]_vars PROVE PortInv'
    OBVIOUS
  <1>1. CASE Wait
    BY <1>1, WaitInv
  <1>2. CASE Idle
    BY <1>2, IdleInv
  <1>3. CASE Access
    BY <1>3, AccessInv
  <1>4. CASE Finalize
    BY <1>4, FinalizeInv
  <1>5. CASE UNCHANGED vars
    BY <1>5 DEF vars, cacheVars, historyVars, PortInv, TypeOK, UniqueCopy,
                CleanMatches, StatsSum
  <1> QED
    BY <1>1, <1>2, <1>3, <1>4, <1>5 DEF Next, Cycle

LEMMA PortInvariant == Supported => (Spec => []PortInv)
  <1> SUFFICES ASSUME Supported PROVE Spec => []PortInv
    OBVIOUS
  <1>1. PortInv /\ [Next]_vars => PortInv'
    BY NextInv
  <1> QED
    BY <1>1, InitInv, PTL DEF Spec

-----------------------------------------------------------------------------
(***************************************************************************)
(* The theorems.                                                           *)
(***************************************************************************)

\* The port never leaves its types: counters wrap at the width of the machine
\* integer, the recency of a way stays a way, the pipeline is never frozen for
\* longer than a miss costs (runCycle, cacheMiss, updateLRU).
THEOREM PortTypes == Supported => (Spec => []TypeOK)
  <1>1. PortInv => TypeOK
    BY DEF PortInv
  <1> QED
    BY <1>1, PortInvariant, PTL

\* A block is cached in one way at most, whatever was filled and evicted
\* before (getCacheByte, setCacheByte, cacheMiss).
THEOREM PortUnique == Supported => (Spec => []UniqueCopy)
  <1>1. PortInv => UniqueCopy
    BY DEF PortInv
  <1> QED
    BY <1>1, PortInvariant, PTL

\* A clean block can be dropped: memory holds it (cacheMiss, drain).
THEOREM PortCoherent == Supported => (Spec => []CleanMatches)
  <1>1. PortInv => CleanMatches
    BY DEF PortInv
  <1> QED
    BY <1>1, PortInvariant, PTL

\* The read past the meta data of a direct-mapped set never decides which way
\* is replaced (cacheMiss).
THEOREM PortVictim == Supported => (Spec => []VictimExists)
  <1>1. PortInv => VictimExists
    <2> SUFFICES ASSUME PortInv, NEW i \in Sets, NEW g \in Garbage
                 PROVE  Victim(lines[i], g) \in Ways
      BY DEF VictimExists
    <2>1. lines[i] \in [Ways -> LineOf(Byte)] /\ g \in Nat
      BY PortAssumption DEF PortInv, TypeOK
    <2> QED
      BY <2>1, VictimWay
  <1> QED
    BY <1>1, PortInvariant, PTL

\* The counters account for every access served and for no other
\* (getCacheValue, setCacheValue).
THEOREM PortStats == Supported => (Spec => []StatsExact)
  <1>1. PortInv => StatsExact
    BY WrapSum, CacheAssumption DEF PortInv, StatsSum, StatsExact
  <1> QED
    BY <1>1, PortInvariant, PTL

\* The final drain writes what the program saw, at whatever cycle the driver
\* stops (drain, finalizeSimulator).
THEOREM PortDrain == Supported => (Spec => DrainKeepsView)
  <1>1. PortInv => (Finalize => mem' = View(lines, mem))
    <2> SUFFICES ASSUME PortInv, Finalize PROVE mem' = View(lines, mem)
      OBVIOUS
    <2>1. /\ MemSize \in Nat /\ lines \in LinesOver(Byte)
          /\ mem \in [0 .. MemSize - 1 -> Byte]
          /\ OneCopy(lines) /\ CleanAgrees(lines, mem)
      BY PortAssumption DEF PortInv, TypeOK, UniqueCopy, CleanMatches, LinesOver, Addr
    <2> QED
      BY <2>1, DrainView DEF Finalize
  <1> QED
    BY <1>1, PortInvariant, PTL DEF DrainKeepsView

-----------------------------------------------------------------------------
(***************************************************************************)
(* The port implements flat memory.                                        *)
(***************************************************************************)

LEMMA InitFlat == Init => Flat!Init
  BY DEF Init, Flat!Init

LEMMA NextRequestFlat == NextRequest => Flat!NextRequest
  <1> SUFFICES ASSUME NextRequest PROVE req' \in Requests \union {None}
    BY DEF Flat!NextRequest
  <1>1. CASE cycle < MaxCycle
    BY <1>1 DEF NextRequest
  <1>2. CASE ~ (cycle < MaxCycle)
    <2>1. req' \in {None}
      BY <1>2 DEF NextRequest
    <2> QED
      BY <2>1
  <1> QED
    BY <1>1, <1>2

\* A try of a request is a load, a store, the early show of a store's first
\* byte, or nothing.
LEMMA AccessFlat ==
  ASSUME Supported, PortInv, Access
  PROVE  Flat!Next \/ UNCHANGED Flat!vars
  <1>0. req \in Requests
    BY DEF PortInv, TypeOK, Access
  <1>1. PICK g \in Garbage, u \in Byte :
          LET t == Try(req, g, u)
              c == t.cache
          IN  /\ lines' = c.lines /\ mem' = c.mem
              /\ hits' = c.hits /\ misses' = c.misses
              /\ halt' = c.result
              /\ IF c.result = 0
                 THEN /\ NextRequest
                      /\ answer' = [req |-> req, bytes |-> t.bytes]
                      /\ served' = (served + 1) % CounterMod
                 ELSE missed' = TRUE /\ UNCHANGED <<req, since, answer, served>>
    BY DEF Access
  <1> DEFINE t == Try(req, g, u)
             c == t.cache
             V == View(lines, mem)
  <1>2. Follows(c, t.bytes, req)
    BY <1>0, TryFollows
  <1> HIDE DEF t
  <1>3. /\ lines' = c.lines /\ mem' = c.mem
        /\ c.result = 0 => /\ NextRequest
                           /\ answer' = [req |-> req, bytes |-> t.bytes]
        /\ c.result # 0 => UNCHANGED <<req, answer>>
    BY <1>1 DEF t
  <1>4. View(lines', mem') = View(c.lines, c.mem) /\ req # None
    BY <1>3 DEF Access
  <1>5. req.op \in {"load", "store"}
    BY <1>0, RequestParts
  <1>6. View(lines, mem)' = View(lines', mem')
    BY DEF View, Holding, FirstWay, Index, Tag, Offset
  <1> DEFINE W == View(lines', mem')
  <1>7. CASE c.result # 0 /\ View(lines', mem') = V
    BY <1>3, <1>6, <1>7 DEF Flat!vars
  <1>8. CASE c.result # 0 /\ View(lines', mem') # V
    <2>1. req.op = "store" /\ W = Patched(V, req.addr, req.data[1])
      BY <1>2, <1>4, <1>5, <1>8 DEF Follows
    <2>2. Flat!Reveal
      BY <1>3, <1>4, <1>6, <1>8, <2>1 DEF Flat!Reveal, Flat!IsStore, Patched
    <2> QED
      BY <2>2 DEF Flat!Next
  <1>9. CASE c.result = 0 /\ req.op = "load"
    <2>1. W = V /\ t.bytes = [k \in 1 .. req.n |-> V[req.addr + k - 1]]
      BY <1>2, <1>4, <1>9 DEF Follows
    <2>2. Flat!Load
      BY <1>3, <1>4, <1>6, <1>9, <2>1, NextRequestFlat
      DEF Flat!Load, Flat!IsStore, Flat!BytesAt
    <2> QED
      BY <2>2 DEF Flat!Next
  <1>10. CASE c.result = 0 /\ req.op = "store"
    <2>1. W = Stored(V, req.addr, req.data) /\ t.bytes = req.data
      BY <1>2, <1>4, <1>10 DEF Follows
    <2>2. Flat!Written(V, req) = Stored(V, req.addr, req.data)
      BY DEF Flat!Written, Stored
    <2>3. Flat!Store
      BY <1>3, <1>4, <1>6, <1>10, <2>1, <2>2, NextRequestFlat
      DEF Flat!Store, Flat!IsStore
    <2> QED
      BY <2>3 DEF Flat!Next
  <1> QED
    BY <1>5, <1>7, <1>8, <1>9, <1>10

LEMMA NextFlat ==
  ASSUME Supported, PortInv, [Next]_vars
  PROVE  [Flat!Next]_(Flat!vars)
  <1> USE DEF cacheVars, historyVars
  <1>1. CASE Wait
    BY <1>1 DEF Wait, Flat!vars
  <1>2. CASE Idle
    <2>1. Flat!Accept
      BY <1>2, NextRequestFlat DEF Idle, Flat!Accept
    <2> QED
      BY <2>1 DEF Flat!Next
  <1>3. CASE Access
    BY <1>3, AccessFlat
  <1>4. CASE Finalize
    <2>1. /\ MemSize \in Nat /\ lines \in LinesOver(Byte)
          /\ mem \in [0 .. MemSize - 1 -> Byte]
          /\ OneCopy(lines) /\ CleanAgrees(lines, mem)
      BY PortAssumption DEF PortInv, TypeOK, UniqueCopy, CleanMatches, LinesOver, Addr
    <2>2. lines' = lines /\ mem' = Drain(lines, mem) /\ UNCHANGED <<req, answer>>
      BY <1>4 DEF Finalize
    <2>3. View(lines', mem') = View(lines, mem)
      BY <2>1, <2>2, DrainView
    <2> QED
      BY <2>2, <2>3 DEF Flat!vars
  <1>5. CASE UNCHANGED vars
    BY <1>5 DEF vars, Flat!vars
  <1> QED
    BY <1>1, <1>2, <1>3, <1>4, <1>5 DEF Next, Cycle

\* Behind the cache a program sees one flat array of bytes: every load returns
\* what the last stores left, whatever was evicted, refilled or retried in
\* between (getCacheValue, setCacheValue, cacheMiss, handleMem).
THEOREM PortIsFlat == Supported => (Spec => FlatSpec)
  <1> SUFFICES ASSUME Supported PROVE Spec => FlatSpec
    OBVIOUS
  <1>1. PortInv /\ [Next]_vars => [Flat!Next]_(Flat!vars)
    BY NextFlat
  <1>2. Spec => []PortInv
    BY PortInvariant
  <1> QED
    BY <1>1, <1>2, InitFlat, PTL DEF Spec, FlatSpec, Flat!Spec

-----------------------------------------------------------------------------
(***************************************************************************)
(* Time and replacement: when a block is ready, what a miss costs, which   *)
(* block a miss may replace.                                               *)
(***************************************************************************)

\* The clocks of the pending request: until it misses it is tried in the cycle
\* it arrived in, from then on what is left of the freeze ends with the latency.
Clocks ==
  /\ missed => req # None /\ halt >= 1 /\ cycle + halt - 1 = since + MissLatency
  /\ halt > 0 => missed
  /\ req # None /\ ~ missed => cycle = since

\* The block the missed request waits for stays cached until the retry.
Awaited ==
  missed => \E w \in Ways : CachedAt(lines, req.addr, w, since + MissLatency)

TimeInv == Clocks /\ Awaited /\ FetchedWhenThawed

\* The way used last in a set is cached and the most recent one of the set,
\* and the only one.
Newest ==
  \A i \in Sets :
    /\ TwoWay => ~ (lines[i][0].lru = 1 /\ lines[i][1].lru = 1)
    /\ recent[i] # None =>
         \E w \in Ways : /\ lines[i][w].valid /\ lines[i][w].tag = recent[i]
                         /\ lines[i][w].lru = Assoc - 1

-----------------------------------------------------------------------------
(***************************************************************************)
(* A try of the pending request.                                           *)
(***************************************************************************)

\* It works on one way of the cache, and freezes the pipeline for the delay.
LEMMA TryWorks ==
  ASSUME Supported, PortInv, NEW r \in Requests, NEW g \in Garbage, NEW u \in Byte
  PROVE  \E w \in Ways, c \in Nat :
           /\ Works(lines, Try(r, g, u).cache.lines, r.addr, w, c, g, cycle)
           /\ Try(r, g, u).cache.result = Delay(c, cycle)
  <1> DEFINE p == [lines |-> lines, mem |-> mem, hits |-> hits, misses |-> misses,
                   result |-> 0, byte |-> u]
             t == Try(r, g, u)
  <1>1. /\ lines \in LinesOver(Byte) /\ mem \in [0 .. MemSize - 1 -> Byte]
        /\ hits \in 0 .. CounterMod - 1 /\ misses \in 0 .. CounterMod - 1
        /\ cycle \in Nat /\ g \in Nat
    BY PortAssumption DEF PortInv, TypeOK, Addr, LinesOver
  <1>2. CacheOK(p, Byte, MemSize, cycle)
    <2>1. p \in CacheState(Byte, MemSize)
      BY <1>1 DEF CacheState, LinesOver
    <2> QED
      BY <2>1 DEF CacheOK, PortInv, UniqueCopy, CleanMatches
  <1>3. p.lines = lines
    OBVIOUS
  <1>4. \E w \in Ways, c \in Nat :
          Worked(t.cache, p, r.addr, w, c, g, Byte, MemSize, cycle)
    <2>1. CASE r.op = "load"
      <3>1. t = GetCacheValue(p, r.addr, r.n, cycle, g, u)
        BY <2>1 DEF Try
      <3>2. AccessIn(r.addr, r.n, MemSize)
        BY <2>1, RequestParts
      <3> HIDE DEF p, t
      <3> QED
        BY <1>1, <1>2, <3>1, <3>2, GetValueWorks
    <2>2. CASE r.op = "store"
      <3>1. t.cache = SetCacheValue(p, r.addr, r.data, cycle, g, u)
        BY <2>2 DEF Try
      <3>2. PICK n : r.data \in [1 .. n -> Byte] /\ AccessIn(r.addr, n, MemSize)
        BY <2>2, RequestParts
      <3>3. StoreTag(r.addr) = Tag(r.addr)
        BY <2>2 DEF Supported, StoresNameTheirBlock
      <3> HIDE DEF p, t
      <3> QED
        BY <1>1, <1>2, <3>1, <3>2, <3>3, SetValueWorks
    <2> QED
      BY <2>1, <2>2, RequestParts
  <1> QED
    BY <1>3, <1>4 DEF Worked

\* What a cycle with a try does, seen from the way it works on.
Tried(g, w, c) ==
  /\ g \in Nat /\ w \in Ways /\ c \in Nat
  /\ Works(lines, lines', req.addr, w, c, g, cycle)
  /\ halt' = Delay(c, cycle)
  /\ halt' = 0 => NextRequest
  /\ halt' # 0 => missed' = TRUE /\ UNCHANGED <<req, since>>

LEMMA AccessTries ==
  ASSUME Supported, PortInv, Access
  PROVE  \E g, w, c : Tried(g, w, c)
  <1>0. req \in Requests
    BY DEF PortInv, TypeOK, Access
  <1>1. PICK g \in Garbage, u \in Byte :
          LET t == Try(req, g, u)
              c == t.cache
          IN  /\ lines' = c.lines /\ mem' = c.mem
              /\ hits' = c.hits /\ misses' = c.misses
              /\ halt' = c.result
              /\ IF c.result = 0
                 THEN /\ NextRequest
                      /\ answer' = [req |-> req, bytes |-> t.bytes]
                      /\ served' = (served + 1) % CounterMod
                 ELSE missed' = TRUE /\ UNCHANGED <<req, since, answer, served>>
    BY DEF Access
  <1> DEFINE q == Try(req, g, u).cache
  <1>2. /\ lines' = q.lines /\ halt' = q.result
        /\ q.result = 0 => NextRequest
        /\ q.result # 0 => missed' = TRUE /\ UNCHANGED <<req, since>>
    BY <1>1
  <1>3. PICK w \in Ways, c \in Nat : /\ Works(lines, q.lines, req.addr, w, c, g, cycle)
                                     /\ q.result = Delay(c, cycle)
    BY <1>0, TryWorks
  <1> HIDE DEF q
  <1>4. g \in Nat
    BY PortAssumption
  <1> QED
    BY <1>2, <1>3, <1>4 DEF Tried

\* A request is tried when no block is being fetched any more.  A missed one
\* then finds its block, ready for just that cycle.
LEMMA TryOnTime ==
  ASSUME Supported, PortInv, TimeInv, Access, NEW g, NEW w, NEW c, Tried(g, w, c)
  PROVE  /\ \A i \in Sets, v \in Ways : lines[i][v].cycleReady <= cycle
         /\ CachedAt(lines, req.addr, w, c) => c <= cycle
         /\ IF missed THEN cycle = since + MissLatency /\ halt' = 0 /\ c = cycle
            ELSE /\ cycle = since
                 /\ halt' = 0 => c <= cycle
                 /\ halt' # 0 => c = cycle + MissLatency /\ halt' = MissLatency
  <1>1. /\ cycle \in Nat /\ halt \in Nat /\ halt <= 1 /\ since \in Nat
        /\ MissLatency \in Nat /\ req # None /\ lines \in LinesOver(Byte)
        /\ missed \in BOOLEAN /\ req \in Requests
    BY CacheAssumption DEF PortInv, TypeOK, Access, LinesOver
  <1>2. Index(req.addr) \in Sets /\ w \in Ways /\ c \in Nat
    BY <1>1, RequestParts, AddressFields DEF AccessIn, Tried
  <1>3. ASSUME NEW i \in Sets, NEW v \in Ways
        PROVE  lines[i][v].cycleReady <= cycle
    <2>1. lines[i][v].cycleReady \in Nat
      BY <1>1, LineParts
    <2>2. lines[i][v].cycleReady > cycle => lines[i][v].cycleReady = cycle + halt - 1
      BY DEF TimeInv, FetchedWhenThawed
    <2> QED
      BY <1>1, <2>1, <2>2
  <1>4. CachedAt(lines, req.addr, w, c) => c <= cycle
    BY <1>2, <1>3 DEF CachedAt
  <1>5. \/ CachedAt(lines, req.addr, w, c)
        \/ Holding(lines[Index(req.addr)], Tag(req.addr)) = {} /\ c = cycle + MissLatency
    BY DEF Tried, Works
  <1>6. halt' = IF c > cycle THEN MissLatency ELSE 0
    BY DEF Tried, Delay
  <1>7. CASE missed
    <2>1. halt = 1 /\ cycle = since + MissLatency
      <3>1. halt >= 1 /\ cycle + halt - 1 = since + MissLatency
        BY <1>7 DEF TimeInv, Clocks
      <3> QED
        BY <1>1, <3>1
    <2>2. PICK v \in Ways : CachedAt(lines, req.addr, v, since + MissLatency)
      BY <1>7 DEF TimeInv, Awaited
    <2>3. CachedAt(lines, req.addr, w, c)
      BY <1>5, <2>2 DEF CachedAt, Holding
    <2>4. c = cycle
      BY <1>2, <2>1, <2>2, <2>3 DEF CachedAt, PortInv, UniqueCopy, OneCopy
    <2>5. halt' = 0
      BY <1>1, <1>6, <2>4
    <2> QED
      BY <1>3, <1>4, <1>7, <2>1, <2>4, <2>5
  <1>8. CASE ~ missed
    <2>1. cycle = since
      BY <1>1, <1>8 DEF TimeInv, Clocks
    <2>2. (halt' = 0 => c <= cycle) /\ (halt' # 0 => c = cycle + MissLatency /\ halt' = MissLatency)
      BY <1>1, <1>2, <1>4, <1>5, <1>6
    <2> QED
      BY <1>3, <1>4, <1>8, <2>1, <2>2
  <1> QED
    BY <1>7, <1>8

-----------------------------------------------------------------------------
(***************************************************************************)
(* The invariant.                                                          *)
(***************************************************************************)

LEMMA InitTime == Init => TimeInv
  <1> SUFFICES ASSUME Init PROVE TimeInv
    OBVIOUS
  <1>1. \A i \in Sets, w \in Ways : lines[i][w].cycleReady = 0
    BY DEF Init, EmptyLines, EmptyLine
  <1> QED
    BY <1>1 DEF Init, TimeInv, Clocks, Awaited, FetchedWhenThawed

LEMMA WaitTime == PortInv /\ TimeInv /\ Wait => TimeInv'
  <1> SUFFICES ASSUME PortInv, TimeInv, Wait PROVE TimeInv'
    OBVIOUS
  <1>1. /\ cycle \in Nat /\ halt \in Nat /\ halt > 1 /\ since \in Nat
        /\ MissLatency \in Nat /\ lines \in LinesOver(Byte)
    BY CacheAssumption DEF PortInv, TypeOK, Wait, LinesOver
  <1>2. /\ halt' = halt - 1 /\ cycle' = cycle + 1
        /\ lines' = lines /\ req' = req /\ since' = since /\ missed' = missed
    BY DEF Wait, cacheVars, historyVars
  <1>3. missed /\ req # None /\ cycle + halt - 1 = since + MissLatency
    BY <1>1 DEF TimeInv, Clocks
  <1>4. Clocks'
    BY <1>1, <1>2, <1>3 DEF Clocks
  <1>5. Awaited'
    BY <1>2 DEF TimeInv, Awaited, CachedAt, Index, Tag
  <1>6. FetchedWhenThawed'
    <2> SUFFICES ASSUME NEW i \in Sets, NEW w \in Ways,
                        lines[i][w].cycleReady > cycle + 1
                 PROVE  /\ req # None /\ missed /\ i = Index(req.addr)
                        /\ lines[i][w].cycleReady = (cycle + 1) + (halt - 1) - 1
      BY <1>2 DEF FetchedWhenThawed, Index
    <2>1. lines[i][w].cycleReady \in Nat
      BY <1>1, LineParts
    <2>2. lines[i][w].cycleReady > cycle
      BY <1>1, <2>1
    <2>3. /\ i = Index(req.addr)
          /\ lines[i][w].cycleReady = cycle + halt - 1
      BY <2>2 DEF TimeInv, FetchedWhenThawed
    <2> QED
      BY <1>1, <1>3, <2>1, <2>3
  <1> QED
    BY <1>4, <1>5, <1>6 DEF TimeInv

\* A cycle without a request: no block is being fetched.
LEMMA IdleTime == PortInv /\ TimeInv /\ Idle => TimeInv'
  <1> SUFFICES ASSUME PortInv, TimeInv, Idle PROVE TimeInv'
    OBVIOUS
  <1>1. cycle \in Nat /\ lines \in LinesOver(Byte)
    BY DEF PortInv, TypeOK, LinesOver
  <1>2. /\ halt' = 0 /\ cycle' = cycle + 1 /\ lines' = lines
        /\ missed' = FALSE /\ since' = cycle + 1 /\ req = None
    BY DEF Idle, NextRequest, cacheVars
  <1>3. ASSUME NEW i \in Sets, NEW w \in Ways
        PROVE  ~ (lines[i][w].cycleReady > cycle + 1)
    <2>1. lines[i][w].cycleReady \in Nat
      BY <1>1, LineParts
    <2>2. ~ (lines[i][w].cycleReady > cycle)
      BY <1>2 DEF TimeInv, FetchedWhenThawed
    <2> QED
      BY <1>1, <2>1, <2>2
  <1>4. Clocks' /\ Awaited'
    BY <1>2 DEF Clocks, Awaited
  <1>5. FetchedWhenThawed'
    BY <1>2, <1>3 DEF FetchedWhenThawed
  <1> QED
    BY <1>4, <1>5 DEF TimeInv

LEMMA AccessTime == Supported /\ PortInv /\ PortInv' /\ TimeInv /\ Access => TimeInv'
  <1> SUFFICES ASSUME Supported, PortInv, PortInv', TimeInv, Access PROVE TimeInv'
    OBVIOUS
  <1>1. PICK g, w, c : Tried(g, w, c)
    BY AccessTries
  <1> DEFINE i == Index(req.addr)
  <1>2. /\ \A j \in Sets, v \in Ways : lines[j][v].cycleReady <= cycle
        /\ CachedAt(lines, req.addr, w, c) => c <= cycle
        /\ IF missed THEN cycle = since + MissLatency /\ halt' = 0 /\ c = cycle
           ELSE /\ cycle = since
                /\ halt' = 0 => c <= cycle
                /\ halt' # 0 => c = cycle + MissLatency /\ halt' = MissLatency
    BY <1>1, TryOnTime
  <1>3. /\ cycle \in Nat /\ since \in Nat /\ MissLatency \in Nat /\ missed \in BOOLEAN
        /\ w \in Ways /\ c \in Nat /\ cycle' = cycle + 1 /\ req # None
        /\ lines' \in LinesOver(Byte) /\ lines \in LinesOver(Byte)
    BY <1>1, CacheAssumption DEF PortInv, TypeOK, Tried, Access, LinesOver
  <1>4. /\ halt' = 0 => missed' = FALSE /\ since' = cycle + 1
        /\ halt' # 0 => missed' = TRUE /\ req' = req /\ since' = since
    BY <1>1 DEF Tried, NextRequest
  <1>5. /\ CachedAt(lines', req.addr, w, c)
        /\ \A j \in Sets, v \in Ways :
             j # i \/ v # w => lines'[j][v].cycleReady = lines[j][v].cycleReady
    BY <1>1 DEF Tried, Works, Kept
  <1>6. ASSUME NEW j \in Sets, NEW v \in Ways
        PROVE  /\ lines'[j][v].cycleReady \in Nat
               /\ ~ (j = i /\ lines'[j][v].cycleReady = c) =>
                    lines'[j][v].cycleReady <= cycle
    BY <1>2, <1>3, <1>5, LineParts DEF CachedAt
  <1>7. CASE halt' = 0
    <2>1. c <= cycle
      BY <1>2, <1>3, <1>7
    <2>2. FetchedWhenThawed'
      <3>1. ASSUME NEW j \in Sets, NEW v \in Ways
            PROVE  ~ (lines'[j][v].cycleReady > cycle + 1)
        BY <1>3, <1>6, <2>1
      <3> QED
        BY <1>3, <3>1 DEF FetchedWhenThawed
    <2> QED
      BY <1>3, <1>4, <1>7, <2>2 DEF TimeInv, Clocks, Awaited
  <1>8. CASE halt' # 0
    <2>1. /\ ~ missed /\ cycle = since
          /\ c = cycle + MissLatency /\ halt' = MissLatency /\ MissLatency >= 1
          /\ missed' = TRUE /\ req' = req /\ since' = since
      BY <1>2, <1>3, <1>4, <1>8
    <2>2. Clocks'
      BY <1>3, <2>1 DEF Clocks
    <2>3. Awaited'
      BY <1>3, <1>5, <2>1 DEF Awaited, CachedAt, Index, Tag
    <2>4. FetchedWhenThawed'
      <3> SUFFICES ASSUME NEW j \in Sets, NEW v \in Ways,
                          lines'[j][v].cycleReady > cycle + 1
                   PROVE  j = i /\ lines'[j][v].cycleReady = (cycle + 1) + halt' - 1
        BY <1>3, <2>1 DEF FetchedWhenThawed, Index
      <3> QED
        BY <1>3, <1>6, <2>1
    <2> QED
      BY <2>2, <2>3, <2>4 DEF TimeInv
  <1> QED
    BY <1>7, <1>8

LEMMA NextTime == Supported /\ PortInv /\ TimeInv /\ [Next]_vars => TimeInv'
  <1> SUFFICES ASSUME Supported, PortInv, TimeInv, [Next]_vars PROVE TimeInv'
    OBVIOUS
  <1>1. CASE Wait
    BY <1>1, WaitTime
  <1>2. CASE Idle
    BY <1>2, IdleTime
  <1>3. CASE Access
    BY <1>3, AccessInv, AccessTime
  <1>4. CASE Finalize \/ UNCHANGED vars
    <2>1. UNCHANGED <<lines, cycle, halt, req, since, missed>>
      BY <1>4 DEF Finalize, vars, cacheVars, historyVars
    <2> QED
      BY <2>1 DEF TimeInv, Clocks, Awaited, FetchedWhenThawed, CachedAt, Index, Tag
  <1> QED
    BY <1>1, <1>2, <1>3, <1>4 DEF Next, Cycle

LEMMA TimeInvariant == Supported => (Spec => [](PortInv /\ TimeInv))
  <1> SUFFICES ASSUME Supported PROVE Spec => [](PortInv /\ TimeInv)
    OBVIOUS
  <1>1. PortInv /\ TimeInv /\ [Next]_vars => TimeInv'
    BY NextTime
  <1>2. Spec => []PortInv
    BY PortInvariant
  <1> QED
    BY <1>1, <1>2, InitTime, PTL DEF Spec

-----------------------------------------------------------------------------
(***************************************************************************)
(* The theorems.                                                           *)
(***************************************************************************)

\* A block is still being fetched only while the request that missed on it is
\* frozen in the memory stage, and the thaw comes in the cycle the block is
\* ready in, neither earlier nor later (handleMem, memHaltCycles, cycleReady).
THEOREM PortThaw == Supported => (Spec => []FetchedWhenThawed)
  <1>1. PortInv /\ TimeInv => FetchedWhenThawed
    BY DEF TimeInv
  <1> QED
    BY <1>1, TimeInvariant, PTL

\* An access costs one try if its block is there, and otherwise two, the second
\* of them MissLatency cycles after the first: it never misses again.
THEOREM PortMissCost == Supported => (Spec => MissCost)
  <1> SUFFICES ASSUME Supported PROVE Spec => MissCost
    OBVIOUS
  <1>1. ASSUME PortInv, TimeInv, Access
        PROVE  /\ cycle = since + (IF missed THEN MissLatency ELSE 0)
               /\ missed => halt' = 0
    <2>1. PICK g, w, c : Tried(g, w, c)
      BY <1>1, AccessTries
    <2>2. IF missed THEN cycle = since + MissLatency /\ halt' = 0 ELSE cycle = since
      BY <1>1, <2>1, TryOnTime
    <2>3. since \in Nat
      BY <1>1 DEF PortInv, TypeOK
    <2> QED
      BY <2>2, <2>3
  <1>2. PortInv /\ TimeInv =>
          (Access => /\ cycle = since + (IF missed THEN MissLatency ELSE 0)
                     /\ missed => halt' = 0)
    BY <1>1
  <1> QED
    BY <1>2, TimeInvariant, PTL DEF MissCost

-----------------------------------------------------------------------------
(***************************************************************************)
(* Replacement, for the updateLRU that ages the other ways.                *)
(***************************************************************************)

LEMMA InitNewest == Init => Newest
  <1> SUFFICES ASSUME Init PROVE Newest
    OBVIOUS
  <1>1. \A i \in Sets, w \in Ways : lines[i][w].lru = 0
    BY DEF Init, EmptyLines, EmptyLine
  <1>2. \A i \in Sets : recent[i] = None
    BY DEF Init
  <1> QED
    BY <1>1, <1>2, WaysTwoOrOne DEF Newest

\* A try uses its way: the request never finds its block being fetched, when
\* the recency would not change.
LEMMA AccessNewest ==
  ASSUME Supported, Ages, PortInv, PortInv', TimeInv, Newest, Access
  PROVE  Newest'
  <1>1. PICK g, w, c : Tried(g, w, c)
    BY AccessTries
  <1> DEFINE i == Index(req.addr)
             t == Tag(req.addr)
  <1>2. /\ req \in Requests /\ lines \in LinesOver(Byte)
        /\ recent \in [Sets -> Nat \union {None}] /\ w \in Ways /\ c \in Nat
        /\ cycle \in Nat
    BY <1>1 DEF PortInv, TypeOK, Access, LinesOver, Tried
  <1>3. /\ req.op \in {"load", "store"} /\ i \in Sets /\ t \in Nat
        /\ req.op = "store" => StoreTag(req.addr) = t
    BY <1>2, RequestParts, AddressFields
    DEF AccessIn, Supported, StoresNameTheirBlock
  <1>4. recent' = [recent EXCEPT ![i] = t]
    BY <1>3 DEF Access, Touched
  <1>5. ~ (CachedAt(lines, req.addr, w, c) /\ c > cycle)
    BY <1>1, <1>2, TryOnTime
  <1>6. /\ lines'[i][w].valid /\ lines'[i][w].tag = t
        /\ \A j \in Sets, v \in Ways :
             /\ j # i \/ v # w => Kept(lines'[j][v], lines[j][v])
             /\ lines'[j][v].lru = IF j = i THEN Recency(lines[j], w, v)
                                            ELSE lines[j][v].lru
    BY <1>1, <1>5 DEF Tried, Works, CachedAt
  <1>7. ASSUME NEW j \in Sets
        PROVE  /\ TwoWay => ~ (lines'[j][0].lru = 1 /\ lines'[j][1].lru = 1)
               /\ recent'[j] # None =>
                    \E v \in Ways : /\ lines'[j][v].valid /\ lines'[j][v].tag = recent'[j]
                                    /\ lines'[j][v].lru = Assoc - 1
    <2>1. /\ TwoWay => ~ (lines[j][0].lru = 1 /\ lines[j][1].lru = 1)
          /\ recent[j] # None =>
               \E v \in Ways : /\ lines[j][v].valid /\ lines[j][v].tag = recent[j]
                               /\ lines[j][v].lru = Assoc - 1
      BY DEF Newest
    <2>2. CASE j = i
      <3>1. lines'[i][w].lru = Assoc - 1 /\ recent'[i] = t
        BY <1>2, <1>3, <1>4, <1>6 DEF Recency
      <3>2. ASSUME TwoWay PROVE ~ (lines'[i][0].lru = 1 /\ lines'[i][1].lru = 1)
        <4>1. Ways = {0, 1} /\ Assoc = 2
          BY <3>2, WaysTwoOrOne
        <4>2. /\ lines[i][0].lru \in {0, 1} /\ lines[i][1].lru \in {0, 1}
              /\ ~ (lines[i][0].lru = 1 /\ lines[i][1].lru = 1)
          BY <1>2, <1>3, <2>1, <2>2, <3>2, <4>1, LineParts
        <4>3. \A v \in Ways : lines'[i][v].lru = Recency(lines[i], w, v)
          BY <1>3, <1>6
        <4> QED
          BY <1>2, <4>1, <4>2, <4>3 DEF Recency
      <3> QED
        BY <1>2, <1>6, <2>2, <3>1, <3>2
    <2>3. CASE j # i
      <3>1. \A v \in Ways : /\ lines'[j][v].lru = lines[j][v].lru
                            /\ Kept(lines'[j][v], lines[j][v])
        BY <1>6, <2>3
      <3>2. recent'[j] = recent[j]
        BY <1>2, <1>4, <2>3
      <3>3. TwoWay => 0 \in Ways /\ 1 \in Ways
        BY WaysTwoOrOne
      <3> QED
        BY <2>1, <3>1, <3>2, <3>3 DEF Kept
    <2> QED
      BY <2>2, <2>3
  <1> QED
    BY <1>7 DEF Newest

LEMMA NextNewest ==
  ASSUME Supported, Ages, PortInv, PortInv', TimeInv, Newest, [Next]_vars
  PROVE  Newest'
  <1>1. CASE Access
    BY <1>1, AccessNewest
  <1>2. CASE Wait \/ Idle \/ Finalize \/ UNCHANGED vars
    <2>1. UNCHANGED <<lines, recent>>
      BY <1>2 DEF Wait, Idle, Finalize, vars, cacheVars, historyVars
    <2> QED
      BY <2>1 DEF Newest
  <1> QED
    BY <1>1, <1>2 DEF Next, Cycle

\* With two ways a miss never replaces the block its set used last, so the next
\* access to that block hits (updateLRU, cacheMiss of cycle_sim.cpp; the updateLRU
\* of cache_sim.cpp, which does not age, has no such property).
THEOREM PortRecent == Supported /\ Ages => (Spec => []RecentSurvives)
  <1> SUFFICES ASSUME Supported, Ages PROVE Spec => []RecentSurvives
    OBVIOUS
  <1>1. PortInv /\ PortInv' /\ TimeInv /\ Newest /\ [Next]_vars => Newest'
    BY NextNewest
  <1>2. PortInv /\ Newest => RecentSurvives
    <2> SUFFICES ASSUME PortInv, Newest, NEW i \in Sets, NEW g \in Garbage,
                        recent[i] # None
                 PROVE  \E w \in Ways : /\ lines[i][w].valid /\ lines[i][w].tag = recent[i]
                                        /\ TwoWay => Victim(lines[i], g) # w
      BY DEF RecentSurvives
    <2>1. PICK w \in Ways : /\ lines[i][w].valid /\ lines[i][w].tag = recent[i]
                            /\ lines[i][w].lru = Assoc - 1
      BY DEF Newest
    <2>2. ASSUME TwoWay PROVE Victim(lines[i], g) # w
      <3>1. Ways = {0, 1} /\ Assoc = 2
        BY <2>2, WaysTwoOrOne
      <3>2. lines \in LinesOver(Byte)
        BY DEF PortInv, TypeOK, LinesOver
      <3>3. /\ lines[i][0].lru \in {0, 1} /\ lines[i][1].lru \in {0, 1}
            /\ ~ (lines[i][0].lru = 1 /\ lines[i][1].lru = 1)
        BY <2>2, <3>1, <3>2, LineParts DEF Newest
      <3> QED
        BY <2>1, <2>2, <3>1, <3>3 DEF Victim
    <2> QED
      BY <2>1, <2>2
  <1> QED
    BY <1>1, <1>2, InitNewest, TimeInvariant, PTL DEF Spec

=============================================================================
