---------------------------- MODULE BlockingPort ----------------------------
(***************************************************************************)
(* The data cache as runCycle uses it: one request at a time sits in the   *)
(* memory stage (the EX/MEM latch), handleMem tries it against the cache,  *)
(* a miss freezes the pipeline for the latency of the cache and the same   *)
(* request is then tried again.  The requests are arbitrary: the module    *)
(* knows nothing of the instructions that make them.                       *)
(***************************************************************************)
EXTENDS Cache

CONSTANTS
  Byte,       \* the values of a byte, 0 among them
  MemSize,    \* addresses 0 .. MemSize - 1 are backed by the memory store
  InitMem,    \* memory when the simulator starts
  Requests,   \* the requests a program may make
  Garbage,    \* what a read past the end of the meta data may find
  MaxCycle,   \* bound: no new request and no idle cycle from this cycle on
  None        \* no request

Addr == 0 .. MemSize - 1

\* Loads and stores of backed memory, aligned or not.
LoadReq  == {r \in [op : {"load"}, addr : Addr, n : {1, 2, 4}] :
               r.addr + r.n - 1 \in Addr}
StoreReq == {r \in [op : {"store"}, addr : Addr,
                    data : UNION {[1 .. n -> Byte] : n \in {1, 2, 4}}] :
               r.addr + Len(r.data) - 1 \in Addr}

ASSUME PortAssumption ==
  /\ 0 \in Byte
  /\ MemSize \in Nat
  /\ InitMem \in [Addr -> Byte]
  /\ Requests \subseteq LoadReq \union StoreReq
  /\ Garbage \subseteq Nat
  /\ MaxCycle \in Nat
  /\ None \notin LoadReq \union StoreReq

\* What the code handles, assumed where it is claimed that it does: a store
\* goes to a block the store path can name (one whose tag is 0), and a request
\* lies in one block.  The first byte of an access decides what is counted,
\* its last byte whether the stage waits: they must be of one block.
StoresNameTheirBlock ==
  \A r \in Requests : r.op = "store" => StoreTag(r.addr) = Tag(r.addr)
InOneBlock(r) ==
  Offset(r.addr) + (IF r.op = "load" THEN r.n ELSE Len(r.data)) <= BlockSize
RequestsInOneBlock == \A r \in Requests : InOneBlock(r)

Supported == StoresNameTheirBlock /\ RequestsInOneBlock

VARIABLES
  lines,    \* the blocks of the cache
  mem,      \* the memory store behind it
  hits,     \* the two counters
  misses,
  cycle,    \* pipeState.cycle
  halt,     \* memHaltCycles
  req,      \* the memory instruction in EX/MEM, or None
  up,       \* FALSE once finalizeSimulator has run
  answer,   \* history: the last request served and the bytes it moved
  served,   \* history: how many, counted as the counters are
  since,    \* history: the cycle in which req was first tried, or is to be
  missed,   \* history: whether req has missed
  recent    \* history: the tag last used in each set, or None

cacheVars   == <<lines, mem, hits, misses>>
historyVars == <<answer, served, since, missed, recent>>
vars == <<cacheVars, cycle, halt, req, up, historyVars>>

-----------------------------------------------------------------------------
Init ==
  /\ lines = EmptyLines /\ mem = InitMem /\ hits = 0 /\ misses = 0
  /\ cycle = 0 /\ halt = 0 /\ req = None /\ up = TRUE
  /\ answer = None /\ served = 0 /\ since = 0 /\ missed = FALSE
  /\ recent = [i \in Sets |-> None]

\* The memory stage takes its next instruction at the end of a cycle.
NextRequest ==
  /\ req' \in IF cycle < MaxCycle THEN Requests \union {None} ELSE {None}
  /\ since' = cycle + 1
  /\ missed' = FALSE

\* A freeze of one cycle more, and one whose count is compared but never
\* decremented (its clock stops at 2 * MaxCycle, to have an end for TLC).
Wait_longer ==
  /\ up /\ halt > 0
  /\ halt' = halt - 1
  /\ cycle' = cycle + 1
  /\ UNCHANGED <<cacheVars, req, up, historyVars>>
Wait_keeps ==
  /\ up /\ halt > 1
  /\ cycle' = IF cycle < 2 * MaxCycle THEN cycle + 1 ELSE cycle
  /\ UNCHANGED <<cacheVars, halt, req, up, historyVars>>

\* A cycle of a miss that is not over: nothing but the clocks moves.
Wait ==
  /\ up /\ halt > 1
  /\ halt' = halt - 1
  /\ cycle' = cycle + 1
  /\ UNCHANGED <<cacheVars, req, up, historyVars>>

\* A cycle without a memory instruction in the memory stage.
Idle ==
  /\ up /\ halt <= 1 /\ req = None /\ cycle < MaxCycle
  /\ halt' = 0
  /\ cycle' = cycle + 1
  /\ NextRequest
  /\ UNCHANGED <<cacheVars, up, answer, served, recent>>

\* The call handleMem makes for a request: the cache after it, and the bytes.
Try(r, g, u) ==
  LET p == [lines |-> lines, mem |-> mem, hits |-> hits, misses |-> misses,
            result |-> 0, byte |-> u]
  IN  IF r.op = "load"
      THEN GetCacheValue(p, r.addr, r.n, cycle, g, u)
      ELSE [cache |-> SetCacheValue(p, r.addr, r.data, cycle, g, u),
            bytes |-> r.data]

\* The set and tag the cache works on for a request.
Touched(r) == [recent EXCEPT ![Index(r.addr)] =
                 IF r.op = "load" THEN Tag(r.addr) ELSE StoreTag(r.addr)]

\* A cycle that tries the request: on a delay the pipeline is frozen for that
\* long with the request in place, otherwise the stage moves on.
Access ==
  /\ up /\ halt <= 1 /\ req # None
  /\ \E g \in Garbage, u \in Byte :
       LET t == Try(req, g, u)
           c == t.cache
       IN  /\ lines' = c.lines /\ mem' = c.mem
           /\ hits' = c.hits /\ misses' = c.misses
           /\ halt' = c.result
           /\ IF c.result = 0
              THEN /\ NextRequest
                   /\ answer' = [req |-> req, bytes |-> t.bytes]
                   /\ served' = (served + 1) % CounterMod
              ELSE missed' = TRUE /\ UNCHANGED <<req, since, answer, served>>
  /\ recent' = Touched(req)
  /\ cycle' = cycle + 1
  /\ UNCHANGED up

\* The driver ends the simulation, between any two cycles.
Finalize ==
  /\ up
  /\ up' = FALSE
  /\ mem' = Drain(lines, mem)
  /\ UNCHANGED <<lines, hits, misses, cycle, halt, req, historyVars>>

Cycle == Wait \/ Idle \/ Access
Next  == Cycle \/ Finalize

Spec     == Init /\ [][Next]_vars
\* The driver's loops call runCycle again and again until the program halts.
FairSpec == Spec /\ WF_vars(Cycle)

-----------------------------------------------------------------------------
(***************************************************************************)
(* Types.                                                                  *)
(***************************************************************************)

\* The values the variables of the port take.
TypeOK ==
  /\ lines \in [Sets -> [Ways -> LineOf(Byte)]]
  /\ mem \in [Addr -> Byte]
  /\ hits \in 0 .. CounterMod - 1 /\ misses \in 0 .. CounterMod - 1
  /\ cycle \in Nat /\ halt \in 0 .. MissLatency
  /\ req \in Requests \union {None}
  /\ up \in BOOLEAN
  /\ served \in 0 .. CounterMod - 1
  /\ since \in Nat /\ missed \in BOOLEAN
  /\ recent \in [Sets -> Nat \union {None}]

-----------------------------------------------------------------------------
(***************************************************************************)
(* Safety.                                                                 *)
(***************************************************************************)

\* A block of memory is cached in one way at most: two copies of it would let
\* a store update one and a load, or the drain, use the other.
UniqueCopy == OneCopy(lines)

\* A block that is not marked dirty holds what memory holds: dropping it
\* without a write-back, as cacheMiss and drain do, loses nothing.
CleanMatches == CleanAgrees(lines, mem)

\* Whatever the code reads past the end of the meta data of a direct-mapped
\* set, the way it then replaces exists.
VictimExists == \A i \in Sets, g \in Garbage : Victim(lines[i], g) \in Ways

\* With two ways, a miss never replaces the block its set used last: of two
\* filled ways the victim is the least recently used one, as the comments of
\* cacheMiss have it in both versions of the cache.  It holds where updateLRU
\* ages blocks (Ages), and does not in the earlier version.
RecentSurvives ==
  \A i \in Sets, g \in Garbage :
    recent[i] # None =>
      \E w \in Ways : /\ lines[i][w].valid /\ lines[i][w].tag = recent[i]
                      /\ TwoWay => Victim(lines[i], g) # w

\* Hits and misses always add up to the accesses served, modulo the width of
\* the counters: the hit a miss takes away in advance is the hit its retry
\* counts, so a missed access is one miss and no hit once it is served.
StatsExact == (hits + misses - served) % CounterMod = 0

\* Only the block the pending request waits for is still being fetched, and
\* the freeze lasts exactly until it is ready.
FetchedWhenThawed ==
  \A i \in Sets, w \in Ways :
    lines[i][w].cycleReady > cycle =>
      /\ req # None /\ missed /\ i = Index(req.addr)
      /\ lines[i][w].cycleReady = cycle + halt - 1

\* A request is first tried in the cycle it reaches the memory stage; if that
\* misses it is served by its next try, exactly MissLatency cycles later.
MissCost ==
  [][Access => /\ cycle = since + IF missed THEN MissLatency ELSE 0
               /\ missed => halt' = 0]_vars

\* The final drain leaves in memory exactly what the program saw through the
\* cache, even when the driver stops between a miss and its retry.
DrainKeepsView == [][Finalize => mem' = View(lines, mem)]_vars

\* The cache in front of the memory store behaves as flat memory.
Flat == INSTANCE FlatMemory WITH store <- View(lines, mem), pending <- req
FlatSpec == Flat!Spec

-----------------------------------------------------------------------------
(***************************************************************************)
(* Liveness: a request is served unless the driver stops the simulation.   *)
(***************************************************************************)

\* A request that missed is served in the end: its block is not evicted again
\* before the retry, whatever the other blocks of the set, and the retry finds
\* it ready.
EventuallyServed == missed ~> (~ missed \/ ~ up)

=============================================================================
