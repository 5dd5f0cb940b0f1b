------------------------------- MODULE Cache -------------------------------
(***************************************************************************)
(* The write-back cache of the simulator (class Cache of cycle_sim.cpp and *)
(* its earlier version in cache_sim.cpp) as operators on its state.  The   *)
(* module has no variables: the modules that own a cache (the blocking     *)
(* data port, the pipeline, the comparison of the two versions)            *)
(* instantiate it once for each configuration.                             *)
(*                                                                         *)
(* A cache in use is a record p with fields                                *)
(*   lines[i][w]   the block of set i, way w, with its meta data           *)
(*   mem           the memory store behind the cache, a function from the  *)
(*                 addresses it backs to bytes                             *)
(*   hits, misses  the two counters, unsigned machine integers             *)
(*   result, byte  what the last byte lookup returned                      *)
(* A C++ call that loops over bytes is the composition of its byte calls.  *)
(*                                                                         *)
(* Here and in the other modules an operator named F_x, defined next to    *)
(* operator F, is F with a mistake in it.  Nothing uses it: it documents   *)
(* which mistake a property of the model would reveal.                     *)
(***************************************************************************)
EXTENDS Integers, Sequences

CONSTANTS
  TwoWay,       \* TRUE for TWO_WAY_SET_ASSOC, FALSE for DIRECT_MAPPED
  BlockSize,    \* bytes in a block
  NumSets,      \* sets in the cache
  MissLatency,  \* cycles a miss costs
  CounterMod,   \* the counters count modulo CounterMod (2^32 in the code)
  Ages          \* TRUE for updateLRU of cycle_sim.cpp, FALSE for cache_sim.cpp

ASSUME CacheAssumption ==
  /\ TwoWay \in BOOLEAN
  /\ BlockSize \in Nat \ {0, 1}   \* a block of one byte makes the code shift by 32
  /\ NumSets \in Nat \ {0}
  /\ MissLatency \in Nat
  /\ CounterMod \in Nat \ {0}
  /\ Ages \in BOOLEAN

Assoc   == IF TwoWay THEN 2 ELSE 1
Ways    == 0 .. Assoc - 1
Sets    == 0 .. NumSets - 1
Offsets == 0 .. BlockSize - 1

-----------------------------------------------------------------------------
(***************************************************************************)
(* Address fields.  The code shifts by the base-2 logarithms of BlockSize  *)
(* and NumSets; for powers of two those shifts are these divisions.        *)
(***************************************************************************)

Offset(a) == a % BlockSize
Index(a)  == (a \div BlockSize) % NumSets
Tag(a)    == (a \div BlockSize) \div NumSets

\* The tag setCacheByte computes: its expression never mentions the address.
StoreTag(a) == 0

BlockStart(a)      == (a \div BlockSize) * BlockSize
BlockAddr(tag, i)  == (tag * NumSets + i) * BlockSize

-----------------------------------------------------------------------------
(***************************************************************************)
(* Initial state: value-initialised meta data, all bytes zero.             *)
(***************************************************************************)

EmptyLine ==
  [valid |-> FALSE, dirty |-> FALSE, tag |-> 0, lru |-> 0, cycleReady |-> 0,
   data |-> [o \in Offsets |-> 0]]

EmptyLines == [i \in Sets |-> [w \in Ways |-> EmptyLine]]

-----------------------------------------------------------------------------
(***************************************************************************)
(* Lookup and replacement.                                                 *)
(***************************************************************************)

\* The ways of a set the lookup loop accepts for a tag, and the first of them.
Holding_first(set, tag) == {w \in {0} : set[w].valid /\ set[w].tag = tag}
Holding(set, tag) == {w \in Ways : set[w].valid /\ set[w].tag = tag}
FirstWay(W) == CHOOSE w \in W : \A v \in W : w <= v

\* Replacement that never ages the other ways, or ages past the last way.
UpdateLRU_static(set, w) ==
  [v \in Ways |-> [set[v] EXCEPT !.lru = IF v = w THEN Assoc - 1 ELSE @]]
UpdateLRU_high(set, w) ==
  [v \in Ways |-> [set[v] EXCEPT !.lru = IF v = w THEN Assoc ELSE @]]

\* updateLRU: ways more recent than w move down, w becomes the most recent.
\* The earlier version compares the recency of w with itself: none moves.
UpdateLRU(set, w) ==
  [v \in Ways |->
     [set[v] EXCEPT !.lru = IF v = w THEN Assoc - 1
                            ELSE IF Ages /\ @ > set[w].lru THEN @ - 1 ELSE @]]

\* The way cacheMiss replaces.  In a direct-mapped cache the code reads the
\* meta data of a second way that does not exist: g stands for what it finds.
Victim(set, g) ==
  IF \/ set[0].lru > (IF TwoWay THEN set[1].lru ELSE g)
     \/ TwoWay /\ ~ set[1].valid
  THEN 1 ELSE 0

\* Memory after the block of (tag, i) is written to it; bytes the store does
\* not back are refused by it.
WriteBack(mem, data, tag, i) ==
  [a \in DOMAIN mem |->
     IF a - BlockAddr(tag, i) \in Offsets THEN data[a - BlockAddr(tag, i)]
                                          ELSE mem[a]]

\* A block read from memory.  For a byte the store does not back, the code
\* keeps an uninitialised temporary: u.
ReadBlock(mem, start, u) ==
  [o \in Offsets |-> IF start + o \in DOMAIN mem THEN mem[start + o] ELSE u]

\* A miss that drops a dirty victim.
CacheMiss_drops(p, a, tag, g, u) ==
  LET i == Index(a)
      w == Victim(p.lines[i], g)
      new == [p.lines[i][w] EXCEPT !.data = ReadBlock(p.mem, BlockStart(a), u),
                                   !.dirty = FALSE, !.valid = TRUE, !.tag = tag]
  IN  [p EXCEPT !.lines[i] = UpdateLRU([@ EXCEPT ![w] = new], w)]

\* cacheMiss: evict (writing a dirty victim back), fill, and mark the block.
CacheMiss(p, a, tag, g, u) ==
  LET i    == Index(a)
      w    == Victim(p.lines[i], g)
      old  == p.lines[i][w]
      mem  == IF old.dirty THEN WriteBack(p.mem, old.data, old.tag, i)
                           ELSE p.mem
      new  == [old EXCEPT !.data  = ReadBlock(mem, BlockStart(a), u),
                          !.dirty = FALSE, !.valid = TRUE, !.tag = tag]
  IN  [p EXCEPT !.mem = mem,
                !.lines[i] = UpdateLRU([@ EXCEPT ![w] = new], w)]

-----------------------------------------------------------------------------
(***************************************************************************)
(* One byte.  A valid block whose cycleReady lies in the future is still   *)
(* being fetched: the call reports the latency and leaves the caller's     *)
(* byte as it was (u, uninitialised).                                      *)
(***************************************************************************)

ReadyAt_late(now) == now + MissLatency + 1

Ready(line, now) == line.cycleReady <= now
ReadyAt(now)     == now + MissLatency

\* The three outcomes of a byte read: miss, still being fetched, hit in way w.
ReadMiss(p, a, now, g, u) ==
  LET i == Index(a)
      w == Victim(p.lines[i], g)
      m == CacheMiss(p, a, Tag(a), g, u)
  IN  [m EXCEPT !.result = MissLatency,
                !.byte = m.lines[i][w].data[Offset(a)],
                !.lines[i][w].cycleReady = ReadyAt(now)]

ReadPending(p, u) == [p EXCEPT !.result = MissLatency, !.byte = u]

ReadHit(p, a, w) ==
  [p EXCEPT !.result = 0,
            !.byte = p.lines[Index(a)][w].data[Offset(a)],
            !.lines[Index(a)] = UpdateLRU(p.lines[Index(a)], w)]

GetByte(p, a, now, g, u) ==
  LET set  == p.lines[Index(a)]
      held == Holding(set, Tag(a))
  IN  IF held = {} THEN ReadMiss(p, a, now, g, u)
      ELSE IF Ready(set[FirstWay(held)], now) THEN ReadHit(p, a, FirstWay(held))
      ELSE ReadPending(p, u)

\* The same for a byte write, which looks for the block under another tag.
WriteMiss(p, a, v, now, g, u) ==
  LET i == Index(a)
      w == Victim(p.lines[i], g)
      m == CacheMiss(p, a, StoreTag(a), g, u)
  IN  [m EXCEPT !.result = MissLatency,
                !.lines[i][w] = [@ EXCEPT !.data[Offset(a)] = v, !.dirty = TRUE,
                                          !.cycleReady = ReadyAt(now)]]

WritePending(p) == [p EXCEPT !.result = MissLatency]

WriteHit_clean(p, a, v, w) ==
  [p EXCEPT !.result = 0,
            !.lines[Index(a)] =
               UpdateLRU([@ EXCEPT ![w].data[Offset(a)] = v], w)]

WriteHit(p, a, v, w) ==
  LET set == p.lines[Index(a)]
  IN  [p EXCEPT !.result = 0,
                !.lines[Index(a)] =
                   UpdateLRU([set EXCEPT ![w].data[Offset(a)] = v,
                                         ![w].dirty = TRUE], w)]

SetByte(p, a, v, now, g, u) ==
  LET set  == p.lines[Index(a)]
      held == Holding(set, StoreTag(a))
  IN  IF held = {} THEN WriteMiss(p, a, v, now, g, u)
      ELSE IF Ready(set[FirstWay(held)], now) THEN WriteHit(p, a, v, FirstWay(held))
      ELSE WritePending(p)

-----------------------------------------------------------------------------
(***************************************************************************)
(* A whole access of n bytes, n in {1, 2, 4}.  The counters follow the     *)
(* first byte, the returned delay is that of the last one.  A miss counts  *)
(* one hit down, for the hit its retry will count.                         *)
(***************************************************************************)

\* Counters that forget the hit to come, or that do not wrap.
Count_retry(p, first) ==
  IF first.result = 0
  THEN [p EXCEPT !.hits = (@ + 1) % CounterMod]
  ELSE [p EXCEPT !.misses = (@ + 1) % CounterMod]
Count_signed(p, first) ==
  IF first.result = 0
  THEN [p EXCEPT !.hits = @ + 1]
  ELSE [p EXCEPT !.misses = @ + 1, !.hits = @ - 1]

Count(p, first) ==
  IF first.result = 0
  THEN [p EXCEPT !.hits = (@ + 1) % CounterMod]
  ELSE [p EXCEPT !.misses = (@ + 1) % CounterMod,
                 !.hits = (@ - 1) % CounterMod]

\* getCacheValue: the new cache and the bytes read, most significant first.
GetCacheValue(p, a, n, now, g, u) ==
  LET b1 == GetByte(p, a, now, g, u)
      b2 == GetByte(b1, a + 1, now, g, u)
      b3 == GetByte(b2, a + 2, now, g, u)
      b4 == GetByte(b3, a + 3, now, g, u)
      last == CASE n = 1 -> b1 [] n = 2 -> b2 [] n = 4 -> b4
  IN  [cache |-> Count(last, b1),
       bytes |-> CASE n = 1 -> <<b1.byte>>
                   [] n = 2 -> <<b1.byte, b2.byte>>
                   [] n = 4 -> <<b1.byte, b2.byte, b3.byte, b4.byte>>]

\* setCacheValue: the new cache after the bytes v of a store.
SetCacheValue(p, a, v, now, g, u) ==
  LET b1 == SetByte(p, a, v[1], now, g, u)
      b2 == SetByte(b1, a + 1, v[2], now, g, u)
      b3 == SetByte(b2, a + 2, v[3], now, g, u)
      b4 == SetByte(b3, a + 3, v[4], now, g, u)
      n  == Len(v)
  IN  Count(CASE n = 1 -> b1 [] n = 2 -> b2 [] n = 4 -> b4, b1)

\* The blocks drain writes, and a loop over them that stops a set short.
DirtyBlocks_short(lines) ==
  {iw \in Sets \X Ways : /\ lines[iw[1]][iw[2]].valid /\ lines[iw[1]][iw[2]].dirty
                          /\ iw[1] # NumSets - 1}
DirtyBlocks(lines) ==
  {iw \in Sets \X Ways : lines[iw[1]][iw[2]].valid /\ lines[iw[1]][iw[2]].dirty}

\* drain: every valid dirty block is written to memory, set by set and way
\* by way; where two blocks name the same byte the later write stays.
Drain(lines, mem) ==
  LET Owner(a) == {iw \in DirtyBlocks(lines) :
                     a - BlockAddr(lines[iw[1]][iw[2]].tag, iw[1]) \in Offsets}
      Last(S)  == CHOOSE x \in S : \A y \in S :
                     y[1] < x[1] \/ (y[1] = x[1] /\ y[2] <= x[2])
      Held(a, iw) == LET l == lines[iw[1]][iw[2]]
                     IN  l.data[a - BlockAddr(l.tag, iw[1])]
  IN  [a \in DOMAIN mem |-> IF Owner(a) = {} THEN mem[a]
                                             ELSE Held(a, Last(Owner(a)))]

-----------------------------------------------------------------------------
(***************************************************************************)
(* What a program that goes through the cache sees of memory: the cached   *)
(* copy of a byte where there is one, otherwise the memory's.              *)
(***************************************************************************)

View(lines, mem) ==
  [a \in DOMAIN mem |->
     LET held == Holding(lines[Index(a)], Tag(a))
     IN  IF held = {} THEN mem[a]
                      ELSE lines[Index(a)][FirstWay(held)].data[Offset(a)]]

-----------------------------------------------------------------------------
(***************************************************************************)
(* What every cache keeps true of its blocks and of the memory behind it.  *)
(***************************************************************************)

\* Blocks of bytes in B.  The recency of a way stays below the number of
\* ways, so that no count of it wraps.
LineOf(B) ==
  [valid : BOOLEAN, dirty : BOOLEAN, tag : Nat, lru : 0 .. Assoc - 1,
   cycleReady : Nat, data : [Offsets -> B]]

\* A block of memory is cached in one way at most.
OneCopy(lines) ==
  \A i \in Sets : \A v, w \in Ways :
    lines[i][v].valid /\ lines[i][w].valid /\ lines[i][v].tag = lines[i][w].tag
      => v = w

\* A dirty block is valid, and a valid block that is not dirty holds what
\* memory holds, as far as memory backs it.
CleanAgrees(lines, mem) ==
  \A i \in Sets, w \in Ways :
    LET l == lines[i][w]
    IN  /\ l.dirty => l.valid
        /\ l.valid /\ ~ l.dirty =>
             \A o \in Offsets : BlockAddr(l.tag, i) + o \in DOMAIN mem =>
               mem[BlockAddr(l.tag, i) + o] = l.data[o]

=============================================================================
