---------------------------- MODULE EarlierCache ----------------------------
(***************************************************************************)
(* The earlier version of class Cache (cache_sim.cpp, cache_sim.h), which  *)
(* no simulator is linked with, next to the version of cycle_sim.cpp.  The *)
(* two differ in updateLRU: the earlier one never ages a block, so which   *)
(* block of a two-way set is replaced differs.  A caller makes the same    *)
(* accesses to both and repeats each after its delay, as handleMem does.   *)
(***************************************************************************)
EXTENDS Integers, Sequences

CONSTANTS
  TwoWay, BlockSize, NumSets, MissLatency, CounterMod,  \* as in Cache
  Byte,      \* the values of a byte
  MemSize,   \* addresses 0 .. MemSize - 1 are backed by the memory store
  InitMem,   \* memory when the caches are made
  Calls,     \* the accesses the caller may make
  Garbage,   \* what a read past the end of the meta data may find
  MaxCalls,  \* bound on their number
  None       \* no access

Earlier == INSTANCE Cache WITH Ages <- FALSE
Later   == INSTANCE Cache WITH Ages <- TRUE

Addr == 0 .. MemSize - 1

\* Accesses within memory and one block; stores go to blocks the store path can
\* name.
Within(a, n) == a + n <= MemSize /\ Earlier!Offset(a) + n <= BlockSize
LoadCalls  == {r \in [op : {"load"}, addr : Addr, n : {1, 2, 4}] : Within(r.addr, r.n)}
StoreCalls == {r \in [op : {"store"}, addr : Addr,
                      data : UNION {[1 .. n -> Byte] : n \in {1, 2, 4}}] :
                 /\ Within(r.addr, Len(r.data))
                 /\ Earlier!StoreTag(r.addr) = Earlier!Tag(r.addr)}

ASSUME EarlierAssumption ==
  /\ TwoWay \in BOOLEAN /\ BlockSize \in Nat \ {0, 1} /\ NumSets \in Nat \ {0}
  /\ MissLatency \in Nat /\ CounterMod \in Nat \ {0}
  /\ 0 \in Byte /\ MemSize \in Nat
  /\ InitMem \in [Addr -> Byte]
  /\ Calls \subseteq LoadCalls \union StoreCalls /\ None \notin Calls
  /\ Garbage \subseteq Nat /\ MaxCalls \in Nat

VARIABLES
  earlier, later,  \* the two caches: [p |-> cache, now |-> cycle, bytes]
  made,            \* the accesses made so far
  up               \* FALSE once both have been drained

vars == <<earlier, later, made, up>>

Fresh(lines) ==
  [p |-> [lines |-> lines, mem |-> InitMem, hits |-> 0, misses |-> 0,
          result |-> 0, byte |-> 0],
   now |-> 0, bytes |-> <<>>]

Init ==
  /\ earlier = Fresh(Earlier!EmptyLines) /\ later = Fresh(Later!EmptyLines)
  /\ made = 0 /\ up = TRUE

-----------------------------------------------------------------------------
(***************************************************************************)
(* One access.  The caller comes back when the delay is over, and the next *)
(* access follows in the cycle after the answer.                           *)
(***************************************************************************)

\* getCacheValue and setCacheValue of the earlier version.
EarlierRead(p, r, now, g, u) == Earlier!GetCacheValue(p, r.addr, r.n, now, g, u)
EarlierWrite(p, r, now, g, u) ==
  [cache |-> Earlier!SetCacheValue(p, r.addr, r.data, now, g, u), bytes |-> r.data]

EarlierTry(p, r, now, g, u) ==
  IF r.op = "load" THEN EarlierRead(p, r, now, g, u) ELSE EarlierWrite(p, r, now, g, u)
LaterTry(p, r, now, g, u) ==
  IF r.op = "load"
  THEN Later!GetCacheValue(p, r.addr, r.n, now, g, u)
  ELSE [cache |-> Later!SetCacheValue(p, r.addr, r.data, now, g, u), bytes |-> r.data]

\* The cache c after the try t of an access in cycle c.now, and after its
\* repetition where the try reported a delay.
Answered(t, now) == [p |-> t.cache, now |-> now + 1, bytes |-> t.bytes]
Served(Try(_, _), c) ==
  LET t == Try(c.p, c.now)
  IN  IF t.cache.result = 0 THEN Answered(t, c.now)
      ELSE Answered(Try(t.cache, c.now + t.cache.result), c.now + t.cache.result)

Access(r) ==
  /\ up /\ made < MaxCalls
  /\ \E g \in Garbage, u \in Byte :
       /\ earlier' = Served(LAMBDA p, now : EarlierTry(p, r, now, g, u), earlier)
       /\ later'   = Served(LAMBDA p, now : LaterTry(p, r, now, g, u), later)
  /\ made' = made + 1
  /\ UNCHANGED up

\* drain of both, each into the memory behind it.
Finish ==
  /\ up
  /\ earlier' = [earlier EXCEPT !.p.mem = Earlier!Drain(earlier.p.lines, @)]
  /\ later'   = [later EXCEPT !.p.mem = Later!Drain(later.p.lines, @)]
  /\ up' = FALSE
  /\ UNCHANGED made

Next == (\E r \in Calls : Access(r)) \/ Finish

Spec == Init /\ [][Next]_vars

-----------------------------------------------------------------------------
(***************************************************************************)
(* Properties.                                                             *)
(***************************************************************************)

\* What a program reads does not depend on which block is replaced: however
\* differently the two versions evict, write back and refill, every access is
\* answered at its second try at the latest, with the same bytes.
SameAnswers ==
  /\ earlier.p.result = 0 /\ later.p.result = 0
  /\ earlier.bytes = later.bytes

\* Both drains leave the same memory.
SameDrain == ~ up => earlier.p.mem = later.p.mem

\* Replacement turns hits into misses and back, but the two counters together
\* never differ: each access is one of the two, in either version.
SameTotal ==
  (earlier.p.hits + earlier.p.misses - later.p.hits - later.p.misses)
    % CounterMod = 0

=============================================================================
