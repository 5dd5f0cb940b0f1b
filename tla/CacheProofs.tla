---------------------------- MODULE CacheProofs ----------------------------
(***************************************************************************)
(* Facts about the operators of Cache, for every geometry, every set B of  *)
(* byte values and every size M of the memory behind the cache: types, the *)
(* memory seen through the blocks, and what becomes of time and recency.   *)
(***************************************************************************)
EXTENDS Cache, TLAPS

\* A cache in use over M bytes of memory.
CacheState(B, M) ==
  [lines : [Sets -> [Ways -> LineOf(B)]], mem : [0 .. M - 1 -> B],
   hits : 0 .. CounterMod - 1, misses : 0 .. CounterMod - 1,
   result : {0, MissLatency}, byte : B]

-----------------------------------------------------------------------------
(***************************************************************************)
(* Address arithmetic.                                                     *)
(***************************************************************************)

\* Division with remainder, for any positive divisor.
LEMMA DivMod ==
  ASSUME NEW a \in Nat, NEW b \in Nat \ {0}
  PROVE  /\ a \div b \in Nat /\ a % b \in 0 .. b - 1
         /\ a = ((a \div b) * b) + (a % b)
  OBVIOUS

\* Quotient and remainder are unique.
LEMMA DivModUnique ==
  ASSUME NEW b \in Nat \ {0}, NEW q \in Nat, NEW r \in 0 .. b - 1
  PROVE  (q * b + r) \div b = q /\ (q * b + r) % b = r
  OBVIOUS

\* An address is rebuilt from its tag, index and offset, and its block starts
\* where its tag and index say.
LEMMA AddressFields ==
  ASSUME NEW a \in Nat
  PROVE  /\ Offset(a) \in Offsets /\ Index(a) \in Sets /\ Tag(a) \in Nat
         /\ a = BlockAddr(Tag(a), Index(a)) + Offset(a)
         /\ BlockStart(a) = BlockAddr(Tag(a), Index(a))
  <1>1. BlockSize \in Nat \ {0} /\ NumSets \in Nat \ {0}
    BY CacheAssumption
  <1>2. /\ a \div BlockSize \in Nat /\ a % BlockSize \in Offsets
        /\ a = ((a \div BlockSize) * BlockSize) + (a % BlockSize)
    BY <1>1, DivMod DEF Offsets
  <1>3. /\ Tag(a) \in Nat /\ Index(a) \in Sets
        /\ a \div BlockSize = Tag(a) * NumSets + Index(a)
    BY <1>1, <1>2, DivMod DEF Tag, Index, Sets
  <1> QED
    BY <1>2, <1>3 DEF Offset, BlockAddr, BlockStart

\* Tag, index and offset of an address are the only ones that build it.
LEMMA FieldsUnique ==
  ASSUME NEW t \in Nat, NEW i \in Sets, NEW o \in Offsets
  PROVE  /\ BlockAddr(t, i) \in Nat
         /\ BlockAddr(t, i) + o \in Nat
         /\ Offset(BlockAddr(t, i) + o) = o
         /\ Index(BlockAddr(t, i) + o) = i
         /\ Tag(BlockAddr(t, i) + o) = t
  <1>1. BlockSize \in Nat \ {0} /\ NumSets \in Nat \ {0}
    BY CacheAssumption
  <1>2. i \in Nat /\ o \in Nat /\ t * NumSets + i \in Nat
    BY <1>1 DEF Sets, Offsets
  <1>3. BlockAddr(t, i) \in Nat /\ BlockAddr(t, i) + o \in Nat
    BY <1>1, <1>2 DEF BlockAddr
  <1>4. /\ (BlockAddr(t, i) + o) \div BlockSize = t * NumSets + i
        /\ (BlockAddr(t, i) + o) % BlockSize = o
    BY <1>1, <1>2, DivModUnique DEF BlockAddr, Offsets
  <1>5. (t * NumSets + i) \div NumSets = t /\ (t * NumSets + i) % NumSets = i
    BY <1>1, DivModUnique DEF Sets
  <1> QED
    BY <1>3, <1>4, <1>5 DEF Offset, Index, Tag

-----------------------------------------------------------------------------
(***************************************************************************)
(* Blocks up to their recency and readiness.                               *)
(***************************************************************************)

\* The part of a line that decides what is cached, and that part of all lines.
SameBlock(k, l) ==
  k.valid = l.valid /\ k.dirty = l.dirty /\ k.tag = l.tag /\ k.data = l.data
SameBlocks(ls, ms) == \A i \in Sets, w \in Ways : SameBlock(ls[i][w], ms[i][w])

LEMMA WaysTwoOrOne ==
  /\ Assoc \in {1, 2} /\ 0 \in Ways /\ Ways \subseteq {0, 1}
  /\ TwoWay => Ways = {0, 1} /\ Assoc = 2
  /\ ~ TwoWay => Ways = {0} /\ Assoc = 1
  BY CacheAssumption DEF Assoc, Ways

\* The first of some ways is one of them.
LEMMA FirstWayIn ==
  ASSUME NEW W \in SUBSET Ways, W # {}
  PROVE  FirstWay(W) \in W
  <1>1. \E w \in W : \A v \in W : w <= v
    <2>1. CASE 0 \in W
      BY <2>1, WaysTwoOrOne
    <2>2. CASE 0 \notin W
      <3>1. W = {1}
        BY <2>2, WaysTwoOrOne
      <3> QED
        BY <3>1
    <2> QED
      BY <2>1, <2>2
  <1> QED
    BY <1>1 DEF FirstWay

\* updateLRU changes nothing of a set but the recency of its ways.
LEMMA UpdateLRUType ==
  ASSUME NEW B, NEW set \in [Ways -> LineOf(B)], NEW w \in Ways
  PROVE  /\ UpdateLRU(set, w) \in [Ways -> LineOf(B)]
         /\ \A v \in Ways : /\ SameBlock(UpdateLRU(set, w)[v], set[v])
                            /\ UpdateLRU(set, w)[v].cycleReady = set[v].cycleReady
  <1> DEFINE L(v) == IF v = w THEN Assoc - 1
                     ELSE IF Ages /\ set[v].lru > set[w].lru THEN set[v].lru - 1
                     ELSE set[v].lru
             N(v) == [set[v] EXCEPT !.lru = L(v)]
  <1>1. ASSUME NEW v \in Ways
        PROVE  L(v) \in 0 .. Assoc - 1
    <2>1. set[v] \in LineOf(B) /\ set[w] \in LineOf(B)
      OBVIOUS
    <2>2. set[v].lru \in 0 .. Assoc - 1 /\ set[w].lru \in 0 .. Assoc - 1
      BY <2>1 DEF LineOf
    <2> QED
      BY <2>2, WaysTwoOrOne
  <1>2. ASSUME NEW v \in Ways
        PROVE  /\ N(v) \in LineOf(B) /\ SameBlock(N(v), set[v])
               /\ N(v).cycleReady = set[v].cycleReady
    <2>1. set[v] \in LineOf(B)
      OBVIOUS
    <2> HIDE DEF L
    <2> QED
      BY <1>1, <2>1 DEF LineOf, SameBlock
  <1>3. UpdateLRU(set, w) = [v \in Ways |-> N(v)]
    BY DEF UpdateLRU
  <1> HIDE DEF N
  <1> QED
    BY <1>2, <1>3

\* The way cacheMiss replaces exists, whatever g is found past the end of the
\* meta data of a direct-mapped set.
LEMMA VictimWay ==
  ASSUME NEW B, NEW set \in [Ways -> LineOf(B)], NEW g \in Nat
  PROVE  Victim(set, g) \in Ways
  <1>1. CASE TwoWay
    BY <1>1, WaysTwoOrOne DEF Victim
  <1>2. CASE ~ TwoWay
    <2>1. set[0] \in LineOf(B)
      BY WaysTwoOrOne
    <2>2. set[0].lru = 0
      BY <1>2, <2>1, WaysTwoOrOne DEF LineOf
    <2> QED
      BY <1>2, <2>2, WaysTwoOrOne DEF Victim
  <1> QED
    BY <1>1, <1>2

\* The program sees the cached copy of a byte, when there is one.
LEMMA ViewCached ==
  ASSUME NEW ls, OneCopy(ls), NEW mem, NEW a \in DOMAIN mem, a \in Nat,
         NEW w \in Ways, ls[Index(a)][w].valid, ls[Index(a)][w].tag = Tag(a)
  PROVE  /\ Holding(ls[Index(a)], Tag(a)) = {w}
         /\ FirstWay(Holding(ls[Index(a)], Tag(a))) = w
         /\ View(ls, mem)[a] = ls[Index(a)][w].data[Offset(a)]
  <1>1. Index(a) \in Sets
    BY AddressFields
  <1>2. Holding(ls[Index(a)], Tag(a)) = {w}
    BY <1>1 DEF Holding, OneCopy
  <1>3. FirstWay({w}) = w
    <2>1. {w} \in SUBSET Ways /\ {w} # {}
      OBVIOUS
    <2>2. FirstWay({w}) \in {w}
      BY <2>1, FirstWayIn
    <2> QED
      BY <2>2
  <1> QED
    BY <1>2, <1>3 DEF View

\* Otherwise it sees memory.
LEMMA ViewUncached ==
  ASSUME NEW ls, NEW mem, NEW a \in DOMAIN mem,
         Holding(ls[Index(a)], Tag(a)) = {}
  PROVE  View(ls, mem)[a] = mem[a]
  BY DEF View

\* Recency and readiness of the lines matter to none of these.
LEMMA SameBlocksSame ==
  ASSUME NEW ls, NEW ms, SameBlocks(ls, ms), NEW mem, DOMAIN mem \subseteq Nat
  PROVE  /\ \A i \in Sets : \A t : Holding(ls[i], t) = Holding(ms[i], t)
         /\ OneCopy(ls) <=> OneCopy(ms)
         /\ CleanAgrees(ls, mem) <=> CleanAgrees(ms, mem)
         /\ View(ls, mem) = View(ms, mem)
  <1>1. \A i \in Sets : \A t : Holding(ls[i], t) = Holding(ms[i], t)
    BY DEF Holding, SameBlocks, SameBlock
  <1>2. OneCopy(ls) <=> OneCopy(ms)
    BY DEF OneCopy, SameBlocks, SameBlock
  <1>3. CleanAgrees(ls, mem) <=> CleanAgrees(ms, mem)
    BY DEF CleanAgrees, SameBlocks, SameBlock
  <1>4. ASSUME NEW a \in DOMAIN mem
        PROVE  View(ls, mem)[a] = View(ms, mem)[a]
    <2>1. Index(a) \in Sets
      BY AddressFields
    <2>2. CASE Holding(ls[Index(a)], Tag(a)) = {}
      BY <1>1, <2>1, <2>2 DEF View
    <2>3. CASE Holding(ls[Index(a)], Tag(a)) # {}
      <3>1. FirstWay(Holding(ls[Index(a)], Tag(a))) \in Ways
        BY <2>3, FirstWayIn DEF Holding
      <3> QED
        BY <1>1, <2>1, <2>3, <3>1 DEF View, SameBlocks, SameBlock
    <2> QED
      BY <2>2, <2>3
  <1>5. View(ls, mem) = View(ms, mem)
    BY <1>4 DEF View
  <1> QED
    BY <1>1, <1>2, <1>3, <1>5

-----------------------------------------------------------------------------
(***************************************************************************)
(* A miss: write back, fill.                                               *)
(***************************************************************************)

\* The addresses of a block are those with its tag and index.
LEMMA InBlock ==
  ASSUME NEW t \in Nat, NEW i \in Sets, NEW a \in Nat
  PROVE  /\ a - BlockAddr(t, i) \in Offsets <=> Tag(a) = t /\ Index(a) = i
         /\ a - BlockAddr(t, i) \in Offsets => a - BlockAddr(t, i) = Offset(a)
  <1>1. /\ Offset(a) \in Offsets /\ Index(a) \in Sets /\ Tag(a) \in Nat
        /\ a = BlockAddr(Tag(a), Index(a)) + Offset(a)
    BY AddressFields
  <1>2. BlockAddr(Tag(a), Index(a)) \in Nat /\ BlockAddr(t, i) \in Nat
    BY <1>1, FieldsUnique
  <1>3. Offsets \subseteq Nat
    BY CacheAssumption DEF Offsets
  <1>4. ASSUME a - BlockAddr(t, i) \in Offsets
        PROVE  Tag(a) = t /\ Index(a) = i /\ a - BlockAddr(t, i) = Offset(a)
    <2> DEFINE o == a - BlockAddr(t, i)
    <2>1. a = BlockAddr(t, i) + o
      BY <1>2, <1>4, <1>3
    <2> QED
      BY <1>4, <2>1, FieldsUnique
  <1>5. ASSUME Tag(a) = t, Index(a) = i
        PROVE  a - BlockAddr(t, i) \in Offsets
    <2>1. a = BlockAddr(t, i) + Offset(a)
      BY <1>1, <1>5
    <2>2. Offset(a) \in Nat
      BY <1>1, <1>3
    <2>3. a - BlockAddr(t, i) = Offset(a)
      BY ONLY <1>2, <2>1, <2>2
    <2> QED
      BY <1>1, <2>3
  <1> QED
    BY <1>4, <1>5

\* A write-back changes the bytes of its block and no other.
LEMMA WriteBackAt ==
  ASSUME NEW mem, NEW data, NEW t \in Nat, NEW i \in Sets,
         NEW a \in DOMAIN mem, a \in Nat
  PROVE  WriteBack(mem, data, t, i)[a] =
           IF Tag(a) = t /\ Index(a) = i THEN data[Offset(a)] ELSE mem[a]
  BY InBlock DEF WriteBack

LEMMA WriteBackType ==
  ASSUME NEW B, NEW M \in Nat, NEW mem \in [0 .. M - 1 -> B],
         NEW data \in [Offsets -> B], NEW t \in Nat, NEW i \in Sets
  PROVE  WriteBack(mem, data, t, i) \in [0 .. M - 1 -> B]
  <1>1. ASSUME NEW a \in 0 .. M - 1
        PROVE  WriteBack(mem, data, t, i)[a] \in B
    <2>1. a \in Nat /\ a \in DOMAIN mem
      OBVIOUS
    <2>2. Offset(a) \in Offsets
      BY <2>1, AddressFields
    <2>3. WriteBack(mem, data, t, i)[a] =
            IF Tag(a) = t /\ Index(a) = i THEN data[Offset(a)] ELSE mem[a]
      BY <2>1, WriteBackAt
    <2> QED
      BY <2>2, <2>3
  <1>2. WriteBack(mem, data, t, i) =
          [a \in 0 .. M - 1 |-> WriteBack(mem, data, t, i)[a]]
    BY DEF WriteBack
  <1> QED
    BY <1>1, <1>2

\* What a miss on the block of a leaves: the block is cached in the way that
\* was replaced, every other way keeps its block, and the program sees the
\* memory it saw before.
LEMMA MissFills ==
  ASSUME NEW B, NEW M \in Nat, NEW p \in CacheState(B, M), NEW a \in Nat,
         NEW g \in Nat, NEW u \in B,
         OneCopy(p.lines), CleanAgrees(p.lines, p.mem),
         Holding(p.lines[Index(a)], Tag(a)) = {}
  PROVE  LET i == Index(a)
             w == Victim(p.lines[i], g)
             q == CacheMiss(p, a, Tag(a), g, u)
         IN  /\ i \in Sets /\ w \in Ways
             /\ q \in CacheState(B, M)
             /\ q.hits = p.hits /\ q.misses = p.misses
             /\ OneCopy(q.lines) /\ CleanAgrees(q.lines, q.mem)
             /\ View(q.lines, q.mem) = View(p.lines, p.mem)
             /\ q.lines[i][w].valid /\ q.lines[i][w].tag = Tag(a)
             /\ \A j \in Sets, v \in Ways : j # i \/ v # w =>
                  /\ SameBlock(q.lines[j][v], p.lines[j][v])
                  /\ q.lines[j][v].cycleReady = p.lines[j][v].cycleReady
  <1> DEFINE i   == Index(a)
             t   == Tag(a)
             w   == Victim(p.lines[i], g)
             q   == CacheMiss(p, a, t, g, u)
             old == p.lines[i][w]
             mem == IF old.dirty THEN WriteBack(p.mem, old.data, old.tag, i)
                                 ELSE p.mem
             new == [old EXCEPT !.data = ReadBlock(mem, BlockStart(a), u),
                                !.dirty = FALSE, !.valid = TRUE, !.tag = t]
             set == [p.lines[i] EXCEPT ![w] = new]
             ls  == [p.lines EXCEPT ![i] = set]
  <1>1. i \in Sets /\ t \in Nat /\ BlockStart(a) = BlockAddr(t, i)
    BY AddressFields
  <1>2. /\ p.lines \in [Sets -> [Ways -> LineOf(B)]]
        /\ p.mem \in [0 .. M - 1 -> B]
    BY DEF CacheState
  <1>3. w \in Ways
    BY <1>1, <1>2, VictimWay
  <1>4. /\ old \in LineOf(B) /\ old.valid \in BOOLEAN /\ old.dirty \in BOOLEAN
        /\ old.tag \in Nat /\ old.data \in [Offsets -> B]
    <2>1. old \in LineOf(B)
      BY <1>1, <1>2, <1>3
    <2> QED
      BY <2>1 DEF LineOf
  <1>5. mem \in [0 .. M - 1 -> B]
    BY <1>1, <1>2, <1>4, WriteBackType
  <1>6. ASSUME NEW b \in 0 .. M - 1
        PROVE  mem[b] = IF old.dirty /\ Tag(b) = old.tag /\ Index(b) = i
                        THEN old.data[Offset(b)] ELSE p.mem[b]
    <2>1. b \in Nat /\ b \in DOMAIN p.mem
      BY <1>2
    <2> DEFINE pm == p.mem
               od == old.data
               ot == old.tag
    <2>2. /\ ot \in Nat /\ i \in Sets /\ b \in Nat /\ b \in DOMAIN pm
          /\ pm \in [0 .. M - 1 -> B] /\ od \in [Offsets -> B]
      BY <1>1, <1>2, <1>4, <2>1
    <2> HIDE DEF pm, od, ot, i
    <2>3. WriteBack(pm, od, ot, i)[b] =
            IF Tag(b) = ot /\ Index(b) = i THEN od[Offset(b)] ELSE pm[b]
      BY ONLY <2>2, WriteBackAt
    <2> QED
      BY <2>3 DEF pm, od, ot, i, mem
  <1> HIDE DEF mem
  <1>7. ReadBlock(mem, BlockStart(a), u) \in [Offsets -> B]
    BY <1>5 DEF ReadBlock
  <1>8. /\ new \in LineOf(B) /\ new.valid /\ ~ new.dirty /\ new.tag = t
        /\ new.data = ReadBlock(mem, BlockStart(a), u)
    BY <1>1, <1>4, <1>7 DEF LineOf
  <1> HIDE DEF new
  <1>9. set \in [Ways -> LineOf(B)] /\ ls \in [Sets -> [Ways -> LineOf(B)]]
    BY <1>1, <1>2, <1>8
  <1>10. /\ q = [p EXCEPT !.mem = mem,
                          !.lines = [p.lines EXCEPT ![i] = UpdateLRU(set, w)]]
    BY DEF CacheMiss, mem, new
  <1>11. /\ UpdateLRU(set, w) \in [Ways -> LineOf(B)]
         /\ \A v \in Ways : /\ SameBlock(UpdateLRU(set, w)[v], set[v])
                            /\ UpdateLRU(set, w)[v].cycleReady = set[v].cycleReady
    BY <1>3, <1>9, UpdateLRUType
  <1> HIDE DEF q
  <1>12. /\ q \in CacheState(B, M) /\ q.hits = p.hits /\ q.misses = p.misses
         /\ q.mem = mem
         /\ q.lines = [p.lines EXCEPT ![i] = UpdateLRU(set, w)]
    BY <1>1, <1>2, <1>5, <1>10, <1>11 DEF CacheState
  <1>13. SameBlocks(q.lines, ls)
    BY <1>1, <1>2, <1>11, <1>12 DEF SameBlocks, SameBlock
  <1>14. ASSUME NEW j \in Sets, NEW v \in Ways
         PROVE  ls[j][v] = IF j = i /\ v = w THEN new ELSE p.lines[j][v]
    BY <1>1, <1>2, <1>3
  <1> HIDE DEF ls
  <1>15. \A v \in Ways : ~ (p.lines[i][v].valid /\ p.lines[i][v].tag = t)
    BY DEF Holding
  <1>16. OneCopy(ls)
    BY <1>1, <1>3, <1>8, <1>14, <1>15 DEF OneCopy
  <1>17. CleanAgrees(ls, mem)
    <2> SUFFICES ASSUME NEW j \in Sets, NEW v \in Ways
                 PROVE  /\ ls[j][v].dirty => ls[j][v].valid
                        /\ ls[j][v].valid /\ ~ ls[j][v].dirty =>
                             \A o \in Offsets :
                               BlockAddr(ls[j][v].tag, j) + o \in DOMAIN mem =>
                                 mem[BlockAddr(ls[j][v].tag, j) + o] = ls[j][v].data[o]
      BY DEF CleanAgrees
    <2>1. CASE j = i /\ v = w
      <3>1. ls[j][v] = new
        BY <1>14, <2>1
      <3>2. ASSUME NEW o \in Offsets, BlockAddr(t, i) + o \in DOMAIN mem
            PROVE  mem[BlockAddr(t, i) + o] = new.data[o]
        BY <1>1, <1>8, <3>2 DEF ReadBlock
      <3> QED
        BY <1>8, <2>1, <3>1, <3>2
    <2>2. CASE ~ (j = i /\ v = w)
      <3> DEFINE l == p.lines[j][v]
      <3>1. ls[j][v] = l /\ l \in LineOf(B) /\ l.tag \in Nat
        <4>1. ls[j][v] = l /\ l \in LineOf(B)
          BY <1>2, <1>14, <2>2
        <4> QED
          BY <4>1 DEF LineOf
      <3>2. l.dirty => l.valid
        BY DEF CleanAgrees
      <3>3. ASSUME l.valid, ~ l.dirty, NEW o \in Offsets,
                   BlockAddr(l.tag, j) + o \in DOMAIN mem
            PROVE  mem[BlockAddr(l.tag, j) + o] = l.data[o]
        <4> DEFINE b == BlockAddr(l.tag, j) + o
        <4>1. b \in 0 .. M - 1
          BY <1>5, <3>3
        <4>2. Tag(b) = l.tag /\ Index(b) = j
          BY <3>1, FieldsUnique
        <4>3. p.mem[b] = l.data[o]
          BY <1>2, <3>3, <4>1 DEF CleanAgrees
        <4>4. ~ (old.dirty /\ Tag(b) = old.tag /\ Index(b) = i)
          <5>1. old.dirty => old.valid
            BY <1>1, <1>3 DEF CleanAgrees
          <5> QED
            BY <1>1, <1>3, <2>2, <3>3, <4>2, <5>1 DEF OneCopy
        <4> QED
          BY <1>6, <4>1, <4>3, <4>4
      <3> QED
        BY <3>1, <3>2, <3>3
    <2> QED
      BY <2>1, <2>2
  <1>18. View(ls, mem) = View(p.lines, p.mem)
    <2> SUFFICES ASSUME NEW b \in 0 .. M - 1
                 PROVE  View(ls, mem)[b] = View(p.lines, p.mem)[b]
      BY <1>2, <1>5 DEF View
    <2> DEFINE j == Index(b)
               o == Offset(b)
    <2>1. /\ b \in Nat /\ j \in Sets /\ o \in Offsets /\ Tag(b) \in Nat
          /\ b = BlockAddr(Tag(b), j) + o
          /\ b \in DOMAIN mem /\ b \in DOMAIN p.mem
      BY <1>2, <1>5, AddressFields
    <2>2. CASE j = i /\ Tag(b) = t
      <3>1. View(ls, mem)[b] = new.data[o]
        <4>1. ls[j][w] = new
          BY <1>1, <1>3, <1>14, <2>2
        <4>2. ls[j][w].valid /\ ls[j][w].tag = Tag(b)
          BY <1>8, <2>2, <4>1
        <4>3. View(ls, mem)[b] = ls[j][w].data[o]
          BY <1>3, <1>9, <1>16, <2>1, <4>2, ViewCached
        <4> QED
          BY <4>1, <4>3
      <3>2. new.data[o] = mem[b]
        BY <1>1, <1>8, <2>1, <2>2 DEF ReadBlock
      <3>3. ~ (old.dirty /\ Tag(b) = old.tag /\ Index(b) = i)
        BY <1>1, <1>3, <1>15, <2>2 DEF CleanAgrees
      <3>4. View(p.lines, p.mem)[b] = p.mem[b]
        BY <2>1, <2>2, ViewUncached
      <3> QED
        BY <1>6, <3>1, <3>2, <3>3, <3>4
    <2>3. CASE ~ (j = i /\ Tag(b) = t) /\ Holding(p.lines[j], Tag(b)) = {}
      <3>1. \A v \in Ways : ~ (p.lines[j][v].valid /\ p.lines[j][v].tag = Tag(b))
        BY <2>3 DEF Holding
      <3>2. Holding(ls[j], Tag(b)) = {}
        BY <1>8, <1>14, <2>1, <2>3, <3>1 DEF Holding
      <3>3. ~ (old.dirty /\ Tag(b) = old.tag /\ Index(b) = i)
        BY <1>1, <1>3, <3>1 DEF CleanAgrees
      <3> QED
        BY <1>6, <2>1, <2>3, <3>2, <3>3, ViewUncached
    <2>4. CASE ~ (j = i /\ Tag(b) = t) /\ Holding(p.lines[j], Tag(b)) # {}
      <3>1. PICK v \in Ways : p.lines[j][v].valid /\ p.lines[j][v].tag = Tag(b)
        BY <2>4 DEF Holding
      <3>2. View(p.lines, p.mem)[b] = p.lines[j][v].data[o]
        BY <1>2, <2>1, <3>1, ViewCached
      <3>3. CASE j = i /\ v = w
        <4>1. \A x \in Ways : ~ (ls[j][x].valid /\ ls[j][x].tag = Tag(b))
          BY <1>1, <1>3, <1>8, <1>14, <2>4, <3>1, <3>3 DEF OneCopy
        <4>2. Holding(ls[j], Tag(b)) = {}
          BY <4>1 DEF Holding
        <4>3. View(ls, mem)[b] = mem[b]
          BY <2>1, <4>2, ViewUncached
        <4>4. CASE old.dirty
          BY <1>6, <3>1, <3>2, <3>3, <4>3, <4>4
        <4>5. CASE ~ old.dirty
          <5>1. p.mem[b] = old.data[o]
            BY <1>1, <1>3, <2>1, <3>1, <3>3, <4>5 DEF CleanAgrees
          <5> QED
            BY <1>6, <3>2, <3>3, <4>3, <4>5, <5>1
        <4> QED
          BY <1>4, <4>4, <4>5
      <3>4. CASE ~ (j = i /\ v = w)
        <4>1. ls[j][v] = p.lines[j][v]
          BY <1>14, <2>1, <3>4
        <4>2. View(ls, mem)[b] = ls[j][v].data[o]
          BY <1>9, <1>16, <2>1, <3>1, <4>1, ViewCached
        <4> QED
          BY <3>2, <4>1, <4>2
      <3> QED
        BY <3>3, <3>4
    <2> QED
      BY <2>2, <2>3, <2>4
  <1>19. DOMAIN mem \subseteq Nat
    BY <1>5
  <1>20. /\ OneCopy(q.lines) /\ CleanAgrees(q.lines, mem)
         /\ View(q.lines, mem) = View(p.lines, p.mem)
    BY <1>13, <1>16, <1>17, <1>18, <1>19, SameBlocksSame
  <1>21. q.lines[i][w].valid /\ q.lines[i][w].tag = t
    BY <1>1, <1>3, <1>8, <1>13, <1>14 DEF SameBlocks, SameBlock
  <1>22. ASSUME NEW j \in Sets, NEW v \in Ways, j # i \/ v # w
         PROVE  /\ SameBlock(q.lines[j][v], p.lines[j][v])
                /\ q.lines[j][v].cycleReady = p.lines[j][v].cycleReady
    <2>1. SameBlock(q.lines[j][v], p.lines[j][v])
      BY <1>13, <1>14, <1>22 DEF SameBlocks
    <2>2. q.lines[j][v].cycleReady = p.lines[j][v].cycleReady
      BY <1>1, <1>2, <1>3, <1>11, <1>12, <1>22
    <2> QED
      BY <2>1, <2>2
  <1> QED
    BY <1>1, <1>3, <1>12, <1>20, <1>21, <1>22 DEF q

-----------------------------------------------------------------------------
(***************************************************************************)
(* One byte of an access.                                                  *)
(***************************************************************************)

\* No block is ready later than a miss of this cycle would be.
ReadyBound(ls, now) ==
  \A i \in Sets, w \in Ways : ls[i][w].cycleReady <= now + MissLatency

LinesOver(B) == [Sets -> [Ways -> LineOf(B)]]

\* What every call keeps of a cache over M bytes, in cycle now.
CacheOK(p, B, M, now) ==
  /\ p \in CacheState(B, M)
  /\ OneCopy(p.lines) /\ CleanAgrees(p.lines, p.mem) /\ ReadyBound(p.lines, now)

\* The block of a is cached in way w, ready from cycle c on.
CachedAt(ls, a, w, c) ==
  /\ ls[Index(a)][w].valid /\ ls[Index(a)][w].tag = Tag(a)
  /\ ls[Index(a)][w].cycleReady = c

\* Between two states of the cache: which blocks were cached and when they are
\* ready is kept, and the block of a is cached with the delay the call returns.
Fetches(ls, q, a, now) ==
  /\ \A w \in Ways, c \in Nat : CachedAt(ls, a, w, c) => CachedAt(q.lines, a, w, c)
  /\ \E w \in Ways, c \in Nat : /\ CachedAt(q.lines, a, w, c)
                                /\ q.result = IF c > now THEN MissLatency ELSE 0

\* What the program sees, with one byte overwritten.
Patched(V, a, b) == [V EXCEPT ![a] = b]

\* The block of a is cached and still being fetched.
Fetching(ls, a, now) == \E w \in Ways, c \in Nat : CachedAt(ls, a, w, c) /\ c > now

LEMMA CacheParts ==
  ASSUME NEW B, NEW M \in Nat, NEW now \in Nat, NEW p, CacheOK(p, B, M, now)
  PROVE  /\ p \in CacheState(B, M) /\ OneCopy(p.lines)
         /\ CleanAgrees(p.lines, p.mem) /\ ReadyBound(p.lines, now)
         /\ p.lines \in LinesOver(B) /\ p.mem \in [0 .. M - 1 -> B]
         /\ DOMAIN p.mem = 0 .. M - 1 /\ DOMAIN p.mem \subseteq Nat
         /\ MissLatency \in Nat
  BY CacheAssumption DEF CacheOK, CacheState, LinesOver

\* What a miss on the block of a that takes way w leaves of p, in m.
MissKept(p, m, a, w, B, M) ==
  /\ w \in Ways /\ m \in CacheState(B, M)
  /\ m.lines \in LinesOver(B) /\ m.mem \in [0 .. M - 1 -> B]
  /\ m.hits = p.hits /\ m.misses = p.misses
  /\ OneCopy(m.lines) /\ CleanAgrees(m.lines, m.mem)
  /\ View(m.lines, m.mem) = View(p.lines, p.mem)
  /\ m.lines[Index(a)][w].valid /\ m.lines[Index(a)][w].tag = Tag(a)
  /\ \A j \in Sets, v \in Ways : j # Index(a) \/ v # w =>
       m.lines[j][v].cycleReady = p.lines[j][v].cycleReady

LEMMA MissKeeps ==
  ASSUME NEW B, NEW M \in Nat, NEW now \in Nat, NEW p, CacheOK(p, B, M, now),
         NEW a \in 0 .. M - 1, NEW g \in Nat, NEW u \in B,
         Holding(p.lines[Index(a)], Tag(a)) = {}
  PROVE  MissKept(p, CacheMiss(p, a, Tag(a), g, u), a,
                  Victim(p.lines[Index(a)], g), B, M)
  <1> DEFINE i == Index(a)
             w == Victim(p.lines[i], g)
             m == CacheMiss(p, a, Tag(a), g, u)
  <1>1. /\ p \in CacheState(B, M) /\ OneCopy(p.lines)
        /\ CleanAgrees(p.lines, p.mem) /\ a \in Nat
    BY CacheParts
  <1>2. /\ w \in Ways /\ m \in CacheState(B, M)
        /\ m.hits = p.hits /\ m.misses = p.misses
        /\ OneCopy(m.lines) /\ CleanAgrees(m.lines, m.mem)
        /\ View(m.lines, m.mem) = View(p.lines, p.mem)
        /\ m.lines[i][w].valid /\ m.lines[i][w].tag = Tag(a)
        /\ \A j \in Sets, v \in Ways : j # i \/ v # w =>
             m.lines[j][v].cycleReady = p.lines[j][v].cycleReady
    BY <1>1, MissFills
  <1> HIDE DEF m, w
  <1>3. m.lines \in LinesOver(B) /\ m.mem \in [0 .. M - 1 -> B]
    BY <1>2 DEF CacheState, LinesOver
  <1>4. MissKept(p, m, a, w, B, M)
    BY <1>2, <1>3 DEF MissKept
  <1> QED
    BY <1>4 DEF m, w

LEMMA LineParts ==
  ASSUME NEW B, NEW ls \in LinesOver(B), NEW i \in Sets, NEW w \in Ways
  PROVE  /\ ls[i][w] \in LineOf(B)
         /\ ls[i][w].valid \in BOOLEAN /\ ls[i][w].dirty \in BOOLEAN
         /\ ls[i][w].tag \in Nat /\ ls[i][w].lru \in 0 .. Assoc - 1
         /\ ls[i][w].cycleReady \in Nat /\ ls[i][w].data \in [Offsets -> B]
  <1>1. ls[i][w] \in LineOf(B)
    BY DEF LinesOver
  <1> QED
    BY <1>1 DEF LineOf

\* The lines of a cache, with way w of set i marked as used, and with the line
\* k put in that way.
Used(ls, i, w)       == [ls EXCEPT ![i] = UpdateLRU(ls[i], w)]
PutLine(ls, i, w, k) == [ls EXCEPT ![i] = [ls[i] EXCEPT ![w] = k]]

LEMMA PutLineAt ==
  ASSUME NEW B, NEW ls \in LinesOver(B), NEW i \in Sets, NEW w \in Ways,
         NEW k \in LineOf(B)
  PROVE  /\ PutLine(ls, i, w, k) \in LinesOver(B)
         /\ \A j \in Sets, v \in Ways :
              PutLine(ls, i, w, k)[j][v] =
                IF j = i /\ v = w THEN k ELSE ls[j][v]
  BY DEF PutLine, LinesOver

\* Marking a way as used leaves the blocks and their readiness.
LEMMA UseKeeps ==
  ASSUME NEW B, NEW ls \in LinesOver(B), NEW i \in Sets, NEW w \in Ways
  PROVE  /\ Used(ls, i, w) \in LinesOver(B)
         /\ SameBlocks(Used(ls, i, w), ls)
         /\ \A j \in Sets, v \in Ways :
              Used(ls, i, w)[j][v].cycleReady = ls[j][v].cycleReady
  <1> USE DEF LinesOver, Used
  <1> DEFINE set == UpdateLRU(ls[i], w)
             ms  == [ls EXCEPT ![i] = set]
  <1>1. /\ set \in [Ways -> LineOf(B)]
        /\ \A v \in Ways : /\ SameBlock(set[v], ls[i][v])
                           /\ set[v].cycleReady = ls[i][v].cycleReady
    BY UpdateLRUType
  <1> HIDE DEF set
  <1>2. ms \in [Sets -> [Ways -> LineOf(B)]]
    BY <1>1
  <1>3. ASSUME NEW j \in Sets, NEW v \in Ways
        PROVE  /\ SameBlock(ms[j][v], ls[j][v])
               /\ ms[j][v].cycleReady = ls[j][v].cycleReady
    <2>1. CASE j = i
      BY <1>1, <2>1
    <2>2. CASE j # i
      BY <2>2 DEF SameBlock
    <2> QED
      BY <2>1, <2>2
  <1> QED
    BY <1>2, <1>3 DEF SameBlocks, set

\* Reading a byte keeps the cache sound and what the program sees; when the
\* delay is 0 the byte is the one the program sees.
LEMMA GetByteKeeps ==
  ASSUME NEW B, NEW M \in Nat, NEW now \in Nat, NEW p, CacheOK(p, B, M, now),
         NEW a \in 0 .. M - 1, NEW g \in Nat, NEW u \in B
  PROVE  LET q == GetByte(p, a, now, g, u)
         IN  /\ CacheOK(q, B, M, now)
             /\ q.hits = p.hits /\ q.misses = p.misses
             /\ View(q.lines, q.mem) = View(p.lines, p.mem)
             /\ Fetches(p.lines, q, a, now)
             /\ q.result = 0 => q.byte = View(p.lines, p.mem)[a]
  <1> DEFINE i    == Index(a)
             held == Holding(p.lines[i], Tag(a))
             hit  == FirstWay(held)
             w    == Victim(p.lines[i], g)
             m    == CacheMiss(p, a, Tag(a), g, u)
             q    == GetByte(p, a, now, g, u)
  <1>1. /\ p \in CacheState(B, M) /\ OneCopy(p.lines)
        /\ CleanAgrees(p.lines, p.mem) /\ ReadyBound(p.lines, now)
        /\ p.lines \in LinesOver(B)
        /\ p.mem \in [0 .. M - 1 -> B]
        /\ DOMAIN p.mem = 0 .. M - 1 /\ DOMAIN p.mem \subseteq Nat
        /\ MissLatency \in Nat
    BY CacheParts
  <1>2. a \in Nat /\ i \in Sets /\ Offset(a) \in Offsets /\ Tag(a) \in Nat
    BY AddressFields
  <1>3. CASE held = {}
    <2>0. MissKept(p, m, a, w, B, M)
      BY <1>3, MissKeeps
    <2> HIDE DEF m, w
    <2>1. /\ w \in Ways /\ m \in CacheState(B, M)
          /\ m.lines \in LinesOver(B) /\ m.mem \in [0 .. M - 1 -> B]
          /\ m.hits = p.hits /\ m.misses = p.misses
          /\ OneCopy(m.lines) /\ CleanAgrees(m.lines, m.mem)
          /\ View(m.lines, m.mem) = View(p.lines, p.mem)
          /\ m.lines[i][w].valid /\ m.lines[i][w].tag = Tag(a)
          /\ \A j \in Sets, v \in Ways : j # i \/ v # w =>
               m.lines[j][v].cycleReady = p.lines[j][v].cycleReady
      BY <2>0 DEF MissKept
    <2> DEFINE k  == [m.lines[i][w] EXCEPT !.cycleReady = ReadyAt(now)]
               ls == PutLine(m.lines, i, w, k)
    <2>2. q = [m EXCEPT !.result = MissLatency,
                        !.byte = m.lines[i][w].data[Offset(a)],
                        !.lines = ls]
      <3>1. q = ReadMiss(p, a, now, g, u)
        BY ONLY <1>3 DEF GetByte
      <3> QED
        BY ONLY <3>1 DEF ReadMiss, m, w, PutLine
    <2>3. DOMAIN m.mem = 0 .. M - 1 /\ DOMAIN m.mem \subseteq Nat
      BY <2>1
    <2>4. /\ m.lines[i][w] \in LineOf(B)
          /\ m.lines[i][w].data \in [Offsets -> B]
      BY <1>2, <2>1, <2>3, LineParts
    <2>5. /\ k \in LineOf(B) /\ SameBlock(k, m.lines[i][w])
          /\ k.cycleReady = now + MissLatency
      <3>1. ReadyAt(now) \in Nat /\ ReadyAt(now) = now + MissLatency
        BY <1>1 DEF ReadyAt
      <3> QED
        BY ONLY <2>4, <3>1 DEF LineOf, SameBlock
    <2> HIDE DEF k
    <2>6. /\ ls \in LinesOver(B)
          /\ \A j \in Sets, v \in Ways :
               ls[j][v] = IF j = i /\ v = w THEN k ELSE m.lines[j][v]
      BY <1>2, <2>1, <2>5, PutLineAt
    <2> HIDE DEF ls, q
    <2>7. SameBlocks(ls, m.lines)
      BY <2>5, <2>6 DEF SameBlocks, SameBlock
    <2>8. /\ q \in CacheState(B, M) /\ q.lines = ls /\ q.mem = m.mem
          /\ q.hits = m.hits /\ q.misses = m.misses
          /\ q.result = MissLatency /\ q.byte = m.lines[i][w].data[Offset(a)]
      BY <1>2, <2>1, <2>2, <2>4, <2>6 DEF CacheState, LinesOver
    <2>10. /\ OneCopy(ls) /\ CleanAgrees(ls, m.mem)
           /\ View(ls, m.mem) = View(m.lines, m.mem)
      BY <2>1, <2>7, <2>3, SameBlocksSame
    <2>11. ReadyBound(ls, now)
      BY <1>1, <2>1, <2>5, <2>6 DEF ReadyBound
    <2>12. CachedAt(ls, a, w, now + MissLatency)
      BY <1>2, <2>1, <2>5, <2>6 DEF CachedAt, SameBlock
    <2>13. \A v \in Ways, c \in Nat : ~ CachedAt(p.lines, a, v, c)
      BY <1>3 DEF Holding, CachedAt
    <2>14. Fetches(p.lines, q, a, now)
      BY <1>1, <2>1, <2>8, <2>12, <2>13 DEF Fetches
    <2>15. View(m.lines, m.mem)[a] = q.byte
      BY <1>2, <2>1, <2>3, <2>8, ViewCached
    <2> QED
      BY <2>1, <2>8, <2>10, <2>11, <2>14, <2>15 DEF q, CacheOK
  <1>4. CASE held # {}
    <2>1. hit \in Ways /\ p.lines[i][hit].valid /\ p.lines[i][hit].tag = Tag(a)
      BY <1>4, FirstWayIn DEF Holding
    <2>2. View(p.lines, p.mem)[a] = p.lines[i][hit].data[Offset(a)]
      BY <1>1, <1>2, <2>1, ViewCached
    <2> HIDE DEF hit
    <2> DEFINE c == p.lines[i][hit].cycleReady
    <2>3. /\ p.lines[i][hit].data \in [Offsets -> B]
          /\ c \in Nat /\ c <= now + MissLatency
      BY <1>1, <1>2, <2>1, LineParts DEF ReadyBound
    <2>4. CachedAt(p.lines, a, hit, c)
      BY <2>1 DEF CachedAt
    <2>5. CASE ~ Ready(p.lines[i][hit], now)
      <3>1. q = [p EXCEPT !.result = MissLatency, !.byte = u]
        <4>1. q = ReadPending(p, u)
          BY ONLY <1>4, <2>5 DEF GetByte, hit
        <4> QED
          BY ONLY <4>1 DEF ReadPending
      <3> HIDE DEF q
      <3>2. /\ q \in CacheState(B, M) /\ q.lines = p.lines /\ q.mem = p.mem
            /\ q.hits = p.hits /\ q.misses = p.misses /\ q.result = MissLatency
        BY <1>1, <3>1 DEF CacheState, LinesOver
      <3>3. c > now /\ MissLatency # 0
        BY <1>1, <2>3, <2>5 DEF Ready
      <3>4. Fetches(p.lines, q, a, now)
        BY <2>1, <2>3, <2>4, <3>2, <3>3 DEF Fetches
      <3> QED
        BY <1>1, <3>2, <3>3, <3>4 DEF q, CacheOK
    <2>6. CASE Ready(p.lines[i][hit], now)
      <3> DEFINE ls == Used(p.lines, i, hit)
      <3>1. q = [p EXCEPT !.result = 0, !.byte = p.lines[i][hit].data[Offset(a)],
                          !.lines = ls]
        <4>1. q = ReadHit(p, a, hit)
          BY ONLY <1>4, <2>6 DEF GetByte, hit
        <4> QED
          BY ONLY <4>1 DEF ReadHit, Used
      <3>2. /\ ls \in LinesOver(B) /\ SameBlocks(ls, p.lines)
            /\ \A j \in Sets, v \in Ways :
                 ls[j][v].cycleReady = p.lines[j][v].cycleReady
        BY <1>1, <1>2, <2>1, UseKeeps
      <3> HIDE DEF ls, q
      <3>3. /\ q \in CacheState(B, M) /\ q.lines = ls /\ q.mem = p.mem
            /\ q.hits = p.hits /\ q.misses = p.misses /\ q.result = 0
            /\ q.byte = p.lines[i][hit].data[Offset(a)]
        BY <1>1, <1>2, <2>3, <3>1, <3>2 DEF CacheState, LinesOver
      <3>4. /\ OneCopy(ls) /\ CleanAgrees(ls, p.mem)
            /\ View(ls, p.mem) = View(p.lines, p.mem)
        BY <1>1, <3>2, SameBlocksSame
      <3>5. ReadyBound(ls, now)
        BY <1>1, <3>2 DEF ReadyBound
      <3>6. \A v \in Ways, d \in Nat :
              CachedAt(p.lines, a, v, d) => CachedAt(ls, a, v, d)
        BY <1>2, <3>2 DEF CachedAt, SameBlocks, SameBlock
      <3>7. ~ (c > now)
        BY <2>3, <2>6 DEF Ready
      <3>8. Fetches(p.lines, q, a, now)
        BY <2>1, <2>3, <2>4, <3>3, <3>6, <3>7 DEF Fetches
      <3> QED
        BY <2>2, <3>3, <3>4, <3>5, <3>8 DEF q, CacheOK
    <2> QED
      BY <2>5, <2>6
  <1> QED
    BY <1>3, <1>4

\* k is the line of way w, which caches the block of a in sound lines ls, with
\* its byte at a overwritten by b and marked dirty.
Overwrites(k, ls, mem, a, b, w, B, M) ==
  /\ M \in Nat /\ mem \in [0 .. M - 1 -> B] /\ ls \in LinesOver(B)
  /\ OneCopy(ls) /\ CleanAgrees(ls, mem)
  /\ a \in 0 .. M - 1 /\ b \in B /\ w \in Ways
  /\ ls[Index(a)][w].valid /\ ls[Index(a)][w].tag = Tag(a)
  /\ k \in LineOf(B) /\ k.valid /\ k.dirty /\ k.tag = Tag(a)
  /\ k.data = [ls[Index(a)][w].data EXCEPT ![Offset(a)] = b]

\* Putting that line in the cache changes one byte of what the program sees and
\* nothing else.
LEMMA WriteLine ==
  ASSUME NEW B, NEW M, NEW mem, NEW ls, NEW a, NEW b, NEW w, NEW k,
         Overwrites(k, ls, mem, a, b, w, B, M)
  PROVE  /\ OneCopy(PutLine(ls, Index(a), w, k))
         /\ CleanAgrees(PutLine(ls, Index(a), w, k), mem)
         /\ View(PutLine(ls, Index(a), w, k), mem) = Patched(View(ls, mem), a, b)
  <1> DEFINE i == Index(a)
             l == ls[i][w]
             ms == PutLine(ls, i, w, k)
  <1> USE DEF Overwrites
  <1>1. /\ a \in Nat /\ i \in Sets /\ Offset(a) \in Offsets /\ Tag(a) \in Nat
        /\ a = BlockAddr(Tag(a), i) + Offset(a)
    BY AddressFields
  <1>2. l.data \in [Offsets -> B]
    BY <1>1, LineParts
  <1>0. \A j \in Sets, v \in Ways :
          ms[j][v] = IF j = i /\ v = w THEN k ELSE ls[j][v]
    BY <1>1, PutLineAt
  <1> HIDE DEF ms
  <1>3. OneCopy(ms)
    BY <1>0, <1>1 DEF OneCopy
  <1>4. CleanAgrees(ms, mem)
    <2> SUFFICES ASSUME NEW j \in Sets, NEW v \in Ways
                 PROVE  /\ ms[j][v].dirty => ms[j][v].valid
                        /\ ms[j][v].valid /\ ~ ms[j][v].dirty =>
                             \A x \in Offsets :
                               BlockAddr(ms[j][v].tag, j) + x \in DOMAIN mem =>
                                 mem[BlockAddr(ms[j][v].tag, j) + x] = ms[j][v].data[x]
      BY DEF CleanAgrees
    <2>1. CASE j = i /\ v = w
      <3>1. ms[j][v] = k
        BY <1>0, <2>1
      <3> QED
        BY <3>1
    <2>2. CASE ~ (j = i /\ v = w)
      <3>1. ms[j][v] = ls[j][v]
        BY <1>0, <2>2
      <3> QED
        BY <3>1 DEF CleanAgrees
    <2> QED
      BY <2>1, <2>2
  <1>5. ASSUME NEW x \in 0 .. M - 1
        PROVE  View(ms, mem)[x] = IF x = a THEN b ELSE View(ls, mem)[x]
    <2> DEFINE j == Index(x)
    <2>1. /\ x \in Nat /\ j \in Sets /\ Offset(x) \in Offsets
          /\ x = BlockAddr(Tag(x), j) + Offset(x) /\ x \in DOMAIN mem
      BY AddressFields
    <2>2. CASE j = i /\ Tag(x) = Tag(a)
      <3>1. ms[j][w] = k
        BY <1>0, <1>1, <2>2
      <3>5. w \in Ways /\ ms[j][w].valid /\ ms[j][w].tag = Tag(x)
        BY <2>2, <3>1
      <3>2. View(ms, mem)[x] = ms[j][w].data[Offset(x)]
        BY <1>3, <2>1, <3>5, ViewCached
      <3>3. View(ls, mem)[x] = ls[j][w].data[Offset(x)]
        BY <2>1, <2>2, ViewCached
      <3>4. x = a <=> Offset(x) = Offset(a)
        BY <1>1, <2>1, <2>2
      <3> QED
        BY <1>1, <1>2, <2>1, <2>2, <3>1, <3>2, <3>3, <3>4
    <2>3. CASE ~ (j = i /\ Tag(x) = Tag(a))
      <3>1. x # a
        BY <2>3
      <3>2. CASE Holding(ls[j], Tag(x)) = {}
        <4>1. \A v \in Ways : ~ (ls[j][v].valid /\ ls[j][v].tag = Tag(x))
          BY <3>2 DEF Holding
        <4>2. \A v \in Ways : ~ (ms[j][v].valid /\ ms[j][v].tag = Tag(x))
          BY <1>0, <2>1, <2>3, <4>1
        <4>3. Holding(ms[j], Tag(x)) = {}
          BY <4>2 DEF Holding
        <4> QED
          BY <2>1, <3>1, <3>2, <4>3, ViewUncached
      <3>3. CASE Holding(ls[j], Tag(x)) # {}
        <4>1. PICK v \in Ways : ls[j][v].valid /\ ls[j][v].tag = Tag(x)
          BY <3>3 DEF Holding
        <4>2. ~ (j = i /\ v = w)
          BY <2>3, <4>1
        <4>3. ms[j][v] = ls[j][v]
          BY <1>0, <2>1, <4>2
        <4>6. v \in Ways /\ ms[j][v].valid /\ ms[j][v].tag = Tag(x)
          BY <4>1, <4>3
        <4>4. View(ms, mem)[x] = ms[j][v].data[Offset(x)]
          BY <1>3, <2>1, <4>6, ViewCached
        <4>5. View(ls, mem)[x] = ls[j][v].data[Offset(x)]
          BY <2>1, <4>1, ViewCached
        <4> QED
          BY <3>1, <4>3, <4>4, <4>5
      <3> QED
        BY <3>2, <3>3
    <2> QED
      BY <2>2, <2>3
  <1>6. View(ms, mem) = [x \in 0 .. M - 1 |-> View(ms, mem)[x]]
    BY DEF View
  <1>7. View(ls, mem) = [x \in 0 .. M - 1 |-> View(ls, mem)[x]]
    BY DEF View
  <1> QED
    BY <1>3, <1>4, <1>5, <1>6, <1>7 DEF ms, Patched

\* Writing a byte of a block whose tag is the one stores use keeps the cache
\* sound.  What the program sees changes at that byte, unless the block is
\* still being fetched: then nothing changes.
LEMMA SetByteKeeps ==
  ASSUME NEW B, NEW M \in Nat, NEW now \in Nat, NEW p, CacheOK(p, B, M, now),
         NEW a \in 0 .. M - 1, StoreTag(a) = Tag(a), NEW b \in B,
         NEW g \in Nat, NEW u \in B
  PROVE  LET q == SetByte(p, a, b, now, g, u)
         IN  /\ CacheOK(q, B, M, now)
             /\ q.hits = p.hits /\ q.misses = p.misses
             /\ Fetches(p.lines, q, a, now)
             /\ IF Fetching(p.lines, a, now)
                THEN View(q.lines, q.mem) = View(p.lines, p.mem)
                ELSE View(q.lines, q.mem) = Patched(View(p.lines, p.mem), a, b)
  <1> DEFINE i    == Index(a)
             o    == Offset(a)
             held == Holding(p.lines[i], Tag(a))
             hit  == FirstWay(held)
             w    == Victim(p.lines[i], g)
             m    == CacheMiss(p, a, Tag(a), g, u)
             q    == SetByte(p, a, b, now, g, u)
             Late == Fetching(p.lines, a, now)
  <1>1. /\ p \in CacheState(B, M) /\ OneCopy(p.lines)
        /\ CleanAgrees(p.lines, p.mem) /\ ReadyBound(p.lines, now)
        /\ p.lines \in LinesOver(B)
        /\ p.mem \in [0 .. M - 1 -> B]
        /\ DOMAIN p.mem = 0 .. M - 1 /\ DOMAIN p.mem \subseteq Nat
        /\ MissLatency \in Nat
    BY CacheParts
  <1>2. a \in Nat /\ i \in Sets /\ o \in Offsets /\ Tag(a) \in Nat
    BY AddressFields
  <1>3. CASE held = {}
    <2>0. MissKept(p, m, a, w, B, M)
      BY <1>3, MissKeeps
    <2> HIDE DEF m, w
    <2>1. /\ w \in Ways /\ m \in CacheState(B, M)
          /\ m.lines \in LinesOver(B) /\ m.mem \in [0 .. M - 1 -> B]
          /\ m.hits = p.hits /\ m.misses = p.misses
          /\ OneCopy(m.lines) /\ CleanAgrees(m.lines, m.mem)
          /\ View(m.lines, m.mem) = View(p.lines, p.mem)
          /\ m.lines[i][w].valid /\ m.lines[i][w].tag = Tag(a)
          /\ \A j \in Sets, v \in Ways : j # i \/ v # w =>
               m.lines[j][v].cycleReady = p.lines[j][v].cycleReady
      BY <2>0 DEF MissKept
    <2> DEFINE l  == m.lines[i][w]
               k  == [l EXCEPT !.data[o] = b, !.dirty = TRUE,
                               !.cycleReady = ReadyAt(now)]
               ls == PutLine(m.lines, i, w, k)
    <2>2. q = [m EXCEPT !.result = MissLatency, !.lines = ls]
      <3>1. q = WriteMiss(p, a, b, now, g, u)
        BY <1>3 DEF SetByte
      <3> QED
        BY ONLY <3>1, StoreTag(a) = Tag(a) DEF WriteMiss, m, w, PutLine
    <2>3. DOMAIN m.mem = 0 .. M - 1 /\ DOMAIN m.mem \subseteq Nat
      BY <2>1
    <2>4. l \in LineOf(B) /\ l.data \in [Offsets -> B]
      BY <1>2, <2>1, <2>3, LineParts
    <2>5. /\ k \in LineOf(B) /\ k.valid = l.valid /\ k.dirty /\ k.tag = l.tag
          /\ k.data = [l.data EXCEPT ![o] = b]
          /\ k.cycleReady = now + MissLatency
      <3>1. ReadyAt(now) \in Nat /\ ReadyAt(now) = now + MissLatency
        BY <1>1 DEF ReadyAt
      <3>2. [l.data EXCEPT ![o] = b] \in [Offsets -> B]
        BY <2>4
      <3> QED
        BY ONLY <2>4, <3>1, <3>2 DEF LineOf
    <2> HIDE DEF k
    <2>6. /\ ls \in LinesOver(B)
          /\ \A j \in Sets, v \in Ways :
               ls[j][v] = IF j = i /\ v = w THEN k ELSE m.lines[j][v]
      BY <1>2, <2>1, <2>5, PutLineAt
    <2> HIDE DEF q
    <2>7. /\ q \in CacheState(B, M) /\ q.lines = ls /\ q.mem = m.mem
          /\ q.hits = m.hits /\ q.misses = m.misses /\ q.result = MissLatency
      BY <2>1, <2>2, <2>6 DEF CacheState, LinesOver
    <2>8. /\ OneCopy(ls) /\ CleanAgrees(ls, m.mem)
          /\ View(ls, m.mem) = Patched(View(m.lines, m.mem), a, b)
      <3>1. Overwrites(k, m.lines, m.mem, a, b, w, B, M)
        BY <2>1, <2>5 DEF Overwrites
      <3> QED
        BY <3>1, WriteLine
    <2> HIDE DEF ls
    <2>9. ReadyBound(ls, now)
      <3>1. ASSUME NEW j \in Sets, NEW v \in Ways
            PROVE  ls[j][v].cycleReady <= now + MissLatency
        <4>1. CASE j = i /\ v = w
          BY ONLY <1>1, <2>5, <2>6, <4>1, j \in Sets, v \in Ways
        <4>2. CASE ~ (j = i /\ v = w)
          BY <1>1, <2>1, <2>6, <4>2 DEF ReadyBound
        <4> QED
          BY <4>1, <4>2
      <3> QED
        BY <3>1 DEF ReadyBound
    <2>10. CachedAt(ls, a, w, now + MissLatency)
      BY <1>2, <2>1, <2>5, <2>6 DEF CachedAt
    <2>11. \A v \in Ways, c \in Nat : ~ CachedAt(p.lines, a, v, c)
      BY <1>3 DEF Holding, CachedAt
    <2>12. Fetches(p.lines, q, a, now)
      BY <1>1, <2>1, <2>7, <2>10, <2>11 DEF Fetches
    <2> QED
      BY <2>1, <2>7, <2>8, <2>9, <2>11, <2>12 DEF q, CacheOK, Fetching
  <1>4. CASE held # {}
    <2>1. hit \in Ways /\ p.lines[i][hit].valid /\ p.lines[i][hit].tag = Tag(a)
      BY <1>4, FirstWayIn DEF Holding
    <2> DEFINE l == p.lines[i][hit]
               c == l.cycleReady
    <2>2. CASE ~ Ready(p.lines[i][hit], now)
      <3>1. q = [p EXCEPT !.result = MissLatency]
        <4>1. q = WritePending(p)
          BY <1>4, <2>2 DEF SetByte
        <4> QED
          BY ONLY <4>1 DEF WritePending
      <3> HIDE DEF q, hit
      <3>2. /\ q \in CacheState(B, M) /\ q.lines = p.lines /\ q.mem = p.mem
            /\ q.hits = p.hits /\ q.misses = p.misses /\ q.result = MissLatency
        BY <1>1, <3>1 DEF CacheState, LinesOver
      <3>3. c \in Nat /\ c > now /\ CachedAt(p.lines, a, hit, c)
        BY <1>1, <1>2, <2>1, <2>2, LineParts DEF Ready, CachedAt
      <3>4. Fetches(p.lines, q, a, now) /\ Late
        BY <2>1, <3>2, <3>3 DEF Fetches, Fetching
      <3> QED
        BY <1>1, <3>2, <3>4 DEF q, CacheOK
    <2>3. CASE Ready(p.lines[i][hit], now)
      <3> DEFINE k  == [l EXCEPT !.data[o] = b, !.dirty = TRUE]
                 ks == PutLine(p.lines, i, hit, k)
                 ls == Used(ks, i, hit)
      <3>1. q = [p EXCEPT !.result = 0,
                          !.lines[i] = UpdateLRU(
                             [p.lines[i] EXCEPT ![hit].data[o] = b,
                                                ![hit].dirty = TRUE], hit)]
        <4>1. q = WriteHit(p, a, b, hit)
          BY <1>4, <2>3 DEF SetByte
        <4> QED
          BY ONLY <4>1 DEF WriteHit
      <3> HIDE DEF hit, q
      <3>2. l \in LineOf(B) /\ l.data \in [Offsets -> B] /\ c \in Nat
        BY <1>1, <1>2, <2>1, LineParts
      <3>3. /\ k \in LineOf(B) /\ k.valid = l.valid /\ k.dirty /\ k.tag = l.tag
            /\ k.data = [l.data EXCEPT ![o] = b] /\ k.cycleReady = c
        <4>1. [l.data EXCEPT ![o] = b] \in [Offsets -> B]
          BY <3>2
        <4> QED
          BY ONLY <3>2, <4>1 DEF LineOf
      <3>4. [p.lines[i] EXCEPT ![hit].data[o] = b, ![hit].dirty = TRUE] = ks[i]
        BY <1>1, <1>2, <2>1, <3>2 DEF PutLine, LinesOver
      <3> HIDE DEF k
      <3>5. /\ ks \in LinesOver(B)
            /\ \A j \in Sets, v \in Ways :
                 ks[j][v] = IF j = i /\ v = hit THEN k ELSE p.lines[j][v]
        BY <1>1, <1>2, <2>1, <3>3, PutLineAt
      <3>6. ls = [p.lines EXCEPT ![i] = UpdateLRU(ks[i], hit)]
        BY <1>1, <1>2 DEF Used, PutLine, LinesOver
      <3>10. /\ OneCopy(ks) /\ CleanAgrees(ks, p.mem)
             /\ View(ks, p.mem) = Patched(View(p.lines, p.mem), a, b)
        <4>1. Overwrites(k, p.lines, p.mem, a, b, hit, B, M)
          BY <1>1, <2>1, <3>3 DEF Overwrites
        <4> QED
          BY <4>1, WriteLine
      <3> HIDE DEF ks
      <3>7. /\ ls \in LinesOver(B) /\ SameBlocks(ls, ks)
            /\ \A j \in Sets, v \in Ways : ls[j][v].cycleReady = ks[j][v].cycleReady
        BY <1>2, <2>1, <3>5, UseKeeps
      <3> HIDE DEF ls
      <3>8. q = [p EXCEPT !.result = 0, !.lines = ls]
        BY <3>1, <3>4, <3>6
      <3>9. /\ q \in CacheState(B, M) /\ q.lines = ls /\ q.mem = p.mem
            /\ q.hits = p.hits /\ q.misses = p.misses /\ q.result = 0
        BY <1>1, <3>7, <3>8 DEF CacheState, LinesOver
      <3>11. /\ OneCopy(ls) /\ CleanAgrees(ls, p.mem)
             /\ View(ls, p.mem) = View(ks, p.mem)
        BY <1>1, <3>7, <3>10, SameBlocksSame
      <3>12. \A j \in Sets, v \in Ways :
               ls[j][v].cycleReady = p.lines[j][v].cycleReady
        BY <3>3, <3>5, <3>7
      <3>13. ReadyBound(ls, now)
        BY <1>1, <3>12 DEF ReadyBound
      <3>14. \A v \in Ways : ls[i][v].valid = p.lines[i][v].valid
                             /\ ls[i][v].tag = p.lines[i][v].tag
        BY <1>2, <3>3, <3>5, <3>7 DEF SameBlocks, SameBlock
      <3>15. \A v \in Ways, d \in Nat :
               CachedAt(p.lines, a, v, d) => CachedAt(ls, a, v, d)
        BY <1>2, <3>12, <3>14 DEF CachedAt
      <3>16. CachedAt(p.lines, a, hit, c) /\ ~ (c > now)
        BY <2>1, <2>3, <3>2 DEF Ready, CachedAt
      <3>17. Fetches(p.lines, q, a, now)
        BY <2>1, <3>2, <3>9, <3>15, <3>16 DEF Fetches
      <3>18. ~ Late
        BY <1>1, <1>2, <2>1, <3>16 DEF CachedAt, OneCopy, Fetching
      <3> QED
        BY <3>9, <3>10, <3>11, <3>13, <3>17, <3>18 DEF q, CacheOK
    <2> QED
      BY <2>2, <2>3
  <1> QED
    BY <1>3, <1>4

-----------------------------------------------------------------------------
(***************************************************************************)
(* Whole accesses that stay in one block.                                  *)
(***************************************************************************)

Delay(c, now) == IF c > now THEN MissLatency ELSE 0

\* The bytes of a block share its tag and index.
LEMMA SameBlockAddr ==
  ASSUME NEW a \in Nat, NEW k \in Nat, Offset(a) + k < BlockSize
  PROVE  /\ Index(a + k) = Index(a) /\ Tag(a + k) = Tag(a)
         /\ Offset(a + k) = Offset(a) + k
  <1>1. /\ Offset(a) \in Offsets /\ Index(a) \in Sets /\ Tag(a) \in Nat
        /\ a = BlockAddr(Tag(a), Index(a)) + Offset(a)
    BY AddressFields
  <1>2. BlockAddr(Tag(a), Index(a)) \in Nat /\ Offset(a) \in Nat
    BY <1>1, FieldsUnique, CacheAssumption DEF Offsets
  <1>3. Offset(a) + k \in Offsets
    BY <1>2, CacheAssumption DEF Offsets
  <1> DEFINE s == BlockAddr(Tag(a), Index(a))
             o == Offset(a)
  <1>4. a + k = s + (o + k)
    <2>1. a = s + o /\ s \in Nat /\ o \in Nat
      BY <1>1, <1>2
    <2> HIDE DEF s, o
    <2> QED
      BY <2>1
  <1> QED
    BY <1>1, <1>3, <1>4, FieldsUnique

\* In cycle now, x is a byte of the block of a, which way w caches with the
\* readiness c.
Further(p, a, x, w, c, B, M, now) ==
  /\ M \in Nat /\ now \in Nat /\ CacheOK(p, B, M, now)
  /\ x \in 0 .. M - 1 /\ Index(x) = Index(a) /\ Tag(x) = Tag(a)
  /\ w \in Ways /\ c \in Nat /\ CachedAt(p.lines, a, w, c)

\* What the call for such a byte keeps, and the delay it reports.
Continues(q, p, a, w, c, B, M, now) ==
  /\ CacheOK(q, B, M, now) /\ q.hits = p.hits /\ q.misses = p.misses
  /\ CachedAt(q.lines, a, w, c) /\ q.result = Delay(c, now)

\* Once the block of a is cached, every further byte of it comes with the same
\* delay, and a read of it changes nothing the program sees.
LEMMA ReadStep ==
  ASSUME NEW B, NEW M, NEW now, NEW p, NEW a, NEW x, NEW w, NEW c,
         Further(p, a, x, w, c, B, M, now), NEW g \in Nat, NEW u \in B
  PROVE  LET q == GetByte(p, x, now, g, u)
         IN  /\ Continues(q, p, a, w, c, B, M, now)
             /\ View(q.lines, q.mem) = View(p.lines, p.mem)
             /\ q.result = 0 => q.byte = View(p.lines, p.mem)[x]
  <1> USE DEF Further
  <1> DEFINE q == GetByte(p, x, now, g, u)
  <1>0. Index(a) \in Sets
    BY AddressFields
  <1>2. /\ CacheOK(q, B, M, now)
        /\ q.hits = p.hits /\ q.misses = p.misses
        /\ View(q.lines, q.mem) = View(p.lines, p.mem)
        /\ Fetches(p.lines, q, x, now)
        /\ q.result = 0 => q.byte = View(p.lines, p.mem)[x]
    BY GetByteKeeps
  <1> HIDE DEF q
  <1>3. CachedAt(q.lines, a, w, c)
    BY <1>2 DEF Fetches, CachedAt
  <1>4. PICK v \in Ways, d \in Nat : /\ CachedAt(q.lines, x, v, d)
                                     /\ q.result = Delay(d, now)
    BY <1>2 DEF Fetches, Delay
  <1>5. OneCopy(q.lines)
    BY <1>2 DEF CacheOK
  <1>6. d = c
    BY <1>0, <1>3, <1>4, <1>5 DEF CachedAt, OneCopy
  <1> QED
    BY <1>2, <1>3, <1>4, <1>6 DEF q, Continues

\* The same for a write to a block whose tag is the one stores use: while the
\* block is being fetched nothing changes, then the byte does.
LEMMA WriteStep ==
  ASSUME NEW B, NEW M, NEW now, NEW p, NEW a, NEW x, NEW w, NEW c,
         Further(p, a, x, w, c, B, M, now), StoreTag(x) = Tag(x), NEW b \in B,
         NEW g \in Nat, NEW u \in B
  PROVE  LET q == SetByte(p, x, b, now, g, u)
         IN  /\ Continues(q, p, a, w, c, B, M, now)
             /\ View(q.lines, q.mem) =
                  IF c > now THEN View(p.lines, p.mem)
                  ELSE Patched(View(p.lines, p.mem), x, b)
  <1> USE DEF Further
  <1> DEFINE q == SetByte(p, x, b, now, g, u)
             Late == Fetching(p.lines, x, now)
  <1>0. Index(a) \in Sets
    BY AddressFields
  <1>2. /\ CacheOK(q, B, M, now)
        /\ q.hits = p.hits /\ q.misses = p.misses
        /\ Fetches(p.lines, q, x, now)
        /\ IF Late THEN View(q.lines, q.mem) = View(p.lines, p.mem)
           ELSE View(q.lines, q.mem) = Patched(View(p.lines, p.mem), x, b)
    BY SetByteKeeps
  <1> HIDE DEF q
  <1>3. CachedAt(q.lines, a, w, c)
    BY <1>2 DEF Fetches, CachedAt
  <1>4. PICK v \in Ways, d \in Nat : /\ CachedAt(q.lines, x, v, d)
                                     /\ q.result = Delay(d, now)
    BY <1>2 DEF Fetches, Delay
  <1>5. OneCopy(q.lines) /\ OneCopy(p.lines)
    BY <1>2 DEF CacheOK
  <1>6. d = c
    BY <1>0, <1>3, <1>4, <1>5 DEF CachedAt, OneCopy
  <1>7. Late <=> c > now
    BY <1>0, <1>5 DEF CachedAt, OneCopy, Fetching
  <1> QED
    BY <1>2, <1>3, <1>4, <1>6, <1>7 DEF q, Continues

\* The counters after an access whose first byte came with the delay d.
Counted(q, p, f) ==
  /\ q.lines = p.lines /\ q.mem = p.mem /\ q.result = p.result
  /\ IF f.result = 0
     THEN q.hits = (p.hits + 1) % CounterMod /\ q.misses = p.misses
     ELSE /\ q.hits = (p.hits - 1) % CounterMod
          /\ q.misses = (p.misses + 1) % CounterMod

LEMMA CountKeeps ==
  ASSUME NEW B, NEW M \in Nat, NEW now \in Nat, NEW p, CacheOK(p, B, M, now),
         NEW f
  PROVE  CacheOK(Count(p, f), B, M, now) /\ Counted(Count(p, f), p, f)
  <1> DEFINE q == Count(p, f)
  <1>1. p \in CacheState(B, M)
    BY DEF CacheOK
  <1>2. /\ p.hits \in 0 .. CounterMod - 1 /\ p.misses \in 0 .. CounterMod - 1
    BY <1>1 DEF CacheState
  <1>3. /\ (p.hits + 1) % CounterMod \in 0 .. CounterMod - 1
        /\ (p.hits - 1) % CounterMod \in 0 .. CounterMod - 1
        /\ (p.misses + 1) % CounterMod \in 0 .. CounterMod - 1
    BY <1>2, CacheAssumption
  <1>4. /\ q \in CacheState(B, M)
        /\ q.lines = p.lines /\ q.mem = p.mem /\ q.result = p.result
        /\ IF f.result = 0
           THEN q.hits = (p.hits + 1) % CounterMod /\ q.misses = p.misses
           ELSE /\ q.hits = (p.hits - 1) % CounterMod
                /\ q.misses = (p.misses + 1) % CounterMod
    <2>1. CASE f.result = 0
      <3>1. q = [p EXCEPT !.hits = (p.hits + 1) % CounterMod]
        BY <2>1 DEF Count
      <3> HIDE DEF q
      <3> QED
        BY <1>1, <1>3, <2>1, <3>1 DEF CacheState
    <2>2. CASE f.result # 0
      <3>1. q = [p EXCEPT !.misses = (p.misses + 1) % CounterMod,
                          !.hits = (p.hits - 1) % CounterMod]
        BY <2>2 DEF Count
      <3> HIDE DEF q
      <3> QED
        BY <1>1, <1>3, <2>2, <3>1 DEF CacheState
    <2> QED
      BY <2>1, <2>2
  <1> HIDE DEF q
  <1>5. CacheOK(q, B, M, now)
    BY <1>4 DEF CacheOK
  <1> QED
    BY <1>4, <1>5 DEF q, Counted

\* An access of n bytes from a on that stays in one block, in a memory of M.
AccessIn(a, n, M) ==
  /\ a \in Nat /\ M \in Nat /\ n \in {1, 2, 4}
  /\ a + n - 1 \in 0 .. M - 1 /\ Offset(a) + n <= BlockSize

LEMMA AccessInBlock ==
  ASSUME NEW a, NEW M, NEW n, AccessIn(a, n, M)
  PROVE  /\ Offset(a) \in Nat /\ Offset(a) + (n - 1) < BlockSize
         /\ a \in 0 .. M - 1
         /\ n # 1 => Offset(a) + 1 < BlockSize /\ a + 1 \in 0 .. M - 1
         /\ n = 4 => Offset(a) + 2 < BlockSize /\ a + 2 \in 0 .. M - 1
         /\ n = 4 => Offset(a) + 3 < BlockSize /\ a + 3 \in 0 .. M - 1
  BY AddressFields, CacheAssumption DEF Offsets, AccessIn

\* A load in one block returns, when its delay is 0, the bytes the program
\* sees, and changes nothing the program sees; it is counted as one hit if its
\* delay is 0, and otherwise as one miss with a hit less.
Loaded(q, bytes, p, a, n, B, M, now) ==
  /\ CacheOK(q, B, M, now)
  /\ View(q.lines, q.mem) = View(p.lines, p.mem)
  /\ q.result = 0 =>
       /\ bytes = [k \in 1 .. n |-> View(p.lines, p.mem)[a + k - 1]]
       /\ q.hits = (p.hits + 1) % CounterMod /\ q.misses = p.misses
  /\ q.result # 0 =>
       /\ q.hits = (p.hits - 1) % CounterMod
       /\ q.misses = (p.misses + 1) % CounterMod

LEMMA GetValueKeeps ==
  ASSUME NEW B, NEW M, NEW now \in Nat, NEW p, CacheOK(p, B, M, now),
         NEW a, NEW n, AccessIn(a, n, M), NEW g \in Nat, NEW u \in B
  PROVE  LET r == GetCacheValue(p, a, n, now, g, u)
         IN  Loaded(r.cache, r.bytes, p, a, n, B, M, now)
  <1> a \in Nat /\ M \in Nat /\ n \in {1, 2, 4}
    BY DEF AccessIn
  <1> DEFINE V  == View(p.lines, p.mem)
             b1 == GetByte(p, a, now, g, u)
             b2 == GetByte(b1, a + 1, now, g, u)
             b3 == GetByte(b2, a + 2, now, g, u)
             b4 == GetByte(b3, a + 3, now, g, u)
             r  == GetCacheValue(p, a, n, now, g, u)
             Good(b, w, c) == /\ CacheOK(b, B, M, now)
                              /\ b.hits = p.hits /\ b.misses = p.misses
                              /\ View(b.lines, b.mem) = V
                              /\ CachedAt(b.lines, a, w, c)
                              /\ b.result = Delay(c, now)
  <1>0. /\ Offset(a) \in Nat /\ Offset(a) + (n - 1) < BlockSize
        /\ a \in 0 .. M - 1
        /\ n # 1 => Offset(a) + 1 < BlockSize /\ a + 1 \in 0 .. M - 1
        /\ n = 4 => Offset(a) + 2 < BlockSize /\ a + 2 \in 0 .. M - 1
        /\ n = 4 => Offset(a) + 3 < BlockSize /\ a + 3 \in 0 .. M - 1
    BY AccessInBlock
  <1>1. /\ CacheOK(b1, B, M, now) /\ b1.hits = p.hits /\ b1.misses = p.misses
        /\ View(b1.lines, b1.mem) = V /\ Fetches(p.lines, b1, a, now)
        /\ b1.result = 0 => b1.byte = V[a]
    BY <1>0, GetByteKeeps
  <1>2. PICK w \in Ways, c \in Nat : /\ CachedAt(b1.lines, a, w, c)
                                     /\ b1.result = Delay(c, now)
    BY <1>1 DEF Fetches, Delay
  <1>3. Good(b1, w, c)
    BY <1>1, <1>2
  <1> HIDE DEF Good, V, b1, b2, b3, b4, r
  <1>11. ASSUME NEW b, Good(b, w, c), NEW k \in 1 .. 3,
                Offset(a) + k < BlockSize, a + k \in 0 .. M - 1
         PROVE  LET q == GetByte(b, a + k, now, g, u)
                IN  Good(q, w, c) /\ (q.result = 0 => q.byte = V[a + k])
    <2> DEFINE x == a + k
               q == GetByte(b, x, now, g, u)
    <2>1. Further(b, a, x, w, c, B, M, now)
      BY <1>11, SameBlockAddr DEF Good, Further
    <2>2. /\ Continues(q, b, a, w, c, B, M, now)
          /\ View(q.lines, q.mem) = View(b.lines, b.mem)
          /\ q.result = 0 => q.byte = View(b.lines, b.mem)[x]
      BY <2>1, ReadStep
    <2> HIDE DEF q
    <2> QED
      BY <1>11, <2>2 DEF Good, Continues, q, x
  <1>4. n # 1 => Good(b2, w, c) /\ (b2.result = 0 => b2.byte = V[a + 1])
    BY <1>0, <1>3, <1>11 DEF b2
  <1>5. n = 4 => Good(b3, w, c) /\ (b3.result = 0 => b3.byte = V[a + 2])
    BY <1>0, <1>4, <1>11 DEF b3
  <1>6. n = 4 => Good(b4, w, c) /\ (b4.result = 0 => b4.byte = V[a + 3])
    BY <1>0, <1>5, <1>11 DEF b4
  <1> DEFINE last == CASE n = 1 -> b1 [] n = 2 -> b2 [] n = 4 -> b4
             bs   == CASE n = 1 -> <<b1.byte>>
                       [] n = 2 -> <<b1.byte, b2.byte>>
                       [] n = 4 -> <<b1.byte, b2.byte, b3.byte, b4.byte>>
  <1>7. r = [cache |-> Count(last, b1), bytes |-> bs]
    BY DEF GetCacheValue, b1, b2, b3, b4, r
  <1> HIDE DEF r
  <1>8. Good(last, w, c)
    BY <1>3, <1>4, <1>6
  <1>9. Delay(c, now) = 0 => bs = [k \in 1 .. n |-> V[a + k - 1]]
    <2> SUFFICES ASSUME Delay(c, now) = 0
                 PROVE  bs = [k \in 1 .. n |-> V[a + k - 1]]
      OBVIOUS
    <2>1. CASE n = 1
      <3>1. b1.byte = V[a]
        BY <1>1, <1>3 DEF Good
      <3> QED
        BY <2>1, <3>1
    <2>2. CASE n = 2
      <3>1. b1.byte = V[a] /\ b2.byte = V[a + 1]
        BY <1>1, <1>3, <1>4, <2>2 DEF Good
      <3> QED
        BY <2>2, <3>1
    <2>3. CASE n = 4
      <3>1. /\ b1.byte = V[a] /\ b2.byte = V[a + 1]
            /\ b3.byte = V[a + 2] /\ b4.byte = V[a + 3]
        BY <1>1, <1>3, <1>4, <1>5, <1>6, <2>3 DEF Good
      <3> QED
        BY <2>3, <3>1
    <2> QED
      BY <2>1, <2>2, <2>3
  <1> HIDE DEF last, bs
  <1> DEFINE q == Count(last, b1)
  <1>10. /\ CacheOK(q, B, M, now) /\ View(q.lines, q.mem) = V
         /\ q.result = Delay(c, now)
         /\ IF Delay(c, now) = 0
            THEN q.hits = (p.hits + 1) % CounterMod /\ q.misses = p.misses
            ELSE /\ q.hits = (p.hits - 1) % CounterMod
                 /\ q.misses = (p.misses + 1) % CounterMod
    <2>1. /\ CacheOK(last, B, M, now) /\ View(last.lines, last.mem) = V
          /\ last.hits = p.hits /\ last.misses = p.misses
          /\ last.result = Delay(c, now) /\ b1.result = Delay(c, now)
      BY <1>3, <1>8 DEF Good
    <2>2. CacheOK(q, B, M, now) /\ Counted(q, last, b1)
      BY <2>1, CountKeeps
    <2> HIDE DEF q
    <2> QED
      BY <2>1, <2>2 DEF Counted
  <1> HIDE DEF q
  <1>12. r.cache = q /\ r.bytes = bs
    BY <1>7 DEF q
  <1> QED
    BY <1>9, <1>10, <1>12 DEF r, V, Loaded

\* What the program sees, with the bytes v stored from address a on.
Stored(V, a, v) ==
  [x \in DOMAIN V |-> IF x - a \in 0 .. Len(v) - 1 THEN v[x - a + 1] ELSE V[x]]

\* How the first byte of a store leaves the cache, which holds its block in way
\* w with the readiness c.
FirstWritten(q, p, a, b, w, c, B, M, now) ==
  LET V == View(p.lines, p.mem)
  IN  /\ Continues(q, p, a, w, c, B, M, now)
      /\ View(q.lines, q.mem) \in {V, Patched(V, a, b)}
      /\ Delay(c, now) = 0 =>
           c <= now /\ View(q.lines, q.mem) = Patched(V, a, b)

\* The first byte of a store: visible at once unless its block is still being
\* fetched, and certainly when the delay is 0.
LEMMA FirstWrite ==
  ASSUME NEW B, NEW M \in Nat, NEW now \in Nat, NEW p, CacheOK(p, B, M, now),
         NEW a \in 0 .. M - 1, StoreTag(a) = Tag(a), NEW b \in B,
         NEW g \in Nat, NEW u \in B
  PROVE  \E w \in Ways, c \in Nat :
           FirstWritten(SetByte(p, a, b, now, g, u), p, a, b, w, c, B, M, now)
  <1> DEFINE q == SetByte(p, a, b, now, g, u)
             V == View(p.lines, p.mem)
  <1>1. /\ CacheOK(q, B, M, now)
        /\ q.hits = p.hits /\ q.misses = p.misses
        /\ Fetches(p.lines, q, a, now)
        /\ IF Fetching(p.lines, a, now)
           THEN View(q.lines, q.mem) = V
           ELSE View(q.lines, q.mem) = Patched(V, a, b)
    BY SetByteKeeps
  <1> HIDE DEF q, V
  <1>2. PICK w \in Ways, c \in Nat : /\ CachedAt(q.lines, a, w, c)
                                     /\ q.result = Delay(c, now)
    BY <1>1 DEF Fetches, Delay
  <1>3. /\ OneCopy(q.lines) /\ ReadyBound(q.lines, now) /\ MissLatency \in Nat
        /\ Index(a) \in Sets
    BY <1>1, CacheAssumption, AddressFields DEF CacheOK
  <1>4. c <= now + MissLatency
    BY <1>2, <1>3 DEF ReadyBound, CachedAt
  <1>5. Delay(c, now) = 0 => c <= now
    BY <1>3, <1>4 DEF Delay
  <1>6. ASSUME Fetching(p.lines, a, now) PROVE c > now
    <2>1. PICK v \in Ways, d \in Nat : CachedAt(p.lines, a, v, d) /\ d > now
      BY <1>6 DEF Fetching
    <2>2. CachedAt(q.lines, a, v, d)
      BY <1>1, <2>1 DEF Fetches
    <2> QED
      BY <1>2, <1>3, <2>1, <2>2 DEF CachedAt, OneCopy
  <1>7. Continues(q, p, a, w, c, B, M, now)
    BY <1>1, <1>2 DEF Continues
  <1>8. View(q.lines, q.mem) \in {V, Patched(V, a, b)}
    BY <1>1
  <1>9. c <= now => View(q.lines, q.mem) = Patched(V, a, b)
    BY <1>1, <1>6
  <1> QED
    BY <1>5, <1>7, <1>8, <1>9 DEF q, V, FirstWritten

\* A store in one block whose tag is the one stores use takes effect in full
\* when its delay is 0; otherwise at most its first byte shows.  It is counted
\* as a load is.
Wrote(q, p, a, v, B, M, now) ==
  LET V == View(p.lines, p.mem)
  IN  /\ CacheOK(q, B, M, now)
      /\ q.result = 0 =>
           /\ View(q.lines, q.mem) = Stored(V, a, v)
           /\ q.hits = (p.hits + 1) % CounterMod /\ q.misses = p.misses
      /\ q.result # 0 =>
           /\ View(q.lines, q.mem) \in {V, Patched(V, a, v[1])}
           /\ q.hits = (p.hits - 1) % CounterMod
           /\ q.misses = (p.misses + 1) % CounterMod

LEMMA SetValueKeeps ==
  ASSUME NEW B, NEW M, NEW now \in Nat, NEW p, CacheOK(p, B, M, now),
         NEW a, NEW n, AccessIn(a, n, M), StoreTag(a) = Tag(a),
         NEW v \in [1 .. n -> B], NEW g \in Nat, NEW u \in B
  PROVE  Wrote(SetCacheValue(p, a, v, now, g, u), p, a, v, B, M, now)
  <1> a \in Nat /\ M \in Nat /\ n \in {1, 2, 4}
    BY DEF AccessIn
  <1> DEFINE V  == View(p.lines, p.mem)
             b1 == SetByte(p, a, v[1], now, g, u)
             b2 == SetByte(b1, a + 1, v[2], now, g, u)
             b3 == SetByte(b2, a + 2, v[3], now, g, u)
             b4 == SetByte(b3, a + 3, v[4], now, g, u)
             r  == SetCacheValue(p, a, v, now, g, u)
             V1 == Patched(V, a, v[1])
             V2 == Patched(V1, a + 1, v[2])
             V3 == Patched(V2, a + 2, v[3])
             V4 == Patched(V3, a + 3, v[4])
  <1>15. /\ Offset(a) \in Nat /\ Offset(a) + (n - 1) < BlockSize
         /\ a \in 0 .. M - 1
         /\ n # 1 => Offset(a) + 1 < BlockSize /\ a + 1 \in 0 .. M - 1
         /\ n = 4 => Offset(a) + 2 < BlockSize /\ a + 2 \in 0 .. M - 1
         /\ n = 4 => Offset(a) + 3 < BlockSize /\ a + 3 \in 0 .. M - 1
    BY AccessInBlock
  <1>16. /\ v[1] \in B /\ (n # 1 => v[2] \in B)
         /\ n = 4 => v[3] \in B /\ v[4] \in B
    BY ONLY n \in {1, 2, 4}, v \in [1 .. n -> B]
  <1>17. Len(v) = n
    <2>1. v \in Seq(B) /\ DOMAIN v = 1 .. n /\ n \in Nat
      BY ONLY n \in {1, 2, 4}, v \in [1 .. n -> B]
    <2> QED
      BY ONLY <2>1
  <1> HIDE DEF b1, b2, b3, b4, r, V1, V2, V3, V4, V
  <1>1. PICK w \in Ways, c \in Nat :
          /\ Continues(b1, p, a, w, c, B, M, now)
          /\ View(b1.lines, b1.mem) \in {V, V1}
          /\ Delay(c, now) = 0 => c <= now /\ View(b1.lines, b1.mem) = V1
    <2>1. \E w \in Ways, c \in Nat : FirstWritten(b1, p, a, v[1], w, c, B, M, now)
      BY <1>15, <1>16, FirstWrite DEF b1
    <2> QED
      BY <2>1 DEF FirstWritten, V1, V
  <1> DEFINE Good(b, W) == /\ Continues(b, p, a, w, c, B, M, now)
                           /\ View(b.lines, b.mem) \in {V, V1, W}
                           /\ Delay(c, now) = 0 => View(b.lines, b.mem) = W
                           /\ Delay(c, now) # 0 => View(b.lines, b.mem) \in {V, V1}
  <1>2. Good(b1, V1)
    BY <1>1
  <1>3. ASSUME NEW b, NEW W, Good(b, W), NEW k \in 1 .. 3, NEW y \in B,
               Offset(a) + k < BlockSize, a + k \in 0 .. M - 1
        PROVE  Good(SetByte(b, a + k, y, now, g, u), Patched(W, a + k, y))
    <2> DEFINE x == a + k
               q == SetByte(b, x, y, now, g, u)
    <2>1. Further(b, a, x, w, c, B, M, now)
      BY <1>3, SameBlockAddr DEF Continues, Further
    <2>2. StoreTag(x) = Tag(x)
      BY <2>1 DEF Further, StoreTag
    <2> HIDE DEF x
    <2>3. /\ Continues(q, b, a, w, c, B, M, now)
          /\ View(q.lines, q.mem) = IF c > now THEN View(b.lines, b.mem)
                                    ELSE Patched(View(b.lines, b.mem), x, y)
      BY <2>1, <2>2, WriteStep
    <2> HIDE DEF q
    <2>4. Continues(q, p, a, w, c, B, M, now)
      BY <1>3, <2>3 DEF Continues
    <2>5. Delay(c, now) = 0 => View(q.lines, q.mem) = Patched(W, x, y)
      BY <1>1, <1>3, <2>3
    <2>6. Delay(c, now) # 0 => View(q.lines, q.mem) \in {V, V1}
      BY <1>3, <2>3 DEF Delay
    <2> QED
      BY <2>4, <2>5, <2>6 DEF q, x
  <1> HIDE DEF Good
  <1>4. n # 1 => Good(b2, V2)
    BY <1>15, <1>16, <1>2, <1>3 DEF b2, V2
  <1>5. n = 4 => Good(b3, V3)
    BY <1>15, <1>16, <1>3, <1>4 DEF b3, V3
  <1>6. n = 4 => Good(b4, V4)
    BY <1>15, <1>16, <1>3, <1>5 DEF b4, V4
  <1> DEFINE last == CASE n = 1 -> b1 [] n = 2 -> b2 [] n = 4 -> b4
             W    == CASE n = 1 -> V1 [] n = 2 -> V2 [] n = 4 -> V4
  <1>7. r = Count(last, b1)
    BY <1>17 DEF SetCacheValue, b1, b2, b3, b4, r
  <1>8. Good(last, W)
    BY <1>2, <1>4, <1>6
  <1>9. W = Stored(V, a, v)
    <2>1. DOMAIN V = 0 .. M - 1
      BY CacheParts DEF V, View
    <2>2. V1 = [x \in 0 .. M - 1 |-> IF x = a THEN v[1] ELSE V[x]]
      BY <1>15, <2>1 DEF V1, Patched
    <2>3. n # 1 => V2 = [x \in 0 .. M - 1 |-> IF x = a + 1 THEN v[2] ELSE V1[x]]
      BY <1>15, <2>2 DEF V2, Patched
    <2>4. n = 4 => V3 = [x \in 0 .. M - 1 |-> IF x = a + 2 THEN v[3] ELSE V2[x]]
      <3> SUFFICES ASSUME n = 4
                   PROVE  V3 = [x \in 0 .. M - 1 |-> IF x = a + 2 THEN v[3] ELSE V2[x]]
        OBVIOUS
      <3>1. DOMAIN V2 = 0 .. M - 1
        BY ONLY <2>3, n = 4
      <3> QED
        BY ONLY <3>1 DEF V3, Patched
    <2>5. n = 4 => V4 = [x \in 0 .. M - 1 |-> IF x = a + 3 THEN v[4] ELSE V3[x]]
      BY <1>15, <2>4 DEF V4, Patched
    <2>6. Stored(V, a, v) =
            [x \in 0 .. M - 1 |-> IF x - a \in 0 .. n - 1 THEN v[x - a + 1] ELSE V[x]]
      BY <1>17, <2>1 DEF Stored
    <2>7. a \in Nat /\ M \in Nat
      OBVIOUS
    <2>8. CASE n = 1
      BY ONLY <2>2, <2>6, <2>7, <2>8
    <2>9. CASE n = 2
      BY ONLY <2>2, <2>3, <2>6, <2>7, <2>9
    <2>10. CASE n = 4
      <3>1. ASSUME NEW x \in 0 .. M - 1
            PROVE  V4[x] = IF x - a \in 0 .. 3 THEN v[x - a + 1] ELSE V[x]
        BY ONLY <2>2, <2>3, <2>4, <2>5, <2>7, <2>10, x \in 0 .. M - 1
      <3>2. V4 = [x \in 0 .. M - 1 |-> V4[x]]
        BY ONLY <2>5, <2>10
      <3>3. Stored(V, a, v) =
              [x \in 0 .. M - 1 |-> IF x - a \in 0 .. 3 THEN v[x - a + 1] ELSE V[x]]
        BY ONLY <2>6, <2>10
      <3> QED
        BY ONLY <3>1, <3>2, <3>3, <2>10
    <2> QED
      BY <2>8, <2>9, <2>10
  <1> HIDE DEF last, W
  <1> DEFINE q == Count(last, b1)
  <1>10. /\ CacheOK(last, B, M, now)
         /\ last.hits = p.hits /\ last.misses = p.misses
         /\ last.result = Delay(c, now) /\ b1.result = Delay(c, now)
    BY <1>2, <1>8 DEF Good, Continues
  <1>11. CacheOK(q, B, M, now) /\ Counted(q, last, b1)
    BY <1>10, CountKeeps
  <1> HIDE DEF q
  <1>12. q.result = Delay(c, now) /\ View(q.lines, q.mem) = View(last.lines, last.mem)
    BY <1>10, <1>11 DEF Counted
  <1>13. /\ q.result = 0 => View(q.lines, q.mem) = Stored(V, a, v)
         /\ q.result # 0 => View(q.lines, q.mem) \in {V, V1}
    BY <1>8, <1>9, <1>12 DEF Good
  <1>14. /\ q.result = 0 => q.hits = (p.hits + 1) % CounterMod /\ q.misses = p.misses
         /\ q.result # 0 => /\ q.hits = (p.hits - 1) % CounterMod
                            /\ q.misses = (p.misses + 1) % CounterMod
    BY <1>10, <1>11, <1>12 DEF Counted
  <1> QED
    BY <1>7, <1>11, <1>13, <1>14 DEF q, r, V, V1, Wrote

-----------------------------------------------------------------------------
(***************************************************************************)
(* The final drain.                                                        *)
(***************************************************************************)

\* The drain leaves in memory what the program saw, which then reads the same
\* with the blocks or without them.
LEMMA DrainView ==
  ASSUME NEW B, NEW M \in Nat, NEW ls \in LinesOver(B), NEW mem \in [0 .. M - 1 -> B],
         OneCopy(ls), CleanAgrees(ls, mem)
  PROVE  /\ Drain(ls, mem) = View(ls, mem)
         /\ Drain(ls, mem) \in [0 .. M - 1 -> B]
         /\ CleanAgrees(ls, Drain(ls, mem))
         /\ View(ls, Drain(ls, mem)) = View(ls, mem)
  <1> DEFINE V == View(ls, mem)
             D == Drain(ls, mem)
             Owner(a) == {iw \in DirtyBlocks(ls) :
                            a - BlockAddr(ls[iw[1]][iw[2]].tag, iw[1]) \in Offsets}
             Last(S)  == CHOOSE x \in S : \A y \in S :
                            y[1] < x[1] \/ (y[1] = x[1] /\ y[2] <= x[2])
             Held(a, iw) == LET l == ls[iw[1]][iw[2]]
                            IN  l.data[a - BlockAddr(l.tag, iw[1])]
  <1>1. ASSUME NEW i \in Sets, NEW w \in Ways
        PROVE  ls[i][w].tag \in Nat /\ ls[i][w].data \in [Offsets -> B]
    BY LineParts
  <1>2. D = [a \in 0 .. M - 1 |-> IF Owner(a) = {} THEN mem[a]
                                   ELSE Held(a, Last(Owner(a)))]
    BY DEF Drain
  <1>3. ASSUME NEW a \in 0 .. M - 1
        PROVE  D[a] = V[a] /\ V[a] \in B
    <2> DEFINE i == Index(a)
    <2>1. /\ a \in Nat /\ i \in Sets /\ Offset(a) \in Offsets /\ a \in DOMAIN mem
          /\ a = BlockAddr(Tag(a), i) + Offset(a) /\ mem[a] \in B
      BY AddressFields
    <2>2. ASSUME NEW j \in Sets, NEW v \in Ways
          PROVE  <<j, v>> \in Owner(a) <=> /\ ls[j][v].valid /\ ls[j][v].dirty
                                           /\ j = i /\ ls[j][v].tag = Tag(a)
      <3>1. a - BlockAddr(ls[j][v].tag, j) \in Offsets <=> Tag(a) = ls[j][v].tag /\ i = j
        BY <1>1, <2>1, InBlock
      <3> QED
        BY <3>1 DEF DirtyBlocks
    <2>5. Owner(a) \subseteq Sets \X Ways
      BY DEF DirtyBlocks
    <2> HIDE DEF D, Owner, Last, Held
    <2>3. CASE Holding(ls[i], Tag(a)) = {}
      <3>1. \A v \in Ways : ~ (ls[i][v].valid /\ ls[i][v].tag = Tag(a))
        BY <2>3 DEF Holding
      <3>2. \A j \in Sets, v \in Ways : <<j, v>> \notin Owner(a)
        BY <2>2, <3>1
      <3>3. Owner(a) = {}
        BY <2>5, <3>2
      <3>4. V[a] = mem[a]
        BY <2>1, <2>3, ViewUncached
      <3> HIDE DEF V
      <3> QED
        BY <1>2, <2>1, <3>3, <3>4
    <2>4. CASE Holding(ls[i], Tag(a)) # {}
      <3>1. PICK w \in Ways : ls[i][w].valid /\ ls[i][w].tag = Tag(a)
        BY <2>4 DEF Holding
      <3>2. V[a] = ls[i][w].data[Offset(a)]
        BY <2>1, <3>1, ViewCached
      <3>3. V[a] \in B
        BY <1>1, <2>1, <3>1, <3>2
      <3>4. CASE ~ ls[i][w].dirty
        <4>1. \A j \in Sets, v \in Ways : <<j, v>> \notin Owner(a)
          BY <2>2, <3>1, <3>4, <2>1 DEF OneCopy
        <4>2. Owner(a) = {}
          BY <2>5, <4>1
        <4>3. mem[a] = ls[i][w].data[Offset(a)]
          BY <2>1, <3>1, <3>4 DEF CleanAgrees
        <4> HIDE DEF V
        <4> QED
          BY <1>2, <2>1, <3>2, <3>3, <4>2, <4>3
      <3>5. CASE ls[i][w].dirty
        <4>1. \A j \in Sets, v \in Ways : <<j, v>> \in Owner(a) <=> j = i /\ v = w
          BY <2>2, <3>1, <3>5, <2>1 DEF OneCopy
        <4>2. Owner(a) = {<<i, w>>}
          BY <2>1, <2>5, <4>1
        <4> DEFINE x == <<i, w>>
        <4>3. x[1] = i /\ x[2] = w /\ i \in Int /\ w \in Int
          BY <2>1, CacheAssumption, WaysTwoOrOne DEF Sets
        <4> HIDE DEF x
        <4>4. Last({x}) = x
          BY <4>3 DEF Last
        <4>5. D[a] = Held(a, x)
          BY <1>2, <4>2, <4>4 DEF x
        <4>6. a - BlockAddr(ls[i][w].tag, i) = Offset(a)
          BY <1>1, <2>1, <2>2, <3>1, InBlock
        <4>7. Held(a, x) = ls[i][w].data[Offset(a)]
          BY <4>3, <4>6 DEF Held
        <4> HIDE DEF V
        <4> QED
          BY <3>2, <3>3, <4>5, <4>7
      <3> QED
        BY <3>4, <3>5
    <2> QED
      BY <2>3, <2>4
  <1>4. V = [a \in 0 .. M - 1 |-> V[a]]
    BY DEF View
  <1>5. D = [a \in 0 .. M - 1 |-> D[a]]
    BY <1>2
  <1> HIDE DEF D, V, Owner, Held, Last
  <1>6. D = V /\ D \in [0 .. M - 1 -> B]
    BY <1>3, <1>4, <1>5
  <1>7. ASSUME NEW i \in Sets, NEW w \in Ways, ls[i][w].valid, NEW o \in Offsets,
               BlockAddr(ls[i][w].tag, i) + o \in 0 .. M - 1
        PROVE  D[BlockAddr(ls[i][w].tag, i) + o] = ls[i][w].data[o]
    <2> DEFINE a == BlockAddr(ls[i][w].tag, i) + o
    <2>1. a \in Nat /\ Index(a) = i /\ Tag(a) = ls[i][w].tag /\ Offset(a) = o
      BY <1>1, FieldsUnique
    <2>2. a \in DOMAIN mem
      BY <1>7
    <2> HIDE DEF a
    <2>3. V[a] = ls[i][w].data[o]
      BY <1>7, <2>1, <2>2, ViewCached DEF V
    <2> QED
      BY <1>6, <2>3 DEF a
  <1>8. CleanAgrees(ls, D)
    BY <1>6, <1>7 DEF CleanAgrees
  <1>9. ASSUME NEW a \in 0 .. M - 1
        PROVE  View(ls, D)[a] = V[a]
    <2>1. a \in DOMAIN D /\ a \in DOMAIN mem /\ a \in Nat /\ Index(a) \in Sets
      BY <1>6, AddressFields
    <2>2. CASE Holding(ls[Index(a)], Tag(a)) = {}
      BY <1>6, <2>1, <2>2, ViewUncached
    <2>3. CASE Holding(ls[Index(a)], Tag(a)) # {}
      <3>1. PICK w \in Ways : ls[Index(a)][w].valid /\ ls[Index(a)][w].tag = Tag(a)
        BY <2>3 DEF Holding
      <3> QED
        BY <2>1, <3>1, ViewCached DEF V
    <2> QED
      BY <2>2, <2>3
  <1>10. View(ls, D) = [a \in 0 .. M - 1 |-> View(ls, D)[a]]
    BY <1>6 DEF View
  <1> QED
    BY <1>4, <1>6, <1>8, <1>9, <1>10 DEF D, V

-----------------------------------------------------------------------------
(***************************************************************************)
(* Any access: wherever it lies, and with the tag stores use.  What the    *)
(* program sees may then be wrong, but the cache stays one.                *)
(***************************************************************************)

\* No block is to be written back.
Clean(ls) == \A i \in Sets, w \in Ways : ~ ls[i][w].dirty

Sound(p) == OneCopy(p.lines) /\ CleanAgrees(p.lines, p.mem)

\* What a read leaves of p in q, and what a write does.
ReadKept(q, p, B, M) ==
  /\ q \in CacheState(B, M)
  /\ Clean(p.lines) => Clean(q.lines) /\ q.mem = p.mem
  /\ Sound(p) => Sound(q) /\ View(q.lines, q.mem) = View(p.lines, p.mem)
WriteKept(q, p, B, M) == q \in CacheState(B, M) /\ (Sound(p) => Sound(q))

LEMMA StateParts ==
  ASSUME NEW B, NEW M, NEW p \in CacheState(B, M)
  PROVE  /\ p.lines \in LinesOver(B) /\ p.mem \in [0 .. M - 1 -> B]
         /\ p.hits \in 0 .. CounterMod - 1 /\ p.misses \in 0 .. CounterMod - 1
         /\ p.result \in {0, MissLatency} /\ p.byte \in B
  BY DEF CacheState, LinesOver

\* Line l is in set i what CleanAgrees asks of it.
LineAgrees(l, i, mem) ==
  /\ l.dirty => l.valid
  /\ l.valid /\ ~ l.dirty =>
       \A o \in Offsets : BlockAddr(l.tag, i) + o \in DOMAIN mem =>
         mem[BlockAddr(l.tag, i) + o] = l.data[o]

LEMMA AgreesByLine ==
  ASSUME NEW ls, NEW mem
  PROVE  CleanAgrees(ls, mem) <=> \A i \in Sets, w \in Ways : LineAgrees(ls[i][w], i, mem)
  BY DEF CleanAgrees, LineAgrees

LEMMA SameBlockAgrees ==
  ASSUME NEW k, NEW l, SameBlock(k, l), NEW i, NEW mem
  PROVE  LineAgrees(k, i, mem) <=> LineAgrees(l, i, mem)
  BY DEF SameBlock, LineAgrees

\* What a miss leaves in way w of set i and elsewhere, under any tag t.
Filled(m, p, i, w, t, B, M) ==
  /\ i \in Sets /\ w \in Ways /\ m \in CacheState(B, M)
  /\ m.lines[i][w].valid /\ ~ m.lines[i][w].dirty /\ m.lines[i][w].tag = t
  /\ Clean(p.lines) => m.mem = p.mem
  /\ \A j \in Sets, v \in Ways : j # i \/ v # w => SameBlock(m.lines[j][v], p.lines[j][v])
  /\ Sound(p) => \A j \in Sets, v \in Ways :
                   j # i \/ v # w => LineAgrees(m.lines[j][v], j, m.mem)

LEMMA MissAny ==
  ASSUME NEW B, NEW M \in Nat, NEW p \in CacheState(B, M), NEW a \in Nat,
         NEW t \in Nat, NEW g \in Nat, NEW u \in B
  PROVE  Filled(CacheMiss(p, a, t, g, u), p, Index(a), Victim(p.lines[Index(a)], g), t, B, M)
  <1> DEFINE i   == Index(a)
             w   == Victim(p.lines[i], g)
             q   == CacheMiss(p, a, t, g, u)
             old == p.lines[i][w]
             mem == IF old.dirty THEN WriteBack(p.mem, old.data, old.tag, i)
                                 ELSE p.mem
             new == [old EXCEPT !.data = ReadBlock(mem, BlockStart(a), u),
                                !.dirty = FALSE, !.valid = TRUE, !.tag = t]
             set == [p.lines[i] EXCEPT ![w] = new]
  <1>1. i \in Sets
    BY AddressFields
  <1>2. p.lines \in [Sets -> [Ways -> LineOf(B)]] /\ p.mem \in [0 .. M - 1 -> B]
    BY DEF CacheState
  <1>3. w \in Ways
    BY <1>1, <1>2, VictimWay
  <1>4. /\ old \in LineOf(B) /\ old.valid \in BOOLEAN /\ old.dirty \in BOOLEAN
        /\ old.tag \in Nat /\ old.data \in [Offsets -> B]
    BY <1>1, <1>2, <1>3, LineParts DEF LinesOver
  <1>5. mem \in [0 .. M - 1 -> B]
    BY <1>1, <1>2, <1>4, WriteBackType
  <1>6. ASSUME NEW b \in 0 .. M - 1
        PROVE  mem[b] = IF old.dirty /\ Tag(b) = old.tag /\ Index(b) = i
                        THEN old.data[Offset(b)] ELSE p.mem[b]
    <2> DEFINE pm == p.mem
               od == old.data
               ot == old.tag
    <2>2. /\ ot \in Nat /\ i \in Sets /\ b \in Nat /\ b \in DOMAIN pm
          /\ pm \in [0 .. M - 1 -> B] /\ od \in [Offsets -> B]
      BY <1>1, <1>2, <1>4
    <2> HIDE DEF pm, od, ot, i
    <2>3. WriteBack(pm, od, ot, i)[b] =
            IF Tag(b) = ot /\ Index(b) = i THEN od[Offset(b)] ELSE pm[b]
      BY ONLY <2>2, WriteBackAt
    <2> QED
      BY <2>3 DEF pm, od, ot, i, mem
  <1>7. ~ old.dirty => mem = p.mem
    OBVIOUS
  <1> HIDE DEF mem
  <1>8. ReadBlock(mem, BlockStart(a), u) \in [Offsets -> B]
    BY <1>5 DEF ReadBlock
  <1>9. new \in LineOf(B) /\ new.valid /\ ~ new.dirty /\ new.tag = t
    BY <1>4, <1>8 DEF LineOf
  <1>10. q = [p EXCEPT !.mem = mem, !.lines = [p.lines EXCEPT ![i] = UpdateLRU(set, w)]]
    BY DEF CacheMiss, mem
  <1> HIDE DEF new
  <1>11. set \in [Ways -> LineOf(B)]
    BY <1>1, <1>2, <1>9
  <1>12. /\ UpdateLRU(set, w) \in [Ways -> LineOf(B)]
         /\ \A v \in Ways : SameBlock(UpdateLRU(set, w)[v], set[v])
    BY <1>3, <1>11, UpdateLRUType
  <1> HIDE DEF q
  <1>13. /\ q \in CacheState(B, M) /\ q.mem = mem
         /\ q.lines = [p.lines EXCEPT ![i] = UpdateLRU(set, w)]
    BY <1>1, <1>2, <1>5, <1>10, <1>12 DEF CacheState
  <1>14. SameBlock(q.lines[i][w], new)
    BY <1>1, <1>2, <1>3, <1>12, <1>13 DEF SameBlock
  <1>15. ASSUME NEW j \in Sets, NEW v \in Ways, j # i \/ v # w
         PROVE  SameBlock(q.lines[j][v], p.lines[j][v])
    <2>1. CASE j = i
      BY <1>1, <1>2, <1>3, <1>12, <1>13, <1>15, <2>1 DEF SameBlock
    <2>2. CASE j # i
      BY <1>1, <1>2, <1>13, <2>2 DEF SameBlock
    <2> QED
      BY <2>1, <2>2
  <1>16. ASSUME Sound(p), NEW j \in Sets, NEW v \in Ways, j # i \/ v # w
         PROVE  LineAgrees(q.lines[j][v], j, mem)
    <2> DEFINE l == p.lines[j][v]
    <2>1. l \in LineOf(B) /\ l.tag \in Nat /\ l.dirty \in BOOLEAN /\ l.data \in [Offsets -> B]
      BY <1>2, LineParts DEF LinesOver
    <2>2. /\ LineAgrees(l, j, p.mem) /\ LineAgrees(old, i, p.mem) /\ OneCopy(p.lines)
      BY <1>1, <1>3, <1>16, AgreesByLine DEF Sound
    <2>3. ASSUME l.valid, ~ l.dirty, NEW o \in Offsets,
                 BlockAddr(l.tag, j) + o \in DOMAIN mem
          PROVE  mem[BlockAddr(l.tag, j) + o] = l.data[o]
      <3> DEFINE b == BlockAddr(l.tag, j) + o
      <3>1. b \in 0 .. M - 1
        BY <1>5, <2>3
      <3>2. Tag(b) = l.tag /\ Index(b) = j
        BY <2>1, FieldsUnique
      <3>3. p.mem[b] = l.data[o]
        BY <1>2, <2>2, <2>3, <3>1 DEF LineAgrees
      <3>4. ~ (old.dirty /\ Tag(b) = old.tag /\ Index(b) = i)
        <4>1. old.dirty => old.valid
          BY <2>2 DEF LineAgrees
        <4> QED
          BY <1>1, <1>3, <1>16, <2>2, <2>3, <3>2, <4>1 DEF OneCopy
      <3> HIDE DEF b
      <3>5. mem[b] = p.mem[b]
        BY <1>6, <3>1, <3>4
      <3> QED
        BY <3>3, <3>5 DEF b
    <2>4. LineAgrees(l, j, mem)
      BY <2>2, <2>3 DEF LineAgrees
    <2> QED
      BY <1>15, <1>16, <2>4, SameBlockAgrees
  <1>17. Clean(p.lines) => mem = p.mem
    BY <1>1, <1>3, <1>7 DEF Clean
  <1>18. q.lines[i][w].valid /\ ~ q.lines[i][w].dirty /\ q.lines[i][w].tag = t
    BY <1>9, <1>14 DEF SameBlock
  <1> HIDE DEF w, i
  <1>19. Filled(q, p, i, w, t, B, M)
    BY <1>1, <1>3, <1>13, <1>15, <1>16, <1>17, <1>18 DEF Filled
  <1> QED
    BY <1>19 DEF q, i, w

LEMMA GetByteAny ==
  ASSUME NEW B, NEW M \in Nat, NEW p \in CacheState(B, M), NEW a \in Nat,
         NEW now \in Nat, NEW g \in Nat, NEW u \in B
  PROVE  ReadKept(GetByte(p, a, now, g, u), p, B, M)
  <1> DEFINE i    == Index(a)
             held == Holding(p.lines[i], Tag(a))
             hit  == FirstWay(held)
             w    == Victim(p.lines[i], g)
             m    == CacheMiss(p, a, Tag(a), g, u)
             q    == GetByte(p, a, now, g, u)
  <1>1. /\ p.lines \in LinesOver(B) /\ p.mem \in [0 .. M - 1 -> B]
        /\ DOMAIN p.mem \subseteq Nat /\ MissLatency \in Nat
    BY StateParts, CacheAssumption
  <1>2. i \in Sets /\ Offset(a) \in Offsets /\ Tag(a) \in Nat
    BY AddressFields
  <1>3. CASE held = {}
    <2>1. Filled(m, p, i, w, Tag(a), B, M)
      BY <1>2, MissAny
    <2>2. Sound(p) => /\ OneCopy(m.lines) /\ CleanAgrees(m.lines, m.mem)
                      /\ View(m.lines, m.mem) = View(p.lines, p.mem)
      BY <1>3, MissFills DEF Sound
    <2> DEFINE k  == [m.lines[i][w] EXCEPT !.cycleReady = ReadyAt(now)]
               ls == PutLine(m.lines, i, w, k)
    <2>3. q = [m EXCEPT !.result = MissLatency,
                        !.byte = m.lines[i][w].data[Offset(a)],
                        !.lines = ls]
      <3>1. q = ReadMiss(p, a, now, g, u)
        BY ONLY <1>3 DEF GetByte
      <3> QED
        BY ONLY <3>1 DEF ReadMiss, m, w, PutLine
    <2> HIDE DEF m, w
    <2>4. /\ i \in Sets /\ w \in Ways /\ m \in CacheState(B, M)
          /\ m.lines \in LinesOver(B) /\ m.mem \in [0 .. M - 1 -> B]
          /\ DOMAIN m.mem \subseteq Nat
      BY <2>1, StateParts DEF Filled
    <2>5. m.lines[i][w] \in LineOf(B) /\ m.lines[i][w].data \in [Offsets -> B]
      BY <2>4, LineParts
    <2>6. k \in LineOf(B) /\ SameBlock(k, m.lines[i][w])
      <3>1. ReadyAt(now) \in Nat
        BY <1>1 DEF ReadyAt
      <3> QED
        BY ONLY <2>5, <3>1 DEF LineOf, SameBlock
    <2> HIDE DEF k
    <2>7. /\ ls \in LinesOver(B)
          /\ \A j \in Sets, v \in Ways :
               ls[j][v] = IF j = i /\ v = w THEN k ELSE m.lines[j][v]
      BY <2>4, <2>6, PutLineAt
    <2> HIDE DEF ls, q
    <2>8. SameBlocks(ls, m.lines)
      BY <2>6, <2>7 DEF SameBlocks, SameBlock
    <2>9. q \in CacheState(B, M) /\ q.lines = ls /\ q.mem = m.mem
      BY <1>2, <2>3, <2>4, <2>5, <2>7 DEF CacheState, LinesOver
    <2>10. /\ OneCopy(ls) <=> OneCopy(m.lines)
           /\ CleanAgrees(ls, m.mem) <=> CleanAgrees(m.lines, m.mem)
           /\ View(ls, m.mem) = View(m.lines, m.mem)
      BY <2>4, <2>8, SameBlocksSame
    <2>11. Clean(p.lines) => Clean(ls) /\ m.mem = p.mem
      <3>1. ASSUME Clean(p.lines), NEW j \in Sets, NEW v \in Ways
            PROVE  ~ ls[j][v].dirty
        <4>1. ls[j][v].dirty = m.lines[j][v].dirty
          BY <2>8 DEF SameBlocks, SameBlock
        <4> QED
          BY <2>1, <3>1, <4>1 DEF Filled, Clean, SameBlock
      <3> QED
        BY <2>1, <3>1 DEF Filled, Clean
    <2> QED
      BY <2>2, <2>9, <2>10, <2>11 DEF q, ReadKept, Sound
  <1>4. CASE held # {}
    <2>1. hit \in Ways
      BY <1>4, FirstWayIn DEF Holding
    <2>2. CASE ~ Ready(p.lines[i][hit], now)
      <3>1. q = [p EXCEPT !.result = MissLatency, !.byte = u]
        <4>1. q = ReadPending(p, u)
          BY ONLY <1>4, <2>2 DEF GetByte, hit
        <4> QED
          BY ONLY <4>1 DEF ReadPending
      <3> HIDE DEF q
      <3>2. q \in CacheState(B, M) /\ q.lines = p.lines /\ q.mem = p.mem
        BY <1>1, <3>1 DEF CacheState, LinesOver
      <3> QED
        BY <3>2 DEF q, ReadKept, Sound
    <2>3. CASE Ready(p.lines[i][hit], now)
      <3> DEFINE ls == Used(p.lines, i, hit)
      <3>1. q = [p EXCEPT !.result = 0, !.byte = p.lines[i][hit].data[Offset(a)],
                          !.lines = ls]
        <4>1. q = ReadHit(p, a, hit)
          BY ONLY <1>4, <2>3 DEF GetByte, hit
        <4> QED
          BY ONLY <4>1 DEF ReadHit, Used
      <3> HIDE DEF hit
      <3>2. /\ ls \in LinesOver(B) /\ SameBlocks(ls, p.lines)
            /\ p.lines[i][hit].data \in [Offsets -> B]
        BY <1>1, <1>2, <2>1, UseKeeps, LineParts
      <3> HIDE DEF ls, q
      <3>3. q \in CacheState(B, M) /\ q.lines = ls /\ q.mem = p.mem
        BY <1>1, <1>2, <3>1, <3>2 DEF CacheState, LinesOver
      <3>4. /\ OneCopy(ls) <=> OneCopy(p.lines)
            /\ CleanAgrees(ls, p.mem) <=> CleanAgrees(p.lines, p.mem)
            /\ View(ls, p.mem) = View(p.lines, p.mem)
        BY <1>1, <3>2, SameBlocksSame
      <3>5. Clean(p.lines) => Clean(ls)
        BY <3>2 DEF Clean, SameBlocks, SameBlock
      <3> QED
        BY <3>3, <3>4, <3>5 DEF q, ReadKept, Sound
    <2> QED
      BY <2>2, <2>3
  <1> QED
    BY <1>3, <1>4

\* A dirty line in place of one with its tag, or of the one a miss has filled.
LEMMA PutSound ==
  ASSUME NEW B, NEW ls \in LinesOver(B), NEW mem, NEW i \in Sets, NEW w \in Ways,
         NEW k \in LineOf(B), k.valid, k.dirty, OneCopy(ls),
         ls[i][w].valid, k.tag = ls[i][w].tag,
         \A j \in Sets, v \in Ways : j # i \/ v # w => LineAgrees(ls[j][v], j, mem)
  PROVE  /\ OneCopy(PutLine(ls, i, w, k)) /\ CleanAgrees(PutLine(ls, i, w, k), mem)
         /\ PutLine(ls, i, w, k) \in LinesOver(B)
  <1> DEFINE ms == PutLine(ls, i, w, k)
  <1>1. /\ ms \in LinesOver(B)
        /\ \A j \in Sets, v \in Ways : ms[j][v] = IF j = i /\ v = w THEN k ELSE ls[j][v]
    BY PutLineAt
  <1> HIDE DEF ms
  <1>2. OneCopy(ms)
    BY <1>1 DEF OneCopy
  <1>3. ASSUME NEW j \in Sets, NEW v \in Ways
        PROVE  LineAgrees(ms[j][v], j, mem)
    <2>1. CASE j = i /\ v = w
      BY <1>1, <2>1 DEF LineAgrees
    <2>2. CASE ~ (j = i /\ v = w)
      BY <1>1, <2>2
    <2> QED
      BY <2>1, <2>2
  <1> QED
    BY <1>1, <1>2, <1>3, AgreesByLine DEF ms

LEMMA SetByteAny ==
  ASSUME NEW B, NEW M \in Nat, NEW p \in CacheState(B, M), NEW a \in Nat, NEW b \in B,
         NEW now \in Nat, NEW g \in Nat, NEW u \in B
  PROVE  WriteKept(SetByte(p, a, b, now, g, u), p, B, M)
  <1> DEFINE i    == Index(a)
             o    == Offset(a)
             t    == StoreTag(a)
             held == Holding(p.lines[i], t)
             hit  == FirstWay(held)
             w    == Victim(p.lines[i], g)
             m    == CacheMiss(p, a, t, g, u)
             q    == SetByte(p, a, b, now, g, u)
  <1>1. /\ p.lines \in LinesOver(B) /\ p.mem \in [0 .. M - 1 -> B]
        /\ DOMAIN p.mem \subseteq Nat /\ MissLatency \in Nat
    BY StateParts, CacheAssumption
  <1>2. i \in Sets /\ o \in Offsets /\ t \in Nat
    BY AddressFields DEF StoreTag
  <1>3. CASE held = {}
    <2>1. Filled(m, p, i, w, t, B, M)
      BY <1>2, MissAny
    <2> DEFINE l  == m.lines[i][w]
               k  == [l EXCEPT !.data[o] = b, !.dirty = TRUE, !.cycleReady = ReadyAt(now)]
               ls == PutLine(m.lines, i, w, k)
    <2>2. q = [m EXCEPT !.result = MissLatency, !.lines = ls]
      <3>1. q = WriteMiss(p, a, b, now, g, u)
        BY <1>3 DEF SetByte
      <3> QED
        BY ONLY <3>1 DEF WriteMiss, m, w, PutLine
    <2> HIDE DEF m, w, t
    <2>3. /\ i \in Sets /\ w \in Ways /\ m \in CacheState(B, M)
          /\ m.lines \in LinesOver(B) /\ l.valid /\ l.tag = t
      BY <2>1, StateParts DEF Filled
    <2>4. l \in LineOf(B) /\ l.data \in [Offsets -> B]
      BY <2>3, LineParts
    <2>5. k \in LineOf(B) /\ k.valid /\ k.dirty /\ k.tag = t
      <3>1. ReadyAt(now) \in Nat
        BY <1>1 DEF ReadyAt
      <3>2. [l.data EXCEPT ![o] = b] \in [Offsets -> B]
        BY <2>4
      <3> QED
        BY ONLY <2>3, <2>4, <3>1, <3>2 DEF LineOf
    <2> HIDE DEF k
    <2>6. ls \in LinesOver(B)
      BY <2>3, <2>5, PutLineAt
    <2>7. q \in CacheState(B, M) /\ q.lines = ls /\ q.mem = m.mem
      BY <2>2, <2>3, <2>6 DEF CacheState, LinesOver
    <2>8. ASSUME Sound(p)
          PROVE  OneCopy(ls) /\ CleanAgrees(ls, m.mem)
      <3>1. OneCopy(m.lines)
        <4>1. \A v \in Ways : ~ (p.lines[i][v].valid /\ p.lines[i][v].tag = t)
          BY <1>3 DEF Holding, t
        <4>2. \A j \in Sets, v \in Ways : j # i \/ v # w =>
                m.lines[j][v].valid = p.lines[j][v].valid /\ m.lines[j][v].tag = p.lines[j][v].tag
          BY <2>1 DEF Filled, SameBlock
        <4> QED
          BY <2>3, <2>8, <4>1, <4>2 DEF OneCopy, Sound
      <3>2. \A j \in Sets, v \in Ways : j # i \/ v # w => LineAgrees(m.lines[j][v], j, m.mem)
        BY <2>1, <2>8 DEF Filled
      <3> QED
        BY <2>3, <2>5, <3>1, <3>2, PutSound
    <2> HIDE DEF q, ls
    <2> QED
      BY <2>7, <2>8 DEF q, WriteKept, Sound
  <1>4. CASE held # {}
    <2>1. hit \in Ways /\ p.lines[i][hit].valid /\ p.lines[i][hit].tag = t
      BY <1>4, FirstWayIn DEF Holding
    <2> DEFINE l == p.lines[i][hit]
    <2>2. CASE ~ Ready(p.lines[i][hit], now)
      <3>1. q = [p EXCEPT !.result = MissLatency]
        <4>1. q = WritePending(p)
          BY <1>4, <2>2 DEF SetByte
        <4> QED
          BY ONLY <4>1 DEF WritePending
      <3> HIDE DEF q, hit
      <3>2. q \in CacheState(B, M) /\ q.lines = p.lines /\ q.mem = p.mem
        BY <1>1, <3>1 DEF CacheState, LinesOver
      <3> QED
        BY <3>2 DEF q, WriteKept, Sound
    <2>3. CASE Ready(p.lines[i][hit], now)
      <3> DEFINE k  == [l EXCEPT !.data[o] = b, !.dirty = TRUE]
                 ks == PutLine(p.lines, i, hit, k)
                 ls == Used(ks, i, hit)
      <3>1. q = [p EXCEPT !.result = 0,
                          !.lines[i] = UpdateLRU(
                             [p.lines[i] EXCEPT ![hit].data[o] = b,
                                                ![hit].dirty = TRUE], hit)]
        <4>1. q = WriteHit(p, a, b, hit)
          BY <1>4, <2>3 DEF SetByte
        <4> QED
          BY ONLY <4>1 DEF WriteHit
      <3> HIDE DEF hit, q, t
      <3>2. l \in LineOf(B) /\ l.data \in [Offsets -> B]
        BY <1>1, <1>2, <2>1, LineParts
      <3>3. k \in LineOf(B) /\ k.valid = l.valid /\ k.dirty /\ k.tag = l.tag
        <4>1. [l.data EXCEPT ![o] = b] \in [Offsets -> B]
          BY <3>2
        <4> QED
          BY ONLY <3>2, <4>1 DEF LineOf
      <3>4. [p.lines[i] EXCEPT ![hit].data[o] = b, ![hit].dirty = TRUE] = ks[i]
        BY <1>1, <1>2, <2>1, <3>2 DEF PutLine, LinesOver
      <3> HIDE DEF k
      <3>5. ks \in LinesOver(B)
        BY <1>1, <1>2, <2>1, <3>3, PutLineAt
      <3>6. ls = [p.lines EXCEPT ![i] = UpdateLRU(ks[i], hit)]
        BY <1>1, <1>2 DEF Used, PutLine, LinesOver
      <3>7. ASSUME Sound(p)
            PROVE  OneCopy(ks) /\ CleanAgrees(ks, p.mem)
        BY <1>1, <1>2, <2>1, <3>3, <3>7, AgreesByLine, PutSound DEF Sound
      <3> HIDE DEF ks
      <3>8. ls \in LinesOver(B) /\ SameBlocks(ls, ks)
        BY <1>2, <2>1, <3>5, UseKeeps
      <3> HIDE DEF ls
      <3>9. q = [p EXCEPT !.result = 0, !.lines = ls]
        BY <3>1, <3>4, <3>6
      <3>10. q \in CacheState(B, M) /\ q.lines = ls /\ q.mem = p.mem
        BY <1>1, <3>8, <3>9 DEF CacheState, LinesOver
      <3>11. /\ OneCopy(ls) <=> OneCopy(ks)
             /\ CleanAgrees(ls, p.mem) <=> CleanAgrees(ks, p.mem)
        BY <1>1, <3>8, SameBlocksSame
      <3> QED
        BY <3>7, <3>10, <3>11 DEF q, WriteKept, Sound
    <2> QED
      BY <2>2, <2>3
  <1> QED
    BY <1>3, <1>4

LEMMA CountAny ==
  ASSUME NEW B, NEW M \in Nat, NEW p \in CacheState(B, M), NEW f
  PROVE  /\ Count(p, f) \in CacheState(B, M)
         /\ Count(p, f).lines = p.lines /\ Count(p, f).mem = p.mem
         /\ Count(p, f).result = p.result
  <1> DEFINE q == Count(p, f)
  <1>1. p.hits \in 0 .. CounterMod - 1 /\ p.misses \in 0 .. CounterMod - 1
    BY StateParts
  <1>2. /\ (p.hits + 1) % CounterMod \in 0 .. CounterMod - 1
        /\ (p.hits - 1) % CounterMod \in 0 .. CounterMod - 1
        /\ (p.misses + 1) % CounterMod \in 0 .. CounterMod - 1
    BY <1>1, CacheAssumption
  <1>3. CASE f.result = 0
    <2>1. q = [p EXCEPT !.hits = (p.hits + 1) % CounterMod]
      BY <1>3 DEF Count
    <2> HIDE DEF q
    <2> QED
      BY <1>2, <1>3, <2>1 DEF CacheState, q
  <1>4. CASE f.result # 0
    <2>1. q = [p EXCEPT !.misses = (p.misses + 1) % CounterMod,
                        !.hits = (p.hits - 1) % CounterMod]
      BY <1>4 DEF Count
    <2> HIDE DEF q
    <2> QED
      BY <1>2, <1>4, <2>1 DEF CacheState, q
  <1> QED
    BY <1>3, <1>4

LEMMA KeptOn ==
  ASSUME NEW B, NEW M, NEW p, NEW q, NEW r
  PROVE  /\ ReadKept(q, p, B, M) /\ ReadKept(r, q, B, M) => ReadKept(r, p, B, M)
         /\ WriteKept(q, p, B, M) /\ WriteKept(r, q, B, M) => WriteKept(r, p, B, M)
  BY DEF ReadKept, WriteKept

\* The counters follow an access without changing what it leaves.
LEMMA KeptCounted ==
  ASSUME NEW B, NEW M \in Nat, NEW p, NEW q, NEW f
  PROVE  /\ ReadKept(q, p, B, M) => ReadKept(Count(q, f), p, B, M)
         /\ WriteKept(q, p, B, M) => WriteKept(Count(q, f), p, B, M)
  <1>1. ASSUME q \in CacheState(B, M)
        PROVE  /\ Count(q, f) \in CacheState(B, M)
               /\ Count(q, f).lines = q.lines /\ Count(q, f).mem = q.mem
    BY <1>1, CountAny
  <1>2. ASSUME ReadKept(q, p, B, M)
        PROVE  ReadKept(Count(q, f), p, B, M)
    <2>1. q \in CacheState(B, M)
      BY <1>2 DEF ReadKept
    <2> QED
      BY <1>1, <1>2, <2>1 DEF ReadKept, Sound
  <1>3. ASSUME WriteKept(q, p, B, M)
        PROVE  WriteKept(Count(q, f), p, B, M)
    <2>1. q \in CacheState(B, M)
      BY <1>3 DEF WriteKept
    <2> QED
      BY <1>1, <1>3, <2>1 DEF WriteKept, Sound
  <1> QED
    BY <1>2, <1>3

\* Whole accesses, aligned or not, backed or not, in one block or two.
LEMMA ReadAny ==
  ASSUME NEW B, NEW M \in Nat, NEW p \in CacheState(B, M), NEW a \in Nat,
         NEW n \in {1, 2, 4}, NEW now \in Nat, NEW g \in Nat, NEW u \in B
  PROVE  LET r == GetCacheValue(p, a, n, now, g, u)
         IN  ReadKept(r.cache, p, B, M) /\ r.bytes \in [1 .. n -> B]
  <1> DEFINE b1 == GetByte(p, a, now, g, u)
             b2 == GetByte(b1, a + 1, now, g, u)
             b3 == GetByte(b2, a + 2, now, g, u)
             b4 == GetByte(b3, a + 3, now, g, u)
             r  == GetCacheValue(p, a, n, now, g, u)
  <1>1. ReadKept(b1, p, B, M) /\ b1 \in CacheState(B, M)
    <2>1. ReadKept(b1, p, B, M)
      BY GetByteAny
    <2> HIDE DEF b1
    <2> QED
      BY <2>1 DEF ReadKept
  <1>2. r = [cache |-> Count(CASE n = 1 -> b1 [] n = 2 -> b2 [] n = 4 -> b4, b1),
             bytes |-> CASE n = 1 -> <<b1.byte>>
                         [] n = 2 -> <<b1.byte, b2.byte>>
                         [] n = 4 -> <<b1.byte, b2.byte, b3.byte, b4.byte>>]
    BY DEF GetCacheValue
  <1> HIDE DEF r, b1
  <1>3. ReadKept(b2, p, B, M) /\ b2 \in CacheState(B, M)
    <2>1. ReadKept(b2, b1, B, M)
      BY <1>1, GetByteAny
    <2> HIDE DEF b2
    <2> QED
      BY <1>1, <2>1, KeptOn DEF ReadKept
  <1> HIDE DEF b2
  <1>4. ReadKept(b3, p, B, M) /\ b3 \in CacheState(B, M)
    <2>1. ReadKept(b3, b2, B, M)
      BY <1>3, GetByteAny
    <2> HIDE DEF b3
    <2> QED
      BY <1>3, <2>1, KeptOn DEF ReadKept
  <1> HIDE DEF b3
  <1>5. ReadKept(b4, p, B, M) /\ b4 \in CacheState(B, M)
    <2>1. ReadKept(b4, b3, B, M)
      BY <1>4, GetByteAny
    <2> HIDE DEF b4
    <2> QED
      BY <1>4, <2>1, KeptOn DEF ReadKept
  <1> HIDE DEF b4
  <1>6. b1.byte \in B /\ b2.byte \in B /\ b3.byte \in B /\ b4.byte \in B
    BY <1>1, <1>3, <1>4, <1>5, StateParts
  <1>7. CASE n = 1
    <2>1. r.cache = Count(b1, b1) /\ r.bytes = <<b1.byte>>
      BY <1>2, <1>7
    <2> QED
      BY <1>1, <1>6, <1>7, <2>1, KeptCounted DEF r
  <1>8. CASE n = 2
    <2>1. r.cache = Count(b2, b1) /\ r.bytes = <<b1.byte, b2.byte>>
      BY <1>2, <1>8
    <2>2. r.bytes \in [1 .. 2 -> B]
      BY <1>6, <2>1
    <2> QED
      BY <1>3, <1>8, <2>1, <2>2, KeptCounted DEF r
  <1>9. CASE n = 4
    <2>1. r.cache = Count(b4, b1) /\ r.bytes = <<b1.byte, b2.byte, b3.byte, b4.byte>>
      BY <1>2, <1>9
    <2>2. r.bytes \in [1 .. 4 -> B]
      BY <1>6, <2>1
    <2> QED
      BY <1>5, <1>9, <2>1, <2>2, KeptCounted DEF r
  <1> QED
    BY <1>7, <1>8, <1>9

LEMMA WriteAny ==
  ASSUME NEW B, NEW M \in Nat, NEW p \in CacheState(B, M), NEW a \in Nat,
         NEW n \in {1, 2, 4}, NEW v \in [1 .. n -> B],
         NEW now \in Nat, NEW g \in Nat, NEW u \in B
  PROVE  WriteKept(SetCacheValue(p, a, v, now, g, u), p, B, M)
  <1> DEFINE b1 == SetByte(p, a, v[1], now, g, u)
             b2 == SetByte(b1, a + 1, v[2], now, g, u)
             b3 == SetByte(b2, a + 2, v[3], now, g, u)
             b4 == SetByte(b3, a + 3, v[4], now, g, u)
             q  == SetCacheValue(p, a, v, now, g, u)
  <1>1. Len(v) = n
    <2>1. v \in Seq(B) /\ DOMAIN v = 1 .. n
      OBVIOUS
    <2> QED
      BY <2>1
  <1>2. q = Count(CASE n = 1 -> b1 [] n = 2 -> b2 [] n = 4 -> b4, b1)
    BY <1>1 DEF SetCacheValue
  <1> HIDE DEF q
  <1>3. WriteKept(b1, p, B, M) /\ b1 \in CacheState(B, M)
    <2>1. v[1] \in B
      OBVIOUS
    <2>2. WriteKept(b1, p, B, M)
      BY <2>1, SetByteAny
    <2> HIDE DEF b1
    <2> QED
      BY <2>2 DEF WriteKept
  <1> HIDE DEF b1
  <1>4. CASE n = 1
    <2>1. q = Count(b1, b1)
      BY <1>2, <1>4
    <2> QED
      BY <1>3, <2>1, KeptCounted DEF q
  <1>5. ASSUME n # 1
        PROVE  WriteKept(b2, p, B, M) /\ b2 \in CacheState(B, M)
    <2>1. v[2] \in B
      BY <1>5
    <2>2. WriteKept(b2, b1, B, M)
      BY <1>3, <2>1, SetByteAny
    <2> HIDE DEF b2
    <2> QED
      BY <1>3, <2>2, KeptOn DEF WriteKept
  <1> HIDE DEF b2
  <1>6. CASE n = 2
    <2>1. q = Count(b2, b1)
      BY <1>2, <1>6
    <2> QED
      BY <1>5, <1>6, <2>1, KeptCounted DEF q
  <1>7. CASE n = 4
    <2>1. v[3] \in B /\ v[4] \in B
      BY <1>7
    <2>2. WriteKept(b3, p, B, M) /\ b3 \in CacheState(B, M)
      <3>1. WriteKept(b3, b2, B, M)
        BY <1>5, <1>7, <2>1, SetByteAny
      <3> HIDE DEF b3
      <3> QED
        BY <1>5, <1>7, <3>1, KeptOn DEF WriteKept
    <2> HIDE DEF b3
    <2>3. WriteKept(b4, p, B, M)
      <3>1. WriteKept(b4, b3, B, M)
        BY <2>1, <2>2, SetByteAny
      <3> HIDE DEF b4
      <3> QED
        BY <2>2, <3>1, KeptOn
    <2>4. q = Count(b4, b1)
      BY <1>2, <1>7
    <2> HIDE DEF b4
    <2> QED
      BY <2>3, <2>4, KeptCounted DEF q
  <1> QED
    BY <1>4, <1>6, <1>7

\* A cache with nothing to write back is drained for nothing.
LEMMA CleanDrain ==
  ASSUME NEW ls, Clean(ls), NEW M, NEW B, NEW mem \in [0 .. M - 1 -> B]
  PROVE  Drain(ls, mem) = mem
  <1>1. DirtyBlocks(ls) = {}
    BY DEF DirtyBlocks, Clean
  <1>2. mem = [a \in DOMAIN mem |-> mem[a]]
    OBVIOUS
  <1> QED
    BY <1>1, <1>2 DEF Drain

\* A new cache is clean and sound whatever is in memory.
LEMMA EmptyAny ==
  ASSUME NEW B, 0 \in B
  PROVE  /\ EmptyLines \in LinesOver(B) /\ Clean(EmptyLines) /\ OneCopy(EmptyLines)
         /\ \A mem : CleanAgrees(EmptyLines, mem)
  <1>1. EmptyLine \in LineOf(B) /\ ~ EmptyLine.valid /\ ~ EmptyLine.dirty
    BY WaysTwoOrOne DEF EmptyLine, LineOf
  <1>2. \A i \in Sets, w \in Ways : EmptyLines[i][w] = EmptyLine
    BY DEF EmptyLines
  <1> QED
    BY <1>1, <1>2 DEF EmptyLines, LinesOver, Clean, OneCopy, CleanAgrees

-----------------------------------------------------------------------------
(***************************************************************************)
(* Bytes that do not change.  The bytes at the addresses T are those of m  *)
(* in memory and in every block, and what an access moves about keeps them *)
(* so: a program whose text nobody writes to can be fetched from a cache   *)
(* that is never told of a store.                                          *)
(***************************************************************************)

Tells(l, i, T, m) ==
  l.valid \/ l.dirty =>
    \A o \in Offsets : BlockAddr(l.tag, i) + o \in T =>
      l.data[o] = m[BlockAddr(l.tag, i) + o]

TextKept(ls, mem, T, m) ==
  /\ \A a \in T : mem[a] = m[a]
  /\ \A i \in Sets, w \in Ways : Tells(ls[i][w], i, T, m)

LEMMA SameBlockTells ==
  ASSUME NEW k, NEW l, SameBlock(k, l), NEW i, NEW T, NEW m
  PROVE  Tells(k, i, T, m) <=> Tells(l, i, T, m)
  BY DEF SameBlock, Tells

\* A block found under the tag of an address holds the byte of that address.
LEMMA TellsByte ==
  ASSUME NEW l, NEW T, NEW m, NEW a \in T, a \in Nat, Tells(l, Index(a), T, m),
         l.valid, l.tag = Tag(a)
  PROVE  l.data[Offset(a)] = m[a]
  BY AddressFields DEF Tells

\* Memory behind a miss: what the victim l of set i held of it, if it was dirty.
Evicted(mem, l, i) == IF l.dirty THEN WriteBack(mem, l.data, l.tag, i) ELSE mem

LEMMA EvictedAt ==
  ASSUME NEW mem, NEW l, l.tag \in Nat, l.dirty \in BOOLEAN,
         NEW i \in Sets, NEW a \in Nat, a \in DOMAIN mem
  PROVE  Evicted(mem, l, i)[a] =
           IF l.dirty /\ Tag(a) = l.tag /\ Index(a) = i THEN l.data[Offset(a)] ELSE mem[a]
  <1>2. WriteBack(mem, l.data, l.tag, i)[a] =
          IF Tag(a) = l.tag /\ Index(a) = i THEN l.data[Offset(a)] ELSE mem[a]
    BY InBlock DEF WriteBack
  <1> QED
    BY <1>2 DEF Evicted

\* What a miss keeps: the text, and when the other blocks are ready.
MissTells(q, p, i, w, T, m) ==
  /\ TextKept(q.lines, q.mem, T, m)
  /\ \A j \in Sets, v \in Ways : j # i \/ v # w =>
       q.lines[j][v].cycleReady = p.lines[j][v].cycleReady

LEMMA MissText ==
  ASSUME NEW B, NEW M \in Nat, NEW p \in CacheState(B, M), NEW a \in Nat,
         NEW t \in Nat, t = Tag(a), NEW g \in Nat, NEW u \in B,
         NEW T \in SUBSET (0 .. M - 1), NEW m, TextKept(p.lines, p.mem, T, m)
  PROVE  MissTells(CacheMiss(p, a, t, g, u), p, Index(a), Victim(p.lines[Index(a)], g), T, m)
  <1> DEFINE i   == Index(a)
             w   == Victim(p.lines[i], g)
             q   == CacheMiss(p, a, t, g, u)
             old == p.lines[i][w]
             mem == Evicted(p.mem, old, i)
             new == [old EXCEPT !.data = ReadBlock(mem, BlockStart(a), u),
                                !.dirty = FALSE, !.valid = TRUE, !.tag = t]
             set == [p.lines[i] EXCEPT ![w] = new]
  <1>1. i \in Sets /\ BlockStart(a) = BlockAddr(t, i)
    BY AddressFields
  <1>2. p.lines \in [Sets -> [Ways -> LineOf(B)]] /\ p.mem \in [0 .. M - 1 -> B]
    BY DEF CacheState
  <1>3. w \in Ways
    BY <1>1, <1>2, VictimWay
  <1>4. /\ old \in LineOf(B) /\ old.valid \in BOOLEAN /\ old.dirty \in BOOLEAN
        /\ old.tag \in Nat /\ old.data \in [Offsets -> B]
    BY <1>1, <1>2, <1>3, LineParts DEF LinesOver
  <1>5. mem \in [0 .. M - 1 -> B]
    BY <1>1, <1>2, <1>4, WriteBackType DEF Evicted
  <1>6. ASSUME NEW b \in 0 .. M - 1
        PROVE  mem[b] = IF old.dirty /\ Tag(b) = old.tag /\ Index(b) = i
                        THEN old.data[Offset(b)] ELSE p.mem[b]
    <2> DEFINE pm == p.mem
    <2>1. /\ old.tag \in Nat /\ old.dirty \in BOOLEAN /\ i \in Sets
          /\ b \in Nat /\ b \in DOMAIN pm
      BY <1>1, <1>2, <1>4
    <2> HIDE DEF pm, old, i
    <2>2. Evicted(pm, old, i)[b] =
            IF old.dirty /\ Tag(b) = old.tag /\ Index(b) = i THEN old.data[Offset(b)] ELSE pm[b]
      BY ONLY <2>1, EvictedAt
    <2> QED
      BY <2>2 DEF pm, mem
  <1>16. ASSUME NEW b \in T
         PROVE  mem[b] = m[b]
    <2>1. b \in 0 .. M - 1 /\ b \in Nat /\ p.mem[b] = m[b] /\ Tells(old, i, T, m)
      BY <1>1, <1>3, <1>16 DEF TextKept
    <2>2. old.dirty /\ Tag(b) = old.tag /\ Index(b) = i => old.data[Offset(b)] = m[b]
      <3>1. b = BlockAddr(Tag(b), Index(b)) + Offset(b) /\ Offset(b) \in Offsets
        BY <2>1, AddressFields
      <3> QED
        BY <1>16, <2>1, <3>1 DEF Tells
    <2> HIDE DEF mem, old, i
    <2> QED
      BY <1>6, <2>1, <2>2
  <1>7. q = [p EXCEPT !.mem = mem, !.lines = [p.lines EXCEPT ![i] = UpdateLRU(set, w)]]
    BY DEF CacheMiss, Evicted
  <1> HIDE DEF mem
  <1>8. ReadBlock(mem, BlockStart(a), u) \in [Offsets -> B]
    BY <1>5 DEF ReadBlock
  <1>9. new \in LineOf(B) /\ new.tag = t /\ new.cycleReady = old.cycleReady
    BY <1>4, <1>8 DEF LineOf
  <1>10. Tells(new, i, T, m)
    <2>1. new.data = ReadBlock(mem, BlockStart(a), u)
      BY <1>4 DEF LineOf
    <2>2. ASSUME NEW o \in Offsets, BlockAddr(t, i) + o \in T
          PROVE  ReadBlock(mem, BlockStart(a), u)[o] = m[BlockAddr(t, i) + o]
      <3>1. BlockStart(a) + o \in DOMAIN mem
        BY <1>1, <1>5, <2>2
      <3> QED
        BY <1>1, <1>16, <2>2, <3>1 DEF ReadBlock
    <2> HIDE DEF new
    <2> QED
      BY <1>9, <2>1, <2>2 DEF Tells
  <1> HIDE DEF new
  <1>11. set \in [Ways -> LineOf(B)]
    BY <1>1, <1>2, <1>9
  <1>12. /\ UpdateLRU(set, w) \in [Ways -> LineOf(B)]
         /\ \A v \in Ways : /\ SameBlock(UpdateLRU(set, w)[v], set[v])
                            /\ UpdateLRU(set, w)[v].cycleReady = set[v].cycleReady
    BY <1>3, <1>11, UpdateLRUType
  <1> HIDE DEF q
  <1>13. q.mem = mem /\ q.lines = [p.lines EXCEPT ![i] = UpdateLRU(set, w)]
    BY <1>1, <1>2, <1>5, <1>7, <1>12 DEF CacheState
  <1>14. ASSUME NEW j \in Sets, NEW v \in Ways
         PROVE  /\ Tells(q.lines[j][v], j, T, m)
                /\ j # i \/ v # w => q.lines[j][v].cycleReady = p.lines[j][v].cycleReady
    <2>1. Tells(p.lines[j][v], j, T, m)
      BY DEF TextKept
    <2>2. CASE j = i
      <3>1. /\ SameBlock(q.lines[j][v], set[v])
            /\ q.lines[j][v].cycleReady = set[v].cycleReady
        BY <1>1, <1>2, <1>12, <1>13, <2>2
      <3>2. set[v] = IF v = w THEN new ELSE p.lines[j][v]
        BY <1>1, <1>2, <1>3, <2>2
      <3> HIDE DEF set
      <3>3. Tells(set[v], j, T, m)
        BY <1>10, <2>1, <2>2, <3>2
      <3> QED
        BY <2>2, <3>1, <3>2, <3>3, SameBlockTells
    <2>3. CASE j # i
      <3>1. q.lines[j][v] = p.lines[j][v]
        BY <1>1, <1>2, <1>13, <2>3
      <3> QED
        BY <2>1, <3>1
    <2> QED
      BY <2>2, <2>3
  <1> HIDE DEF w, i
  <1>15. MissTells(q, p, i, w, T, m)
    BY <1>13, <1>14, <1>16 DEF MissTells, TextKept
  <1> QED
    BY <1>15 DEF q, i, w

\* The block of a is on its way: the byte a call returns is not the one of a.
StillOut(p, a, now) ==
  LET held == Holding(p.lines[Index(a)], Tag(a))
  IN  held # {} /\ ~ Ready(p.lines[Index(a)][FirstWay(held)], now)

\* A byte read keeps the text, and a byte of the text is read unless its block
\* is on its way.
ReadTells(q, a, now, T, m) ==
  /\ TextKept(q.lines, q.mem, T, m) /\ ReadyBound(q.lines, now)
  /\ a \in T => q.byte = m[a] \/ (q.result # 0 /\ StillOut(q, a, now))

LEMMA GetByteText ==
  ASSUME NEW B, NEW M \in Nat, NEW p \in CacheState(B, M), NEW a \in Nat,
         NEW now \in Nat, NEW g \in Nat, NEW u \in B, ReadyBound(p.lines, now),
         NEW T \in SUBSET (0 .. M - 1), NEW m, TextKept(p.lines, p.mem, T, m)
  PROVE  ReadTells(GetByte(p, a, now, g, u), a, now, T, m)
  <1> DEFINE i    == Index(a)
             held == Holding(p.lines[i], Tag(a))
             hit  == FirstWay(held)
             w    == Victim(p.lines[i], g)
             n    == CacheMiss(p, a, Tag(a), g, u)
             q    == GetByte(p, a, now, g, u)
  <1>1. /\ p.lines \in LinesOver(B) /\ p.mem \in [0 .. M - 1 -> B]
        /\ MissLatency \in Nat
    BY StateParts, CacheAssumption
  <1>2. i \in Sets /\ Offset(a) \in Offsets /\ Tag(a) \in Nat
    BY AddressFields
  <1>3. CASE held = {}
    <2>1. Filled(n, p, i, w, Tag(a), B, M) /\ MissTells(n, p, i, w, T, m)
      BY <1>2, MissAny, MissText
    <2> DEFINE k  == [n.lines[i][w] EXCEPT !.cycleReady = ReadyAt(now)]
               ls == PutLine(n.lines, i, w, k)
    <2>2. q = [n EXCEPT !.result = MissLatency,
                        !.byte = n.lines[i][w].data[Offset(a)],
                        !.lines = ls]
      <3>1. q = ReadMiss(p, a, now, g, u)
        BY ONLY <1>3 DEF GetByte
      <3> QED
        BY ONLY <3>1 DEF ReadMiss, n, w, PutLine
    <2> HIDE DEF n, w
    <2>3. /\ i \in Sets /\ w \in Ways /\ n \in CacheState(B, M)
          /\ n.lines \in LinesOver(B) /\ n.lines[i][w].valid /\ n.lines[i][w].tag = Tag(a)
      BY <2>1, StateParts DEF Filled
    <2>4. n.lines[i][w] \in LineOf(B) /\ n.lines[i][w].data \in [Offsets -> B]
      BY <2>3, LineParts
    <2>5. /\ k \in LineOf(B) /\ SameBlock(k, n.lines[i][w])
          /\ k.cycleReady = now + MissLatency
      <3>1. ReadyAt(now) \in Nat /\ ReadyAt(now) = now + MissLatency
        BY <1>1 DEF ReadyAt
      <3> QED
        BY ONLY <2>4, <3>1 DEF LineOf, SameBlock
    <2> HIDE DEF k
    <2>6. \A j \in Sets, v \in Ways :
            ls[j][v] = IF j = i /\ v = w THEN k ELSE n.lines[j][v]
      BY <2>3, <2>5, PutLineAt
    <2> HIDE DEF ls, q
    <2>7. q.lines = ls /\ q.mem = n.mem /\ q.byte = n.lines[i][w].data[Offset(a)]
      BY <2>2, <2>3 DEF CacheState
    <2>8. /\ TextKept(n.lines, n.mem, T, m)
          /\ \A j \in Sets, v \in Ways : j # i \/ v # w =>
               n.lines[j][v].cycleReady = p.lines[j][v].cycleReady
      BY <2>1 DEF MissTells
    <2>9. TextKept(ls, n.mem, T, m)
      BY <2>5, <2>6, <2>8, SameBlockTells DEF TextKept
    <2>10. ReadyBound(ls, now)
      BY <1>1, <2>5, <2>6, <2>8 DEF ReadyBound
    <2>11. a \in T => q.byte = m[a]
      BY <2>3, <2>7, <2>8, TellsByte DEF TextKept
    <2> QED
      BY <2>7, <2>9, <2>10, <2>11 DEF q, ReadTells
  <1>4. CASE held # {}
    <2>1. hit \in Ways /\ p.lines[i][hit].valid /\ p.lines[i][hit].tag = Tag(a)
      BY <1>4, FirstWayIn DEF Holding
    <2>2. CASE ~ Ready(p.lines[i][hit], now)
      <3>1. q = [p EXCEPT !.result = MissLatency, !.byte = u]
        <4>1. q = ReadPending(p, u)
          BY ONLY <1>4, <2>2 DEF GetByte, hit
        <4> QED
          BY ONLY <4>1 DEF ReadPending
      <3> HIDE DEF q, hit
      <3>2. q.lines = p.lines /\ q.mem = p.mem
        BY <3>1 DEF CacheState
      <3>3. MissLatency # 0
        BY <1>1, <1>2, <2>1, <2>2, LineParts DEF ReadyBound, Ready
      <3>4. q.result = MissLatency
        BY <3>1 DEF CacheState
      <3>5. StillOut(q, a, now)
        BY <1>4, <2>2, <3>2 DEF StillOut, hit
      <3> QED
        BY <3>2, <3>3, <3>4, <3>5 DEF q, ReadTells
    <2>3. CASE Ready(p.lines[i][hit], now)
      <3> DEFINE ls == Used(p.lines, i, hit)
      <3>1. q = [p EXCEPT !.result = 0, !.byte = p.lines[i][hit].data[Offset(a)],
                          !.lines = ls]
        <4>1. q = ReadHit(p, a, hit)
          BY ONLY <1>4, <2>3 DEF GetByte, hit
        <4> QED
          BY ONLY <4>1 DEF ReadHit, Used
      <3> HIDE DEF hit
      <3>2. /\ SameBlocks(ls, p.lines)
            /\ \A j \in Sets, v \in Ways : ls[j][v].cycleReady = p.lines[j][v].cycleReady
        BY <1>1, <1>2, <2>1, UseKeeps
      <3> HIDE DEF ls, q
      <3>3. q.lines = ls /\ q.mem = p.mem /\ q.byte = p.lines[i][hit].data[Offset(a)]
        BY <3>1 DEF CacheState
      <3>4. TextKept(ls, p.mem, T, m)
        BY <3>2, SameBlockTells DEF TextKept, SameBlocks
      <3>5. ReadyBound(ls, now)
        BY <3>2 DEF ReadyBound
      <3>6. a \in T => q.byte = m[a]
        BY <1>2, <2>1, <3>3, TellsByte DEF TextKept
      <3> QED
        BY <3>3, <3>4, <3>5, <3>6 DEF q, ReadTells
    <2> QED
      BY <2>2, <2>3
  <1> QED
    BY <1>3, <1>4

\* Of a block that is not there yet the next byte is not there either.
LEMMA StaysOut ==
  ASSUME NEW B, NEW M \in Nat, NEW p \in CacheState(B, M), NEW a \in Nat,
         Offset(a) + 1 < BlockSize, NEW now \in Nat, NEW g, NEW u,
         ReadyBound(p.lines, now), StillOut(p, a, now)
  PROVE  LET q == GetByte(p, a + 1, now, g, u)
         IN  q.result # 0 /\ StillOut(q, a + 1, now)
  <1> DEFINE i    == Index(a)
             held == Holding(p.lines[i], Tag(a))
             hit  == FirstWay(held)
             q    == GetByte(p, a + 1, now, g, u)
  <1>1. Index(a + 1) = i /\ Tag(a + 1) = Tag(a)
    <2>1. 1 \in Nat
      OBVIOUS
    <2> QED
      BY <2>1, SameBlockAddr
  <1>2. held # {} /\ ~ Ready(p.lines[i][hit], now)
    BY DEF StillOut
  <1>3. p.lines \in LinesOver(B) /\ i \in Sets /\ MissLatency \in Nat
    BY StateParts, AddressFields, CacheAssumption
  <1>4. q = [p EXCEPT !.result = MissLatency, !.byte = u]
    <2>1. q = ReadPending(p, u)
      BY ONLY <1>1, <1>2 DEF GetByte, hit
    <2> QED
      BY ONLY <2>1 DEF ReadPending
  <1>5. MissLatency # 0
    <2>1. hit \in Ways
      BY <1>2, FirstWayIn DEF Holding
    <2> QED
      BY <1>2, <1>3, <2>1, LineParts DEF ReadyBound, Ready
  <1> HIDE DEF q, hit
  <1>6. q.lines = p.lines /\ q.result = MissLatency
    BY <1>4 DEF CacheState
  <1> QED
    BY <1>1, <1>2, <1>5, <1>6 DEF StillOut, q, hit

\* A byte written keeps the text, if the text has that byte where it goes.
LEMMA SetByteText ==
  ASSUME NEW B, NEW M \in Nat, NEW p \in CacheState(B, M), NEW a \in Nat, NEW b \in B,
         NEW now \in Nat, NEW g \in Nat, NEW u \in B, StoreTag(a) = Tag(a),
         NEW T \in SUBSET (0 .. M - 1), NEW m, TextKept(p.lines, p.mem, T, m),
         a \in T => b = m[a]
  PROVE  LET q == SetByte(p, a, b, now, g, u)
         IN  TextKept(q.lines, q.mem, T, m)
  <1> DEFINE i    == Index(a)
             o    == Offset(a)
             t    == StoreTag(a)
             held == Holding(p.lines[i], t)
             hit  == FirstWay(held)
             w    == Victim(p.lines[i], g)
             n    == CacheMiss(p, a, t, g, u)
             q    == SetByte(p, a, b, now, g, u)
  <1>1. /\ p.lines \in LinesOver(B) /\ p.mem \in [0 .. M - 1 -> B]
        /\ MissLatency \in Nat
    BY StateParts, CacheAssumption
  <1>2. i \in Sets /\ o \in Offsets /\ t \in Nat /\ t = Tag(a)
    BY AddressFields
  <1>3. ASSUME NEW l \in LineOf(B), Tells(l, i, T, m), l.valid, l.tag = t, NEW k \in LineOf(B),
               k.tag = t, k.data = [l.data EXCEPT ![o] = b]
        PROVE  Tells(k, i, T, m)
    <2>1. l.data \in [Offsets -> B]
      BY DEF LineOf
    <2>2. ASSUME NEW x \in Offsets, BlockAddr(t, i) + x \in T
          PROVE  k.data[x] = m[BlockAddr(t, i) + x]
      <3>1. CASE x = o
        <4>1. BlockAddr(t, i) + x = a
          BY <1>2, <3>1, AddressFields
        <4> QED
          BY <1>3, <2>1, <2>2, <3>1, <4>1
      <3>2. CASE x # o
        BY <1>3, <2>1, <2>2, <3>2 DEF Tells
      <3> QED
        BY <3>1, <3>2
    <2> QED
      BY <1>3, <2>2 DEF Tells
  <1>4. CASE held = {}
    <2>1. Filled(n, p, i, w, t, B, M) /\ MissTells(n, p, i, w, T, m)
      BY <1>2, MissAny, MissText
    <2> DEFINE l  == n.lines[i][w]
               k  == [l EXCEPT !.data[o] = b, !.dirty = TRUE, !.cycleReady = ReadyAt(now)]
               ls == PutLine(n.lines, i, w, k)
    <2>2. q = [n EXCEPT !.result = MissLatency, !.lines = ls]
      <3>1. q = WriteMiss(p, a, b, now, g, u)
        BY <1>4 DEF SetByte
      <3> QED
        BY ONLY <3>1 DEF WriteMiss, n, w, PutLine
    <2> HIDE DEF n, w, t
    <2>3. /\ i \in Sets /\ w \in Ways /\ n \in CacheState(B, M)
          /\ n.lines \in LinesOver(B) /\ l.valid /\ l.tag = t
      BY <2>1, StateParts DEF Filled
    <2>4. l \in LineOf(B) /\ l.data \in [Offsets -> B]
      BY <2>3, LineParts
    <2>5. /\ k \in LineOf(B) /\ k.tag = t /\ k.data = [l.data EXCEPT ![o] = b]
      <3>1. ReadyAt(now) \in Nat
        BY <1>1 DEF ReadyAt
      <3>2. [l.data EXCEPT ![o] = b] \in [Offsets -> B]
        BY <2>4
      <3> QED
        BY ONLY <2>3, <2>4, <3>1, <3>2 DEF LineOf
    <2> HIDE DEF k
    <2>6. \A j \in Sets, v \in Ways :
            ls[j][v] = IF j = i /\ v = w THEN k ELSE n.lines[j][v]
      BY <2>3, <2>5, PutLineAt
    <2> HIDE DEF ls, q
    <2>7. q.lines = ls /\ q.mem = n.mem
      BY <2>2, <2>3 DEF CacheState
    <2>8. TextKept(n.lines, n.mem, T, m)
      BY <2>1 DEF MissTells
    <2>9. Tells(k, i, T, m)
      <3>1. Tells(l, i, T, m)
        BY <2>3, <2>8 DEF TextKept
      <3> HIDE DEF l, i, o
      <3> QED
        BY <1>3, <2>3, <2>4, <2>5, <3>1
    <2> QED
      BY <2>6, <2>7, <2>8, <2>9 DEF q, TextKept
  <1>5. CASE held # {}
    <2>1. hit \in Ways /\ p.lines[i][hit].valid /\ p.lines[i][hit].tag = t
      BY <1>5, FirstWayIn DEF Holding
    <2> DEFINE l == p.lines[i][hit]
    <2>2. CASE ~ Ready(p.lines[i][hit], now)
      <3>1. q = [p EXCEPT !.result = MissLatency]
        <4>1. q = WritePending(p)
          BY <1>5, <2>2 DEF SetByte
        <4> QED
          BY ONLY <4>1 DEF WritePending
      <3> HIDE DEF q, hit
      <3>2. q.lines = p.lines /\ q.mem = p.mem
        BY <3>1 DEF CacheState
      <3> QED
        BY <3>2 DEF q
    <2>3. CASE Ready(p.lines[i][hit], now)
      <3> DEFINE k  == [l EXCEPT !.data[o] = b, !.dirty = TRUE]
                 ks == PutLine(p.lines, i, hit, k)
                 ls == Used(ks, i, hit)
      <3>1. q = [p EXCEPT !.result = 0,
                          !.lines[i] = UpdateLRU(
                             [p.lines[i] EXCEPT ![hit].data[o] = b,
                                                ![hit].dirty = TRUE], hit)]
        <4>1. q = WriteHit(p, a, b, hit)
          BY <1>5, <2>3 DEF SetByte
        <4> QED
          BY ONLY <4>1 DEF WriteHit
      <3> HIDE DEF hit, q, t
      <3>2. l \in LineOf(B) /\ l.data \in [Offsets -> B]
        BY <1>1, <1>2, <2>1, LineParts
      <3>3. k \in LineOf(B) /\ k.tag = l.tag /\ k.data = [l.data EXCEPT ![o] = b]
        <4>1. [l.data EXCEPT ![o] = b] \in [Offsets -> B]
          BY <3>2
        <4> QED
          BY ONLY <3>2, <4>1 DEF LineOf
      <3>4. [p.lines[i] EXCEPT ![hit].data[o] = b, ![hit].dirty = TRUE] = ks[i]
        BY <1>1, <1>2, <2>1, <3>2 DEF PutLine, LinesOver
      <3> HIDE DEF k
      <3>5. /\ ks \in LinesOver(B)
            /\ \A j \in Sets, v \in Ways :
                 ks[j][v] = IF j = i /\ v = hit THEN k ELSE p.lines[j][v]
        BY <1>1, <1>2, <2>1, <3>3, PutLineAt
      <3>6. ls = [p.lines EXCEPT ![i] = UpdateLRU(ks[i], hit)]
        BY <1>1, <1>2 DEF Used, PutLine, LinesOver
      <3> HIDE DEF ks
      <3>7. SameBlocks(ls, ks)
        BY <1>2, <2>1, <3>5, UseKeeps
      <3> HIDE DEF ls
      <3>8. q = [p EXCEPT !.result = 0, !.lines = ls]
        BY <3>1, <3>4, <3>6
      <3>9. q.lines = ls /\ q.mem = p.mem
        BY <3>8 DEF CacheState
      <3>10. Tells(k, i, T, m)
        <4>1. Tells(l, i, T, m)
          BY <1>2, <2>1 DEF TextKept
        <4> HIDE DEF l, i, o
        <4> QED
          BY <1>3, <2>1, <3>2, <3>3, <4>1 DEF l
      <3>11. TextKept(ks, p.mem, T, m)
        BY <3>5, <3>10 DEF TextKept
      <3>12. TextKept(ls, p.mem, T, m)
        BY <3>7, <3>11, SameBlockTells DEF TextKept, SameBlocks
      <3> QED
        BY <3>9, <3>12 DEF q
    <2> QED
      BY <2>2, <2>3
  <1> QED
    BY <1>4, <1>5

\* A cache over M bytes that keeps the text.
TextCache(p, B, M, T, m) ==
  p \in CacheState(B, M) /\ T \in SUBSET (0 .. M - 1) /\ TextKept(p.lines, p.mem, T, m)

\* What a whole read of n bytes leaves, and returns when it does not fail:  of
\* a word in two blocks the first may be on its way while the second is there.
TextRead(r, a, n, now, T, m) ==
  /\ TextKept(r.cache.lines, r.cache.mem, T, m) /\ ReadyBound(r.cache.lines, now)
  /\ /\ n = 4 /\ r.cache.result = 0 /\ {a, a + 1, a + 2, a + 3} \subseteq T
     /\ MissLatency = 0 \/ Offset(a) + 4 <= BlockSize
     => r.bytes = <<m[a], m[a + 1], m[a + 2], m[a + 3]>>

\* Whole accesses.
LEMMA ReadText ==
  ASSUME NEW B, NEW M, NEW p, NEW T, NEW m, TextCache(p, B, M, T, m),
         NEW a, NEW n, a \in Nat /\ n \in {1, 2, 4}, NEW now, NEW g, NEW u,
         M \in Nat /\ now \in Nat /\ g \in Nat /\ u \in B, ReadyBound(p.lines, now)
  PROVE  TextRead(GetCacheValue(p, a, n, now, g, u), a, n, now, T, m)
  <1> p \in CacheState(B, M) /\ T \in SUBSET (0 .. M - 1) /\ TextKept(p.lines, p.mem, T, m)
    BY DEF TextCache
  <1> DEFINE b1 == GetByte(p, a, now, g, u)
             b2 == GetByte(b1, a + 1, now, g, u)
             b3 == GetByte(b2, a + 2, now, g, u)
             b4 == GetByte(b3, a + 3, now, g, u)
             r  == GetCacheValue(p, a, n, now, g, u)
  <1>1. ReadTells(b1, a, now, T, m) /\ b1 \in CacheState(B, M)
    <2>1. ReadTells(b1, a, now, T, m) /\ ReadKept(b1, p, B, M)
      BY GetByteAny, GetByteText
    <2> HIDE DEF b1
    <2> QED
      BY <2>1 DEF ReadKept
  <1>2. r = [cache |-> Count(CASE n = 1 -> b1 [] n = 2 -> b2 [] n = 4 -> b4, b1),
             bytes |-> CASE n = 1 -> <<b1.byte>>
                         [] n = 2 -> <<b1.byte, b2.byte>>
                         [] n = 4 -> <<b1.byte, b2.byte, b3.byte, b4.byte>>]
    BY DEF GetCacheValue
  <1> HIDE DEF r, b1
  <1>3. ReadTells(b2, a + 1, now, T, m) /\ b2 \in CacheState(B, M)
    <2>1. TextKept(b1.lines, b1.mem, T, m) /\ ReadyBound(b1.lines, now) /\ a + 1 \in Nat
      BY <1>1 DEF ReadTells
    <2>2. ReadTells(b2, a + 1, now, T, m) /\ ReadKept(b2, b1, B, M)
      BY <1>1, <2>1, GetByteAny, GetByteText
    <2> HIDE DEF b2
    <2> QED
      BY <2>2 DEF ReadKept
  <1> HIDE DEF b2
  <1>4. ReadTells(b3, a + 2, now, T, m) /\ b3 \in CacheState(B, M)
    <2>1. TextKept(b2.lines, b2.mem, T, m) /\ ReadyBound(b2.lines, now) /\ a + 2 \in Nat
      BY <1>3 DEF ReadTells
    <2>2. ReadTells(b3, a + 2, now, T, m) /\ ReadKept(b3, b2, B, M)
      BY <1>3, <2>1, GetByteAny, GetByteText
    <2> HIDE DEF b3
    <2> QED
      BY <2>2 DEF ReadKept
  <1> HIDE DEF b3
  <1>5. ReadTells(b4, a + 3, now, T, m) /\ b4 \in CacheState(B, M)
    <2>1. TextKept(b3.lines, b3.mem, T, m) /\ ReadyBound(b3.lines, now) /\ a + 3 \in Nat
      BY <1>4 DEF ReadTells
    <2>2. ReadTells(b4, a + 3, now, T, m) /\ ReadKept(b4, b3, B, M)
      BY <1>4, <2>1, GetByteAny, GetByteText
    <2> HIDE DEF b4
    <2> QED
      BY <2>2 DEF ReadKept
  <1> HIDE DEF b4
  <1>6. ASSUME NEW q \in CacheState(B, M)
        PROVE  Count(q, b1).lines = q.lines /\ Count(q, b1).mem = q.mem
    BY CountAny
  <1>7. CASE n = 1
    <2>1. r.cache = Count(b1, b1)
      BY <1>2, <1>7
    <2> QED
      BY <1>1, <1>6, <1>7, <2>1 DEF r, ReadTells, TextRead
  <1>8. CASE n = 2
    <2>1. r.cache = Count(b2, b1)
      BY <1>2, <1>8
    <2> QED
      BY <1>3, <1>6, <1>8, <2>1 DEF r, ReadTells, TextRead
  <1>9. CASE n = 4
    <2>1. r.cache = Count(b4, b1) /\ r.bytes = <<b1.byte, b2.byte, b3.byte, b4.byte>>
      BY <1>2, <1>9
    <2>2. r.cache.result = b4.result
      BY <1>5, <2>1, CountAny
    <2>3. ASSUME b4.result = 0, {a, a + 1, a + 2, a + 3} \subseteq T,
                 MissLatency = 0 \/ Offset(a) + 4 <= BlockSize
          PROVE  b1.byte = m[a] /\ b2.byte = m[a + 1] /\ b3.byte = m[a + 2] /\ b4.byte = m[a + 3]
      <3>1. CASE MissLatency = 0
        <4>1. b1.result = 0 /\ b2.result = 0 /\ b3.result = 0
          BY <1>1, <1>3, <1>4, <3>1, StateParts
        <4> QED
          BY <1>1, <1>3, <1>4, <1>5, <2>3, <4>1 DEF ReadTells
      <3>2. CASE Offset(a) + 4 <= BlockSize
        <4>1. /\ Offset(a) + 1 < BlockSize /\ Offset(a + 1) + 1 < BlockSize
              /\ Offset(a + 2) + 1 < BlockSize
          <5>1. Offset(a) \in Nat /\ BlockSize \in Nat
            BY AddressFields, CacheAssumption DEF Offsets
          <5>2. /\ Offset(a) + 1 < BlockSize /\ Offset(a) + 2 < BlockSize
                /\ Offset(a) + 3 < BlockSize
            BY <3>2, <5>1
          <5>3. 1 \in Nat /\ 2 \in Nat
            OBVIOUS
          <5>4. Offset(a + 1) = Offset(a) + 1 /\ Offset(a + 2) = Offset(a) + 2
            BY <5>2, <5>3, SameBlockAddr
          <5> QED
            BY <5>1, <5>2, <5>4
        <4>2. ~ StillOut(b3, a + 2, now)
          <5>1. a + 3 = a + 2 + 1 /\ a + 2 \in Nat
            OBVIOUS
          <5>2. ASSUME StillOut(b3, a + 2, now)
                PROVE  GetByte(b3, a + 2 + 1, now, g, u).result # 0
            BY <1>4, <4>1, <5>1, <5>2, StaysOut DEF ReadTells
          <5> QED
            BY <2>3, <5>1, <5>2 DEF b4
        <4>3. ~ StillOut(b2, a + 1, now)
          <5>1. a + 2 = a + 1 + 1 /\ a + 1 \in Nat
            OBVIOUS
          <5>2. ASSUME StillOut(b2, a + 1, now)
                PROVE  StillOut(GetByte(b2, a + 1 + 1, now, g, u), a + 1 + 1, now)
            BY <1>3, <4>1, <5>1, <5>2, StaysOut DEF ReadTells
          <5> QED
            BY <4>2, <5>1, <5>2 DEF b3
        <4>4. ~ StillOut(b1, a, now)
          <5>1. ASSUME StillOut(b1, a, now)
                PROVE  StillOut(GetByte(b1, a + 1, now, g, u), a + 1, now)
            BY <1>1, <4>1, <5>1, StaysOut DEF ReadTells
          <5> QED
            BY <4>3, <5>1 DEF b2
        <4> QED
          BY <1>1, <1>3, <1>4, <1>5, <2>3, <4>2, <4>3, <4>4 DEF ReadTells
      <3> QED
        BY <2>3, <3>1, <3>2
    <2> QED
      BY <1>5, <1>6, <2>1, <2>2, <2>3 DEF r, ReadTells, TextRead
  <1> QED
    BY <1>7, <1>8, <1>9

LEMMA WriteText ==
  ASSUME NEW B, NEW M \in Nat, NEW p, NEW T, NEW m, TextCache(p, B, M, T, m),
         NEW a, NEW n, AccessIn(a, n, M), StoreTag(a) = Tag(a), NEW v \in [1 .. n -> B],
         NEW now \in Nat, NEW g \in Nat, NEW u \in B,
         \A k \in 1 .. n : a + k - 1 \in T => v[k] = m[a + k - 1]
  PROVE  LET q == SetCacheValue(p, a, v, now, g, u)
         IN  TextKept(q.lines, q.mem, T, m)
  <1> p \in CacheState(B, M) /\ T \in SUBSET (0 .. M - 1) /\ TextKept(p.lines, p.mem, T, m)
    BY DEF TextCache
  <1> DEFINE b1 == SetByte(p, a, v[1], now, g, u)
             b2 == SetByte(b1, a + 1, v[2], now, g, u)
             b3 == SetByte(b2, a + 2, v[3], now, g, u)
             b4 == SetByte(b3, a + 3, v[4], now, g, u)
             q  == SetCacheValue(p, a, v, now, g, u)
             Kept(c) == c \in CacheState(B, M) /\ TextKept(c.lines, c.mem, T, m)
  <1>1. n \in {1, 2, 4} /\ Len(v) = n /\ a \in Nat
    <2>1. n \in {1, 2, 4} /\ a \in Nat
      BY DEF AccessIn
    <2>2. v \in Seq(B) /\ DOMAIN v = 1 .. n
      BY <2>1
    <2> QED
      BY <2>1, <2>2
  <1>2. q = Count(CASE n = 1 -> b1 [] n = 2 -> b2 [] n = 4 -> b4, b1)
    BY <1>1 DEF SetCacheValue
  <1>3. ASSUME NEW c, Kept(c), NEW k \in 1 .. n, NEW x, x = a + (k - 1)
        PROVE  Kept(SetByte(c, x, v[k], now, g, u))
    <2>1. StoreTag(a + (k - 1)) = Tag(a + (k - 1)) /\ a + (k - 1) \in Nat
      <3>1. k - 1 \in Nat /\ Offset(a) + (k - 1) < BlockSize
        <4>1. Offset(a) \in Nat /\ Offset(a) + n <= BlockSize /\ BlockSize \in Nat
          BY <1>1, AddressFields, CacheAssumption DEF AccessIn, Offsets
        <4> QED
          BY <1>1, <4>1
      <3> QED
        BY <1>1, <3>1, SameBlockAddr DEF StoreTag
    <2>2. v[k] \in B /\ (a + (k - 1) \in T => v[k] = m[a + (k - 1)])
      <3>1. a + (k - 1) = a + k - 1
        BY <1>1
      <3> QED
        BY <3>1
    <2> DEFINE d == SetByte(c, x, v[k], now, g, u)
    <2>3. WriteKept(d, c, B, M) /\ TextKept(d.lines, d.mem, T, m)
      BY <1>3, <2>1, <2>2, SetByteAny, SetByteText
    <2> HIDE DEF d
    <2>4. Kept(d)
      BY <2>3 DEF WriteKept
    <2> QED
      BY <2>4 DEF d
  <1> HIDE DEF q
  <1>4. Kept(b1)
    <2>1. a = a + (1 - 1) /\ 1 \in 1 .. n /\ Kept(p)
      BY <1>1
    <2> HIDE DEF Kept
    <2> QED
      BY <1>3, <2>1
  <1> HIDE DEF b1
  <1>5. n # 1 => Kept(b2)
    <2>1. a + 1 = a + (2 - 1) /\ (n # 1 => 2 \in 1 .. n)
      BY <1>1
    <2> HIDE DEF Kept
    <2> QED
      BY <1>3, <1>4, <2>1
  <1> HIDE DEF b2
  <1>6. n = 4 => Kept(b3)
    <2>1. a + 2 = a + (3 - 1) /\ (n = 4 => 3 \in 1 .. n)
      BY <1>1
    <2> HIDE DEF Kept
    <2> QED
      BY <1>3, <1>5, <2>1
  <1> HIDE DEF b3
  <1>7. n = 4 => Kept(b4)
    <2>1. a + 3 = a + (4 - 1) /\ (n = 4 => 4 \in 1 .. n)
      BY <1>1
    <2> HIDE DEF Kept
    <2> QED
      BY <1>3, <1>6, <2>1
  <1> HIDE DEF b4
  <1>8. \E c : Kept(c) /\ q = Count(c, b1)
    <2>1. CASE n = 1
      BY <1>2, <1>4, <2>1
    <2>2. CASE n = 2
      <3>1. q = Count(b2, b1)
        BY <1>2, <2>2
      <3> QED
        BY <1>5, <2>2, <3>1
    <2>3. CASE n = 4
      <3>1. q = Count(b4, b1)
        BY <1>2, <2>3
      <3> QED
        BY <1>7, <2>3, <3>1
    <2> QED
      BY <1>1, <2>1, <2>2, <2>3
  <1> QED
    BY <1>8, CountAny DEF q

\* A new cache knows nothing of the text.
LEMMA EmptyText ==
  ASSUME NEW mem, NEW T, NEW now \in Nat
  PROVE  TextKept(EmptyLines, mem, T, mem) /\ ReadyBound(EmptyLines, now)
  <1>1. \A i \in Sets, w \in Ways : EmptyLines[i][w] = EmptyLine
    BY DEF EmptyLines
  <1> QED
    BY <1>1, CacheAssumption DEF EmptyLine, TextKept, Tells, ReadyBound

\* A cache that is empty shows memory as it is.
LEMMA EmptyView ==
  ASSUME NEW mem, DOMAIN mem \subseteq Nat, mem = [a \in DOMAIN mem |-> mem[a]]
  PROVE  View(EmptyLines, mem) = mem
  <1>1. \A i \in Sets, w \in Ways : ~ EmptyLines[i][w].valid
    BY DEF EmptyLines, EmptyLine
  <1>2. ASSUME NEW a \in DOMAIN mem
        PROVE  Holding(EmptyLines[Index(a)], Tag(a)) = {}
    <2>1. Index(a) \in Sets
      BY AddressFields
    <2> QED
      BY <1>1, <2>1 DEF Holding
  <1>3. View(EmptyLines, mem) = [a \in DOMAIN mem |-> mem[a]]
    BY <1>2 DEF View
  <1> QED
    BY <1>3

-----------------------------------------------------------------------------
(***************************************************************************)
(* Which way an access works on, what becomes of the recency of the ways   *)
(* and when a block is ready, for both versions of updateLRU.              *)
(***************************************************************************)

\* The recency of way v of a set after way w of it is used.
Recency(set, w, v) ==
  IF v = w THEN Assoc - 1
  ELSE IF Ages /\ set[v].lru > set[w].lru THEN set[v].lru - 1 ELSE set[v].lru

\* The line k holds the same block as l, ready at the same time.
Kept(k, l) == k.valid = l.valid /\ k.tag = l.tag /\ k.cycleReady = l.cycleReady

\* How lines ms follow lines ls after one byte or all of an access to a in
\* cycle now: way w holds the block of a, ready from cycle c on.  It held it
\* before, or it is the way a miss replaces; no other way changes its block.  Way
\* w counts as used, except by an access that finds its block being fetched.
Works(ls, ms, a, w, c, g, now) ==
  LET i == Index(a)
  IN  /\ w \in Ways /\ c \in Nat /\ CachedAt(ms, a, w, c)
      /\ \/ CachedAt(ls, a, w, c)
         \/ /\ Holding(ls[i], Tag(a)) = {}
            /\ w = Victim(ls[i], g) /\ c = now + MissLatency
      /\ \A j \in Sets, v \in Ways : j # i \/ v # w => Kept(ms[j][v], ls[j][v])
      /\ \A j \in Sets, v \in Ways :
           ms[j][v].lru = IF j = i /\ ~ (CachedAt(ls, a, w, c) /\ c > now)
                          THEN Recency(ls[j], w, v) ELSE ls[j][v].lru

-----------------------------------------------------------------------------
(***************************************************************************)
(* One byte of an access.                                                  *)
(***************************************************************************)

\* A set after the line of way w has been replaced by k and w been used.
LEMMA UsedWay ==
  ASSUME NEW B, NEW set \in [Ways -> LineOf(B)], NEW w \in Ways,
         NEW k \in LineOf(B), k.lru = set[w].lru
  PROVE  LET s == UpdateLRU([set EXCEPT ![w] = k], w)
         IN  /\ Kept(s[w], k)
             /\ \A v \in Ways : /\ s[v] \in LineOf(B)
                                /\ s[v].lru = Recency(set, w, v)
                                /\ v # w => Kept(s[v], set[v])
  <1> DEFINE t == [set EXCEPT ![w] = k]
             s == UpdateLRU(t, w)
  <1>1. /\ t \in [Ways -> LineOf(B)] /\ t[w] = k
        /\ \A v \in Ways : t[v].lru = set[v].lru /\ (v # w => t[v] = set[v])
    OBVIOUS
  <1> HIDE DEF t
  <1>2. \A v \in Ways : s[v] \in LineOf(B)
    BY <1>1, UpdateLRUType
  <1>3. \A v \in Ways : SameBlock(s[v], t[v]) /\ s[v].cycleReady = t[v].cycleReady
    BY <1>1, UpdateLRUType
  <1>4. ASSUME NEW v \in Ways
        PROVE  s[v].lru = Recency(set, w, v)
    <2>1. s[v] = [t[v] EXCEPT !.lru = Recency(t, w, v)]
      BY DEF UpdateLRU, Recency
    <2>2. t[v] \in LineOf(B)
      BY <1>1
    <2>3. s[v].lru = Recency(t, w, v)
      BY <2>1, <2>2 DEF LineOf
    <2>4. Recency(t, w, v) = Recency(set, w, v)
      BY <1>1 DEF Recency
    <2> QED
      BY <2>3, <2>4
  <1> HIDE DEF s
  <1> QED
    BY <1>1, <1>2, <1>3, <1>4 DEF s, t, Kept, SameBlock

\* Lines that follow ls by the use of way w, which holds the block of a.
LEMMA UsedWorks ==
  ASSUME NEW ls, NEW ms, NEW a \in Nat, NEW w \in Ways, NEW c \in Nat, NEW g,
         NEW now \in Nat,
         \A j \in Sets, v \in Ways :
           /\ ms[j][v].lru = IF j = Index(a) THEN Recency(ls[j], w, v)
                                             ELSE ls[j][v].lru
           /\ j # Index(a) \/ v # w => Kept(ms[j][v], ls[j][v]),
         CachedAt(ms, a, w, c),
         \/ CachedAt(ls, a, w, c) /\ c <= now
         \/ /\ Holding(ls[Index(a)], Tag(a)) = {}
            /\ w = Victim(ls[Index(a)], g) /\ c = now + MissLatency
  PROVE  Works(ls, ms, a, w, c, g, now)
  <1>1. Index(a) \in Sets
    BY AddressFields
  <1>2. ~ (CachedAt(ls, a, w, c) /\ c > now)
    BY <1>1 DEF CachedAt, Holding
  <1> QED
    BY <1>1, <1>2 DEF Works

\* A miss uses the way it fills.
LEMMA MissUses ==
  ASSUME NEW B, NEW M \in Nat, NEW p \in CacheState(B, M), NEW a \in Nat,
         NEW g \in Nat, NEW u \in B
  PROVE  LET i == Index(a)
             w == Victim(p.lines[i], g)
             m == CacheMiss(p, a, Tag(a), g, u)
         IN  /\ w \in Ways /\ m.lines \in LinesOver(B)
             /\ m.lines[i][w].valid /\ m.lines[i][w].tag = Tag(a)
             /\ \A j \in Sets, v \in Ways :
                  /\ m.lines[j][v].lru = IF j = i THEN Recency(p.lines[j], w, v)
                                                  ELSE p.lines[j][v].lru
                  /\ j # i \/ v # w => Kept(m.lines[j][v], p.lines[j][v])
  <1> DEFINE i   == Index(a)
             w   == Victim(p.lines[i], g)
             m   == CacheMiss(p, a, Tag(a), g, u)
             old == p.lines[i][w]
             mem == IF old.dirty THEN WriteBack(p.mem, old.data, old.tag, i)
                                 ELSE p.mem
             new == [old EXCEPT !.data = ReadBlock(mem, BlockStart(a), u),
                                !.dirty = FALSE, !.valid = TRUE, !.tag = Tag(a)]
             set == UpdateLRU([p.lines[i] EXCEPT ![w] = new], w)
  <1>1. i \in Sets /\ Tag(a) \in Nat
    BY AddressFields
  <1>2. p.lines \in LinesOver(B) /\ p.mem \in [0 .. M - 1 -> B]
    BY DEF CacheState, LinesOver
  <1>3. p.lines[i] \in [Ways -> LineOf(B)] /\ w \in Ways
    BY <1>1, <1>2, VictimWay DEF LinesOver
  <1>4. old \in LineOf(B) /\ old.tag \in Nat /\ old.data \in [Offsets -> B]
    BY <1>1, <1>2, <1>3, LineParts
  <1>5. mem \in [0 .. M - 1 -> B]
    BY <1>1, <1>2, <1>4, WriteBackType
  <1>6. m.lines = [p.lines EXCEPT ![i] = set]
    BY DEF CacheMiss, CacheState
  <1> HIDE DEF mem, m, w
  <1>7. ReadBlock(mem, BlockStart(a), u) \in [Offsets -> B]
    BY <1>5 DEF ReadBlock
  <1>8. /\ new \in LineOf(B) /\ new.lru = old.lru
        /\ new.valid /\ new.tag = Tag(a)
    BY <1>1, <1>4, <1>7 DEF LineOf
  <1> HIDE DEF new
  <1>9. /\ Kept(set[w], new)
        /\ \A v \in Ways : /\ set[v] \in LineOf(B)
                           /\ set[v].lru = Recency(p.lines[i], w, v)
                           /\ v # w => Kept(set[v], p.lines[i][v])
    BY <1>3, <1>8, UsedWay
  <1>10. set = [v \in Ways |-> set[v]]
    BY DEF UpdateLRU
  <1> HIDE DEF set
  <1>11. \A j \in Sets, v \in Ways :
           m.lines[j][v] = IF j = i THEN set[v] ELSE p.lines[j][v]
    BY <1>1, <1>2, <1>6 DEF LinesOver
  <1>12. m.lines \in LinesOver(B)
    BY <1>1, <1>2, <1>6, <1>9, <1>10 DEF LinesOver
  <1>13. \A j \in Sets, v \in Ways :
           /\ m.lines[j][v].lru = IF j = i THEN Recency(p.lines[j], w, v)
                                           ELSE p.lines[j][v].lru
           /\ j # i \/ v # w => Kept(m.lines[j][v], p.lines[j][v])
    BY <1>9, <1>11 DEF Kept
  <1> QED
    BY <1>1, <1>3, <1>8, <1>9, <1>11, <1>12, <1>13 DEF m, w, Kept

\* Filling the way a miss took with the line k, ready after the latency.
LEMMA FillWorks ==
  ASSUME NEW B, NEW M \in Nat, NEW p \in CacheState(B, M), NEW a \in Nat,
         NEW g \in Nat, NEW u \in B, NEW now \in Nat, NEW k \in LineOf(B),
         Holding(p.lines[Index(a)], Tag(a)) = {},
         LET w == Victim(p.lines[Index(a)], g)
             l == CacheMiss(p, a, Tag(a), g, u).lines[Index(a)][w]
         IN  k.valid = l.valid /\ k.tag = l.tag /\ k.lru = l.lru,
         k.cycleReady = now + MissLatency
  PROVE  LET w == Victim(p.lines[Index(a)], g)
             m == CacheMiss(p, a, Tag(a), g, u)
         IN  Works(p.lines, PutLine(m.lines, Index(a), w, k), a, w,
                   now + MissLatency, g, now)
  <1> DEFINE i  == Index(a)
             w  == Victim(p.lines[i], g)
             m  == CacheMiss(p, a, Tag(a), g, u)
             ms == PutLine(m.lines, i, w, k)
             c  == now + MissLatency
  <1>1. i \in Sets /\ c \in Nat
    BY AddressFields, CacheAssumption
  <1>2. /\ w \in Ways /\ m.lines \in LinesOver(B)
        /\ m.lines[i][w].valid /\ m.lines[i][w].tag = Tag(a)
        /\ \A j \in Sets, v \in Ways :
             /\ m.lines[j][v].lru = IF j = i THEN Recency(p.lines[j], w, v)
                                             ELSE p.lines[j][v].lru
             /\ j # i \/ v # w => Kept(m.lines[j][v], p.lines[j][v])
    BY MissUses
  <1>3. /\ k.valid = m.lines[i][w].valid /\ k.tag = m.lines[i][w].tag
        /\ k.lru = m.lines[i][w].lru /\ k.cycleReady = c
    OBVIOUS
  <1>0. w = Victim(p.lines[i], g)
    OBVIOUS
  <1> HIDE DEF m, w
  <1>4. \A j \in Sets, v \in Ways :
          ms[j][v] = IF j = i /\ v = w THEN k ELSE m.lines[j][v]
    BY <1>1, <1>2, PutLineAt
  <1> HIDE DEF ms
  <1>5. \A j \in Sets, v \in Ways :
          /\ ms[j][v].lru = IF j = i THEN Recency(p.lines[j], w, v)
                                     ELSE p.lines[j][v].lru
          /\ j # i \/ v # w => Kept(ms[j][v], p.lines[j][v])
    BY <1>2, <1>3, <1>4 DEF Kept
  <1>6. CachedAt(ms, a, w, c)
    BY <1>1, <1>2, <1>3, <1>4 DEF CachedAt
  <1>7. Works(p.lines, ms, a, w, c, g, now)
    BY <1>0, <1>1, <1>2, <1>5, <1>6, UsedWorks
  <1> QED
    BY <1>7 DEF ms, m, w

\* An access that finds its block being fetched changes nothing.
LEMMA PendingWorks ==
  ASSUME NEW ls, NEW a, NEW w \in Ways, NEW c \in Nat, NEW g, NEW now \in Nat,
         CachedAt(ls, a, w, c), c > now
  PROVE  Works(ls, ls, a, w, c, g, now)
  BY DEF Works, Kept

\* An access that finds its block in way hit, and overwrites the rest of its
\* line by k.
LEMMA HitWorks ==
  ASSUME NEW B, NEW ls \in LinesOver(B), NEW a \in Nat, NEW w \in Ways,
         NEW c \in Nat, NEW g, NEW now \in Nat, CachedAt(ls, a, w, c), c <= now,
         NEW k \in LineOf(B), Kept(k, ls[Index(a)][w]),
         k.lru = ls[Index(a)][w].lru
  PROVE  Works(ls, [ls EXCEPT ![Index(a)] = UpdateLRU([@ EXCEPT ![w] = k], w)],
               a, w, c, g, now)
  <1> DEFINE i   == Index(a)
             set == UpdateLRU([ls[i] EXCEPT ![w] = k], w)
             ms  == [ls EXCEPT ![i] = set]
  <1>1. i \in Sets /\ ls[i] \in [Ways -> LineOf(B)]
    BY AddressFields DEF LinesOver
  <1>2. /\ Kept(set[w], k)
        /\ \A v \in Ways : /\ set[v].lru = Recency(ls[i], w, v)
                           /\ v # w => Kept(set[v], ls[i][v])
    BY <1>1, UsedWay
  <1> HIDE DEF set
  <1>3. \A j \in Sets, v \in Ways : ms[j][v] = IF j = i THEN set[v] ELSE ls[j][v]
    BY <1>1 DEF LinesOver
  <1> HIDE DEF ms
  <1>4. \A j \in Sets, v \in Ways :
          /\ ms[j][v].lru = IF j = i THEN Recency(ls[j], w, v) ELSE ls[j][v].lru
          /\ j # i \/ v # w => Kept(ms[j][v], ls[j][v])
    BY <1>2, <1>3 DEF Kept
  <1>5. CachedAt(ms, a, w, c)
    BY <1>1, <1>2, <1>3 DEF CachedAt, Kept
  <1>6. Works(ls, ms, a, w, c, g, now)
    BY <1>4, <1>5, UsedWorks
  <1> QED
    BY <1>6 DEF ms, set

\* A byte read works on one way of the set, and its delay is the one of the
\* block it finds or fetches.
LEMMA GetByteWorks ==
  ASSUME NEW B, NEW M \in Nat, NEW now \in Nat, NEW p, CacheOK(p, B, M, now),
         NEW a \in 0 .. M - 1, NEW g \in Nat, NEW u \in B
  PROVE  LET q == GetByte(p, a, now, g, u)
         IN  \E w \in Ways, c \in Nat : Works(p.lines, q.lines, a, w, c, g, now)
  <1> DEFINE i    == Index(a)
             held == Holding(p.lines[i], Tag(a))
             hit  == FirstWay(held)
             q    == GetByte(p, a, now, g, u)
  <1>1. /\ p \in CacheState(B, M) /\ p.lines \in LinesOver(B) /\ MissLatency \in Nat
    BY CacheParts
  <1>2. a \in Nat /\ i \in Sets /\ Offset(a) \in Offsets /\ Tag(a) \in Nat
    BY AddressFields
  <1>3. CASE held = {}
    <2> DEFINE w  == Victim(p.lines[i], g)
               m  == CacheMiss(p, a, Tag(a), g, u)
               l  == m.lines[i][w]
               k  == [l EXCEPT !.cycleReady = ReadyAt(now)]
               ls == PutLine(m.lines, i, w, k)
    <2>1. q = ReadMiss(p, a, now, g, u)
      BY ONLY <1>3 DEF GetByte
    <2>2. ReadMiss(p, a, now, g, u) =
            [m EXCEPT !.result = MissLatency, !.byte = l.data[Offset(a)], !.lines = ls]
      BY DEF ReadMiss, PutLine
    <2>3. w \in Ways /\ m.lines \in LinesOver(B) /\ m \in CacheState(B, M)
      <3>1. /\ OneCopy(p.lines) /\ CleanAgrees(p.lines, p.mem)
        BY CacheParts
      <3> QED
        BY <1>1, <1>2, <1>3, <3>1, MissFills, MissUses
    <2> HIDE DEF m, w, q
    <2>4. q.lines = ls
      BY <2>1, <2>2, <2>3 DEF CacheState
    <2>5. l \in LineOf(B)
      BY <1>2, <2>3, LineParts
    <2>6. /\ k \in LineOf(B) /\ k.valid = l.valid /\ k.tag = l.tag
          /\ k.lru = l.lru /\ k.cycleReady = now + MissLatency
      <3>1. ReadyAt(now) \in Nat /\ ReadyAt(now) = now + MissLatency
        BY <1>1 DEF ReadyAt
      <3> QED
        BY <2>5, <3>1 DEF LineOf
    <2> HIDE DEF k
    <2>7. Works(p.lines, ls, a, w, now + MissLatency, g, now)
      BY <1>1, <1>2, <1>3, <2>6, FillWorks DEF m, w
    <2> HIDE DEF ls
    <2> QED
      BY <1>1, <2>3, <2>4, <2>7 DEF q
  <1>4. CASE held # {}
    <2>1. hit \in Ways /\ p.lines[i][hit].valid /\ p.lines[i][hit].tag = Tag(a)
      BY <1>4, FirstWayIn DEF Holding
    <2> HIDE DEF hit
    <2> DEFINE c == p.lines[i][hit].cycleReady
    <2>2. c \in Nat /\ CachedAt(p.lines, a, hit, c)
      BY <1>1, <1>2, <2>1, LineParts DEF CachedAt
    <2>3. CASE ~ Ready(p.lines[i][hit], now)
      <3>1. q = ReadPending(p, u)
        BY ONLY <1>4, <2>3 DEF GetByte, hit
      <3>2. ReadPending(p, u).lines = p.lines
        BY <1>1 DEF ReadPending, CacheState
      <3>3. c > now
        BY <2>2, <2>3 DEF Ready
      <3> QED
        BY <2>1, <2>2, <3>1, <3>2, <3>3, PendingWorks
    <2>4. CASE Ready(p.lines[i][hit], now)
      <3> DEFINE k  == p.lines[i][hit]
                 ls == [p.lines EXCEPT ![i] = UpdateLRU([@ EXCEPT ![hit] = k], hit)]
      <3>1. q = ReadHit(p, a, hit)
        BY ONLY <1>4, <2>4 DEF GetByte, hit
      <3>2. ReadHit(p, a, hit).lines = ls
        <4>1. [p.lines[i] EXCEPT ![hit] = k] = p.lines[i]
          BY <1>1, <1>2, <2>1 DEF LinesOver
        <4> QED
          BY <1>1, <1>2, <4>1 DEF ReadHit, CacheState
      <3>3. c <= now /\ k \in LineOf(B) /\ Kept(k, k)
        BY <1>1, <1>2, <2>1, <2>4, LineParts DEF Ready, Kept
      <3>4. Works(p.lines, ls, a, hit, c, g, now)
        BY <1>1, <1>2, <2>1, <2>2, <3>3, HitWorks
      <3> QED
        BY <2>1, <2>2, <3>1, <3>2, <3>4
    <2> QED
      BY <2>3, <2>4
  <1> QED
    BY <1>3, <1>4

\* The same for a byte write to a block whose tag is the one stores use.
LEMMA SetByteWorks ==
  ASSUME NEW B, NEW M \in Nat, NEW now \in Nat, NEW p, CacheOK(p, B, M, now),
         NEW a \in 0 .. M - 1, StoreTag(a) = Tag(a), NEW b \in B,
         NEW g \in Nat, NEW u \in B
  PROVE  LET q == SetByte(p, a, b, now, g, u)
         IN  \E w \in Ways, c \in Nat : Works(p.lines, q.lines, a, w, c, g, now)
  <1> DEFINE i    == Index(a)
             o    == Offset(a)
             held == Holding(p.lines[i], Tag(a))
             hit  == FirstWay(held)
             q    == SetByte(p, a, b, now, g, u)
  <1>1. /\ p \in CacheState(B, M) /\ p.lines \in LinesOver(B) /\ MissLatency \in Nat
    BY CacheParts
  <1>2. a \in Nat /\ i \in Sets /\ o \in Offsets /\ Tag(a) \in Nat
    BY AddressFields
  <1>3. CASE held = {}
    <2> DEFINE w  == Victim(p.lines[i], g)
               m  == CacheMiss(p, a, Tag(a), g, u)
               l  == m.lines[i][w]
               k  == [l EXCEPT !.data[o] = b, !.dirty = TRUE,
                               !.cycleReady = ReadyAt(now)]
               ls == PutLine(m.lines, i, w, k)
    <2>1. q = WriteMiss(p, a, b, now, g, u)
      BY <1>3 DEF SetByte
    <2>2. WriteMiss(p, a, b, now, g, u) = [m EXCEPT !.result = MissLatency, !.lines = ls]
      BY ONLY StoreTag(a) = Tag(a) DEF WriteMiss, PutLine
    <2>3. w \in Ways /\ m.lines \in LinesOver(B) /\ m \in CacheState(B, M)
      <3>1. OneCopy(p.lines) /\ CleanAgrees(p.lines, p.mem)
        BY CacheParts
      <3> QED
        BY <1>1, <1>2, <1>3, <3>1, MissFills, MissUses
    <2> HIDE DEF m, w, q
    <2>4. q.lines = ls
      BY <2>1, <2>2, <2>3 DEF CacheState
    <2>5. l \in LineOf(B) /\ l.data \in [Offsets -> B]
      BY <1>2, <2>3, LineParts
    <2>6. /\ k \in LineOf(B) /\ k.valid = l.valid /\ k.tag = l.tag
          /\ k.lru = l.lru /\ k.cycleReady = now + MissLatency
      <3>1. ReadyAt(now) \in Nat /\ ReadyAt(now) = now + MissLatency
        BY <1>1 DEF ReadyAt
      <3>2. [l.data EXCEPT ![o] = b] \in [Offsets -> B]
        BY <2>5
      <3> QED
        BY ONLY <2>5, <3>1, <3>2 DEF LineOf
    <2> HIDE DEF k
    <2>7. Works(p.lines, ls, a, w, now + MissLatency, g, now)
      BY <1>1, <1>2, <1>3, <2>6, FillWorks DEF m, w
    <2> HIDE DEF ls
    <2> QED
      BY <1>1, <2>3, <2>4, <2>7 DEF q
  <1>4. CASE held # {}
    <2>1. hit \in Ways /\ p.lines[i][hit].valid /\ p.lines[i][hit].tag = Tag(a)
      BY <1>4, FirstWayIn DEF Holding
    <2> DEFINE l == p.lines[i][hit]
               c == l.cycleReady
    <2>2. CASE ~ Ready(l, now)
      <3>1. q = WritePending(p)
        BY <1>4, <2>2 DEF SetByte
      <3> HIDE DEF hit, q
      <3>2. WritePending(p).lines = p.lines
        BY <1>1 DEF WritePending, CacheState
      <3>3. c \in Nat /\ CachedAt(p.lines, a, hit, c)
        BY <1>1, <1>2, <2>1, LineParts DEF CachedAt
      <3>4. c > now
        BY <2>2, <3>3 DEF Ready
      <3> QED
        BY <2>1, <3>1, <3>2, <3>3, <3>4, PendingWorks DEF q
    <2>3. CASE Ready(l, now)
      <3> DEFINE k  == [l EXCEPT !.data[o] = b, !.dirty = TRUE]
                 ls == [p.lines EXCEPT ![i] = UpdateLRU([@ EXCEPT ![hit] = k], hit)]
      <3>1. q = WriteHit(p, a, b, hit)
        BY <1>4, <2>3 DEF SetByte
      <3> HIDE DEF hit, q
      <3>2. /\ c \in Nat /\ CachedAt(p.lines, a, hit, c)
            /\ l \in LineOf(B) /\ l.data \in [Offsets -> B]
        BY <1>1, <1>2, <2>1, LineParts DEF CachedAt
      <3>3. k \in LineOf(B) /\ Kept(k, l) /\ k.lru = l.lru
        <4>1. [l.data EXCEPT ![o] = b] \in [Offsets -> B]
          BY <3>2
        <4> QED
          BY ONLY <3>2, <4>1 DEF LineOf, Kept
      <3>4. WriteHit(p, a, b, hit).lines = ls
        <4>1. [p.lines[i] EXCEPT ![hit].data[o] = b, ![hit].dirty = TRUE] =
                [p.lines[i] EXCEPT ![hit] = k]
          BY <1>1, <1>2, <2>1, <3>2 DEF LinesOver
        <4> QED
          BY <1>1, <4>1 DEF WriteHit, CacheState
      <3> HIDE DEF k
      <3>5. c <= now
        BY <2>3 DEF Ready
      <3>6. Works(p.lines, ls, a, hit, c, g, now)
        BY <1>1, <1>2, <2>1, <3>2, <3>3, <3>5, HitWorks
      <3> QED
        BY <2>1, <3>1, <3>2, <3>4, <3>6 DEF q
    <2> QED
      BY <2>2, <2>3
  <1> QED
    BY <1>3, <1>4

-----------------------------------------------------------------------------
(***************************************************************************)
(* Whole accesses that stay in one block.                                  *)
(***************************************************************************)

\* Using a way twice in a row is using it once.
LEMMA UsedTwice ==
  ASSUME NEW B, NEW ls, NEW ms \in LinesOver(B), NEW i \in Sets, NEW w \in Ways,
         \A v \in Ways : ms[i][v].lru = Recency(ls[i], w, v)
  PROVE  \A v \in Ways : Recency(ms[i], w, v) = Recency(ls[i], w, v)
  <1> SUFFICES ASSUME NEW v \in Ways
               PROVE  Recency(ms[i], w, v) = Recency(ls[i], w, v)
    OBVIOUS
  <1>1. ms[i][v].lru \in 0 .. Assoc - 1 /\ Assoc \in {1, 2}
    BY LineParts, WaysTwoOrOne
  <1>2. ms[i][w].lru = Assoc - 1
    BY DEF Recency
  <1>3. CASE v = w
    BY <1>3 DEF Recency
  <1>4. CASE v # w
    <2>1. ~ (ms[i][v].lru > ms[i][w].lru)
      BY <1>1, <1>2
    <2>2. Recency(ms[i], w, v) = ms[i][v].lru
      BY <1>4, <2>1 DEF Recency
    <2> QED
      BY <2>2
  <1> QED
    BY <1>3, <1>4

\* The bytes of an access that follow its first one work on the same way.
LEMMA WorksOn ==
  ASSUME NEW B, NEW ls, NEW ms \in LinesOver(B), NEW ns, OneCopy(ms),
         NEW a \in Nat, NEW x, Index(x) = Index(a), Tag(x) = Tag(a),
         NEW w, NEW v, NEW c, NEW d, NEW g, NEW now \in Nat,
         Works(ls, ms, a, w, c, g, now), Works(ms, ns, x, v, d, g, now)
  PROVE  v = w /\ d = c /\ Works(ls, ns, a, w, c, g, now)
  <1> DEFINE i == Index(a)
  <1>1. i \in Sets
    BY AddressFields
  <1>2. /\ w \in Ways /\ c \in Nat /\ CachedAt(ms, a, w, c)
        /\ v \in Ways /\ d \in Nat /\ CachedAt(ns, x, v, d)
    BY DEF Works
  <1>3. CachedAt(ms, x, v, d)
    <2>1. Holding(ms[i], Tag(x)) # {}
      BY <1>2 DEF Holding, CachedAt
    <2> QED
      BY <2>1 DEF Works
  <1>4. v = w /\ d = c
    BY <1>1, <1>2, <1>3 DEF CachedAt, OneCopy
  <1>5. CachedAt(ns, a, w, c)
    BY <1>2, <1>4 DEF CachedAt
  <1>6. \A j \in Sets, y \in Ways : j # i \/ y # w => Kept(ns[j][y], ls[j][y])
    BY <1>4 DEF Works, Kept
  <1>7. ASSUME NEW j \in Sets, NEW y \in Ways
        PROVE  ns[j][y].lru = IF j = i /\ ~ (CachedAt(ls, a, w, c) /\ c > now)
                              THEN Recency(ls[j], w, y) ELSE ls[j][y].lru
    <2>1. ns[j][y].lru = IF j = i /\ ~ (c > now)
                         THEN Recency(ms[j], w, y) ELSE ms[j][y].lru
      BY <1>3, <1>4 DEF Works
    <2>2. \A z \in Ways :
            ms[j][z].lru = IF j = i /\ ~ (CachedAt(ls, a, w, c) /\ c > now)
                           THEN Recency(ls[j], w, z) ELSE ls[j][z].lru
      BY DEF Works
    <2>3. CASE j = i /\ ~ (c > now)
      <3>1. \A z \in Ways : ms[i][z].lru = Recency(ls[i], w, z)
        BY <2>2, <2>3
      <3>2. Recency(ms[i], w, y) = Recency(ls[i], w, y)
        BY <1>1, <1>2, <3>1, UsedTwice
      <3> QED
        BY <2>1, <2>3, <3>2
    <2>4. CASE ~ (j = i /\ ~ (c > now))
      BY <2>1, <2>2, <2>4
    <2> QED
      BY <2>3, <2>4
  <1> QED
    BY <1>2, <1>4, <1>5, <1>6, <1>7 DEF Works

\* How the cache q follows p when an access to a in cycle now worked on way w,
\* with the delay the readiness c of the block leaves.
Worked(q, p, a, w, c, g, B, M, now) ==
  /\ CacheOK(q, B, M, now) /\ q.result = Delay(c, now)
  /\ Works(p.lines, q.lines, a, w, c, g, now)

\* The delay of a byte is the one of the block it works on.
LEMMA WorkedDelay ==
  ASSUME NEW B, NEW M, NEW now, NEW p, NEW q, NEW ls, NEW a \in Nat,
         NEW x, Index(x) = Index(a), Tag(x) = Tag(a), NEW w, NEW c, NEW g,
         CacheOK(q, B, M, now), Fetches(ls, q, x, now),
         Works(p.lines, q.lines, a, w, c, g, now)
  PROVE  Worked(q, p, a, w, c, g, B, M, now)
  <1>1. Index(a) \in Sets
    BY AddressFields
  <1>2. PICK v \in Ways, d \in Nat : CachedAt(q.lines, x, v, d) /\ q.result = Delay(d, now)
    BY DEF Fetches, Delay
  <1>3. w \in Ways /\ CachedAt(q.lines, a, w, c) /\ OneCopy(q.lines)
    BY DEF Works, CacheOK
  <1>4. d = c
    BY <1>1, <1>2, <1>3 DEF CachedAt, OneCopy
  <1> QED
    BY <1>2, <1>4 DEF Worked

\* A further byte of an access, by the cache q after it.
LEMMA WorkedOn ==
  ASSUME NEW B, NEW M \in Nat, NEW now \in Nat, NEW p, NEW b, NEW q, NEW a \in Nat,
         NEW x, Index(x) = Index(a), Tag(x) = Tag(a), NEW w, NEW c, NEW g,
         Worked(b, p, a, w, c, g, B, M, now),
         CacheOK(q, B, M, now), Fetches(b.lines, q, x, now),
         \E v \in Ways, d \in Nat : Works(b.lines, q.lines, x, v, d, g, now)
  PROVE  Worked(q, p, a, w, c, g, B, M, now)
  <1>1. CacheOK(b, B, M, now) /\ Works(p.lines, b.lines, a, w, c, g, now)
    BY DEF Worked
  <1>2. b.lines \in LinesOver(B) /\ OneCopy(b.lines)
    BY <1>1, CacheParts
  <1>3. PICK v \in Ways, d \in Nat : Works(b.lines, q.lines, x, v, d, g, now)
    OBVIOUS
  <1>4. Works(p.lines, q.lines, a, w, c, g, now)
    BY <1>1, <1>2, <1>3, WorksOn
  <1> QED
    BY <1>4, WorkedDelay

\* Counting an access moves no line.
LEMMA CountWorked ==
  ASSUME NEW B, NEW M \in Nat, NEW now \in Nat, NEW p, NEW b, NEW f, NEW a, NEW w,
         NEW c, NEW g, Worked(b, p, a, w, c, g, B, M, now)
  PROVE  Worked(Count(b, f), p, a, w, c, g, B, M, now)
  <1> DEFINE q == Count(b, f)
  <1>1. CacheOK(q, B, M, now) /\ Counted(q, b, f)
    BY CountKeeps DEF Worked
  <1> HIDE DEF q
  <1>2. Worked(q, p, a, w, c, g, B, M, now)
    BY <1>1 DEF Worked, Counted
  <1> QED
    BY <1>2 DEF q

\* A load in one block works on one way of its set.
LEMMA GetValueWorks ==
  ASSUME NEW B, NEW M, NEW now \in Nat, NEW p, CacheOK(p, B, M, now),
         NEW a, NEW n, AccessIn(a, n, M), NEW g \in Nat, NEW u \in B
  PROVE  \E w \in Ways, c \in Nat :
           Worked(GetCacheValue(p, a, n, now, g, u).cache, p, a, w, c, g, B, M, now)
  <1> a \in Nat /\ M \in Nat /\ n \in {1, 2, 4}
    BY DEF AccessIn
  <1> DEFINE b1 == GetByte(p, a, now, g, u)
             b2 == GetByte(b1, a + 1, now, g, u)
             b3 == GetByte(b2, a + 2, now, g, u)
             b4 == GetByte(b3, a + 3, now, g, u)
             r  == GetCacheValue(p, a, n, now, g, u)
             last == CASE n = 1 -> b1 [] n = 2 -> b2 [] n = 4 -> b4
  <1>1. /\ Offset(a) \in Nat /\ a \in 0 .. M - 1
        /\ n # 1 => Offset(a) + 1 < BlockSize /\ a + 1 \in 0 .. M - 1
        /\ n = 4 => Offset(a) + 2 < BlockSize /\ a + 2 \in 0 .. M - 1
        /\ n = 4 => Offset(a) + 3 < BlockSize /\ a + 3 \in 0 .. M - 1
    BY AccessInBlock
  <1>2. CacheOK(b1, B, M, now) /\ Fetches(p.lines, b1, a, now)
    BY <1>1, GetByteKeeps
  <1>3. \E w \in Ways, c \in Nat : Works(p.lines, b1.lines, a, w, c, g, now)
    BY <1>1, GetByteWorks
  <1>7. r.cache = Count(last, b1)
    BY DEF GetCacheValue
  <1> HIDE DEF b1, b2, b3, b4, r
  <1> DEFINE Good(b, w, c) == Worked(b, p, a, w, c, g, B, M, now)
  <1>4. PICK w \in Ways, c \in Nat : Good(b1, w, c)
    BY <1>2, <1>3, WorkedDelay
  <1>5. ASSUME NEW b, Good(b, w, c), NEW k \in 1 .. 3,
               Offset(a) + k < BlockSize, a + k \in 0 .. M - 1
        PROVE  Good(GetByte(b, a + k, now, g, u), w, c)
    <2> DEFINE x == a + k
               q == GetByte(b, x, now, g, u)
    <2>1. Index(x) = Index(a) /\ Tag(x) = Tag(a) /\ CacheOK(b, B, M, now)
      BY <1>5, SameBlockAddr DEF Worked
    <2>2. CacheOK(q, B, M, now) /\ Fetches(b.lines, q, x, now)
      BY <1>5, <2>1, GetByteKeeps
    <2>3. \E v \in Ways, d \in Nat : Works(b.lines, q.lines, x, v, d, g, now)
      BY <1>5, <2>1, GetByteWorks
    <2> HIDE DEF x, q
    <2>4. Good(q, w, c)
      BY <1>5, <2>1, <2>2, <2>3, WorkedOn
    <2> QED
      BY <2>4 DEF x, q
  <1> HIDE DEF Good
  <1>6. Good(last, w, c)
    <2>1. n # 1 => Good(b2, w, c)
      BY <1>1, <1>4, <1>5 DEF b2
    <2>2. n = 4 => Good(b3, w, c)
      BY <1>1, <1>5, <2>1 DEF b3
    <2>3. n = 4 => Good(b4, w, c)
      BY <1>1, <1>5, <2>2 DEF b4
    <2> QED
      BY <1>4, <2>1, <2>2, <2>3
  <1> HIDE DEF last
  <1>8. Good(r.cache, w, c)
    BY <1>6, <1>7, CountWorked DEF Good
  <1> QED
    BY <1>8 DEF Good, r

\* The same for a store to a block whose tag is the one stores use.
LEMMA SetValueWorks ==
  ASSUME NEW B, NEW M, NEW now \in Nat, NEW p, CacheOK(p, B, M, now),
         NEW a, NEW n, AccessIn(a, n, M), StoreTag(a) = Tag(a),
         NEW v \in [1 .. n -> B], NEW g \in Nat, NEW u \in B
  PROVE  \E w \in Ways, c \in Nat :
           Worked(SetCacheValue(p, a, v, now, g, u), p, a, w, c, g, B, M, now)
  <1> a \in Nat /\ M \in Nat /\ n \in {1, 2, 4}
    BY DEF AccessIn
  <1> DEFINE b1 == SetByte(p, a, v[1], now, g, u)
             b2 == SetByte(b1, a + 1, v[2], now, g, u)
             b3 == SetByte(b2, a + 2, v[3], now, g, u)
             b4 == SetByte(b3, a + 3, v[4], now, g, u)
             r  == SetCacheValue(p, a, v, now, g, u)
             last == CASE n = 1 -> b1 [] n = 2 -> b2 [] n = 4 -> b4
  <1>1. /\ Offset(a) \in Nat /\ a \in 0 .. M - 1
        /\ n # 1 => Offset(a) + 1 < BlockSize /\ a + 1 \in 0 .. M - 1
        /\ n = 4 => Offset(a) + 2 < BlockSize /\ a + 2 \in 0 .. M - 1
        /\ n = 4 => Offset(a) + 3 < BlockSize /\ a + 3 \in 0 .. M - 1
    BY AccessInBlock
  <1>9. /\ v[1] \in B /\ (n # 1 => v[2] \in B)
        /\ n = 4 => v[3] \in B /\ v[4] \in B
    BY ONLY n \in {1, 2, 4}, v \in [1 .. n -> B]
  <1>10. Len(v) = n
    <2>1. v \in Seq(B) /\ DOMAIN v = 1 .. n /\ n \in Nat
      BY ONLY n \in {1, 2, 4}, v \in [1 .. n -> B]
    <2> QED
      BY ONLY <2>1
  <1>7. r = Count(last, b1)
    BY <1>10 DEF SetCacheValue
  <1> HIDE DEF b2, b3, b4, r
  <1>2. CacheOK(b1, B, M, now) /\ Fetches(p.lines, b1, a, now)
    BY <1>1, <1>9, SetByteKeeps
  <1>3. \E w \in Ways, c \in Nat : Works(p.lines, b1.lines, a, w, c, g, now)
    BY <1>1, <1>9, SetByteWorks
  <1> HIDE DEF b1
  <1> DEFINE Good(b, w, c) == Worked(b, p, a, w, c, g, B, M, now)
  <1>4. PICK w \in Ways, c \in Nat : Good(b1, w, c)
    BY <1>2, <1>3, WorkedDelay
  <1>5. ASSUME NEW b, Good(b, w, c), NEW k \in 1 .. 3, NEW y \in B,
               Offset(a) + k < BlockSize, a + k \in 0 .. M - 1
        PROVE  Good(SetByte(b, a + k, y, now, g, u), w, c)
    <2> DEFINE x == a + k
               q == SetByte(b, x, y, now, g, u)
    <2>1. /\ Index(x) = Index(a) /\ Tag(x) = Tag(a) /\ StoreTag(x) = Tag(x)
          /\ CacheOK(b, B, M, now)
      BY <1>5, SameBlockAddr DEF Worked, StoreTag
    <2>2. CacheOK(q, B, M, now) /\ Fetches(b.lines, q, x, now)
      BY <1>5, <2>1, SetByteKeeps
    <2>3. \E z \in Ways, d \in Nat : Works(b.lines, q.lines, x, z, d, g, now)
      BY <1>5, <2>1, SetByteWorks
    <2> HIDE DEF x, q
    <2>4. Good(q, w, c)
      BY <1>5, <2>1, <2>2, <2>3, WorkedOn
    <2> QED
      BY <2>4 DEF x, q
  <1> HIDE DEF Good
  <1>6. Good(last, w, c)
    <2>1. n # 1 => Good(b2, w, c)
      BY <1>1, <1>4, <1>5, <1>9 DEF b2
    <2>2. n = 4 => Good(b3, w, c)
      BY <1>1, <1>5, <1>9, <2>1 DEF b3
    <2>3. n = 4 => Good(b4, w, c)
      BY <1>1, <1>5, <1>9, <2>2 DEF b4
    <2> QED
      BY <1>4, <2>1, <2>2, <2>3
  <1> HIDE DEF last
  <1>8. Good(r, w, c)
    BY <1>6, <1>7, CountWorked DEF Good
  <1> QED
    BY <1>8 DEF Good, r

-----------------------------------------------------------------------------
(***************************************************************************)
(* An access and, where it reports a delay, its repetition after the delay. *)
(***************************************************************************)

\* No block is being fetched.
AllReady(ls, now) == \A i \in Sets, w \in Ways : ls[i][w].cycleReady <= now

\* How lines ms follow lines ls when an access to a was served by way w: w held
\* the block or was the victim, no other way changed its block, w counts as used.
Turns(ls, ms, a, w, g) ==
  LET i == Index(a)
  IN  /\ w \in Ways /\ ms[i][w].valid /\ ms[i][w].tag = Tag(a)
      /\ \/ ls[i][w].valid /\ ls[i][w].tag = Tag(a)
         \/ w = Victim(ls[i], g)
      /\ \A j \in Sets, v \in Ways :
           /\ ms[j][v].lru = IF j = i THEN Recency(ls[j], w, v) ELSE ls[j][v].lru
           /\ j # i \/ v # w => /\ ms[j][v].valid = ls[j][v].valid
                                /\ ms[j][v].tag = ls[j][v].tag

\* One of the two counters of q is one more than that of p, modulo their width.
CountsOne(q, p) ==
  \/ q.hits = (p.hits + 1) % CounterMod /\ q.misses = p.misses
  \/ q.hits = p.hits /\ q.misses = (p.misses + 1) % CounterMod

\* The cache q in which an access to a of the cache p was answered in cycle now.
Answers(q, p, a, g, B, M, now) ==
  /\ CacheOK(q, B, M, now) /\ q.result = 0 /\ AllReady(q.lines, now)
  /\ CountsOne(q, p)
  /\ \E w \in Ways : Turns(p.lines, q.lines, a, w, g)

\* A first try that reports no delay.
LEMMA FirstAnswers ==
  ASSUME NEW B, NEW M \in Nat, NEW now \in Nat, NEW p, CacheOK(p, B, M, now),
         AllReady(p.lines, now), NEW q, NEW a \in Nat, NEW w, NEW c, NEW g,
         Worked(q, p, a, w, c, g, B, M, now), q.result = 0
  PROVE  /\ AllReady(q.lines, now) /\ Turns(p.lines, q.lines, a, w, g)
  <1>1. /\ CacheOK(q, B, M, now) /\ Works(p.lines, q.lines, a, w, c, g, now)
        /\ q.result = Delay(c, now) /\ w \in Ways /\ c \in Nat
    BY DEF Worked, Works
  <1>2. /\ Index(a) \in Sets /\ MissLatency \in Nat
        /\ p.lines \in LinesOver(B) /\ q.lines \in LinesOver(B)
    BY <1>1, AddressFields, CacheParts
  <1>3. c <= now
    <2>1. CachedAt(p.lines, a, w, c) => c <= now
      BY <1>1, <1>2 DEF AllReady, CachedAt
    <2>2. CachedAt(p.lines, a, w, c) \/ c = now + MissLatency
      BY <1>1 DEF Works
    <2> QED
      BY <1>1, <1>2, <2>1, <2>2 DEF Delay
  <1>4. AllReady(q.lines, now)
    <2> SUFFICES ASSUME NEW j \in Sets, NEW v \in Ways
                 PROVE  q.lines[j][v].cycleReady <= now
      BY DEF AllReady
    <2>1. CASE j = Index(a) /\ v = w
      BY <1>1, <1>3, <2>1 DEF Works, CachedAt
    <2>2. CASE ~ (j = Index(a) /\ v = w)
      BY <1>1, <2>2 DEF Works, Kept, AllReady
    <2> QED
      BY <2>1, <2>2
  <1>5. Turns(p.lines, q.lines, a, w, g)
    <2>1. ~ (c > now)
      BY <1>1, <1>3
    <2> QED
      BY <1>1, <2>1 DEF Works, Turns, Kept, CachedAt
  <1> QED
    BY <1>4, <1>5

\* A first try that reports a delay, and the one after it: the block it fetched
\* is the one the second finds, just ready.
LEMMA SecondAnswers ==
  ASSUME NEW B, NEW M \in Nat, NEW now \in Nat, NEW p, CacheOK(p, B, M, now),
         AllReady(p.lines, now), NEW q, NEW a \in Nat, NEW w, NEW c, NEW g,
         Worked(q, p, a, w, c, g, B, M, now), q.result # 0,
         NEW s, NEW v, NEW d,
         Worked(s, q, a, v, d, g, B, M, now + MissLatency)
  PROVE  /\ s.result = 0 /\ AllReady(s.lines, now + MissLatency)
         /\ Turns(p.lines, s.lines, a, w, g)
  <1> DEFINE i   == Index(a)
             fin == now + MissLatency
  <1>1. /\ CacheOK(q, B, M, now) /\ Works(p.lines, q.lines, a, w, c, g, now)
        /\ q.result = Delay(c, now) /\ w \in Ways /\ c \in Nat
        /\ CachedAt(q.lines, a, w, c)
    BY DEF Worked, Works
  <1>2. /\ Works(q.lines, s.lines, a, v, d, g, fin) /\ CacheOK(s, B, M, fin)
        /\ s.result = Delay(d, fin) /\ v \in Ways /\ d \in Nat
        /\ CachedAt(s.lines, a, v, d)
    BY DEF Worked, Works
  <1>3. /\ i \in Sets /\ MissLatency \in Nat /\ fin \in Nat
        /\ p.lines \in LinesOver(B) /\ q.lines \in LinesOver(B)
        /\ s.lines \in LinesOver(B) /\ OneCopy(q.lines)
    <2>1. i \in Sets /\ MissLatency \in Nat /\ fin \in Nat
      BY AddressFields, CacheAssumption
    <2> QED
      BY <1>1, <1>2, <2>1, CacheParts
  <1>4. c > now
    BY <1>1 DEF Delay
  <1>5. ~ CachedAt(p.lines, a, w, c)
    BY <1>1, <1>3, <1>4 DEF AllReady, CachedAt
  <1>6. Holding(p.lines[i], Tag(a)) = {} /\ w = Victim(p.lines[i], g) /\ c = fin
    BY <1>1, <1>5 DEF Works
  <1>7. CachedAt(q.lines, a, v, d)
    <2>1. Holding(q.lines[i], Tag(a)) # {}
      BY <1>1 DEF Holding, CachedAt
    <2> QED
      BY <1>2, <2>1 DEF Works
  <1>8. v = w /\ d = fin
    BY <1>1, <1>2, <1>3, <1>6, <1>7 DEF CachedAt, OneCopy
  <1>9. s.result = 0
    BY <1>2, <1>3, <1>8 DEF Delay
  <1>10. AllReady(s.lines, fin)
    <2> SUFFICES ASSUME NEW j \in Sets, NEW y \in Ways
                 PROVE  s.lines[j][y].cycleReady <= fin
      BY DEF AllReady
    <2>1. CASE j = i /\ y = w
      BY <1>2, <1>3, <1>8, <2>1 DEF CachedAt
    <2>2. CASE ~ (j = i /\ y = w)
      <3>1. s.lines[j][y].cycleReady = p.lines[j][y].cycleReady
        BY <1>1, <1>2, <1>8, <2>2 DEF Works, Kept
      <3>2. p.lines[j][y].cycleReady <= now /\ p.lines[j][y].cycleReady \in Nat
        BY <1>3, LineParts DEF AllReady
      <3> QED
        BY <1>3, <3>1, <3>2
    <2> QED
      BY <2>1, <2>2
  <1>11. Turns(p.lines, s.lines, a, w, g)
    <2>1. \A j \in Sets, y \in Ways :
            q.lines[j][y].lru = IF j = i THEN Recency(p.lines[j], w, y)
                                ELSE p.lines[j][y].lru
      BY <1>1, <1>5 DEF Works
    <2>2. \A j \in Sets, y \in Ways :
            s.lines[j][y].lru = IF j = i THEN Recency(q.lines[j], w, y)
                                ELSE q.lines[j][y].lru
      <3>1. ~ (d > fin)
        BY <1>3, <1>8
      <3> QED
        BY <1>2, <1>8, <3>1 DEF Works
    <2>3. \A y \in Ways : Recency(q.lines[i], w, y) = Recency(p.lines[i], w, y)
      <3> DEFINE ls == p.lines
                 ms == q.lines
      <3>1. /\ ms \in LinesOver(B) /\ i \in Sets /\ w \in Ways
            /\ \A y \in Ways : ms[i][y].lru = Recency(ls[i], w, y)
        BY <1>1, <1>3, <2>1
      <3> HIDE DEF ls, ms, i
      <3>2. \A y \in Ways : Recency(ms[i], w, y) = Recency(ls[i], w, y)
        BY <3>1, UsedTwice
      <3> QED
        BY <3>2 DEF ls, ms
    <2>4. \A j \in Sets, y \in Ways : j # i \/ y # w =>
            /\ s.lines[j][y].valid = p.lines[j][y].valid
            /\ s.lines[j][y].tag = p.lines[j][y].tag
      BY <1>1, <1>2, <1>8 DEF Works, Kept
    <2> QED
      BY <1>1, <1>2, <1>6, <1>8, <2>1, <2>2, <2>3, <2>4 DEF Turns, CachedAt
  <1> QED
    BY <1>9, <1>10, <1>11

\* A miss counts a hit down, its repetition counts it up again.
LEMMA MissThenHit ==
  ASSUME NEW C \in Nat \ {0}, NEW h \in 0 .. C - 1
  PROVE  (((h - 1) % C) + 1) % C = h
  <1>1. (h - 1) % C = IF h = 0 THEN C - 1 ELSE h - 1
    OBVIOUS
  <1>2. ASSUME NEW x \in 0 .. C - 1
        PROVE  (x + 1) % C = IF x = C - 1 THEN 0 ELSE x + 1
    OBVIOUS
  <1>3. (h - 1) % C \in 0 .. C - 1
    BY <1>1
  <1> QED
    BY <1>1, <1>2, <1>3

LEMMA LaterOK ==
  ASSUME NEW B, NEW M \in Nat, NEW now \in Nat, NEW p, CacheOK(p, B, M, now),
         NEW k \in Nat
  PROVE  CacheOK(p, B, M, now + k)
  <1>1. MissLatency \in Nat /\ p.lines \in LinesOver(B)
    BY CacheParts
  <1>2. ReadyBound(p.lines, now + k)
    <2> SUFFICES ASSUME NEW i \in Sets, NEW w \in Ways
                 PROVE  p.lines[i][w].cycleReady <= (now + k) + MissLatency
      BY DEF ReadyBound
    <2>1. /\ p.lines[i][w].cycleReady \in Nat
          /\ p.lines[i][w].cycleReady <= now + MissLatency
      BY <1>1, LineParts DEF CacheOK, ReadyBound
    <2> QED
      BY <1>1, <2>1
  <1> QED
    BY <1>2 DEF CacheOK

\* A load is answered at its second try at the latest, with the bytes the
\* program sees, and changes nothing of what it sees.
LEMMA LoadAnswers ==
  ASSUME NEW B, NEW M, NEW now \in Nat, NEW p, CacheOK(p, B, M, now),
         AllReady(p.lines, now), NEW a, NEW n, AccessIn(a, n, M),
         NEW g \in Nat, NEW u \in B
  PROVE  LET r == GetCacheValue(p, a, n, now, g, u)
             s == GetCacheValue(r.cache, a, n, now + MissLatency, g, u)
             V == View(p.lines, p.mem)
             Read(t, fin) == /\ Answers(t.cache, p, a, g, B, M, fin)
                             /\ View(t.cache.lines, t.cache.mem) = V
                             /\ t.bytes = [k \in 1 .. n |-> V[a + k - 1]]
         IN  /\ r.cache.result \in {0, MissLatency}
             /\ IF r.cache.result = 0 THEN Read(r, now)
                                      ELSE Read(s, now + MissLatency)
  <1> DEFINE r   == GetCacheValue(p, a, n, now, g, u)
             fin == now + MissLatency
             s   == GetCacheValue(r.cache, a, n, fin, g, u)
             V   == View(p.lines, p.mem)
             Read(t, x) == /\ Answers(t.cache, p, a, g, B, M, x)
                           /\ View(t.cache.lines, t.cache.mem) = V
                           /\ t.bytes = [k \in 1 .. n |-> V[a + k - 1]]
  <1>1. a \in Nat /\ M \in Nat /\ MissLatency \in Nat /\ fin \in Nat
    BY CacheAssumption DEF AccessIn
  <1>2. Loaded(r.cache, r.bytes, p, a, n, B, M, now)
    BY GetValueKeeps
  <1>3. PICK w \in Ways, c \in Nat : Worked(r.cache, p, a, w, c, g, B, M, now)
    BY GetValueWorks
  <1> DEFINE q == r.cache
  <1>4. q.result \in {0, MissLatency} /\ CacheOK(q, B, M, now)
    BY <1>3 DEF Worked, Delay
  <1>5. CASE q.result = 0
    <2>1. AllReady(q.lines, now) /\ Turns(p.lines, q.lines, a, w, g)
      BY <1>1, <1>3, <1>5, FirstAnswers
    <2>2. CountsOne(q, p)
      BY <1>2, <1>5 DEF Loaded, CountsOne
    <2> HIDE DEF r
    <2>3. Answers(q, p, a, g, B, M, now)
      BY <1>4, <1>5, <2>1, <2>2 DEF Answers
    <2>4. Read(r, now)
      BY <1>2, <1>5, <2>3 DEF Loaded
    <2> QED
      BY <1>4, <1>5, <2>4 DEF r
  <1>6. CASE q.result # 0
    <2> HIDE DEF r
    <2>1. CacheOK(q, B, M, fin)
      BY <1>1, <1>4, LaterOK
    <2> HIDE DEF fin
    <2>2. Loaded(s.cache, s.bytes, q, a, n, B, M, fin)
      BY <1>1, <2>1, GetValueKeeps
    <2>3. PICK v \in Ways, d \in Nat : Worked(s.cache, q, a, v, d, g, B, M, fin)
      BY <1>1, <2>1, GetValueWorks
    <2> DEFINE z == s.cache
    <2> HIDE DEF s
    <2>4. /\ z.result = 0 /\ AllReady(z.lines, fin)
          /\ Turns(p.lines, z.lines, a, w, g)
      BY <1>1, <1>3, <1>6, <2>3, SecondAnswers DEF fin
    <2>5. CountsOne(z, p)
      <3>1. /\ p.hits \in 0 .. CounterMod - 1 /\ CounterMod \in Nat \ {0}
        BY CacheAssumption DEF CacheOK, CacheState
      <3>2. /\ q.hits = (p.hits - 1) % CounterMod
            /\ q.misses = (p.misses + 1) % CounterMod
            /\ z.hits = (q.hits + 1) % CounterMod /\ z.misses = q.misses
        BY <1>2, <1>6, <2>2, <2>4 DEF Loaded
      <3>3. z.hits = p.hits
        BY <3>1, <3>2, MissThenHit
      <3> QED
        BY <3>2, <3>3 DEF CountsOne
    <2>6. Answers(z, p, a, g, B, M, fin)
      BY <2>2, <2>4, <2>5 DEF Answers, Loaded
    <2>7. View(q.lines, q.mem) = V
      BY <1>2 DEF Loaded
    <2>8. Read(s, fin)
      BY <2>2, <2>4, <2>6, <2>7 DEF Loaded
    <2> QED
      BY <1>4, <1>6, <2>8 DEF r, s, fin
  <1> QED
    BY <1>5, <1>6

\* Storing again what is already there in part.
LEMMA StoredAgain ==
  ASSUME NEW V, NEW a \in Nat, NEW B, NEW n \in {1, 2, 4}, NEW v \in [1 .. n -> B]
  PROVE  Stored(Patched(V, a, v[1]), a, v) = Stored(V, a, v)
  <1> DEFINE W == Patched(V, a, v[1])
  <1>1. DOMAIN W = DOMAIN V /\ \A x \in DOMAIN V : x # a => W[x] = V[x]
    BY DEF Patched
  <1>2. Len(v) = n
    <2>1. v \in Seq(B) /\ DOMAIN v = 1 .. n /\ n \in Nat
      BY ONLY n \in {1, 2, 4}, v \in [1 .. n -> B]
    <2> QED
      BY ONLY <2>1
  <1>3. a - a \in 0 .. n - 1
    BY ONLY a \in Nat, n \in {1, 2, 4}
  <1> HIDE DEF W
  <1>4. Stored(W, a, v) = Stored(V, a, v)
    BY <1>1, <1>2, <1>3 DEF Stored
  <1> QED
    BY <1>4 DEF W

\* A store is answered at its second try at the latest, and what the program
\* sees is then overwritten by its bytes and by nothing else.
LEMMA StoreAnswers ==
  ASSUME NEW B, NEW M, NEW now \in Nat, NEW p, CacheOK(p, B, M, now),
         AllReady(p.lines, now), NEW a, NEW n, AccessIn(a, n, M),
         StoreTag(a) = Tag(a), NEW v \in [1 .. n -> B],
         NEW g \in Nat, NEW u \in B
  PROVE  LET q == SetCacheValue(p, a, v, now, g, u)
             z == SetCacheValue(q, a, v, now + MissLatency, g, u)
             V == View(p.lines, p.mem)
             Written(t, fin) == /\ Answers(t, p, a, g, B, M, fin)
                                /\ View(t.lines, t.mem) = Stored(V, a, v)
         IN  /\ q.result \in {0, MissLatency}
             /\ IF q.result = 0 THEN Written(q, now)
                                ELSE Written(z, now + MissLatency)
  <1> DEFINE q   == SetCacheValue(p, a, v, now, g, u)
             fin == now + MissLatency
             z   == SetCacheValue(q, a, v, fin, g, u)
             V   == View(p.lines, p.mem)
             Written(t, x) == /\ Answers(t, p, a, g, B, M, x)
                              /\ View(t.lines, t.mem) = Stored(V, a, v)
  <1>1. /\ a \in Nat /\ M \in Nat /\ MissLatency \in Nat /\ fin \in Nat
        /\ n \in {1, 2, 4}
    BY CacheAssumption DEF AccessIn
  <1>2. Wrote(q, p, a, v, B, M, now)
    BY SetValueKeeps
  <1>3. PICK w \in Ways, c \in Nat : Worked(q, p, a, w, c, g, B, M, now)
    BY SetValueWorks
  <1> HIDE DEF q
  <1>4. q.result \in {0, MissLatency} /\ CacheOK(q, B, M, now)
    BY <1>3 DEF Worked, Delay
  <1>5. CASE q.result = 0
    <2>1. AllReady(q.lines, now) /\ Turns(p.lines, q.lines, a, w, g)
      BY <1>1, <1>3, <1>5, FirstAnswers
    <2>2. CountsOne(q, p)
      BY <1>2, <1>5 DEF Wrote, CountsOne
    <2>3. Answers(q, p, a, g, B, M, now)
      BY <1>4, <1>5, <2>1, <2>2 DEF Answers
    <2>4. Written(q, now)
      BY <1>2, <1>5, <2>3 DEF Wrote
    <2> QED
      BY <1>4, <1>5, <2>4 DEF q
  <1>6. CASE q.result # 0
    <2>1. CacheOK(q, B, M, fin)
      BY <1>1, <1>4, LaterOK
    <2> HIDE DEF fin
    <2>2. Wrote(z, q, a, v, B, M, fin)
      BY <1>1, <2>1, SetValueKeeps
    <2>3. PICK y \in Ways, d \in Nat : Worked(z, q, a, y, d, g, B, M, fin)
      BY <1>1, <2>1, SetValueWorks
    <2> HIDE DEF z
    <2>4. /\ z.result = 0 /\ AllReady(z.lines, fin)
          /\ Turns(p.lines, z.lines, a, w, g)
      BY <1>1, <1>3, <1>6, <2>3, SecondAnswers DEF fin
    <2>5. CountsOne(z, p)
      <3>1. /\ p.hits \in 0 .. CounterMod - 1 /\ CounterMod \in Nat \ {0}
        BY CacheAssumption DEF CacheOK, CacheState
      <3>2. /\ q.hits = (p.hits - 1) % CounterMod
            /\ q.misses = (p.misses + 1) % CounterMod
            /\ z.hits = (q.hits + 1) % CounterMod /\ z.misses = q.misses
        BY <1>2, <1>6, <2>2, <2>4 DEF Wrote
      <3>3. z.hits = p.hits
        BY <3>1, <3>2, MissThenHit
      <3> QED
        BY <3>2, <3>3 DEF CountsOne
    <2>6. Answers(z, p, a, g, B, M, fin)
      BY <2>2, <2>4, <2>5 DEF Answers, Wrote
    <2>7. View(q.lines, q.mem) \in {V, Patched(V, a, v[1])}
      BY <1>2, <1>6 DEF Wrote
    <2>8. View(z.lines, z.mem) = Stored(View(q.lines, q.mem), a, v)
      BY <2>2, <2>4 DEF Wrote
    <2> HIDE DEF V
    <2>9. View(z.lines, z.mem) = Stored(V, a, v)
      <3>1. v \in [1 .. n -> B] /\ n \in {1, 2, 4} /\ a \in Nat
        BY <1>1
      <3>2. Stored(Patched(V, a, v[1]), a, v) = Stored(V, a, v)
        BY ONLY <3>1, StoredAgain
      <3> QED
        BY ONLY <2>7, <2>8, <3>2
    <2>10. Written(z, fin)
      BY <2>6, <2>9
    <2> QED
      BY <1>4, <1>6, <2>10 DEF q, z, V, fin
  <1> QED
    BY <1>5, <1>6

-----------------------------------------------------------------------------
(***************************************************************************)
(* A caller that repeats an access after its delay.  Its record c holds    *)
(* the cache p, the cycle now and the bytes of its last answer.            *)
(***************************************************************************)

TryCall(p, r, now, g, u) ==
  IF r.op = "load" THEN GetCacheValue(p, r.addr, r.n, now, g, u)
  ELSE [cache |-> SetCacheValue(p, r.addr, r.data, now, g, u), bytes |-> r.data]

AnsweredAt(t, now) == [p |-> t.cache, now |-> now + 1, bytes |-> t.bytes]
ServeCall(c, r, g, u) ==
  LET t == TryCall(c.p, r, c.now, g, u)
  IN  IF t.cache.result = 0 THEN AnsweredAt(t, c.now)
      ELSE AnsweredAt(TryCall(t.cache, r, c.now + t.cache.result, g, u),
                      c.now + t.cache.result)

\* A load, or a store the store path can name, within one block.
CallIn(r, B, M) ==
  IF r.op = "load" THEN AccessIn(r.addr, r.n, M)
  ELSE /\ StoreTag(r.addr) = Tag(r.addr)
       /\ \E n \in {1, 2, 4} : AccessIn(r.addr, n, M) /\ r.data \in [1 .. n -> B]

\* Nothing is being fetched and nothing waits.
AtRest(c, B, M) ==
  /\ c.now \in Nat /\ CacheOK(c.p, B, M, c.now) /\ AllReady(c.p.lines, c.now)
  /\ c.p.result = 0

\* The caller d after the access r, where V was what the program saw before it: a
\* load was answered with it, a store changed it by its bytes.
Saw(d, r, V) ==
  IF r.op = "load"
  THEN /\ View(d.p.lines, d.p.mem) = V
       /\ d.bytes = [k \in 1 .. r.n |-> V[r.addr + k - 1]]
  ELSE View(d.p.lines, d.p.mem) = Stored(V, r.addr, r.data) /\ d.bytes = r.data

\* A cache with empty blocks is at rest.
LEMMA EmptyAtRest ==
  ASSUME NEW B, 0 \in B, NEW M \in Nat, NEW c, c.now = 0,
         NEW mem \in [0 .. M - 1 -> B],
         c.p = [lines |-> EmptyLines, mem |-> mem, hits |-> 0, misses |-> 0,
                result |-> 0, byte |-> 0]
  PROVE  AtRest(c, B, M)
  <1> DEFINE ls == EmptyLines
  <1>1. MissLatency \in Nat /\ CounterMod \in Nat \ {0}
    BY CacheAssumption
  <1>2. EmptyLine \in LineOf(B) /\ EmptyLine.cycleReady = 0 /\ ~ EmptyLine.valid
        /\ ~ EmptyLine.dirty
    BY WaysTwoOrOne DEF EmptyLine, LineOf
  <1>3. /\ \A i \in Sets, w \in Ways : ls[i][w] = EmptyLine
        /\ ls \in [Sets -> [Ways -> LineOf(B)]]
    BY <1>2 DEF EmptyLines
  <1> HIDE DEF ls
  <1>4. OneCopy(ls) /\ CleanAgrees(ls, mem)
    BY <1>2, <1>3 DEF OneCopy, CleanAgrees
  <1>5. ReadyBound(ls, 0) /\ AllReady(ls, 0)
    BY <1>1, <1>2, <1>3 DEF ReadyBound, AllReady
  <1>6. c.p \in CacheState(B, M)
    <2>1. 0 \in 0 .. CounterMod - 1
      BY <1>1
    <2> QED
      BY <1>3, <2>1 DEF CacheState, ls
  <1> QED
    BY <1>4, <1>5, <1>6 DEF AtRest, CacheOK, ls

\* The cache of an answer is at rest in the next cycle.
LEMMA AnswerAtRest ==
  ASSUME NEW B, NEW M \in Nat, NEW now \in Nat, NEW d, NEW p, NEW a, NEW g,
         Answers(d.p, p, a, g, B, M, now), d.now = now + 1
  PROVE  /\ AtRest(d, B, M) /\ CountsOne(d.p, p)
         /\ \E w \in Ways : Turns(p.lines, d.p.lines, a, w, g)
  <1>1. CacheOK(d.p, B, M, now + 1)
    BY LaterOK DEF Answers
  <1>2. AllReady(d.p.lines, now + 1)
    <2> SUFFICES ASSUME NEW i \in Sets, NEW w \in Ways
                 PROVE  d.p.lines[i][w].cycleReady <= now + 1
      BY DEF AllReady
    <2>1. d.p.lines[i][w].cycleReady <= now
      BY DEF Answers, AllReady
    <2>2. d.p.lines[i][w].cycleReady \in Nat
      <3>1. d.p.lines \in LinesOver(B)
        <4>1. now + 1 \in Nat
          OBVIOUS
        <4> QED
          BY <1>1, <4>1, CacheParts
      <3> QED
        BY <3>1, LineParts
    <2> QED
      BY <2>1, <2>2
  <1>3. d.p.result = 0 /\ CountsOne(d.p, p)
        /\ \E w \in Ways : Turns(p.lines, d.p.lines, a, w, g)
    BY DEF Answers
  <1>4. AtRest(d, B, M)
    BY <1>1, <1>2, <1>3 DEF AtRest
  <1> QED
    BY <1>3, <1>4

\* One access of such a caller: it is counted once, served by one way, and
\* answered with what the program sees or its own bytes.
LEMMA CallServed ==
  ASSUME NEW B, NEW M \in Nat, NEW c, AtRest(c, B, M), NEW r, CallIn(r, B, M),
         NEW g \in Nat, NEW u \in B
  PROVE  LET d == ServeCall(c, r, g, u)
             V == View(c.p.lines, c.p.mem)
         IN  /\ AtRest(d, B, M) /\ CountsOne(d.p, c.p)
             /\ \E w \in Ways : Turns(c.p.lines, d.p.lines, r.addr, w, g)
             /\ Saw(d, r, V)
  <1> DEFINE d  == ServeCall(c, r, g, u)
             V  == View(c.p.lines, c.p.mem)
             p  == c.p
             a  == r.addr
             now == c.now
             t  == TryCall(p, r, now, g, u)
             s  == TryCall(t.cache, r, now + MissLatency, g, u)
             Sees(x) == IF r.op = "load"
                        THEN /\ View(x.cache.lines, x.cache.mem) = V
                             /\ x.bytes = [k \in 1 .. r.n |-> V[a + k - 1]]
                        ELSE /\ View(x.cache.lines, x.cache.mem) = Stored(V, a, r.data)
                             /\ x.bytes = r.data
  <1>1. CacheOK(p, B, M, now) /\ AllReady(p.lines, now) /\ now \in Nat
        /\ MissLatency \in Nat
    BY CacheAssumption DEF AtRest
  <1>2. /\ t.cache.result \in {0, MissLatency}
        /\ t.cache.result = 0 => Answers(t.cache, p, a, g, B, M, now) /\ Sees(t)
        /\ t.cache.result # 0 =>
             Answers(s.cache, p, a, g, B, M, now + MissLatency) /\ Sees(s)
    <2>1. CASE r.op = "load"
      <3> DEFINE n == r.n
                 x == GetCacheValue(p, a, n, now, g, u)
                 y == GetCacheValue(x.cache, a, n, now + MissLatency, g, u)
      <3>1. AccessIn(a, n, M)
        BY <2>1 DEF CallIn
      <3>2. t = x
        BY <2>1 DEF TryCall
      <3>3. s = y
        BY <2>1, <3>2 DEF TryCall
      <3> HIDE DEF p, a, n, now, t, s
      <3>4. /\ x.cache.result \in {0, MissLatency}
            /\ IF x.cache.result = 0
               THEN /\ Answers(x.cache, p, a, g, B, M, now)
                    /\ View(x.cache.lines, x.cache.mem) = View(p.lines, p.mem)
                    /\ x.bytes = [k \in 1 .. n |-> View(p.lines, p.mem)[a + k - 1]]
               ELSE /\ Answers(y.cache, p, a, g, B, M, now + MissLatency)
                    /\ View(y.cache.lines, y.cache.mem) = View(p.lines, p.mem)
                    /\ y.bytes = [k \in 1 .. n |-> View(p.lines, p.mem)[a + k - 1]]
        BY <1>1, <3>1, LoadAnswers
      <3> HIDE DEF x, y
      <3> QED
        BY <2>1, <3>2, <3>3, <3>4 DEF n, p
    <2>2. CASE r.op # "load"
      <3> DEFINE v == r.data
                 x == SetCacheValue(p, a, v, now, g, u)
                 y == SetCacheValue(x, a, v, now + MissLatency, g, u)
      <3>1. PICK n \in {1, 2, 4} : AccessIn(a, n, M) /\ v \in [1 .. n -> B]
        BY <2>2 DEF CallIn
      <3>2. StoreTag(a) = Tag(a)
        BY <2>2 DEF CallIn
      <3>3. t.cache = x /\ t.bytes = v
        BY <2>2 DEF TryCall
      <3>4. s.cache = y /\ s.bytes = v
        BY <2>2, <3>3 DEF TryCall
      <3> HIDE DEF p, a, v, now, t, s
      <3>5. /\ x.result \in {0, MissLatency}
            /\ IF x.result = 0
               THEN /\ Answers(x, p, a, g, B, M, now)
                    /\ View(x.lines, x.mem) = Stored(View(p.lines, p.mem), a, v)
               ELSE /\ Answers(y, p, a, g, B, M, now + MissLatency)
                    /\ View(y.lines, y.mem) = Stored(View(p.lines, p.mem), a, v)
        BY <1>1, <3>1, <3>2, StoreAnswers
      <3> HIDE DEF x, y
      <3> QED
        BY <2>2, <3>3, <3>4, <3>5 DEF v, p
    <2> QED
      BY <2>1, <2>2
  <1>3. d = IF t.cache.result = 0 THEN AnsweredAt(t, now)
            ELSE AnsweredAt(s, now + MissLatency)
    BY <1>2 DEF ServeCall
  <1> HIDE DEF d, V, p, a, now, t, s, Sees
  <1> DEFINE After(e) == /\ AtRest(e, B, M) /\ CountsOne(e.p, p)
                         /\ \E w \in Ways : Turns(p.lines, e.p.lines, a, w, g)
  <1>4. ASSUME NEW x, NEW fin \in Nat, Answers(x.cache, p, a, g, B, M, fin),
               d = AnsweredAt(x, fin)
        PROVE  After(d) /\ d.p = x.cache /\ d.bytes = x.bytes
    <2>1. d.p = x.cache /\ d.bytes = x.bytes /\ d.now = fin + 1
      BY <1>4 DEF AnsweredAt
    <2>2. After(d)
      BY <1>4, <2>1, AnswerAtRest DEF After
    <2> QED
      BY <2>1, <2>2
  <1> HIDE DEF After
  <1>5. /\ After(d)
        /\ \/ Sees(t) /\ d.p = t.cache /\ d.bytes = t.bytes
           \/ Sees(s) /\ d.p = s.cache /\ d.bytes = s.bytes
    <2>1. CASE t.cache.result = 0
      BY <1>1, <1>2, <1>3, <1>4, <2>1
    <2>2. CASE t.cache.result # 0
      <3>1. now + MissLatency \in Nat
        BY <1>1
      <3> QED
        BY <1>2, <1>3, <1>4, <2>2, <3>1
    <2> QED
      BY <2>1, <2>2
  <1> QED
    BY <1>5 DEF d, V, p, a, Sees, After, Saw

-----------------------------------------------------------------------------
(***************************************************************************)
(* What a read of a word in one block counts, whatever the memory behind   *)
(* the cache has become: a hit, or a miss and the hit its repetition is    *)
(* going to be.                                                            *)
(***************************************************************************)

\* The block of a is there, and no block is still fetched at time t.
Has(p, a, t) == Holding(p.lines[Index(a)], Tag(a)) # {} /\ AllReady(p.lines, t)

LEMMA ReadAgain ==
  ASSUME NEW B, NEW M \in Nat, NEW p \in CacheState(B, M), NEW a \in Nat,
         NEW now \in Nat, NEW g \in Nat, NEW u \in B, NEW t \in Nat, Has(p, a, t)
  PROVE  LET q == GetByte(p, a, now, g, u)
         IN  /\ q \in CacheState(B, M) /\ Has(q, a, t)
             /\ q.hits = p.hits /\ q.misses = p.misses
             /\ t <= now => q.result = 0
  <1> DEFINE i    == Index(a)
             held == Holding(p.lines[i], Tag(a))
             hit  == FirstWay(held)
             q    == GetByte(p, a, now, g, u)
  <1>1. p.lines \in LinesOver(B) /\ i \in Sets /\ held # {} /\ q \in CacheState(B, M)
    BY StateParts, AddressFields, GetByteAny DEF Has, ReadKept
  <1>2. hit \in Ways
    BY <1>1, FirstWayIn DEF Holding
  <1>3. CASE ~ Ready(p.lines[i][hit], now)
    <2>1. q = [p EXCEPT !.result = MissLatency, !.byte = u]
      <3>1. q = ReadPending(p, u)
        BY ONLY <1>1, <1>3 DEF GetByte, hit
      <3> QED
        BY ONLY <3>1 DEF ReadPending
    <2>2. ~ (t <= now)
      <3>1. p.lines[i][hit].cycleReady \in Nat
        BY <1>1, <1>2, LineParts
      <3>2. p.lines[i][hit].cycleReady <= t
        BY <1>1, <1>2 DEF Has, AllReady
      <3> QED
        BY <1>3, <3>1, <3>2 DEF Ready
    <2> HIDE DEF q, hit
    <2>3. q.lines = p.lines /\ q.hits = p.hits /\ q.misses = p.misses
      BY <2>1 DEF CacheState
    <2> QED
      BY <1>1, <2>2, <2>3 DEF Has, q
  <1>4. CASE Ready(p.lines[i][hit], now)
    <2> DEFINE ls == Used(p.lines, i, hit)
    <2>1. q = [p EXCEPT !.result = 0, !.byte = p.lines[i][hit].data[Offset(a)],
                        !.lines = ls]
      <3>1. q = ReadHit(p, a, hit)
        BY ONLY <1>1, <1>4 DEF GetByte, hit
      <3> QED
        BY ONLY <3>1 DEF ReadHit, Used
    <2>2. /\ SameBlocks(ls, p.lines)
          /\ \A j \in Sets, v \in Ways : ls[j][v].cycleReady = p.lines[j][v].cycleReady
      BY <1>1, <1>2, UseKeeps
    <2> HIDE DEF ls, q, hit
    <2>3. q.lines = ls /\ q.hits = p.hits /\ q.misses = p.misses /\ q.result = 0
      BY <2>1 DEF CacheState
    <2>4. Holding(ls[i], Tag(a)) # {}
      BY <1>1, <2>2 DEF Holding, SameBlocks, SameBlock
    <2>5. AllReady(ls, t)
      BY <2>2 DEF AllReady, Has
    <2> QED
      BY <1>1, <2>3, <2>4, <2>5 DEF Has, q
  <1> QED
    BY <1>3, <1>4

\* The first byte of a block that is not there.
LEMMA ReadFirst ==
  ASSUME NEW B, NEW M \in Nat, NEW p \in CacheState(B, M), NEW a \in Nat,
         NEW now \in Nat, NEW g \in Nat, NEW u \in B, AllReady(p.lines, now),
         Holding(p.lines[Index(a)], Tag(a)) = {}
  PROVE  LET q == GetByte(p, a, now, g, u)
         IN  /\ q \in CacheState(B, M) /\ Has(q, a, now + MissLatency)
             /\ q.hits = p.hits /\ q.misses = p.misses /\ q.result = MissLatency
             /\ MissLatency # 0 => StillOut(q, a, now)
  <1> DEFINE i == Index(a)
             w == Victim(p.lines[i], g)
             n == CacheMiss(p, a, Tag(a), g, u)
             q == GetByte(p, a, now, g, u)
  <1>1. /\ p.lines \in LinesOver(B) /\ i \in Sets /\ Tag(a) \in Nat /\ MissLatency \in Nat
        /\ q \in CacheState(B, M)
    BY StateParts, AddressFields, CacheAssumption, GetByteAny DEF ReadKept
  <1>2. /\ w \in Ways /\ n.lines \in LinesOver(B) /\ n \in CacheState(B, M)
        /\ n.lines[i][w].valid /\ n.lines[i][w].tag = Tag(a)
        /\ \A j \in Sets, v \in Ways : j # i \/ v # w => Kept(n.lines[j][v], p.lines[j][v])
    <2>1. /\ w \in Ways /\ n.lines \in LinesOver(B)
          /\ n.lines[i][w].valid /\ n.lines[i][w].tag = Tag(a)
          /\ \A j \in Sets, v \in Ways :
               /\ n.lines[j][v].lru = IF j = i THEN Recency(p.lines[j], w, v)
                                               ELSE p.lines[j][v].lru
               /\ j # i \/ v # w => Kept(n.lines[j][v], p.lines[j][v])
      BY MissUses
    <2>2. Filled(n, p, i, w, Tag(a), B, M)
      BY <1>1, MissAny
    <2>3. n \in CacheState(B, M)
      BY <2>2 DEF Filled
    <2> HIDE DEF n, w
    <2> QED
      BY <2>1, <2>3
  <1>3. n.hits = p.hits /\ n.misses = p.misses
    BY DEF CacheMiss, CacheState
  <1> DEFINE k  == [n.lines[i][w] EXCEPT !.cycleReady = ReadyAt(now)]
             ls == PutLine(n.lines, i, w, k)
  <1>4. q = [n EXCEPT !.result = MissLatency,
                      !.byte = n.lines[i][w].data[Offset(a)],
                      !.lines = ls]
    <2>1. q = ReadMiss(p, a, now, g, u)
      BY DEF GetByte
    <2> QED
      BY ONLY <2>1 DEF ReadMiss, n, w, PutLine
  <1> HIDE DEF n, w
  <1>5. k \in LineOf(B) /\ k.valid /\ k.tag = Tag(a) /\ k.cycleReady = now + MissLatency
    <2>1. n.lines[i][w] \in LineOf(B)
      BY <1>1, <1>2, LineParts
    <2>2. ReadyAt(now) \in Nat /\ ReadyAt(now) = now + MissLatency
      BY <1>1 DEF ReadyAt
    <2> QED
      BY ONLY <1>2, <2>1, <2>2 DEF LineOf
  <1> HIDE DEF k
  <1>6. \A j \in Sets, v \in Ways :
          ls[j][v] = IF j = i /\ v = w THEN k ELSE n.lines[j][v]
    BY <1>1, <1>2, <1>5, PutLineAt
  <1> HIDE DEF ls, q
  <1>7. q.lines = ls /\ q.hits = n.hits /\ q.misses = n.misses /\ q.result = MissLatency
    BY <1>2, <1>4 DEF CacheState
  <1>8. Holding(ls[i], Tag(a)) = {w}
    <2>1. \A v \in Ways : v # w => ~ (ls[i][v].valid /\ ls[i][v].tag = Tag(a))
      BY <1>1, <1>2, <1>6 DEF Holding, Kept
    <2>2. ls[i][w].valid /\ ls[i][w].tag = Tag(a)
      BY <1>1, <1>2, <1>5, <1>6
    <2> QED
      BY <1>2, <2>1, <2>2 DEF Holding
  <1>9. AllReady(ls, now + MissLatency)
    <2> SUFFICES ASSUME NEW j \in Sets, NEW v \in Ways
                 PROVE  ls[j][v].cycleReady <= now + MissLatency
      BY DEF AllReady
    <2>1. p.lines[j][v].cycleReady <= now /\ p.lines[j][v].cycleReady \in Nat
      BY <1>1, LineParts DEF AllReady
    <2> QED
      BY <1>1, <1>2, <1>5, <1>6, <2>1 DEF Kept
  <1>10. MissLatency # 0 => StillOut(q, a, now)
    <2>1. FirstWay({w}) = w
      BY <1>2, FirstWayIn
    <2>2. MissLatency # 0 => ~ Ready(ls[i][w], now)
      BY <1>1, <1>2, <1>5, <1>6 DEF Ready
    <2> QED
      BY <1>7, <1>8, <2>1, <2>2 DEF StillOut
  <1> QED
    BY <1>1, <1>3, <1>7, <1>8, <1>9, <1>10 DEF q, Has

\* A word of one block, read with no block still fetched.
CountsRead(c, p, a, now) ==
  LET held(q) == Holding(q.lines[Index(a)], Tag(a)) # {}
  IN  /\ AllReady(c.lines, now + c.result)
      /\ c.result = 0 => c.hits = (p.hits + 1) % CounterMod /\ c.misses = p.misses
      /\ c.result # 0 => /\ c.hits = (p.hits - 1) % CounterMod
                         /\ c.misses = (p.misses + 1) % CounterMod
                         /\ ~ held(p) /\ held(c)

LEMMA ReadCounts ==
  ASSUME NEW B, NEW M \in Nat, NEW p \in CacheState(B, M), NEW a \in Nat,
         Offset(a) + 4 <= BlockSize,
         NEW now \in Nat, NEW g \in Nat, NEW u \in B, AllReady(p.lines, now)
  PROVE  CountsRead(GetCacheValue(p, a, 4, now, g, u).cache, p, a, now)
  <1> DEFINE b1 == GetByte(p, a, now, g, u)
             b2 == GetByte(b1, a + 1, now, g, u)
             b3 == GetByte(b2, a + 2, now, g, u)
             b4 == GetByte(b3, a + 3, now, g, u)
             c  == GetCacheValue(p, a, 4, now, g, u).cache
             held(q) == Holding(q.lines[Index(a)], Tag(a)) # {}
  <1>1. /\ MissLatency \in Nat /\ Offset(a) \in Nat /\ BlockSize \in Nat
        /\ now + MissLatency \in Nat /\ CounterMod \in Nat
    BY CacheAssumption, AddressFields DEF Offsets
  <1>2. /\ a + 1 \in Nat /\ Index(a + 1) = Index(a) /\ Tag(a + 1) = Tag(a)
        /\ a + 2 \in Nat /\ Index(a + 2) = Index(a) /\ Tag(a + 2) = Tag(a)
        /\ a + 3 \in Nat /\ Index(a + 3) = Index(a) /\ Tag(a + 3) = Tag(a)
        /\ Offset(a + 1) = Offset(a) + 1 /\ Offset(a + 2) = Offset(a) + 2
        /\ a + 1 + 1 = a + 2 /\ a + 2 + 1 = a + 3
    <2>1. /\ Offset(a) + 1 < BlockSize /\ Offset(a) + 2 < BlockSize /\ Offset(a) + 3 < BlockSize
          /\ 1 \in Nat /\ 2 \in Nat /\ 3 \in Nat
      BY <1>1
    <2> QED
      BY <2>1, SameBlockAddr
  <1>3. c = Count(b4, b1)
    BY DEF GetCacheValue
  <1>4. ASSUME NEW t \in Nat, b1 \in CacheState(B, M), Has(b1, a, t)
        PROVE  /\ Has(b4, a, t) /\ b4.hits = b1.hits /\ b4.misses = b1.misses
               /\ b2 \in CacheState(B, M) /\ b3 \in CacheState(B, M) /\ b4 \in CacheState(B, M)
               /\ Has(b2, a, t) /\ Has(b3, a, t)
               /\ t <= now => b4.result = 0
    <2> HIDE DEF b1
    <2>1. /\ b2 \in CacheState(B, M) /\ Has(b2, a, t)
          /\ b2.hits = b1.hits /\ b2.misses = b1.misses
      <3>1. Has(b1, a + 1, t)
        BY <1>2, <1>4 DEF Has
      <3>2. /\ b2 \in CacheState(B, M) /\ Has(b2, a + 1, t)
            /\ b2.hits = b1.hits /\ b2.misses = b1.misses
        BY <1>2, <1>4, <3>1, ReadAgain, SMTT(30)
      <3> QED
        BY <1>2, <3>2 DEF Has
    <2> HIDE DEF b2
    <2>2. /\ b3 \in CacheState(B, M) /\ Has(b3, a, t)
          /\ b3.hits = b2.hits /\ b3.misses = b2.misses
      <3>1. Has(b2, a + 2, t)
        BY <1>2, <2>1 DEF Has
      <3>2. /\ b3 \in CacheState(B, M) /\ Has(b3, a + 2, t)
            /\ b3.hits = b2.hits /\ b3.misses = b2.misses
        BY <1>2, <2>1, <3>1, ReadAgain, SMTT(30)
      <3> QED
        BY <1>2, <3>2 DEF Has
    <2> HIDE DEF b3
    <2>4. b4 = GetByte(b3, a + 3, now, g, u)
      OBVIOUS
    <2> HIDE DEF b4
    <2>3. /\ b4 \in CacheState(B, M) /\ Has(b4, a, t)
          /\ b4.hits = b3.hits /\ b4.misses = b3.misses
          /\ t <= now => b4.result = 0
      <3>1. Has(b3, a + 3, t)
        BY <1>2, <2>2 DEF Has
      <3> DEFINE x == a + 3
      <3>2. x \in Nat
        BY <1>2
      <3> HIDE DEF x
      <3>3. /\ GetByte(b3, x, now, g, u) \in CacheState(B, M)
            /\ Has(GetByte(b3, x, now, g, u), x, t)
            /\ GetByte(b3, x, now, g, u).hits = b3.hits
            /\ GetByte(b3, x, now, g, u).misses = b3.misses
            /\ t <= now => GetByte(b3, x, now, g, u).result = 0
        BY <2>2, <3>1, <3>2, ReadAgain DEF x
      <3>4. b4 = GetByte(b3, x, now, g, u)
        BY <2>4 DEF x
      <3>5. /\ b4 \in CacheState(B, M) /\ Has(b4, x, t)
            /\ b4.hits = b3.hits /\ b4.misses = b3.misses
            /\ t <= now => b4.result = 0
        BY ONLY <3>3, <3>4
      <3> QED
        BY <1>2, <3>5 DEF Has, x
    <2> QED
      BY <2>1, <2>2, <2>3
  <1>5. ASSUME NEW t \in Nat, b4 \in CacheState(B, M), Has(b4, a, t),
               b4.hits = p.hits, b4.misses = p.misses
        PROVE  /\ AllReady(c.lines, t) /\ held(c) /\ c.result = b4.result
               /\ IF b1.result = 0
                  THEN c.hits = (p.hits + 1) % CounterMod /\ c.misses = p.misses
                  ELSE /\ c.hits = (p.hits - 1) % CounterMod
                       /\ c.misses = (p.misses + 1) % CounterMod
    <2> HIDE DEF b1, b4, c
    <2>1. c.lines = b4.lines /\ c.result = b4.result
      BY <1>3, <1>5, CountAny
    <2>2. IF b1.result = 0
          THEN c.hits = (p.hits + 1) % CounterMod /\ c.misses = p.misses
          ELSE /\ c.hits = (p.hits - 1) % CounterMod
               /\ c.misses = (p.misses + 1) % CounterMod
      BY <1>3, <1>5 DEF Count, CacheState
    <2> QED
      BY <1>5, <2>1, <2>2 DEF Has
  <1>6. CASE held(p)
    <2>1. Has(p, a, now) /\ now <= now
      BY <1>6 DEF Has
    <2>2. /\ b1 \in CacheState(B, M) /\ Has(b1, a, now) /\ b1.result = 0
          /\ b1.hits = p.hits /\ b1.misses = p.misses
      BY <2>1, ReadAgain
    <2>3. /\ b4 \in CacheState(B, M) /\ Has(b4, a, now) /\ b4.result = 0
          /\ b4.hits = p.hits /\ b4.misses = p.misses
      <3> HIDE DEF b1, b4
      <3> QED
        BY <1>4, <2>1, <2>2
    <2> HIDE DEF b1, b4, c
    <2>4. /\ AllReady(c.lines, now) /\ c.result = 0 /\ now + 0 = now
          /\ c.hits = (p.hits + 1) % CounterMod /\ c.misses = p.misses
      BY <1>5, <2>2, <2>3
    <2> QED
      BY <2>4 DEF CountsRead, c
  <1>7. CASE ~ held(p)
    <2> DEFINE t == now + MissLatency
    <2>1. /\ b1 \in CacheState(B, M) /\ Has(b1, a, t) /\ b1.result = MissLatency
          /\ b1.hits = p.hits /\ b1.misses = p.misses
          /\ MissLatency # 0 => StillOut(b1, a, now)
      BY <1>7, ReadFirst
    <2>2. t \in Nat
      BY <1>1
    <2>3. /\ b4 \in CacheState(B, M) /\ Has(b4, a, t)
          /\ b4.hits = p.hits /\ b4.misses = p.misses
          /\ b2 \in CacheState(B, M) /\ b3 \in CacheState(B, M)
          /\ Has(b2, a, t) /\ Has(b3, a, t)
      <3> HIDE DEF b1, b2, b3, b4, t
      <3> QED
        BY <1>4, <2>1, <2>2
    <2>4. MissLatency # 0 => b4.result # 0
      <3> SUFFICES ASSUME MissLatency # 0
                   PROVE  b4.result # 0
        OBVIOUS
      <3>1. ReadyBound(b1.lines, now) /\ ReadyBound(b2.lines, now) /\ ReadyBound(b3.lines, now)
        BY <2>1, <2>3 DEF Has, AllReady, ReadyBound
      <3>5. /\ Offset(a) + 1 < BlockSize /\ Offset(a + 1) + 1 < BlockSize
            /\ Offset(a + 2) + 1 < BlockSize
        BY <1>1, <1>2
      <3> HIDE DEF b1
      <3>2. StillOut(b2, a + 1, now)
        BY <2>1, <3>1, <3>5, StaysOut
      <3> HIDE DEF b2
      <3>3. StillOut(b3, a + 2, now)
        <4>1. StillOut(GetByte(b2, a + 1 + 1, now, g, u), a + 1 + 1, now)
          BY <1>2, <2>3, <3>1, <3>2, <3>5, StaysOut
        <4> QED
          BY <1>2, <4>1
      <3> HIDE DEF b3
      <3>4. GetByte(b3, a + 2 + 1, now, g, u).result # 0
        BY <1>2, <2>3, <3>1, <3>3, <3>5, StaysOut
      <3> QED
        BY <1>2, <3>4
    <2>5. b4.result \in {0, MissLatency}
      BY <2>3, StateParts
    <2> HIDE DEF b1, b2, b3, b4, c, t
    <2>6. /\ AllReady(c.lines, t) /\ held(c) /\ c.result = b4.result
          /\ IF b1.result = 0
             THEN c.hits = (p.hits + 1) % CounterMod /\ c.misses = p.misses
             ELSE /\ c.hits = (p.hits - 1) % CounterMod
                  /\ c.misses = (p.misses + 1) % CounterMod
      BY <1>5, <2>2, <2>3
    <2>7. c.result = b1.result /\ t = now + c.result
      BY <2>1, <2>4, <2>5, <2>6 DEF t
    <2> QED
      BY <1>7, <2>6, <2>7 DEF CountsRead, c
  <1> QED
    BY <1>6, <1>7

\* Reading a byte counts nothing.
LEMMA ByteCounts ==
  ASSUME NEW B, NEW M \in Nat, NEW p \in CacheState(B, M), NEW a \in Nat,
         NEW now \in Nat, NEW g \in Nat, NEW u \in B
  PROVE  LET q == GetByte(p, a, now, g, u)
         IN  q \in CacheState(B, M) /\ q.hits = p.hits /\ q.misses = p.misses
  <1> DEFINE q == GetByte(p, a, now, g, u)
             hit == FirstWay(Holding(p.lines[Index(a)], Tag(a)))
             n == CacheMiss(p, a, Tag(a), g, u)
  <1>1. q \in CacheState(B, M)
    BY GetByteAny DEF ReadKept
  <1>2. n.hits = p.hits /\ n.misses = p.misses
    BY DEF CacheMiss, CacheState
  <1>3. ReadMiss(p, a, now, g, u).hits = n.hits /\ ReadMiss(p, a, now, g, u).misses = n.misses
    <2>1. DOMAIN n = DOMAIN p
      BY DEF CacheMiss
    <2>2. DOMAIN p = {"lines", "mem", "hits", "misses", "result", "byte"}
      BY DEF CacheState
    <2> HIDE DEF n
    <2> QED
      BY <2>1, <2>2 DEF ReadMiss, n
  <1>4. ReadPending(p, u).hits = p.hits /\ ReadPending(p, u).misses = p.misses
    BY DEF ReadPending, CacheState
  <1>5. ReadHit(p, a, hit).hits = p.hits /\ ReadHit(p, a, hit).misses = p.misses
    BY DEF ReadHit, CacheState
  <1>6. q \in {ReadMiss(p, a, now, g, u), ReadPending(p, u), ReadHit(p, a, hit)}
    BY DEF GetByte
  <1> HIDE DEF n, q, hit
  <1>7. q.hits = p.hits /\ q.misses = p.misses
    BY <1>2, <1>3, <1>4, <1>5, <1>6
  <1> QED
    BY <1>1, <1>7 DEF q

\* A cache without latency counts hits only.
LEMMA AtOnceCounts ==
  ASSUME NEW B, NEW M \in Nat, NEW p \in CacheState(B, M), NEW a \in Nat,
         NEW now \in Nat, NEW g \in Nat, NEW u \in B, MissLatency = 0
  PROVE  LET c == GetCacheValue(p, a, 4, now, g, u).cache
         IN  c.result = 0 /\ c.hits = (p.hits + 1) % CounterMod /\ c.misses = p.misses
  <1> DEFINE b1 == GetByte(p, a, now, g, u)
             b2 == GetByte(b1, a + 1, now, g, u)
             b3 == GetByte(b2, a + 2, now, g, u)
             b4 == GetByte(b3, a + 3, now, g, u)
             c  == GetCacheValue(p, a, 4, now, g, u).cache
  <1>1. b1 \in CacheState(B, M) /\ b1.hits = p.hits /\ b1.misses = p.misses
    BY ByteCounts
  <1>2. a + 1 \in Nat /\ a + 2 \in Nat /\ a + 3 \in Nat
    OBVIOUS
  <1>3. c = Count(b4, b1)
    BY DEF GetCacheValue
  <1> HIDE DEF b1, c
  <1>4. b2 \in CacheState(B, M) /\ b2.hits = p.hits /\ b2.misses = p.misses
    BY <1>1, <1>2, ByteCounts
  <1> HIDE DEF b2
  <1>5. b3 \in CacheState(B, M) /\ b3.hits = p.hits /\ b3.misses = p.misses
    BY <1>2, <1>4, ByteCounts
  <1> HIDE DEF b3
  <1>6. b4 \in CacheState(B, M) /\ b4.hits = p.hits /\ b4.misses = p.misses
    BY <1>2, <1>5, ByteCounts
  <1> HIDE DEF b4
  <1>7. b1.result = 0 /\ b4.result = 0
    BY <1>1, <1>6, StateParts
  <1>8. c.result = b4.result
    BY <1>3, <1>6, CountAny
  <1>9. c.hits = (p.hits + 1) % CounterMod /\ c.misses = p.misses
    BY <1>3, <1>6, <1>7 DEF Count, CacheState
  <1> QED
    BY <1>7, <1>8, <1>9 DEF c

=============================================================================
