---------------------------- MODULE TimingProofs ----------------------------
(***************************************************************************)
(* When the pipeline writes instructions back: in the cycle they are due   *)
(* in a pipeline that forwards what it can and resolves branches in the    *)
(* decode stage.  Beside the instructions in flight, which LockstepProofs  *)
(* follows, goes the record of write-backs that Lockstep keeps, as it is   *)
(* going to be behind each of them.  The last part is about the cycles a   *)
(* whole run of straight code takes.                                       *)
(***************************************************************************)
EXTENDS LockstepProofs

-----------------------------------------------------------------------------
(***************************************************************************)
(* When instructions are due.                                              *)
(***************************************************************************)

\* The time without that spent on data misses, once the one being served is.
Clock == Now + IF memHalt > 0 THEN memHalt - 1 ELSE 0

\* What Lockstep records of the instructions written back, as a record that an
\* instruction written back at time t extends; ended tells it was the last.
Told == [last |-> last, after |-> after, made |-> made, loaded |-> loaded, ended |-> FALSE]

Penalty(s)  == IF IllegalIn(s) THEN 1 ELSE IF TrapsIn(s) THEN 2 ELSE 0
Computes(s) == InstrIn(s).op \in RAlu \union IAlu \union {"jal"} /\ ~ TrapsIn(s)
Telling(k, s, t) ==
  LET i == InstrIn(s)
  IN  [last   |-> t, after |-> 1 + Penalty(s),
       made   |-> IF Computes(s) THEN [k.made EXCEPT ![Dest(i)] = t] ELSE k.made,
       loaded |-> IF i.op \in Loads THEN [k.loaded EXCEPT ![i.rt] = t] ELSE k.loaded,
       ended  |-> k.ended \/ AtEnd(s)]
Behind(k, s, l, t) == IF l.at = None THEN k ELSE Telling(k, s, t)

\* The record now, and as it is going to be behind each of the stages.
K0 == Told
K1 == Behind(K0, S0, memwb, Clock)
K2 == Behind(K1, S1, exmem, Clock + 1)
K3 == Behind(K2, S2, idex, Clock + 2)

Record(k) ==
  /\ k.last \in Int /\ k.after \in Int /\ k.ended \in BOOLEAN
  /\ k.made \in [Reg -> Int] /\ k.loaded \in [Reg -> Int]

LEMMA RecordParts ==
  ASSUME NEW k, Record(k), NEW r \in Reg
  PROVE  k.made[r] \in Int /\ k.loaded[r] \in Int
  BY DEF Record

\* What the instruction in latch l adds to the record: nothing, or its times.
LEMMA BehindParts ==
  ASSUME NEW s, NEW m, NEW T, NEW G, Reached(s, m, T, G), NEW k, Record(k),
         NEW l, NEW t \in Int, NEW q, q = Behind(k, s, l, t)
  PROVE  /\ Record(q)
         /\ l.at = None => q = k
         /\ l.at # None => /\ q.last = t /\ q.after = 1 + Penalty(s)
                           /\ q.ended <=> k.ended \/ AtEnd(s)
         /\ \A r \in Reg : q.made[r] = IF l.at # None /\ Computes(s) /\ Dest(InstrIn(s)) = r
                                       THEN t ELSE k.made[r]
         /\ \A r \in Reg : q.loaded[r] = IF l.at # None /\ InstrIn(s).op \in Loads
                                            /\ InstrIn(s).rt = r
                                         THEN t ELSE k.loaded[r]
  <1> DEFINE i == InstrIn(s)
             a == IF Computes(s) THEN [k.made EXCEPT ![Dest(i)] = t] ELSE k.made
             b == IF i.op \in Loads THEN [k.loaded EXCEPT ![i.rt] = t] ELSE k.loaded
  <1>1. Dest(i) \in Reg /\ i.rt \in Reg
    BY InstrParts, RegsStep
  <1> HIDE DEF i
  <1>2. /\ a \in [Reg -> Int] /\ b \in [Reg -> Int]
        /\ \A r \in Reg : a[r] = IF Computes(s) /\ Dest(i) = r THEN t ELSE k.made[r]
        /\ \A r \in Reg : b[r] = IF i.op \in Loads /\ i.rt = r THEN t ELSE k.loaded[r]
    BY <1>1 DEF Record
  <1>3. Penalty(s) \in Int
    BY DEF Penalty
  <1>4. CASE l.at = None
    BY <1>4 DEF Behind
  <1>5. CASE l.at # None
    <2>1. q = [last |-> t, after |-> 1 + Penalty(s), made |-> a, loaded |-> b,
               ended |-> k.ended \/ AtEnd(s)]
      BY <1>5 DEF Behind, Telling, i
    <2> DEFINE e == k.ended \/ AtEnd(s)
    <2>2. e \in BOOLEAN
      BY DEF AtEnd, Record
    <2> HIDE DEF a, b, e
    <2>3. /\ q.last = t /\ q.after = 1 + Penalty(s) /\ q.made = a /\ q.loaded = b /\ q.ended = e
      BY <2>1 DEF e
    <2>4. Record(q)
      BY <1>2, <1>3, <2>2, <2>3 DEF Record
    <2>5. q.ended <=> k.ended \/ AtEnd(s)
      BY <2>3 DEF e
    <2> QED
      BY <1>2, <1>5, <2>3, <2>4, <2>5 DEF i
  <1> QED
    BY <1>4, <1>5

\* The two sides of Due.
Uses(i)  == {i.rs, i.rt} \ {0}
Early(i) == DecodeReads(i) \ {0}

NoSooner(k, i, t) ==
  \/ k.last + k.after >= t
  \/ \E r \in Uses(i)  : k.loaded[r] + 2 >= t
  \/ \E r \in Early(i) : k.made[r] + 2 >= t \/ k.loaded[r] + 3 >= t
NoLater(k, i, t) ==
  /\ k.last + k.after <= t
  /\ \A r \in Uses(i)  : k.loaded[r] + 2 <= t
  /\ \A r \in Early(i) : k.made[r] + 2 <= t /\ k.loaded[r] + 3 <= t

\* A set of numbers with a largest one.
Topped(S) == S \subseteq Int /\ \E x \in S : \A y \in S : y <= x

LEMMA TopIs ==
  ASSUME NEW S, Topped(S), NEW t \in Int
  PROVE  /\ (\E x \in S : x >= t) => Max(S) >= t
         /\ (\A x \in S : x <= t) => Max(S) <= t
         /\ Max(S) \in Int
  <1>1. Max(S) \in S /\ \A y \in S : Max(S) >= y
    <2>1. PICK x \in S : \A y \in S : y <= x
      BY DEF Topped
    <2>2. \A y \in S : x >= y
      BY <2>1 DEF Topped
    <2> QED
      BY <2>2 DEF Max
  <1>2. PICK n \in S : n = Max(S)
    BY <1>1
  <1>3. S \subseteq Int /\ n \in Int /\ \A y \in S : n >= y
    BY <1>1, <1>2 DEF Topped
  <1>4. /\ (\E x \in S : x >= t) => n >= t
        /\ (\A x \in S : x <= t) => n <= t
    BY <1>3
  <1> QED
    BY <1>2, <1>3, <1>4

LEMMA TopOne == \A n \in Int : Topped({n})
  BY DEF Topped

LEMMA TopUnion ==
  ASSUME NEW S, Topped(S), NEW Q, Q = {} \/ Topped(Q)
  PROVE  Topped(S \union Q)
  <1>1. CASE Q = {}
    BY <1>1 DEF Topped
  <1>2. CASE Topped(Q)
    <2>1. PICK x \in S : \A y \in S : y <= x
      BY DEF Topped
    <2>2. PICK z \in Q : \A y \in Q : y <= z
      BY <1>2 DEF Topped
    <2>3. S \subseteq Int /\ Q \subseteq Int
      BY <1>2 DEF Topped
    <2>4. CASE x <= z
      <3>1. \A y \in S \union Q : y <= z
        BY <2>1, <2>2, <2>3, <2>4
      <3> QED
        BY <2>3, <3>1 DEF Topped
    <2>5. CASE z <= x
      <3>1. \A y \in S \union Q : y <= x
        BY <2>1, <2>2, <2>3, <2>5
      <3> QED
        BY <2>3, <3>1 DEF Topped
    <2> QED
      BY <2>3, <2>4, <2>5
  <1> QED
    BY <1>1, <1>2

LEMMA TopPair ==
  ASSUME NEW p \in Int, NEW q \in Int, NEW S, S \subseteq {p, q}
  PROVE  S = {} \/ Topped(S)
  <1>1. S \subseteq Int
    OBVIOUS
  <1>2. CASE S = {}
    BY <1>2
  <1>3. CASE \E x \in {p, q} : S = {x}
    BY <1>3, TopOne
  <1>4. CASE S = {p, q}
    <2>1. p <= q \/ q <= p
      OBVIOUS
    <2> QED
      BY <1>1, <1>4, <2>1 DEF Topped
  <1> QED
    BY <1>2, <1>3, <1>4

LEMMA DecodeReadsIn ==
  ASSUME NEW i
  PROVE  DecodeReads(i) \subseteq {i.rs, i.rt}
  BY DEF DecodeReads

\* Due is the latest of the times that NoSooner and NoLater compare.
LEMMA DueIs ==
  ASSUME Record(K0), NEW i, i.rs \in Reg, i.rt \in Reg, NEW t \in Int
  PROVE  /\ NoSooner(K0, i, t) => Due(i) >= t
         /\ NoLater(K0, i, t) => Due(i) <= t
         /\ Due(i) \in Int
  <1> DEFINE A == {last + after}
             B == {loaded[r] + 2 : r \in Uses(i)}
             C == {made[r] + 2 : r \in Early(i)}
             E == {loaded[r] + 3 : r \in Early(i)}
             S == A \union B \union C \union E
  <1>1. /\ last \in Int /\ after \in Int
        /\ \A r \in Reg : made[r] \in Int /\ loaded[r] \in Int
    <2>1. K0.last = last /\ K0.after = after /\ K0.made = made /\ K0.loaded = loaded
      BY DEF K0, Told
    <2> QED
      BY <2>1, RecordParts DEF Record
  <1>2. Due(i) = Max(S)
    BY DEF Due, Uses, Early
  <1>3. /\ Uses(i) \subseteq {i.rs, i.rt} /\ Early(i) \subseteq {i.rs, i.rt}
        /\ Uses(i) \subseteq Reg /\ Early(i) \subseteq Reg
    BY DecodeReadsIn DEF Uses, Early
  <1>4. Topped(S)
    <2>1. Topped(A)
      BY <1>1, TopOne
    <2>2. /\ B = {} \/ Topped(B)
          /\ C = {} \/ Topped(C)
          /\ E = {} \/ Topped(E)
      <3> DEFINE x == i.rs
                 y == i.rt
                 p == loaded[x] + 2
                 q == loaded[y] + 2
                 v == made[x] + 2
                 w == made[y] + 2
                 g == loaded[x] + 3
                 h == loaded[y] + 3
      <3>1. /\ p \in Int /\ q \in Int /\ v \in Int /\ w \in Int /\ g \in Int /\ h \in Int
        BY <1>1
      <3>2. B \subseteq {p, q} /\ C \subseteq {v, w} /\ E \subseteq {g, h}
        BY <1>3
      <3> HIDE DEF B, C, E, p, q, v, w, g, h
      <3> QED
        BY <3>1, <3>2, TopPair
    <2> HIDE DEF A, B, C, E
    <2>3. Topped(A \union B)
      BY <2>1, <2>2, TopUnion
    <2>4. Topped(A \union B \union C)
      BY <2>2, <2>3, TopUnion
    <2> QED
      BY <2>2, <2>4, TopUnion
  <1>5. NoSooner(K0, i, t) => \E x \in S : x >= t
    BY DEF NoSooner, K0, Told
  <1>6. NoLater(K0, i, t) => \A x \in S : x <= t
    BY DEF NoLater, K0, Told
  <1> HIDE DEF S
  <1> QED
    BY <1>2, <1>4, <1>5, <1>6, TopIs

\* Lockstep looks at the instruction of S0.
LEMMA InstructionIs ==
  ASSUME NEW m, NEW T, NEW G, Reached(S0, m, T, G)
  PROVE  /\ Instruction = InstrIn(S0)
         /\ ~ AtEnd(S0) => /\ Ref!Illegal(Instruction) <=> IllegalIn(S0)
                           /\ Ref!Traps(Instruction) <=> TrapsIn(S0)
  <1> DEFINE i == InstrIn(S0)
  <1>1. S0.regs = rregs /\ S0.pc = rpc /\ S0.slot = rslot /\ S0.mem = rmem
    BY DEF S0
  <1>2. Ref!Current = CurOf(S0) /\ Ref!Fetched = WordIn(S0)
    BY <1>1, ReferenceSame DEF Ref!Current, Ref!Fetched, CurOf, WordIn
  <1>3. /\ S0 \in RefState /\ Meant(S0, m, T) /\ T \in SUBSET Addr
        /\ i.op = "halt" <=> AtEnd(S0)
    BY InstrParts
  <1>4. Backed(Ref!Current, 4)
    <2>1. CurOf(S0) + 3 \in Addr /\ CurOf(S0) \in Nat
      BY <1>3, StateParts DEF Meant, InText
    <2> QED
      BY <1>2, <2>1, BytesHere DEF Backed
  <1>5. Instruction = i
    BY <1>2, <1>4 DEF Instruction, InstrIn
  <1>6. rregs[i.rs] = RsIn(S0) /\ rregs[i.rt] = RtIn(S0)
    BY <1>1 DEF RsIn, RtIn
  <1>7. i.op \notin Atomics \union {"bgtz", "blez"}
    BY <1>3 DEF Meant
  <1> HIDE DEF i
  <1>8. ASSUME ~ AtEnd(S0)
        PROVE  /\ Ref!Illegal(i) <=> IllegalIn(S0)
               /\ Ref!Traps(i) <=> TrapsIn(S0)
    <2>1. Ref!Illegal(i) <=> IllegalIn(S0)
      BY <1>3, <1>7, <1>8 DEF Ref!Illegal, IllegalIn, i
    <2> QED
      BY <1>6, <2>1, ReferenceSame DEF Ref!Traps, TrapsIn, OverflowIn, i
  <1> QED
    BY <1>5, <1>8 DEF i

\* Whether an instruction is written back, the record is kept as K1 foretells.
LEMMA TellsOn ==
  ASSUME PipeInv, NEW m, NEW T, NEW G, Flight(m, T, G), Cycle, LockCycle,
         memwb.op # "halt", memwb.at # None => Clock = Now
  PROVE  K0' = K1
  <1>1. Reached(S0, m, T, G) /\ WbOK(memwb, S0) /\ ~ rfailed
    BY DEF Flight
  <1>2. memwb.at # None => ~ AtEnd(S0)
    BY <1>1, WbHalts
  <1>3. Ref!AtHalt <=> AtEnd(S0)
    BY <1>1, EndIsHalt
  <1>4. K0' = [last |-> last', after |-> after', made |-> made', loaded |-> loaded',
               ended |-> FALSE]
    BY DEF K0, Told
  <1>5. CASE memwb.at = None
    <2>1. Other
      BY <1>5 DEF LockCycle, Retire, Retiring
    <2>2. UNCHANGED scoreVars
      BY <2>1 DEF Other
    <2> QED
      BY <1>4, <1>5, <2>2 DEF K1, K0, Behind, Told, scoreVars
  <1>6. CASE memwb.at # None
    <2>1. ~ Freeze
      BY DEF Cycle, Freeze, PipeInv, TypeOK
    <2>2. Score(Instruction)
      <3>1. Retiring
        BY <1>1, <1>2, <1>3, <1>6 DEF Retiring
      <3> QED
        BY <2>1, <3>1 DEF LockCycle, Retire, Other
    <2>3. /\ Instruction = InstrIn(S0)
          /\ Ref!Illegal(Instruction) <=> IllegalIn(S0)
          /\ Ref!Traps(Instruction) <=> TrapsIn(S0)
      BY <1>1, <1>2, <1>6, InstructionIs
    <2>4. /\ last' = Clock /\ after' = 1 + Penalty(S0)
          /\ made' = IF Computes(S0) THEN [made EXCEPT ![Dest(InstrIn(S0))] = Clock] ELSE made
          /\ loaded' = IF InstrIn(S0).op \in Loads
                       THEN [loaded EXCEPT ![InstrIn(S0).rt] = Clock] ELSE loaded
      BY <1>6, <2>2, <2>3 DEF Score, Squashes, Penalty, Computes
    <2>5. K1 = Telling(K0, S0, Clock)
      BY <1>6 DEF K1, Behind
    <2>6. (K0.ended \/ AtEnd(S0)) = FALSE
      BY <1>2, <1>6 DEF K0, Told, AtEnd
    <2> DEFINE e == K0.ended \/ AtEnd(S0)
    <2>7. Telling(K0, S0, Clock) =
            [last |-> last', after |-> after', made |-> made', loaded |-> loaded', ended |-> e]
      BY <2>4 DEF Telling, K0, Told
    <2>8. e = FALSE
      BY <2>6
    <2> HIDE DEF e
    <2> QED
      BY <1>4, <2>5, <2>7, <2>8
  <1> QED
    BY <1>5, <1>6

-----------------------------------------------------------------------------
(***************************************************************************)
(* What a cycle makes of the clock and of the record.                      *)
(***************************************************************************)

LEMMA ClockTypes ==
  ASSUME PipeInv
  PROVE  /\ cycle \in Nat /\ memHalt \in Nat /\ dStats.misses \in Nat /\ DCLatency \in Nat
         /\ DCLatency * dStats.misses \in Int
         /\ Now \in Int /\ Clock \in Int /\ Clock >= Now
         /\ memHalt <= 1 => Clock = Now
  <1>1. /\ cycle \in Nat /\ memHalt \in Nat /\ dStats.misses \in Nat /\ DCLatency \in Nat
    BY PipelineAssumption DEF PipeInv, TypeOK, Counters
  <1>2. DCLatency * dStats.misses \in Int
    BY <1>1
  <1> DEFINE n == DCLatency * dStats.misses
  <1>3. n \in Int /\ Now = cycle - n
    BY <1>2 DEF Now
  <1> HIDE DEF n
  <1>4. Now \in Int
    BY <1>1, <1>3
  <1> QED
    BY <1>1, <1>2, <1>4 DEF Clock

\* Time stands still in a cycle that waits for the data cache.
LEMMA ClockMoves ==
  ASSUME PipeInv, PipeInv', dStats.misses <= cycle, cycle < MaxCycle, MaxCycle < CounterMod,
         memHalt <= 1, NEW delay, Charged(delay, dStats'), cycle' = cycle + 1, memHalt' = delay
  PROVE  /\ Clock' = IF delay = 0 THEN Clock + 1 ELSE Clock
         /\ dStats'.misses <= cycle'
  <1> DEFINE k == dStats.misses
             n == DCLatency * k
  <1>1. /\ cycle \in Nat /\ k \in Nat /\ DCLatency \in Nat /\ MaxCycle \in Nat
        /\ CounterMod \in Nat /\ Clock = cycle - n /\ n \in Int
    BY ClockTypes, PipelineAssumption DEF Now
  <1>2. Now' = cycle' - DCLatency * dStats'.misses
    BY DEF Now
  <1>3. Clock' = Now' + IF delay > 0 THEN delay - 1 ELSE 0
    BY DEF Clock
  <1> HIDE DEF k, n
  <1>4. CASE delay = 0
    <2>1. dStats'.misses = k
      BY <1>4 DEF Charged, k
    <2>2. Clock' = cycle + 1 - n
      BY <1>1, <1>2, <1>3, <1>4, <2>1 DEF n
    <2> QED
      BY <1>1, <1>4, <2>1, <2>2 DEF k
  <1>5. CASE delay # 0
    <2>1. dStats'.misses = (k + 1) % CounterMod /\ delay = DCLatency
      BY <1>5 DEF Charged, k
    <2>2. (k + 1) % CounterMod = k + 1
      BY <1>1 DEF k
    <2>3. DCLatency * (k + 1) = n + DCLatency
      BY <1>1 DEF n
    <2>6. dStats'.misses = k + 1
      BY <2>1, <2>2
    <2>7. DCLatency * dStats'.misses = n + DCLatency
      BY <2>3, <2>6
    <2>4. Now' = cycle + 1 - (n + DCLatency)
      <3>1. cycle' = cycle + 1
        OBVIOUS
      <3> QED
        BY ONLY <1>1, <1>2, <2>7, <3>1
    <2>5. Clock' = cycle - n
      BY <1>1, <1>3, <1>5, <2>1, <2>4
    <2> QED
      BY <1>1, <1>5, <2>1, <2>2, <2>5 DEF k
  <1> QED
    BY <1>4, <1>5

LEMMA ClockStands ==
  ASSUME PipeInv, PipeInv', dStats.misses <= cycle, Freeze
  PROVE  Clock' = Clock /\ dStats'.misses <= cycle'
  <1>1. /\ cycle' = cycle + 1 /\ memHalt' = memHalt - 1 /\ memHalt > 1 /\ dStats' = dStats
    BY DEF Freeze, cacheVars
  <1> DEFINE n == DCLatency * dStats.misses
  <1>2. /\ cycle \in Nat /\ memHalt \in Nat /\ dStats.misses \in Nat /\ n \in Int
        /\ Now = cycle - n
    BY ClockTypes DEF Now
  <1>3. Now' = cycle' - n
    BY <1>1 DEF Now
  <1> HIDE DEF n
  <1>4. Clock' = Now' + IF memHalt' > 0 THEN memHalt' - 1 ELSE 0
    BY DEF Clock
  <1> QED
    BY <1>1, <1>2, <1>3, <1>4 DEF Clock

\* The record behind each stage.
LEMMA RecordsAre ==
  ASSUME PipeInv, NEW m, NEW T, NEW G, Flight(m, T, G), Record(K0),
         \A r \in Reg : made[r] <= Clock /\ loaded[r] <= Clock
  PROVE  /\ Record(K1) /\ Record(K2) /\ Record(K3)
         /\ \A r \in Reg : K1.made[r] <= Clock /\ K1.loaded[r] <= Clock
         /\ \A r \in Reg :
              /\ K2.made[r] <= Clock + 1
              /\ K2.loaded[r] = IF exmem.at # None /\ InstrIn(S1).op \in Loads
                                   /\ InstrIn(S1).rt = r
                                THEN Clock + 1 ELSE K1.loaded[r]
         /\ \A r \in Reg :
              /\ K3.made[r] = IF idex.at # None /\ Computes(S2) /\ Dest(InstrIn(S2)) = r
                              THEN Clock + 2 ELSE K2.made[r]
              /\ K3.loaded[r] = IF idex.at # None /\ InstrIn(S2).op \in Loads
                                   /\ InstrIn(S2).rt = r
                                THEN Clock + 2 ELSE K2.loaded[r]
         /\ idex.at # None => /\ K3.last = Clock + 2 /\ K3.after = 1 + Penalty(S2)
  <1>1. /\ Reached(S0, m, T, G) /\ Reached(S1, m, T, G) /\ Reached(S2, m, T, G)
    BY FlightReached DEF Flight
  <1>2. Clock \in Int /\ Clock + 1 \in Int /\ Clock + 2 \in Int
    BY ClockTypes
  <1>3. K0.made = made /\ K0.loaded = loaded
    BY DEF K0, Told
  <1>4. /\ Record(K1)
        /\ \A r \in Reg : K1.made[r] \in {Clock, K0.made[r]} /\ K1.loaded[r] \in {Clock, K0.loaded[r]}
    BY <1>1, <1>2, BehindParts DEF K1
  <1>5. \A r \in Reg : K1.made[r] <= Clock /\ K1.loaded[r] <= Clock
    BY <1>2, <1>3, <1>4
  <1>6. /\ Record(K2)
        /\ \A r \in Reg :
             /\ K2.made[r] \in {Clock + 1, K1.made[r]}
             /\ K2.loaded[r] = IF exmem.at # None /\ InstrIn(S1).op \in Loads
                                  /\ InstrIn(S1).rt = r
                               THEN Clock + 1 ELSE K1.loaded[r]
    BY <1>1, <1>2, <1>4, BehindParts DEF K2
  <1>7. \A r \in Reg : K2.made[r] <= Clock + 1
    <2> SUFFICES ASSUME NEW r \in Reg
                 PROVE  K2.made[r] <= Clock + 1
      OBVIOUS
    <2>1. K1.made[r] \in Int /\ K1.made[r] <= Clock /\ K2.made[r] \in {Clock + 1, K1.made[r]}
      BY <1>4, <1>5, <1>6, RecordParts
    <2> QED
      BY <1>2, <2>1
  <1>8. /\ Record(K3)
        /\ \A r \in Reg :
             /\ K3.made[r] = IF idex.at # None /\ Computes(S2) /\ Dest(InstrIn(S2)) = r
                             THEN Clock + 2 ELSE K2.made[r]
             /\ K3.loaded[r] = IF idex.at # None /\ InstrIn(S2).op \in Loads
                                  /\ InstrIn(S2).rt = r
                               THEN Clock + 2 ELSE K2.loaded[r]
        /\ idex.at # None => /\ K3.last = Clock + 2 /\ K3.after = 1 + Penalty(S2)
    BY <1>1, <1>2, <1>6, BehindParts DEF K3
  <1> QED
    BY <1>4, <1>5, <1>6, <1>7, <1>8

-----------------------------------------------------------------------------
(***************************************************************************)
(* Decode stalls for what is not there in time, and for nothing else.      *)
(***************************************************************************)

\* The register r is still being loaded, or computed or loaded, when the
\* instruction behind the execute stage is decoded.
Loading(r)   == idex.op \in Loads /\ idex.rt = r
Computing(r) == idex.dest = r \/ (exmem.op \in Loads /\ exmem.dest = r)

LEMMA StallIs ==
  ASSUME PipeInv, NEW i, i = Code[ifid.word], NEW d, d = Decode(WriteBack(memwb))
  PROVE  d.stall <=> \/ \E r \in Uses(i) : Loading(r)
                     \/ \E r \in Early(i) : Computing(r)
  <1> DEFINE p == Plain(WriteBack(memwb), i)
             x == Ready(WriteBack(memwb), i)
             checkRt == i.op \in {"beq", "bne"}
  <1>1. /\ WriteBack(memwb) \in [Reg -> Word] /\ exmem \in Latch /\ TypeOK
        /\ Decoded(i)
    <2>1. ifid.word \in Word
      BY DEF PipeInv, TypeOK
    <2> QED
      BY <2>1, StageTypes, CodeDecoded DEF PipeInv, TypeOK
  <1>2. p \in Latch
    BY <1>1, PlainLatch
  <1>3. p.rs = i.rs /\ p.rt = i.rt
    BY DEF Plain
  <1>4. x.rs = i.rs /\ x.rt = i.rt
    <2>1. CASE i.op \in Branches \union {"jr"}
      <3>1. SameInstr(x, p)
        BY <1>1, <1>2, <2>1, ForwardBranchKeeps DEF Ready
      <3> QED
        BY <1>3, <3>1 DEF SameInstr
    <2>2. CASE i.op \notin Branches \union {"jr"}
      <3>1. x = p
        BY <2>2 DEF Ready
      <3> QED
        BY <1>3, <3>1
    <2> QED
      BY <2>1, <2>2
  <1>5. d.stall <=> Waits(x, i)
    BY DecodeIs
  <1> HIDE DEF p, x
  <1>6. LoadUse(x) <=> \E r \in Uses(i) : Loading(r)
    BY <1>4 DEF LoadUse, IsMemRead, Uses, Loading
  <1>7. CASE i.op \in Branches \union {"jr"}
    <2>1. DecodeReads(i) = IF checkRt THEN {i.rs, i.rt} ELSE {i.rs}
      BY <1>7 DEF DecodeReads, Branches
    <2>2. BranchNeedsStall(x, checkRt) <=> \E r \in DecodeReads(i) : r # 0 /\ Computing(r)
      BY <1>4, <2>1 DEF BranchNeedsStall, IsMemRead, Computing
    <2>3. BranchNeedsStall(x, checkRt) <=> \E r \in Early(i) : Computing(r)
      BY <2>2 DEF Early
    <2> QED
      BY <1>5, <1>6, <1>7, <2>3 DEF Waits
  <1>8. CASE i.op \notin Branches \union {"jr"}
    <2>1. Early(i) = {}
      BY <1>8 DEF Early, DecodeReads, Branches
    <2> QED
      BY <1>5, <1>6, <1>8, <2>1 DEF Waits
  <1> QED
    BY <1>7, <1>8

\* What the latches tell of the instructions that write a register.
LEMMA LatchesTell ==
  ASSUME PipeInv, NEW m, NEW T, NEW G, Flight(m, T, G), NEW r \in Reg
  PROVE  /\ Loading(r) <=> /\ idex.at # None /\ InstrIn(S2).op \in Loads
                           /\ InstrIn(S2).rt = r
         /\ r # 0 /\ idex.dest = r /\ ~ Overflowing =>
              /\ idex.at # None /\ Dest(InstrIn(S2)) = r
              /\ InstrIn(S2).op \in Loads => InstrIn(S2).rt = r
              /\ InstrIn(S2).op \notin Loads => Computes(S2)
         /\ idex.at # None /\ InstrIn(S2).op \in Loads /\ InstrIn(S2).rt = r => idex.dest = r
         /\ idex.at # None /\ Computes(S2) /\ Dest(InstrIn(S2)) = r => idex.dest = r
         /\ exmem.op \in Loads /\ exmem.dest = r <=>
              exmem.at # None /\ InstrIn(S1).op \in Loads /\ InstrIn(S1).rt = r
  <1> DEFINE i == InstrIn(S2)
             j == InstrIn(S1)
  <1>1. /\ Reached(S1, m, T, G) /\ Reached(S2, m, T, G)
        /\ ExOK(Operands, S2) /\ MemOK(exmem, S1) /\ SameInstr(Operands, idex)
    BY FlightReached, StageTypes DEF Flight
  <1>2. IF idex.at = None \/ IllegalIn(S2) THEN idex.op = "sll" /\ idex.dest = 0
        ELSE idex.op = i.op /\ idex.rt = i.rt /\ idex.dest = Dest(i)
    BY <1>1 DEF ExOK, Idle, Carries, SameInstr
  <1>3. IF exmem.at = None \/ TrapsIn(S1) THEN exmem.op = "sll" /\ exmem.dest = 0
        ELSE exmem.op = j.op /\ exmem.rt = j.rt /\ exmem.dest = Dest(j)
    BY <1>1 DEF MemOK, Idle, Carries
  <1>4. /\ i.op \in Loads => Dest(i) = i.rt /\ ~ IllegalIn(S2)
        /\ j.op \in Loads => Dest(j) = j.rt /\ ~ TrapsIn(S1)
    <2>1. \A k : k.op \in Loads => Dest(k) = k.rt
      BY DEF Dest, RAlu, IAlu, Loads
    <2>2. j.op \in Loads => ~ OverflowIn(S1)
      BY OverflowOps
    <2> QED
      BY <2>1, <2>2 DEF TrapsIn, IllegalIn, Loads
  <1>5. "sll" \notin Loads
    BY DEF Loads
  <1>6. i.op \notin Atomics
    BY <1>1, InstrParts DEF Meant
  <1>7. Dest(i) # 0 /\ ~ TrapsIn(S2) /\ i.op \notin Loads => Computes(S2)
    BY <1>6 DEF Dest, Computes
  <1>8. Computes(S2) => ~ IllegalIn(S2)
    BY DEF Computes, TrapsIn
  <1>9. idex.at # None /\ ~ IllegalIn(S2) /\ ~ Overflowing => ~ TrapsIn(S2)
    BY DEF Overflowing, TrapsIn
  <1> HIDE DEF i, j
  <1>10. Loading(r) <=> idex.at # None /\ i.op \in Loads /\ i.rt = r
    BY <1>2, <1>4, <1>5 DEF Loading
  <1>11. ASSUME r # 0, idex.dest = r, ~ Overflowing
         PROVE  /\ idex.at # None /\ Dest(i) = r
                /\ i.op \in Loads => i.rt = r
                /\ i.op \notin Loads => Computes(S2)
    BY <1>2, <1>4, <1>7, <1>9, <1>11
  <1>12. /\ idex.at # None /\ i.op \in Loads /\ i.rt = r => idex.dest = r
         /\ idex.at # None /\ Computes(S2) /\ Dest(i) = r => idex.dest = r
    BY <1>2, <1>4, <1>8
  <1>13. exmem.op \in Loads /\ exmem.dest = r <=>
           exmem.at # None /\ j.op \in Loads /\ j.rt = r
    BY <1>3, <1>4, <1>5
  <1> QED
    BY <1>10, <1>11, <1>12, <1>13 DEF i, j

\* An instruction in decode that stalls is not due in time, and one that does
\* not is not due later.
LEMMA DecodeDue ==
  ASSUME PipeInv, NEW m, NEW T, NEW G, Flight(m, T, G), Record(K0),
         \A r \in Reg : made[r] <= Clock /\ loaded[r] <= Clock,
         ~ Overflowing, ifid.at # None, NEW d, d = Decode(WriteBack(memwb))
  PROVE  /\ d.stall => NoSooner(K3, InstrIn(S3), Clock + 4)
         /\ ~ d.stall /\ K3.last + K3.after <= Clock + 3 => NoLater(K3, InstrIn(S3), Clock + 3)
  <1> DEFINE i == InstrIn(S3)
  <1>1. i = Code[ifid.word]
    BY DecodedInFlight DEF InstrIn
  <1>2. d.stall <=> \/ \E r \in Uses(i) : Loading(r)
                    \/ \E r \in Early(i) : Computing(r)
    BY <1>1, StallIs
  <1>3. Uses(i) \subseteq Reg \ {0} /\ Early(i) \subseteq Uses(i)
    <2>1. i.rs \in Reg /\ i.rt \in Reg
      BY FlightReached, InstrParts DEF Flight
    <2> QED
      BY <2>1, DecodeReadsIn DEF Uses, Early
  <1> DEFINE c == Clock
             ex(r) == idex.at # None /\ InstrIn(S2).op \in Loads /\ InstrIn(S2).rt = r
             al(r) == idex.at # None /\ Computes(S2) /\ Dest(InstrIn(S2)) = r
             me(r) == exmem.at # None /\ InstrIn(S1).op \in Loads /\ InstrIn(S1).rt = r
  <1>4. c \in Int
    BY ClockTypes
  <1>5. \A r \in Reg :
          /\ K3.made[r] \in Int /\ K3.loaded[r] \in Int
          /\ K2.made[r] <= c + 1 /\ K2.made[r] \in Int
          /\ K1.loaded[r] <= c /\ K1.loaded[r] \in Int
          /\ K3.made[r] = IF al(r) THEN c + 2 ELSE K2.made[r]
          /\ K3.loaded[r] = IF ex(r) THEN c + 2 ELSE IF me(r) THEN c + 1 ELSE K1.loaded[r]
    BY RecordsAre, RecordParts
  <1>6. \A r \in Reg \ {0} :
          /\ Loading(r) <=> ex(r)
          /\ idex.dest = r => ex(r) \/ al(r)
          /\ ex(r) \/ al(r) => idex.dest = r
          /\ exmem.op \in Loads /\ exmem.dest = r <=> me(r)
    BY LatchesTell
  <1> HIDE DEF i, c, ex, al, me
  <1>7. ASSUME d.stall
        PROVE  NoSooner(K3, i, c + 4)
    <2>1. CASE \E r \in Uses(i) : Loading(r)
      <3>1. PICK r \in Uses(i) : Loading(r)
        BY <2>1
      <3>2. K3.loaded[r] = c + 2
        BY <1>3, <1>5, <1>6, <3>1
      <3>3. K3.loaded[r] + 2 >= c + 4
        BY <1>4, <3>2
      <3> QED
        BY <3>1, <3>3 DEF NoSooner
    <2>2. CASE \E r \in Early(i) : Computing(r)
      <3>1. PICK r \in Early(i) : Computing(r)
        BY <2>2
      <3>2. r \in Reg \ {0} /\ (ex(r) \/ al(r) \/ me(r))
        BY <1>3, <1>6, <3>1 DEF Computing
      <3>3. K3.made[r] = c + 2 \/ K3.loaded[r] = c + 2 \/ K3.loaded[r] = c + 1
        BY <1>5, <3>2
      <3>4. K3.made[r] + 2 >= c + 4 \/ K3.loaded[r] + 3 >= c + 4
        BY <1>4, <3>3
      <3> QED
        BY <3>1, <3>4 DEF NoSooner
    <2> QED
      BY <1>2, <1>7, <2>1, <2>2
  <1>8. ASSUME ~ d.stall, K3.last + K3.after <= c + 3
        PROVE  NoLater(K3, i, c + 3)
    <2>1. ASSUME NEW r \in Uses(i)
          PROVE  K3.loaded[r] + 2 <= c + 3
      <3>1. r \in Reg \ {0} /\ ~ ex(r)
        BY <1>2, <1>3, <1>6, <1>8
      <3>2. K1.loaded[r] <= c /\ K1.loaded[r] \in Int /\ K3.loaded[r] \in {c + 1, K1.loaded[r]}
        BY <1>5, <3>1
      <3> QED
        BY <1>4, <3>2
    <2>2. ASSUME NEW r \in Early(i)
          PROVE  K3.made[r] + 2 <= c + 3 /\ K3.loaded[r] + 3 <= c + 3
      <3>1. r \in Reg \ {0} /\ ~ ex(r) /\ ~ al(r) /\ ~ me(r)
        BY <1>2, <1>3, <1>6, <1>8 DEF Computing
      <3>2. /\ K1.loaded[r] <= c /\ K1.loaded[r] \in Int /\ K3.loaded[r] = K1.loaded[r]
            /\ K2.made[r] <= c + 1 /\ K2.made[r] \in Int /\ K3.made[r] = K2.made[r]
        BY <1>5, <3>1
      <3> QED
        BY <1>4, <3>2
    <2> QED
      BY <1>8, <2>1, <2>2 DEF NoLater
  <1> QED
    BY <1>7, <1>8 DEF i, c

-----------------------------------------------------------------------------
(***************************************************************************)
(* Every instruction in flight is on schedule.                             *)
(***************************************************************************)

\* The instruction of s is due at time t when latch l has it, and later when
\* it is still behind; there is none behind the end of the program.
OnSchedule(l, k, s, t) ==
  \/ k.ended
  \/ IF l.at # None THEN NoSooner(k, InstrIn(s), t) /\ NoLater(k, InstrIn(s), t)
     ELSE NoSooner(k, InstrIn(s), t + 1)

\* The cycles after which the instruction of the IF/ID latch, or the one that
\* is going to be fetched for it, is written back.
Ahead(i) == IF i.at # None THEN 3 ELSE 4

\* Nothing is fetched any more.
NoMore == haltSeen /\ lastPc # pc

FrontOnTime(i, none, k, s, c, over) ==
  /\ k.ended \/ NoSooner(k, InstrIn(s), c + Ahead(i))
  /\ k.ended \/ over \/ k.last + k.after <= c + Ahead(i)
  /\ ~ over /\ none /\ i.at = None => k.ended

Timed ==
  /\ Record(K0) /\ dStats.misses <= cycle
  /\ \A r \in Reg : made[r] <= Clock /\ loaded[r] <= Clock
  /\ OnSchedule(memwb, K0, S0, Clock)
  /\ OnSchedule(exmem, K1, S1, Clock + 1)
  /\ OnSchedule(idex, K2, S2, Clock + 2)
  /\ FrontOnTime(ifid, NoMore, K3, S3, Clock, Overflowing)

\* What is not due before t is not due before an earlier time.
LEMMA SoonerStill ==
  ASSUME NEW k, Record(k), NEW s, NEW m, NEW T, NEW G, Reached(s, m, T, G),
         NEW t \in Int, NEW q \in Int, q <= t, NoSooner(k, InstrIn(s), t)
  PROVE  NoSooner(k, InstrIn(s), q)
  <1> DEFINE i == InstrIn(s)
  <1>1. Uses(i) \subseteq Reg /\ Early(i) \subseteq Reg
    <2>1. i.rs \in Reg /\ i.rt \in Reg
      BY InstrParts
    <2> QED
      BY <2>1, DecodeReadsIn DEF Uses, Early
  <1>2. k.last \in Int /\ k.after \in Int
    BY DEF Record
  <1> HIDE DEF i
  <1>3. CASE k.last + k.after >= t
    <2>1. k.last + k.after >= q
      BY <1>2, <1>3
    <2> QED
      BY <2>1 DEF NoSooner, i
  <1>4. CASE \E r \in Uses(i) : k.loaded[r] + 2 >= t
    <2>1. PICK r \in Uses(i) : k.loaded[r] + 2 >= t
      BY <1>4
    <2>2. k.loaded[r] \in Int
      BY <1>1, RecordParts
    <2>3. k.loaded[r] + 2 >= q
      BY <2>1, <2>2
    <2> QED
      BY <2>3 DEF NoSooner, i
  <1>5. CASE \E r \in Early(i) : k.made[r] + 2 >= t \/ k.loaded[r] + 3 >= t
    <2>1. PICK r \in Early(i) : k.made[r] + 2 >= t \/ k.loaded[r] + 3 >= t
      BY <1>5
    <2>2. k.loaded[r] \in Int /\ k.made[r] \in Int
      BY <1>1, RecordParts
    <2>3. k.made[r] + 2 >= q \/ k.loaded[r] + 3 >= q
      BY <2>1, <2>2
    <2> QED
      BY <2>3 DEF NoSooner, i
  <1>6. \/ k.last + k.after >= t
        \/ \E r \in Uses(i) : k.loaded[r] + 2 >= t
        \/ \E r \in Early(i) : k.made[r] + 2 >= t \/ k.loaded[r] + 3 >= t
    BY DEF NoSooner, i
  <1> QED
    BY <1>3, <1>4, <1>5, <1>6

\* Whether an instruction is there or behind, it is not due before.
LEMMA OnScheduleDue ==
  ASSUME NEW k, Record(k), NEW s, NEW m, NEW T, NEW G, Reached(s, m, T, G),
         NEW t \in Int, NEW l, OnSchedule(l, k, s, t)
  PROVE  k.ended \/ NoSooner(k, InstrIn(s), t)
  <1>1. t + 1 \in Int /\ t <= t + 1
    OBVIOUS
  <1>2. NoSooner(k, InstrIn(s), t + 1) => NoSooner(k, InstrIn(s), t)
    BY <1>1, SoonerStill
  <1> QED
    BY <1>2 DEF OnSchedule

\* What is on schedule says when an instruction is due.
LEMMA TimedShows ==
  ASSUME PipeInv, NEW m, NEW T, NEW G, Flight(m, T, G), Timed
  PROVE  OnTime
  <1> DEFINE i == InstrIn(S0)
             c == Clock
  <1>1. /\ Reached(S0, m, T, G) /\ Record(K0) /\ OnSchedule(memwb, K0, S0, c)
        /\ memHalt > 0 => memwb.at = None
    BY DEF Flight, Timed
  <1>2. Instruction = i /\ i.rs \in Reg /\ i.rt \in Reg
    BY <1>1, InstructionIs, InstrParts
  <1>3. c \in Int /\ Now \in Int /\ c >= Now /\ (memHalt <= 1 => c = Now) /\ memHalt \in Nat
    BY ClockTypes
  <1>4. c + 1 \in Int
    BY <1>3
  <1>5. ~ K0.ended
    BY DEF K0, Told
  <1> HIDE DEF i, c
  <1>6. CASE memwb.at # None
    <2>1. NoSooner(K0, i, c) /\ NoLater(K0, i, c)
      BY <1>1, <1>5, <1>6 DEF OnSchedule, i
    <2>2. c = Now
      BY <1>1, <1>3, <1>6
    <2>3. Due(i) >= c /\ Due(i) <= c /\ Due(i) \in Int
      BY <1>1, <1>2, <1>3, <2>1, DueIs
    <2>4. Now = Due(i)
      BY <1>3, <2>2, <2>3
    <2> QED
      BY <1>2, <1>6, <2>4 DEF OnTime
  <1>7. CASE memwb.at = None
    <2>1. NoSooner(K0, i, c + 1)
      BY <1>1, <1>5, <1>7 DEF OnSchedule, i
    <2>2. Due(i) >= c + 1 /\ Due(i) \in Int
      BY <1>1, <1>2, <1>4, <2>1, DueIs
    <2>3. Now < Due(i)
      BY <1>3, <2>2
    <2> QED
      BY <1>2, <1>7, <2>3 DEF OnTime
  <1> QED
    BY <1>6, <1>7

\* At the start nothing is in flight.
LEMMA InitTimed ==
  ASSUME LockInit, PipeInv
  PROVE  Timed
  <1>1. /\ last = 3 /\ after = 1 /\ cycle = 0 /\ memHalt = 0 /\ dStats.misses = 0
        /\ made = [r \in Reg |-> - Long] /\ loaded = made
        /\ memwb = Bubble /\ exmem = Bubble /\ idex = Bubble /\ ifid = EmptyFetch
        /\ haltSeen = FALSE
    BY DEF LockInit, Init
  <1>2. Bubble.at = None /\ ifid.at = None
    BY <1>1 DEF Bubble, EmptyFetch
  <1> HIDE DEF Bubble, EmptyFetch
  <1>3. Clock = 0
    <2>1. DCLatency \in Nat
      BY PipelineAssumption
    <2>2. DCLatency * 0 = 0
      BY <2>1
    <2>3. Now = 0 - 0
      BY <1>1, <2>2 DEF Now
    <2> QED
      BY <1>1, <2>3 DEF Clock
  <1>4. K1 = K0 /\ K2 = K0 /\ K3 = K0
    BY <1>1, <1>2 DEF K1, K2, K3, Behind
  <1>5. K0.last = 3 /\ K0.after = 1
    BY <1>1 DEF K0, Told
  <1>6. \A r \in Reg : made[r] = -4 /\ loaded[r] = -4
    BY <1>1 DEF Long
  <1>7. Record(K0)
    <2>1. made \in [Reg -> Int] /\ loaded \in [Reg -> Int]
      BY <1>1 DEF Long
    <2>2. K0.made = made /\ K0.loaded = loaded /\ K0.ended = FALSE
      BY DEF K0, Told
    <2>5. K0.ended \in BOOLEAN
      BY <2>2
    <2>3. K0.last \in Int /\ K0.after \in Int
      BY <1>5
    <2>4. K0.made \in [Reg -> Int] /\ K0.loaded \in [Reg -> Int]
      BY <2>1, <2>2
    <2> QED
      BY <2>3, <2>4, <2>5 DEF Record
  <1>8. \A s : \A t \in {1, 2, 3, 4} : NoSooner(K0, InstrIn(s), t)
    <2> SUFFICES ASSUME NEW s, NEW t \in {1, 2, 3, 4}
                 PROVE  NoSooner(K0, InstrIn(s), t)
      OBVIOUS
    <2>1. K0.last + K0.after >= t
      BY <1>5
    <2> QED
      BY <2>1 DEF NoSooner
  <1>9. OnSchedule(memwb, K0, S0, 0) /\ OnSchedule(exmem, K1, S1, 1) /\ OnSchedule(idex, K2, S2, 2)
    <2>1. memwb.at = None /\ exmem.at = None /\ idex.at = None
      BY <1>1, <1>2
    <2>2. \A s : NoSooner(K0, InstrIn(s), 0 + 1) /\ NoSooner(K0, InstrIn(s), 1 + 1)
                 /\ NoSooner(K0, InstrIn(s), 2 + 1)
      <3>1. 0 + 1 = 1 /\ 1 + 1 = 2 /\ 2 + 1 = 3
        OBVIOUS
      <3> QED
        BY <1>8, <3>1
    <2> QED
      BY <1>4, <2>1, <2>2 DEF OnSchedule
  <1>10. FrontOnTime(ifid, NoMore, K3, S3, 0, Overflowing)
    <2>1. 0 + Ahead(ifid) = 4
      BY <1>2 DEF Ahead
    <2>2. K0.last + K0.after <= 0 + Ahead(ifid)
      BY <1>5, <2>1
    <2>3. NoSooner(K0, InstrIn(S3), 0 + Ahead(ifid))
      BY <1>8, <2>1
    <2> QED
      BY <1>1, <1>4, <2>2, <2>3 DEF FrontOnTime, NoMore
  <1>11. 0 + 1 = 1 /\ 0 + 2 = 2
    OBVIOUS
  <1>12. \A r \in Reg : made[r] <= 0 /\ loaded[r] <= 0
    BY <1>6
  <1> QED
    BY <1>1, <1>3, <1>7, <1>9, <1>10, <1>11, <1>12 DEF Timed

LEMMA PrimedRecords ==
  /\ K1' = Behind(K0', S0', memwb', Clock')
  /\ K2' = Behind(K1', S1', exmem', Clock' + 1)
  /\ K3' = Behind(K2', S2', idex', Clock' + 2)
  /\ NoMore' <=> haltSeen' /\ lastPc' # pc'
  BY DEF K1, K2, K3, NoMore

LEMMA PrimedTimed ==
  ASSUME Record(K0'), dStats'.misses <= cycle',
         \A r \in Reg : made'[r] <= Clock' /\ loaded'[r] <= Clock',
         OnSchedule(memwb', K0', S0', Clock'), OnSchedule(exmem', K1', S1', Clock' + 1),
         OnSchedule(idex', K2', S2', Clock' + 2),
         FrontOnTime(ifid', NoMore', K3', S3', Clock', Overflowing')
  PROVE  Timed'
  BY DEF Timed

\* What an instruction adds to the record is the same in every latch.
LEMMA BehindSame ==
  ASSUME NEW k, NEW s, NEW l, NEW q, l.at = q.at, NEW t
  PROVE  /\ Behind(k, s, l, t) = Behind(k, s, q, t)
         /\ OnSchedule(l, k, s, t) <=> OnSchedule(q, k, s, t)
  BY DEF Behind, OnSchedule

\* In every cycle but the last the record goes on, and so does the clock.
LEMMA RecordMoves ==
  ASSUME PipeInv, PipeInv', NEW m, NEW T, NEW G, Flight(m, T, G), Timed, Cycle, LockCycle,
         cycle < MaxCycle, MaxCycle < CounterMod, memwb.op # "halt",
         NEW f, NEW d, NEW r, Answered(r, m, T), CycleMoves(f, d, r)
  PROVE  /\ Clock' = IF r.delay = 0 THEN Clock + 1 ELSE Clock
         /\ dStats'.misses <= cycle' /\ Clock \in Int
         /\ K0' = K1 /\ Record(K1) /\ Record(K2) /\ Record(K3)
         /\ \A n \in Reg : made'[n] <= Clock' /\ loaded'[n] <= Clock'
  <1>1. /\ memHalt <= 1 /\ cycle' = cycle + 1 /\ dStats' = r.stats /\ memHalt' = r.delay
        /\ Charged(r.delay, r.stats)
    BY DEF Cycle, CycleMoves, CachesMove, Answered
  <1>2. /\ Record(K0) /\ dStats.misses <= cycle
        /\ \A n \in Reg : made[n] <= Clock /\ loaded[n] <= Clock
    BY DEF Timed
  <1>3. /\ Clock' = IF r.delay = 0 THEN Clock + 1 ELSE Clock
        /\ dStats'.misses <= cycle'
    <2>1. Charged(r.delay, dStats')
      BY <1>1
    <2> QED
      BY <1>1, <1>2, <2>1, ClockMoves
  <1>4. Clock \in Int /\ Clock = Now
    BY <1>1, ClockTypes
  <1>5. K0' = K1
    BY <1>4, TellsOn
  <1>6. /\ Record(K1) /\ Record(K2) /\ Record(K3)
        /\ \A n \in Reg : K1.made[n] <= Clock /\ K1.loaded[n] <= Clock
    BY <1>2, RecordsAre
  <1>7. made' = K1.made /\ loaded' = K1.loaded
    <2>1. K0'.made = made' /\ K0'.loaded = loaded'
      BY DEF K0, Told
    <2> QED
      BY <1>5, <2>1
  <1>8. \A n \in Reg : made'[n] <= Clock' /\ loaded'[n] <= Clock'
    <2> SUFFICES ASSUME NEW n \in Reg
                 PROVE  made'[n] <= Clock' /\ loaded'[n] <= Clock'
      OBVIOUS
    <2>1. /\ K1.made[n] \in Int /\ K1.loaded[n] \in Int
          /\ K1.made[n] <= Clock /\ K1.loaded[n] <= Clock
      BY <1>6, RecordParts
    <2> QED
      BY <1>3, <1>4, <1>7, <2>1
  <1> QED
    BY <1>3, <1>4, <1>5, <1>6, <1>8

\* While the memory stage waits the clock stands still, and all are on schedule.
LEMMA WaitingTimed ==
  ASSUME PipeInv, PipeInv', NEW m, NEW T, NEW G, Flight(m, T, G), Timed, Cycle, LockCycle,
         cycle < MaxCycle, MaxCycle < CounterMod, memwb.op # "halt", S0' = S1,
         NEW f, Found(f), NEW d, NEW r, Answered(r, m, T), CycleMoves(f, d, r),
         r.delay # 0
  PROVE  Timed'
  <1> DEFINE c == Clock
  <1>1. /\ Clock' = c /\ dStats'.misses <= cycle' /\ c \in Int
        /\ K0' = K1 /\ Record(K1) /\ Record(K2)
        /\ \A n \in Reg : made'[n] <= Clock' /\ loaded'[n] <= Clock'
    BY RecordMoves
  <1>2. /\ memwb' = Bubble /\ exmem' = exmem /\ idex' = Operands
        /\ lastPc' = f.lastPc /\ pc' = pc /\ ifid'.at = ifid.at
        /\ haltSeen' => haltSeen \/ f.word = HaltWord
    BY DEF CycleMoves, Answered, FrontMoves, SameFetch
  <1>3. S1' = S1 /\ S2' = S2 /\ S3' = S3 /\ (Overflowing' <=> Overflowing)
    BY <1>2, HeldLatches
  <1>4. Bubble.at = None /\ idex'.at = idex.at
    BY <1>2, StageTypes DEF Bubble, SameInstr
  <1> HIDE DEF c
  <1>5. K1' = K1
    BY <1>1, <1>2, <1>4, PrimedRecords DEF Behind
  <1>6. K2' = K2
    BY <1>1, <1>2, <1>3, <1>5, PrimedRecords DEF K2, c
  <1>7. K3' = K3
    BY <1>1, <1>3, <1>4, <1>6, PrimedRecords, BehindSame DEF K3, c
  <1>8. /\ OnSchedule(exmem, K1, S1, c + 1) /\ OnSchedule(idex, K2, S2, c + 2)
        /\ FrontOnTime(ifid, NoMore, K3, S3, c, Overflowing)
    BY DEF Timed, c
  <1>9. OnSchedule(memwb', K0', S0', Clock')
    <2>1. Reached(S1, m, T, G) /\ c + 1 \in Int
      BY <1>1, FlightReached DEF Flight
    <2>2. K1.ended \/ NoSooner(K1, InstrIn(S1), c + 1)
      BY <1>1, <1>8, <2>1, OnScheduleDue
    <2> QED
      BY <1>1, <1>2, <1>4, <2>2 DEF OnSchedule
  <1>10. OnSchedule(exmem', K1', S1', Clock' + 1)
    BY <1>1, <1>2, <1>3, <1>5, <1>8
  <1>11. OnSchedule(idex', K2', S2', Clock' + 2)
    BY <1>1, <1>3, <1>4, <1>6, <1>8, BehindSame
  <1>12. NoMore' => NoMore
    BY <1>2 DEF NoMore, Found
  <1>13. FrontOnTime(ifid', NoMore', K3', S3', Clock', Overflowing')
    BY <1>1, <1>2, <1>3, <1>7, <1>8, <1>12 DEF FrontOnTime, Ahead
  <1>14. Record(K0')
    BY <1>1
  <1> QED
    BY <1>1, <1>9, <1>10, <1>11, <1>13, <1>14, PrimedTimed

\* In a quiet cycle nothing moves.
LEMMA QuietTimed ==
  ASSUME Timed,
         UNCHANGED <<pc, ifid, haltSeen, lastPc, idex, exmem, memwb,
                     rregs, rmem, rpc, rslot, last, after, made, loaded>>,
         Clock' = Clock, dStats'.misses <= cycle'
  PROVE  Timed'
  <1>1. /\ S0' = S0 /\ S1' = S1 /\ S2' = S2 /\ S3' = S3
    BY DEF S0, S1, S2, S3
  <1>2. Overflowing' <=> Overflowing
    BY <1>1 DEF Overflowing
  <1>3. K0' = K0
    BY DEF K0, Told
  <1>4. K1' = K1
    BY <1>1, <1>3, PrimedRecords DEF K1
  <1>5. K2' = K2
    BY <1>1, <1>4, PrimedRecords DEF K2
  <1>6. K3' = K3
    BY <1>1, <1>5, PrimedRecords DEF K3
  <1>7. NoMore' <=> NoMore
    BY DEF NoMore
  <1>8. FrontOnTime(ifid', NoMore', K3', S3', Clock', Overflowing')
    BY <1>1, <1>2, <1>6, <1>7 DEF Timed, FrontOnTime
  <1> QED
    BY <1>1, <1>3, <1>4, <1>5, <1>8, PrimedTimed DEF Timed

\* The instruction that leaves decode, or the one held there, is on schedule,
\* and so is the one behind it; and the front of the pipeline is what it is to
\* be when c is the time.
FrontMovesOn(l, c) ==
  LET k == Behind(K3, S3, l, c + 3)
      s == Past(S3, l)
  IN  /\ OnSchedule(l, K3, S3, c + 3)
      /\ FrontOnTime(ifid', NoMore', k, s, c + 1, l.at # None /\ OverflowIn(S3))

\* What is known of the front of the pipeline before a cycle.
FrontKnown(c) ==
  /\ c \in Int /\ Record(K3)
  /\ K3.ended \/ NoSooner(K3, InstrIn(S3), c + Ahead(ifid))
  /\ K3.ended \/ Overflowing \/ K3.last + K3.after <= c + Ahead(ifid)
  /\ ~ Overflowing /\ NoMore /\ ifid.at = None => K3.ended
  /\ idex.at # None => K3.last = c + 2 /\ K3.after = 1 + Penalty(S2)

LEMMA KnownInFlight ==
  ASSUME PipeInv, NEW m, NEW T, NEW G, Flight(m, T, G), Timed
  PROVE  FrontKnown(Clock)
  <1>1. Clock \in Int
    BY ClockTypes
  <1>2. FrontOnTime(ifid, NoMore, K3, S3, Clock, Overflowing)
    BY DEF Timed
  <1>3. Record(K3) /\ (idex.at # None => K3.last = Clock + 2 /\ K3.after = 1 + Penalty(S2))
    BY RecordsAre DEF Timed
  <1> QED
    BY <1>1, <1>2, <1>3 DEF FrontKnown, FrontOnTime

\* The instruction in the execute stage overflows: two cycles are lost.
LEMMA OverflowOnTime ==
  ASSUME Overflowing, NEW c, FrontKnown(c), NEW l, l.at = None,
         ifid'.at = None, ~ haltSeen'
  PROVE  FrontMovesOn(l, c)
  <1>1. Penalty(S2) = 2
    BY OverflowOps DEF Overflowing, Penalty, IllegalIn, TrapsIn
  <1>2. K3.last = c + 2 /\ K3.after = 3 /\ c \in Int
    BY <1>1 DEF FrontKnown, Overflowing
  <1>3. /\ K3.last + K3.after >= c + 3 + 1
        /\ K3.last + K3.after >= c + 1 + 4 /\ K3.last + K3.after <= c + 1 + 4
    BY <1>2
  <1>4. Ahead(ifid') = 4 /\ ~ NoMore'
    BY DEF Ahead, NoMore
  <1>5. Behind(K3, S3, l, c + 3) = K3
    BY DEF Behind
  <1>6. OnSchedule(l, K3, S3, c + 3)
    BY <1>3 DEF OnSchedule, NoSooner
  <1>7. \A s : NoSooner(K3, InstrIn(s), c + 1 + 4)
    BY <1>3 DEF NoSooner
  <1> QED
    BY <1>3, <1>4, <1>5, <1>6, <1>7 DEF FrontMovesOn, FrontOnTime

\* An instruction that does not decode: one cycle is lost.
LEMMA IllegalOnTime ==
  ASSUME NEW m, NEW T, NEW G, Reached(S3, m, T, G),
         ~ Overflowing, ifid.at # None, IllegalIn(S3), NEW c, FrontKnown(c),
         NEW l, l.at # None, ifid'.at = None, ~ haltSeen'
  PROVE  FrontMovesOn(l, c)
  <1> DEFINE k == Behind(K3, S3, l, c + 3)
             i == InstrIn(S3)
  <1>1. c \in Int /\ Record(K3) /\ Ahead(ifid) = 3
    BY DEF FrontKnown, Ahead
  <1>2. Uses(i) = {} /\ Early(i) = {}
    <2>1. i.rs = 0 /\ i.rt = 0
      BY InstrParts
    <2> QED
      BY <2>1, DecodeReadsIn DEF Uses, Early
  <1>3. OnSchedule(l, K3, S3, c + 3)
    <2>1. K3.ended \/ NoSooner(K3, i, c + 3)
      BY <1>1 DEF FrontKnown
    <2>2. K3.ended \/ NoLater(K3, i, c + 3)
      BY <1>1, <1>2 DEF FrontKnown, NoLater
    <2> QED
      BY <2>1, <2>2 DEF OnSchedule
  <1>4. k.last = c + 3 /\ k.after = 2
    <2>1. c + 3 \in Int
      BY <1>1
    <2>2. k.last = c + 3 /\ k.after = 1 + Penalty(S3)
      BY <1>1, <2>1, BehindParts
    <2>3. Penalty(S3) = 1
      BY DEF Penalty
    <2> QED
      BY <2>2, <2>3
  <1>5. Ahead(ifid') = 4 /\ ~ NoMore'
    BY DEF Ahead, NoMore
  <1> HIDE DEF k
  <1>6. k.last + k.after >= c + 1 + 4 /\ k.last + k.after <= c + 1 + 4
    BY <1>1, <1>4
  <1>7. \A s : NoSooner(k, InstrIn(s), c + 1 + 4)
    BY <1>6 DEF NoSooner
  <1> QED
    BY <1>3, <1>5, <1>6, <1>7 DEF FrontMovesOn, FrontOnTime, k

\* An instruction is held in decode.
LEMMA StallOnTime ==
  ASSUME ~ Overflowing, ifid.at # None, NEW c, FrontKnown(c), NEW l, l.at = None,
         ifid'.at = ifid.at, NoSooner(K3, InstrIn(S3), c + 4)
  PROVE  FrontMovesOn(l, c)
  <1>1. c \in Int /\ K3.last \in Int /\ K3.after \in Int /\ Ahead(ifid) = 3
    BY DEF FrontKnown, Ahead, Record
  <1>2. c + 3 + 1 = c + 4 /\ c + 1 + 3 = c + 4
    BY <1>1
  <1>3. Behind(K3, S3, l, c + 3) = K3 /\ Past(S3, l) = S3
    BY DEF Behind, Past
  <1>4. OnSchedule(l, K3, S3, c + 3)
    BY <1>2 DEF OnSchedule
  <1>5. K3.ended \/ K3.last + K3.after <= c + 1 + 3
    <2>1. K3.ended \/ K3.last + K3.after <= c + 3
      BY <1>1 DEF FrontKnown
    <2> QED
      BY <1>1, <2>1
  <1>6. NoSooner(K3, InstrIn(S3), c + 1 + 3)
    BY <1>2
  <1> QED
    BY <1>1, <1>3, <1>4, <1>5, <1>6 DEF FrontMovesOn, FrontOnTime, Ahead

\* Nothing is in decode.
LEMMA EmptyOnTime ==
  ASSUME ~ Overflowing, ifid.at = None, NEW c, FrontKnown(c), NEW l, l.at = None,
         NEW f, Found(f), ifid'.at = f.at, pc # None
  PROVE  FrontMovesOn(l, c)
  <1>1. c \in Int /\ Ahead(ifid) = 4
    BY DEF FrontKnown, Ahead
  <1>2. c + 3 + 1 = c + 4 /\ c + 1 + 3 = c + 4
    BY <1>1
  <1>3. Behind(K3, S3, l, c + 3) = K3 /\ Past(S3, l) = S3
    BY DEF Behind, Past
  <1>4. /\ K3.ended \/ NoSooner(K3, InstrIn(S3), c + 4)
        /\ K3.ended \/ K3.last + K3.after <= c + 4
        /\ NoMore => K3.ended
    BY <1>1 DEF FrontKnown
  <1>5. OnSchedule(l, K3, S3, c + 3)
    BY <1>2, <1>4 DEF OnSchedule
  <1>6. f.at = None => K3.ended
    <2>1. f.at = None => NoMore
      BY DEF Found, NoMore
    <2> QED
      BY <1>4, <2>1
  <1>7. CASE f.at = None
    BY <1>3, <1>5, <1>6, <1>7 DEF FrontMovesOn, FrontOnTime
  <1>8. CASE f.at # None
    <2>1. Ahead(ifid') = 3 /\ ifid'.at # None
      BY <1>8 DEF Ahead
    <2> QED
      BY <1>2, <1>3, <1>4, <1>5, <2>1 DEF FrontMovesOn, FrontOnTime
  <1> QED
    BY <1>7, <1>8

\* An instruction leaves decode.
LEMMA MoveOnTime ==
  ASSUME NEW m, NEW T, NEW G, Reached(S3, m, T, G),
         ~ Overflowing, ifid.at # None, ~ IllegalIn(S3), NEW c, FrontKnown(c),
         K3.last + K3.after <= c + 3 => NoLater(K3, InstrIn(S3), c + 3),
         NEW f, Found(f), pc # None, NEW l, l.at # None, ifid'.at = f.at,
         NoMore => AtEnd(S3)
  PROVE  FrontMovesOn(l, c)
  <1> DEFINE k == Behind(K3, S3, l, c + 3)
             i == InstrIn(S3)
             over == l.at # None /\ OverflowIn(S3)
  <1>1. c \in Int /\ Record(K3) /\ Ahead(ifid) = 3
    BY DEF FrontKnown, Ahead
  <1>2. OnSchedule(l, K3, S3, c + 3)
    <2>1. K3.ended \/ NoSooner(K3, i, c + 3)
      BY <1>1 DEF FrontKnown
    <2>2. K3.ended \/ NoLater(K3, i, c + 3)
      BY <1>1 DEF FrontKnown
    <2> QED
      BY <2>1, <2>2 DEF OnSchedule
  <1>3. /\ k.last = c + 3 /\ k.after = 1 + Penalty(S3)
        /\ k.ended <=> K3.ended \/ AtEnd(S3)
    <2>1. c + 3 \in Int
      BY <1>1
    <2> QED
      BY <1>1, <2>1, BehindParts
  <1>4. ~ over => Penalty(S3) = 0
    BY DEF Penalty, TrapsIn
  <1>5. Penalty(S3) \in {0, 2}
    BY DEF Penalty
  <1> HIDE DEF k, over
  <1>6. /\ k.last + k.after >= c + 1 + 3
        /\ ~ over => k.last + k.after <= c + 1 + 3
    BY <1>1, <1>3, <1>4, <1>5
  <1>7. \A s : NoSooner(k, InstrIn(s), c + 1 + 3)
    BY <1>6 DEF NoSooner
  <1>8. f.at = None => k.ended
    <2>1. f.at = None => NoMore
      BY DEF Found, NoMore
    <2> QED
      BY <1>3, <2>1
  <1>9. FrontOnTime(ifid', NoMore', k, Past(S3, l), c + 1, over)
    <2>1. CASE f.at = None
      BY <1>8, <2>1 DEF FrontOnTime
    <2>2. CASE f.at # None
      <3>1. Ahead(ifid') = 3 /\ ifid'.at # None
        BY <2>2 DEF Ahead
      <3> QED
        BY <1>6, <1>7, <3>1 DEF FrontOnTime
    <2> QED
      BY <2>1, <2>2
  <1> QED
    BY <1>2, <1>9 DEF FrontMovesOn, k, over

\* The states and the record behind the stages when the instructions move on.
LEMMA StagesMove ==
  ASSUME PipeInv, NEW m, NEW T, NEW G, Flight(m, T, G), S0' = S1, K0' = K1,
         NEW c, c = Clock, Clock' = c + 1,
         memwb'.at = exmem.at, exmem'.at = idex.at
  PROVE  /\ S1' = S2 /\ S2' = S3 /\ S3' = Past(S3, idex')
         /\ Overflowing' <=> idex'.at # None /\ OverflowIn(S3)
         /\ K1' = K2 /\ K2' = K3 /\ K3' = Behind(K3, S3, idex', c + 3)
  <1>1. c + 1 + 1 = c + 2 /\ c + 1 + 2 = c + 3
    BY ClockTypes
  <1>2. S1' = S2
    BY PrimedStages DEF S2, Past
  <1>3. S2' = S3
    BY <1>2, PrimedStages DEF S3, Past
  <1>4. S3' = Past(S3, idex') /\ (Overflowing' <=> idex'.at # None /\ OverflowIn(S3))
    BY <1>3, PrimedStages
  <1>5. K1' = K2
    <2>1. K1' = Behind(K1, S1, memwb', c + 1)
      BY PrimedRecords
    <2> QED
      BY <2>1, BehindSame DEF K2
  <1>6. K2' = K3
    <2>1. K2' = Behind(K2, S2, exmem', c + 2)
      BY <1>1, <1>2, <1>5, PrimedRecords
    <2> QED
      BY <2>1, BehindSame DEF K3
  <1>7. K3' = Behind(K3, S3, idex', c + 3)
    BY <1>1, <1>3, <1>6, PrimedRecords
  <1> QED
    BY <1>2, <1>3, <1>4, <1>5, <1>6, <1>7

\* Whatever decode does, what leaves it is on schedule.
LEMMA FrontStays ==
  ASSUME PipeInv, NEW m, NEW T, NEW G, Flight(m, T, G), Timed,
         NEW f, Found(f), NEW d, d = Decode(WriteBack(memwb)),
         FrontMoves(f, d, Overflowing, FALSE),
         NEW l, l = (IF d.stall \/ Overflowing THEN Bubble ELSE d.latch)
  PROVE  FrontMovesOn(l, Clock)
  <1> DEFINE c == Clock
  <1>1. /\ d.trap <=> Unknown(ifid)
        /\ Overflowing => ~ d.stall
        /\ Unknown(ifid) => ifid.at # None
        /\ ~ Overflowing /\ ifid.at # None => DecodedRight(d)
        /\ ~ Overflowing /\ ifid.at = None => ~ d.stall /\ d.latch.at = None
    BY DecodedInFlight
  <1>2. FrontKnown(c) /\ Bubble.at = None
    BY KnownInFlight DEF Bubble
  <1>3. Reached(S3, m, T, G) /\ pc \in Word /\ pc # None
    BY FlightReached, PipelineAssumption DEF Flight, PipeInv, TypeOK
  <1>4. /\ d.trap \/ Overflowing => ~ haltSeen'
        /\ d.stall => ifid'.at = ifid.at
        /\ ~ d.stall => ifid'.at = IF d.trap \/ Overflowing THEN None ELSE f.at
    BY DEF FrontMoves, SameFetch, Found
  <1>5. ~ Overflowing /\ ifid.at # None =>
          /\ d.stall => NoSooner(K3, InstrIn(S3), c + 4)
          /\ ~ d.stall /\ K3.last + K3.after <= c + 3 => NoLater(K3, InstrIn(S3), c + 3)
    BY DecodeDue DEF Timed
  <1> HIDE DEF c
  <1>6. CASE Overflowing
    BY <1>1, <1>2, <1>4, <1>6, OverflowOnTime DEF c
  <1>7. CASE ~ Overflowing /\ ifid.at = None
    <2>1. ~ d.trap /\ ~ d.stall /\ l.at = None /\ ifid'.at = f.at
      BY <1>1, <1>4, <1>7
    <2> QED
      BY <1>2, <1>3, <1>7, <2>1, EmptyOnTime DEF c
  <1>8. CASE ~ Overflowing /\ ifid.at # None /\ d.stall
    <2>1. l.at = None /\ ifid'.at = ifid.at /\ NoSooner(K3, InstrIn(S3), c + 4)
      BY <1>2, <1>4, <1>5, <1>8
    <2> QED
      BY <1>2, <1>8, <2>1, StallOnTime DEF c
  <1>9. CASE ~ Overflowing /\ ifid.at # None /\ ~ d.stall /\ IllegalIn(S3)
    <2>1. l.at # None /\ ifid'.at = None /\ ~ haltSeen'
      BY <1>1, <1>4, <1>9 DEF DecodedRight
    <2> QED
      BY <1>2, <1>3, <1>9, <2>1, IllegalOnTime DEF c
  <1>10. CASE ~ Overflowing /\ ifid.at # None /\ ~ d.stall /\ ~ IllegalIn(S3)
    <2>1. ~ d.trap /\ l.at # None /\ ifid'.at = f.at
      BY <1>1, <1>4, <1>10 DEF DecodedRight
    <2>2. NoMore => AtEnd(S3)
      <3>1. IfRight(ifid, S3, Overflowing, pc, haltSeen, lastPc, lastWord) /\ ~ Unknown(ifid)
        BY <1>1, <2>1 DEF Flight
      <3> QED
        BY <1>10, <3>1 DEF IfRight, NoMore
    <2>3. K3.last + K3.after <= c + 3 => NoLater(K3, InstrIn(S3), c + 3)
      BY <1>5, <1>10
    <2> QED
      BY <1>2, <1>3, <1>10, <2>1, <2>2, <2>3, MoveOnTime DEF c
  <1> QED
    BY <1>6, <1>7, <1>8, <1>9, <1>10

\* The instructions move on, and are on schedule where they come to.
LEMMA MovingTimed ==
  ASSUME PipeInv, PipeInv', NEW m, NEW T, NEW G, Flight(m, T, G), Timed, Cycle, LockCycle,
         cycle < MaxCycle, MaxCycle < CounterMod, memwb.op # "halt", S0' = S1,
         NEW f, Found(f), NEW d, d = Decode(WriteBack(memwb)),
         NEW r, MemLeaves(r, exmem), Answered(r, m, T), CycleMoves(f, d, r), r.delay = 0
  PROVE  Timed'
  <1> DEFINE c == Clock
  <1>1. /\ Clock' = c + 1 /\ dStats'.misses <= cycle' /\ c \in Int
        /\ K0' = K1 /\ Record(K1)
        /\ \A n \in Reg : made'[n] <= Clock' /\ loaded'[n] <= Clock'
    BY RecordMoves
  <1>2. /\ memwb'.at = exmem.at /\ exmem' = Execute(Operands)
        /\ idex' = IF d.stall \/ Overflowing THEN Bubble ELSE d.latch
        /\ FrontMoves(f, d, Overflowing, FALSE)
    BY DEF CycleMoves, MemLeaves
  <1>3. exmem'.at = idex.at
    <2>1. Operands \in Latch /\ Operands.at = idex.at
      BY StageTypes DEF SameInstr
    <2>2. Reached(S2, m, T, G) /\ ExOK(Operands, S2)
      BY FlightReached DEF Flight
    <2> QED
      BY <1>2, <2>1, <2>2, ExecuteRight
  <1>4. /\ S1' = S2 /\ S2' = S3 /\ S3' = Past(S3, idex')
        /\ Overflowing' <=> idex'.at # None /\ OverflowIn(S3)
        /\ K1' = K2 /\ K2' = K3 /\ K3' = Behind(K3, S3, idex', c + 3)
    <2> HIDE DEF c
    <2>1. c = Clock
      BY DEF c
    <2> QED
      BY <1>1, <1>2, <1>3, <2>1, StagesMove
  <1>5. FrontMovesOn(idex', c)
    BY <1>2, FrontStays
  <1>6. OnSchedule(exmem, K1, S1, c + 1) /\ OnSchedule(idex, K2, S2, c + 2)
    BY DEF Timed
  <1> HIDE DEF c
  <1>7. c + 1 + 1 = c + 2 /\ c + 1 + 2 = c + 3
    BY <1>1
  <1>8. OnSchedule(memwb', K0', S0', Clock')
    BY <1>1, <1>2, <1>6, BehindSame
  <1>9. OnSchedule(exmem', K1', S1', Clock' + 1)
    BY <1>1, <1>3, <1>4, <1>6, <1>7, BehindSame
  <1>10. OnSchedule(idex', K2', S2', Clock' + 2)
    BY <1>1, <1>4, <1>5, <1>7 DEF FrontMovesOn
  <1>11. FrontOnTime(ifid', NoMore', K3', S3', Clock', Overflowing')
    <2> DEFINE over == idex'.at # None /\ OverflowIn(S3)
    <2>1. FrontOnTime(ifid', NoMore', K3', S3', c + 1, over)
      BY <1>4, <1>5 DEF FrontMovesOn
    <2>2. Overflowing' <=> over
      BY <1>4
    <2> HIDE DEF over
    <2> QED
      BY <1>1, <2>1, <2>2 DEF FrontOnTime
  <1>12. Record(K0')
    BY <1>1
  <1> QED
    BY <1>1, <1>8, <1>9, <1>10, <1>11, <1>12, PrimedTimed

-----------------------------------------------------------------------------

InTime == InStep /\ (~ halted => Timed)

LEMMA NextInTime ==
  ASSUME ICLatency = 0, MaxCycle < CounterMod, InTime, [LockNext]_lockVars
  PROVE  InTime'
  <1>1. ~ Clash
    BY AtOnceClear DEF InTime, InStep, Sound
  <1>2. InStep /\ InStep' /\ PipeInv /\ PipeInv'
    <2>1. InStep /\ InStep'
      BY <1>1, NextInStep DEF InTime
    <2> QED
      BY <2>1 DEF InStep, Sound
  <1>3. PICK m, T, G : Flight(m, T, G)
    BY <1>2 DEF InStep
  <1> SUFFICES ASSUME ~ halted'
               PROVE  Timed'
    BY <1>2 DEF InTime
  <1>4. CASE UNCHANGED lockVars
    <2>1. /\ UNCHANGED <<pc, ifid, haltSeen, lastPc, idex, exmem, memwb, halted>>
          /\ UNCHANGED <<rregs, rmem, rpc, rslot, last, after, made, loaded>>
          /\ UNCHANGED <<cycle, memHalt, dStats>>
      BY <1>4 DEF lockVars, vars, cacheVars, fetchVars, latchVars, refVars, scoreVars
    <2>2. Clock' = Clock
      BY <2>1 DEF Clock, Now
    <2>3. Timed /\ dStats'.misses <= cycle'
      BY <2>1 DEF InTime, Timed
    <2> QED
      BY <2>1, <2>2, <2>3, QuietTimed
  <1>5. CASE LockNext
    <2>1. /\ ~ halted /\ cycle < MaxCycle /\ LockCycle /\ (Freeze \/ Cycle)
      BY <1>5 DEF LockNext, LockCycle, Retire, Other
    <2>2. Timed
      BY <2>1 DEF InTime
    <2>3. CASE Freeze
      <3>1. /\ UNCHANGED <<pc, ifid, haltSeen, lastPc, idex, exmem, memwb>>
            /\ memHalt > 1
        BY <2>3 DEF Freeze, latchVars
      <3>2. UNCHANGED <<rregs, rmem, rpc, rslot, last, after, made, loaded>>
        <4>1. ~ Cycle
          BY <3>1, ClockTypes, <1>2 DEF Cycle
        <4> QED
          BY <2>1, <4>1 DEF LockCycle, Retire, Other, refVars, scoreVars
      <3>3. Clock' = Clock /\ dStats'.misses <= cycle'
        BY <1>2, <2>2, <2>3, ClockStands DEF Timed
      <3> QED
        BY <2>2, <3>1, <3>2, <3>3, QuietTimed
    <2>4. CASE Cycle
      <3> DEFINE d == Decode(WriteBack(memwb))
      <3>1. PICK f, r : /\ FetchLeaves(f) /\ FetchedRight(f, T, m)
                        /\ MemLeaves(r, exmem) /\ Answered(r, m, T)
                        /\ CycleMoves(f, d, r)
        BY <1>1, <1>2, <1>3, <2>4, CycleIs
      <3>2. Found(f)
        <4>1. f.wait \in 0 .. 0
          BY <3>1 DEF FetchLeaves
        <4> QED
          BY <3>1, <4>1 DEF FetchedRight, Missing
      <3>3. d = Decode(WriteBack(memwb))
        OBVIOUS
      <3> HIDE DEF d
      <3>4. S0' = S1
        BY <1>2, <1>3, <2>1, <2>4, <3>1, CycleCommon
      <3>5. memwb.op # "halt"
        BY <3>1 DEF CycleMoves
      <3>6. CASE r.delay = 0
        BY <1>2, <1>3, <2>1, <2>2, <2>4, <3>1, <3>2, <3>3, <3>4, <3>5, <3>6, MovingTimed
      <3>7. CASE r.delay # 0
        BY <1>2, <1>3, <2>1, <2>2, <2>4, <3>1, <3>2, <3>4, <3>5, <3>7, WaitingTimed
      <3> QED
        BY <3>6, <3>7
    <2> QED
      BY <2>1, <2>3, <2>4
  <1> QED
    BY <1>4, <1>5

LEMMA TimeShows == InTime => OnTime
  <1> SUFFICES ASSUME InTime, ~ halted
               PROVE  OnTime
    BY DEF OnTime
  <1>1. PipeInv /\ Timed
    BY DEF InTime, InStep, Sound
  <1>2. PICK m, T, G : Flight(m, T, G)
    BY DEF InTime, InStep
  <1> QED
    BY <1>1, <1>2, TimedShows

\* Every instruction is written back in the cycle it is due in a pipeline that
\* forwards whatever it can and resolves branches in decode: of the stalls of
\* runCycle none is missing and none is superfluous, an exception costs the
\* instructions behind it, and a data miss its latency, once.
THEOREM PipelineOnTime ==
  ASSUME ICLatency = 0, Behaved({}), MaxCycle < CounterMod
  PROVE  LockSpec => []OnTime
  <1>1. LockInit => InTime
    <2> SUFFICES ASSUME LockInit
                 PROVE  InTime
      OBVIOUS
    <2>1. InStep
      BY InitInStep
    <2>2. Timed
      BY <2>1, InitTimed DEF InStep, Sound
    <2> QED
      BY <2>1, <2>2 DEF InTime
  <1>2. InTime /\ [LockNext]_lockVars => InTime'
    BY NextInTime
  <1> QED
    BY <1>1, <1>2, TimeShows, PTL DEF LockSpec

-----------------------------------------------------------------------------
(***************************************************************************)
(* The clock of straight code.  Every cycle moves the program counter on,  *)
(* or passes a cycle of an instruction miss, or one of a data miss.        *)
(***************************************************************************)

\* The cycles a fetch is still going to wait, and those all misses have cost.
Fill == IF fetchHalt > 0 THEN fetchHalt - 1 ELSE 0
Lost == ICLatency * iStats.misses - Fill

\* The program counter is behind w words.
Paced(w) ==
  /\ pc = 4 * w /\ w <= cycle /\ dStats.misses <= cycle
  /\ Clock <= w + Lost /\ w + Lost <= cycle

\* Of hits and misses the n words fetched are the sum.  A miss before any hit
\* leaves the hits one below zero until the word is there.
Present(ls)   == I!Holding(ls[I!Index(pc)], I!Tag(pc)) # {}
Tallied(n, stats) == stats.misses <= n /\ stats.hits = n - stats.misses
Borrowed(n, stats) == stats.misses = n + 1 /\ stats.hits = CounterMod - 1
AddressAt(n) == IF n = 0 THEN None ELSE 4 * (n - 1)

Tally(w, n) ==
  /\ lastPc = AddressAt(n) /\ I!AllReady(iLines, cycle + Fill)
  /\ ~ haltSeen => n \in {w, w + 1}
  /\ \/ Tallied(n, iStats)
     \/ Borrowed(n, iStats) /\ ~ haltSeen /\ n = w /\ Present(iLines)

\* The halt word, the last that was fetched, has k - 1 stages behind it.
Last(l, k, w, n) == haltSeen /\ n > 0 /\ l.at = 4 * (n - 1) /\ w + 1 = n + k

HaltOnWay(w, n) ==
  /\ ifid.word = HaltWord => Last(ifid, 1, w, n)
  /\ idex.op = "halt"  => Last(idex, 2, w, n)
  /\ exmem.op = "halt" => Last(exmem, 3, w, n)
  /\ memwb.op = "halt" => Last(memwb, 4, w, n)

Counted == \E w, n \in Nat : Paced(w) /\ Tally(w, n) /\ HaltOnWay(w, n)

\* Straight code meets no stall, no exception and no jump.
LEMMA StraightMoves ==
  ASSUME PipeInv, NEW m, NEW T, NEW G, Flight(m, T, G), \A s \in G : Straight(s),
         NEW d, d = Decode(WriteBack(memwb))
  PROVE  /\ ~ Overflowing /\ ~ d.trap /\ ~ d.stall /\ d.target = None /\ d.latch.at = ifid.at
         /\ d.latch.op = "halt" => ifid.word = HaltWord
  <1>1. /\ Reached(S2, m, T, G) /\ Reached(S3, m, T, G)
        /\ Straight(S2) /\ Straight(S3)
    BY FlightReached DEF Flight, Reached
  <1>2. ~ Overflowing
    BY <1>1 DEF Overflowing, Straight, TrapsIn
  <1>3. /\ d.trap <=> Unknown(ifid)
        /\ Unknown(ifid) => ifid.at # None
        /\ ifid.at # None => DecodedRight(d) /\ ifid.word = WordIn(S3)
        /\ ifid.at = None => ~ d.stall /\ d.target = None /\ d.latch.at = None
    BY <1>2, DecodedInFlight
  <1>4. ~ d.trap
    BY <1>1, <1>3 DEF DecodedRight, Straight, TrapsIn
  <1>5. ~ d.stall
    <2> SUFFICES ASSUME d.stall
                 PROVE  FALSE
      OBVIOUS
    <2> DEFINE i == InstrIn(S3)
    <2>1. ifid.at # None /\ i = Code[ifid.word]
      BY <1>3 DEF InstrIn
    <2>2. i.op \notin Branches \union Jumps
      BY <1>1 DEF Straight
    <2>3. Early(i) = {}
      BY <2>2 DEF Early, DecodeReads, Branches, Jumps
    <2>4. PICK r \in Uses(i) : Loading(r)
      BY <2>1, <2>3, StallIs
    <2>5. idex.at # None /\ InstrIn(S2).op \in Loads /\ InstrIn(S2).rt = r
      <3>1. r \in Reg
        <4>1. i.rs \in Reg /\ i.rt \in Reg
          BY <1>1, InstrParts
        <4> QED
          BY <2>4, <4>1 DEF Uses
      <3> QED
        BY <2>4, <3>1, LatchesTell
    <2>6. S3 = StepOf(S2)
      BY <2>5 DEF S3, Past
    <2> QED
      BY <1>1, <2>4, <2>5, <2>6 DEF Straight, Uses
  <1>6. d.target = None
    <2>1. ifid.at # None => d.target = GoesTo(S3)
      BY <1>1, <1>3, <1>5 DEF DecodedRight, Straight, TrapsIn
    <2>2. GoesTo(S3) = None
      BY <1>1 DEF Straight, GoesTo, Branches, Jumps
    <2> QED
      BY <1>3, <2>1, <2>2
  <1>7. d.latch.at = ifid.at
    BY <1>3 DEF DecodedRight
  <1>8. d.latch.op = "halt" => ifid.word = HaltWord
    <2> DEFINE i == Code[ifid.word]
    <2>1. i.op \notin {"illegal", "badFunct"} => d.latch = Ready(WriteBack(memwb), i)
      BY DecodeIs
    <2>2. d.latch = Ready(WriteBack(memwb), i)
      BY <1>3, <1>4, <2>1 DEF Unknown
    <2>3. Ready(WriteBack(memwb), i).op = i.op
      BY DEF Ready, Plain, ForwardBranch
    <2>4. i.op = "halt" => ifid.word = HaltWord
      <3>1. ifid.word \in Word
        BY DEF PipeInv, TypeOK
      <3> QED
        BY <3>1, MipsAssumption
    <2> QED
      BY <2>2, <2>3, <2>4
  <1> QED
    BY <1>2, <1>4, <1>5, <1>6, <1>7, <1>8

\* What a lookup counts, in the terms of the pipeline.
LEMMA LookupCounts ==
  ASSUME PipeInv, ~ Split, NEW u \in Byte, I!AllReady(iLines, cycle), NEW f, f = Lookup(u)
  PROVE  /\ f.wait \in {0, ICLatency}
         /\ ICLatency = 0 \/ I!AllReady(f.lines, cycle + f.wait)
         /\ f.wait = 0 => /\ f.stats.hits = (iStats.hits + 1) % CounterMod
                          /\ f.stats.misses = iStats.misses
         /\ f.wait # 0 => /\ f.stats.hits = (iStats.hits - 1) % CounterMod
                          /\ f.stats.misses = (iStats.misses + 1) % CounterMod
                          /\ ~ Present(iLines) /\ Present(f.lines)
  <1> DEFINE p == Before(iLines, mem, iStats, u)
             t == I!GetCacheValue(p, pc, 4, cycle, 0, u)
             c == t.cache
  <1>1. LinesTyped /\ pc \in Word /\ cycle \in Nat /\ ICLatency \in Nat
    BY TypedLines, PipelineAssumption DEF PipeInv, TypeOK
  <1>2. /\ p \in I!CacheState(Byte, MemSize) /\ p.lines = iLines
        /\ p.hits = iStats.hits /\ p.misses = iStats.misses
    BY <1>1, BeforeState DEF Before
  <1>3. f = Fetched(t)
    BY ICacheSame DEF Lookup, Before
  <1>4. pc \in Nat /\ MemSize \in Nat /\ 0 \in Nat
    BY <1>1, WordNat, BytesHere
  <1> HIDE DEF p
  <1>5. c.result \in {0, ICLatency}
    <2>1. 4 \in {1, 2, 4}
      OBVIOUS
    <2>2. I!ReadKept(c, p, Byte, MemSize)
      BY <1>1, <1>2, <1>4, <2>1, Geometries, I!ReadAny
    <2> HIDE DEF t
    <2>3. c \in I!CacheState(Byte, MemSize)
      BY <2>2 DEF I!ReadKept
    <2> QED
      BY <1>4, <2>3, Geometries, I!StateParts
  <1>6. ICLatency # 0 => I!CountsRead(c, p, pc, cycle)
    <2> SUFFICES ASSUME ICLatency # 0
                 PROVE  I!CountsRead(c, p, pc, cycle)
      OBVIOUS
    <2>1. I!Offset(pc) + 4 <= BlockSize
      <3>1. ICache!Offset(pc) = I!Offset(pc)
        BY DEF ICache!Offset, I!Offset
      <3>2. I!Offset(pc) \in Nat /\ BlockSize \in Nat
        BY <1>4, Geometries, I!AddressFields, PipelineAssumption DEF I!Offsets
      <3> QED
        BY <1>1, <3>1, <3>2 DEF Split
    <2> QED
      BY <1>1, <1>2, <1>4, <2>1, Geometries, I!ReadCounts
  <1>7. ICLatency = 0 => /\ c.result = 0 /\ c.hits = (p.hits + 1) % CounterMod
                         /\ c.misses = p.misses
    <2> SUFFICES ASSUME ICLatency = 0
                 PROVE  /\ c.result = 0 /\ c.hits = (p.hits + 1) % CounterMod
                        /\ c.misses = p.misses
      OBVIOUS
    <2>1. /\ p \in I!CacheState(Byte, MemSize) /\ MemSize \in Nat /\ u \in Byte
          /\ pc \in Nat /\ cycle \in Nat /\ 0 \in Nat /\ I!CacheAssumption
      BY <1>1, <1>2, <1>4, Geometries
    <2>2. c.result = 0 /\ c.hits = (p.hits + 1) % CounterMod /\ c.misses = p.misses
      BY ONLY <2>1, ICLatency = 0, I!AtOnceCounts
    <2> QED
      BY <2>2
  <1> HIDE DEF t
  <1>8. f.wait = c.result /\ f.lines = c.lines /\ f.stats.hits = c.hits /\ f.stats.misses = c.misses
    BY <1>3 DEF Fetched
  <1>9. CASE ICLatency = 0
    BY <1>2, <1>5, <1>7, <1>8, <1>9
  <1>10. CASE ICLatency # 0
    BY <1>2, <1>5, <1>6, <1>8, <1>10 DEF I!CountsRead, Present
  <1> QED
    BY <1>9, <1>10

LEMMA CountsStep ==
  ASSUME NEW x \in 0 .. CounterMod - 1, CounterMod \in Nat \ {0}
  PROVE  /\ (x + 1) % CounterMod = IF x = CounterMod - 1 THEN 0 ELSE x + 1
         /\ (x - 1) % CounterMod = IF x = 0 THEN CounterMod - 1 ELSE x - 1
  <1>1. CASE x = CounterMod - 1
    BY <1>1
  <1>2. CASE x # CounterMod - 1
    BY <1>2
  <1> QED
    BY <1>1, <1>2

\* A fetch keeps the tally: k words are fetched behind it.
Tallies(f, w, n, k) ==
  /\ f.lastPc = AddressAt(k) /\ I!AllReady(f.lines, cycle + f.wait)
  /\ IF haltSeen THEN k = n /\ f.wait = 0
     ELSE k = IF f.wait = 0 THEN w + 1 ELSE w
  /\ \/ Tallied(k, f.stats)
     \/ Borrowed(k, f.stats) /\ f.wait > 0 /\ Present(f.lines)
  /\ ICLatency * f.stats.misses - (IF f.wait > 0 THEN f.wait - 1 ELSE 0)
       = Lost + IF f.wait > 0 THEN 1 ELSE 0

LEMMA FetchCounts ==
  ASSUME PipeInv, ~ Split, cycle < MaxCycle, MaxCycle < CounterMod, WaitsEmpty,
         NEW w \in Nat, NEW n \in Nat, Paced(w), Tally(w, n), NEW u \in Byte,
         NEW f, f = Unread(Fetch(u)), NEW T, NEW m, FetchedRight(f, T, m)
  PROVE  \E k \in Nat : Tallies(f, w, n, k)
  <1>1. /\ fetchHalt \in Nat /\ pc \in Word /\ pc # None /\ cycle \in Nat /\ ICLatency \in Nat
        /\ iStats.misses \in 0 .. CounterMod - 1 /\ iStats.hits \in 0 .. CounterMod - 1
        /\ CounterMod \in Nat \ {0} /\ MaxCycle \in Nat /\ None \notin Word
    BY PipelineAssumption DEF PipeInv, TypeOK, Counters
  <1>2. pc = 4 * w /\ w <= cycle /\ lastPc = AddressAt(n)
    BY DEF Paced, Tally
  <1>3. lastPc = pc <=> n = w + 1
    BY <1>1, <1>2 DEF AddressAt
  <1>4. ~ haltSeen => n \in {w, w + 1}
    BY DEF Tally
  <1>5. /\ f.wait = Fetch(u).wait /\ f.lines = Fetch(u).lines /\ f.stats = Fetch(u).stats
        /\ f.lastPc = Fetch(u).lastPc /\ f.at = Fetch(u).at
    BY DEF Unread
  <1>6. ICLatency * iStats.misses \in Int
    BY <1>1
  <1>7. ASSUME NEW word, NEW at, NEW wait \in Nat, Fetch(u) = NoFetch(word, at, wait)
        PROVE  /\ f.wait = wait /\ f.lines = iLines /\ f.stats = iStats
               /\ f.lastPc = lastPc /\ f.at = at
    BY <1>5, <1>7 DEF NoFetch
  <1>8. CASE lastPc = pc \/ haltSeen
    <2>1. \E word, at : Fetch(u) = NoFetch(word, at, fetchHalt)
      BY <1>8 DEF Fetch
    <2>2. /\ f.wait = fetchHalt /\ f.lines = iLines /\ f.stats = iStats
          /\ f.lastPc = lastPc
      BY <1>1, <1>7, <2>1
    <2>3. f.wait = 0
      <3>1. CASE haltSeen
        BY <1>1, <2>2, <3>1 DEF WaitsEmpty
      <3>2. CASE lastPc = pc
        <4>1. Fetch(u) = NoFetch(lastWord, pc, fetchHalt)
          BY <3>2 DEF Fetch
        <4>2. f.at = pc
          BY <1>1, <1>7, <4>1
        <4> QED
          BY <1>1, <4>2 DEF FetchedRight, Found, Missing
      <3> QED
        BY <1>8, <3>1, <3>2
    <2>4. ~ haltSeen => n = w + 1
      BY <1>3, <1>8
    <2>5. ~ (~ haltSeen /\ n = w)
      BY <2>4
    <2>6. Fill = 0 /\ cycle + 0 = cycle
      BY <1>1, <2>2, <2>3 DEF Fill
    <2>7. Tallied(n, f.stats) /\ I!AllReady(f.lines, cycle)
      BY <2>2, <2>5, <2>6 DEF Tally
    <2>8. ICLatency * f.stats.misses - 0 = Lost + 0
      BY <1>6, <2>2, <2>6 DEF Lost
    <2>9. Tallies(f, w, n, n)
      BY <1>2, <2>2, <2>3, <2>4, <2>6, <2>7, <2>8 DEF Tallies
    <2> QED
      BY <2>9
  <1>9. CASE lastPc # pc /\ ~ haltSeen /\ fetchHalt > 1
    <2>1. Fetch(u) = NoFetch(0, None, fetchHalt - 1)
      BY <1>9 DEF Fetch
    <2>2. fetchHalt - 1 \in Nat
      BY <1>1, <1>9
    <2>3. /\ f.wait = fetchHalt - 1 /\ f.lines = iLines /\ f.stats = iStats
          /\ f.lastPc = lastPc
      BY <1>7, <2>1, <2>2
    <2>4. Fill = fetchHalt - 1 /\ f.wait > 0 /\ n = w
      BY <1>1, <1>3, <1>4, <1>9, <2>3 DEF Fill
    <2>5. \/ Tallied(n, f.stats)
          \/ Borrowed(n, f.stats) /\ Present(f.lines)
      BY <2>3 DEF Tally
    <2>6. I!AllReady(f.lines, cycle + f.wait)
      BY <2>3, <2>4 DEF Tally
    <2>7. ICLatency * f.stats.misses - (f.wait - 1) = Lost + 1
      <3> DEFINE x == ICLatency * iStats.misses
      <3>1. x \in Int /\ Lost = x - (fetchHalt - 1) /\ ICLatency * f.stats.misses = x
        BY <1>6, <2>3, <2>4 DEF Lost
      <3> HIDE DEF x
      <3> QED
        BY <1>1, <2>3, <3>1
    <2>8. Tallies(f, w, n, n)
      BY <1>2, <1>9, <2>3, <2>4, <2>5, <2>6, <2>7 DEF Tallies
    <2> QED
      BY <2>8
  <1>10. CASE lastPc # pc /\ ~ haltSeen /\ ~ (fetchHalt > 1)
    <2>1. Fetch(u) = Lookup(u)
      BY <1>10 DEF Fetch
    <2>2. n = w /\ Fill = 0
      BY <1>1, <1>3, <1>4, <1>10 DEF Fill
    <2>3. I!AllReady(iLines, cycle)
      BY <1>1, <2>2 DEF Tally
    <2>4. /\ f.wait \in {0, ICLatency}
          /\ ICLatency = 0 \/ I!AllReady(f.lines, cycle + f.wait)
          /\ f.wait = 0 => /\ f.stats.hits = (iStats.hits + 1) % CounterMod
                           /\ f.stats.misses = iStats.misses
          /\ f.wait # 0 => /\ f.stats.hits = (iStats.hits - 1) % CounterMod
                           /\ f.stats.misses = (iStats.misses + 1) % CounterMod
                           /\ ~ Present(iLines) /\ Present(f.lines)
      BY <1>5, <2>1, <2>3, LookupCounts
    <2>5. I!AllReady(f.lines, cycle + f.wait)
      <3>1. ICLatency = 0 => I!AllReady(f.lines, cycle + ICLatency)
        BY DEF FetchedRight, TextCached, I!ReadyBound, I!AllReady
      <3> QED
        BY <2>4, <3>1
    <2>6. CASE f.wait = 0
      <3>1. f.lastPc = AddressAt(w + 1)
        <4>1. Found(f)
          BY <2>6 DEF FetchedRight, Missing
        <4>2. f.lastPc = pc
          BY <1>10, <4>1 DEF Found
        <4> QED
          BY <1>2, <4>2 DEF AddressAt
      <3>2. Tallied(w + 1, f.stats)
        <4>1. CASE Tallied(n, iStats)
          BY <1>1, <1>2, <2>2, <2>4, <2>6, <4>1, CountsStep DEF Tallied
        <4>2. CASE Borrowed(n, iStats)
          BY <1>1, <1>2, <2>2, <2>4, <2>6, <4>2, CountsStep DEF Tallied, Borrowed
        <4> QED
          BY <4>1, <4>2 DEF Tally
      <3>3. ICLatency * f.stats.misses - 0 = Lost + 0
        BY <1>6, <2>2, <2>4, <2>6 DEF Lost
      <3>4. Tallies(f, w, n, w + 1)
        BY <1>10, <2>5, <2>6, <3>1, <3>2, <3>3 DEF Tallies
      <3> QED
        BY <3>4
    <2>7. CASE f.wait # 0
      <3>1. f.wait = ICLatency /\ f.wait > 0
        BY <1>1, <2>4, <2>7
      <3>2. f.lastPc = AddressAt(w)
        BY <1>2, <2>2, <2>7 DEF FetchedRight, Found, Missing
      <3>3. Tallied(n, iStats)
        BY <2>4, <2>7 DEF Tally
      <3>4. f.stats.misses = iStats.misses + 1
        BY <1>1, <1>2, <2>2, <2>4, <2>7, <3>3, CountsStep DEF Tallied
      <3>5. Tallied(w, f.stats) \/ Borrowed(w, f.stats)
        BY <1>1, <2>2, <2>4, <2>7, <3>3, <3>4, CountsStep DEF Tallied, Borrowed
      <3>6. ICLatency * (iStats.misses + 1) = ICLatency * iStats.misses + ICLatency
        BY <1>1
      <3>7. ICLatency * f.stats.misses - (f.wait - 1) = Lost + 1
        BY <1>1, <1>6, <2>2, <3>1, <3>4, <3>6 DEF Lost
      <3>8. Tallies(f, w, n, w)
        BY <1>10, <2>4, <2>5, <2>7, <3>1, <3>2, <3>5, <3>7 DEF Tallies
      <3> QED
        BY <3>8
    <2> QED
      BY <2>6, <2>7
  <1> QED
    BY <1>8, <1>9, <1>10

\* A cycle of straight code.
LEMMA CycleCounts ==
  ASSUME PipeInv, PipeInv', NEW m, NEW T, NEW G, Flight(m, T, G), \A s \in G : Straight(s),
         Cycle, ~ Clash, cycle < MaxCycle, MaxCycle < CounterMod, 4 * MaxCycle < WordMod,
         Counted
  PROVE  Counted'
  <1> DEFINE d == Decode(WriteBack(memwb))
  <1>1. PICK u, f, r :
          /\ u \in Byte /\ f = Unread(Fetch(u)) /\ iStats' = f.stats
          /\ FetchLeaves(f) /\ FetchedRight(f, T, m)
          /\ MemLeaves(r, exmem) /\ Answered(r, m, T)
          /\ CycleMoves(f, d, r)
    BY CycleFetches
  <1>2. PICK w \in Nat, n \in Nat : Paced(w) /\ Tally(w, n) /\ HaltOnWay(w, n)
    BY DEF Counted
  <1>3. PICK k \in Nat : Tallies(f, w, n, k)
    <2>1. WaitsEmpty /\ ~ Split
      BY ClearSteps DEF Flight
    <2> QED
      BY <1>1, <1>2, <2>1, FetchCounts
  <1>4. /\ ~ Overflowing /\ ~ d.trap /\ ~ d.stall /\ d.target = None /\ d.latch.at = ifid.at
        /\ d.latch.op = "halt" => ifid.word = HaltWord
    BY StraightMoves
  <1>5. /\ CachesMove(f, r) /\ FrontMoves(f, d, Overflowing, r.delay # 0)
        /\ memHalt' = r.delay
        /\ r.delay # 0 => memwb' = Bubble /\ exmem' = r.latch /\ idex' = Operands
        /\ r.delay = 0 => /\ memwb' = r.latch /\ exmem' = Execute(Operands)
                          /\ idex' = d.latch
    BY <1>1, <1>4 DEF CycleMoves
  <1> HIDE DEF d
  <1>6. /\ lastPc' = f.lastPc /\ fetchHalt' = f.wait
        /\ haltSeen' <=> haltSeen \/ f.word = HaltWord
        /\ r.delay # 0 => pc' = pc /\ ifid'.word = ifid.word /\ ifid'.at = ifid.at
        /\ r.delay = 0 => /\ pc' = IF f.wait > 0 THEN pc ELSE Plus(pc, 4)
                          /\ ifid'.word = f.word /\ ifid'.at = f.at
    BY <1>4, <1>5 DEF FrontMoves, SameFetch
  <1>7. /\ cycle \in Nat /\ pc = 4 * w /\ w <= cycle /\ dStats.misses <= cycle
        /\ Clock \in Int /\ Clock <= w + Lost /\ w + Lost <= cycle /\ memHalt <= 1
        /\ f.wait \in Nat /\ ICLatency \in Nat /\ Lost \in Int /\ cycle' = cycle + 1
        /\ MaxCycle \in Nat /\ CounterMod \in Nat /\ pc \in Word /\ pc # None
        /\ None \notin Word
    <2>1. f.wait \in Nat /\ ICLatency \in Nat /\ iStats.misses \in Nat /\ fetchHalt \in Nat
      BY <1>1, PipelineAssumption DEF FetchLeaves, PipeInv, TypeOK, Counters
    <2>2. Lost \in Int
      BY <2>1 DEF Lost, Fill
    <2> QED
      BY <1>2, <1>5, <2>1, <2>2, ClockTypes, PipelineAssumption
         DEF Paced, CachesMove, Cycle, PipeInv, TypeOK
  <1> DEFINE v == IF r.delay = 0 /\ f.wait = 0 THEN w + 1 ELSE w
  <1>8. v \in Nat /\ pc' = 4 * v
    <2>1. Plus(pc, 4) = 4 * (w + 1)
      <3>1. WordMod \in Nat /\ w + 1 <= MaxCycle /\ 4 * (w + 1) \in 0 .. WordMod - 1
        BY <1>7, Moduli
      <3>2. pc + 4 = 4 * (w + 1)
        BY <1>7
      <3>3. \A x \in 0 .. WordMod - 1 : x % WordMod = x
        BY <3>1
      <3> QED
        BY <3>1, <3>2, <3>3 DEF Plus
    <2> QED
      BY <1>6, <1>7, <2>1
  <1> HIDE DEF v
  <1>9. Lost' = Lost + IF f.wait > 0 THEN 1 ELSE 0
    BY <1>1, <1>3, <1>6 DEF Lost, Fill, Tallies
  <1>10. Paced(v)'
    <2>1. /\ Clock' = IF r.delay = 0 THEN Clock + 1 ELSE Clock
          /\ dStats'.misses <= cycle'
      BY <1>1, <1>5, <1>7, ClockMoves DEF Answered, CachesMove
    <2>2. v <= cycle + 1 /\ Clock' <= v + Lost' /\ v + Lost' <= cycle + 1
      BY <1>7, <1>9, <2>1 DEF v
    <2> QED
      BY <1>7, <1>8, <2>1, <2>2 DEF Paced
  <1>11. /\ haltSeen => k = n /\ f.wait = 0
         /\ ~ haltSeen => k = IF f.wait = 0 THEN w + 1 ELSE w
    BY <1>3 DEF Tallies
  <1>12. Tally(v, k)'
    <2>1. I!AllReady(iLines', cycle' + Fill')
      <3>1. /\ iLines' = f.lines /\ iLines' \in I!LinesOver(Byte)
            /\ cycle' + Fill' >= cycle + f.wait /\ cycle' + Fill' \in Nat
        BY <1>1, <1>5, <1>6, <1>7 DEF Fill, CachesMove, FetchLeaves
      <3>2. \A i \in I!Sets, j \in I!Ways : iLines'[i][j].cycleReady \in Nat
        BY <3>1, Geometries, I!LineParts
      <3>3. I!AllReady(iLines', cycle + f.wait)
        BY <1>3, <3>1 DEF Tallies
      <3> QED
        BY <1>7, <3>1, <3>2, <3>3 DEF I!AllReady
    <2>2. ~ haltSeen' => k \in {v, v + 1}
      BY <1>6, <1>7, <1>11 DEF v
    <2>3. \/ Tallied(k, iStats')
          \/ Borrowed(k, iStats') /\ ~ haltSeen' /\ k = v /\ Present(iLines)'
      <3>1. CASE Tallied(k, f.stats)
        BY <1>1, <3>1
      <3>2. CASE Borrowed(k, f.stats) /\ f.wait > 0 /\ Present(f.lines)
        <4>1. ~ haltSeen /\ k = w /\ v = w
          BY <1>7, <1>11, <3>2 DEF v
        <4>2. ~ haltSeen'
          BY <1>1, <1>6, <3>2, <4>1, MipsAssumption DEF FetchedRight, Found, Missing
        <4>3. pc' = pc /\ iLines' = f.lines
          BY <1>5, <1>7, <1>8, <4>1 DEF CachesMove
        <4> QED
          BY <1>1, <3>2, <4>1, <4>2, <4>3 DEF Present
      <3> QED
        BY <1>3, <3>1, <3>2 DEF Tallies
    <2>4. lastPc' = AddressAt(k)
      BY <1>3, <1>6 DEF Tallies
    <2> QED
      BY <2>1, <2>2, <2>3, <2>4 DEF Tally
  <1>13. HaltOnWay(v, k)'
    <2>1. Operands.op = idex.op /\ Operands.at = idex.at /\ ~ ExOverflow(Operands)
      <3>1. Operands.op = idex.op /\ Operands.at = idex.at /\ Operands \in Latch
        BY StageTypes DEF SameInstr
      <3>2. ExOverflow(Operands) <=> Operands.at # None /\ OverflowIn(S2)
        BY <3>1, FlightReached, ExecuteRight DEF Flight
      <3> QED
        BY <1>4, <3>1, <3>2 DEF Overflowing
    <2>2. Execute(Operands).op = idex.op /\ Execute(Operands).at = idex.at
      <3> DEFINE e == Operands
      <3>1. e \in Latch
        BY StageTypes
      <3> HIDE DEF e
      <3>2. ~ ExOverflow(e) => Execute(e).op = e.op /\ Execute(e).at = e.at
        BY <3>1 DEF Execute, Latch
      <3> QED
        BY <2>1, <3>2 DEF e
    <2>3. r.latch.op = exmem.op /\ r.latch.at = exmem.at
      BY <1>1 DEF MemLeaves
    <2>4. Bubble.op # "halt"
      BY DEF Bubble
    <2>5. haltSeen => haltSeen' /\ k = n
      BY <1>6, <1>11
    <2>6. CASE r.delay # 0
      <3>1. v = w
        BY <2>6 DEF v
      <3> QED
        BY <1>2, <1>5, <1>6, <2>1, <2>3, <2>4, <2>5, <2>6, <3>1 DEF HaltOnWay, Last
    <2>7. CASE r.delay = 0
      <3>1. haltSeen => v = w + 1
        BY <1>11, <2>7 DEF v
      <3>2. ifid'.word = HaltWord => Last(ifid, 1, v, k)'
        <4> SUFFICES ASSUME f.word = HaltWord
                     PROVE  haltSeen' /\ k > 0 /\ f.at = 4 * (k - 1) /\ v + 1 = k + 1
          BY <1>6, <2>7 DEF Last
        <4>1. Found(f)
          BY <1>1, MipsAssumption DEF FetchedRight, Missing
        <4>2. CASE haltSeen
          <5>1. f.at = pc /\ pc = lastPc
            BY <4>1, <4>2, MipsAssumption DEF Found
          <5>2. lastPc = AddressAt(n)
            BY <1>2 DEF Tally
          <5>3. n > 0 /\ w = n - 1
            BY <1>7, <5>1, <5>2 DEF AddressAt
          <5> QED
            BY <1>7, <2>5, <3>1, <4>2, <5>1, <5>3
        <4>3. CASE ~ haltSeen
          <5>1. f.at = pc /\ f.wait = 0
            BY <4>1, <4>3 DEF Found
          <5>2. k = w + 1 /\ v = w + 1
            BY <1>11, <2>7, <4>3, <5>1 DEF v
          <5> QED
            BY <1>6, <1>7, <5>1, <5>2
        <4> QED
          BY <4>2, <4>3
      <3>3. idex'.op = "halt" => Last(idex, 2, v, k)'
        <4>1. idex'.op = "halt" => Last(ifid, 1, w, n)
          BY <1>2, <1>4, <1>5, <2>7 DEF HaltOnWay
        <4> QED
          BY <1>4, <1>5, <2>5, <2>7, <3>1, <4>1 DEF Last
      <3>4. exmem'.op = "halt" => Last(exmem, 3, v, k)'
        <4>1. exmem'.op = "halt" => Last(idex, 2, w, n)
          BY <1>2, <1>5, <2>2, <2>7 DEF HaltOnWay
        <4> QED
          BY <1>5, <2>2, <2>5, <2>7, <3>1, <4>1 DEF Last
      <3>5. memwb'.op = "halt" => Last(memwb, 4, v, k)'
        <4>1. memwb'.op = "halt" => Last(exmem, 3, w, n)
          BY <1>2, <1>5, <2>3, <2>7 DEF HaltOnWay
        <4> QED
          BY <1>5, <2>3, <2>5, <2>7, <3>1, <4>1 DEF Last
      <3> QED
        BY <3>2, <3>3, <3>4, <3>5 DEF HaltOnWay
    <2> QED
      BY <2>6, <2>7
  <1> QED
    BY <1>8, <1>10, <1>12, <1>13 DEF Counted

\* A cycle in which everything waits for the data cache.
LEMMA FreezeCounts ==
  ASSUME PipeInv, PipeInv', Freeze, Counted
  PROVE  Counted'
  <1>1. PICK w \in Nat, n \in Nat : Paced(w) /\ Tally(w, n) /\ HaltOnWay(w, n)
    BY DEF Counted
  <1>2. /\ UNCHANGED <<iLines, iStats, dStats, pc, ifid, haltSeen, lastPc, idex, exmem, memwb>>
        /\ cycle' = cycle + 1 /\ fetchHalt' = IF fetchHalt > 0 THEN fetchHalt - 1 ELSE 0
    BY DEF Freeze, cacheVars, latchVars
  <1>3. /\ cycle \in Nat /\ fetchHalt \in Nat /\ ICLatency * iStats.misses \in Int
        /\ iLines \in I!LinesOver(Byte)
    <2>1. cycle \in Nat /\ fetchHalt \in Nat /\ iStats.misses \in Nat /\ ICLatency \in Nat
      BY PipelineAssumption DEF PipeInv, TypeOK, Counters
    <2> QED
      BY <2>1, TypedLines DEF LinesTyped, PipeInv
  <1>4. Fill \in Nat /\ Fill' \in Nat /\ Fill' <= Fill /\ Fill <= Fill' + 1
    BY <1>2, <1>3 DEF Fill
  <1>5. Lost \in Int /\ Lost' \in Int /\ Lost <= Lost' /\ Lost' <= Lost + 1
    <2> DEFINE x == ICLatency * iStats.misses
    <2>1. x \in Int /\ Lost = x - Fill /\ Lost' = x - Fill'
      BY <1>2, <1>3 DEF Lost
    <2> HIDE DEF x
    <2>2. \A a \in Nat, b \in Nat : b <= a /\ a <= b + 1 =>
            x - a \in Int /\ x - b \in Int /\ x - a <= x - b /\ x - b <= (x - a) + 1
      BY <2>1
    <2> QED
      BY <1>4, <2>1, <2>2
  <1>6. Paced(w)'
    <2>1. Clock' = Clock /\ dStats'.misses <= cycle' /\ Clock \in Int
      BY <1>1, ClockStands, ClockTypes DEF Paced
    <2>2. \A a \in Int, b \in Int : a <= b /\ b <= a + 1 /\ Clock <= w + a /\ w + a <= cycle =>
            Clock <= w + b /\ w + b <= cycle + 1
      BY <1>3, <2>1
    <2>3. Clock' <= w + Lost' /\ w + Lost' <= cycle' /\ w <= cycle'
      <3>1. Clock <= w + Lost /\ w + Lost <= cycle /\ w <= cycle
        BY <1>1 DEF Paced
      <3>2. Clock <= w + Lost' /\ w + Lost' <= cycle + 1
        BY ONLY <1>5, <2>2, <3>1
      <3>3. w <= cycle + 1
        BY <1>3, <3>1
      <3> QED
        BY <1>2, <2>1, <3>2, <3>3
    <2> QED
      BY <1>1, <1>2, <2>1, <2>3 DEF Paced
  <1>7. Tally(w, n)'
    <2>1. I!AllReady(iLines, cycle + Fill)
      BY <1>1 DEF Tally
    <2>2. \A i \in I!Sets, j \in I!Ways : iLines[i][j].cycleReady \in Nat
      BY <1>3, Geometries, I!LineParts
    <2>3. cycle + Fill \in Nat /\ cycle' + Fill' \in Nat /\ cycle + Fill <= cycle' + Fill'
      <3>1. \A a \in Nat, b \in Nat : b <= a /\ a <= b + 1 =>
              cycle + a \in Nat /\ cycle + 1 + b \in Nat /\ cycle + a <= cycle + 1 + b
        BY <1>3
      <3> QED
        BY <1>2, <1>4, <3>1
    <2>4. I!AllReady(iLines', cycle' + Fill')
      BY <1>2, <2>1, <2>2, <2>3 DEF I!AllReady
    <2>5. Present(iLines)' <=> Present(iLines)
      BY <1>2 DEF Present
    <2> QED
      BY <1>1, <1>2, <2>4, <2>5 DEF Tally
  <1>8. HaltOnWay(w, n)'
    BY <1>1, <1>2 DEF HaltOnWay, Last
  <1> QED
    BY <1>6, <1>7, <1>8 DEF Counted

\* The cycle that writes the halt word back.
LEMMA HaltCounts ==
  ASSUME PipeInv, PipeInv', NEW m, NEW T, NEW G, Flight(m, T, G), Cycle, LockCycle, ~ Clash,
         memwb.op = "halt", cycle < MaxCycle, MaxCycle < CounterMod, Counted, late' = 0
  PROVE  ClockAtHalt'
  <1>1. PICK w \in Nat, n \in Nat : Paced(w) /\ Tally(w, n) /\ HaltOnWay(w, n)
    BY DEF Counted
  <1>2. haltSeen /\ n > 0 /\ memwb.at = 4 * (n - 1) /\ w = n + 3
    BY <1>1 DEF HaltOnWay, Last
  <1>3. rpc' = 4 * (n - 1)
    <2>1. /\ Reached(S0, m, T, G) /\ WbOK(memwb, S0) /\ ~ rfailed
      BY DEF Flight
    <2>2. AtEnd(S0) /\ S0' = S0 /\ memwb.at # None
      BY <2>1, ReferenceMoves, WbHalts
    <2>3. memwb.at = rpc
      BY <2>1, <2>2 DEF WbOK, Of, AtEnd, CurOf, S0
    <2>4. rpc' = rpc
      BY <2>2 DEF S0
    <2> QED
      BY <1>2, <2>3, <2>4
  <1>4. iStats' = iStats
    <2>1. PICK u \in Byte : iStats' = Unread(Fetch(u)).stats
      BY CycleFetches
    <2> QED
      BY <1>2, <2>1, FetchHalts DEF Unread
  <1>5. dStats'.misses >= dStats.misses /\ dStats'.misses \in Nat
    <2>1. PICK r : Answered(r, m, T) /\ dStats' = r.stats
      BY CycleFetches DEF CycleMoves, CachesMove
    <2>2. Charged(r.delay, dStats')
      BY <2>1 DEF Answered
    <2>3. dStats.misses \in Nat /\ dStats.misses + 1 < CounterMod /\ CounterMod \in Nat
      BY <1>1, ClockTypes, PipelineAssumption DEF Paced
    <2> QED
      BY <2>2, <2>3 DEF Charged
  <1>6. iStats.misses \in Nat /\ iStats.hits \in Nat /\ ICLatency \in Nat /\ fetchHalt \in Nat
    BY PipelineAssumption DEF PipeInv, TypeOK, Counters
  <1>7. Lost = ICLatency * iStats.misses /\ Lost \in Int
    <2>1. Fill = 0
      BY <1>2, <1>6 DEF Flight, WaitsEmpty, Fill
    <2>2. ICLatency * iStats.misses \in Int
      BY <1>6
    <2> QED
      BY <2>1, <2>2 DEF Lost
  <1>8. /\ cycle \in Nat /\ Clock = cycle - DCLatency * dStats.misses
        /\ DCLatency * dStats.misses \in Int /\ DCLatency * dStats'.misses \in Int
        /\ DCLatency * dStats.misses <= DCLatency * dStats'.misses
    <2>1. memHalt <= 1 /\ DCLatency \in Nat /\ dStats.misses \in Nat /\ cycle \in Nat
      BY ClockTypes DEF Cycle
    <2>2. DCLatency * dStats.misses <= DCLatency * dStats'.misses
      BY <1>5, <2>1
    <2> QED
      BY <1>5, <2>1, <2>2, ClockTypes DEF Now
  <1>9. Clock <= n + 3 + Lost /\ n + 3 + Lost <= cycle
    BY <1>1, <1>2 DEF Paced
  <1>10. iStats.hits + iStats.misses = n
    BY <1>1, <1>2, <1>6 DEF Tally, Tallied
  <1>11. rpc' \div 4 = n - 1
    <2>1. 4 * (n - 1) = (n - 1) * 4 + 0 /\ n - 1 \in Nat
      BY <1>2
    <2>2. rpc' \in Nat /\ 4 \in Nat \ {0} /\ 0 \in 0 .. 4 - 1
      BY <1>3, <2>1
    <2> DEFINE q == rpc' \div 4
               e == rpc' % 4
    <2>3. q \in Nat /\ rpc' = q * 4 + e /\ e \in 0 .. 4 - 1
      BY <2>2, Division
    <2> HIDE DEF q, e
    <2> QED
      BY <1>3, <2>1, <2>2, <2>3, Quotient DEF q
  <1>12. cycle' = cycle + 1
    BY DEF Cycle, Advance
  <1> DEFINE x == DCLatency * dStats.misses
             y == DCLatency * dStats'.misses
  <1>13. x \in Int /\ y \in Int /\ x <= y /\ Clock = cycle - x
    BY <1>8
  <1> HIDE DEF x, y
  <1>14. cycle' - late' \in (n - 1) + 5 + Lost .. (n - 1) + 5 + Lost + y
    BY <1>7, <1>8, <1>9, <1>12, <1>13
  <1> QED
    BY <1>4, <1>7, <1>10, <1>11, <1>14 DEF ClockAtHalt, y

\* The inductive invariant of a driver of straight code.
InCount ==
  /\ Sound /\ Dumped /\ late \in Nat
  /\ IF halted THEN ClockAtHalt ELSE late = 0 /\ Counted
  /\ \E T, G : /\ Certifies(T, G, Again) /\ Serves(T, G)
               /\ \A m \in Images \union Again : \A s \in G[m] : Straight(s)

\* A simulation that starts has counted nothing.
LEMMA StartCounts == Started => Counted
  <1> SUFFICES ASSUME Started
               PROVE  Counted
    OBVIOUS
  <1>1. /\ pc = 0 /\ cycle = 0 /\ memHalt = 0 /\ fetchHalt = 0 /\ lastPc = None
        /\ iStats = [hits |-> 0, misses |-> 0] /\ dStats = [hits |-> 0, misses |-> 0]
        /\ iLines = I!EmptyLines /\ ~ haltSeen
        /\ ifid.word # HaltWord /\ idex.op # "halt" /\ exmem.op # "halt" /\ memwb.op # "halt"
    BY ICacheSame, MipsAssumption DEF Started, EmptyFetch, Bubble
  <1>2. Fill = 0 /\ Lost = 0 /\ Clock = 0
    <2>1. ICLatency \in Nat /\ DCLatency \in Nat
      BY PipelineAssumption
    <2>2. iStats.misses = 0 /\ dStats.misses = 0
      BY <1>1
    <2>3. ICLatency * 0 = 0 /\ DCLatency * 0 = 0
      BY <2>1
    <2> QED
      BY <1>1, <2>2, <2>3 DEF Fill, Lost, Clock, Now
  <1>3. Paced(0)
    BY <1>1, <1>2 DEF Paced
  <1>4. Tally(0, 0)
    <2>1. I!AllReady(iLines, 0)
      BY <1>1 DEF I!AllReady, I!EmptyLines, I!EmptyLine
    <2> QED
      BY <1>1, <1>2, <2>1 DEF Tally, Tallied, AddressAt
  <1>5. HaltOnWay(0, 0)
    BY <1>1 DEF HaltOnWay
  <1> QED
    BY <1>3, <1>4, <1>5 DEF Counted

LEMMA SameCounts ==
  ASSUME UNCHANGED <<iLines, iStats, dStats, pc, ifid, idex, exmem, memwb, haltSeen,
                     fetchHalt, memHalt, lastPc, cycle, halted, rpc, rfailed, late>>
  PROVE  (Counted' <=> Counted) /\ (ClockAtHalt' <=> ClockAtHalt)
  <1>1. Fill' = Fill /\ Lost' = Lost /\ Clock' = Clock /\ (Present(iLines)' <=> Present(iLines))
    BY DEF Fill, Lost, Clock, Now, Present
  <1>2. ASSUME NEW w \in Nat, NEW n \in Nat
        PROVE  /\ Paced(w)' <=> Paced(w)
               /\ Tally(w, n)' <=> Tally(w, n)
               /\ HaltOnWay(w, n)' <=> HaltOnWay(w, n)
    <2>1. Paced(w)' <=> Paced(w)
      BY <1>1 DEF Paced
    <2>2. Tally(w, n)' <=> Tally(w, n)
      BY <1>1 DEF Tally
    <2>3. HaltOnWay(w, n)' <=> HaltOnWay(w, n)
      BY DEF HaltOnWay, Last
    <2> QED
      BY <2>1, <2>2, <2>3
  <1>3. Counted' <=> Counted
    <2>1. ASSUME Counted
          PROVE  Counted'
      <3>1. PICK w \in Nat, n \in Nat : Paced(w) /\ Tally(w, n) /\ HaltOnWay(w, n)
        BY <2>1 DEF Counted
      <3>2. Paced(w)' /\ Tally(w, n)' /\ HaltOnWay(w, n)'
        BY <1>2, <3>1
      <3> QED
        BY <3>2 DEF Counted
    <2>2. ASSUME Counted'
          PROVE  Counted
      <3>1. PICK w \in Nat, n \in Nat : Paced(w)' /\ Tally(w, n)' /\ HaltOnWay(w, n)'
        BY <2>2 DEF Counted
      <3>2. Paced(w) /\ Tally(w, n) /\ HaltOnWay(w, n)
        BY <1>2, <3>1
      <3> QED
        BY <3>2 DEF Counted
    <2> QED
      BY <2>1, <2>2
  <1> QED
    BY <1>3 DEF ClockAtHalt

LEMMA CountStep ==
  ASSUME InCount, MaxCycle < CounterMod, 4 * MaxCycle < WordMod,
         [DriverNext /\ (CallCycle => ~ Clash)]_driverVars
  PROVE  InCount'
  <1>1. PICK T, G : /\ Certifies(T, G, Again) /\ Serves(T, G)
                    /\ \A m \in Images \union Again : \A s \in G[m] : Straight(s)
    BY DEF InCount
  <1>2. Sound' /\ Dumped' /\ Serves(T, G)'
    BY <1>1, DriveStepAt DEF InCount
  <1>3. Sound /\ PipeInv /\ PipeInv' /\ late \in Nat
        /\ IF halted THEN ClockAtHalt ELSE late = 0 /\ Counted
    BY <1>2 DEF InCount, Sound
  <1>4. late' \in Nat /\ IF halted' THEN ClockAtHalt' ELSE late' = 0 /\ Counted'
    <2>1. CASE RunCycles \/ RunTillHalt \/ FinalizeSimulator \/ UNCHANGED driverVars
      <3>1. UNCHANGED <<iLines, iStats, dStats, pc, ifid, idex, exmem, memwb, haltSeen,
                        fetchHalt, memHalt, lastPc, cycle, halted, rpc, rfailed, late>>
        <4>1. CASE FinalizeSimulator
          BY <4>1 DEF FinalizeSimulator, fetchVars, latchVars, refVars
        <4>2. CASE RunCycles \/ RunTillHalt \/ UNCHANGED driverVars
          <5>1. UNCHANGED <<lockVars, late>>
            BY <4>2 DEF RunCycles, RunTillHalt, Call, driverVars, driverState
          <5> QED
            BY <5>1 DEF lockVars, vars, cacheVars, fetchVars, latchVars, refVars
        <4> QED
          BY <2>1, <4>1, <4>2
      <3> QED
        BY <1>3, <3>1, SameCounts
    <2>2. CASE Restart
      <3>1. late' = 0 /\ halted' = FALSE
        BY <2>2 DEF Restart, InitSimulator
      <3>2. Started' => Counted'
        BY StartCounts, PTL
      <3> QED
        BY <1>3, <2>2, <3>1, <3>2, RestartStarts
    <2>3. CASE CallCycle /\ ~ Clash /\ halted
      <3>1. UNCHANGED <<cacheVars, refVars>> /\ late' = late + 1
        BY <1>3, <2>3, QuietCall DEF CallCycle
      <3>2. cycle' = cycle + 1 /\ halted'
        BY <2>3 DEF CallCycle, LockCycle, Retire, Other, Freeze, Cycle, Advance
      <3>3. cycle' - late' = cycle - late
        BY <1>3, <3>1, <3>2 DEF PipeInv, TypeOK
      <3>4. UNCHANGED <<iStats, dStats, rpc, rfailed>>
        BY <3>1 DEF cacheVars, refVars
      <3>5. ClockAtHalt
        BY <1>3, <2>3
      <3>6. ClockAtHalt'
        BY <2>3, <3>3, <3>4, <3>5 DEF ClockAtHalt
      <3> QED
        BY <1>3, <3>1, <3>2, <3>6
    <2>4. CASE CallCycle /\ ~ Clash /\ ~ halted
      <3>1. late = 0 /\ late' = 0 /\ Counted /\ cycle < MaxCycle /\ LockCycle
        BY <1>3, <2>4 DEF CallCycle
      <3>2. PICK m \in Images \union Again : Flight(m, T[m], G[m])
        BY <1>1 DEF Serves
      <3>3. \A s \in G[m] : Straight(s)
        BY <1>1
      <3>4. CASE Freeze
        <4>1. halted' = halted
          BY <3>4 DEF Freeze
        <4> QED
          BY <1>3, <2>4, <3>1, <3>4, <4>1, FreezeCounts
      <3>5. CASE Cycle
        <4>1. halted' = (halted \/ memwb.op = "halt")
          BY <3>5 DEF Cycle, Advance
        <4>2. CASE memwb.op = "halt"
          BY <1>3, <2>4, <3>1, <3>2, <3>5, <4>1, <4>2, HaltCounts
        <4>3. CASE memwb.op # "halt"
          BY <1>3, <2>4, <3>1, <3>2, <3>3, <3>5, <4>1, <4>3, CycleCounts
        <4> QED
          BY <4>2, <4>3
      <3> QED
        BY <3>1, <3>4, <3>5 DEF LockCycle, Retire, Other
    <2> QED
      BY <2>1, <2>2, <2>3, <2>4 DEF DriverNext
  <1> QED
    BY <1>1, <1>2, <1>4 DEF InCount

\* The cycles, and the hits and misses of the instruction cache, that
\* finalizeSimulator prints for a halted program without branches, jumps,
\* exceptions and uses of a load by the instruction behind it: what the program
\* needs by itself, whatever misses the two caches have and however the driver
\* cuts the run into calls of runCycles and runTillHalt, also in a second
\* simulation, as long as neither pc nor a counter wraps around.
THEOREM DriverClock ==
  ASSUME RunsStraight(Again), MaxCycle < CounterMod, 4 * MaxCycle < WordMod
  PROVE  ClearDriver => []ClockAtHalt
  <1>1. DriverInit => InCount
    <2> SUFFICES ASSUME DriverInit
                 PROVE  InCount
      OBVIOUS
    <2>1. PICK T, G : /\ Certifies(T, G, Again)
                      /\ \A m \in Images \union Again : \A s \in G[m] : Straight(s)
      BY DEF RunsStraight
    <2>2. Sound /\ Dumped /\ Serves(T, G)
      BY <2>1, DriveInitAt
    <2>3. Started /\ late = 0
      BY InitStarts DEF DriverInit, LockInit
    <2>4. halted = FALSE /\ Counted
      BY <2>3, StartCounts DEF Started
    <2> QED
      BY <2>1, <2>2, <2>3, <2>4 DEF InCount
  <1>2. InCount /\ [DriverNext /\ (CallCycle => ~ Clash)]_driverVars => InCount'
    BY CountStep
  <1>3. InCount => ClockAtHalt
    BY DEF InCount, ClockAtHalt
  <1> QED
    BY <1>1, <1>2, <1>3, PTL DEF ClearDriver

=============================================================================
