--------------------------- MODULE MCEarlierCache ---------------------------
(***************************************************************************)
(* An instance of the two versions of the cache for TLC.                   *)
(***************************************************************************)
EXTENDS EarlierCache

MCByte    == 0 .. 2
MCInitMem == [a \in Addr |-> a % 3]
MCGarbage == {0, 1}

\* Loads of a whole block and of its second byte, stores of one byte and of a
\* whole block.
MCCalls ==
  {r \in LoadCalls : r.n = 2 \/ (r.n = 1 /\ r.addr % 2 = 1)}
  \union {r \in StoreCalls : r.data \in {<<1>>, <<2, 0>>}}

=============================================================================
