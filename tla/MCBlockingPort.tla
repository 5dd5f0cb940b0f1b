--------------------------- MODULE MCBlockingPort ---------------------------
(***************************************************************************)
(* Instances of the blocking port for TLC.                                 *)
(***************************************************************************)
EXTENDS BlockingPort

\* Memory starts with a different pattern in the even and the odd bytes, none
\* of them a value the stores write over the first blocks by accident.
MCByte    == 0 .. 2
MCInitMem == [a \in Addr |-> IF a % 3 = 0 THEN 2 ELSE 0]
MCGarbage == {0, 1}

\* Loads of one byte anywhere, and of two bytes in every other block; a byte
\* store at every address of a block with tag 0 and a half-word store to every
\* such block.
MCRequests ==
  {r \in LoadReq : InOneBlock(r) /\ r.n \in {1, 2} /\ (r.n = 2 => r.addr % 4 = 0)}
  \union
  {r \in StoreReq : /\ InOneBlock(r)
                    /\ Tag(r.addr) = 0
                    /\ r.data \in {<<1>>, <<2, 1>>}}

\* The same with stores to every block of memory.
MCAnyStore ==
  {r \in LoadReq : r.n = 1}
  \union {r \in StoreReq : r.data = <<1>>}

\* Loads of two bytes at every address: every other one lies in two blocks.
MCCrossing == {r \in LoadReq : r.n = 2}

=============================================================================
