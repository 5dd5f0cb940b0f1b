----------------------------- MODULE FlatMemory -----------------------------
(***************************************************************************)
(* What a program may rely on when it goes through the data cache: memory  *)
(* is one array of bytes, and accesses are answered one at a time, each    *)
(* with the bytes the array holds.  A store takes effect in full when it   *)
(* is answered; while it is pending, its first byte may already show.      *)
(***************************************************************************)
EXTENDS Integers, Sequences

CONSTANTS
  Requests,  \* loads [op, addr, n] and stores [op, addr, data]
  None       \* no request

VARIABLES
  store,     \* the bytes of memory
  pending,   \* the request being served, or None
  answer     \* the last request served and the bytes it moved, or None

vars == <<store, pending, answer>>

IsStore(r) == r.op = "store"
Size(r)    == IF IsStore(r) THEN Len(r.data) ELSE r.n

\* The bytes a load of r returns from memory s, and memory s after a store.
BytesAt(s, r) == [k \in 1 .. r.n |-> s[r.addr + k - 1]]
Written(s, r) ==
  [a \in DOMAIN s |-> IF a - r.addr \in 0 .. Len(r.data) - 1
                      THEN r.data[a - r.addr + 1] ELSE s[a]]

-----------------------------------------------------------------------------
Init == pending = None /\ answer = None

NextRequest == pending' \in Requests \union {None}

\* A cycle that serves nothing.
Accept == pending = None /\ NextRequest /\ UNCHANGED <<store, answer>>

\* The first byte of the pending store becomes visible early.
Reveal ==
  /\ pending # None /\ IsStore(pending)
  /\ store' = [store EXCEPT ![pending.addr] = pending.data[1]]
  /\ UNCHANGED <<pending, answer>>

Load ==
  /\ pending # None /\ ~ IsStore(pending)
  /\ answer' = [req |-> pending, bytes |-> BytesAt(store, pending)]
  /\ NextRequest
  /\ UNCHANGED store

Store ==
  /\ pending # None /\ IsStore(pending)
  /\ store' = Written(store, pending)
  /\ answer' = [req |-> pending, bytes |-> pending.data]
  /\ NextRequest

Next == Accept \/ Reveal \/ Load \/ Store

Spec == Init /\ [][Next]_vars

=============================================================================
