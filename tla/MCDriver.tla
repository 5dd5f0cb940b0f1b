------------------------------ MODULE MCDriver ------------------------------
(***************************************************************************)
(* An instance of Driver for TLC: programs and memory are those of         *)
(* MCLockstep, with blocks of four words.  A second simulation runs the    *)
(* last letter of the alphabet all along.                                  *)
(***************************************************************************)
EXTENDS Driver, MCLockstep

\* The instruction at word c of the memory m.
Letter(m, c) == MCCode[ReadMem(m, 4 * c, 4)]

\* The halt word, word 4, is fetched while the second instruction is in the
\* memory stage: an instruction and a data miss in one cycle are not among the
\* cases, so the second instruction is not the first that stores.
MCDriven == {m \in MCImages : Letter(m, 1).op \in Stores => Letter(m, 0).op \in Stores}
MCAgain  == {m \in MCImages : \A c \in 0 .. 3 : Letter(m, c) = Alphabet[Len(Alphabet)]}

\* All of these programs behave and are straight, from whatever registers one
\* leaves to the next: the first letter puts 22 into register 1, the second
\* twice that into register 2.
MCLeft == {[r \in Reg |-> CASE r = 1 -> x [] r = 2 -> y [] OTHER -> 0] :
             x \in {0, 22}, y \in {0, 44}}
MCTexts  == [m \in Images \union Again |-> MCText]
MCStates == [m \in Images \union Again |->
               UNION {Trail(StartWith(rg, m), m, MaxCycle) : rg \in MCLeft}]
ASSUME AllBehave ==
  /\ Certifies(MCTexts, MCStates, Again)
  /\ \A m \in Images \union Again : \A s \in MCStates[m] : Straight(s)

=============================================================================
