----------------------------- MODULE MCLockstep -----------------------------
(***************************************************************************)
(* Instances of the lockstep specification for TLC: all programs of a few  *)
(* instructions over an alphabet.  In words of memory:                     *)
(*   0 .. 3   the program           4           the halt word              *)
(*   5 .. 7   data                  8           the exception handler      *)
(*   9 ..     the halt word                                                *)
(* Memory ends one byte short of a block, as it does in the code.          *)
(***************************************************************************)
EXTENDS Programs

CONSTANTS
  Alphabet,  \* the instructions of words 1, 2, 3, ...
  Families,  \* sets of words: those of one program are all from one of them
  Handler    \* the word at the start of the exception handler

\* The counters do not wrap within the cycles of a run, as 32 bits do not in any
\* run one waits for.
ASSUME CountersSuffice == MaxCycle < CounterMod

A(op, d, s, t) == [op |-> op, rs |-> s, rt |-> t, rd |-> d, imm |-> 0]
K(op, t, s, i) == [op |-> op, rs |-> s, rt |-> t, rd |-> 0, imm |-> i]

\* The halt word is made of two bytes in turn, like 0xfeedfeed.
MCHalt == 238
MCCode ==
  [w \in Word |-> IF w \in 1 .. Len(Alphabet) THEN Alphabet[w]
                  ELSE IF w = MCHalt THEN K("halt", 0, 0, 0) ELSE Nop]

\* Programs without a control transfer or the halt word in a delay slot, and
\* with branches that stay within the program.
Control(w) == MCCode[w].op \in Branches \union Jumps
Outside(c, w) == MCCode[w].op \in Branches /\ c + 1 + MCCode[w].imm > 4
MCImages ==
  LET Programs == {p \in UNION {[0 .. 3 -> {0} \union f] : f \in Families} :
                     /\ ~ Control(p[3])
                     /\ \A c \in 0 .. 3 : ~ Outside(c, p[c])
                     /\ \A c \in 0 .. 2 : ~ (Control(p[c]) /\ Control(p[c + 1]))}
      Cell(p, c) == CASE c \in 0 .. 3 -> p[c]
                      [] c = 5 -> 28 [] c = 6 -> 80 [] c = 7 -> 224
                      [] c = 8 -> Handler [] OTHER -> MCHalt
  IN  {[a \in Addr |-> BytesOf(Cell(p, a \div 4), 4)[(a % 4) + 1]] : p \in Programs}

\* Dependences of every distance between arithmetic, loads and stores of every
\* size, branches and jumps.  No branch compares a register with itself, and no
\* access crosses a block.
MCHazards ==
  << K("addiu", 1, 0, 22), A("addu", 2, 1, 1), A("addu", 1, 2, 1),
     K("lw", 1, 0, 20), K("lhu", 2, 1, 0), K("lbu", 1, 2, 20),
     K("sw", 2, 0, 24), K("sh", 2, 0, 20), K("sb", 1, 0, 23),
     K("beq", 1, 2, 2), K("bne", 2, 1, 0), K("jal", 0, 0, 2), K("jr", 0, 3, 0) >>

\* Exceptions: overflows, unknown opcodes and function codes, in straight
\* code, in delay slots and behind data misses.  No branch waits for a value
\* while an instruction overflows.
MCExceptions ==
  << K("lw", 1, 0, 24), K("lbu", 2, 0, 28), A("add", 1, 1, 1), A("sub", 2, 2, 1),
     K("addi", 1, 1, 48), K("illegal", 0, 0, 0), K("badFunct", 0, 0, 0),
     K("sw", 1, 0, 20), K("j", 0, 0, 3), K("jal", 0, 0, 3), K("jr", 0, 3, 0) >>

MCProgramAlphabet == MCHazards \o MCExceptions
MCProgramFamilies == {1 .. Len(MCHazards), Len(MCHazards) + 1 .. Len(MCProgramAlphabet)}
MCOneFamily       == {1 .. Len(Alphabet)}

\* Instructions that never stall and never leave the straight path.
MCStraight ==
  << K("addiu", 1, 0, 22), A("addu", 2, 1, 1), K("sw", 1, 0, 20), K("sb", 2, 0, 26) >>

\* What instruction misses meet: loads and their uses, stores, branches, jumps,
\* overflows and unknown opcodes.
MCMixed ==
  << K("addiu", 1, 0, 22), A("addu", 2, 1, 1), K("lw", 1, 0, 24), K("sw", 2, 0, 20),
     K("sb", 1, 0, 23), K("beq", 1, 2, 2), K("jal", 0, 0, 2), K("jr", 0, 3, 0),
     A("add", 1, 1, 1), K("illegal", 0, 0, 0) >>

\* A jump over an instruction; a branch on one register just written.
MCJump     == << K("j", 0, 0, 4), K("addiu", 1, 0, 1) >>
MCSelfBeq  == << K("addiu", 1, 0, 5), K("beq", 1, 1, 2) >>

\* The text of these programs, and the states one of them goes through, to its
\* end or to where it is no longer among those of Programs.
MCText == {a \in Addr : a < 20 \/ a >= 32}
RECURSIVE Trail(_, _, _)
Trail(s, m, n) ==
  {s} \union IF n = 0 \/ ~ Meant(s, m, MCText) THEN {} ELSE Trail(StepOf(s), m, n - 1)
MCTrail(m) == Trail(Start(m), m, MaxCycle)

\* Programs says something of each of these instructions: a program it
\* certifies runs it.  It leaves out branches that compare a register with
\* itself.
SelfBranch(i) == i.op \in {"beq", "bne"} /\ i.rs = i.rt /\ i.rs # 0
Shown(m, w) ==
  /\ \E c \in 0 .. 3 : ReadMem(m, 4 * c, 4) = w
  /\ \E s \in MCTrail(m) : WordIn(s) = w
  /\ Certified(m, MCText, MCTrail(m))
ASSUME EachIsMeant ==
  \A w \in 1 .. Len(Alphabet) :
    SelfBranch(MCCode[w]) \/ \E m \in MCImages : Shown(m, w)
=============================================================================
