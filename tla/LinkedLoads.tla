---------------------------- MODULE LinkedLoads ----------------------------
(***************************************************************************)
(* The functional simulator on its own, with a history of the word a       *)
(* load-linked reserved: what a successful store-conditional promises to   *)
(* the program.                                                            *)
(***************************************************************************)
EXTENDS Sequential

CONSTANT Images  \* the memories a program may be started with

ASSUME ImagesAssumption == Images \subseteq [Addr -> Byte]

VARIABLES
  reserved,  \* history: the address of the last load-linked, or None
  loaded,    \* history: the word it loaded
  stored     \* history: a byte of the word there was stored to since

linkVars == <<vars, reserved, loaded, stored>>

\* The instruction the next step runs; a bubble where there is none to fetch.
Instruction == IF Backed(Current, 4) THEN Code[Fetched] ELSE Nop

\* The bytes a store or store-conditional writes, and those of a word.
Bytes(a, n) == a .. a + n - 1
Stored(i) ==
  /\ ~ Traps(i) /\ ~ Refused(i) /\ reserved # None
  /\ i.op \in Stores \/ (i.op = "sc" /\ link = Place(i))
  /\ Bytes(Place(i), Size(i.op)) \cap Bytes(reserved, 4) # {}

Watch(i) ==
  IF i.op = "ll"
  THEN IF Refused(i) THEN reserved' = None /\ UNCHANGED <<loaded, stored>>
       ELSE /\ reserved' = Place(i) /\ loaded' = ReadMem(mem, Place(i), 4)
            /\ stored' = FALSE
  ELSE /\ stored' = (stored \/ Stored(i))
       /\ UNCHANGED <<reserved, loaded>>

LinkInit ==
  /\ Init /\ mem \in Images
  /\ reserved = None /\ loaded = 0 /\ stored = FALSE

LinkNext == Next /\ Watch(Instruction)

LinkSpec == LinkInit /\ [][LinkNext]_linkVars

-----------------------------------------------------------------------------

\* While the link stands no byte of the reserved word was stored to since the
\* load-linked, and the word still holds what that loaded: however many stores
\* of bytes, half-words and words next to it or into it, aligned or not, failed
\* store-conditionals, jumps and exceptions came between.
LinkHolds ==
  link # None /\ ~ failed =>
    link = reserved /\ ~ stored /\ ReadMem(mem, link, 4) = loaded

\* While the program goes on, a link ends exactly at an exception, also in a delay
\* slot, at a store that touches a byte of its word, from either side, and at a
\* store-conditional: at every one of these and at no other instruction.  Every
\* store-conditional means also one to another address, which fails; where the
\* link is set (OP_LL of handleImmInst) the comment names only one that succeeds.
LinkLasts ==
  [][LET i == Instruction
     IN  link # None /\ ~ failed' =>
           (link' = None <=> Traps(i) \/ i.op = "sc" \/ Stored(i))]_linkVars

\* A store-conditional reports success exactly when it stores, and then the
\* program has replaced a word that nothing else wrote since it was loaded.
ConditionalIsAtomic ==
  [][LET i == Instruction
         a == Place(i)
     IN  i.op = "sc" /\ i.rt # 0 =>
           IF regs'[i.rt] = 1
           THEN /\ a = reserved /\ ~ stored /\ ReadMem(mem, a, 4) = loaded
                /\ ReadMem(mem', a, 4) = regs[i.rt]
           ELSE regs'[i.rt] = 0 /\ mem' = mem]_linkVars

=============================================================================
