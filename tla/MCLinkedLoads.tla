--------------------------- MODULE MCLinkedLoads ---------------------------
(***************************************************************************)
(* Instances of LinkedLoads for TLC: all programs of four instructions, at *)
(* address 0, over an alphabet of loads, stores of every size at and next  *)
(* to the linked words, their linked and conditional forms, jumps and      *)
(* exceptions.  Data are at 20 .. 27, the exception handler is at 32, the  *)
(* halt word is everywhere else.  The last byte of memory is at 39.        *)
(***************************************************************************)
EXTENDS LinkedLoads

K(op, t, s, i) == [op |-> op, rs |-> s, rt |-> t, rd |-> 0, imm |-> i]

Alphabet ==
  << K("ll", 1, 0, 20), K("ll", 1, 0, 22), K("sc", 1, 0, 20), K("sc", 2, 0, 22),
     K("sw", 1, 0, 24), K("sb", 1, 0, 23), K("sh", 2, 0, 19), K("sw", 2, 0, 16),
     K("addiu", 2, 2, 57), K("addi", 1, 1, 127), K("bgtz", 0, 1, 1),
     K("beq", 1, 2, 126), K("lhu", 2, 0, 25), K("lw", 0, 1, 0),
     K("jr", 0, 0, 0) >>

MCHalt == 238
MCCode ==
  [w \in Word |-> IF w \in 1 .. Len(Alphabet) THEN Alphabet[w]
                  ELSE IF w = MCHalt THEN K("halt", 0, 0, 0) ELSE Nop]

\* The handler goes on with the store-conditional of word 3, and then jumps
\* from the end of memory; the programs have no such jump.
MCImages ==
  LET Cell(p, c) == CASE c \in 0 .. 3 -> p[c] [] c = 5 -> 30 [] c = 6 -> 129
                      [] c = 8 -> 3 [] c = 9 -> Len(Alphabet) [] OTHER -> MCHalt
  IN  {[a \in Addr |-> BytesOf(Cell(p, a \div 4), 4)[(a % 4) + 1]] :
         p \in [0 .. 3 -> 1 .. Len(Alphabet) - 1]}

=============================================================================
