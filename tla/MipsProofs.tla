----------------------------- MODULE MipsProofs -----------------------------
(***************************************************************************)
(* Proofs about instructions, words and their bytes, for words and        *)
(* memories of every size.                                                 *)
(***************************************************************************)
EXTENDS Mips, TLAPS

-----------------------------------------------------------------------------
(***************************************************************************)
(* Words.                                                                  *)
(***************************************************************************)

LEMMA Moduli ==
  /\ WordMod \in Nat \ {0} /\ HalfWord \in Nat \ {0} /\ ByteMod \in Nat \ {0}
  /\ ImmMod \in Nat \ {0} /\ JumpMod \in Nat \ {0} /\ MemSize \in Nat
  /\ WordMod = 2 * HalfWord /\ MemSize <= WordMod /\ 0 \in Word
  BY MipsAssumption DEF WordMod, Word

LEMMA WordNat == Word \subseteq Nat /\ Word \subseteq Int
  BY Moduli DEF Word

LEMMA ModuloWord ==
  ASSUME NEW n \in Int
  PROVE  n % WordMod \in Word
  BY Moduli DEF Word

LEMMA PlusWord ==
  ASSUME NEW x \in Int, NEW y \in Int
  PROVE  Plus(x, y) \in Word /\ Minus(x, y) \in Word
  BY ModuloWord DEF Plus, Minus

LEMMA SignExtendInt ==
  ASSUME NEW k \in Nat
  PROVE  SignExtend(k) \in Int
  BY Moduli DEF SignExtend

\* A quotient is no larger than what was divided.
LEMMA QuotientSmaller ==
  ASSUME NEW x \in Nat, NEW d \in Nat \ {0}
  PROVE  x \div d \in 0 .. x
  <1> DEFINE q == x \div d
  <1>1. q \in Int /\ x = q * d + (x % d) /\ x % d \in 0 .. d - 1
    OBVIOUS
  <1> HIDE DEF q
  <1>2. CASE q < 0
    <2>1. q * d <= (-1) * d
      BY <1>1, <1>2
    <2> QED
      BY <1>1, <2>1
  <1>3. CASE q >= 0
    <2>1. q * d >= q
      BY <1>1, <1>3
    <2> QED
      BY <1>1, <1>3, <2>1 DEF q
  <1> QED
    BY <1>1, <1>2, <1>3

\* Every set of bits is that of a word.
LEMMA BitWordWord ==
  ASSUME NEW S \in SUBSET Bits
  PROVE  BitWord(S) \in Word
  <1>1. \E w \in Word : \A k \in Bits : BitOf(w, k) = 1 <=> k \in S
    BY MipsAssumption
  <1> QED
    BY <1>1 DEF BitWord

LEMMA BitsWord ==
  ASSUME NEW x, NEW y
  PROVE  AndBits(x, y) \in Word /\ OrBits(x, y) \in Word
  <1>1. {k \in Bits : BitOf(x, k) = 1 /\ BitOf(y, k) = 1} \in SUBSET Bits
    OBVIOUS
  <1>2. {k \in Bits : BitOf(x, k) = 1 \/ BitOf(y, k) = 1} \in SUBSET Bits
    OBVIOUS
  <1> QED
    BY <1>1, <1>2, BitWordWord DEF AndBits, OrBits

LEMMA LessWord ==
  ASSUME NEW x, NEW y
  PROVE  Less(x, y) \in Word
  BY Moduli DEF Less, Word

\* Every arithmetic instruction computes a word.
LEMMA AluWord ==
  ASSUME NEW op \in RAlu \union IAlu, NEW x \in Word, NEW y \in Word, NEW k \in Nat,
         op \in {"sll", "srl"} => k \in Bits
  PROVE  Alu(op, x, y, k) \in Word
  <1>1. x \in Nat /\ y \in Nat /\ SignExtend(k) \in Int /\ WordMod \in Nat \ {0}
    BY Moduli, SignExtendInt DEF Word
  <1>2. CASE op \in {"add", "addu", "sub", "subu", "addi", "addiu"}
    BY <1>1, <1>2, PlusWord DEF Alu
  <1>3. CASE op \in {"and", "or", "andi", "ori"}
    BY <1>3, BitsWord DEF Alu
  <1>4. CASE op = "nor"
    <2>1. OrBits(x, y) \in Word
      BY BitsWord
    <2> QED
      BY <1>1, <1>4, <2>1 DEF Alu, Word
  <1>5. CASE op \in {"slt", "sltu", "slti", "sltiu"}
    BY <1>5, LessWord DEF Alu
  <1>6. CASE op = "sll"
    <2>1. 2^k \in Nat
      BY <1>6, MipsAssumption
    <2>2. y * 2^k \in Int
      BY <1>1, <2>1
    <2> QED
      BY <1>6, <2>2, ModuloWord DEF Alu
  <1>7. CASE op = "srl"
    <2>1. 2^k \in Nat \ {0}
      BY <1>7, MipsAssumption
    <2>2. y \div 2^k \in 0 .. y
      BY <1>1, <2>1, QuotientSmaller
    <2> QED
      BY <1>1, <1>7, <2>2 DEF Alu, Word
  <1>8. CASE op = "lui"
    <2>1. WordMod \div ImmMod \in Int
      BY Moduli
    <2>2. k * (WordMod \div ImmMod) \in Int
      BY <2>1
    <2> QED
      BY <1>8, <2>2, ModuloWord DEF Alu
  <1> QED
    BY <1>2, <1>3, <1>4, <1>5, <1>6, <1>7, <1>8 DEF RAlu, IAlu

\* Jumps and branches go to words.
LEMMA JumpWord ==
  ASSUME NEW pc \in Word, NEW k \in Nat, k < JumpMod
  PROVE  JumpTarget(pc, k) \in Word
  <1> DEFINE n == Plus(pc, 4)
             d == 4 * JumpMod
             W == WordMod
  <1>1. n \in 0 .. W - 1 /\ d \in Nat \ {0} /\ W \in Nat \ {0} /\ W % d = 0
    <2>1. n \in Word
      BY PlusWord, WordNat
    <2>2. d \in Nat \ {0} /\ W \in Nat \ {0}
      BY Moduli
    <2>3. W % d = 0
      BY MipsAssumption
    <2> QED
      BY <2>1, <2>2, <2>3 DEF Word
  <1>2. k < JumpMod
    OBVIOUS
  <1>3. JumpTarget(pc, k) = n - (n % d) + 4 * k
    BY DEF JumpTarget
  <1> HIDE DEF n, W, d
  <1>4. n - (n % d) + d <= W
    <2> DEFINE q == n \div d
               m == W \div d
    <2>1. q \in Int /\ m \in Int /\ n = q * d + (n % d) /\ W = m * d + (W % d)
          /\ n % d \in 0 .. d - 1
      BY <1>1
    <2> HIDE DEF q, m
    <2>2. q * d < m * d
      BY <1>1, <2>1
    <2>3. q < m
      <3>1. CASE q >= m
        <4>1. q * d >= m * d
          BY <1>1, <2>1, <3>1
        <4> QED
          BY <1>1, <2>1, <2>2, <4>1
      <3> QED
        BY <2>1, <3>1
    <2>4. (q + 1) * d <= m * d
      BY <1>1, <2>1, <2>3
    <2> QED
      BY <1>1, <2>1, <2>4
  <1>5. n % d \in 0 .. n
    <2>1. n % d <= n
      <3> DEFINE q == n \div d
      <3>1. q \in Int /\ n = q * d + (n % d) /\ n % d \in 0 .. d - 1
        BY <1>1
      <3>2. q \in 0 .. n
        BY <1>1, QuotientSmaller
      <3> HIDE DEF q
      <3>3. q * d >= 0
        BY <1>1, <3>1, <3>2
      <3> QED
        BY <1>1, <3>1, <3>3
    <2> QED
      BY <1>1, <2>1
  <1>6. 4 * k < d /\ 4 * k \in Nat
    BY <1>2, Moduli DEF d
  <1>7. n - (n % d) + 4 * k \in 0 .. W - 1
    BY <1>1, <1>4, <1>5, <1>6
  <1> QED
    BY <1>3, <1>7 DEF Word, W

LEMMA BranchWord ==
  ASSUME NEW pc \in Word, NEW k \in Nat
  PROVE  BranchTarget(pc, k) \in Word
  <1>1. SignExtend(k) \in Int /\ pc \in Int
    BY SignExtendInt, WordNat
  <1> QED
    BY <1>1, PlusWord DEF BranchTarget

\* The address of a data access.
LEMMA DataWord ==
  ASSUME NEW x \in Word, NEW k \in Nat
  PROVE  DataAddr(x, k) \in Word
  BY SignExtendInt, PlusWord, WordNat DEF DataAddr

\* An instruction as the table of instructions has it.
Decoded(i) ==
  /\ i \in Instr
  /\ i.op \in {"sll", "srl"} => i.imm \in Bits
  /\ i.op \in {"j", "jal"} => i.imm < JumpMod

LEMMA CodeDecoded ==
  ASSUME NEW w \in Word
  PROVE  Decoded(Code[w])
  BY MipsAssumption DEF Decoded

LEMMA NopDecoded == Decoded(Nop)
  BY CodeDecoded, MipsAssumption, Moduli

-----------------------------------------------------------------------------
(***************************************************************************)
(* Memory.                                                                 *)
(***************************************************************************)

\* One digit more.
LEMMA Digit ==
  ASSUME NEW m \in Nat, NEW b \in Nat, NEW x \in Nat, NEW d \in Nat, x < m, d < b
  PROVE  x * b + d \in Nat /\ x * b + d < m * b
  <1>1. x * b \in Nat /\ m * b \in Nat
    OBVIOUS
  <1>2. (x + 1) * b <= m * b
    OBVIOUS
  <1>3. (x + 1) * b = x * b + b
    OBVIOUS
  <1> QED
    BY <1>1, <1>2, <1>3

\* The bytes of memory make words.
LEMMA WordOfWord ==
  ASSUME NEW n \in {1, 2, 4}, NEW b \in [1 .. n -> Byte]
  PROVE  WordOf(b) \in Word
  <1> DEFINE B == ByteMod
  <1>1. B \in Nat \ {0} /\ \A k \in 1 .. n : b[k] \in 0 .. B - 1
    BY Moduli DEF Byte
  <1>2. WordMod = B * B * B * B
    <2>1. WordMod = B * Weight[4]
      BY MipsAssumption DEF WordMod
    <2>2. Weight[4] = B * B * B
      BY DEF Weight
    <2> QED
      BY <1>1, <2>1, <2>2
  <1> HIDE DEF B
  <1>3. Len(b) = n
    <2>1. b \in Seq(Byte) /\ DOMAIN b = 1 .. n /\ n \in Nat
      BY ONLY n \in {1, 2, 4}, b \in [1 .. n -> Byte]
    <2> QED
      BY ONLY <2>1
  <1>4. B * B \in Nat /\ B * B * B \in Nat
    BY <1>1
  <1>5. B * B >= B
    BY <1>1
  <1>6. B * B * B * B >= B * B
    <2> DEFINE q == B * B
    <2>1. q \in Nat \ {0}
      BY <1>1, <1>5
    <2> HIDE DEF q
    <2>2. q * q >= q
      BY <2>1
    <2>3. q * q = B * B * B * B
      BY <1>1 DEF q
    <2> QED
      BY <2>2, <2>3 DEF q
  <1>7. CASE n = 1
    <2>1. b[1] \in 0 .. B - 1 /\ WordOf(b) = b[1]
      BY <1>1, <1>3, <1>7 DEF WordOf
    <2> QED
      BY <1>1, <1>2, <1>4, <1>5, <1>6, <2>1 DEF Word
  <1> DEFINE two == b[1] * B + b[2]
             three == two * B + b[3]
             four == three * B + b[4]
  <1>8. ASSUME n # 1
        PROVE  two \in Nat /\ two < B * B
    <2>1. b[1] \in Nat /\ b[2] \in Nat /\ b[1] < B /\ b[2] < B /\ B \in Nat
      BY <1>1, <1>8
    <2> QED
      BY <2>1, Digit
  <1>9. CASE n = 2
    <2>1. WordOf(b) = two
      BY <1>3, <1>9 DEF WordOf, B
    <2> HIDE DEF two
    <2> QED
      BY <1>1, <1>2, <1>4, <1>6, <1>8, <1>9, <2>1 DEF Word
  <1>10. CASE n = 4
    <2>1. WordOf(b) = four
      BY <1>3, <1>10 DEF WordOf, B
    <2>2. /\ two \in Nat /\ two < B * B /\ B \in Nat
          /\ b[3] \in Nat /\ b[4] \in Nat /\ b[3] < B /\ b[4] < B
      BY <1>1, <1>8, <1>10
    <2> HIDE DEF two
    <2>3. three \in Nat /\ three < B * B * B
      BY <1>4, <2>2, Digit
    <2> HIDE DEF three
    <2>4. four \in Nat /\ four < B * B * B * B
      BY <1>4, <2>2, <2>3, Digit
    <2> QED
      BY <1>2, <2>1, <2>4 DEF Word
  <1> QED
    BY <1>7, <1>9, <1>10

LEMMA ReadMemWord ==
  ASSUME NEW m \in [Addr -> Byte], NEW a \in Nat, NEW n \in {1, 2, 4}, Backed(a, n)
  PROVE  ReadMem(m, a, n) \in Word
  <1>1. [k \in 1 .. n |-> m[a + k - 1]] \in [1 .. n -> Byte]
    BY Moduli DEF Backed, Addr
  <1> QED
    BY <1>1, WordOfWord DEF ReadMem

LEMMA BytesOfBytes ==
  ASSUME NEW w \in Word, NEW n \in {1, 2, 4}
  PROVE  BytesOf(w, n) \in [1 .. n -> Byte]
  <1>1. \A j \in 1 .. 4 : Weight[j] \in Nat \ {0}
    <2>1. ByteMod * ByteMod \in Nat \ {0}
      BY Moduli
    <2>2. ByteMod * ByteMod * ByteMod \in Nat \ {0}
      BY Moduli, <2>1
    <2> QED
      BY Moduli, <2>1, <2>2 DEF Weight
  <1>2. ASSUME NEW k \in 1 .. n
        PROVE  (w \div Weight[n - k + 1]) % ByteMod \in Byte
    <2>1. n - k + 1 \in 1 .. 4
      OBVIOUS
    <2>2. w \div Weight[n - k + 1] \in Int
      BY <1>1, <2>1, QuotientSmaller DEF Word
    <2> QED
      BY <2>2, Moduli DEF Byte
  <1> QED
    BY <1>2 DEF BytesOf

LEMMA WriteMemBytes ==
  ASSUME NEW m \in [Addr -> Byte], NEW a \in Nat, NEW w \in Word, NEW n \in {1, 2, 4}
  PROVE  WriteMem(m, a, w, n) \in [Addr -> Byte]
  <1>1. BytesOf(w, n) \in [1 .. n -> Byte]
    BY BytesOfBytes
  <1>2. ASSUME NEW x \in Addr
        PROVE  (IF x - a \in 0 .. n - 1 THEN BytesOf(w, n)[x - a + 1] ELSE m[x]) \in Byte
    <2>1. CASE x - a \in 0 .. n - 1
      <3>1. x - a + 1 \in 1 .. n
        BY <2>1 DEF Addr
      <3> QED
        BY <1>1, <2>1, <3>1
    <2> QED
      BY <2>1
  <1> QED
    BY <1>2 DEF WriteMem

-----------------------------------------------------------------------------
(***************************************************************************)
(* A word that is stored and read again.                                   *)
(***************************************************************************)

\* A number has one quotient.
LEMMA Quotient ==
  ASSUME NEW b \in Nat \ {0}, NEW q \in Int, NEW r \in 0 .. b - 1,
         NEW p \in Int, NEW s \in 0 .. b - 1, q * b + r = p * b + s
  PROVE  q = p
  <1>1. ASSUME NEW x \in Int, NEW y \in Int, NEW t \in 0 .. b - 1, NEW u \in 0 .. b - 1,
               x < y
        PROVE  x * b + t < y * b + u
    <2>1. (x + 1) * b <= y * b
      BY <1>1
    <2>2. (x + 1) * b = x * b + b /\ x * b \in Int /\ y * b \in Int
      BY <1>1
    <2> QED
      BY <2>1, <2>2
  <1>2. ~ q < p
    BY <1>1
  <1>3. ~ p < q
    BY <1>1
  <1> QED
    BY <1>2, <1>3

LEMMA Division ==
  ASSUME NEW x \in Nat, NEW d \in Nat \ {0}
  PROVE  x \div d \in Nat /\ x = (x \div d) * d + (x % d) /\ x % d \in 0 .. d - 1
  BY QuotientSmaller

\* Dividing twice is dividing by the product.
LEMMA QuotientTwice ==
  ASSUME NEW w \in Nat, NEW b \in Nat \ {0}, NEW c \in Nat \ {0}
  PROVE  (w \div b) \div c = w \div (b * c)
  <1> DEFINE x == w \div b
             y == x \div c
             e == b * c
             z == w \div e
  <1>1. x \in Int /\ w = x * b + (w % b) /\ w % b \in 0 .. b - 1
    OBVIOUS
  <1>2. y \in Int /\ x = y * c + (x % c) /\ x % c \in 0 .. c - 1
    BY <1>1
  <1>3. e \in Nat \ {0}
    OBVIOUS
  <1>4. z \in Int /\ w = z * e + (w % e) /\ w % e \in 0 .. e - 1
    BY <1>3
  <1> DEFINE r == w % b
             t == x % c
             low == t * b + r
  <1> HIDE DEF x, y, z, r, t
  <1>5. low \in 0 .. e - 1
    <2>1. t \in Nat /\ t < c /\ r \in Nat /\ r < b /\ b \in Nat /\ c \in Nat
      BY <1>1, <1>2 DEF r, t
    <2>2. low \in Nat /\ low < c * b
      BY <2>1, Digit
    <2> QED
      BY <2>2
  <1>6. w = y * e + low
    <2>1. w = (y * c + t) * b + r
      BY <1>1, <1>2 DEF r, t
    <2>2. t \in Int /\ r \in Int
      BY <1>1, <1>2 DEF r, t
    <2> QED
      BY <1>2, <2>1, <2>2
  <1> HIDE DEF e, low
  <1>7. y * e + low = z * e + (w % e)
    BY <1>4, <1>6
  <1>8. y = z
    BY <1>2, <1>3, <1>4, <1>5, <1>7, Quotient
  <1> QED
    BY <1>8 DEF x, y, z, e

\* The bytes of a word make the word.
LEMMA WordOfBytes ==
  ASSUME NEW w \in Word
  PROVE  WordOf(BytesOf(w, 4)) = w
  <1> DEFINE B == ByteMod
             x == w \div B
             y == x \div B
             z == y \div B
  <1>1. B \in Nat \ {0} /\ w \in Nat /\ w < WordMod
    BY Moduli DEF Word
  <1>2. WordMod = B * B * B * B
    <2>1. WordMod = B * Weight[4]
      BY MipsAssumption DEF WordMod
    <2>2. Weight[4] = B * B * B
      BY DEF Weight
    <2> QED
      BY <1>1, <2>1, <2>2
  <1>3. Weight[1] = 1 /\ Weight[2] = B /\ Weight[3] = B * B /\ Weight[4] = B * B * B
    BY DEF Weight
  <1> DEFINE b == BytesOf(w, 4)
  <1>4. /\ Len(b) = 4
        /\ b[1] = (w \div Weight[4]) % B /\ b[2] = (w \div Weight[3]) % B
        /\ b[3] = (w \div Weight[2]) % B /\ b[4] = (w \div Weight[1]) % B
    BY DEF BytesOf
  <1>5. B * B \in Nat \ {0} /\ B * B * B \in Nat \ {0}
    <2>1. B * B \in Nat \ {0}
      BY <1>1
    <2> QED
      BY <1>1, <2>1
  <1>6. WordOf(b) = ((b[1] * B + b[2]) * B + b[3]) * B + b[4]
    BY <1>4 DEF WordOf
  <1> HIDE DEF b, B
  <1>7. x \in Nat /\ w = x * B + (w % B) /\ w % B \in 0 .. B - 1
    BY <1>1, Division
  <1> HIDE DEF x
  <1>8. y \in Nat /\ x = y * B + (x % B) /\ x % B \in 0 .. B - 1
    BY <1>1, <1>7, Division
  <1> HIDE DEF y
  <1>9. z \in Nat /\ y = z * B + (y % B) /\ y % B \in 0 .. B - 1
    BY <1>1, <1>8, Division
  <1> HIDE DEF z
  <1>10. y = w \div (B * B) /\ z = w \div (B * B * B)
    <2>1. y = w \div (B * B)
      BY <1>1, QuotientTwice DEF x, y
    <2>2. z = w \div (B * B * B)
      BY <1>1, <1>5, <2>1, QuotientTwice DEF z
    <2> QED
      BY <2>1, <2>2
  <1>11. w \div 1 = w
    BY <1>1
  <1>12. z < B
    <2> DEFINE c == B * B * B
    <2>1. c \in Nat \ {0} /\ w < B * c
      BY <1>1, <1>2, <1>5
    <2>2. z \in Nat /\ z = w \div c
      BY <1>9, <1>10
    <2> HIDE DEF c
    <2>3. w = z * c + (w % c) /\ w % c \in 0 .. c - 1
      BY <1>1, <2>1, <2>2
    <2>4. CASE z >= B
      <3>1. z * c >= B * c
        BY <1>1, <2>1, <2>2, <2>4
      <3>2. z * c \in Nat /\ B * c \in Nat
        BY <1>1, <2>1, <2>2
      <3> QED
        BY <1>1, <2>1, <2>3, <3>1, <3>2
    <2> QED
      BY <1>1, <2>2, <2>4
  <1>13. b[1] = z
    BY <1>1, <1>3, <1>4, <1>9, <1>10, <1>12
  <1>14. b[2] = y % B /\ b[3] = x % B /\ b[4] = w % B
    BY <1>3, <1>4, <1>10, <1>11 DEF x
  <1>15. b[1] * B + b[2] = y /\ y * B + b[3] = x /\ x * B + b[4] = w
    BY <1>7, <1>8, <1>9, <1>13, <1>14
  <1> QED
    BY <1>6, <1>15 DEF b

LEMMA ReadStored ==
  ASSUME NEW m, NEW a \in Nat, NEW w \in Word, Backed(a, 4)
  PROVE  ReadMem(WriteMem(m, a, w, 4), a, 4) = w
  <1> DEFINE o == WriteMem(m, a, w, 4)
  <1>1. ASSUME NEW k \in 1 .. 4
        PROVE  o[a + k - 1] = BytesOf(w, 4)[k]
    <2>1. a + k - 1 \in Addr
      BY Moduli DEF Backed, Addr
    <2>2. (a + k - 1) - a = k - 1 /\ k - 1 \in 0 .. 4 - 1 /\ (k - 1) + 1 = k
      OBVIOUS
    <2> QED
      BY <2>1, <2>2 DEF WriteMem
  <1>2. BytesOf(w, 4) = [k \in 1 .. 4 |-> BytesOf(w, 4)[k]]
    BY DEF BytesOf
  <1>3. [k \in 1 .. 4 |-> o[a + k - 1]] = BytesOf(w, 4)
    BY <1>1, <1>2
  <1> QED
    BY <1>3, WordOfBytes DEF ReadMem

-----------------------------------------------------------------------------
(***************************************************************************)
(* Overflow.                                                               *)
(***************************************************************************)

\* What remains of a number that is out of the range of words by less than
\* one turn.
LEMMA Wrap ==
  ASSUME NEW n \in Int, - WordMod <= n, n < 2 * WordMod
  PROVE  n % WordMod = IF n < 0 THEN n + WordMod
                       ELSE IF n >= WordMod THEN n - WordMod ELSE n
  <1> DEFINE W == WordMod
  <1>1. W \in Nat /\ W > 0
    BY MipsAssumption DEF WordMod
  <1> HIDE DEF W
  <1>2. /\ n % W \in 0 .. W - 1
        /\ n = (n \div W) * W + (n % W)
        /\ n \div W \in Int
    BY <1>1
  <1> DEFINE q == n \div W
             r == n % W
  <1> HIDE DEF q, r
  <1>3. q \in Int /\ r \in 0 .. W - 1 /\ n = q * W + r
    BY <1>2 DEF q, r
  <1>4. - W <= n /\ n < 2 * W
    BY DEF W
  <1>5. q \in {-1, 0, 1}
    <2>1. CASE q >= 2
      <3>1. q * W >= 2 * W
        BY <1>1, <1>3, <2>1
      <3> QED
        BY <1>1, <1>3, <1>4, <3>1
    <2>2. CASE q <= -2
      <3>1. q * W <= (-2) * W
        BY <1>1, <1>3, <2>2
      <3> QED
        BY <1>1, <1>3, <1>4, <3>1
    <2> QED
      BY <1>3, <2>1, <2>2
  <1>6. r = IF n < 0 THEN n + W ELSE IF n >= W THEN n - W ELSE n
    BY <1>1, <1>3, <1>4, <1>5
  <1> QED
    BY <1>6 DEF r, W

\* doAddSub compares signs to find out whether a sum fits a word.  It reports
\* an overflow exactly when the sum of the numbers the words stand for is not
\* one a word can stand for.
THEOREM AddOverflowExact ==
  ASSUME NEW x \in Word, NEW y \in Word
  PROVE  AddOverflows(x, y) <=> AddOutOfRange(x, y)
  <1>1. /\ HalfWord \in Nat /\ HalfWord > 0
        /\ x \in 0 .. 2 * HalfWord - 1 /\ y \in 0 .. 2 * HalfWord - 1
    BY MipsAssumption DEF Word, WordMod
  <1>2. Plus(x, y) = IF x + y >= 2 * HalfWord THEN x + y - 2 * HalfWord ELSE x + y
    <2> DEFINE n == x + y
    <2>1. n \in Int /\ - WordMod <= n /\ n < 2 * WordMod /\ n >= 0
      BY <1>1 DEF WordMod
    <2> HIDE DEF n
    <2>2. n % WordMod = IF n < 0 THEN n + WordMod
                        ELSE IF n >= WordMod THEN n - WordMod ELSE n
      BY <2>1, Wrap
    <2>3. Plus(x, y) = n % WordMod
      BY DEF Plus, n
    <2>4. WordMod = 2 * HalfWord /\ n = x + y
      BY DEF WordMod, n
    <2> QED
      BY <1>1, <2>1, <2>2, <2>3, <2>4
  <1> QED
    BY <1>1, <1>2
    DEF AddOverflows, AddOutOfRange, Sign, Signed, SignedRange, WordMod

\* The same for the difference.
THEOREM SubOverflowExact ==
  ASSUME NEW x \in Word, NEW y \in Word
  PROVE  SubOverflows(x, y) <=> SubOutOfRange(x, y)
  <1>1. /\ HalfWord \in Nat /\ HalfWord > 0
        /\ x \in 0 .. 2 * HalfWord - 1 /\ y \in 0 .. 2 * HalfWord - 1
    BY MipsAssumption DEF Word, WordMod
  <1>2. Minus(x, y) = IF x - y < 0 THEN x - y + 2 * HalfWord ELSE x - y
    <2> DEFINE n == x - y
    <2>1. n \in Int /\ - WordMod <= n /\ n < 2 * WordMod /\ n < WordMod
      BY <1>1 DEF WordMod
    <2> HIDE DEF n
    <2>2. n % WordMod = IF n < 0 THEN n + WordMod
                        ELSE IF n >= WordMod THEN n - WordMod ELSE n
      BY <2>1, Wrap
    <2>3. Minus(x, y) = n % WordMod
      BY DEF Minus, n
    <2>4. WordMod = 2 * HalfWord /\ n = x - y
      BY DEF WordMod, n
    <2> QED
      BY <1>1, <2>1, <2>2, <2>3, <2>4
  <1> QED
    BY <1>1, <1>2
    DEF SubOverflows, SubOutOfRange, Sign, Signed, SignedRange, WordMod

=============================================================================
