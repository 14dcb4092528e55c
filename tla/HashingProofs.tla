---------------------------- MODULE HashingProofs ----------------------------
(* Theorems about Procscoop: every hash function computes Shabal-256 of the  *)
(* nonce of each lane, reports are true and the best nonce of a block is     *)
(* never lost. Then about ShabalStream: a message that is fed in pieces has  *)
(* the digest of the whole.                                                  *)
EXTENDS Procscoop, ShabalStream, SequenceTheorems, WellFoundedInduction, TLAPS

-----------------------------------------------------------------------------
(* Words *)

LEMMA HalfRange == \A x : x \in Half <=> x \in Nat /\ x <= 65535
<1>1. HALF = 65536
  BY SMT DEF HALF
<1>2. HALF \in Nat
  BY SMT, <1>1
<1>3. \A x : x \in Half <=> x \in Nat /\ x <= HALF - 1
  BY SMT, <1>2 DEF Half
<1> QED
  BY SMT, <1>1, <1>3

LEMMA WordParts ==
  ASSUME NEW a \in Word
  PROVE  a = <<a[1], a[2]>> /\ a[1] \in Half /\ a[2] \in Half
  BY SMT DEF Word

LEMMA WordMade ==
  ASSUME NEW x, NEW y, x \in Nat, x <= 65535, y \in Nat, y <= 65535
  PROVE  <<x, y>> \in Word
<1>1. x \in Half /\ y \in Half
  BY SMT, HalfRange
<1> QED
  BY SMT, <1>1 DEF Word

(* The numbers of a word, as arithmetic needs them.                          *)
LEMMA WordNumbers ==
  ASSUME NEW a \in Word
  PROVE  /\ a[1] \in Nat /\ a[1] <= 65535
         /\ a[2] \in Nat /\ a[2] <= 65535
  BY SMT, WordParts, HalfRange

LEMMA SmallWord ==
  ASSUME NEW n \in Nat, n <= 65535
  PROVE  Small(n) \in Word
<1>1. /\ n \div 65536 \in Nat /\ n \div 65536 <= 65535
      /\ n % 65536 \in Nat /\ n % 65536 <= 65535
  BY SMT
<1> QED
  BY SMT, <1>1, WordMade DEF Small, HALF

LEMMA ZeroOnesWord == Zero \in Word /\ Ones \in Word
  BY SMT, WordMade DEF Zero, Ones, HALF

LEMMA AddType == ASSUME NEW a \in Word, NEW b \in Word PROVE Add(a, b) \in Word
<1> DEFINE x == (a[1] + b[1] + ((a[2] + b[2]) \div 65536)) % 65536
           y == (a[2] + b[2]) % 65536
<1>1. x \in Nat /\ x <= 65535 /\ y \in Nat /\ y <= 65535
  BY SMT, WordNumbers
<1>2. Add(a, b) = <<x, y>>
  BY SMT DEF Add, HALF
<1> HIDE DEF x, y
<1> QED
  BY SMT, <1>1, <1>2, WordMade

LEMMA SubType == ASSUME NEW a \in Word, NEW b \in Word PROVE Sub(a, b) \in Word
<1> DEFINE borrow == IF a[2] < b[2] THEN 1 ELSE 0
           x == (a[1] - b[1] - borrow) % 65536
           y == (a[2] - b[2]) % 65536
<1>1. x \in Nat /\ x <= 65535 /\ y \in Nat /\ y <= 65535
  BY SMT, WordNumbers
<1>2. Sub(a, b) = <<x, y>>
  BY SMT DEF Sub, HALF
<1> HIDE DEF x, y
<1> QED
  BY SMT, <1>1, <1>2, WordMade

(* A half that overflows or goes below zero.                                 *)
LEMMA NoWrap ==
  ASSUME NEW z \in Int, 0 <= z, z < 65536
  PROVE  z % 65536 = z /\ z \div 65536 = 0
  BY SMT

LEMMA WrapAbove ==
  ASSUME NEW z \in Int, 65536 <= z, z < 131072
  PROVE  z % 65536 = z - 65536 /\ z \div 65536 = 1
  BY SMT

LEMMA WrapBelow ==
  ASSUME NEW z \in Int, -65536 <= z, z < 0
  PROVE  z % 65536 = z + 65536
  BY SMT

LEMMA HalfSubAdd ==
  ASSUME NEW p \in Nat, p <= 65535, NEW q \in Nat, q <= 65536
  PROVE  /\ (((p - q) % 65536) + q) % 65536 = p
         /\ q <= p => (((p - q) % 65536) + q) \div 65536 = 0
         /\ q > p => (((p - q) % 65536) + q) \div 65536 = 1
<1>1. CASE q <= p
  <2>1. (p - q) % 65536 = p - q
    BY SMT, <1>1, NoWrap
  <2>2. p % 65536 = p /\ p \div 65536 = 0
    BY SMT, NoWrap
  <2>3. (p - q) + q = p
    BY SMT
  <2> QED
    BY SMT, <1>1, <2>1, <2>2, <2>3
<1>2. CASE q > p
  <2>1. (p - q) % 65536 = p - q + 65536
    BY SMT, <1>2, WrapBelow
  <2>2. (p + 65536) % 65536 = p /\ (p + 65536) \div 65536 = 1
    BY SMT, WrapAbove
  <2>3. (p - q + 65536) + q = p + 65536
    BY SMT
  <2> QED
    BY SMT, <1>2, <2>1, <2>2, <2>3
<1> QED
  BY SMT, <1>1, <1>2

LEMMA HalfAddSub ==
  ASSUME NEW p \in Nat, p <= 65535, NEW q \in Nat, q <= 65536
  PROVE  /\ (((p + q) % 65536) - q) % 65536 = p
         /\ (p + q) \div 65536 \in {0, 1}
         /\ (p + q) \div 65536 = 0 <=> (p + q) % 65536 >= q
<1>1. CASE p + q < 65536
  <2>1. (p + q) % 65536 = p + q /\ (p + q) \div 65536 = 0
    BY SMT, <1>1, NoWrap
  <2>2. p % 65536 = p /\ (p + q) - q = p
    BY SMT, NoWrap
  <2> QED
    BY SMT, <2>1, <2>2
<1>2. CASE ~(p + q < 65536)
  <2>1. (p + q) % 65536 = p + q - 65536 /\ (p + q) \div 65536 = 1
    BY SMT, <1>2, WrapAbove
  <2>2. (p - 65536) % 65536 = p /\ (p + q - 65536) - q = p - 65536
    BY SMT, WrapBelow
  <2> QED
    BY SMT, <2>1, <2>2
<1> QED
  BY SMT, <1>1, <1>2

(* Subtraction and addition undo each other.                                 *)
LEMMA AddSub == ASSUME NEW a \in Word, NEW b \in Word PROVE Add(Sub(a, b), b) = a
<1> DEFINE a1 == a[1]  a2 == a[2]  b1 == b[1]  b2 == b[2]
           borrow == IF a2 < b2 THEN 1 ELSE 0
           x == (a1 - b1 - borrow) % 65536
           y == (a2 - b2) % 65536
<1>1. /\ a1 \in Nat /\ a1 <= 65535 /\ a2 \in Nat /\ a2 <= 65535
      /\ b1 \in Nat /\ b1 <= 65535 /\ b2 \in Nat /\ b2 <= 65535
  BY SMT, WordNumbers
<1>2. a = <<a1, a2>>
  BY SMT, WordParts
<1>3. Sub(a, b) = <<x, y>>
  BY SMT DEF Sub, HALF
<1>4. Add(Sub(a, b), b) = <<(x + b1 + ((y + b2) \div 65536)) % 65536, (y + b2) % 65536>>
  <2> HIDE DEF x, y
  <2> QED
    BY SMT, <1>3 DEF Add, HALF
<1> HIDE DEF a1, a2, b1, b2
<1>5. (y + b2) % 65536 = a2 /\ (y + b2) \div 65536 = borrow
  BY SMT, <1>1, HalfSubAdd
<1>6. (x + b1 + borrow) % 65536 = a1
  <2>1. borrow \in {0, 1}
    BY SMT
  <2> HIDE DEF borrow
  <2> DEFINE q == b1 + borrow
  <2>2. q \in Nat /\ q <= 65536 /\ a1 - q = a1 - b1 - borrow /\ x + b1 + borrow = x + q
    BY SMT, <1>1, <2>1
  <2> HIDE DEF q
  <2>3. (((a1 - q) % 65536) + q) % 65536 = a1
    BY SMT, <1>1, <2>2, HalfSubAdd
  <2> QED
    BY SMT, <2>2, <2>3
<1> HIDE DEF x, y, borrow
<1> QED
  BY SMT, <1>2, <1>4, <1>5, <1>6

LEMMA SubAdd == ASSUME NEW a \in Word, NEW b \in Word PROVE Sub(Add(a, b), b) = a
<1> DEFINE a1 == a[1]  a2 == a[2]  b1 == b[1]  b2 == b[2]
           carry == (a2 + b2) \div 65536
           x == (a1 + b1 + carry) % 65536
           y == (a2 + b2) % 65536
           borrow == IF y < b2 THEN 1 ELSE 0
<1>1. /\ a1 \in Nat /\ a1 <= 65535 /\ a2 \in Nat /\ a2 <= 65535
      /\ b1 \in Nat /\ b1 <= 65535 /\ b2 \in Nat /\ b2 <= 65535
  BY SMT, WordNumbers
<1>2. a = <<a1, a2>>
  BY SMT, WordParts
<1>3. Add(a, b) = <<x, y>>
  BY SMT DEF Add, HALF
<1>4. Sub(Add(a, b), b) = <<(x - b1 - borrow) % 65536, (y - b2) % 65536>>
  <2> HIDE DEF x, y
  <2> QED
    BY SMT, <1>3 DEF Sub, HALF
<1> HIDE DEF a1, a2, b1, b2
<1>5. (y - b2) % 65536 = a2 /\ borrow = carry /\ carry \in {0, 1}
  <2>1. y \in Int
    BY SMT, <1>1
  <2>2. (y - b2) % 65536 = a2 /\ carry \in {0, 1} /\ (carry = 0 <=> y >= b2)
    BY SMT, <1>1, HalfAddSub
  <2> HIDE DEF y, carry
  <2> QED
    BY SMT, <1>1, <2>1, <2>2
<1>6. (x - b1 - carry) % 65536 = a1
  <2> HIDE DEF carry
  <2> DEFINE q == b1 + carry
  <2>2. q \in Nat /\ q <= 65536 /\ a1 + q = a1 + b1 + carry /\ x - b1 - carry = x - q
    BY SMT, <1>1, <1>5
  <2> HIDE DEF q
  <2>3. (((a1 + q) % 65536) - q) % 65536 = a1
    BY SMT, <1>1, <2>2, HalfAddSub
  <2> QED
    BY SMT, <2>2, <2>3
<1> HIDE DEF x, y, borrow, carry
<1> QED
  BY SMT, <1>2, <1>4, <1>5, <1>6

LEMMA TimesType ==
  ASSUME NEW a \in Word, NEW k \in {3, 5}
  PROVE  Times(a, k) \in Word
<1> DEFINE x == (a[1] * k + ((a[2] * k) \div 65536)) % 65536
           y == (a[2] * k) % 65536
<1>1. x \in Nat /\ x <= 65535 /\ y \in Nat /\ y <= 65535
  <2>1. CASE k = 3
    BY SMT, WordNumbers, <2>1
  <2>2. CASE k = 5
    BY SMT, WordNumbers, <2>2
  <2> QED
    BY SMT, <2>1, <2>2
<1>2. Times(a, k) = <<x, y>>
  BY SMT DEF Times, HALF
<1> HIDE DEF x, y
<1> QED
  BY SMT, <1>1, <1>2, WordMade

LEMMA NotType == ASSUME NEW a \in Word PROVE Not(a) \in Word
<1> DEFINE x == 65535 - a[1]  y == 65535 - a[2]
<1>1. x \in Nat /\ x <= 65535 /\ y \in Nat /\ y <= 65535
  BY SMT, WordNumbers
<1>2. Not(a) = <<x, y>>
  BY SMT, WordNumbers DEF Not, HALF
<1> HIDE DEF x, y
<1> QED
  BY SMT, <1>1, <1>2, WordMade

LEMMA RotlType ==
  ASSUME NEW a \in Word, NEW n \in {1, 15, 17}
  PROVE  Rotl(a, n) \in Word
<1>1. 2^1 = 2 /\ 2^15 = 32768
  BY SMT
<1> DEFINE one(x, y) == ((x * 2) % 65536) + (y \div 32768)
           half(x, y) == ((x * 32768) % 65536) + (y \div 2)
<1>2. ASSUME NEW x \in Nat, x <= 65535, NEW y \in Nat, y <= 65535
      PROVE  one(x, y) \in Nat /\ one(x, y) <= 65535
  BY SMT, <1>2
<1>3. ASSUME NEW x \in Nat, x <= 65535, NEW y \in Nat, y <= 65535
      PROVE  half(x, y) \in Nat /\ half(x, y) <= 65535
  <2>1. (x * 32768) % 65536 \in {0, 32768}
    BY SMT, <1>3
  <2>2. y \div 2 \in Nat /\ y \div 2 <= 32767
    BY SMT, <1>3
  <2> QED
    BY SMT, <2>1, <2>2
<1>4. /\ Rotl(a, 1) = <<one(a[1], a[2]), one(a[2], a[1])>>
      /\ Rotl(a, 17) = <<one(a[2], a[1]), one(a[1], a[2])>>
      /\ Rotl(a, 15) = <<half(a[1], a[2]), half(a[2], a[1])>>
  BY SMT, <1>1 DEF Rotl, HALF
<1> HIDE DEF one, half
<1> DEFINE p == a[1]  q == a[2]
<1>5. p \in Nat /\ p <= 65535 /\ q \in Nat /\ q <= 65535
  BY SMT, WordNumbers
<1> HIDE DEF p, q
<1>6. <<one(p, q), one(q, p)>> \in Word /\ <<one(q, p), one(p, q)>> \in Word
  BY SMT, <1>2, <1>5, WordMade
<1>7. <<half(p, q), half(q, p)>> \in Word
  BY SMT, <1>3, <1>5, WordMade
<1> QED
  BY SMT, <1>4, <1>6, <1>7 DEF p, q

Nibble == 0 .. 15
NibbleTables == [Nibble -> [Nibble -> Nibble]]

LEMMA BitRange == ASSUME NEW x \in Nat, NEW i \in 0 .. 3 PROVE Bit(x, i) \in {0, 1}
<1>1. 2^0 = 1 /\ 2^1 = 2 /\ 2^2 = 4 /\ 2^3 = 8
  BY SMT
<1>2. /\ (x \div 1) % 2 \in {0, 1} /\ (x \div 2) % 2 \in {0, 1}
      /\ (x \div 4) % 2 \in {0, 1} /\ (x \div 8) % 2 \in {0, 1}
  BY SMT
<1> QED
  BY SMT, <1>1, <1>2 DEF Bit

LEMMA TablesType == XorNibble \in NibbleTables /\ AndNotNibble \in NibbleTables
<1>1. ASSUME NEW x \in Nibble, NEW y \in Nibble, NEW i \in 0 .. 3
      PROVE  XorBit(Bit(x, i), Bit(y, i)) \in {0, 1} /\ AndNotBit(Bit(x, i), Bit(y, i)) \in {0, 1}
  <2>1. x \in Nat /\ y \in Nat
    BY SMT DEF Nibble
  <2>2. Bit(x, i) \in {0, 1} /\ Bit(y, i) \in {0, 1}
    BY SMT, <2>1, BitRange
  <2> QED
    BY SMT, <2>2 DEF XorBit, AndNotBit
<1>2. ASSUME NEW p \in {0, 1}, NEW q \in {0, 1}, NEW r \in {0, 1}, NEW s \in {0, 1}
      PROVE  p + 2 * q + 4 * r + 8 * s \in Nibble
  BY SMT DEF Nibble
<1>3. XorNibble \in NibbleTables
  <2> DEFINE b(x, y, i) == XorBit(Bit(x, i), Bit(y, i))
  <2>1. XorNibble = [x \in Nibble |-> [y \in Nibble |->
                      b(x, y, 0) + 2 * b(x, y, 1) + 4 * b(x, y, 2) + 8 * b(x, y, 3)]]
    BY SMT DEF XorNibble, NibbleTable, Nibble
  <2>2. \A x, y \in Nibble, i \in 0 .. 3 : b(x, y, i) \in {0, 1}
    BY SMT, <1>1
  <2> HIDE DEF b
  <2>3. \A x, y \in Nibble :
          b(x, y, 0) + 2 * b(x, y, 1) + 4 * b(x, y, 2) + 8 * b(x, y, 3) \in Nibble
    BY SMT, <1>2, <2>2
  <2> QED
    BY SMT, <2>1, <2>3 DEF NibbleTables
<1>4. AndNotNibble \in NibbleTables
  <2> DEFINE b(x, y, i) == AndNotBit(Bit(x, i), Bit(y, i))
  <2>1. AndNotNibble = [x \in Nibble |-> [y \in Nibble |->
                         b(x, y, 0) + 2 * b(x, y, 1) + 4 * b(x, y, 2) + 8 * b(x, y, 3)]]
    BY SMT DEF AndNotNibble, NibbleTable, Nibble
  <2>2. \A x, y \in Nibble, i \in 0 .. 3 : b(x, y, i) \in {0, 1}
    BY SMT, <1>1
  <2> HIDE DEF b
  <2>3. \A x, y \in Nibble :
          b(x, y, 0) + 2 * b(x, y, 1) + 4 * b(x, y, 2) + 8 * b(x, y, 3) \in Nibble
    BY SMT, <1>2, <2>2
  <2> QED
    BY SMT, <2>1, <2>3 DEF NibbleTables
<1> QED
  BY <1>3, <1>4

LEMMA NibblesType ==
  ASSUME NEW t \in NibbleTables, NEW x \in Half, NEW y \in Half
  PROVE  Nibbles(t, x, y) \in Half
<1>1. ASSUME NEW z \in Half
      PROVE  /\ z % 16 \in Nibble /\ (z \div 16) % 16 \in Nibble
             /\ (z \div 256) % 16 \in Nibble /\ z \div 4096 \in Nibble
  <2>1. z \in Nat /\ z <= 65535
    BY SMT, HalfRange
  <2> QED
    BY SMT, <2>1 DEF Nibble
<1> DEFINE p == t[x % 16][y % 16]
           q == t[(x \div 16) % 16][(y \div 16) % 16]
           r == t[(x \div 256) % 16][(y \div 256) % 16]
           s == t[x \div 4096][y \div 4096]
<1>2. \A i, j \in Nibble : t[i][j] \in Nibble
  BY SMT DEF NibbleTables
<1>3. p \in Nibble /\ q \in Nibble /\ r \in Nibble /\ s \in Nibble
  BY SMT, <1>1, <1>2
<1>4. Nibbles(t, x, y) = p + 16 * q + 256 * r + 4096 * s
  BY SMT DEF Nibbles
<1> HIDE DEF p, q, r, s
<1>5. LET n == p + 16 * q + 256 * r + 4096 * s IN n \in Nat /\ n <= 65535
  BY SMT, <1>3 DEF Nibble
<1> QED
  BY SMT, <1>4, <1>5, HalfRange

LEMMA XorType ==
  ASSUME NEW a \in Word, NEW b \in Word
  PROVE  Xor(a, b) \in Word /\ AndNot(a, b) \in Word
<1>1. a[1] \in Half /\ a[2] \in Half /\ b[1] \in Half /\ b[2] \in Half
  BY WordParts
<1>2. \A x, y \in Half : <<x, y>> \in Word
  BY DEF Word
<1>3. ASSUME NEW t \in NibbleTables
      PROVE  <<Nibbles(t, a[1], b[1]), Nibbles(t, a[2], b[2])>> \in Word
  <2>1. Nibbles(t, a[1], b[1]) \in Half /\ Nibbles(t, a[2], b[2]) \in Half
    BY <1>1, NibblesType, Zenon
  <2> QED
    BY <1>2, <2>1, Zenon
<1> QED
  BY <1>3, TablesType, Zenon DEF Xor, AndNot

-----------------------------------------------------------------------------
(* States *)

A12 == [0 .. 11 -> Word]

LEMMA StateParts ==
  ASSUME NEW s \in State
  PROVE  /\ s.A \in A12 /\ s.B \in MessageBlock /\ s.C \in MessageBlock
         /\ s.Wlow \in Word /\ s.Whigh \in Word
         /\ s = [A |-> s.A, B |-> s.B, C |-> s.C, Wlow |-> s.Wlow, Whigh |-> s.Whigh]
  BY DEF State, A12

LEMMA StateMade ==
  ASSUME NEW a \in A12, NEW b \in MessageBlock, NEW c \in MessageBlock,
         NEW lo \in Word, NEW hi \in Word
  PROVE  [A |-> a, B |-> b, C |-> c, Wlow |-> lo, Whigh |-> hi] \in State
  BY DEF State, A12

(* Two states are equal when their words are.                                *)
LEMMA SameState ==
  ASSUME NEW s \in State, NEW t \in State,
         s.A = t.A, s.B = t.B, s.C = t.C, s.Wlow = t.Wlow, s.Whigh = t.Whigh
  PROVE  s = t
  BY StateParts

(* A state with some of its fields replaced.                                 *)
WithAB(s, a, b) == [s EXCEPT !.A = a, !.B = b]
WithBC(s, b, c) == [s EXCEPT !.B = b, !.C = c]
WithW(s, lo, hi) == [s EXCEPT !.Wlow = lo, !.Whigh = hi]

LEMMA StateFields ==
  ASSUME NEW s \in State
  PROVE  /\ \A a, b :
              /\ WithAB(s, a, b).A = a /\ WithAB(s, a, b).B = b /\ WithAB(s, a, b).C = s.C
              /\ WithAB(s, a, b).Wlow = s.Wlow /\ WithAB(s, a, b).Whigh = s.Whigh
              /\ a \in A12 /\ b \in MessageBlock => WithAB(s, a, b) \in State
         /\ \A b, c :
              /\ WithBC(s, b, c).A = s.A /\ WithBC(s, b, c).B = b /\ WithBC(s, b, c).C = c
              /\ WithBC(s, b, c).Wlow = s.Wlow /\ WithBC(s, b, c).Whigh = s.Whigh
              /\ b \in MessageBlock /\ c \in MessageBlock => WithBC(s, b, c) \in State
         /\ \A lo, hi :
              /\ WithW(s, lo, hi).A = s.A /\ WithW(s, lo, hi).B = s.B /\ WithW(s, lo, hi).C = s.C
              /\ WithW(s, lo, hi).Wlow = lo /\ WithW(s, lo, hi).Whigh = hi
              /\ lo \in Word /\ hi \in Word => WithW(s, lo, hi) \in State
  BY DEF State, A12, WithAB, WithBC, WithW

SameW(s, t) == t.Wlow = s.Wlow /\ t.Whigh = s.Whigh

LEMMA PermEltType ==
  ASSUME NEW s \in State, NEW M \in MessageBlock, NEW k \in 0 .. 47
  PROVE  PermElt(s, M, k) \in State /\ SameW(s, PermElt(s, M, k))
<1> DEFINE a0 == k % 12  b0 == k % 16
           B(d) == s.B[(k + d) % 16]
           rot == Rotl(s.A[(k + 11) % 12], 15)
           five == Xor(Xor(s.A[a0], Times(rot, 5)), s.C[(8 - k) % 16])
           a == Xor(Xor(Xor(Times(five, 3), B(13)), AndNot(B(9), B(6))), M[b0])
           b == Not(Xor(Rotl(s.B[b0], 1), a))
<1>1. /\ a0 \in 0 .. 11 /\ (k + 11) % 12 \in 0 .. 11 /\ b0 \in Block
      /\ (8 - k) % 16 \in Block /\ \A d \in {6, 9, 13} : (k + d) % 16 \in Block
  BY SMT DEF Block
<1>2. /\ s.A \in A12 /\ s.B \in MessageBlock /\ s.C \in MessageBlock
      /\ s.Wlow \in Word /\ s.Whigh \in Word
  BY StateParts
<1>3. PermElt(s, M, k) = [s EXCEPT !.A[a0] = a, !.B[b0] = Not(Xor(Rotl(@, 1), a))]
  BY DEF PermElt
<1> HIDE DEF a0, b0
<1>4. /\ s.A[a0] \in Word /\ s.A[(k + 11) % 12] \in Word /\ s.B[b0] \in Word /\ M[b0] \in Word
      /\ s.C[(8 - k) % 16] \in Word /\ B(13) \in Word /\ B(9) \in Word /\ B(6) \in Word
  BY <1>1, <1>2 DEF A12, MessageBlock
<1> HIDE DEF B
<1>5. rot \in Word
  BY <1>4, RotlType
<1> HIDE DEF rot
<1>6. five \in Word
  BY <1>4, <1>5, XorType, TimesType
<1> HIDE DEF five
<1>7. Times(five, 3) \in Word /\ AndNot(B(9), B(6)) \in Word
  BY <1>4, <1>6, XorType, TimesType
<1>8. a \in Word
  BY <1>4, <1>7, XorType
<1> HIDE DEF a
<1>9. Rotl(s.B[b0], 1) \in Word
  BY <1>4, RotlType
<1>10. b \in Word
  BY <1>8, <1>9, XorType, NotType
<1>11. PermElt(s, M, k) = WithAB(s, [s.A EXCEPT ![a0] = a], [s.B EXCEPT ![b0] = b])
  <2>1. \A x : [s EXCEPT !.A = x].B = s.B
    BY DEF State
  <2> HIDE DEF a
  <2> QED
    BY <1>3, <2>1, Zenon DEF WithAB
<1> HIDE DEF b
<1>12. [s.A EXCEPT ![a0] = a] \in A12 /\ [s.B EXCEPT ![b0] = b] \in MessageBlock
  BY <1>1, <1>2, <1>8, <1>10 DEF A12, MessageBlock
<1> QED
  BY <1>11, <1>12, StateFields DEF SameW

(* A recursive function over up to 48 steps has a value.                     *)
Chained(N, x0, f, g) == g = [k \in 0 .. N |-> IF k = 0 THEN x0 ELSE f[k][g[k - 1]]]

LEMMA Chain ==
  ASSUME NEW S, 0 \in S, \A k \in 0 .. 47 : k \in S => k + 1 \in S, NEW n \in 0 .. 48
  PROVE  n \in S
<1>1. 48 \in S
  OBVIOUS
<1> QED
  OBVIOUS

LEMMA BoundedRecursion ==
  ASSUME NEW N \in 0 .. 48, NEW X, NEW x0 \in X, NEW f \in [1 .. N -> [X -> X]]
  PROVE  \E g \in [0 .. N -> X] : Chained(N, x0, f, g)
<1> DEFINE Part(n, g) == g[0] = x0 /\ \A k \in 1 .. n : g[k] = f[k][g[k - 1]]
           S == {n \in 0 .. 48 : n <= N => \E g \in [0 .. N -> X] : Part(n, g)}
<1>1. 0 \in S
  <2> DEFINE g0 == [k \in 0 .. N |-> x0]
  <2>1. g0 \in [0 .. N -> X]
    OBVIOUS
  <2>2. Part(0, g0)
    OBVIOUS
  <2>3. 0 \in 0 .. 48
    OBVIOUS
  <2> HIDE DEF g0, Part
  <2> QED
    BY <2>1, <2>2, <2>3, Zenon
<1>2. ASSUME NEW n \in 0 .. 47, n \in S
      PROVE  n + 1 \in S
  <2>1. n \in 0 .. 48 /\ n + 1 \in 0 .. 48
    OBVIOUS
  <2>2. ASSUME n + 1 <= N
        PROVE  \E g \in [0 .. N -> X] : Part(n + 1, g)
    <3>1. PICK g \in [0 .. N -> X] : Part(n, g)
      <4>1. n <= N
        BY <2>2
      <4> HIDE DEF Part
      <4> QED
        BY <1>2, <4>1, Zenon
    <3> DEFINE h == [g EXCEPT ![n + 1] = f[n + 1][g[n]]]
    <3>2. n \in 0 .. N /\ n + 1 \in 1 .. N
      BY <2>2
    <3>3. h \in [0 .. N -> X]
      BY <3>2
    <3>4. h[0] = x0
      BY <3>1, <3>2
    <3>5. ASSUME NEW k \in 1 .. n + 1
          PROVE  h[k] = f[k][h[k - 1]]
      <4>1. CASE k = n + 1
        BY <3>2, <4>1
      <4>2. CASE k # n + 1
        <5>1. k \in 1 .. n /\ k \in 0 .. N /\ k - 1 \in 0 .. N /\ k - 1 # n + 1
          BY <3>2, <4>2
        <5>2. h[k] = g[k] /\ h[k - 1] = g[k - 1]
          BY <4>2, <5>1
        <5> QED
          BY <3>1, <5>1, <5>2
      <4> QED
        BY <4>1, <4>2
    <3>6. Part(n + 1, h)
      BY <3>4, <3>5
    <3> HIDE DEF h, Part
    <3> QED
      BY <3>3, <3>6, Zenon
  <2> HIDE DEF Part
  <2> QED
    BY <2>1, <2>2, Zenon
<1>3. N \in S
  <2> HIDE DEF S
  <2> QED
    BY <1>1, <1>2, Chain
<1>4. PICK g \in [0 .. N -> X] : Part(N, g)
  <2>1. N <= N
    OBVIOUS
  <2> HIDE DEF Part
  <2> QED
    BY <1>3, <2>1, Zenon
<1>5. g = [k \in 0 .. N |-> g[k]]
  OBVIOUS
<1>6. ASSUME NEW k \in 0 .. N
      PROVE  g[k] = IF k = 0 THEN x0 ELSE f[k][g[k - 1]]
  <2>1. CASE k = 0
    BY <1>4, <2>1
  <2>2. CASE k # 0
    BY <1>4, <2>2
  <2> QED
    BY <2>1, <2>2
<1>7. Chained(N, x0, f, g)
  BY <1>5, <1>6, Zenon DEF Chained
<1> QED
  BY <1>7

(* The 48 elements of the permutation.                                       *)
Elements(s, M, g) ==
  g = [k \in 0 .. 48 |-> IF k = 0 THEN s ELSE PermElt(g[k - 1], M, k - 1)]

LEMMA ElementsExist ==
  ASSUME NEW s \in State, NEW M \in MessageBlock
  PROVE  /\ \E g : Elements(s, M, g)
         /\ \A g : Elements(s, M, g) => g[48] \in State /\ SameW(s, g[48])
<1> DEFINE f == [k \in 1 .. 48 |-> [t \in State |-> PermElt(t, M, k - 1)]]
<1>1. f \in [1 .. 48 -> [State -> State]]
  <2>1. ASSUME NEW k \in 1 .. 48, NEW t \in State
        PROVE  PermElt(t, M, k - 1) \in State
    <3>1. k - 1 \in 0 .. 47
      OBVIOUS
    <3> QED
      BY <3>1, PermEltType
  <2> QED
    BY <2>1
<1>2. PICK g \in [0 .. 48 -> State] : Chained(48, s, f, g)
  <2>1. 48 \in 0 .. 48
    OBVIOUS
  <2> HIDE DEF f
  <2> QED
    BY <1>1, <2>1, BoundedRecursion
<1>3. Elements(s, M, g)
  <2>1. ASSUME NEW k \in 0 .. 48
        PROVE  g[k] = IF k = 0 THEN s ELSE PermElt(g[k - 1], M, k - 1)
    <3>1. g[k] = IF k = 0 THEN s ELSE f[k][g[k - 1]]
      BY <1>2 DEF Chained
    <3>2. k # 0 => k \in 1 .. 48 /\ g[k - 1] \in State
      OBVIOUS
    <3> QED
      BY <3>1, <3>2
  <2>2. g = [k \in 0 .. 48 |-> g[k]]
    OBVIOUS
  <2> QED
    BY <2>1, <2>2, Zenon DEF Elements
<1>4. ASSUME NEW h, Elements(s, M, h)
      PROVE  h[48] \in State /\ SameW(s, h[48])
  <2> DEFINE S == {k \in 0 .. 48 : h[k] \in State /\ SameW(s, h[k])}
  <2>1. 0 \in S
    BY <1>4 DEF Elements, SameW
  <2>2. ASSUME NEW k \in 0 .. 47, k \in S
        PROVE  k + 1 \in S
    <3>1. k + 1 \in 0 .. 48 /\ k + 1 # 0 /\ (k + 1) - 1 = k
      OBVIOUS
    <3>2. h[k + 1] = PermElt(h[k], M, k)
      BY <1>4, <3>1 DEF Elements
    <3> QED
      <4>1. k \in 0 .. 48 /\ h[k] \in State /\ SameW(s, h[k])
        BY <2>2
      <4>2. h[k + 1] \in State /\ SameW(h[k], h[k + 1])
        BY <3>2, <4>1, PermEltType
      <4>3. SameW(s, h[k + 1])
        BY <4>1, <4>2 DEF SameW
      <4> QED
        BY <3>1, <4>2, <4>3
  <2> HIDE DEF S
  <2>3. 48 \in S
    BY <2>1, <2>2, Chain
  <2> QED
    BY <2>3 DEF S
<1> QED
  BY <1>3, <1>4

LEMMA PermType ==
  ASSUME NEW s \in State, NEW M \in MessageBlock
  PROVE  Perm[<<s, M>>] \in State /\ SameW(s, Perm[<<s, M>>])
<1>1. Perm[<<s, M>>] = (CHOOSE g : Elements(s, M, g))[48]
  BY DEF Perm, Elements
<1>2. Elements(s, M, CHOOSE g : Elements(s, M, g))
  BY ElementsExist
<1> QED
  BY <1>1, <1>2, ElementsExist

-----------------------------------------------------------------------------
(* The mode of operation                                                     *)

LEMMA BlockAddType ==
  ASSUME NEW s \in State, NEW M \in MessageBlock
  PROVE  /\ InputBlockAdd(s, M) \in State /\ SameW(s, InputBlockAdd(s, M))
         /\ InputBlockSub(s, M) \in State
<1>1. /\ [i \in Block |-> Add(s.B[i], M[i])] \in MessageBlock
      /\ [i \in Block |-> Sub(s.C[i], M[i])] \in MessageBlock
  BY StateParts, AddType, SubType DEF MessageBlock
<1>2. ASSUME NEW b \in MessageBlock
      PROVE  /\ [s EXCEPT !.B = b] \in State /\ SameW(s, [s EXCEPT !.B = b])
             /\ [s EXCEPT !.C = b] \in State
  BY DEF State, SameW
<1> QED
  BY <1>1, <1>2, Zenon DEF InputBlockAdd, InputBlockSub

LEMMA XorWType == ASSUME NEW s \in State PROVE XorW(s) \in State /\ SameW(s, XorW(s))
<1>1. s.A \in A12 /\ s.Wlow \in Word /\ s.Whigh \in Word
  BY StateParts
<1>2. s.A[0] \in Word /\ s.A[1] \in Word
  BY <1>1 DEF A12
<1>3. Xor(s.A[0], s.Wlow) \in Word /\ Xor(s.A[1], s.Whigh) \in Word
  BY <1>1, <1>2, XorType
<1> DEFINE a == [s.A EXCEPT ![0] = Xor(@, s.Wlow), ![1] = Xor(@, s.Whigh)]
<1>4. a \in A12
  BY <1>1, <1>3 DEF A12
<1>5. XorW(s) = [s EXCEPT !.A = a]
  <2>1. \A x : [s EXCEPT !.A = x].A = x
    BY DEF State
  <2>2. \A x, y : [[s EXCEPT !.A = x] EXCEPT !.A = y] = [s EXCEPT !.A = y]
    BY DEF State
  <2> QED
    BY <2>1, <2>2, Zenon DEF XorW
<1> HIDE DEF a
<1> QED
  BY <1>4, <1>5 DEF State, A12, SameW

LEMMA SwapBCType == ASSUME NEW s \in State PROVE SwapBC(s) \in State
<1>1. SwapBC(s) = WithBC(s, s.C, s.B)
  BY DEF SwapBC, WithBC
<1> QED
  BY <1>1, StateFields, StateParts

LEMMA AddCType == ASSUME NEW s \in State PROVE AddC(s) \in State /\ SameW(s, AddC(s))
<1>1. s.A \in A12 /\ s.C \in MessageBlock
  BY StateParts
<1>2. ASSUME NEW i \in 0 .. 11
      PROVE  Add(Add(Add(s.A[i], s.C[(i + 11) % 16]), s.C[(i + 15) % 16]), s.C[(i + 3) % 16]) \in Word
  <2>1. (i + 11) % 16 \in Block /\ (i + 15) % 16 \in Block /\ (i + 3) % 16 \in Block
    BY SMT DEF Block
  <2>2. /\ s.A[i] \in Word /\ s.C[(i + 11) % 16] \in Word
        /\ s.C[(i + 15) % 16] \in Word /\ s.C[(i + 3) % 16] \in Word
    BY <1>1, <2>1 DEF A12, MessageBlock
  <2> QED
    BY <2>2, AddType
<1> DEFINE a == [i \in 0 .. 11 |->
             Add(Add(Add(s.A[i], s.C[(i + 11) % 16]), s.C[(i + 15) % 16]), s.C[(i + 3) % 16])]
<1>3. a \in A12
  BY <1>2 DEF A12
<1>4. AddC(s) = [s EXCEPT !.A = a]
  BY DEF AddC
<1> HIDE DEF a
<1> QED
  BY <1>3, <1>4 DEF State, A12, SameW

LEMMA ApplyPType ==
  ASSUME NEW s \in State, NEW M \in MessageBlock
  PROVE  ApplyP(s, M) \in State /\ SameW(s, ApplyP(s, M))
<1> DEFINE b == [i \in Block |-> Rotl(s.B[i], 17)]
<1>1. b \in MessageBlock
  BY StateParts, RotlType DEF MessageBlock
<1> HIDE DEF b
<1>2. [s EXCEPT !.B = b] \in State /\ SameW(s, [s EXCEPT !.B = b])
  BY <1>1 DEF State, SameW
<1>3. ApplyP(s, M) = AddC(Perm[<<[s EXCEPT !.B = b], M>>])
  BY DEF ApplyP, b
<1> QED
  <2> DEFINE q == [s EXCEPT !.B = b]  r == Perm[<<q, M>>]
  <2>1. q \in State /\ SameW(s, q)
    BY <1>2
  <2> HIDE DEF q
  <2>2. r \in State /\ SameW(q, r)
    BY <2>1, PermType
  <2> HIDE DEF r
  <2>3. AddC(r) \in State /\ SameW(r, AddC(r))
    BY <2>2, AddCType
  <2>4. SameW(s, AddC(r))
    BY <2>1, <2>2, <2>3 DEF SameW
  <2> QED
    BY <1>3, <2>3, <2>4 DEF q, r

(* The counter goes up, and back down.                                       *)
LEMMA DecrIncr ==
  ASSUME NEW s \in State
  PROVE  IncrW(s) \in State /\ DecrW(IncrW(s)) = s
<1> DEFINE one == Small(1)
           up == Add(s.Wlow, one)
           hi == IF up = Zero THEN Add(s.Whigh, one) ELSE s.Whigh
           t == WithW(s, up, hi)
           back == IF up = Zero THEN Sub(hi, one) ELSE hi
<1>1. one \in Word
  BY SMT, SmallWord
<1>2. s.Wlow \in Word /\ s.Whigh \in Word
  BY StateParts
<1> HIDE DEF one
<1>3. up \in Word /\ hi \in Word /\ Sub(up, one) = s.Wlow /\ back = s.Whigh
  BY <1>1, <1>2, AddType, SubAdd
<1>4. IncrW(s) = t
  <2>1. \A x : [s EXCEPT !.Wlow = x].Whigh = s.Whigh
    BY DEF State
  <2> QED
    BY <2>1, Zenon DEF IncrW, WithW, one
<1> HIDE DEF up, hi, back
<1>5. t \in State /\ t.Wlow = up /\ t.Whigh = hi /\ t.A = s.A /\ t.B = s.B /\ t.C = s.C
  BY <1>3, StateFields
<1> HIDE DEF t
<1>6. DecrW(t) = WithW(t, Sub(t.Wlow, one), IF t.Wlow = Zero THEN Sub(t.Whigh, one) ELSE t.Whigh)
  <2>1. \A x : [t EXCEPT !.Wlow = x].Whigh = t.Whigh
    BY <1>5 DEF State
  <2> QED
    BY <2>1, Zenon DEF DecrW, WithW, one
<1>7. (IF t.Wlow = Zero THEN Sub(t.Whigh, one) ELSE t.Whigh) = s.Whigh
  BY <1>3, <1>5 DEF back
<1>8. DecrW(t) = WithW(t, s.Wlow, s.Whigh)
  BY <1>3, <1>5, <1>6, <1>7
<1>9. DecrW(t) = s
  BY <1>2, <1>5, <1>8, StateFields, SameState
<1> QED
  BY <1>4, <1>5, <1>9

(* A round is what the scalar code does with a block.                        *)
LEMMA RoundIsAbsorb ==
  ASSUME NEW r \in State, NEW M \in MessageBlock
  PROVE  Round(r, M) = Absorb(r, M) /\ Absorb(r, M) \in State
<1> DEFINE t == ApplyP(XorW(InputBlockAdd(r, M)), M)
<1>1. t \in State
  BY BlockAddType, XorWType, ApplyPType
<1>2. Round(r, M) = IncrW(SwapAndSub(t, M)) /\ Absorb(r, M) = IncrW(SwapBC(InputBlockSub(t, M)))
  BY DEF Round, Absorb, Permutation
<1> HIDE DEF t
<1> DEFINE c == [j \in Block |-> Sub(t.C[j], M[j])]
           u == InputBlockSub(t, M)
<1>3. c \in MessageBlock
  BY <1>1, StateParts, SubType DEF MessageBlock
<1>4. u \in State
  BY <1>1, BlockAddType
<1>5. u = [t EXCEPT !.C = c]
  BY DEF InputBlockSub
<1> HIDE DEF c, u
<1>6. u.A = t.A /\ u.B = t.B /\ u.C = c /\ u.Wlow = t.Wlow /\ u.Whigh = t.Whigh
  BY <1>1, <1>5 DEF State
<1>7. SwapBC(u) = WithBC(u, c, t.B) /\ SwapAndSub(t, M) = WithBC(t, c, t.B)
  <2>1. \A x : [t EXCEPT !.B = x].B = x /\ [t EXCEPT !.B = x].C = t.C
    BY <1>1 DEF State
  <2>2. SwapBC(u) = [u EXCEPT !.B = c, !.C = t.B]
    BY <1>6, Zenon DEF SwapBC
  <2> QED
    BY <2>1, <2>2, Zenon DEF SwapAndSub, WithBC, c
<1>8. t.B \in MessageBlock
  BY <1>1, StateParts
<1>9. SwapBC(u) = SwapAndSub(t, M) /\ SwapBC(u) \in State
  BY <1>1, <1>3, <1>4, <1>6, <1>7, <1>8, StateFields, SameState
<1> QED
  BY <1>2, <1>9, DecrIncr DEF u

(* The registers after the permutation of the final block.                   *)
LEMMA SwapAndSubType ==
  ASSUME NEW t \in State, NEW M \in MessageBlock
  PROVE  /\ SwapAndSub(t, M) \in State
         /\ SwapAndSub(t, M).C = t.B
         /\ InputBlockAdd(SwapAndSub(t, M), M) = SwapBC(t)
<1> DEFINE c == [j \in Block |-> Sub(t.C[j], M[j])]
           u == SwapAndSub(t, M)
<1>1. c \in MessageBlock /\ t.B \in MessageBlock /\ t.C \in MessageBlock
  BY StateParts, SubType DEF MessageBlock
<1>2. u = WithBC(t, c, t.B)
  BY DEF SwapAndSub, WithBC
<1>3. [j \in Block |-> Add(c[j], M[j])] = t.C
  <2>1. ASSUME NEW j \in Block
        PROVE  Add(c[j], M[j]) = t.C[j]
    <3>1. t.C[j] \in Word /\ M[j] \in Word
      BY <1>1 DEF MessageBlock
    <3> QED
      BY <3>1, AddSub
  <2>2. t.C = [j \in Block |-> t.C[j]]
    BY <1>1 DEF MessageBlock
  <2> QED
    BY <2>1, <2>2, Zenon
<1> HIDE DEF c, u
<1>4. /\ u \in State /\ u.A = t.A /\ u.B = c /\ u.C = t.B
      /\ u.Wlow = t.Wlow /\ u.Whigh = t.Whigh
  BY <1>1, <1>2, StateFields
<1>5. InputBlockAdd(u, M) = [u EXCEPT !.B = t.C]
  BY <1>3, <1>4, Zenon DEF InputBlockAdd
<1> DEFINE w == [u EXCEPT !.B = t.C]
<1>6. w \in State /\ w.A = u.A /\ w.B = t.C /\ w.C = u.C /\ w.Wlow = u.Wlow /\ w.Whigh = u.Whigh
  BY <1>1, <1>4 DEF State
<1>7. SwapBC(t) = WithBC(t, t.C, t.B)
  BY DEF SwapBC, WithBC
<1> HIDE DEF w
<1>8. w = SwapBC(t)
  BY <1>1, <1>4, <1>6, <1>7, StateFields, SameState
<1> QED
  BY <1>4, <1>5, <1>8 DEF u, w

LEMMA StillRoundIs ==
  ASSUME NEW r \in State, NEW M \in MessageBlock
  PROVE  /\ Permutation(r, M) \in State
         /\ StillRound(r, M) = SwapAndSub(Permutation(r, M), M)
<1>1. Permutation(r, M) \in State
  BY BlockAddType, XorWType, ApplyPType DEF Permutation
<1>2. SwapAndSub(Permutation(r, M), M) \in State
  BY <1>1, SwapAndSubType
<1> QED
  BY <1>1, <1>2, DecrIncr, Zenon DEF StillRound, Round

(* Rounds 2 to 5 add the block that the round before has subtracted: they    *)
(* are the end of the scalar code, with B and C changed over.                *)
LEMMA FourRoundsFinalize ==
  ASSUME NEW r \in State, NEW M \in MessageBlock
  PROVE  /\ FourRounds(r, M) = SwapAndSub(Finalize(r, M), M)
         /\ FourRounds(r, M) \in State
         /\ Finalize(r, M) \in State
         /\ FourRounds(r, M).C = Finalize(r, M).B
<1>1. ASSUME NEW t \in State
      PROVE  /\ StillRound(SwapAndSub(t, M), M) = SwapAndSub(FinalRound(t, M), M)
             /\ FinalRound(t, M) \in State
  <2>1. SwapAndSub(t, M) \in State
    BY SwapAndSubType
  <2>2. Permutation(SwapAndSub(t, M), M) = FinalRound(t, M)
    BY SwapAndSubType, Zenon DEF Permutation, FinalRound
  <2> QED
    BY <2>1, <2>2, StillRoundIs
<1> DEFINE t1 == Permutation(r, M)  t2 == FinalRound(t1, M)
           t3 == FinalRound(t2, M)  t4 == FinalRound(t3, M)
<1>2. t1 \in State /\ StillRound(r, M) = SwapAndSub(t1, M)
  BY StillRoundIs
<1>3. t2 \in State /\ t3 \in State /\ t4 \in State
  <2> HIDE DEF t1
  <2>1. t2 \in State
    BY <1>1, <1>2
  <2> HIDE DEF t2
  <2>2. t3 \in State
    BY <1>1, <2>1
  <2> HIDE DEF t3
  <2> QED
    BY <1>1, <2>1, <2>2
<1>4. Finalize(r, M) = t4
  BY Zenon DEF Finalize, Permutation
<1>5. /\ StillRound(SwapAndSub(t1, M), M) = SwapAndSub(t2, M)
      /\ StillRound(SwapAndSub(t2, M), M) = SwapAndSub(t3, M)
      /\ StillRound(SwapAndSub(t3, M), M) = SwapAndSub(t4, M)
  BY <1>1, <1>2, <1>3, Zenon
<1> HIDE DEF t1, t2, t3, t4
<1>6. FourRounds(r, M) = SwapAndSub(t4, M)
  BY <1>2, <1>5, Zenon DEF FourRounds
<1> QED
  BY <1>3, <1>4, <1>6, SwapAndSubType

LEMMA InitialStateType == InitialState \in State
<1>1. ASSUME NEW n \in {256, 272}
      PROVE  PrefixBlock(n) \in MessageBlock
  <2>1. ASSUME NEW j \in Block
        PROVE  Small(n + j) \in Word
    <3>1. n + j \in Nat /\ n + j <= 65535
      BY SMT DEF Block
    <3> QED
      BY SMT, <3>1, SmallWord
  <2> QED
    BY <2>1 DEF PrefixBlock, MessageBlock
<1>2. BlankLane \in State
  <2>1. [j \in 0 .. 11 |-> Zero] \in A12 /\ [j \in Block |-> Zero] \in MessageBlock
    BY ZeroOnesWord DEF A12, MessageBlock
  <2> QED
    BY <2>1, ZeroOnesWord, StateMade DEF BlankLane
<1>3. Round(BlankLane, PrefixBlock(256)) \in State
  BY <1>1, <1>2, RoundIsAbsorb
<1> QED
  BY <1>1, <1>3, RoundIsAbsorb, PrefixAssumption

-----------------------------------------------------------------------------
(* Lanes in memory                                                           *)

Widths == {4, 8, 16}
Memory(F) == [StateWords(F) -> Word]

LEMMA LaneIndex ==
  ASSUME NEW F \in Widths, NEW j \in Nat, NEW l \in Lane(F)
  PROVE  /\ RegisterOf(F, F * j + l) = j
         /\ LaneOf(F, F * j + l) = l
         /\ j <= 43 => F * j + l \in StateWords(F)
         /\ j <= 15 => F * j + l \in 0 .. 16 * F - 1
<1>1. CASE F = 4
  BY SMT, <1>1 DEF RegisterOf, LaneOf, StateWords, Lane
<1>2. CASE F = 8
  BY SMT, <1>2 DEF RegisterOf, LaneOf, StateWords, Lane
<1>3. CASE F = 16
  BY SMT, <1>3 DEF RegisterOf, LaneOf, StateWords, Lane
<1> QED
  BY <1>1, <1>2, <1>3 DEF Widths

LEMMA WordIndex ==
  ASSUME NEW F \in Widths, NEW k \in StateWords(F)
  PROVE  RegisterOf(F, k) \in Register /\ LaneOf(F, k) \in Lane(F)
<1>1. CASE F = 4
  BY SMT, <1>1 DEF RegisterOf, LaneOf, StateWords, Lane, Register
<1>2. CASE F = 8
  BY SMT, <1>2 DEF RegisterOf, LaneOf, StateWords, Lane, Register
<1>3. CASE F = 16
  BY SMT, <1>3 DEF RegisterOf, LaneOf, StateWords, Lane, Register
<1> QED
  BY <1>1, <1>2, <1>3 DEF Widths

LEMMA RegisterWordType ==
  ASSUME NEW r \in State, NEW j \in Register
  PROVE  RegisterWord(r, j) \in Word
<1>1. r.A \in A12 /\ r.B \in MessageBlock /\ r.C \in MessageBlock
  BY StateParts
<1>2. CASE j < 12
  <2>1. j \in 0 .. 11
    BY <1>2 DEF Register
  <2> QED
    BY <1>1, <1>2, <2>1 DEF RegisterWord, A12
<1>3. CASE ~(j < 12) /\ j < 28
  <2>1. j - 12 \in Block
    BY <1>3 DEF Register, Block
  <2> QED
    BY <1>1, <1>3, <2>1 DEF RegisterWord, MessageBlock
<1>4. CASE ~(j < 12) /\ ~(j < 28)
  <2>1. j - 28 \in Block
    BY <1>4 DEF Register, Block
  <2> QED
    BY <1>1, <1>4, <2>1 DEF RegisterWord, MessageBlock
<1> QED
  BY <1>2, <1>3, <1>4

LEMMA LoadStateType ==
  ASSUME NEW F \in Widths, NEW sc, sc.state \in Memory(F), sc.Wlow \in Word, sc.Whigh \in Word,
         NEW l \in Lane(F)
  PROVE  LoadState(F, sc, l) \in State
<1>1. ASSUME NEW j \in Nat, j <= 43
      PROVE  sc.state[F * j + l] \in Word
  BY <1>1, LaneIndex DEF Memory
<1>2. ASSUME NEW j \in 0 .. 11
      PROVE  sc.state[F * j + l] \in Word
  BY <1>1
<1>3. ASSUME NEW j \in Block
      PROVE  sc.state[F * (j + 12) + l] \in Word /\ sc.state[F * (j + 28) + l] \in Word
  <2>1. j + 12 \in Nat /\ j + 12 <= 43 /\ j + 28 \in Nat /\ j + 28 <= 43
    BY DEF Block
  <2> HIDE <1>2
  <2> QED
    BY <1>1, <2>1
<1> DEFINE a == [j \in 0 .. 11 |-> sc.state[F * j + l]]
           b == [j \in Block |-> sc.state[F * (j + 12) + l]]
           c == [j \in Block |-> sc.state[F * (j + 28) + l]]
<1>4. a \in A12 /\ b \in MessageBlock /\ c \in MessageBlock
  BY <1>2, <1>3 DEF A12, MessageBlock
<1>5. LoadState(F, sc, l) = [A |-> a, B |-> b, C |-> c, Wlow |-> sc.Wlow, Whigh |-> sc.Whigh]
  BY DEF LoadState
<1> HIDE DEF a, b, c
<1> QED
  BY <1>4, <1>5, StateMade

(* A stored register is found again in its lane; the others stay.            *)
LEMMA StoreWord ==
  ASSUME NEW F \in Widths, NEW js \in SUBSET Register, NEW old \in Memory(F),
         NEW regs \in [Lane(F) -> State]
  PROVE  /\ Store(F, js)[<<old, regs>>] \in Memory(F)
         /\ \A j \in js, l \in Lane(F) :
              Store(F, js)[<<old, regs>>][F * j + l] = RegisterWord(regs[l], j)
<1> DEFINE m == Store(F, js)[<<old, regs>>]
<1>1. m = [k \in StateWords(F) |->
            IF RegisterOf(F, k) \in js THEN RegisterWord(regs[LaneOf(F, k)], RegisterOf(F, k))
            ELSE old[k]]
  <2>1. <<old, regs>> \in [StateWords(F) -> Word] \X [Lane(F) -> State]
    BY DEF Memory
  <2> QED
    BY <2>1 DEF Store
<1> HIDE DEF m
<1>2. ASSUME NEW k \in StateWords(F)
      PROVE  m[k] \in Word
  <2>1. RegisterOf(F, k) \in Register /\ LaneOf(F, k) \in Lane(F)
    BY WordIndex
  <2>2. regs[LaneOf(F, k)] \in State /\ old[k] \in Word
    BY <2>1 DEF Memory
  <2>3. RegisterWord(regs[LaneOf(F, k)], RegisterOf(F, k)) \in Word
    BY <2>1, <2>2, RegisterWordType
  <2> QED
    BY <1>1, <2>2, <2>3
<1>3. ASSUME NEW j \in js, NEW l \in Lane(F)
      PROVE  m[F * j + l] = RegisterWord(regs[l], j)
  <2>1. j \in Nat /\ j <= 43
    BY DEF Register
  <2>2. F * j + l \in StateWords(F) /\ RegisterOf(F, F * j + l) = j /\ LaneOf(F, F * j + l) = l
    BY <2>1, LaneIndex
  <2> QED
    BY <1>1, <2>2, Zenon
<1>4. m = [k \in StateWords(F) |-> m[k]]
  BY <1>1
<1> QED
  BY <1>2, <1>3, <1>4 DEF Memory, m

-----------------------------------------------------------------------------
(* The contexts                                                              *)

(* The memory behind a pointer has a block at least.                         *)
Area == UNION {[D -> Word] : D \in {E \in SUBSET Nat : Block \subseteq E}}
Areas(F) == [Lane(F) -> Area]
Context(F) ==
  [state : Memory(F), Wlow : Word, Whigh : Word, buf : Areas(F), xbuf : Areas(F),
   ptr : Nat, out_size : Nat]

LEMMA AreaBlock ==
  /\ \A m \in Area : AtPointer(m) \in MessageBlock
  /\ \A m \in MessageBlock : m \in Area /\ AtPointer(m) = m
<1>1. ASSUME NEW m \in Area
      PROVE  AtPointer(m) \in MessageBlock
  BY DEF Area, AtPointer, MessageBlock
<1>2. ASSUME NEW m \in MessageBlock
      PROVE  m \in Area /\ AtPointer(m) = m
  <2>1. Block \in {E \in SUBSET Nat : Block \subseteq E}
    BY DEF Block
  <2> QED
    BY <2>1 DEF Area, AtPointer, MessageBlock
<1> QED
  BY <1>1, <1>2


(* Storing all registers leaves in every lane what was computed for it.      *)
LEMMA StoreLane ==
  ASSUME NEW F \in Widths, NEW old \in Memory(F), NEW regs \in [Lane(F) -> State],
         NEW l \in Lane(F), NEW sc,
         sc.state = Store(F, Register)[<<old, regs>>],
         sc.Wlow = regs[l].Wlow, sc.Whigh = regs[l].Whigh
  PROVE  LoadState(F, sc, l) = regs[l]
<1>1. Register \in SUBSET Register
  OBVIOUS
<1>2. \A j \in Register : sc.state[F * j + l] = RegisterWord(regs[l], j)
  BY <1>1, StoreWord
<1> DEFINE r == regs[l]
<1>3. r \in State
  OBVIOUS
<1>4. r.A \in A12 /\ r.B \in MessageBlock /\ r.C \in MessageBlock
  BY <1>3, StateParts
<1> HIDE DEF r
<1>5. ASSUME NEW j \in 0 .. 11
      PROVE  sc.state[F * j + l] = r.A[j]
  <2>1. j \in Register /\ j < 12
    BY DEF Register
  <2> QED
    BY <1>2, <2>1 DEF RegisterWord, r
<1>6. ASSUME NEW j \in Block
      PROVE  sc.state[F * (j + 12) + l] = r.B[j] /\ sc.state[F * (j + 28) + l] = r.C[j]
  <2>1. /\ j + 12 \in Register /\ ~(j + 12 < 12) /\ j + 12 < 28 /\ (j + 12) - 12 = j
        /\ j + 28 \in Register /\ ~(j + 28 < 12) /\ ~(j + 28 < 28) /\ (j + 28) - 28 = j
    BY DEF Register, Block
  <2>2. RegisterWord(r, j + 12) = r.B[j] /\ RegisterWord(r, j + 28) = r.C[j]
    BY <2>1 DEF RegisterWord
  <2> QED
    BY <1>2, <2>1, <2>2 DEF r
<1>7. /\ r.A = [j \in 0 .. 11 |-> r.A[j]] /\ r.B = [j \in Block |-> r.B[j]]
      /\ r.C = [j \in Block |-> r.C[j]]
  BY <1>4 DEF A12, MessageBlock
<1>8. /\ [j \in 0 .. 11 |-> sc.state[F * j + l]] = r.A
      /\ [j \in Block |-> sc.state[F * (j + 12) + l]] = r.B
      /\ [j \in Block |-> sc.state[F * (j + 28) + l]] = r.C
  BY <1>5, <1>6, <1>7, Zenon
<1>9. LoadState(F, sc, l) = [A |-> r.A, B |-> r.B, C |-> r.C, Wlow |-> r.Wlow, Whigh |-> r.Whigh]
  BY <1>8, Zenon DEF LoadState, r
<1> QED
  BY <1>3, <1>9, StateParts, Zenon DEF r

(* The counter of a round goes up as that of the context does.               *)
NextLow(r) == Add(r.Wlow, Small(1))
NextHigh(r) == IF NextLow(r) = Zero THEN Add(r.Whigh, Small(1)) ELSE r.Whigh

LEMMA RoundCounter ==
  ASSUME NEW r \in State, NEW M \in MessageBlock
  PROVE  Round(r, M).Wlow = NextLow(r) /\ Round(r, M).Whigh = NextHigh(r)
<1> DEFINE t == Permutation(r, M)  u == SwapAndSub(t, M)
<1>1. t \in State /\ SameW(r, t)
  BY BlockAddType, XorWType, ApplyPType DEF Permutation, SameW
<1> HIDE DEF t
<1>2. u \in State
  BY <1>1, SwapAndSubType
<1>3. SameW(t, u)
  BY <1>1 DEF State, SwapAndSub, SameW
<1>4. Round(r, M) = IncrW(u)
  BY DEF Round, t
<1> HIDE DEF u
<1>5. IncrW(u).Wlow = NextLow(u) /\ IncrW(u).Whigh = NextHigh(u)
  BY <1>2 DEF State, IncrW, NextLow, NextHigh
<1> QED
  BY <1>1, <1>3, <1>4, <1>5 DEF SameW, NextLow, NextHigh

(* What a compression leaves alone.                                          *)
SameRest(sc, c) ==
  c.out_size = sc.out_size /\ c.ptr = sc.ptr /\ c.buf = sc.buf /\ c.xbuf = sc.xbuf

(* A compression is one round in every lane.                                 *)
LEMMA CompressLane ==
  ASSUME NEW F \in Widths, NEW sc \in Context(F), NEW data \in Areas(F)
  PROVE  LET c == Compress(F, sc, data)
         IN  /\ c \in Context(F) /\ SameRest(sc, c)
             /\ \A l \in Lane(F) :
                  LoadState(F, c, l) = Round(LoadState(F, sc, l), AtPointer(data[l]))
<1> DEFINE regs == [l \in Lane(F) |-> Round(LoadState(F, sc, l), AtPointer(data[l]))]
           mem == Store(F, Register)[<<sc.state, regs>>]
           d == [sc EXCEPT !.state = mem]
           c == IncrW(d)
<1>1. sc.state \in Memory(F) /\ sc.Wlow \in Word /\ sc.Whigh \in Word
  BY DEF Context
<1>2. ASSUME NEW l \in Lane(F)
      PROVE  AtPointer(data[l]) \in MessageBlock
  BY AreaBlock DEF Areas
<1>3. Compress(F, sc, data) = c
  BY Zenon DEF Compress
<1>4. regs \in [Lane(F) -> State]
  <2>1. ASSUME NEW l \in Lane(F)
        PROVE  Round(LoadState(F, sc, l), AtPointer(data[l])) \in State
    BY <1>1, <1>2, LoadStateType, RoundIsAbsorb
  <2> QED
    BY <2>1
<1>5. ASSUME NEW l \in Lane(F)
      PROVE  /\ regs[l] = Round(LoadState(F, sc, l), AtPointer(data[l]))
             /\ regs[l].Wlow = NextLow(sc) /\ regs[l].Whigh = NextHigh(sc)
  <2> DEFINE r == LoadState(F, sc, l)
  <2>1. r \in State /\ r.Wlow = sc.Wlow /\ r.Whigh = sc.Whigh
    BY <1>1, LoadStateType DEF LoadState
  <2>2. regs[l] = Round(r, AtPointer(data[l]))
    OBVIOUS
  <2> HIDE DEF r, regs
  <2>3. regs[l].Wlow = NextLow(r) /\ regs[l].Whigh = NextHigh(r)
    BY <1>2, <2>1, <2>2, RoundCounter
  <2> QED
    BY <2>1, <2>2, <2>3 DEF NextLow, NextHigh, r
<1> HIDE DEF regs
<1>6. mem \in Memory(F)
  <2>1. Register \in SUBSET Register
    OBVIOUS
  <2> QED
    BY <1>1, <1>4, <2>1, StoreWord
<1> HIDE DEF mem
<1>7. /\ d \in Context(F) /\ d.state = mem /\ SameRest(sc, d)
      /\ d.Wlow = sc.Wlow /\ d.Whigh = sc.Whigh
  BY <1>6 DEF Context, SameRest
<1>8. Small(1) \in Word
  BY SMT, SmallWord
<1>9. NextLow(sc) \in Word /\ NextHigh(sc) \in Word
  BY <1>1, <1>8, AddType DEF NextLow, NextHigh
<1> HIDE DEF d
<1>10. /\ c \in Context(F) /\ c.state = d.state /\ SameRest(d, c)
       /\ c.Wlow = NextLow(d) /\ c.Whigh = NextHigh(d)
  <2>1. NextLow(d) \in Word /\ NextHigh(d) \in Word
    BY <1>7, <1>9 DEF NextLow, NextHigh
  <2>2. c = [d EXCEPT !.Wlow = NextLow(d), !.Whigh = NextHigh(d)]
    <3>1. \A x : [d EXCEPT !.Wlow = x].Whigh = d.Whigh
      BY <1>7 DEF Context
    <3> QED
      BY <3>1, Zenon DEF IncrW, NextLow, NextHigh
  <2> HIDE DEF c
  <2> QED
    BY <1>7, <2>1, <2>2 DEF Context, SameRest
<1>11. c.Wlow = NextLow(sc) /\ c.Whigh = NextHigh(sc)
  BY <1>7, <1>10 DEF NextLow, NextHigh
<1> HIDE DEF c
<1>12. ASSUME NEW l \in Lane(F)
       PROVE  LoadState(F, c, l) = regs[l]
  BY <1>1, <1>4, <1>5, <1>7, <1>10, <1>11, StoreLane DEF mem
<1> QED
  BY <1>3, <1>5, <1>7, <1>10, <1>12 DEF SameRest

LEMMA PrefixType ==
  ASSUME NEW n \in {0, 256, 272}, NEW F
  PROVE  PrefixBlock(n) \in MessageBlock /\ Prefix(F, n) \in Areas(F)
<1>1. ASSUME NEW j \in Block
      PROVE  Small(n + j) \in Word
  <2>1. n + j \in Nat /\ n + j <= 65535
    BY SMT DEF Block
  <2> QED
    BY SMT, <2>1, SmallWord
<1>2. PrefixBlock(n) \in MessageBlock
  BY <1>1 DEF PrefixBlock, MessageBlock
<1> QED
  BY <1>2, AreaBlock DEF Prefix, Areas

(* The init functions leave every lane in the state that Shabal prescribes.  *)
ReadyContext(F, sc) ==
  /\ sc.out_size = 256
  /\ sc.state \in Memory(F) /\ sc.Wlow \in Word /\ sc.Whigh \in Word
  /\ \A l \in Lane(F) : LoadState(F, sc, l) = InitialState

BlankContext(F) ==
  [state |-> [k \in StateWords(F) |-> Zero], Wlow |-> Ones, Whigh |-> Ones,
   buf |-> Prefix(F, 0), xbuf |-> Prefix(F, 0), ptr |-> 0, out_size |-> 256]
Prefixed(F, sc, n) == Compress(F, [sc EXCEPT !.buf = Prefix(F, n)], Prefix(F, n))

LEMMA PrefixedLane ==
  ASSUME NEW F \in Widths, NEW sc \in Context(F), NEW n \in {256, 272}
  PROVE  LET c == Prefixed(F, sc, n)
         IN  /\ c \in Context(F) /\ c.out_size = sc.out_size /\ c.ptr = sc.ptr
             /\ \A l \in Lane(F) :
                  LoadState(F, c, l) = Round(LoadState(F, sc, l), PrefixBlock(n))
<1> DEFINE p == Prefix(F, n)  d == [sc EXCEPT !.buf = p]
<1>1. p \in Areas(F) /\ \A l \in Lane(F) : AtPointer(p[l]) = PrefixBlock(n)
  BY PrefixType, AreaBlock DEF Prefix
<1> HIDE DEF p
<1>2. /\ d \in Context(F) /\ d.out_size = sc.out_size /\ d.ptr = sc.ptr /\ d.state = sc.state
      /\ d.Wlow = sc.Wlow /\ d.Whigh = sc.Whigh
  BY <1>1 DEF Context
<1> HIDE DEF d
<1>3. \A l \in Lane(F) : LoadState(F, d, l) = LoadState(F, sc, l)
  BY <1>2, Zenon DEF LoadState
<1>4. Prefixed(F, sc, n) = Compress(F, d, p)
  BY Zenon DEF Prefixed, d, p
<1> QED
  BY <1>1, <1>2, <1>3, <1>4, CompressLane DEF SameRest

LEMMA InitReady ==
  ASSUME NEW F \in Widths
  PROVE  LET d == Prefixed(F, Prefixed(F, BlankContext(F), 256), 272)
         IN  ReadyContext(F, d) /\ d \in Context(F) /\ d.ptr = 0
<1> DEFINE b == BlankContext(F)  c == Prefixed(F, b, 256)  d == Prefixed(F, c, 272)
<1>1. b \in Context(F) /\ b.out_size = 256 /\ b.ptr = 0
  <2>1. [k \in StateWords(F) |-> Zero] \in Memory(F)
    BY ZeroOnesWord DEF Memory
  <2>2. Prefix(F, 0) \in Areas(F)
    BY PrefixType
  <2> QED
    BY <2>1, <2>2, ZeroOnesWord DEF BlankContext, Context
<1>2. ASSUME NEW l \in Lane(F)
      PROVE  LoadState(F, b, l) = BlankLane
  <2>1. ASSUME NEW j \in Nat, j <= 43
        PROVE  b.state[F * j + l] = Zero
    <3>1. F * j + l \in StateWords(F)
      BY <2>1, LaneIndex
    <3> QED
      BY <3>1 DEF BlankContext
  <2>2. ASSUME NEW j \in 0 .. 11
        PROVE  b.state[F * j + l] = Zero
    BY <2>1
  <2>3. ASSUME NEW j \in Block
        PROVE  b.state[F * (j + 12) + l] = Zero /\ b.state[F * (j + 28) + l] = Zero
    <3>1. j + 12 \in Nat /\ j + 12 <= 43 /\ j + 28 \in Nat /\ j + 28 <= 43
      BY DEF Block
    <3> QED
      BY <2>1, <3>1
  <2>4. b.Wlow = Ones /\ b.Whigh = Ones
    BY DEF BlankContext
  <2> HIDE DEF b
  <2> QED
    BY <2>2, <2>3, <2>4, Zenon DEF LoadState, BlankLane
<1> HIDE DEF b
<1>3. /\ c \in Context(F) /\ c.out_size = 256 /\ c.ptr = 0
      /\ \A l \in Lane(F) : LoadState(F, c, l) = Round(BlankLane, PrefixBlock(256))
  BY <1>1, <1>2, PrefixedLane
<1> HIDE DEF c
<1>4. /\ d \in Context(F) /\ d.out_size = 256 /\ d.ptr = 0
      /\ \A l \in Lane(F) : LoadState(F, d, l) = InitialState
  BY <1>3, PrefixedLane, PrefixAssumption
<1> HIDE DEF d
<1>5. d.state \in Memory(F) /\ d.Wlow \in Word /\ d.Whigh \in Word
  BY <1>4 DEF Context
<1>6. ReadyContext(F, d)
  BY <1>4, <1>5 DEF ReadyContext
<1> QED
  BY <1>4, <1>6 DEF b, c, d

FastRecord(F) == [state : Memory(F), Wlow : Word, Whigh : Word, out_size : {256}]
FastReady(F, sc) == sc \in FastRecord(F) /\ ReadyContext(F, sc)

LEMMA FastContextReady ==
  ASSUME NEW F, NEW sc, ReadyContext(F, sc)
  PROVE  FastReady(F, FastContext(sc))
<1> DEFINE c == FastContext(sc)
<1>1. c.state = sc.state /\ c.Wlow = sc.Wlow /\ c.Whigh = sc.Whigh /\ c.out_size = sc.out_size
  BY DEF FastContext
<1>2. c \in FastRecord(F)
  BY DEF ReadyContext, FastContext, FastRecord
<1> HIDE DEF c
<1>3. \A l : LoadState(F, c, l) = LoadState(F, sc, l)
  BY <1>1, Zenon DEF LoadState
<1> QED
  BY <1>1, <1>2, <1>3, Zenon DEF ReadyContext, FastReady, c

(* The context that an init leaves: two prefix blocks on a blank one.         *)
InitOf(F) == Prefixed(F, Prefixed(F, BlankContext(F), 256), 256 + 16)

LEMMA InitsAre ==
  /\ simd128_sse2_mshabal_init(256) = InitOf(4)
  /\ simd128_mshabal_init(256) = InitOf(4)
  /\ simd256_mshabal_init(256) = InitOf(8)
  /\ simd512_mshabal_init(256) = InitOf(16)
<1>1. simd128_sse2_mshabal_init(256) = InitOf(4)
  BY DEF simd128_sse2_mshabal_init, simd128_sse2_mshabal_compress, InitContext,
         Prefixed, BlankContext, InitOf
<1>2. simd128_mshabal_init(256) = InitOf(4)
  BY DEF simd128_mshabal_init, simd128_mshabal_compress, InitContext, Prefixed, BlankContext, InitOf
<1>3. simd256_mshabal_init(256) = InitOf(8)
  BY DEF simd256_mshabal_init, simd256_mshabal_compress, InitContext, Prefixed, BlankContext, InitOf
<1>4. simd512_mshabal_init(256) = InitOf(16)
  BY DEF simd512_mshabal_init, simd512_mshabal_compress, InitContext, Prefixed, BlankContext, InitOf
<1> QED
  BY <1>1, <1>2, <1>3, <1>4

LEMMA InitOfReady ==
  ASSUME NEW F \in Widths
  PROVE  ReadyContext(F, InitOf(F)) /\ InitOf(F) \in Context(F) /\ InitOf(F).ptr = 0
<1>1. 256 + 16 = 272
  OBVIOUS
<1> DEFINE d(n) == Prefixed(F, Prefixed(F, BlankContext(F), 256), n)
<1>2. ReadyContext(F, d(272)) /\ d(272) \in Context(F) /\ d(272).ptr = 0
  BY InitReady
<1>3. InitOf(F) = d(256 + 16)
  BY DEF InitOf
<1> HIDE DEF d
<1> QED
  BY <1>1, <1>2, <1>3

LEMMA InitsReady ==
  /\ FastReady(4, FastContext(simd128_sse2_mshabal_init(256)))
  /\ FastReady(4, FastContext(simd128_mshabal_init(256)))
  /\ FastReady(8, FastContext(simd256_mshabal_init(256)))
  /\ FastReady(16, FastContext(simd512_mshabal_init(256)))
<1>1. \A F \in Widths : FastReady(F, FastContext(InitOf(F)))
  BY InitOfReady, FastContextReady
<1>2. 4 \in Widths /\ 8 \in Widths /\ 16 \in Widths
  BY DEF Widths
<1> QED
  BY <1>1, <1>2, InitsAre

-----------------------------------------------------------------------------
(* The digests of one turn                                                   *)

(* What the code of a turn needs of the argument of a call: words at every   *)
(* place that a turn looks at, in the block and behind it.                   *)
Room(a) == Covered(a.cache_size_local)
JobOk(a) ==
  /\ a.signature \in [0 .. 7 -> Word]
  /\ a.cache_size_local \in Nat /\ Room(a) \in Nat
  /\ \A n \in 0 .. Room(a) - 1 : a.cache[n] \in MessageBlock

DigestAt(a, n) ==
  LET d == sph_shabal_openclose_fast(a.cache[n], a.signature)
  IN  [z \in 0 .. 1 |-> d[z + 1]]

LEMMA EndMarkWord == EndMark \in Word
  BY SMT, SmallWord DEF EndMark

LEMMA BlocksOfScoop ==
  ASSUME NEW sig \in [0 .. 7 -> Word], NEW scoop \in MessageBlock
  PROVE  FirstBlock(scoop, sig) \in MessageBlock /\ SecondBlock(scoop) \in MessageBlock
<1>1. ASSUME NEW i \in Block
      PROVE  (IF i < 8 THEN sig[i] ELSE scoop[i - 8]) \in Word
  <2>1. CASE i < 8
    BY <2>1 DEF Block
  <2>2. CASE ~(i < 8)
    <3>1. i - 8 \in Block
      BY <2>2 DEF Block
    <3> QED
      BY <2>2, <3>1 DEF MessageBlock
  <2> QED
    BY <2>1, <2>2
<1>2. ASSUME NEW i \in Block
      PROVE  (IF i < 8 THEN scoop[8 + i] ELSE IF i = 8 THEN EndMark ELSE Zero) \in Word
  <2>1. CASE i < 8
    <3>1. 8 + i \in Block
      BY <2>1 DEF Block
    <3> QED
      BY <2>1, <3>1 DEF MessageBlock
  <2>2. CASE ~(i < 8)
    BY <2>2, EndMarkWord, ZeroOnesWord
  <2> QED
    BY <2>1, <2>2
<1> QED
  BY <1>1, <1>2 DEF FirstBlock, SecondBlock, MessageBlock

(* The digest of a nonce is what the one-shot scalar code leaves in B[8] and *)
(* B[9].                                                                     *)
ScalarEnd(a, n) ==
  Finalize(Absorb(InitialState, FirstBlock(a.cache[n], a.signature)), SecondBlock(a.cache[n]))

LEMMA DigestIs ==
  ASSUME NEW a, JobOk(a), NEW n \in 0 .. Room(a) - 1
  PROVE  /\ ScalarEnd(a, n) \in State
         /\ DigestAt(a, n) = [z \in 0 .. 1 |-> ScalarEnd(a, n).B[8 + z]]
         /\ DigestAt(a, n) \in Digest
<1> DEFINE e == ScalarEnd(a, n)
<1>1. a.cache[n] \in MessageBlock /\ a.signature \in [0 .. 7 -> Word]
  BY DEF JobOk
<1>2. e \in State
  BY <1>1, BlocksOfScoop, InitialStateType, RoundIsAbsorb, FourRoundsFinalize DEF ScalarEnd
<1>3. sph_shabal_openclose_fast(a.cache[n], a.signature) = <<e.B[8], e.B[9]>>
  BY DEF sph_shabal_openclose_fast, ScalarEnd
<1> HIDE DEF e
<1>4. \A z \in 0 .. 1 : <<e.B[8], e.B[9]>>[z + 1] = e.B[8 + z]
  OBVIOUS
<1>5. DigestAt(a, n) = [z \in 0 .. 1 |-> e.B[8 + z]]
  BY <1>3, <1>4, Zenon DEF DigestAt
<1>6. ASSUME NEW z \in 0 .. 1
      PROVE  e.B[8 + z] \in Word
  <2>1. 8 + z \in Block
    BY DEF Block
  <2> QED
    BY <1>2, <2>1, StateParts DEF MessageBlock
<1> QED
  BY <1>2, <1>5, <1>6 DEF Digest, e

(* The transposed inputs hold in every lane the two blocks of its nonce.     *)
LEMMA InputsOfLane ==
  ASSUME NEW F \in Widths, NEW a, NEW w, NEW l \in Lane(F)
  PROVE  /\ BlockOf(F, Inputs1(F, a, w), l) = FirstBlock(a.cache[w + l], a.signature)
         /\ BlockOf(F, Inputs2(F, a, w), l) = SecondBlock(a.cache[w + l])
<1>1. ASSUME NEW j \in Block
      PROVE  /\ F * j + l \in 0 .. 16 * F - 1
             /\ RegisterOf(F, F * j + l) = j /\ LaneOf(F, F * j + l) = l
  <2>1. j \in Nat /\ j <= 15
    BY DEF Block
  <2> QED
    BY <2>1, LaneIndex
<1>2. ASSUME NEW j \in Block
      PROVE  Inputs1(F, a, w)[F * j + l] = IF j < 8 THEN a.signature[j] ELSE a.cache[w + l][j - 8]
  BY <1>1, Zenon DEF Inputs1
<1>3. ASSUME NEW j \in Block
      PROVE  Inputs2(F, a, w)[F * j + l] = IF j < 8 THEN a.cache[w + l][8 + j]
                                           ELSE IF j = 8 THEN EndMark ELSE Zero
  <2>1. j + 8 = 8 + j
    BY DEF Block
  <2> QED
    BY <1>1, <2>1, Zenon DEF Inputs2
<1> QED
  BY <1>2, <1>3, Zenon DEF BlockOf, FirstBlock, SecondBlock

(* The registers of a lane at the end of a turn.                             *)
LaneEnd(F, sc, a, w) ==
  [l \in Lane(F) |->
    FourRounds(Round(LoadState(F, sc, l), BlockOf(F, Inputs1(F, a, w), l)),
               BlockOf(F, Inputs2(F, a, w), l))]

LEMMA LaneEndIs ==
  ASSUME NEW F \in Widths, NEW sc, ReadyContext(F, sc), NEW a, JobOk(a),
         NEW w \in Nat, w + F <= Room(a)
  PROVE  /\ LaneEnd(F, sc, a, w) \in [Lane(F) -> State]
         /\ \A l \in Lane(F) :
              [z \in 0 .. 1 |-> LaneEnd(F, sc, a, w)[l].C[8 + z]] = DigestAt(a, w + l)
<1>1. ASSUME NEW l \in Lane(F)
      PROVE  /\ LaneEnd(F, sc, a, w)[l] \in State
             /\ LaneEnd(F, sc, a, w)[l].C = ScalarEnd(a, w + l).B
             /\ w + l \in 0 .. Room(a) - 1
  <2> DEFINE scoop == a.cache[w + l]
             one == FirstBlock(scoop, a.signature)
             two == SecondBlock(scoop)
  <2>1. w + l \in 0 .. Room(a) - 1
    BY DEF Lane, Widths, JobOk
  <2>2. one \in MessageBlock /\ two \in MessageBlock
    BY <2>1, BlocksOfScoop DEF JobOk
  <2>3. LoadState(F, sc, l) = InitialState
    BY DEF ReadyContext
  <2>4. /\ BlockOf(F, Inputs1(F, a, w), l) = one
        /\ BlockOf(F, Inputs2(F, a, w), l) = two
    BY InputsOfLane
  <2> HIDE DEF one, two
  <2>5. LaneEnd(F, sc, a, w)[l] = FourRounds(Round(InitialState, one), two)
    BY <2>3, <2>4, Zenon DEF LaneEnd
  <2>6. Round(InitialState, one) = Absorb(InitialState, one) /\ Absorb(InitialState, one) \in State
    BY <2>2, InitialStateType, RoundIsAbsorb
  <2>7. ScalarEnd(a, w + l) = Finalize(Absorb(InitialState, one), two)
    BY Zenon DEF ScalarEnd, one, two
  <2> QED
    BY <2>1, <2>2, <2>5, <2>6, <2>7, FourRoundsFinalize
<1>2. LaneEnd(F, sc, a, w) \in [Lane(F) -> State]
  BY <1>1 DEF LaneEnd
<1>3. ASSUME NEW l \in Lane(F)
      PROVE  [z \in 0 .. 1 |-> LaneEnd(F, sc, a, w)[l].C[8 + z]] = DigestAt(a, w + l)
  <2>1. w + l \in 0 .. Room(a) - 1
    BY <1>1
  <2>2. DigestAt(a, w + l) = [z \in 0 .. 1 |-> ScalarEnd(a, w + l).B[8 + z]]
    BY <2>1, DigestIs
  <2>3. LaneEnd(F, sc, a, w)[l].C = ScalarEnd(a, w + l).B
    BY <1>1
  <2> QED
    BY <2>2, <2>3, Zenon
<1> QED
  BY <1>2, <1>3

(* The digests of a turn are those of its nonces, one in every lane.         *)
TurnDigests(F, a, w) == [l \in Lane(F) |-> DigestAt(a, w + l)]

(* compress_fast and the extraction from memory.                             *)
LEMMA ExtractFast ==
  ASSUME NEW F \in Widths, NEW sc, FastReady(F, sc), NEW a, JobOk(a),
         NEW w \in Nat, w + F <= Room(a),
         NEW c, c.out_size = 256,
         c.state = Store(F, {36, 37})[<<sc.state, LaneEnd(F, sc, a, w)>>]
  PROVE  Extract(F, c, 2) = TurnDigests(F, a, w)
<1> DEFINE e == LaneEnd(F, sc, a, w)
<1>1. /\ e \in [Lane(F) -> State]
      /\ \A l \in Lane(F) : [z \in 0 .. 1 |-> e[l].C[8 + z]] = DigestAt(a, w + l)
  BY LaneEndIs DEF FastReady
<1>2. sc.state \in Memory(F)
  BY DEF FastReady, ReadyContext
<1>3. {36, 37} \in SUBSET Register
  BY DEF Register
<1> HIDE DEF e
<1>4. ASSUME NEW l \in Lane(F), NEW j \in {36, 37}
      PROVE  c.state[F * j + l] = RegisterWord(e[l], j)
  <2> DEFINE js == {36, 37}
  <2>1. js \in SUBSET Register /\ j \in js
    BY <1>3
  <2>2. c.state = Store(F, js)[<<sc.state, e>>]
    BY DEF e
  <2> HIDE DEF js
  <2> QED
    BY <1>1, <1>2, <2>1, <2>2, StoreWord
<1>5. ASSUME NEW l \in Lane(F), NEW z \in 0 .. 1
      PROVE  c.state[F * (28 + (16 - (c.out_size \div 32)) + z) + l] = e[l].C[8 + z]
  <2>1. 28 + (16 - (c.out_size \div 32)) + z = 36 + z
    <3>1. 256 \div 32 = 8
      BY SMT
    <3> QED
      BY <3>1
  <2>2. 36 + z \in {36, 37} /\ ~(36 + z < 12) /\ ~(36 + z < 28) /\ (36 + z) - 28 = 8 + z
    OBVIOUS
  <2>3. RegisterWord(e[l], 36 + z) = e[l].C[8 + z]
    BY <2>2 DEF RegisterWord
  <2> QED
    BY <1>4, <2>1, <2>2, <2>3
<1> DEFINE word(l, z) == c.state[F * (28 + (16 - (c.out_size \div 32)) + z) + l]
<1>6. Extract(F, c, 2) = [l \in Lane(F) |-> [z \in 0 .. 1 |-> word(l, z)]]
  <2>1. 2 - 1 = 1
    OBVIOUS
  <2>2. Extract(F, c, 2) = [l \in Lane(F) |-> [z \in 0 .. 2 - 1 |-> word(l, z)]]
    BY Zenon DEF Extract
  <2> HIDE DEF word
  <2> QED
    BY <2>1, <2>2
<1>7. ASSUME NEW l \in Lane(F)
      PROVE  [z \in 0 .. 1 |-> word(l, z)] = DigestAt(a, w + l)
  <2>1. \A z \in 0 .. 1 : word(l, z) = e[l].C[8 + z]
    BY <1>5
  <2>2. [z \in 0 .. 1 |-> e[l].C[8 + z]] = DigestAt(a, w + l)
    BY <1>1
  <2> HIDE DEF word
  <2>3. [z \in 0 .. 1 |-> word(l, z)] = [z \in 0 .. 1 |-> e[l].C[8 + z]]
    BY <2>1, Zenon
  <2> QED
    BY <2>2, <2>3
<1> DEFINE got(l) == [z \in 0 .. 1 |-> word(l, z)]
           want(l) == DigestAt(a, w + l)
<1>8. /\ Extract(F, c, 2) = [l \in Lane(F) |-> got(l)]
      /\ \A l \in Lane(F) : got(l) = want(l)
      /\ TurnDigests(F, a, w) = [l \in Lane(F) |-> want(l)]
  BY <1>6, <1>7 DEF TurnDigests
<1> HIDE DEF got, want
<1> QED
  BY <1>8

LEMMA CompressFastIs ==
  ASSUME NEW F \in Widths, NEW sc, FastReady(F, sc), NEW a, NEW w,
         NEW c,
         c = IncrW([sc EXCEPT !.state =
                     Store(F, {36, 37})[<<sc.state, LaneEnd(F, sc, a, w)>>]])
  PROVE  c.out_size = 256 /\ c.state = Store(F, {36, 37})[<<sc.state, LaneEnd(F, sc, a, w)>>]
<1> DEFINE m == Store(F, {36, 37})[<<sc.state, LaneEnd(F, sc, a, w)>>]
           d == [sc EXCEPT !.state = m]
<1>1. c = IncrW(d)
  OBVIOUS
<1> HIDE DEF m
<1>2. sc \in FastRecord(F)
  BY DEF FastReady
<1>3. d.state = m /\ d.out_size = 256 /\ d \in [state : {m}, Wlow : Word, Whigh : Word, out_size : {256}]
  BY <1>2 DEF FastRecord
<1> HIDE DEF d
<1>4. \A x, y : LET q == [d EXCEPT !.Wlow = x, !.Whigh = y]
                IN  q.state = d.state /\ q.out_size = d.out_size
  BY <1>3
<1>5. IncrW(d).state = d.state /\ IncrW(d).out_size = d.out_size
  BY <1>4, Zenon DEF IncrW
<1> QED
  BY <1>1, <1>3, <1>5 DEF m

(* In every lane, procscoop_sse_fast, _avx_fast, _avx2_fast and _avx512_fast *)
(* compute the digest that sph_shabal_openclose_fast computes of the nonce   *)
(* of that lane, for any words.                                              *)
THEOREM SimdDigests ==
  ASSUME NEW F \in Widths, NEW sc, FastReady(F, sc), NEW a, JobOk(a),
         NEW w \in Nat, w + F <= Room(a)
  PROVE  /\ F = 4 => sse_digests(sc, a, w) = TurnDigests(4, a, w)
         /\ F = 4 => avx_digests(sc, a, w) = TurnDigests(4, a, w)
         /\ F = 8 => avx2_digests(sc, a, w) = TurnDigests(8, a, w)
         /\ F = 16 => avx512_digests(sc, a, w) = TurnDigests(16, a, w)
<1> DEFINE e == LaneEnd(F, sc, a, w)
           c == IncrW([sc EXCEPT !.state = Store(F, {36, 37})[<<@, e>>]])
<1>1. Extract(F, c, 2) = TurnDigests(F, a, w)
  <2>1. c = IncrW([sc EXCEPT !.state =
                    Store(F, {36, 37})[<<sc.state, LaneEnd(F, sc, a, w)>>]])
    OBVIOUS
  <2> HIDE DEF c
  <2>2. c.out_size = 256 /\ c.state = Store(F, {36, 37})[<<sc.state, LaneEnd(F, sc, a, w)>>]
    BY <2>1, CompressFastIs
  <2> QED
    BY <2>2, ExtractFast
<1>2. [l \in Lane(F) |-> [z \in 0 .. 1 |-> e[l].C[8 + z]]] = TurnDigests(F, a, w)
  <2>1. ReadyContext(F, sc)
    BY DEF FastReady
  <2>2. \A l \in Lane(F) : [z \in 0 .. 1 |-> e[l].C[8 + z]] = DigestAt(a, w + l)
    BY <2>1, LaneEndIs
  <2> HIDE DEF e
  <2> QED
    BY <2>2, Zenon DEF TurnDigests
<1>3. F = 4 => sse_digests(sc, a, w) = [l \in Lane(F) |-> [z \in 0 .. 1 |-> e[l].C[8 + z]]]
  BY DEF sse_digests, sse_inputs, simd128_sse2_mshabal_openclose_fast, FinalRegisters, LaneEnd,
         simd128_sse2_round_1, simd128_sse2_rounds_2_5
<1>4. F = 4 => avx_digests(sc, a, w) = Extract(F, c, 2)
  BY DEF avx_digests, avx_inputs, simd128_mshabal_openclose_fast, simd128_mshabal_compress_fast,
         CompressFast, FinalRegisters, LaneEnd, simd128_round_1, simd128_rounds_2_5
<1>5. F = 8 => avx2_digests(sc, a, w) = Extract(F, c, 2)
  BY DEF avx2_digests, avx2_inputs, simd256_mshabal_openclose_fast, simd256_mshabal_compress_fast,
         CompressFast, FinalRegisters, LaneEnd, simd256_round_1, simd256_rounds_2_5
<1>6. F = 16 => avx512_digests(sc, a, w) = Extract(F, c, 2)
  BY DEF avx512_digests, avx512_inputs, simd512_mshabal_openclose_fast,
         simd512_mshabal_compress_fast,
         CompressFast, FinalRegisters, LaneEnd, simd512_round_1, simd512_rounds_2_5
<1> HIDE DEF c, e
<1> QED
  BY <1>1, <1>2, <1>3, <1>4, <1>5, <1>6

-----------------------------------------------------------------------------
(* The streaming scalar code on the 24 words of one nonce                    *)

Sph(s, b, p) == [state |-> s, buf |-> b, ptr |-> p]
Piece(x, o) == [off |-> o, sc |-> x]
ScoopMessage(a, w) ==
  [i \in 1 .. 24 |-> IF i <= 8 THEN a.signature[i - 1] ELSE a.cache[w][i - 9]]

LEMMA SphFields ==
  ASSUME NEW s, NEW b, NEW p
  PROVE  Sph(s, b, p).state = s /\ Sph(s, b, p).buf = b /\ Sph(s, b, p).ptr = p
  BY DEF Sph

NextBlock(x, t) == [x EXCEPT !.state = t, !.ptr = 0]

LEMMA SphNextBlock ==
  ASSUME NEW s, NEW b, NEW p, NEW t
  PROVE  NextBlock(Sph(s, b, p), t) = Sph(t, b, 0)
<1>1. [Sph(s, b, p) EXCEPT !.state = t] = Sph(t, b, p)
  BY DEF Sph
<1>2. [Sph(t, b, p) EXCEPT !.ptr = 0] = Sph(t, b, 0)
  BY DEF Sph
<1> QED
  BY <1>1, <1>2, Zenon DEF NextBlock

CopiedIn(b, p, data, from, n) ==
  [i \in Block |-> IF i \in p .. p + n - 1 THEN data[from + i - p + 1] ELSE b[i]]

LEMMA CopyInSph ==
  ASSUME NEW s, NEW b, NEW p, NEW data, NEW from, NEW n
  PROVE  CopyIn(Sph(s, b, p), data, from, n) = Sph(s, CopiedIn(b, p, data, from, n), p + n)
<1> DEFINE c == CopiedIn(b, p, data, from, n)
<1>1. Sph(s, b, p).buf = b /\ Sph(s, b, p).ptr = p /\ Sph(s, c, p).ptr = p
  BY SphFields
<1>2. CopyIn(Sph(s, b, p), data, from, n) = [Sph(s, b, p) EXCEPT !.buf = c, !.ptr = @ + n]
  BY <1>1, Zenon DEF CopyIn, CopiedIn
<1> HIDE DEF c
<1>3. [Sph(s, b, p) EXCEPT !.buf = c] = Sph(s, c, p)
  BY DEF Sph
<1> DEFINE q == p + n
<1>4. CopyIn(Sph(s, b, p), data, from, n) = [Sph(s, c, p) EXCEPT !.ptr = q]
  BY <1>1, <1>2, <1>3, Zenon
<1> HIDE DEF q
<1>5. [Sph(s, c, p) EXCEPT !.ptr = q] = Sph(s, c, q)
  BY DEF Sph
<1> QED
  BY <1>4, <1>5, Zenon DEF c, q

LEMMA MessageWords ==
  ASSUME NEW a, NEW w
  PROVE  /\ Len(ScoopMessage(a, w)) = 24
         /\ \A i \in Block : ScoopMessage(a, w)[i + 1] = FirstBlock(a.cache[w], a.signature)[i]
         /\ \A i \in 0 .. 7 : ScoopMessage(a, w)[16 + i + 1] = SecondBlock(a.cache[w])[i]
<1> DEFINE m == ScoopMessage(a, w)
<1>1. Len(m) = 24
  BY DEF ScoopMessage
<1>2. ASSUME NEW i \in Block
      PROVE  m[i + 1] = FirstBlock(a.cache[w], a.signature)[i]
  <2>1. i + 1 \in 1 .. 24 /\ (i + 1) - 1 = i /\ (i + 1) - 9 = i - 8 /\ (i + 1 <= 8 <=> i < 8)
    BY DEF Block
  <2> QED
    BY <2>1 DEF ScoopMessage, FirstBlock
<1>3. ASSUME NEW i \in 0 .. 7
      PROVE  m[16 + i + 1] = SecondBlock(a.cache[w])[i]
  <2>1. /\ 16 + i + 1 \in 1 .. 24 /\ (16 + i + 1) - 9 = 8 + i /\ ~(16 + i + 1 <= 8)
        /\ i \in Block /\ i < 8
    BY DEF Block
  <2> QED
    BY <2>1 DEF ScoopMessage, SecondBlock
<1> QED
  BY <1>1, <1>2, <1>3

(* The first turn takes a full block, the second what is left.               *)
LEMMA FirstTurn ==
  ASSUME NEW m, Len(m) = 24, NEW b, NEW f, f = [i \in Block |-> f[i]],
         \A i \in Block : m[i + 1] = f[i]
  PROVE  Turn(Sph(InitialState, b, 0), m, 0) = Piece(Sph(Absorb(InitialState, f), f, 0), 16)
<1> DEFINE x == Sph(InitialState, b, 0)
           filled == CopyIn(x, m, 0, 16)
<1>1. CopiedIn(b, 0, m, 0, 16) = f
  <2>1. ASSUME NEW i \in Block
        PROVE  (IF i \in 0 .. 0 + 16 - 1 THEN m[0 + i - 0 + 1] ELSE b[i]) = f[i]
    <3>1. i \in 0 .. 0 + 16 - 1 /\ 0 + i - 0 + 1 = i + 1
      BY DEF Block
    <3> QED
      BY <3>1
  <2> QED
    BY <2>1, Zenon DEF CopiedIn
<1>2. filled = Sph(InitialState, f, 16)
  <2>1. filled = Sph(InitialState, CopiedIn(b, 0, m, 0, 16), 0 + 16)
    BY CopyInSph
  <2>2. 0 + 16 = 16
    OBVIOUS
  <2> HIDE DEF filled
  <2> QED
    BY <1>1, <2>1, <2>2
<1>3. ClipToBuf(x, Len(m) - 0) = 16
  <2>1. x.ptr = 0
    BY DEF Sph
  <2> HIDE DEF x
  <2> QED
    BY <2>1 DEF ClipToBuf
<1>4. Turn(x, m, 0) =
        [off |-> 0 + 16,
         sc |-> IF filled.ptr = 16
                THEN [filled EXCEPT !.state = Absorb(@, filled.buf), !.ptr = 0] ELSE filled]
  BY <1>3, Zenon DEF Turn
<1> HIDE DEF filled
<1>5. filled.ptr = 16 /\ filled.buf = f /\ filled.state = InitialState
  BY <1>2 DEF Sph
<1>6. [filled EXCEPT !.state = Absorb(@, filled.buf), !.ptr = 0] = Sph(Absorb(InitialState, f), f, 0)
  <2>1. [filled EXCEPT !.state = Absorb(@, filled.buf), !.ptr = 0] =
          NextBlock(Sph(InitialState, f, 16), Absorb(InitialState, f))
    BY <1>2, <1>5, Zenon DEF NextBlock
  <2>2. NextBlock(Sph(InitialState, f, 16), Absorb(InitialState, f)) =
          Sph(Absorb(InitialState, f), f, 0)
    BY SphNextBlock
  <2> QED
    BY <2>1, <2>2, Zenon
<1>7. Turn(x, m, 0) = [off |-> 0 + 16, sc |-> Sph(Absorb(InitialState, f), f, 0)]
  BY <1>4, <1>5, <1>6, Zenon
<1>8. 0 + 16 = 16
  OBVIOUS
<1> QED
  BY <1>7, <1>8, Zenon DEF Piece

LEMMA SecondTurn ==
  ASSUME NEW m, Len(m) = 24, NEW s, NEW f
  PROVE  Turn(Sph(s, f, 0), m, 16) = Piece(Sph(s, CopiedIn(f, 0, m, 16, 8), 8), 24)
<1> DEFINE x == Sph(s, f, 0)
           filled == CopyIn(x, m, 16, 8)
<1>1. filled = Sph(s, CopiedIn(f, 0, m, 16, 8), 8)
  <2>1. filled = Sph(s, CopiedIn(f, 0, m, 16, 8), 0 + 8)
    BY CopyInSph
  <2>2. 0 + 8 = 8
    OBVIOUS
  <2> HIDE DEF filled
  <2> QED
    BY <2>1, <2>2
<1>2. ClipToBuf(x, Len(m) - 16) = 8
  <2>1. x.ptr = 0
    BY DEF Sph
  <2> HIDE DEF x
  <2> QED
    BY <2>1 DEF ClipToBuf
<1>3. Turn(x, m, 16) =
        [off |-> 16 + 8,
         sc |-> IF filled.ptr = 16
                THEN [filled EXCEPT !.state = Absorb(@, filled.buf), !.ptr = 0] ELSE filled]
  BY <1>2, Zenon DEF Turn
<1> HIDE DEF filled
<1>4. filled.ptr = 8
  BY <1>1 DEF Sph
<1>5. 16 + 8 = 24 /\ filled.ptr # 16
  BY <1>4
<1>6. Turn(x, m, 16) = [off |-> 16 + 8, sc |-> filled]
  BY <1>3, <1>5, Zenon
<1> QED
  BY <1>1, <1>5, <1>6, Zenon DEF Piece

(* The turns of sph_shabal256 over 24 words: two of them do something.       *)
Turns(x, m, g) ==
  g = [k \in 0 .. 24 |->
        IF k = 0 THEN [sc |-> x, off |-> 0]
        ELSE IF g[k - 1].off < 24 THEN Turn(g[k - 1].sc, m, g[k - 1].off) ELSE g[k - 1]]

LEMMA TurnsEnd ==
  ASSUME NEW x, NEW m, NEW y, NEW z,
         Turn(x, m, 0) = Piece(y, 16), Turn(y, m, 16) = Piece(z, 24)
  PROVE  /\ \E g : Turns(x, m, g)
         /\ \A g : Turns(x, m, g) => g[24] = Piece(z, 24)
<1> DEFINE zero == [sc |-> x, off |-> 0]  one == Piece(y, 16)  two == Piece(z, 24)
           h == [k \in 0 .. 24 |-> IF k = 0 THEN zero ELSE IF k = 1 THEN one ELSE two]
           step(p) == IF p.off < 24 THEN Turn(p.sc, m, p.off) ELSE p
<1>1. zero.off = 0 /\ zero.sc = x /\ one.off = 16 /\ one.sc = y /\ two.off = 24
  BY DEF Piece
<1> HIDE DEF zero, one, two
<1>2. step(zero) = one /\ step(one) = two /\ step(two) = two
  BY <1>1 DEF one, two
<1> HIDE DEF step
<1>3. \A g : Turns(x, m, g) <=> g = [k \in 0 .. 24 |-> IF k = 0 THEN zero ELSE step(g[k - 1])]
  BY DEF Turns, step, zero
<1>4. Turns(x, m, h)
  <2>1. ASSUME NEW k \in 0 .. 24
        PROVE  h[k] = IF k = 0 THEN zero ELSE step(h[k - 1])
    <3>1. CASE k = 0
      BY <3>1
    <3>2. CASE k = 1
      <4>1. h[k] = one /\ h[k - 1] = zero
        BY <3>2
      <4> QED
        BY <1>2, <3>2, <4>1
    <3>3. CASE k = 2
      <4>1. h[k] = two /\ h[k - 1] = one
        BY <3>3
      <4> QED
        BY <1>2, <3>3, <4>1
    <3>4. CASE k > 2
      <4>1. h[k] = two /\ h[k - 1] = two
        BY <3>4
      <4> QED
        BY <1>2, <3>4, <4>1
    <3> QED
      BY <3>1, <3>2, <3>3, <3>4
  <2>2. h = [k \in 0 .. 24 |-> h[k]]
    OBVIOUS
  <2> HIDE DEF h
  <2>3. h = [k \in 0 .. 24 |-> IF k = 0 THEN zero ELSE step(h[k - 1])]
    BY <2>1, <2>2, Zenon
  <2> QED
    BY <1>3, <2>3
<1>5. ASSUME NEW g, Turns(x, m, g)
      PROVE  g[24] = two
  <2>1. \A k \in 0 .. 24 : g[k] = IF k = 0 THEN zero ELSE step(g[k - 1])
    BY <1>3, <1>5
  <2>2. g[1] = one /\ g[2] = two
    BY <1>2, <2>1
  <2> DEFINE S == {k \in 0 .. 48 : k <= 22 => g[k + 2] = two}
  <2>3. 0 \in S
    BY <2>2
  <2>4. ASSUME NEW k \in 0 .. 47, k \in S
        PROVE  k + 1 \in S
    <3>1. CASE k + 1 <= 22
      <4>1. k + 3 \in 0 .. 24 /\ k + 3 # 0 /\ (k + 3) - 1 = k + 2 /\ (k + 1) + 2 = k + 3
        BY <3>1
      <4>2. g[k + 2] = two
        BY <2>4, <3>1
      <4>3. g[k + 3] = two
        BY <1>2, <2>1, <4>1, <4>2
      <4> QED
        BY <4>1, <4>3
    <3>2. CASE ~(k + 1 <= 22)
      BY <3>2
    <3> QED
      BY <3>1, <3>2
  <2>5. 22 \in S
    <3> HIDE DEF S
    <3>1. 22 \in 0 .. 48
      OBVIOUS
    <3> QED
      BY <2>3, <2>4, <3>1, Chain
  <2>6. 22 + 2 = 24
    OBVIOUS
  <2> QED
    BY <2>5, <2>6
<1> QED
  BY <1>4, <1>5 DEF two

LEMMA SphUpdate ==
  ASSUME NEW b, NEW m, Len(m) = 24, NEW y, NEW z,
         Turn(Sph(InitialState, b, 0), m, 0) = Piece(y, 16), Turn(y, m, 16) = Piece(z, 24)
  PROVE  sph_shabal256(Sph(InitialState, b, 0), m) = z
<1> DEFINE x == Sph(InitialState, b, 0)
<1>1. x.ptr = 0
  BY DEF Sph
<1>2. (\E g : Turns(x, m, g)) /\ \A g : Turns(x, m, g) => g[24] = Piece(z, 24)
  BY TurnsEnd
<1> HIDE DEF x
<1>3. sph_shabal256(x, m) = (CHOOSE g : Turns(x, m, g))[24].sc
  <2>1. ~(Len(m) < 16 - x.ptr)
    BY <1>1
  <2> QED
    BY <2>1 DEF sph_shabal256, Turns
<1>4. (CHOOSE g : Turns(x, m, g))[24] = Piece(z, 24)
  BY <1>2
<1> QED
  BY <1>3, <1>4 DEF Piece, x

\* a context of the scalar code after its init
ScalarReady(g) == \E b : g = Sph(InitialState, b, 0)

LEMMA ScalarInit ==
  ASSUME NEW s, NEW b, NEW p
  PROVE  sph_shabal256_init(Sph(s, b, p)) = Sph(InitialState, b, 0)
<1>1. sph_shabal256_init(Sph(s, b, p)) = NextBlock(Sph(s, b, p), InitialState)
  BY Zenon DEF sph_shabal256_init, NextBlock
<1>2. NextBlock(Sph(s, b, p), InitialState) = Sph(InitialState, b, 0)
  BY SphNextBlock
<1> QED
  BY <1>1, <1>2, Zenon

LEMMA CloseSph ==
  ASSUME NEW s \in State, NEW b, NEW scoop \in MessageBlock,
         \A i \in 0 .. 7 : b[i] = SecondBlock(scoop)[i],
         NEW z \in 0 .. 1
  PROVE  shabal_close(Sph(s, b, 8)).dst[z] = Finalize(s, SecondBlock(scoop)).B[8 + z]
<1> DEFINE c == Sph(s, b, 8)
<1>1. c.state = s /\ c.buf = b /\ c.ptr = 8
  BY DEF Sph
<1> HIDE DEF c
<1>2. Padded(c) = SecondBlock(scoop)
  <2>1. Padded(c) = [i \in Block |-> IF i < 8 THEN b[i] ELSE IF i = 8 THEN EndMark ELSE Zero]
    BY <1>1, Zenon DEF Padded
  <2>2. ASSUME NEW i \in Block
        PROVE  (IF i < 8 THEN b[i] ELSE IF i = 8 THEN EndMark ELSE Zero) =
                 IF i < 8 THEN scoop[8 + i] ELSE IF i = 8 THEN EndMark ELSE Zero
    <3>1. CASE i < 8
      <4>1. i \in 0 .. 7
        BY <3>1 DEF Block
      <4>2. SecondBlock(scoop)[i] = scoop[8 + i]
        BY <3>1 DEF SecondBlock
      <4> QED
        BY <3>1, <4>1, <4>2
    <3>2. CASE ~(i < 8)
      BY <3>2
    <3> QED
      BY <3>1, <3>2
  <2> QED
    BY <2>1, <2>2, Zenon DEF SecondBlock
<1>3. shabal_close(c).dst = DigestOf(Finalize(s, SecondBlock(scoop)))
  <2>1. \A p, q : [sc |-> p, dst |-> q].dst = q
    OBVIOUS
  <2> QED
    BY <1>1, <1>2, <2>1, Zenon DEF shabal_close
<1>4. z \in 0 .. 7
  OBVIOUS
<1> DEFINE e == Finalize(s, SecondBlock(scoop))
<1> HIDE DEF e
<1>5. DigestOf(e)[z] = e.B[8 + z]
  BY <1>4 DEF DigestOf
<1> QED
  BY <1>3, <1>5 DEF c, e

(* procscoop_sph, which feeds the 24 words of a nonce to sph_shabal256 and   *)
(* closes, computes the digest of sph_shabal_openclose_fast, for any words.  *)
THEOREM SphDigest ==
  ASSUME NEW g, ScalarReady(g), NEW a, JobOk(a), NEW w \in 0 .. Room(a) - 1
  PROVE  [l \in {0} |-> [z \in 0 .. 1 |->
           shabal_close(sph_shabal256(g, ScoopMessage(a, w))).dst[z]]]
         = TurnDigests(1, a, w)
<1> DEFINE m == ScoopMessage(a, w)
           scoop == a.cache[w]
           f == FirstBlock(scoop, a.signature)
           s == Absorb(InitialState, f)
           b2 == CopiedIn(f, 0, m, 16, 8)
<1>1. scoop \in MessageBlock /\ a.signature \in [0 .. 7 -> Word]
  BY DEF JobOk
<1>2. f \in MessageBlock /\ s \in State
  BY <1>1, BlocksOfScoop, InitialStateType, RoundIsAbsorb
<1>3. /\ Len(m) = 24
      /\ \A i \in Block : m[i + 1] = f[i]
      /\ \A i \in 0 .. 7 : m[16 + i + 1] = SecondBlock(scoop)[i]
  BY MessageWords
<1>4. f = [i \in Block |-> f[i]]
  BY DEF FirstBlock
<1>5. PICK b : g = Sph(InitialState, b, 0)
  BY DEF ScalarReady
<1> HIDE DEF m, f
<1>6. Turn(Sph(InitialState, b, 0), m, 0) = Piece(Sph(s, f, 0), 16)
  BY <1>3, <1>4, FirstTurn
<1>7. Turn(Sph(s, f, 0), m, 16) = Piece(Sph(s, b2, 8), 24)
  BY <1>3, SecondTurn
<1> HIDE DEF s, b2
<1>8. sph_shabal256(Sph(InitialState, b, 0), m) = Sph(s, b2, 8)
  BY <1>3, <1>6, <1>7, SphUpdate
<1>9. ASSUME NEW i \in 0 .. 7
      PROVE  b2[i] = SecondBlock(scoop)[i]
  <2>1. i \in Block /\ i \in 0 .. 0 + 8 - 1 /\ 16 + i - 0 + 1 = 16 + i + 1
    BY DEF Block
  <2>2. b2[i] = m[16 + i - 0 + 1]
    BY <2>1 DEF b2, CopiedIn
  <2> QED
    BY <1>3, <2>1, <2>2
<1>10. ScalarEnd(a, w) = Finalize(s, SecondBlock(scoop))
  BY Zenon DEF ScalarEnd, s, f
<1> DEFINE got(z) == shabal_close(sph_shabal256(g, m)).dst[z]
<1>11. ASSUME NEW z \in 0 .. 1
       PROVE  got(z) = ScalarEnd(a, w).B[8 + z]
  <2>1. shabal_close(Sph(s, b2, 8)).dst[z] = Finalize(s, SecondBlock(scoop)).B[8 + z]
    BY <1>1, <1>2, <1>9, CloseSph
  <2>2. sph_shabal256(g, m) = Sph(s, b2, 8)
    BY <1>5, <1>8
  <2> QED
    BY <1>10, <2>1, <2>2
<1>12. DigestAt(a, w) = [z \in 0 .. 1 |-> ScalarEnd(a, w).B[8 + z]]
  BY DigestIs
<1> HIDE DEF got
<1>13. [z \in 0 .. 1 |-> got(z)] = DigestAt(a, w)
  BY <1>11, <1>12, Zenon
<1>14. TurnDigests(1, a, w) = [l \in {0} |-> DigestAt(a, w)]
  <2>1. Lane(1) = {0} /\ w + 0 = w
    BY DEF Lane
  <2> QED
    BY <2>1 DEF TurnDigests
<1> QED
  BY <1>13, <1>14 DEF got, m

-----------------------------------------------------------------------------
(* Deadlines: the order of unsigned long long values and the division        *)

Digits == [1 .. 4 -> Half]
NumberOf(H, x) == ((x[1] * H + x[2]) * H + x[3]) * H + x[4]
ValueOf(x) == NumberOf(HALF, x)

LEMMA DigitParts ==
  ASSUME NEW x \in Digits, NEW i \in 1 .. 4
  PROVE  x[i] \in Nat /\ x[i] <= 65535
<1>1. x[i] \in Half
  BY DEF Digits
<1> QED
  BY <1>1, HalfRange

LEMMA TwoPlaces ==
  ASSUME NEW a \in Nat, NEW b \in Nat, NEW c \in Nat, NEW d \in Nat,
         b <= 65535, d <= 65535
  PROVE  /\ a * 65536 + b < c * 65536 + d <=> (a < c \/ (a = c /\ b < d))
         /\ a * 65536 + b = c * 65536 + d <=> (a = c /\ b = d)
  BY SMT

(* Less compares the numbers that the digits stand for.                      *)
LEMMA LessIsValue ==
  ASSUME NEW x \in Digits, NEW y \in Digits
  PROVE  /\ ValueOf(x) \in Nat
         /\ Less(x, y) <=> ValueOf(x) < ValueOf(y)
<1>1. /\ x[1] \in Nat /\ x[2] \in Nat /\ x[3] \in Nat /\ x[4] \in Nat
      /\ x[2] <= 65535 /\ x[3] <= 65535 /\ x[4] <= 65535
  BY SMT, DigitParts
<1>2. /\ y[1] \in Nat /\ y[2] \in Nat /\ y[3] \in Nat /\ y[4] \in Nat
      /\ y[2] <= 65535 /\ y[3] <= 65535 /\ y[4] <= 65535
  BY SMT, DigitParts
<1> DEFINE x2 == x[1] * 65536 + x[2]  y2 == y[1] * 65536 + y[2]
           x3 == x2 * 65536 + x[3]    y3 == y2 * 65536 + y[3]
           x4 == x3 * 65536 + x[4]    y4 == y3 * 65536 + y[4]
<1>3. x2 \in Nat /\ y2 \in Nat /\ x3 \in Nat /\ y3 \in Nat /\ x4 \in Nat /\ y4 \in Nat
  BY SMT, <1>1, <1>2
<1>4. /\ x2 < y2 <=> (x[1] < y[1] \/ (x[1] = y[1] /\ x[2] < y[2]))
      /\ x2 = y2 <=> (x[1] = y[1] /\ x[2] = y[2])
  BY SMT, <1>1, <1>2, TwoPlaces
<1>5. ValueOf(x) = x4 /\ ValueOf(y) = y4
  BY SMT DEF ValueOf, NumberOf, HALF
<1> HIDE DEF x2, y2
<1>6. /\ x3 < y3 <=> (x2 < y2 \/ (x2 = y2 /\ x[3] < y[3]))
      /\ x3 = y3 <=> (x2 = y2 /\ x[3] = y[3])
  BY SMT, <1>1, <1>2, <1>3, TwoPlaces
<1> HIDE DEF x3, y3
<1>7. x4 < y4 <=> (x3 < y3 \/ (x3 = y3 /\ x[4] < y[4]))
  BY SMT, <1>1, <1>2, <1>3, TwoPlaces
<1> HIDE DEF x4, y4
<1>8. Less(x, y) <=>
        \/ x[1] < y[1]
        \/ x[2] < y[2] /\ x[1] = y[1]
        \/ x[3] < y[3] /\ x[1] = y[1] /\ x[2] = y[2]
        \/ x[4] < y[4] /\ x[1] = y[1] /\ x[2] = y[2] /\ x[3] = y[3]
  BY SMT, <1>1, <1>2 DEF Less
<1> QED
  BY SMT, <1>3, <1>4, <1>5, <1>6, <1>7, <1>8

(* The remainders of the long division.                                      *)
Rests(x, d, g) ==
  g = [i \in 0 .. 4 |-> IF i = 0 THEN 0 ELSE (g[i - 1] * HALF + x[i]) % d]

LEMMA DivMod ==
  ASSUME NEW d \in Nat \ {0}, NEW p \in Nat
  PROVE  /\ p % d \in Nat /\ p % d < d /\ p \div d \in Nat
         /\ p = d * (p \div d) + (p % d)
<1>1. p = d * (p \div d) + (p % d)
  BY SMT
<1>2. p % d \in Nat /\ p % d < d /\ p \div d \in Nat
  BY SMT
<1> QED
  BY Zenon, <1>1, <1>2

(* One step of the long division, in any base.                               *)
LEMMA DivideStep ==
  ASSUME NEW d \in Nat \ {0}, NEW r \in Nat, r < d, NEW H \in Nat, NEW a \in Nat, a < H
  PROVE  LET p == r * H + a
         IN  /\ p % d \in Nat /\ p % d < d
             /\ p \div d \in Nat /\ p \div d < H
             /\ p = d * (p \div d) + (p % d)
<1>1. r * H + a \in Nat
  BY SMT
<1>2. \A p \in Nat : /\ p % d \in Nat /\ p % d < d /\ p \div d \in Nat
                     /\ p = d * (p \div d) + (p % d)
  BY Zenon, DivMod
<1>3. (r * H + a) \div d < H
  BY SMT
<1> QED
  BY Zenon, <1>1, <1>2, <1>3

LEMMA Below ==
  ASSUME NEW H \in Nat, NEW a \in Nat
  PROVE  H = 65536 => (a <= 65535 <=> a < H)
  BY SMT

(* Four digits, divided one after the other, give the quotient.              *)
LongDivision(d, H, x, y, g) ==
  /\ x[1] \in Nat /\ x[2] \in Nat /\ x[3] \in Nat /\ x[4] \in Nat
  /\ y[1] \in Nat /\ y[2] \in Nat /\ y[3] \in Nat /\ y[4] \in Nat
  /\ g[1] \in Nat /\ g[2] \in Nat /\ g[3] \in Nat /\ g[4] \in Nat
  /\ 0 * H + x[1] = d * y[1] + g[1]
  /\ g[1] * H + x[2] = d * y[2] + g[2]
  /\ g[2] * H + x[3] = d * y[3] + g[3]
  /\ g[3] * H + x[4] = d * y[4] + g[4]

LEMMA FourDigits ==
  ASSUME NEW d \in Nat, NEW H \in Nat, NEW x, NEW y, NEW g,
         LongDivision(d, H, x, y, g)
  PROVE  NumberOf(H, x) = d * NumberOf(H, y) + g[4]
<1> DEFINE a == x[1]  b == x[2]  c == x[3]  e == x[4]
           p == y[1]  q == y[2]  s == y[3]  t == y[4]
           r1 == g[1]  r2 == g[2]  r3 == g[3]  r4 == g[4]
<1>1. a \in Nat /\ b \in Nat /\ c \in Nat /\ e \in Nat
  BY DEF LongDivision
<1>2. p \in Nat /\ q \in Nat /\ s \in Nat /\ t \in Nat
  BY DEF LongDivision
<1>3. r1 \in Nat /\ r2 \in Nat /\ r3 \in Nat /\ r4 \in Nat
  BY DEF LongDivision
<1>4. 0 * H + a = d * p + r1 /\ r1 * H + b = d * q + r2
      /\ r2 * H + c = d * s + r3 /\ r3 * H + e = d * t + r4
  BY DEF LongDivision
<1>5. SUFFICES ((a * H + b) * H + c) * H + e = d * (((p * H + q) * H + s) * H + t) + r4
  BY Zenon DEF NumberOf
<1> HIDE DEF a, b, c, e, p, q, s, t, r1, r2, r3, r4
<1>6. a = d * p + r1
  BY SMT, <1>1, <1>2, <1>3, <1>4
<1>7. a * H + b = d * (p * H + q) + r2
  BY SMT, <1>6, <1>1, <1>2, <1>3, <1>4
<1>8. (a * H + b) * H + c = d * ((p * H + q) * H + s) + r3
  <2> DEFINE m == a * H + b  n == p * H + q
  <2>1. m \in Nat /\ n \in Nat
    BY SMT, <1>1, <1>2, <1>3, <1>4
  <2>2. m = d * n + r2
    BY <1>7
  <2> HIDE DEF m, n
  <2>3. m * H + c = d * (n * H + s) + r3
    BY SMT, <2>1, <2>2, <1>1, <1>2, <1>3, <1>4
  <2> QED
    BY <2>3 DEF m, n
<1> DEFINE m == (a * H + b) * H + c  n == (p * H + q) * H + s
<1>9. m \in Nat /\ n \in Nat
  BY SMT, <1>1, <1>2, <1>3, <1>4
<1>10. m = d * n + r3
  BY <1>8
<1> HIDE DEF m, n
<1>11. m * H + e = d * (n * H + t) + r4
  BY SMT, <1>9, <1>10, <1>1, <1>2, <1>3, <1>4
<1> QED
  BY <1>11 DEF m, n

LEMMA RestsExist ==
  ASSUME NEW x, NEW d
  PROVE  \E g : Rests(x, d, g)
<1> DEFINE s1 == (0 * HALF + x[1]) % d
           s2 == (s1 * HALF + x[2]) % d
           s3 == (s2 * HALF + x[3]) % d
           s4 == (s3 * HALF + x[4]) % d
           g == [i \in 0 .. 4 |-> IF i = 0 THEN 0 ELSE IF i = 1 THEN s1 ELSE
                                  IF i = 2 THEN s2 ELSE IF i = 3 THEN s3 ELSE s4]
<1>1. s1 = (0 * HALF + x[1]) % d /\ s2 = (s1 * HALF + x[2]) % d
      /\ s3 = (s2 * HALF + x[3]) % d /\ s4 = (s3 * HALF + x[4]) % d
  OBVIOUS
<1> HIDE DEF s1, s2, s3, s4
<1>2. g[0] = 0 /\ g[1] = s1 /\ g[2] = s2 /\ g[3] = s3 /\ g[4] = s4
  OBVIOUS
<1>3. ASSUME NEW i \in 0 .. 4
      PROVE  g[i] = IF i = 0 THEN 0 ELSE (g[i - 1] * HALF + x[i]) % d
  <2>1. i = 0 \/ i = 1 \/ i = 2 \/ i = 3 \/ i = 4
    OBVIOUS
  <2> HIDE DEF g
  <2> QED
    BY SMT, <1>1, <1>2, <2>1
<1>4. g = [i \in 0 .. 4 |-> g[i]]
  OBVIOUS
<1> HIDE DEF g
<1> QED
  BY <1>3, <1>4, Zenon DEF Rests

(* Div, the quotient of two unsigned long long values, computes the          *)
(* quotient, for every divisor (the deadlines of procscoop_sph).             *)
THEOREM DivIsQuotient ==
  ASSUME NEW x \in Digits, NEW d \in Nat \ {0}
  PROVE  /\ Div(x, d) \in Digits
         /\ \E r \in Nat : r < d /\ ValueOf(x) = d * ValueOf(Div(x, d)) + r
<1> DEFINE g == CHOOSE h : Rests(x, d, h)
           part(i) == g[i - 1] * HALF + x[i]
<1>1. Rests(x, d, g)
  BY RestsExist, Zenon
<1>2. Div(x, d) = [i \in 1 .. 4 |-> part(i) \div d]
  BY Zenon DEF Div, Rests
<1> HIDE DEF g
<1>3. g[0] = 0 /\ \A i \in 1 .. 4 : g[i] = part(i) % d
  <2>1. g[0] = 0
    BY SMT, <1>1 DEF Rests
  <2>2. ASSUME NEW i \in 1 .. 4
        PROVE  g[i] = part(i) % d
    <3>1. i \in 0 .. 4 /\ i # 0
      OBVIOUS
    <3> QED
      BY Zenon, <1>1, <3>1 DEF Rests
  <2> QED
    BY <2>1, <2>2
<1>4. HALF \in Nat /\ HALF = 65536
  BY SMT DEF HALF
<1>4a. HALF \in Nat
  BY SMT, <1>4
<1>5. ASSUME NEW i \in 1 .. 4
      PROVE  x[i] \in Nat /\ x[i] < HALF
  <2>1. x[i] \in Nat /\ x[i] <= 65535
    BY SMT, DigitParts
  <2> QED
    BY SMT, <1>4, <2>1
<1> DEFINE Step(i) == /\ g[i] \in Nat /\ g[i] < d
                      /\ part(i) \div d \in Nat /\ part(i) \div d < HALF
                      /\ part(i) = d * (part(i) \div d) + g[i]
<1>6. ASSUME NEW i \in 1 .. 4, g[i - 1] \in Nat, g[i - 1] < d
      PROVE  Step(i)
  <2> DEFINE r == g[i - 1]  a == x[i]
  <2>1. a \in Nat /\ a < HALF
    BY <1>5
  <2>2. r \in Nat /\ r < d
    BY <1>6
  <2> DEFINE p == part(i)
  <2>3. p = r * HALF + a /\ g[i] = p % d
    BY <1>3, Zenon
  <2> HIDE DEF r, a, p
  <2>4. /\ p % d \in Nat /\ p % d < d
        /\ p \div d \in Nat /\ p \div d < HALF
        /\ p = d * (p \div d) + (p % d)
    BY <1>4a, <2>1, <2>2, <2>3, DivideStep, Zenon
  <2>5. /\ g[i] \in Nat /\ g[i] < d
        /\ p \div d \in Nat /\ p \div d < HALF
        /\ p = d * (p \div d) + g[i]
    BY <2>3, <2>4, Zenon
  <2> QED
    BY <2>5, Zenon DEF p
<1>7. Step(1) /\ Step(2) /\ Step(3) /\ Step(4)
  <2>0. 1 - 1 = 0 /\ 2 - 1 = 1 /\ 3 - 1 = 2 /\ 4 - 1 = 3 /\ 0 < d /\ 0 \in Nat
    BY SMT
  <2>1. Step(1)
    <3> HIDE DEF Step
    <3> QED
      BY <1>3, <1>6, <2>0
  <2>2. Step(2)
    <3>1. g[1] \in Nat /\ g[1] < d
      BY <2>1, Zenon
    <3> HIDE DEF Step
    <3> QED
      BY <1>6, <2>0, <3>1
  <2>3. Step(3)
    <3>1. g[2] \in Nat /\ g[2] < d
      BY <2>2, Zenon
    <3> HIDE DEF Step
    <3> QED
      BY <1>6, <2>0, <3>1
  <2>4. Step(4)
    <3>1. g[3] \in Nat /\ g[3] < d
      BY <2>3, Zenon
    <3> HIDE DEF Step
    <3> QED
      BY <1>6, <2>0, <3>1
  <2> QED
    BY <2>1, <2>2, <2>3, <2>4, Zenon
<1> DEFINE q == Div(x, d)
<1>8. q[1] = part(1) \div d /\ q[2] = part(2) \div d /\ q[3] = part(3) \div d
      /\ q[4] = part(4) \div d
  BY <1>2
<1>9. q \in Digits
  <2>1. ASSUME NEW i \in 1 .. 4
        PROVE  part(i) \div d \in Half
    <3> DEFINE n == part(i) \div d
    <3>1. n \in Nat /\ n < HALF
      <4>1. i = 1 \/ i = 2 \/ i = 3 \/ i = 4
        OBVIOUS
      <4> HIDE DEF part
      <4> QED
        BY <1>7, <4>1, Zenon
    <3> HIDE DEF n
    <3>2. n <= 65535
      BY SMT, <1>4, <3>1
    <3>3. n \in Half
      BY SMT, <3>1, <3>2, HalfRange
    <3> QED
      BY <3>3 DEF n
  <2> HIDE DEF part
  <2> QED
    BY <1>2, <2>1, Zenon DEF Digits
<1>10. ValueOf(x) = d * ValueOf(q) + g[4]
  <2>1. /\ x[1] \in Nat /\ x[2] \in Nat /\ x[3] \in Nat /\ x[4] \in Nat
    BY <1>5
  <2>2. /\ g[1] \in Nat /\ g[2] \in Nat /\ g[3] \in Nat /\ g[4] \in Nat
        /\ q[1] \in Nat /\ q[2] \in Nat /\ q[3] \in Nat /\ q[4] \in Nat
    BY <1>7, <1>8, Zenon
  <2>3. /\ 0 * HALF + x[1] = d * q[1] + g[1]
        /\ g[1] * HALF + x[2] = d * q[2] + g[2]
        /\ g[2] * HALF + x[3] = d * q[3] + g[3]
        /\ g[3] * HALF + x[4] = d * q[4] + g[4]
    <3>1. part(1) = 0 * HALF + x[1] /\ part(2) = g[1] * HALF + x[2]
          /\ part(3) = g[2] * HALF + x[3] /\ part(4) = g[3] * HALF + x[4]
      BY <1>3
    <3> HIDE DEF part, q
    <3> QED
      BY <1>7, <1>8, <3>1, Zenon
  <2>4. d \in Nat
    OBVIOUS
  <2> HIDE DEF q, part
  <2>5. NumberOf(HALF, x) = d * NumberOf(HALF, q) + g[4]
    <3>1. LongDivision(d, HALF, x, q, g)
      BY <2>1, <2>2, <2>3, Zenon DEF LongDivision
    <3>2. HALF \in Nat
      BY <1>4a
    <3> QED
      BY <2>4, <3>1, <3>2, FourDigits, SMT
  <2> QED
    BY <2>5, Zenon DEF ValueOf
<1>11. g[4] \in Nat /\ g[4] < d
  BY <1>7, Zenon
<1> QED
  BY <1>9, <1>10, <1>11

LEMMA QuotientOrder ==
  ASSUME NEW d \in Nat \ {0}, NEW p \in Nat, NEW q \in Nat, NEW r \in Nat, NEW s \in Nat,
         r < d, s < d, d * p + r >= d * q + s
  PROVE  p >= q
<1> SUFFICES ASSUME p < q
             PROVE  FALSE
  BY SMT
<1>1. d * q >= d * (p + 1)
  BY SMT
<1>2. d * (p + 1) = d * p + d
  BY SMT
<1> DEFINE x == d * q  y == d * p
<1>3. x \in Nat /\ y \in Nat /\ x >= y + d /\ y + r >= x + s
  BY SMT, <1>1, <1>2
<1> HIDE DEF x, y
<1> QED
  BY SMT, <1>3

(* The better of two digests has the better deadline.                        *)
LEMMA DivKeepsOrder ==
  ASSUME NEW x \in Digits, NEW y \in Digits, NEW d \in Nat \ {0}, ~Less(x, y)
  PROVE  ~Less(Div(x, d), Div(y, d))
<1>1. Div(x, d) \in Digits /\ Div(y, d) \in Digits
  BY DivIsQuotient
<1>2. PICK r \in Nat : r < d /\ ValueOf(x) = d * ValueOf(Div(x, d)) + r
  BY DivIsQuotient, Zenon
<1>3. PICK s \in Nat : s < d /\ ValueOf(y) = d * ValueOf(Div(y, d)) + s
  BY DivIsQuotient, Zenon
<1> DEFINE p == ValueOf(Div(x, d))  q == ValueOf(Div(y, d))
<1>4. p \in Nat /\ q \in Nat /\ (Less(Div(x, d), Div(y, d)) <=> p < q)
  BY <1>1, LessIsValue
<1>5. ValueOf(x) \in Nat /\ ValueOf(y) \in Nat /\ ~(ValueOf(x) < ValueOf(y))
  BY LessIsValue
<1> HIDE DEF p, q
<1>6. d * p + r >= d * q + s
  <2>1. ValueOf(x) = d * p + r /\ ValueOf(y) = d * q + s
    BY <1>2, <1>3 DEF p, q
  <2> QED
    BY SMT, <1>5, <2>1
<1>7. p >= q
  BY <1>2, <1>3, <1>4, <1>6, QuotientOrder
<1> QED
  BY SMT, <1>4, <1>7

-----------------------------------------------------------------------------
(* The best lane of a turn                                                   *)

LEMMA WertungType == ASSUME NEW d \in Digest PROVE Wertung(d) \in Digits
<1>1. d[0] \in Word /\ d[1] \in Word
  BY DEF Digest
<1>2. PICK a \in Half, b \in Half : d[1] = <<a, b>>
  BY <1>1, WordParts, Zenon DEF Word
<1>3. PICK c \in Half, e \in Half : d[0] = <<c, e>>
  BY <1>1, WordParts, Zenon DEF Word
<1>4. Wertung(d) = <<a, b>> \o <<c, e>>
  BY <1>2, <1>3, Zenon DEF Wertung, Wide
<1>5. <<a, b>> \o <<c, e>> \in [1 .. 4 -> Half]
  <2>1. <<a, b>> \in Seq(Half) /\ <<c, e>> \in Seq(Half)
    OBVIOUS
  <2>2. Len(<<a, b>>) = 2 /\ Len(<<c, e>>) = 2
    OBVIOUS
  <2> DEFINE s == <<a, b>>  t == <<c, e>>
  <2> HIDE DEF s, t
  <2>3. Len(s \o t) = 4 /\ s \o t \in Seq(Half)
    BY <2>1, <2>2 DEF s, t
  <2>4. ASSUME NEW u \in Seq(Half), Len(u) = 4
        PROVE  u \in [1 .. 4 -> Half]
    <3>1. u \in [1 .. Len(u) -> Half]
      OBVIOUS
    <3> QED
      BY <2>4, <3>1
  <2> QED
    BY <2>3, <2>4 DEF s, t
<1> QED
  BY <1>4, <1>5, Zenon DEF Digits

LEMMA LessOrder ==
  ASSUME NEW x \in Digits, NEW y \in Digits, NEW z \in Digits
  PROVE  /\ ~Less(x, x)
         /\ Less(x, y) => ~Less(y, x)
         /\ ~Less(x, y) /\ ~Less(y, z) => ~Less(x, z)
         /\ ~Less(x, y) /\ Less(z, y) => Less(z, x)
<1>1. ValueOf(x) \in Nat /\ ValueOf(y) \in Nat /\ ValueOf(z) \in Nat
  BY LessIsValue
<1>2. /\ Less(x, x) <=> ValueOf(x) < ValueOf(x)
      /\ Less(x, y) <=> ValueOf(x) < ValueOf(y)
      /\ Less(y, x) <=> ValueOf(y) < ValueOf(x)
      /\ Less(y, z) <=> ValueOf(y) < ValueOf(z)
      /\ Less(x, z) <=> ValueOf(x) < ValueOf(z)
      /\ Less(z, y) <=> ValueOf(z) < ValueOf(y)
      /\ Less(z, x) <=> ValueOf(z) < ValueOf(x)
  BY LessIsValue
<1> QED
  BY SMT, <1>1, <1>2

Posn(F, r, g) ==
  g = [l \in Lane(F) |->
        IF l = 0 THEN 0
        ELSE LET best == g[l - 1]
             IN  IF Less(Wertung(r[l]), Wertung(r[best])) THEN l ELSE best]

\* g[k] is a lane up to k with the best digest of the lanes up to k
BestUpTo(r, g, k) ==
  /\ g[k] \in 0 .. k
  /\ \A l \in 0 .. k : ~Less(Wertung(r[l]), Wertung(r[g[k]]))

LEMMA PosnExists ==
  ASSUME NEW F \in Widths, NEW r
  PROVE  \E g : Posn(F, r, g)
<1>1. F \in Nat /\ F - 1 \in 0 .. 48 /\ F - 1 \in Nat
  BY DEF Widths
<1> DEFINE L == 0 .. F - 1
           next(k, b) == IF Less(Wertung(r[k]), Wertung(r[b])) THEN k ELSE b
           f == [k \in 1 .. F - 1 |-> [b \in L |-> next(k, b)]]
<1>2. ASSUME NEW k \in 1 .. F - 1, NEW b \in L
      PROVE  next(k, b) \in L
  <2>1. k \in L
    BY <1>1
  <2> HIDE DEF L
  <2> QED
    BY <2>1, Zenon
<1>3. 0 \in L /\ f \in [1 .. F - 1 -> [L -> L]]
  <2>1. 0 \in L
    BY <1>1
  <2> HIDE DEF L, next
  <2> QED
    BY <1>2, <2>1
<1>4. PICK g \in [L -> L] : Chained(F - 1, 0, f, g)
  <2> HIDE DEF f
  <2> QED
    BY <1>1, <1>3, BoundedRecursion
<1>5. ASSUME NEW k \in L
      PROVE  g[k] = IF k = 0 THEN 0 ELSE next(k, g[k - 1])
  <2>1. g[k] = IF k = 0 THEN 0 ELSE f[k][g[k - 1]]
    <3> HIDE DEF f
    <3> QED
      BY <1>4, Zenon DEF Chained
  <2>2. k # 0 => k \in 1 .. F - 1 /\ k - 1 \in L
    BY <1>1
  <2>3. k # 0 => g[k - 1] \in L
    BY <2>2
  <2> HIDE DEF L, next
  <2> QED
    BY <2>1, <2>2, <2>3
<1>6. g = [k \in L |-> g[k]]
  OBVIOUS
<1>7. L = Lane(F)
  BY DEF Lane
<1> HIDE DEF L
<1>8. Posn(F, r, g)
  BY <1>5, <1>6, <1>7, Zenon DEF Posn
<1> QED
  BY <1>8

LEMMA PosnStep ==
  ASSUME NEW F \in Widths, NEW r \in [Lane(F) -> Digest], NEW g, Posn(F, r, g)
  PROVE  \A k \in Lane(F) : BestUpTo(r, g, k)
<1>1. F \in Nat /\ F <= 16
  BY DEF Widths
<1> DEFINE S == {k \in 0 .. 48 : k < F => BestUpTo(r, g, k)}
           w(l) == Wertung(r[l])
<1>2. \A l \in Lane(F) : w(l) \in Digits
  BY WertungType, Zenon
<1>3. 0 \in S
  <2>1. 0 \in Lane(F)
    BY SMT, <1>1 DEF Lane, Widths
  <2>2. g[0] = 0
    BY <2>1 DEF Posn
  <2>3. ~Less(w(0), w(0))
    BY <1>2, <2>1, LessOrder, Zenon
  <2>4. \A l \in 0 .. 0 : l = 0
    OBVIOUS
  <2>5. BestUpTo(r, g, 0)
    BY <2>2, <2>3, <2>4 DEF BestUpTo
  <2> QED
    BY <2>5
<1>4. ASSUME NEW k \in 0 .. 47, k \in S
      PROVE  k + 1 \in S
  <2>1. SUFFICES ASSUME k + 1 < F
                 PROVE  BestUpTo(r, g, k + 1)
    OBVIOUS
  <2>2. BestUpTo(r, g, k)
    BY <1>1, <1>4, <2>1
  <2> DEFINE b == g[k]
  <2>3. b \in 0 .. k /\ \A l \in 0 .. k : ~Less(w(l), w(b))
    BY <2>2, Zenon DEF BestUpTo
  <2>4. k + 1 \in Lane(F) /\ k + 1 # 0 /\ (k + 1) - 1 = k /\ \A l \in 0 .. k : l \in Lane(F)
    BY <1>1, <2>1 DEF Lane
  <2>5. g[k + 1] = IF Less(w(k + 1), w(b)) THEN k + 1 ELSE b
    <3>1. g[k + 1] = IF k + 1 = 0 THEN 0
                     ELSE LET best == g[(k + 1) - 1]
                          IN  IF Less(Wertung(r[k + 1]), Wertung(r[best])) THEN k + 1 ELSE best
      BY <2>4, Zenon DEF Posn
    <3> QED
      BY <2>4, <3>1
  <2>6. \A l \in 0 .. k + 1 : l \in 0 .. k \/ l = k + 1
    OBVIOUS
  <2>7. w(k + 1) \in Digits /\ w(b) \in Digits
    BY <1>2, <2>3, <2>4, Zenon
  <2> HIDE DEF w, b
  <2>8. CASE Less(w(k + 1), w(b))
    <3>1. g[k + 1] = k + 1 /\ k + 1 \in 0 .. k + 1
      BY <2>5, <2>8
    <3>2. \A l \in 0 .. k : ~Less(w(l), w(k + 1))
      <4>1. ASSUME NEW l \in 0 .. k
            PROVE  ~Less(w(l), w(k + 1))
        <5>1. w(l) \in Digits /\ ~Less(w(l), w(b))
          BY <1>2, <2>3, <2>4, Zenon
        <5>2. ~Less(w(b), w(k + 1))
          BY <2>7, <2>8, LessOrder, Zenon
        <5> QED
          BY <2>7, <5>1, <5>2, LessOrder, Zenon
      <4> QED
        BY <4>1
    <3>3. ~Less(w(k + 1), w(k + 1))
      BY <2>7, LessOrder, Zenon
    <3>4. \A l \in 0 .. k + 1 : ~Less(w(l), w(k + 1))
      BY <2>6, <3>2, <3>3, Zenon
    <3> QED
      BY <3>1, <3>4 DEF BestUpTo, w
  <2>9. CASE ~Less(w(k + 1), w(b))
    <3>1. g[k + 1] = b /\ b \in 0 .. k + 1
      BY <2>3, <2>5, <2>9
    <3>2. \A l \in 0 .. k + 1 : ~Less(w(l), w(b))
      BY <2>3, <2>6, <2>9, Zenon
    <3> QED
      BY <3>1, <3>2 DEF BestUpTo, w
  <2> QED
    BY <2>8, <2>9
<1>5. ASSUME NEW n \in Lane(F)
      PROVE  BestUpTo(r, g, n)
  <2>1. n \in 0 .. 48 /\ n < F
    BY <1>1 DEF Lane
  <2>2. n \in S
    <3> HIDE DEF S
    <3> QED
      BY <1>3, <1>4, <2>1, Chain
  <2> QED
    BY <2>1, <2>2
<1> QED
  BY <1>5

(* The comparisons lane by lane at the end of a turn of the procscoop        *)
(* functions find a lane that no other lane beats.                           *)
THEOREM BestLaneIs ==
  ASSUME NEW F \in Widths, NEW r \in [Lane(F) -> Digest]
  PROVE  /\ BestLane(F, r) \in Lane(F)
         /\ \A l \in Lane(F) : ~Less(Wertung(r[l]), Wertung(r[BestLane(F, r)]))
<1> DEFINE g == CHOOSE h : Posn(F, r, h)
<1>1. Posn(F, r, g)
  BY PosnExists, Zenon
<1>2. BestLane(F, r) = g[F - 1]
  BY Zenon DEF BestLane, Posn
<1> HIDE DEF g
<1>3. F - 1 \in Lane(F)
  BY DEF Lane, Widths
<1>4. BestUpTo(r, g, F - 1)
  BY <1>1, <1>3, PosnStep
<1> QED
  BY <1>2, <1>4 DEF BestUpTo, Lane

-----------------------------------------------------------------------------
(* One turn of the loop                                                      *)

Deadline(a, n) == Div(Wertung(DigestAt(a, n)), a.basetarget)
Reports == [nonce : Nat, best : Digits]
\* the turns of f end with the block
Fits(f, a) == a.cache_size_local % Lanes[f] = 0

\* Between two turns of a call of f with the argument a: w places are hashed,
\* r are the digests of the last turn, s the reports; no place hashed so far
\* is below the target, and the target is the deadline of the last report.
Going(f, a, w, r, s) ==
  /\ HashArg(a)
  /\ w \in Nat /\ w % Lanes[f] = 0 /\ w < a.cache_size_local + Lanes[f]
  /\ w > 0 => w >= Lanes[f] /\ r = TurnDigests(Lanes[f], a, w - Lanes[f])
  /\ s \in Seq(Reports)
  /\ \A i \in 1 .. Len(s) :
       LET n == s[i].nonce - a.nonce
       IN  /\ n \in 0 .. w - 1 /\ s[i].best = Wertung(DigestAt(a, n))
           /\ Fits(f, a) => n < a.cache_size_local
  /\ \A n \in 0 .. w - 1 : ~Less(Deadline(a, n), a.target_dl)
  /\ s # <<>> => Div(s[Len(s)].best, a.basetarget) = a.target_dl

LEMMA CoveredIs ==
  ASSUME NEW c \in Nat
  PROVE  Covered(c) \in Nat /\ c <= Covered(c)
BY DEF Covered

LEMMA ArgIsOk ==
  ASSUME NEW a, HashArg(a)
  PROVE  /\ JobOk(a) /\ a.nonce \in Nat /\ a.basetarget \in Nat \ {0}
         /\ a.target_dl \in Digits
<1>1. /\ a.signature \in [0 .. 7 -> Word] /\ a.cache_size_local \in Nat
      /\ a.nonce \in Nat /\ a.basetarget \in Nat \ {0}
      /\ a.target_dl \in [1 .. 4 -> Half]
  BY Zenon DEF HashArg
<1>2. \A n \in 0 .. Room(a) - 1 : a.cache[n] \in MessageBlock
  BY Zenon DEF HashArg, Room
<1>3. Room(a) \in Nat
  BY <1>1, CoveredIs, Zenon DEF Room
<1> QED
  BY <1>1, <1>2, <1>3, Zenon DEF JobOk, Digits

LEMMA DeadlineType ==
  ASSUME NEW a, HashArg(a), NEW n \in 0 .. Room(a) - 1
  PROVE  Wertung(DigestAt(a, n)) \in Digits /\ Deadline(a, n) \in Digits
<1>1. DigestAt(a, n) \in Digest
  BY ArgIsOk, DigestIs, Zenon
<1>2. Wertung(DigestAt(a, n)) \in Digits
  BY <1>1, WertungType, Zenon
<1> QED
  BY <1>2, ArgIsOk, DivIsQuotient, Zenon DEF Deadline

\* the argument with the target shrunk
Shrunk(a, dl) == [a EXCEPT !.target_dl = dl]

LEMMA ShrunkIs ==
  ASSUME NEW a, HashArg(a), NEW dl \in Digits
  PROVE  LET b == Shrunk(a, dl)
         IN  /\ HashArg(b) /\ b.target_dl = dl
             /\ b.cache_size_local = a.cache_size_local /\ b.nonce = a.nonce
             /\ b.basetarget = a.basetarget
             /\ \A n : DigestAt(b, n) = DigestAt(a, n)
             /\ \A n : Deadline(b, n) = Deadline(a, n)
             /\ \A F : \A w : TurnDigests(F, b, w) = TurnDigests(F, a, w)
<1> DEFINE b == Shrunk(a, dl)
<1>1. /\ b.signature = a.signature /\ b.cache = a.cache /\ b.target_dl = dl
      /\ b.cache_size_local = a.cache_size_local /\ b.nonce = a.nonce
      /\ b.basetarget = a.basetarget
  BY DEF Shrunk, HashArg
<1>2. b \in [signature : [0 .. 7 -> Word], cache : {a.cache},
             cache_size_local : Nat, nonce : Nat, basetarget : Nat \ {0},
             target_dl : [1 .. 4 -> Half]]
  BY DEF Shrunk, HashArg, Digits
<1> HIDE DEF b
<1>3. HashArg(b)
  <2>1. \A n \in 0 .. Covered(a.cache_size_local) - 1 : a.cache[n] \in MessageBlock
    BY Zenon DEF HashArg
  <2> QED
    BY <1>1, <1>2, <2>1, Zenon DEF HashArg
<1>4. \A n : DigestAt(b, n) = DigestAt(a, n)
  BY <1>1, Zenon DEF DigestAt
<1>5. \A n : Deadline(b, n) = Deadline(a, n)
  BY <1>1, <1>4, Zenon DEF Deadline
<1>6. \A F : \A w : TurnDigests(F, b, w) = TurnDigests(F, a, w)
  BY <1>4, Zenon DEF TurnDigests
<1> QED
  BY <1>1, <1>3, <1>4, <1>5, <1>6, Zenon DEF b

LEMMA LanesOf ==
  ASSUME NEW f \in Functions
  PROVE  /\ Lanes[f] \in Nat /\ Lanes[f] \in {1, 4, 8, 16}
         /\ Lanes["sph"] = 1 /\ (f # "sph" => Lanes[f] \in Widths)
  BY DEF Functions, Lanes, Widths

\* arithmetic of a turn of F lanes
LEMMA WholeTurn ==
  ASSUME NEW F \in {1, 4, 8, 16}, NEW w \in Nat, NEW c \in Nat,
         w % F = 0, w < c
  PROVE  w + F <= Covered(c) /\ (w + F) % F = 0 /\ (c % F = 0 => w + F <= c)
<1>1. CASE F = 1
  BY <1>1 DEF Covered
<1>2. CASE F = 4
  BY <1>2 DEF Covered
<1>3. CASE F = 8
  BY <1>3 DEF Covered
<1>4. CASE F = 16
  BY <1>4 DEF Covered
<1> QED
  BY <1>1, <1>2, <1>3, <1>4

LEMMA AppendIs ==
  ASSUME NEW R, NEW s \in Seq(R), NEW e \in R
  PROVE  LET t == Append(s, e)
         IN  /\ t \in Seq(R) /\ Len(t) = Len(s) + 1 /\ t[Len(s) + 1] = e /\ t # <<>>
             /\ \A i \in 1 .. Len(s) : t[i] = s[i]
<1> DEFINE t == Append(s, e)
<1>1. t \in Seq(R) /\ Len(t) = Len(s) + 1 /\ Len(s) \in Nat
  OBVIOUS
<1>2. t[Len(s) + 1] = e
  OBVIOUS
<1>3. ASSUME NEW i \in 1 .. Len(s)
      PROVE  t[i] = s[i]
  OBVIOUS
<1>4. t # <<>>
  <2>1. Len(<<>>) = 0
    OBVIOUS
  <2> HIDE DEF t
  <2> QED
    BY <1>1, <2>1
<1> HIDE DEF t
<1>5. \A i \in 1 .. Len(s) : t[i] = s[i]
  BY <1>3
<1> QED
  BY <1>1, <1>2, <1>4, <1>5, Zenon DEF t

\* the report of lane p of the turn at w
ReportOf(a, w, F, p) ==
  [nonce |-> a.nonce + w + p, best |-> Wertung(TurnDigests(F, a, w)[p])]

LEMMA TurnOf ==
  ASSUME NEW f \in Functions, NEW a, NEW w, NEW r, NEW s, Going(f, a, w, r, s),
         w < a.cache_size_local
  PROVE  /\ HashArg(a) /\ a.cache_size_local \in Nat /\ Room(a) \in Nat /\ w \in Nat
         /\ w + Lanes[f] \in Nat /\ w + Lanes[f] <= Room(a)
         /\ w + Lanes[f] < a.cache_size_local + Lanes[f]
         /\ Fits(f, a) => w + Lanes[f] <= a.cache_size_local
         /\ (w + Lanes[f]) % Lanes[f] = 0
         /\ \A l \in Lane(Lanes[f]) :
              /\ w + l \in 0 .. Room(a) - 1
              /\ w + l \in 0 .. (w + Lanes[f]) - 1
              /\ Fits(f, a) => w + l < a.cache_size_local
              /\ TurnDigests(Lanes[f], a, w)[l] = DigestAt(a, w + l)
              /\ DigestAt(a, w + l) \in Digest
<1> DEFINE F == Lanes[f]  c == a.cache_size_local  d == Room(a)  fits == Fits(f, a)
<1>1. F \in {1, 4, 8, 16} /\ F \in Nat
  BY LanesOf
<1>2. HashArg(a) /\ w \in Nat /\ w % F = 0 /\ w < c
  BY Zenon DEF Going
<1>3. c \in Nat /\ d \in Nat /\ JobOk(a)
  BY <1>2, ArgIsOk DEF JobOk
<1>4. d = Covered(c) /\ (fits => c % F = 0)
  BY DEF Fits, Room
<1> HIDE DEF F, c, d, fits
<1>5. w + F <= d /\ (w + F) % F = 0 /\ w + F \in Nat /\ w + F < c + F
  BY <1>1, <1>2, <1>3, <1>4, WholeTurn
<1>6. fits => w + F <= c
  BY <1>1, <1>2, <1>3, <1>4, WholeTurn
<1>7. ASSUME NEW l \in Lane(F)
      PROVE  /\ w + l \in 0 .. d - 1 /\ w + l \in 0 .. (w + F) - 1
             /\ fits => w + l < c
             /\ TurnDigests(F, a, w)[l] = DigestAt(a, w + l)
             /\ DigestAt(a, w + l) \in Digest
  <2>1. l \in Nat /\ l < F
    BY <1>1 DEF Lane
  <2>2. w + l \in 0 .. d - 1 /\ w + l \in 0 .. (w + F) - 1
    BY <1>1, <1>2, <1>3, <1>5, <2>1
  <2>3. fits => w + l < c
    BY <1>1, <1>2, <1>3, <1>6, <2>1
  <2>4. TurnDigests(F, a, w)[l] = DigestAt(a, w + l)
    BY Zenon DEF TurnDigests
  <2>5. DigestAt(a, w + l) \in Digest
    BY <1>3, <2>2, DigestIs, Zenon DEF d
  <2> QED
    BY <2>2, <2>3, <2>4, <2>5
<1> QED
  BY <1>2, <1>3, <1>5, <1>6, <1>7 DEF F, c, d, fits

(* A turn whose best lane has a deadline below the target.                   *)
LEMMA GoingOnReported ==
  ASSUME NEW f \in Functions, NEW a, NEW w, NEW r, NEW s, Going(f, a, w, r, s),
         w < a.cache_size_local,
         NEW p \in Lane(Lanes[f]),
         \A l \in Lane(Lanes[f]) : ~Less(Wertung(DigestAt(a, w + l)), Wertung(DigestAt(a, w + p))),
         Less(Deadline(a, w + p), a.target_dl)
  PROVE  Going(f, Shrunk(a, Deadline(a, w + p)), w + Lanes[f], TurnDigests(Lanes[f], a, w),
               Append(s, ReportOf(a, w, Lanes[f], p)))
<1> DEFINE F == Lanes[f]  c == a.cache_size_local  d == Room(a)  dl == Deadline(a, w + p)
           b == Shrunk(a, dl)  rep == ReportOf(a, w, F, p)  t == Append(s, rep)
<1>1. F \in {1, 4, 8, 16} /\ F \in Nat
  BY LanesOf
<1>2. /\ HashArg(a) /\ c \in Nat /\ d \in Nat /\ w \in Nat /\ w + F \in Nat /\ w + F <= d
      /\ (w + F) % F = 0 /\ w + F < c + F
      /\ \A l \in Lane(F) : /\ w + l \in 0 .. d - 1 /\ w + l \in 0 .. (w + F) - 1
                            /\ Fits(f, a) => w + l < c
                            /\ TurnDigests(F, a, w)[l] = DigestAt(a, w + l)
                            /\ DigestAt(a, w + l) \in Digest
  BY TurnOf
<1>3. dl \in Digits /\ a.nonce \in Nat /\ a.basetarget \in Nat \ {0} /\ a.target_dl \in Digits
  BY <1>2, DeadlineType, ArgIsOk
<1> HIDE DEF dl
<1>4. /\ HashArg(b) /\ b.target_dl = dl /\ b.cache_size_local = c /\ b.nonce = a.nonce
      /\ b.basetarget = a.basetarget
      /\ \A n : DigestAt(b, n) = DigestAt(a, n)
      /\ \A n : Deadline(b, n) = Deadline(a, n)
      /\ \A G : \A u : TurnDigests(G, b, u) = TurnDigests(G, a, u)
  BY <1>2, <1>3, ShrunkIs
<1> HIDE DEF b
<1>5. Fits(f, b) <=> Fits(f, a)
  BY <1>4, Zenon DEF Fits
<1>6. w + F > 0 => w + F >= F /\ TurnDigests(F, a, w) = TurnDigests(F, b, (w + F) - F)
  <2>1. (w + F) - F = w /\ w + F >= F
    BY <1>1, <1>2
  <2> QED
    BY <1>4, <2>1
<1>7. rep \in Reports /\ rep.nonce = a.nonce + (w + p) /\ rep.best = Wertung(DigestAt(a, w + p))
  <2> DEFINE e == Wertung(TurnDigests(F, a, w)[p])
  <2>1. e = Wertung(DigestAt(a, w + p))
    BY <1>2
  <2>2. e \in Digits
    BY <1>2, <2>1, WertungType
  <2>3. rep = [nonce |-> a.nonce + w + p, best |-> e]
    BY DEF ReportOf
  <2> HIDE DEF e, rep
  <2>4. p \in Nat
    BY <1>1 DEF Lane
  <2>5. a.nonce + w + p = a.nonce + (w + p) /\ a.nonce + w + p \in Nat
    BY <1>2, <1>3, <2>4
  <2> QED
    BY <2>1, <2>2, <2>3, <2>5 DEF Reports
<1> HIDE DEF rep
<1>8. s \in Seq(Reports)
  BY Zenon DEF Going
<1>9. /\ t \in Seq(Reports) /\ Len(t) = Len(s) + 1 /\ t[Len(s) + 1] = rep /\ t # <<>>
      /\ \A i \in 1 .. Len(s) : t[i] = s[i]
  BY <1>7, <1>8, AppendIs
<1> HIDE DEF t
<1>10. ASSUME NEW i \in 1 .. Len(t)
       PROVE  LET n == t[i].nonce - b.nonce
              IN  /\ n \in 0 .. (w + F) - 1 /\ t[i].best = Wertung(DigestAt(b, n))
                  /\ Fits(f, b) => n < b.cache_size_local
  <2>1. CASE i = Len(s) + 1
    <3>1. t[i].nonce - b.nonce = w + p
      <4>1. p \in Nat
        BY <1>1 DEF Lane
      <4>2. rep.nonce - a.nonce = w + p
        BY <1>2, <1>3, <1>7, <4>1
      <4> QED
        BY <1>4, <1>9, <2>1, <4>2, Zenon
    <3>2. t[i].best = Wertung(DigestAt(b, w + p))
      BY <1>4, <1>7, <1>9, <2>1, Zenon
    <3>3. w + p \in 0 .. (w + F) - 1 /\ (Fits(f, b) => w + p < b.cache_size_local)
      BY <1>2, <1>4, <1>5, Zenon
    <3> QED
      BY <3>1, <3>2, <3>3, Zenon
  <2>2. CASE i # Len(s) + 1
    <3>1. i \in 1 .. Len(s)
      BY <1>8, <1>9, <2>2
    <3> DEFINE n == s[i].nonce - a.nonce
    <3>2. /\ n \in 0 .. w - 1 /\ s[i].best = Wertung(DigestAt(a, n))
          /\ Fits(f, a) => n < a.cache_size_local
      BY <3>1, Zenon DEF Going
    <3>3. t[i] = s[i] /\ t[i].nonce - b.nonce = n
      BY <1>4, <1>9, <3>1, Zenon
    <3> HIDE DEF n
    <3>4. n \in 0 .. (w + F) - 1
      BY <1>1, <1>2, <3>2
    <3> QED
      BY <1>4, <1>5, <3>2, <3>3, <3>4, Zenon DEF c
  <2> QED
    BY <2>1, <2>2
<1>11. ASSUME NEW n \in 0 .. (w + F) - 1
       PROVE  ~Less(Deadline(b, n), b.target_dl)
  <2>1. CASE n < w
    <3>1. n \in 0 .. w - 1 /\ n \in 0 .. d - 1
      BY <1>1, <1>2, <2>1
    <3>2. ~Less(Deadline(a, n), a.target_dl)
      BY <3>1, Zenon DEF Going
    <3>3. Deadline(a, n) \in Digits
      BY <1>2, <3>1, DeadlineType DEF d
    <3>4. ~Less(Deadline(a, n), dl)
      <4>1. Less(dl, a.target_dl)
        BY DEF dl
      <4>2. ~Less(a.target_dl, dl)
        BY <1>3, <4>1, LessOrder, Zenon
      <4> QED
        BY <1>3, <3>2, <3>3, <4>2, LessOrder, Zenon
    <3> QED
      BY <1>4, <3>4, Zenon
  <2>2. CASE ~(n < w)
    <3> DEFINE l == n - w
    <3>1. l \in Lane(F) /\ w + l = n
      BY <1>1, <1>2, <2>2 DEF Lane
    <3>2. ~Less(Wertung(DigestAt(a, w + l)), Wertung(DigestAt(a, w + p)))
      <4> HIDE DEF l
      <4> QED
        BY <3>1, Zenon
    <3>3. Wertung(DigestAt(a, w + l)) \in Digits /\ Wertung(DigestAt(a, w + p)) \in Digits
      <4> HIDE DEF l
      <4> QED
        BY <1>2, <3>1, WertungType
    <3> HIDE DEF l
    <3>4. ~Less(Deadline(a, w + l), Deadline(a, w + p))
      BY <1>3, <3>2, <3>3, DivKeepsOrder, Zenon DEF Deadline
    <3>5. ~Less(Deadline(a, n), dl)
      BY <3>1, <3>4, Zenon DEF dl
    <3> QED
      BY <1>4, <3>5, Zenon
  <2> QED
    BY <2>1, <2>2
<1>12. Div(t[Len(t)].best, b.basetarget) = b.target_dl
  <2>1. t[Len(t)].best = Wertung(DigestAt(a, w + p))
    BY <1>7, <1>9
  <2> QED
    BY <1>4, <2>1, Zenon DEF Deadline, dl
<1>13. Going(f, b, w + F, TurnDigests(F, a, w), t)
  BY <1>2, <1>4, <1>6, <1>9, <1>10, <1>11, <1>12, Zenon DEF Going
<1> QED
  BY <1>13, Zenon DEF b, t, rep, dl

(* A turn without a report.                                                  *)
LEMMA GoingOnSilent ==
  ASSUME NEW f \in Functions, NEW a, NEW w, NEW r, NEW s, Going(f, a, w, r, s),
         w < a.cache_size_local,
         NEW p \in Lane(Lanes[f]),
         \A l \in Lane(Lanes[f]) : ~Less(Wertung(DigestAt(a, w + l)), Wertung(DigestAt(a, w + p))),
         ~Less(Deadline(a, w + p), a.target_dl)
  PROVE  Going(f, a, w + Lanes[f], TurnDigests(Lanes[f], a, w), s)
<1> DEFINE F == Lanes[f]  c == a.cache_size_local  d == Room(a)
<1>1. F \in {1, 4, 8, 16} /\ F \in Nat
  BY LanesOf
<1>2. /\ HashArg(a) /\ c \in Nat /\ d \in Nat /\ w \in Nat /\ w + F \in Nat /\ w + F <= d
      /\ (w + F) % F = 0 /\ w + F < c + F
      /\ \A l \in Lane(F) : /\ w + l \in 0 .. d - 1 /\ w + l \in 0 .. (w + F) - 1
                            /\ Fits(f, a) => w + l < c
                            /\ TurnDigests(F, a, w)[l] = DigestAt(a, w + l)
                            /\ DigestAt(a, w + l) \in Digest
  BY TurnOf
<1>3. a.target_dl \in Digits /\ a.basetarget \in Nat \ {0}
  BY <1>2, ArgIsOk
<1>4. w + F > 0 => w + F >= F /\ TurnDigests(F, a, w) = TurnDigests(F, a, (w + F) - F)
  <2>1. (w + F) - F = w /\ w + F >= F
    BY <1>1, <1>2
  <2> QED
    BY <2>1
<1>5. ASSUME NEW n \in 0 .. (w + F) - 1
      PROVE  ~Less(Deadline(a, n), a.target_dl)
  <2>1. CASE n < w
    <3>1. n \in 0 .. w - 1
      BY <1>1, <1>2, <2>1
    <3> QED
      BY <3>1, Zenon DEF Going
  <2>2. CASE ~(n < w)
    <3> DEFINE l == n - w
    <3>1. l \in Lane(F) /\ w + l = n
      BY <1>1, <1>2, <2>2 DEF Lane
    <3> HIDE DEF l
    <3>2. ~Less(Wertung(DigestAt(a, w + l)), Wertung(DigestAt(a, w + p)))
      BY <3>1, Zenon
    <3>3. Wertung(DigestAt(a, w + l)) \in Digits /\ Wertung(DigestAt(a, w + p)) \in Digits
      BY <1>2, <3>1, WertungType
    <3>4. ~Less(Deadline(a, w + l), Deadline(a, w + p))
      BY <1>3, <3>2, <3>3, DivKeepsOrder, Zenon DEF Deadline
    <3>5. Deadline(a, w + l) \in Digits /\ Deadline(a, w + p) \in Digits
      BY <1>3, <3>3, DivIsQuotient, Zenon DEF Deadline
    <3>6. ~Less(Deadline(a, w + l), a.target_dl)
      BY <1>3, <3>4, <3>5, LessOrder, Zenon
    <3> QED
      BY <3>1, <3>6, Zenon
  <2> QED
    BY <2>1, <2>2
<1> HIDE DEF F, c, d
<1>6. ASSUME NEW i \in 1 .. Len(s)
      PROVE  LET n == s[i].nonce - a.nonce
             IN  /\ n \in 0 .. (w + F) - 1 /\ s[i].best = Wertung(DigestAt(a, n))
                 /\ Fits(f, a) => n < a.cache_size_local
  <2> DEFINE n == s[i].nonce - a.nonce
  <2>1. n \in 0 .. w - 1 /\ s[i].best = Wertung(DigestAt(a, n)) /\ (Fits(f, a) => n < a.cache_size_local)
    BY Zenon DEF Going
  <2> HIDE DEF n
  <2>2. n \in 0 .. (w + F) - 1
    BY <1>1, <1>2, <2>1
  <2> QED
    BY <2>1, <2>2, Zenon DEF n
<1>7. s \in Seq(Reports) /\ (s # <<>> => Div(s[Len(s)].best, a.basetarget) = a.target_dl)
  BY Zenon DEF Going
<1>8. Going(f, a, w + F, TurnDigests(F, a, w), s)
  BY <1>2, <1>4, <1>5, <1>6, <1>7, Zenon DEF Going, F, c
<1> QED
  BY <1>8 DEF F

-----------------------------------------------------------------------------
(* The invariant of the specification                                        *)

\* The contexts that the function chosen and the function running copy are set
\* up, and so is the context of the function about to be chosen; no context of
\* a set is touched once a function has been chosen, and a later init of
\* global_32 leaves the same state.
SetReady(f) == FastReady(Lanes[f], fast[ContextOf[f]])
Prepared ==
  /\ th_hash \in Functions \cup {"none"} /\ fn \in Functions \cup {"none"}
  /\ fn # "none" => th_hash # "none"
  /\ fast = [w \in {128, 256, 512} |-> fast[w]]
  /\ \A f \in {th_hash, fn} \ {"none", "sph"} : SetReady(f)
  /\ at = "choose" => th_hash = "none" /\ chosen \in Functions \ {"sph"} /\ SetReady(chosen)
  /\ \E s, b, p : global_32 = Sph(s, b, p)
  /\ at = "default" \/ "sph" \in {th_hash, fn} => ScalarReady(global_32)

Running ==
  IF fn = "none" THEN v = 0 /\ sent = <<>> ELSE Going(fn, arg, v, res, sent)

LEMMA PreparedIsReady == ASSUME Prepared PROVE ContextReady
<1>1. ASSUME NEW f \in {th_hash, fn} \ {"none"}, f # "sph"
      PROVE  LET sc == fast[ContextOf[f]]
             IN  /\ sc.out_size = 256
                 /\ \A l \in Lane(Lanes[f]) : LoadState(Lanes[f], sc, l) = InitialState
  <2>1. FastReady(Lanes[f], fast[ContextOf[f]])
    BY <1>1, Zenon DEF Prepared, SetReady
  <2> QED
    BY <2>1, Zenon DEF FastReady, ReadyContext
<1>2. ASSUME "sph" \in {th_hash, fn}
      PROVE  global_32.state = InitialState /\ global_32.ptr = 0
  <2>1. PICK b : global_32 = Sph(InitialState, b, 0)
    BY <1>2, Zenon DEF Prepared, ScalarReady
  <2> QED
    BY <2>1, SphFields
<1> QED
  BY <1>1, <1>2, Zenon DEF ContextReady

LEMMA PreparedInit == ASSUME Init PROVE Prepared
<1>1. global_32 = Unset32 /\ at = "returned" /\ th_hash = "none" /\ fn = "none"
      /\ fast = [w \in {128, 256, 512} |-> Unset(w)]
  BY DEF Init
<1>2. \E s, b, p : global_32 = Sph(s, b, p)
  BY <1>1, Zenon DEF Unset32, Sph
<1>3. fast = [w \in {128, 256, 512} |-> fast[w]]
  BY <1>1
<1>4. at # "choose" /\ at # "default" /\ "sph" \notin {th_hash, fn}
  BY <1>1
<1> QED
  BY <1>1, <1>2, <1>3, <1>4, Zenon DEF Prepared

\* the context of one function is set up
SetUp(f, w, sc) ==
  /\ th_hash = "none" /\ fast' = [fast EXCEPT ![w] = sc] /\ UNCHANGED <<th_hash, global_32, call>>
  /\ at' = "choose" /\ chosen' = f
  /\ f \in Functions \ {"sph"} /\ w \in {128, 256, 512} /\ ContextOf[f] = w
  /\ FastReady(Lanes[f], sc)

LEMMA SetUpKeepsPrepared ==
  ASSUME Prepared, NEW f, NEW w, NEW sc, SetUp(f, w, sc)
  PROVE  Prepared'
<1>0. /\ th_hash = "none" /\ th_hash' = th_hash /\ fast' = [fast EXCEPT ![w] = sc]
      /\ fn' = fn /\ global_32' = global_32 /\ at' = "choose" /\ chosen' = f
      /\ f \in Functions \ {"sph"} /\ w \in {128, 256, 512} /\ ContextOf[f] = w
      /\ FastReady(Lanes[f], sc)
  BY Zenon DEF SetUp, call
<1>1. fn = "none"
  BY <1>0, Zenon DEF Prepared
<1>2. /\ fast' = [u \in {128, 256, 512} |-> fast'[u]]
      /\ fast'[w] = sc
  BY <1>0 DEF Prepared
<1>3. {th_hash', fn'} \ {"none", "sph"} = {} /\ "sph" \notin {th_hash', fn'} /\ at' # "default"
  BY <1>0, <1>1
<1>4. SetReady(chosen)'
  BY <1>0, <1>2, Zenon DEF SetReady
<1>5. \E s, b, p : global_32' = Sph(s, b, p)
  BY <1>0, Zenon DEF Prepared
<1>6. th_hash' \in Functions \cup {"none"} /\ fn' \in Functions \cup {"none"}
      /\ (fn' # "none" => th_hash' # "none") /\ th_hash' = "none" /\ chosen' \in Functions \ {"sph"}
  BY <1>0, <1>1
<1> QED
  BY <1>2, <1>3, <1>4, <1>5, <1>6, Zenon DEF Prepared

\* steps that leave the contexts and what is about to be chosen
LEMMA QuietKeepsPrepared ==
  ASSUME Prepared, UNCHANGED <<fast, global_32>>,
         th_hash' \in {th_hash, "sph"}, fn' \in {fn, th_hash, "none"},
         fn' # "none" => th_hash # "none",
         th_hash' # "none" \/ th_hash = "none",
         \/ UNCHANGED <<th_hash, at, chosen>>
         \/ at = "default" /\ at' = "returned"
         \/ at = "returned" /\ at' = "init 32" /\ th_hash' = th_hash
  PROVE  Prepared'
<1>1. {th_hash', fn'} \ {"none", "sph"} \subseteq {th_hash, fn} \ {"none", "sph"}
  OBVIOUS
<1>2. /\ fn' \in Functions \cup {"none"} /\ th_hash' \in Functions \cup {"none"}
      /\ (fn' # "none" => th_hash' # "none")
  <2>1. "sph" \in Functions /\ "sph" # "none"
    BY DEF Functions
  <2> QED
    BY <2>1 DEF Prepared
<1>3. \A f : SetReady(f)' <=> SetReady(f)
  BY Zenon DEF SetReady
<1>4. \A f \in {th_hash', fn'} \ {"none", "sph"} : SetReady(f)'
  BY <1>1, <1>3, Zenon DEF Prepared
<1>5. at' = "choose" => th_hash' = "none" /\ chosen' \in Functions \ {"sph"} /\ SetReady(chosen)'
  <2>1. at' = "choose" => UNCHANGED <<th_hash, at, chosen>>
    OBVIOUS
  <2>2. ASSUME at' = "choose"
        PROVE  th_hash' = "none" /\ chosen' \in Functions \ {"sph"} /\ SetReady(chosen)'
    <3>1. UNCHANGED <<th_hash, at, chosen>>
      BY <2>1, <2>2
    <3>2. th_hash = "none" /\ chosen \in Functions \ {"sph"} /\ SetReady(chosen)
      BY <2>2, <3>1, Zenon DEF Prepared
    <3>3. chosen' = chosen /\ th_hash' = th_hash
      BY <3>1
    <3> QED
      BY <3>2, <3>3, Zenon DEF SetReady
  <2> QED
    BY <2>2
<1>6. at' = "default" \/ "sph" \in {th_hash', fn'} => at = "default" \/ "sph" \in {th_hash, fn}
  OBVIOUS
<1>7. at' = "default" \/ "sph" \in {th_hash', fn'} => ScalarReady(global_32')
  <2>1. at = "default" \/ "sph" \in {th_hash, fn} => ScalarReady(global_32)
    BY Zenon DEF Prepared
  <2> QED
    BY <1>6, <2>1
<1>8. fast' = [w \in {128, 256, 512} |-> fast'[w]] /\ \E s, b, p : global_32' = Sph(s, b, p)
  <2>1. fast' = fast /\ global_32' = global_32
    OBVIOUS
  <2>2. PICK s, b, p : global_32 = Sph(s, b, p)
    BY Zenon DEF Prepared
  <2>3. global_32' = Sph(s, b, p)
    BY <2>1, <2>2
  <2>4. fast = [w \in {128, 256, 512} |-> fast[w]]
    BY Zenon DEF Prepared
  <2>5. fast' = [w \in {128, 256, 512} |-> fast'[w]]
    BY <2>1, <2>4
  <2> QED
    BY <2>3, <2>5, Zenon
<1> QED
  BY <1>2, <1>4, <1>5, <1>7, <1>8, Zenon DEF Prepared

LEMMA CreateKeepsPrepared ==
  ASSUME Prepared, create_shabal_ctx
  PROVE  Prepared'
<1>1. UNCHANGED <<th_hash, global_32, call>> /\ at = "returned"
  BY DEF create_shabal_ctx
<1>2. PICK cpu \in Cpus, inset \in Insets :
        \/ SetUp512(cpu, inset) \/ SetUp256(cpu, inset)
        \/ SetUp128(cpu, inset) \/ SetUpSse(cpu, inset)
        \/ SetUpNone(cpu, inset)
  BY Zenon DEF create_shabal_ctx
<1>3. /\ {"sse", "avx", "avx2", "avx512"} \subseteq Functions \ {"sph"}
      /\ ContextOf["sse"] = 128 /\ Lanes["sse"] = 4 /\ ContextOf["avx"] = 128 /\ Lanes["avx"] = 4
      /\ ContextOf["avx2"] = 256 /\ Lanes["avx2"] = 8
      /\ ContextOf["avx512"] = 512 /\ Lanes["avx512"] = 16
  BY DEF Functions, ContextOf, Lanes
<1> DEFINE c512 == FastContext(simd512_mshabal_init(256))
           c256 == FastContext(simd256_mshabal_init(256))
           c128 == FastContext(simd128_mshabal_init(256))
           cSse == FastContext(simd128_sse2_mshabal_init(256))
<1>4. FastReady(16, c512) /\ FastReady(8, c256) /\ FastReady(4, c128) /\ FastReady(4, cSse)
  BY InitsReady
<1> HIDE DEF c512, c256, c128, cSse
<1>5. CASE SetUp512(cpu, inset)
  <2>1. /\ th_hash = "none" /\ fast' = [fast EXCEPT ![512] = c512]
        /\ at' = "choose" /\ chosen' = "avx512"
    BY <1>5 DEF SetUp512, Offered, c512
  <2>2. "avx512" \in Functions \ {"sph"} /\ 512 \in {128, 256, 512} /\ ContextOf["avx512"] = 512
    BY <1>3
  <2>3. FastReady(Lanes["avx512"], c512)
    BY <1>3, <1>4
  <2>4. SetUp("avx512", 512, c512)
    BY <1>1, <2>1, <2>2, <2>3 DEF SetUp
  <2> QED
    BY <2>4, SetUpKeepsPrepared, Zenon
<1>6. CASE SetUp256(cpu, inset)
  <2>1. /\ th_hash = "none" /\ fast' = [fast EXCEPT ![256] = c256]
        /\ at' = "choose" /\ chosen' = "avx2"
    BY <1>6 DEF SetUp256, Offered, c256
  <2>2. "avx2" \in Functions \ {"sph"} /\ 256 \in {128, 256, 512} /\ ContextOf["avx2"] = 256
    BY <1>3
  <2>3. FastReady(Lanes["avx2"], c256)
    BY <1>3, <1>4
  <2>4. SetUp("avx2", 256, c256)
    BY <1>1, <2>1, <2>2, <2>3 DEF SetUp
  <2> QED
    BY <2>4, SetUpKeepsPrepared, Zenon
<1>7. CASE SetUp128(cpu, inset)
  <2>1. /\ th_hash = "none" /\ fast' = [fast EXCEPT ![128] = c128]
        /\ at' = "choose" /\ chosen' = "avx"
    BY <1>7 DEF SetUp128, Offered, c128
  <2>2. "avx" \in Functions \ {"sph"} /\ 128 \in {128, 256, 512} /\ ContextOf["avx"] = 128
    BY <1>3
  <2>3. FastReady(Lanes["avx"], c128)
    BY <1>3, <1>4
  <2>4. SetUp("avx", 128, c128)
    BY <1>1, <2>1, <2>2, <2>3 DEF SetUp
  <2> QED
    BY <2>4, SetUpKeepsPrepared, Zenon
<1>8. CASE SetUpSse(cpu, inset)
  <2>1. /\ th_hash = "none" /\ fast' = [fast EXCEPT ![128] = cSse]
        /\ at' = "choose" /\ chosen' = "sse"
    BY <1>8 DEF SetUpSse, Offered, cSse
  <2>2. "sse" \in Functions \ {"sph"} /\ 128 \in {128, 256, 512} /\ ContextOf["sse"] = 128
    BY <1>3
  <2>3. FastReady(Lanes["sse"], cSse)
    BY <1>3, <1>4
  <2>4. SetUp("sse", 128, cSse)
    BY <1>1, <2>1, <2>2, <2>3 DEF SetUp
  <2> QED
    BY <2>4, SetUpKeepsPrepared, Zenon
<1>9. CASE SetUpNone(cpu, inset)
  <2>1. at' = "init 32" /\ UNCHANGED fast
    BY <1>9 DEF SetUpNone
  <2>2. th_hash' = th_hash /\ global_32' = global_32 /\ fn' = fn
    BY <1>1 DEF call
  <2>3. fn # "none" => th_hash # "none"
    BY Zenon DEF Prepared
  <2> QED
    BY <1>1, <2>1, <2>2, <2>3, QuietKeepsPrepared
<1> QED
  BY <1>2, <1>5, <1>6, <1>7, <1>8, <1>9, Zenon

LEMMA ChooseKeepsPrepared ==
  ASSUME Prepared, Choose
  PROVE  Prepared'
<1>1. /\ at = "choose" /\ th_hash' = chosen /\ at' = "init 32"
      /\ fast' = fast /\ global_32' = global_32 /\ fn' = fn
  BY DEF Choose, call
<1>2. th_hash = "none" /\ chosen \in Functions \ {"sph"} /\ SetReady(chosen)
  BY <1>1, Zenon DEF Prepared
<1>3. fn = "none"
  BY <1>2, Zenon DEF Prepared
<1>4. th_hash' \in Functions \ {"sph"} /\ fn' = "none" /\ th_hash' # "none"
  BY <1>1, <1>2, <1>3 DEF Functions
<1>5. \A f \in {th_hash', fn'} \ {"none", "sph"} : SetReady(f)'
  <2>1. SetReady(th_hash)'
    BY <1>1, <1>2, Zenon DEF SetReady
  <2>2. \A f \in {th_hash', fn'} \ {"none", "sph"} : f = th_hash'
    BY <1>4
  <2> QED
    BY <2>1, <2>2, Zenon DEF SetReady
<1>6. fast' = [w \in {128, 256, 512} |-> fast'[w]] /\ \E s, b, p : global_32' = Sph(s, b, p)
  BY <1>1, Zenon DEF Prepared
<1>7. ~(at' = "default" \/ "sph" \in {th_hash', fn'}) /\ at' # "choose"
  BY <1>1, <1>4
<1>8. th_hash' \in Functions \cup {"none"} /\ fn' \in Functions \cup {"none"}
  BY <1>4
<1> QED
  BY <1>4, <1>5, <1>6, <1>7, <1>8, Zenon DEF Prepared

LEMMA Init32KeepsPrepared ==
  ASSUME Prepared, Init32
  PROVE  Prepared'
<1>1. /\ at' = "default" /\ global_32' = sph_shabal256_init(global_32)
      /\ fast' = fast /\ th_hash' = th_hash /\ fn' = fn
  BY DEF Init32, call
<1>2. PICK s, b, p : global_32 = Sph(s, b, p)
  BY Zenon DEF Prepared
<1>3. global_32' = Sph(InitialState, b, 0)
  BY <1>1, <1>2, ScalarInit
<1>4. ScalarReady(global_32') /\ \E t, c, q : global_32' = Sph(t, c, q)
  BY <1>3, Zenon DEF ScalarReady
<1>5. at' # "choose"
  BY <1>1
<1>6. \A f \in {th_hash', fn'} \ {"none", "sph"} : SetReady(f)'
  BY <1>1, Zenon DEF Prepared, SetReady
<1>7. /\ th_hash' \in Functions \cup {"none"} /\ fn' \in Functions \cup {"none"}
      /\ fn' # "none" => th_hash' # "none"
      /\ fast' = [w \in {128, 256, 512} |-> fast'[w]]
  BY <1>1, Zenon DEF Prepared
<1> QED
  BY <1>4, <1>5, <1>6, <1>7, Zenon DEF Prepared

LEMMA ChooseSphKeepsPrepared ==
  ASSUME Prepared, ChooseSph
  PROVE  Prepared'
<1>1. /\ at = "default" /\ at' = "returned" /\ fast' = fast /\ global_32' = global_32
      /\ fn' = fn /\ th_hash' = IF th_hash = "none" \/ forced THEN "sph" ELSE th_hash
  BY DEF ChooseSph, call
<1>2. fn # "none" => th_hash # "none"
  BY Zenon DEF Prepared
<1>3. th_hash' \in {th_hash, "sph"} /\ (th_hash' # "none" \/ th_hash = "none")
  BY <1>1
<1> QED
  BY <1>1, <1>2, <1>3, QuietKeepsPrepared

LEMMA PreparedStep ==
  ASSUME Prepared, [Next]_vars
  PROVE  Prepared'
<1>1. CASE create_shabal_ctx
  BY <1>1, CreateKeepsPrepared
<1>2. CASE Choose
  BY <1>2, ChooseKeepsPrepared
<1>3. CASE Init32
  BY <1>3, Init32KeepsPrepared
<1>4. CASE ChooseSph
  BY <1>4, ChooseSphKeepsPrepared
<1>5. ASSUME UNCHANGED <<contexts, loading>>, fn' \in {fn, th_hash, "none"},
             fn' # "none" => th_hash # "none"
      PROVE  Prepared'
  <2>1. /\ th_hash' = th_hash /\ fast' = fast /\ global_32' = global_32
        /\ at' = at /\ chosen' = chosen
    BY <1>5 DEF contexts, loading
  <2> QED
    BY <1>5, <2>1, QuietKeepsPrepared
<1>6. CASE Start
  BY <1>5, <1>6, Zenon DEF Start
<1>7. ASSUME NEW f, Advance(f)
      PROVE  Prepared'
  <2>1. UNCHANGED <<contexts, loading>> /\ fn' = fn
    BY <1>7 DEF Advance
  <2>2. fn # "none" => th_hash # "none"
    BY Zenon DEF Prepared
  <2> QED
    BY <1>5, <2>1, <2>2, Zenon
<1>8. CASE procscoop_sph
  BY <1>7, <1>8, Zenon DEF procscoop_sph
<1>9. CASE procscoop_sse_fast
  BY <1>7, <1>9, Zenon DEF procscoop_sse_fast
<1>10. CASE procscoop_avx_fast
  BY <1>7, <1>10, Zenon DEF procscoop_avx_fast
<1>11. CASE procscoop_avx2_fast
  BY <1>7, <1>11, Zenon DEF procscoop_avx2_fast
<1>12. CASE procscoop_avx512_fast
  BY <1>7, <1>12, Zenon DEF procscoop_avx512_fast
<1>13. CASE Return
  BY <1>5, <1>13, Zenon DEF Return
<1>14. CASE UNCHANGED vars
  <2>1. UNCHANGED <<contexts, loading>> /\ fn' = fn
    BY <1>14 DEF vars, call
  <2>2. fn # "none" => th_hash # "none"
    BY Zenon DEF Prepared
  <2> QED
    BY <1>5, <2>1, <2>2, Zenon
<1> QED
  BY <1>1, <1>2, <1>3, <1>4, <1>6, <1>8, <1>9, <1>10, <1>11, <1>12, <1>13, <1>14, Zenon DEF Next

(* The context that a call copies holds in every lane the state that Shabal  *)
(* prescribes, for the function chosen now and for the one that still runs,  *)
(* between any steps of a load (create_shabal_ctx).                          *)
THEOREM ContextIsReady == Spec => []ContextReady
<1>1. Init => Prepared
  BY PreparedInit
<1>2. Prepared /\ [Next]_vars => Prepared'
  BY PreparedStep
<1>3. Prepared => ContextReady
  BY PreparedIsReady
<1> QED
  BY <1>1, <1>2, <1>3, PTL DEF Spec

\* Between two calls there is nothing to keep.
LEMMA RunningStart ==
  ASSUME Prepared, Start
  PROVE  Running'
<1>1. /\ fn' = th_hash /\ th_hash # "none" /\ arg' \in Jobs
      /\ v' = 0 /\ res' = <<>> /\ sent' = <<>>
  BY Zenon DEF Start
<1>2. th_hash \in Functions
  BY <1>1, Zenon DEF Prepared
<1>3. HashArg(arg')
  BY <1>1, JobsAssumption, Zenon
<1> DEFINE a == arg'  c == a.cache_size_local  F == Lanes[th_hash]
<1>4. F \in {1, 4, 8, 16} /\ c \in Nat
  BY <1>2, <1>3, LanesOf, ArgIsOk DEF JobOk
<1> HIDE DEF a, c, F
<1>5. 0 \in Nat /\ 0 % F = 0 /\ 0 < c + F /\ ~(0 > 0)
  <2>1. 0 < c + F
    BY <1>4
  <2>2. 0 % F = 0
    BY <1>4
  <2> QED
    BY <2>1, <2>2
<1>6. <<>> \in Seq(Reports) /\ Len(<<>>) = 0 /\ 1 .. 0 = {} /\ 0 .. 0 - 1 = {}
  <2>1. <<>> \in Seq(Reports) /\ Len(<<>>) = 0
    BY SMT
  <2>2. 1 .. 0 = {} /\ 0 .. 0 - 1 = {}
    BY SMT
  <2> QED
    BY <2>1, <2>2
<1>7. Going(th_hash, a, 0, <<>>, <<>>)
  <2>1. \A i \in 1 .. Len(<<>>) : FALSE
    BY <1>6
  <2>2. \A n \in 0 .. 0 - 1 : FALSE
    BY <1>6
  <2>3. <<>> = <<>>
    OBVIOUS
  <2>4. HashArg(a)
    BY <1>3 DEF a
  <2> QED
    BY <1>5, <1>6, <2>1, <2>2, <2>3, <2>4, Zenon DEF Going, c, F
<1> QED
  BY <1>1, <1>7, Zenon DEF Running, a

LEMMA RunningTurn ==
  ASSUME Running, NEW f \in Functions, InLoop(f), NEW p \in Lane(Lanes[f]),
         res' = TurnDigests(Lanes[f], arg, v),
         \A l \in Lane(Lanes[f]) : ~Less(Wertung(res'[l]), Wertung(res'[p])),
         Judge(p), Advance(f)
  PROVE  Running'
<1>1. fn = f /\ v < arg.cache_size_local /\ f # "none"
  BY DEF InLoop, Functions
<1>2. Going(f, arg, v, res, sent)
  BY <1>1, Zenon DEF Running
<1>3. v' = v + Lanes[f] /\ fn' = f
  BY <1>1 DEF Advance
<1>4. \A l \in Lane(Lanes[f]) : res'[l] = DigestAt(arg, v + l)
  BY <1>1, <1>2, TurnOf
<1>5. \A l \in Lane(Lanes[f]) :
         ~Less(Wertung(DigestAt(arg, v + l)), Wertung(DigestAt(arg, v + p)))
  BY <1>4, Zenon
<1>6. Div(Wertung(res'[p]), arg.basetarget) = Deadline(arg, v + p)
  BY <1>4, Zenon DEF Deadline
<1>7. CASE Less(Deadline(arg, v + p), arg.target_dl)
  <2>1. /\ sent' = Append(sent, [nonce |-> arg.nonce + v + p, best |-> Wertung(res'[p])])
        /\ arg' = [arg EXCEPT !.target_dl = Deadline(arg, v + p)]
    BY <1>6, <1>7, Zenon DEF Judge
  <2>2. arg' = Shrunk(arg, Deadline(arg, v + p))
    BY <2>1 DEF Shrunk
  <2>3. sent' = Append(sent, ReportOf(arg, v, Lanes[f], p))
    BY <2>1, Zenon DEF ReportOf
  <2>4. Going(f, Shrunk(arg, Deadline(arg, v + p)), v + Lanes[f],
              TurnDigests(Lanes[f], arg, v), Append(sent, ReportOf(arg, v, Lanes[f], p)))
    BY <1>1, <1>2, <1>5, <1>7, GoingOnReported
  <2> QED
    BY <1>1, <1>3, <2>2, <2>3, <2>4, Zenon DEF Running
<1>8. CASE ~Less(Deadline(arg, v + p), arg.target_dl)
  <2>1. UNCHANGED <<sent, arg>>
    BY <1>6, <1>8, Zenon DEF Judge
  <2>2. Going(f, arg, v + Lanes[f], TurnDigests(Lanes[f], arg, v), sent)
    BY <1>1, <1>2, <1>5, <1>8, GoingOnSilent
  <2> QED
    BY <1>1, <1>3, <2>1, <2>2, Zenon DEF Running
<1> QED
  BY <1>7, <1>8

\* the turn of a function with more than one lane
LEMMA RunningSimd ==
  ASSUME Running, NEW f \in Functions \ {"sph"}, InLoop(f),
         res' = TurnDigests(Lanes[f], arg, v),
         Judge(BestLane(Lanes[f], res')), Advance(f)
  PROVE  Running'
<1>1. fn = f /\ v < arg.cache_size_local /\ f # "none" /\ f \in Functions
  BY DEF InLoop, Functions
<1>2. Going(f, arg, v, res, sent)
  BY <1>1, Zenon DEF Running
<1>3. Lanes[f] \in Widths
  BY LanesOf
<1> DEFINE r == res'  F == Lanes[f]
<1>4. r \in [Lane(F) -> Digest]
  <2>1. \A l \in Lane(F) : r[l] \in Digest
    BY <1>1, <1>2, TurnOf
  <2>2. r = [l \in Lane(F) |-> r[l]]
    <3>1. r = [l \in Lane(F) |-> DigestAt(arg, v + l)]
      BY Zenon DEF TurnDigests
    <3> HIDE DEF r, F
    <3>2. \A l \in Lane(F) : r[l] = DigestAt(arg, v + l)
      BY <3>1, Zenon
    <3> QED
      BY <3>1, <3>2, Zenon
  <2> HIDE DEF r, F
  <2> QED
    BY <2>1, <2>2
<1> DEFINE p == BestLane(F, r)
<1>5. p \in Lane(F) /\ \A l \in Lane(F) : ~Less(Wertung(r[l]), Wertung(r[p]))
  <2>1. F \in Widths
    BY <1>3
  <2> HIDE DEF r, F
  <2> QED
    BY <1>4, <2>1, BestLaneIs
<1> QED
  BY <1>1, <1>5, RunningTurn

\* what a turn needs of the context and of the argument
LEMMA TurnHas ==
  ASSUME Running, Prepared, NEW f \in Functions, InLoop(f)
  PROVE  /\ JobOk(arg) /\ v \in Nat /\ v \in 0 .. Room(arg) - 1
         /\ v + Lanes[f] <= Room(arg)
         /\ f = "sph" => ScalarReady(global_32)
         /\ f # "sph" => FastReady(Lanes[f], fast[ContextOf[f]])
<1>1. fn = f /\ v < arg.cache_size_local /\ f # "none"
  BY DEF InLoop, Functions
<1>2. Going(f, arg, v, res, sent)
  BY <1>1, Zenon DEF Running
<1>3. /\ HashArg(arg) /\ arg.cache_size_local \in Nat /\ Room(arg) \in Nat /\ v \in Nat
      /\ v + Lanes[f] <= Room(arg)
  BY <1>1, <1>2, TurnOf
<1>4. JobOk(arg)
  BY <1>3, ArgIsOk
<1>5. v \in 0 .. Room(arg) - 1
  <2>1. Lanes[f] \in {1, 4, 8, 16}
    BY LanesOf
  <2> QED
    BY <1>3, <2>1
<1>6. f # "sph" => FastReady(Lanes[f], fast[ContextOf[f]])
  BY <1>1, Zenon DEF Prepared, SetReady
<1>7. f = "sph" => ScalarReady(global_32)
  BY <1>1, Zenon DEF Prepared
<1> QED
  BY <1>3, <1>4, <1>5, <1>6, <1>7

LEMMA RunningSteps ==
  ASSUME Running, Prepared
  PROVE  /\ procscoop_sph => Running'
         /\ procscoop_sse_fast => Running'
         /\ procscoop_avx_fast => Running'
         /\ procscoop_avx2_fast => Running'
         /\ procscoop_avx512_fast => Running'
<1>1. /\ {"sse", "avx", "avx2", "avx512"} \subseteq Functions \ {"sph"} /\ "sph" \in Functions
      /\ ContextOf["sse"] = 128 /\ Lanes["sse"] = 4 /\ ContextOf["avx"] = 128 /\ Lanes["avx"] = 4
      /\ ContextOf["avx2"] = 256 /\ Lanes["avx2"] = 8
      /\ ContextOf["avx512"] = 512 /\ Lanes["avx512"] = 16 /\ Lanes["sph"] = 1
  BY DEF Functions, ContextOf, Lanes
<1>2. 4 \in Widths /\ 8 \in Widths /\ 16 \in Widths
  BY DEF Widths
<1>3. ASSUME procscoop_sph
      PROVE  Running'
  <2>1. InLoop("sph") /\ Judge(0) /\ Advance("sph")
    BY <1>3, Zenon DEF procscoop_sph
  <2>2. JobOk(arg) /\ v \in 0 .. Room(arg) - 1 /\ ScalarReady(global_32)
    BY <1>1, <2>1, TurnHas
  <2>3. SphMessage = ScoopMessage(arg, v)
    BY Zenon DEF SphMessage, ScoopMessage
  <2>4. res' = [l \in {0} |-> [z \in 0 .. 1 |->
                 shabal_close(sph_shabal256(global_32, ScoopMessage(arg, v))).dst[z]]]
    BY <1>3, <2>3, Zenon DEF procscoop_sph
  <2>5. res' = TurnDigests(1, arg, v)
    <3> DEFINE g == global_32
    <3>1. ScalarReady(g) /\ JobOk(arg) /\ v \in 0 .. Room(arg) - 1
      BY <2>2
    <3>2. res' = [l \in {0} |-> [z \in 0 .. 1 |->
                   shabal_close(sph_shabal256(g, ScoopMessage(arg, v))).dst[z]]]
      BY <2>4
    <3> HIDE DEF g
    <3>3. [l \in {0} |-> [z \in 0 .. 1 |->
             shabal_close(sph_shabal256(g, ScoopMessage(arg, v))).dst[z]]] = TurnDigests(1, arg, v)
      BY <3>1, SphDigest
    <3> QED
      BY <3>2, <3>3, Zenon
  <2>6. Lane(1) = {0}
    BY DEF Lane
  <2>7. ~Less(Wertung(res'[0]), Wertung(res'[0]))
    <3>1. Going("sph", arg, v, res, sent) /\ v < arg.cache_size_local
      BY <2>1, Zenon DEF InLoop, Running
    <3>2. 0 \in Lane(Lanes["sph"])
      BY <1>1, <2>6
    <3>3. /\ TurnDigests(Lanes["sph"], arg, v)[0] = DigestAt(arg, v + 0)
          /\ DigestAt(arg, v + 0) \in Digest
      BY <1>1, <3>1, <3>2, TurnOf
    <3>4. res'[0] \in Digest
      BY <1>1, <2>5, <3>3
    <3>5. Wertung(res'[0]) \in Digits
      BY <3>4, WertungType
    <3> QED
      BY <3>5, LessOrder, Zenon
  <2>8. 0 \in Lane(Lanes["sph"]) /\ res' = TurnDigests(Lanes["sph"], arg, v)
        /\ \A l \in Lane(Lanes["sph"]) : ~Less(Wertung(res'[l]), Wertung(res'[0]))
    BY <1>1, <2>5, <2>6, <2>7
  <2> QED
    BY <1>1, <2>1, <2>8, RunningTurn
<1>4. ASSUME procscoop_sse_fast
      PROVE  Running'
  <2>1. InLoop("sse") /\ Judge(BestLane(4, res')) /\ Advance("sse")
        /\ res' = sse_digests(fast[128], arg, v)
    BY <1>4, Zenon DEF procscoop_sse_fast, sse_posn
  <2>2. FastReady(4, fast[128]) /\ JobOk(arg) /\ v \in Nat /\ v + 4 <= Room(arg)
    BY <1>1, <2>1, TurnHas
  <2>3. res' = TurnDigests(4, arg, v)
    BY <1>2, <2>1, <2>2, SimdDigests
  <2> QED
    BY <1>1, <2>1, <2>3, RunningSimd
<1>5. ASSUME procscoop_avx_fast
      PROVE  Running'
  <2>1. InLoop("avx") /\ Judge(BestLane(4, res')) /\ Advance("avx")
        /\ res' = avx_digests(fast[128], arg, v)
    BY <1>5, Zenon DEF procscoop_avx_fast, avx_posn
  <2>2. FastReady(4, fast[128]) /\ JobOk(arg) /\ v \in Nat /\ v + 4 <= Room(arg)
    BY <1>1, <2>1, TurnHas
  <2>3. res' = TurnDigests(4, arg, v)
    BY <1>2, <2>1, <2>2, SimdDigests
  <2> QED
    BY <1>1, <2>1, <2>3, RunningSimd
<1>6. ASSUME procscoop_avx2_fast
      PROVE  Running'
  <2>1. InLoop("avx2") /\ Judge(BestLane(8, res')) /\ Advance("avx2")
        /\ res' = avx2_digests(fast[256], arg, v)
    BY <1>6, Zenon DEF procscoop_avx2_fast, avx2_posn
  <2>2. FastReady(8, fast[256]) /\ JobOk(arg) /\ v \in Nat /\ v + 8 <= Room(arg)
    BY <1>1, <2>1, TurnHas
  <2>3. res' = TurnDigests(8, arg, v)
    BY <1>2, <2>1, <2>2, SimdDigests
  <2> QED
    BY <1>1, <2>1, <2>3, RunningSimd
<1>7. ASSUME procscoop_avx512_fast
      PROVE  Running'
  <2>1. InLoop("avx512") /\ Judge(BestLane(16, res')) /\ Advance("avx512")
        /\ res' = avx512_digests(fast[512], arg, v)
    BY <1>7, Zenon DEF procscoop_avx512_fast, avx512_posn
  <2>2. FastReady(16, fast[512]) /\ JobOk(arg) /\ v \in Nat /\ v + 16 <= Room(arg)
    BY <1>1, <2>1, TurnHas
  <2>3. res' = TurnDigests(16, arg, v)
    BY <1>2, <2>1, <2>2, SimdDigests
  <2> QED
    BY <1>1, <2>1, <2>3, RunningSimd
<1> QED
  BY <1>3, <1>4, <1>5, <1>6, <1>7

LEMMA RunningInit == ASSUME Init PROVE Running
  BY DEF Init, Running

LEMMA RunningStep ==
  ASSUME Running, Prepared, [Next]_vars
  PROVE  Running'
<1>1. CASE create_shabal_ctx \/ Choose \/ Init32 \/ ChooseSph
  <2>1. UNCHANGED call
    BY <1>1, Zenon DEF create_shabal_ctx, Choose, Init32, ChooseSph
  <2> QED
    BY <2>1, Zenon DEF Running, call
<1>2. CASE Start
  BY <1>2, RunningStart
<1>3. CASE Return
  BY <1>3, Zenon DEF Return, Running
<1>4. CASE UNCHANGED vars
  <2>1. UNCHANGED call
    BY <1>4, Zenon DEF vars
  <2> QED
    BY <2>1, Zenon DEF Running, call
<1> QED
  BY <1>1, <1>2, <1>3, <1>4, RunningSteps, Zenon DEF Next

-----------------------------------------------------------------------------
(* What the invariant says of the properties                                 *)

LEMMA RunningAgrees == ASSUME Running, Prepared PROVE DigestsAgree
<1> SUFFICES ASSUME v > 0, NEW l \in DOMAIN res
             PROVE  res[l] = Reference(v - Lanes[fn] + l)
  BY DEF DigestsAgree
<1>1. fn # "none"
  BY DEF Running
<1>2. res = TurnDigests(Lanes[fn], arg, v - Lanes[fn])
  <2>1. v > 0 => res = TurnDigests(Lanes[fn], arg, v - Lanes[fn])
    BY <1>1, Zenon DEF Running, Going
  <2> QED
    BY <2>1
<1>3. res[l] = DigestAt(arg, v - Lanes[fn] + l)
  BY <1>2, Zenon DEF TurnDigests
<1>4. Reference(v - Lanes[fn] + l) = DigestAt(arg, v - Lanes[fn] + l)
  BY Zenon DEF Reference, DigestAt
<1> QED
  BY <1>3, <1>4

LEMMA RunningTrue == ASSUME Running PROVE ReportsTrue
<1>1. CASE fn = "none"
  <2>1. DOMAIN sent = {}
    BY <1>1 DEF Running
  <2> QED
    BY <2>1 DEF ReportsTrue
<1>2. CASE fn # "none"
  <2>1. sent \in Seq(Reports)
    BY <1>2, Zenon DEF Running, Going
  <2>2. DOMAIN sent = 1 .. Len(sent)
    BY <2>1
  <2>3. ASSUME NEW i \in DOMAIN sent
        PROVE  LET n == sent[i].nonce - arg.nonce
               IN  /\ n \in 0 .. v - 1 /\ sent[i].best = Wertung(DigestAt(arg, n))
                   /\ arg.cache_size_local % Lanes[fn] = 0 => n < arg.cache_size_local
    BY <1>2, <2>2, Zenon DEF Running, Going, Fits
  <2>4. \A n : Reference(n) = DigestAt(arg, n)
    BY Zenon DEF Reference, DigestAt
  <2> QED
    BY <2>3, <2>4, Zenon DEF ReportsTrue
<1> QED
  BY <1>1, <1>2

LEMMA RunningBest == ASSUME Running PROVE BestReported
<1> SUFFICES ASSUME fn # "none", v >= arg.cache_size_local
             PROVE  /\ \A n \in 0 .. arg.cache_size_local - 1 :
                         ~Less(Div(Wertung(Reference(n)), arg.basetarget), arg.target_dl)
                    /\ sent # <<>> =>
                         Div(sent[Len(sent)].best, arg.basetarget) = arg.target_dl
  BY Zenon DEF BestReported
<1>1. Going(fn, arg, v, res, sent)
  BY Zenon DEF Running
<1>2. /\ v \in Nat /\ HashArg(arg)
      /\ \A n \in 0 .. v - 1 : ~Less(Deadline(arg, n), arg.target_dl)
      /\ sent # <<>> => Div(sent[Len(sent)].best, arg.basetarget) = arg.target_dl
  BY <1>1, Zenon DEF Going
<1>3. arg.cache_size_local \in Nat
  BY <1>2, ArgIsOk DEF JobOk
<1>4. \A n \in 0 .. arg.cache_size_local - 1 : n \in 0 .. v - 1
  BY <1>2, <1>3
<1>5. \A n : Reference(n) = DigestAt(arg, n)
  BY Zenon DEF Reference, DigestAt
<1> QED
  BY <1>2, <1>4, <1>5, Zenon DEF Deadline

LEMMA Invariants == Spec => [](Prepared /\ Running)
<1>1. Init => Prepared /\ Running
  BY PreparedInit, RunningInit
<1>2. Prepared /\ Running /\ [Next]_vars => Prepared' /\ Running'
  BY PreparedStep, RunningStep
<1> QED
  BY <1>1, <1>2, PTL DEF Spec

(* Whatever the instruction set, the number of lanes and the words of the    *)
(* block, every lane of every turn of procscoop_sph, _sse_fast, _avx_fast,   *)
(* _avx2_fast and _avx512_fast carries the digest that                       *)
(* sph_shabal_openclose_fast computes of its own place in the cache, also    *)
(* when that lies behind the end of the block.                               *)
THEOREM DigestsAreRight == Spec => []DigestsAgree
<1>1. Prepared /\ Running => DigestsAgree
  BY RunningAgrees
<1> QED
  BY <1>1, Invariants, PTL

(* Every report that a call sends carries the digest of what the cache holds *)
(* at the place of the nonce it names, and names a nonce of its block unless *)
(* the block ends in the middle of a turn.                                   *)
THEOREM ReportsAreTrue == Spec => []ReportsTrue
<1>1. Prepared /\ Running => ReportsTrue
  BY RunningTrue
<1> QED
  BY <1>1, Invariants, PTL

(* When a call returns, no nonce of its block is below the target it leaves  *)
(* behind, and the last report has the deadline the target shrank to.        *)
THEOREM BestIsReported == Spec => []BestReported
<1>1. Prepared /\ Running => BestReported
  BY RunningBest
<1> QED
  BY <1>1, Invariants, PTL

-----------------------------------------------------------------------------
(* Messages in pieces                                                        *)

LEMMA Induction ==
  ASSUME NEW S, 0 \in S, \A n \in Nat : n \in S => n + 1 \in S
  PROVE  Nat \subseteq S
<1> DEFINE R == {p \in Nat \X Nat : p[1] < p[2]}  T == Nat \ S
<1>1. IsWellFoundedOn(R, Nat)
  BY NatLessThanWellFounded, Zenon DEF OpToRel
<1> SUFFICES ASSUME T # {}
             PROVE  FALSE
  OBVIOUS
<1>2. PICK x \in T : \A y \in T : ~(y < x)
  <2> HIDE DEF R
  <2>1. T \subseteq Nat
    OBVIOUS
  <2> HIDE DEF T
  <2>2. PICK x \in T : \A y \in T : ~(<<y, x>> \in R)
    BY <1>1, <2>1, WFMin, Zenon
  <2>3. \A y \in T : ~(y < x)
    BY <2>1, <2>2 DEF R
  <2> QED
    BY <2>3
<1>3. x \in Nat /\ x # 0
  OBVIOUS
<1>4. x - 1 \in Nat /\ x - 1 < x /\ (x - 1) + 1 = x
  BY <1>3
<1>5. x - 1 \notin T
  BY <1>2, <1>4
<1> QED
  BY <1>2, <1>4, <1>5

(* The state s after the first n blocks of message m.                        *)
After(m, n, g) ==
  g = [k \in 0 .. n |->
        IF k = 0 THEN InitialState ELSE Absorb(g[k - 1], BlockAt(m, k - 1))]
Absorbed(m, n, s) == \E g : After(m, n, g) /\ g[n] = s

LEMMA AbsorbedNone == \A m : Absorbed(m, 0, InitialState)
<1> TAKE m
<1> DEFINE g == [k \in 0 .. 0 |-> InitialState]
<1>1. ASSUME NEW k \in 0 .. 0
      PROVE  InitialState = IF k = 0 THEN InitialState ELSE Absorb(g[k - 1], BlockAt(m, k - 1))
  OBVIOUS
<1>2. After(m, 0, g)
  BY <1>1, Zenon DEF After
<1>3. g[0] = InitialState
  OBVIOUS
<1> QED
  BY <1>2, <1>3, Zenon DEF Absorbed

LEMMA AbsorbedNext ==
  ASSUME NEW m, NEW n \in Nat, NEW s, Absorbed(m, n, s)
  PROVE  Absorbed(m, n + 1, Absorb(s, BlockAt(m, n)))
<1> DEFINE t == Absorb(s, BlockAt(m, n))
           next(x, k) == Absorb(x, BlockAt(m, k))
<1>1. PICK g : After(m, n, g) /\ g[n] = s
  BY DEF Absorbed
<1> DEFINE h == [k \in 0 .. n + 1 |-> IF k = n + 1 THEN t ELSE g[k]]
<1>2. /\ g[0] = InitialState
      /\ \A k \in 1 .. n : g[k] = next(g[k - 1], k - 1)
  BY <1>1 DEF After
<1> HIDE DEF next
<1>3. ASSUME NEW k \in 0 .. n + 1
      PROVE  h[k] = IF k = 0 THEN InitialState ELSE next(h[k - 1], k - 1)
  <2>1. CASE k = 0
    BY <1>2, <2>1
  <2>2. CASE k = n + 1
    <3>1. t = next(s, n)
      BY DEF next
    <3> HIDE DEF t
    <3>2. h[k] = t /\ k # 0 /\ k - 1 = n /\ h[k - 1] = s
      BY <1>1, <2>2
    <3> QED
      BY <3>1, <3>2
  <2>3. CASE k # 0 /\ k # n + 1
    <3>1. k \in 1 .. n /\ k - 1 \in 0 .. n + 1 /\ k - 1 # n + 1
      BY <2>3
    <3>2. h[k] = g[k] /\ h[k - 1] = g[k - 1]
      BY <2>3, <3>1
    <3> QED
      BY <1>2, <2>3, <3>1, <3>2
  <2> QED
    BY <2>1, <2>2, <2>3
<1>4. h = [k \in 0 .. n + 1 |-> h[k]] /\ h[n + 1] = t
  OBVIOUS
<1> HIDE DEF h
<1>5. After(m, n + 1, h)
  BY <1>3, <1>4, Zenon DEF After, next
<1> QED
  BY <1>4, <1>5, Zenon DEF Absorbed

(* Messages that agree in their first n blocks lead to the same state, which *)
(* is the one that Shabal256 takes.                                          *)
LEMMA AbsorbedIs ==
  ASSUME NEW m, NEW q, NEW n \in Nat, NEW s, Absorbed(m, n, s),
         \A b \in 0 .. n - 1 : BlockAt(q, b) = BlockAt(m, b)
  PROVE  (CHOOSE g : After(q, n, g))[n] = s
<1>1. PICK g : After(m, n, g) /\ g[n] = s
  BY DEF Absorbed
<1> DEFINE next(x, k) == Absorb(x, BlockAt(q, k))
<1>2. /\ g[0] = InitialState /\ g = [k \in 0 .. n |-> g[k]]
      /\ \A k \in 1 .. n : g[k] = next(g[k - 1], k - 1)
  <2>1. /\ g[0] = InitialState /\ g = [k \in 0 .. n |-> g[k]]
        /\ \A k \in 1 .. n : g[k] = Absorb(g[k - 1], BlockAt(m, k - 1))
    BY <1>1 DEF After
  <2>2. ASSUME NEW k \in 1 .. n
        PROVE  g[k] = next(g[k - 1], k - 1)
    <3>1. g[k] = Absorb(g[k - 1], BlockAt(m, k - 1))
      BY <2>1
    <3>2. k - 1 \in 0 .. n - 1
      OBVIOUS
    <3>3. BlockAt(q, k - 1) = BlockAt(m, k - 1)
      BY <3>2
    <3> QED
      BY <3>1, <3>3, Zenon
  <2> HIDE DEF next
  <2> QED
    BY <2>1, <2>2
<1> HIDE DEF next
<1>3. After(q, n, g)
  <2>1. ASSUME NEW k \in 0 .. n
        PROVE  g[k] = IF k = 0 THEN InitialState ELSE next(g[k - 1], k - 1)
    <3>1. CASE k = 0
      BY <1>2, <3>1
    <3>2. CASE k # 0
      <4>1. k \in 1 .. n
        BY <3>2
      <4> QED
        BY <1>2, <3>2, <4>1
    <3> QED
      BY <3>1, <3>2
  <2> QED
    BY <1>2, <2>1, Zenon DEF After, next
<1> DEFINE h == CHOOSE h : After(q, n, h)
<1>4. After(q, n, h)
  BY <1>3, Zenon
<1> HIDE DEF h
<1>5. /\ h[0] = InitialState
      /\ \A k \in 1 .. n : h[k] = next(h[k - 1], k - 1)
  BY <1>4 DEF After, next
<1> DEFINE S == {k \in Nat : k <= n => h[k] = g[k]}
<1>6. 0 \in S
  BY <1>2, <1>5
<1>7. ASSUME NEW k \in Nat, k \in S
      PROVE  k + 1 \in S
  <2>1. CASE k + 1 <= n
    <3>1. k + 1 \in 1 .. n /\ (k + 1) - 1 = k /\ k <= n
      BY <2>1
    <3>2. h[k] = g[k]
      BY <1>7, <3>1
    <3>3. h[k + 1] = next(h[k], k) /\ g[k + 1] = next(g[k], k)
      BY <1>2, <1>5, <3>1
    <3> QED
      BY <3>2, <3>3
  <2>2. CASE ~(k + 1 <= n)
    BY <2>2
  <2> QED
    BY <2>1, <2>2
<1>8. n \in S
  <2> HIDE DEF S
  <2> QED
    BY <1>6, <1>7, Induction
<1>9. h[n] = s
  BY <1>1, <1>8
<1> QED
  BY <1>9 DEF h

(* Words of a message, and the blocks n words fill.                          *)
Full(n) == n \div 16
Rest(n) == n % 16

LEMMA FullRest ==
  ASSUME NEW n \in Nat
  PROVE  Full(n) \in Nat /\ Rest(n) \in Block /\ n = 16 * Full(n) + Rest(n)
  BY SMT DEF Full, Rest, Block

LEMMA Places ==
  ASSUME NEW n \in Nat, NEW j \in Block
  PROVE  /\ \A b \in 0 .. Full(n) - 1 : 16 * b + j + 1 \in 1 .. n
         /\ j < Rest(n) => 16 * Full(n) + j + 1 \in 1 .. n
         /\ j = Rest(n) => 16 * Full(n) + j + 1 = n + 1
         /\ j > Rest(n) => 16 * Full(n) + j + 1 \in n + 2 .. 16 * Full(n) + 16
         /\ j < Rest(n) \/ j = Rest(n) \/ j > Rest(n)
         /\ j = Rest(n) => ~(j < Rest(n))
         /\ j > Rest(n) => ~(j < Rest(n)) /\ j # Rest(n)
<1>1. Full(n) \in Nat /\ Rest(n) \in Block /\ n = 16 * Full(n) + Rest(n)
  BY FullRest
<1>2. ASSUME NEW b \in 0 .. Full(n) - 1
      PROVE  16 * b + j + 1 \in 1 .. n
  BY <1>1 DEF Block
<1> DEFINE f == Full(n)  r == Rest(n)
<1>3. f \in Nat /\ r \in Nat /\ r <= 15 /\ n = 16 * f + r /\ j \in Nat /\ j <= 15
  BY <1>1 DEF Block
<1> HIDE DEF f, r
<1>4. /\ j < r => 16 * f + j + 1 \in 1 .. n
      /\ j = r => 16 * f + j + 1 = n + 1
      /\ j > r => 16 * f + j + 1 \in n + 2 .. 16 * f + 16
      /\ j < r \/ j = r \/ j > r
      /\ j = r => ~(j < r)
      /\ j > r => ~(j < r) /\ j # r
  BY <1>3
<1> QED
  BY <1>2, <1>4 DEF f, r

LEMMA PaddingIs ==
  ASSUME NEW q \in Seq(Word)
  PROVE  LET p == Padding(q)  n == Len(q)
         IN  /\ Len(p) = 16 * Full(n) + 16
             /\ \A i \in 1 .. n : p[i] = q[i]
             /\ p[n + 1] = EndMark
             /\ \A i \in n + 2 .. 16 * Full(n) + 16 : p[i] = Zero
<1> DEFINE n == Len(q)  k == 15 - (n % 16)  z == [i \in 1 .. k |-> Zero]
           qe == q \o <<EndMark>>
<1>1. n \in Nat
  OBVIOUS
<1>2. /\ k \in Nat /\ n + 1 + k = 16 * Full(n) + 16
      /\ n + 1 + k <= 16 * Full(n) + 16
  <2> HIDE DEF n
  <2>1. Full(n) \in Nat /\ Rest(n) \in Block /\ n = 16 * Full(n) + Rest(n)
    BY <1>1, FullRest
  <2> QED
    BY <1>1, <2>1 DEF Rest, Block
<1>3. Padding(q) = qe \o z
  <2>1. Padding(q) = q \o <<EndMark>> \o z
    BY Zenon DEF Padding
  <2> QED
    BY <2>1, Zenon
<1> HIDE DEF k
<1>4. z \in Seq(Word) /\ Len(z) = k /\ \A i \in 1 .. k : z[i] = Zero
  BY <1>2, ZeroOnesWord
<1>5. <<EndMark>> \in Seq(Word) /\ Len(<<EndMark>>) = 1 /\ <<EndMark>>[1] = EndMark
  BY EndMarkWord
<1> HIDE DEF z
<1>6. /\ qe \in Seq(Word) /\ Len(qe) = n + 1
      /\ \A i \in 1 .. n + 1 : qe[i] = IF i <= n THEN q[i] ELSE <<EndMark>>[i - n]
  BY <1>5, ConcatProperties
<1> HIDE DEF qe
<1>7. /\ Len(qe \o z) = n + 1 + k
      /\ \A i \in 1 .. n + 1 + k : (qe \o z)[i] = IF i <= n + 1 THEN qe[i] ELSE z[i - (n + 1)]
  <2>1. /\ Len(qe \o z) = Len(qe) + Len(z)
        /\ \A i \in 1 .. Len(qe) + Len(z) :
             (qe \o z)[i] = IF i <= Len(qe) THEN qe[i] ELSE z[i - Len(qe)]
    <3>1. qe \in Seq(Word) /\ z \in Seq(Word)
      BY <1>4, <1>6
    <3> QED
      BY <3>1, ConcatProperties, Zenon
  <2>2. Len(qe) = n + 1 /\ Len(z) = k
    BY <1>4, <1>6
  <2> QED
    BY <2>1, <2>2, Zenon
<1> HIDE DEF n
<1> DEFINE p == qe \o z
<1> HIDE DEF p
<1>8. ASSUME NEW i \in 1 .. n
      PROVE  p[i] = q[i]
  <2>1. i \in 1 .. n + 1 + k /\ i <= n + 1 /\ i \in 1 .. n + 1 /\ i <= n
    BY <1>1, <1>2
  <2> QED
    BY <1>6, <1>7, <2>1 DEF p
<1>9. p[n + 1] = EndMark
  <2>1. n + 1 \in 1 .. n + 1 + k /\ n + 1 <= n + 1 /\ n + 1 \in 1 .. n + 1 /\ ~(n + 1 <= n)
        /\ (n + 1) - n = 1
    BY <1>1, <1>2
  <2> QED
    BY <1>5, <1>6, <1>7, <2>1 DEF p
<1>10. ASSUME NEW i \in n + 2 .. 16 * Full(n) + 16
       PROVE  p[i] = Zero
  <2>1. i \in 1 .. n + 1 + k /\ ~(i <= n + 1) /\ i - (n + 1) \in 1 .. k
    BY <1>1, <1>2, FullRest
  <2> QED
    BY <1>4, <1>7, <2>1 DEF p
<1> QED
  BY <1>2, <1>3, <1>7, <1>8, <1>9, <1>10 DEF n, p

(* The last block: what is left of m after n words, with the padding.        *)
LastBlock(m, n) ==
  [j \in Block |-> IF j < Rest(n) THEN m[16 * Full(n) + j + 1]
                   ELSE IF j = Rest(n) THEN EndMark ELSE Zero]

LEMMA MessageBlocks ==
  ASSUME NEW m \in Seq(Word), NEW n \in Nat, n <= Len(m)
  PROVE  /\ \A b \in 0 .. Full(n) - 1 : BlockAt(m, b) \in MessageBlock
         /\ LastBlock(m, n) \in MessageBlock
<1>1. ASSUME NEW i \in 1 .. n
      PROVE  m[i] \in Word
  OBVIOUS
<1>2. ASSUME NEW b \in 0 .. Full(n) - 1, NEW j \in Block
      PROVE  m[16 * b + j + 1] \in Word
  <2>1. 16 * b + j + 1 \in 1 .. n
    BY Places
  <2> QED
    BY <1>1, <2>1
<1>3. ASSUME NEW j \in Block, j < Rest(n)
      PROVE  m[16 * Full(n) + j + 1] \in Word
  <2>1. 16 * Full(n) + j + 1 \in 1 .. n
    BY <1>3, Places
  <2> QED
    BY <1>1, <2>1
<1>4. EndMark \in Word /\ Zero \in Word
  BY EndMarkWord, ZeroOnesWord
<1> QED
  BY <1>2, <1>3, <1>4 DEF BlockAt, LastBlock, MessageBlock

LEMMA PaddedBlocks ==
  ASSUME NEW m \in Seq(Word), NEW n \in Nat, n <= Len(m)
  PROVE  LET p == Padding(SubSeq(m, 1, n))
         IN  /\ Len(p) = 16 * Full(n) + 16
             /\ \A b \in 0 .. Full(n) - 1 : BlockAt(p, b) = BlockAt(m, b)
             /\ BlockAt(p, Full(n)) = LastBlock(m, n)
<1> DEFINE q == SubSeq(m, 1, n)  p == Padding(q)
<1>1. q \in Seq(Word) /\ Len(q) = n /\ \A i \in 1 .. n : q[i] = m[i]
  <2>1. \A i \in 1 .. n : m[i] \in Word
    OBVIOUS
  <2>2. /\ q \in Seq(Word) /\ Len(q) = IF 1 <= n THEN n - 1 + 1 ELSE 0
        /\ \A i \in 1 .. n - 1 + 1 : q[i] = m[1 + i - 1]
    <3> HIDE DEF q
    <3>1. 1 \in Int /\ n \in Int
      OBVIOUS
    <3> QED
      BY <2>1, <3>1, SubSeqProperties DEF q
  <2> HIDE DEF q
  <2> QED
    BY <2>2
<1> HIDE DEF q
<1>2. /\ Len(p) = 16 * Full(n) + 16
      /\ \A i \in 1 .. n : p[i] = m[i]
      /\ p[n + 1] = EndMark
      /\ \A i \in n + 2 .. 16 * Full(n) + 16 : p[i] = Zero
  BY <1>1, PaddingIs
<1> HIDE DEF p
<1>4. ASSUME NEW b \in 0 .. Full(n) - 1
      PROVE  BlockAt(p, b) = BlockAt(m, b)
  <2>1. ASSUME NEW j \in Block
        PROVE  p[16 * b + j + 1] = m[16 * b + j + 1]
    <3>1. 16 * b + j + 1 \in 1 .. n
      BY Places
    <3> QED
      BY <1>2, <3>1
  <2> QED
    BY <2>1, Zenon DEF BlockAt
<1>5. ASSUME NEW j \in Block
      PROVE  p[16 * Full(n) + j + 1] = IF j < Rest(n) THEN m[16 * Full(n) + j + 1]
                                       ELSE IF j = Rest(n) THEN EndMark ELSE Zero
  <2> DEFINE i == 16 * Full(n) + j + 1
  <2>1. /\ j = Rest(n) => ~(j < Rest(n))
        /\ j > Rest(n) => ~(j < Rest(n)) /\ j # Rest(n)
    BY Places
  <2>2. CASE j < Rest(n)
    <3>1. i \in 1 .. n
      BY <2>2, Places
    <3> HIDE DEF i
    <3>2. p[i] = m[i]
      BY <1>2, <3>1
    <3> QED
      BY <2>2, <3>2 DEF i
  <2>3. CASE j = Rest(n)
    <3>1. i = n + 1
      BY <2>3, Places
    <3> HIDE DEF i
    <3> QED
      BY <1>2, <2>3, <2>1, <3>1 DEF i
  <2>4. CASE j > Rest(n)
    <3>1. i \in n + 2 .. 16 * Full(n) + 16 /\ ~(j < Rest(n)) /\ j # Rest(n)
      BY <2>4, <2>1, Places
    <3> HIDE DEF i
    <3> QED
      BY <1>2, <3>1 DEF i
  <2>5. j < Rest(n) \/ j = Rest(n) \/ j > Rest(n)
    BY Places
  <2> QED
    BY <2>2, <2>3, <2>4, <2>5
<1>6. BlockAt(p, Full(n)) = LastBlock(m, n)
  BY <1>5, Zenon DEF BlockAt, LastBlock
<1> QED
  BY <1>2, <1>4, <1>6 DEF p, q

LEMMA Shabal256Is ==
  ASSUME NEW m \in Seq(Word), NEW n \in Nat, n <= Len(m), NEW s, Absorbed(m, Full(n), s)
  PROVE  Shabal256(SubSeq(m, 1, n)) = DigestOf(Finalize(s, LastBlock(m, n)))
<1> DEFINE q == SubSeq(m, 1, n)  p == Padding(q)
           g == CHOOSE g : After(p, Full(n), g)
<1>1. Full(n) \in Nat
  BY FullRest
<1>2. /\ Len(p) = 16 * Full(n) + 16
      /\ \A b \in 0 .. Full(n) - 1 : BlockAt(p, b) = BlockAt(m, b)
      /\ BlockAt(p, Full(n)) = LastBlock(m, n)
  BY PaddedBlocks
<1> HIDE DEF p
<1>3. Len(p) \div 16 - 1 = Full(n)
  <2>1. (16 * Full(n) + 16) \div 16 - 1 = Full(n)
    BY SMT, <1>1
  <2> QED
    BY <1>2, <2>1
<1>4. g[Full(n)] = s
  BY <1>1, <1>2, AbsorbedIs
<1> DEFINE L == Full(n)
<1> HIDE DEF L
<1>5. Shabal256(q) = DigestOf(Finalize((CHOOSE h : After(p, L, h))[L], BlockAt(p, L)))
  <2>1. L = Len(p) \div 16 - 1
    BY <1>3 DEF L
  <2> QED
    BY <2>1, Zenon DEF Shabal256, After, p
<1> QED
  BY <1>2, <1>4, <1>5 DEF L, q

LEMMA Further ==
  ASSUME NEW n \in Nat, NEW k \in Nat
  PROVE  /\ Rest(n) + k < 16 => Full(n + k) = Full(n) /\ Rest(n + k) = Rest(n) + k
         /\ Rest(n) + k = 16 => Full(n + k) = Full(n) + 1 /\ Rest(n + k) = 0
  BY SMT DEF Full, Rest

(* The scalar context x has taken the first n words of message m.            *)
Waiting(m, n, b) == \A i \in Block : i < Rest(n) => b[i] = m[16 * Full(n) + i + 1]
Holds(m, n, x) ==
  \E s \in State, b \in MessageBlock :
    x = Sph(s, b, Rest(n)) /\ Absorbed(m, Full(n), s) /\ Waiting(m, n, b)

(* data are the words that follow the first n of m.                          *)
Part(m, n, data) ==
  /\ m \in Seq(Word) /\ data \in Seq(Word) /\ n \in Nat /\ n + Len(data) <= Len(m)
  /\ \A i \in 1 .. Len(data) : data[i] = m[n + i]

LEMMA PartWord ==
  ASSUME NEW m, NEW n, NEW data, Part(m, n, data), NEW i \in 1 .. Len(data)
  PROVE  data[i] = m[n + i] /\ data[i] \in Word
<1>1. data[i] \in Word
  BY DEF Part
<1> QED
  BY <1>1 DEF Part

LEMMA Taken ==
  ASSUME NEW m, NEW n, NEW data, Part(m, n, data), NEW o \in Nat, NEW k \in Nat,
         o + k <= Len(data), Rest(n + o) + k <= 16,
         NEW b \in MessageBlock, Waiting(m, n + o, b)
  PROVE  LET c == CopiedIn(b, Rest(n + o), data, o, k)
         IN  /\ c \in MessageBlock
             /\ \A i \in Block : i < Rest(n + o) + k => c[i] = m[16 * Full(n + o) + i + 1]
<1> DEFINE p == Rest(n + o)  f == Full(n + o)  L == Len(data)
           c == CopiedIn(b, p, data, o, k)
<1>1. n \in Nat /\ L \in Nat
  BY DEF Part
<1>2. f \in Nat /\ p \in Nat /\ n + o = 16 * f + p /\ p + k <= 16 /\ o + k <= L
  <2>1. n + o \in Nat
    BY <1>1
  <2>2. f \in Nat /\ p \in Block /\ n + o = 16 * f + p
    BY <2>1, FullRest, Zenon
  <2> QED
    BY <2>2 DEF Block
<1>3. \A i \in Block : i < p => b[i] = m[16 * f + i + 1]
  BY DEF Waiting
<1>4. c = [i \in Block |-> IF i \in p .. p + k - 1 THEN data[o + i - p + 1] ELSE b[i]]
  BY DEF CopiedIn
<1>5. \A i \in 1 .. L : data[i] = m[n + i] /\ data[i] \in Word
  BY PartWord
<1> HIDE DEF p, f, L, c
<1>6. ASSUME NEW i \in Block, i \in p .. p + k - 1
      PROVE  c[i] = m[16 * f + i + 1] /\ c[i] \in Word
  <2>1. o + i - p + 1 \in 1 .. L /\ n + (o + i - p + 1) = 16 * f + i + 1
    BY <1>1, <1>2, <1>6
  <2>2. c[i] = data[o + i - p + 1]
    BY <1>4, <1>6
  <2>3. data[o + i - p + 1] = m[n + (o + i - p + 1)] /\ data[o + i - p + 1] \in Word
    BY <1>5, <2>1
  <2> QED
    BY <2>1, <2>2, <2>3
<1>7. ASSUME NEW i \in Block, ~(i \in p .. p + k - 1)
      PROVE  c[i] = b[i] /\ c[i] \in Word
  BY <1>4, <1>7 DEF MessageBlock
<1>8. c \in MessageBlock
  <2>1. c = [i \in Block |-> c[i]]
    BY <1>4
  <2> QED
    BY <1>6, <1>7, <2>1 DEF MessageBlock
<1>9. ASSUME NEW i \in Block, i < p + k
      PROVE  c[i] = m[16 * f + i + 1]
  <2>1. CASE i < p
    <3>1. ~(i \in p .. p + k - 1)
      BY <1>2, <2>1 DEF Block
    <3> QED
      BY <1>3, <1>7, <2>1, <3>1
  <2>2. CASE ~(i < p)
    <3>1. i \in p .. p + k - 1
      BY <1>2, <1>9, <2>2 DEF Block
    <3> QED
      BY <1>6, <3>1
  <2> QED
    BY <2>1, <2>2
<1> QED
  BY <1>8, <1>9 DEF p, f, c

(* A copy that does not fill the block, and one that does.                   *)
LEMMA HoldsMore ==
  ASSUME NEW m, NEW n \in Nat, NEW k \in Nat, Rest(n) + k < 16,
         NEW s \in State, Absorbed(m, Full(n), s), NEW c \in MessageBlock,
         \A i \in Block : i < Rest(n) + k => c[i] = m[16 * Full(n) + i + 1]
  PROVE  Holds(m, n + k, Sph(s, c, Rest(n) + k))
<1>1. Full(n + k) = Full(n) /\ Rest(n + k) = Rest(n) + k
  BY Further
<1>2. Absorbed(m, Full(n + k), s) /\ Waiting(m, n + k, c)
  BY <1>1, Zenon DEF Waiting
<1> QED
  BY <1>1, <1>2, Zenon DEF Holds

LEMMA HoldsBlock ==
  ASSUME NEW m, NEW n \in Nat, NEW k \in Nat, Rest(n) + k = 16,
         NEW s \in State, Absorbed(m, Full(n), s), NEW c \in MessageBlock,
         \A i \in Block : i < Rest(n) + k => c[i] = m[16 * Full(n) + i + 1]
  PROVE  Holds(m, n + k, Sph(Absorb(s, c), c, 0))
<1>1. Full(n + k) = Full(n) + 1 /\ Rest(n + k) = 0 /\ Full(n) \in Nat
  BY Further, FullRest
<1>2. c = BlockAt(m, Full(n))
  <2>1. ASSUME NEW i \in Block
        PROVE  c[i] = m[16 * Full(n) + i + 1]
    <3>1. i < Rest(n) + k
      BY DEF Block
    <3> QED
      BY <3>1
  <2>2. c = [i \in Block |-> c[i]]
    BY DEF MessageBlock
  <2> QED
    BY <2>1, <2>2, Zenon DEF BlockAt
<1>3. Absorb(s, c) \in State
  BY RoundIsAbsorb
<1>4. Absorbed(m, Full(n + k), Absorb(s, c))
  BY <1>1, <1>2, AbsorbedNext
<1>5. Waiting(m, n + k, c)
  <2>1. \A i \in Block : ~(i < 0)
    BY DEF Block
  <2> QED
    BY <1>1, <2>1, Zenon DEF Waiting
<1> QED
  BY <1>1, <1>3, <1>4, <1>5, Zenon DEF Holds

LEMMA SphTurn ==
  ASSUME NEW s, NEW b, NEW p \in Nat, NEW data, NEW o \in Nat, NEW k \in Nat,
         k = IF 16 - p > Len(data) - o THEN Len(data) - o ELSE 16 - p
  PROVE  LET c == CopiedIn(b, p, data, o, k)
         IN  /\ p + k = 16 => Turn(Sph(s, b, p), data, o) = Piece(Sph(Absorb(s, c), c, 0), o + k)
             /\ p + k # 16 => Turn(Sph(s, b, p), data, o) = Piece(Sph(s, c, p + k), o + k)
<1> DEFINE x == Sph(s, b, p)
           c == CopiedIn(b, p, data, o, k)
           filled == CopyIn(x, data, o, k)
<1>1. filled = Sph(s, c, p + k)
  BY CopyInSph
<1>2. ClipToBuf(x, Len(data) - o) = k
  <2>1. x.ptr = p
    BY SphFields
  <2> HIDE DEF x
  <2> QED
    BY <2>1 DEF ClipToBuf
<1>3. Turn(x, data, o) =
        [off |-> o + k,
         sc |-> IF filled.ptr = 16
                THEN [filled EXCEPT !.state = Absorb(@, filled.buf), !.ptr = 0] ELSE filled]
  BY <1>2, Zenon DEF Turn
<1> HIDE DEF c
<1>4. filled.ptr = p + k /\ filled.buf = c /\ filled.state = s
  BY <1>1, SphFields
<1> HIDE DEF filled, x
<1>5. ASSUME p + k = 16
      PROVE  Turn(x, data, o) = Piece(Sph(Absorb(s, c), c, 0), o + k)
  <2>1. [filled EXCEPT !.state = Absorb(@, filled.buf), !.ptr = 0] =
          NextBlock(Sph(s, c, p + k), Absorb(s, c))
    BY <1>1, <1>4, Zenon DEF NextBlock
  <2>2. NextBlock(Sph(s, c, p + k), Absorb(s, c)) = Sph(Absorb(s, c), c, 0)
    BY SphNextBlock
  <2> QED
    BY <1>3, <1>4, <1>5, <2>1, <2>2, Zenon DEF Piece
<1>6. ASSUME p + k # 16
      PROVE  Turn(x, data, o) = Piece(Sph(s, c, p + k), o + k)
  BY <1>1, <1>3, <1>4, <1>6, Zenon DEF Piece
<1> QED
  BY <1>5, <1>6 DEF x, c

(* A turn takes some words, and leaves a context that has taken them.        *)
LEMMA TurnTakes ==
  ASSUME NEW m, NEW n, NEW data, Part(m, n, data), NEW o \in Nat, o < Len(data),
         NEW x, Holds(m, n + o, x)
  PROVE  \E k \in Nat : \E y : /\ k > 0 /\ o + k <= Len(data)
                              /\ Turn(x, data, o) = Piece(y, o + k)
                              /\ Holds(m, n + o + k, y)
<1>1. PICK s \in State, b \in MessageBlock :
        x = Sph(s, b, Rest(n + o)) /\ Absorbed(m, Full(n + o), s) /\ Waiting(m, n + o, b)
  BY Zenon DEF Holds
<1> DEFINE L == Len(data)  p == Rest(n + o)
           k == IF 16 - p > L - o THEN L - o ELSE 16 - p
           c == CopiedIn(b, p, data, o, k)
<1>2. n \in Nat /\ L \in Nat
  BY DEF Part
<1>3. n + o \in Nat
  BY <1>2
<1>4. p \in Nat /\ p <= 15
  <2>1. p \in Block
    BY <1>3, FullRest, Zenon
  <2> HIDE DEF p
  <2> QED
    BY <2>1 DEF Block
<1> HIDE DEF p
<1>5. k \in Nat /\ k > 0 /\ o + k <= L /\ p + k <= 16
  BY <1>2, <1>4
<1>6. /\ p + k = 16 => Turn(x, data, o) = Piece(Sph(Absorb(s, c), c, 0), o + k)
      /\ p + k # 16 => Turn(x, data, o) = Piece(Sph(s, c, p + k), o + k)
  <2>1. x = Sph(s, b, p)
    BY <1>1 DEF p
  <2> QED
    BY <1>4, <1>5, <2>1, SphTurn
<1> HIDE DEF k
<1>7. c \in MessageBlock /\ \A i \in Block : i < p + k => c[i] = m[16 * Full(n + o) + i + 1]
  BY <1>1, <1>5, Taken DEF p
<1> HIDE DEF c
<1>8. CASE p + k = 16
  <2> DEFINE y == Sph(Absorb(s, c), c, 0)
  <2>1. Holds(m, n + o + k, y)
    BY <1>1, <1>5, <1>7, <1>3, <1>8, HoldsBlock DEF p
  <2> HIDE DEF y
  <2>2. Turn(x, data, o) = Piece(y, o + k)
    BY <1>6, <1>8 DEF y
  <2> QED
    BY <1>5, <2>1, <2>2
<1>9. CASE p + k # 16
  <2> DEFINE y == Sph(s, c, p + k)
  <2>1. Holds(m, n + o + k, y)
    <3>1. p + k < 16
      BY <1>4, <1>5, <1>9
    <3> QED
      BY <1>1, <1>5, <1>7, <1>3, <3>1, HoldsMore DEF p
  <2> HIDE DEF y
  <2>2. Turn(x, data, o) = Piece(y, o + k)
    BY <1>6, <1>9 DEF y
  <2> QED
    BY <1>5, <2>1, <2>2
<1> QED
  BY <1>8, <1>9

(* The loop of sph_shabal256: n turns, of which those after the last word do *)
(* nothing.                                                                  *)
NextTurn(r, data) == IF r.off < Len(data) THEN Turn(r.sc, data, r.off) ELSE r
Steps(x, data, n, g) ==
  g = [k \in 0 .. n |->
        IF k = 0 THEN Piece(x, 0)
        ELSE IF g[k - 1].off < Len(data) THEN Turn(g[k - 1].sc, data, g[k - 1].off)
             ELSE g[k - 1]]

LEMMA StepsExist ==
  ASSUME NEW x, NEW data, NEW n \in Nat
  PROVE  \E g : Steps(x, data, n, g)
<1> DEFINE zero == Piece(x, 0)
           step(r) == NextTurn(r, data)
           Is(k, g) == g = [i \in 0 .. k |-> IF i = 0 THEN zero ELSE step(g[i - 1])]
           S == {k \in Nat : \E g : Is(k, g)}
<1> HIDE DEF zero, step
<1>1. 0 \in S
  <2> DEFINE g == [i \in 0 .. 0 |-> zero]
  <2>1. \A i \in 0 .. 0 : zero = IF i = 0 THEN zero ELSE step(g[i - 1])
    OBVIOUS
  <2>2. Is(0, g)
    BY <2>1, Zenon
  <2>3. 0 \in Nat
    OBVIOUS
  <2> HIDE DEF g, Is
  <2> QED
    BY <2>2, <2>3, Zenon
<1>2. ASSUME NEW k \in Nat, k \in S
      PROVE  k + 1 \in S
  <2>1. PICK g : Is(k, g)
    BY <1>2
  <2> DEFINE h == [i \in 0 .. k + 1 |-> IF i = k + 1 THEN step(g[k]) ELSE g[i]]
  <2>2. g[0] = zero /\ \A i \in 1 .. k : g[i] = step(g[i - 1])
    BY <2>1
  <2>3. ASSUME NEW i \in 0 .. k + 1
        PROVE  h[i] = IF i = 0 THEN zero ELSE step(h[i - 1])
    <3>1. CASE i = 0
      BY <2>2, <3>1
    <3>2. CASE i = k + 1
      <4>1. i # 0 /\ i - 1 = k /\ h[i] = step(g[k]) /\ h[i - 1] = g[k]
        BY <3>2
      <4> QED
        BY <4>1
    <3>3. CASE i # 0 /\ i # k + 1
      <4>1. i \in 1 .. k /\ i - 1 \in 0 .. k + 1 /\ i - 1 # k + 1
        BY <3>3
      <4>2. h[i] = g[i] /\ h[i - 1] = g[i - 1]
        BY <3>3, <4>1
      <4> QED
        BY <2>2, <3>3, <4>1, <4>2
    <3> QED
      BY <3>1, <3>2, <3>3
  <2>4. h = [i \in 0 .. k + 1 |-> h[i]] /\ k + 1 \in Nat
    OBVIOUS
  <2> HIDE DEF h
  <2>5. Is(k + 1, h)
    BY <2>3, <2>4, Zenon
  <2> HIDE DEF Is
  <2> QED
    BY <2>4, <2>5, Zenon
<1>3. \E g : Is(n, g)
  <2>1. n \in S
    <3> HIDE DEF S
    <3> QED
      BY <1>1, <1>2, Induction
  <2> QED
    BY <2>1
<1> QED
  BY <1>3, Zenon DEF Steps, NextTurn, zero, step

(* After k turns at least k words have been taken, as long as there are any. *)
LEMMA StepsTake ==
  ASSUME NEW m, NEW n, NEW data, Part(m, n, data), NEW x, Holds(m, n, x),
         NEW g, Steps(x, data, Len(data), g)
  PROVE  Holds(m, n + Len(data), g[Len(data)].sc)
<1> DEFINE L == Len(data)
           Good(k, r) == \E o \in Nat : \E y :
             r = Piece(y, o) /\ k <= o /\ o <= L /\ Holds(m, n + o, y)
           S == {k \in Nat : k <= L => Good(k, g[k])}
<1>1. L \in Nat /\ n \in Nat
  BY DEF Part
<1>2. g[0] = Piece(x, 0) /\ \A k \in 1 .. L : g[k] = NextTurn(g[k - 1], data)
  BY <1>1 DEF Steps, NextTurn
<1>3. \A y, o : Piece(y, o).off = o /\ Piece(y, o).sc = y
  BY DEF Piece
<1>4. 0 \in S
  <2>1. n + 0 = n /\ 0 \in Nat /\ 0 <= 0 /\ 0 <= L
    BY <1>1
  <2>2. Good(0, g[0])
    BY <1>2, <2>1
  <2> HIDE DEF Good
  <2> QED
    BY <2>1, <2>2, Zenon
<1> HIDE DEF L
<1>5. ASSUME NEW k \in Nat, k \in S
      PROVE  k + 1 \in S
  <2> SUFFICES ASSUME k + 1 <= L
               PROVE  Good(k + 1, g[k + 1])
    OBVIOUS
  <2>1. k <= L /\ k + 1 \in 1 .. L /\ (k + 1) - 1 = k
    BY <1>1
  <2>2. PICK o \in Nat : \E z : g[k] = Piece(z, o) /\ k <= o /\ o <= L /\ Holds(m, n + o, z)
    BY <1>5, <2>1
  <2> DEFINE y == g[k].sc
  <2>3. g[k + 1] = NextTurn(g[k], data)
    BY <1>2, <2>1
  <2>4. /\ g[k] = Piece(y, o) /\ g[k].off = o /\ g[k].sc = y
        /\ k <= o /\ o <= L /\ Holds(m, n + o, y)
    BY <1>3, <2>2
  <2> HIDE DEF y
  <2>5. CASE o < L
    <3>1. g[k + 1] = Turn(y, data, o)
      <4>1. g[k].off = o /\ g[k].sc = y
        BY <2>4
      <4> QED
        BY <2>3, <2>5, <4>1 DEF NextTurn, L
    <3>2. PICK j \in Nat : \E z : /\ j > 0 /\ o + j <= L /\ Turn(y, data, o) = Piece(z, o + j)
                                 /\ Holds(m, n + o + j, z)
      BY <2>4, <2>5, TurnTakes DEF L
    <3>3. PICK z : Turn(y, data, o) = Piece(z, o + j) /\ Holds(m, n + o + j, z)
      BY <3>2
    <3>4. o + j \in Nat /\ k + 1 <= o + j /\ n + o + j = n + (o + j) /\ o + j <= L
      BY <1>1, <2>4, <3>2
    <3> QED
      BY <3>1, <3>3, <3>4
  <2>6. CASE ~(o < L)
    <3>1. g[k + 1] = g[k]
      BY <2>3, <2>4, <2>6 DEF NextTurn, L
    <3>2. k + 1 <= o
      BY <1>1, <2>4, <2>6
    <3> QED
      BY <2>4, <3>1, <3>2
  <2> QED
    BY <2>5, <2>6
<1>6. Good(L, g[L])
  <2>1. L \in S
    <3> HIDE DEF S
    <3> QED
      BY <1>1, <1>4, <1>5, Induction
  <2>2. L <= L
    BY <1>1
  <2> HIDE DEF Good
  <2> QED
    BY <2>1, <2>2
<1>7. PICK o \in Nat : \E y : g[L] = Piece(y, o) /\ L <= o /\ o <= L /\ Holds(m, n + o, y)
  BY <1>6
<1>8. o = L
  BY <1>1, <1>7
<1> QED
  BY <1>3, <1>7, <1>8 DEF L

(* sph_shabal256: all words of a piece are taken.                            *)
LEMMA SphFeed ==
  ASSUME NEW m, NEW n, NEW data, Part(m, n, data), NEW x, Holds(m, n, x)
  PROVE  Holds(m, n + Len(data), sph_shabal256(x, data))
<1> DEFINE L == Len(data)
<1>1. L \in Nat /\ n \in Nat
  BY DEF Part
<1>2. PICK s \in State, b \in MessageBlock :
        x = Sph(s, b, Rest(n)) /\ Absorbed(m, Full(n), s) /\ Waiting(m, n, b)
  BY Zenon DEF Holds
<1>3. x.ptr = Rest(n) /\ Rest(n) \in Block
  <2>1. x.ptr = Rest(n)
    BY <1>2, SphFields
  <2>2. Rest(n) \in Block
    BY <1>1, FullRest
  <2> QED
    BY <2>1, <2>2
<1>4. CASE L < 16 - x.ptr
  <2> DEFINE c == CopiedIn(b, Rest(n), data, 0, L)
  <2>1. sph_shabal256(x, data) = CopyIn(x, data, 0, L)
    BY <1>4, Zenon DEF sph_shabal256
  <2>2. CopyIn(x, data, 0, L) = Sph(s, c, Rest(n) + L)
    BY <1>2, CopyInSph
  <2>3. n + 0 = n /\ 0 \in Nat /\ 0 + L <= Len(data) /\ Rest(n) + L < 16 /\ Rest(n) + L <= 16
    <3>1. Rest(n) \in Nat
      BY <1>3 DEF Block
    <3>2. L < 16 - Rest(n)
      BY <1>3, <1>4
    <3>3. L <= Len(data)
      BY <1>1
    <3> HIDE DEF L, c
    <3> QED
      BY <1>1, <3>1, <3>2, <3>3
  <2>4. c \in MessageBlock /\ \A i \in Block : i < Rest(n) + L => c[i] = m[16 * Full(n) + i + 1]
    <3>1. LET d == CopiedIn(b, Rest(n + 0), data, 0, L)
          IN  /\ d \in MessageBlock
              /\ \A i \in Block : i < Rest(n + 0) + L => d[i] = m[16 * Full(n + 0) + i + 1]
      BY <1>1, <1>2, <2>3, Taken
    <3> QED
      BY <2>3, <3>1
  <2> HIDE DEF c
  <2>5. Holds(m, n + L, Sph(s, c, Rest(n) + L))
    BY <1>1, <1>2, <2>3, <2>4, HoldsMore
  <2> QED
    BY <2>1, <2>2, <2>5
<1>5. CASE ~(L < 16 - x.ptr)
  <2> DEFINE g == CHOOSE g : Steps(x, data, L, g)
  <2>1. sph_shabal256(x, data) = g[L].sc
    BY <1>5, Zenon DEF sph_shabal256, Steps, Piece
  <2>2. Steps(x, data, L, g)
    <3>1. \E h : Steps(x, data, L, h)
      BY <1>1, StepsExist
    <3> QED
      BY <3>1, Zenon
  <2> HIDE DEF g
  <2> QED
    BY <2>1, <2>2, StepsTake
<1> QED
  BY <1>4, <1>5

(* shabal_close pads what waits in buf to the last block of the definition.  *)
LEMMA SphClose ==
  ASSUME NEW m \in Seq(Word), NEW n \in Nat, n <= Len(m), NEW x, Holds(m, n, x)
  PROVE  shabal_close(x).dst = Shabal256(SubSeq(m, 1, n))
<1>1. PICK s \in State, b \in MessageBlock :
        x = Sph(s, b, Rest(n)) /\ Absorbed(m, Full(n), s) /\ Waiting(m, n, b)
  BY Zenon DEF Holds
<1>2. x.ptr = Rest(n) /\ x.buf = b /\ x.state = s
  BY <1>1, SphFields
<1>3. ASSUME NEW i \in Block
      PROVE  (IF i < Rest(n) THEN b[i] ELSE IF i = Rest(n) THEN EndMark ELSE Zero) =
               IF i < Rest(n) THEN m[16 * Full(n) + i + 1]
               ELSE IF i = Rest(n) THEN EndMark ELSE Zero
  BY <1>1, Zenon DEF Waiting
<1>4. Padded(x) = LastBlock(m, n)
  BY <1>2, <1>3, Zenon DEF Padded, LastBlock
<1>5. shabal_close(x).dst = DigestOf(Finalize(s, LastBlock(m, n)))
  <2>1. \A p, q : [sc |-> p, dst |-> q].dst = q
    OBVIOUS
  <2> QED
    BY <1>2, <1>4, <2>1, Zenon DEF shabal_close
<1> QED
  BY <1>1, <1>5, Shabal256Is

LEMMA SphOpen ==
  ASSUME NEW m
  PROVE  Holds(m, 0, sph_shabal256_init(Garbage))
<1> DEFINE b == [i \in Block |-> Ones]
           x == [state |-> {}, buf |-> b, ptr |-> 7]
<1>1. sph_shabal256_init(Garbage) = NextBlock(x, InitialState)
  <2>1. Garbage = x
    BY DEF Garbage
  <2>2. \A y : sph_shabal256_init(y) = NextBlock(y, InitialState)
    BY Zenon DEF sph_shabal256_init, NextBlock
  <2> QED
    BY <2>1, <2>2, Zenon
<1>2. x = Sph({}, b, 7)
  BY DEF Sph
<1>3. b \in MessageBlock
  BY ZeroOnesWord DEF MessageBlock
<1> HIDE DEF x, b
<1>4. NextBlock(Sph({}, b, 7), InitialState) = Sph(InitialState, b, 0)
  BY SphNextBlock
<1>5. Full(0) = 0 /\ Rest(0) = 0
  BY SMT DEF Full, Rest
<1>6. Waiting(m, 0, b)
  <2>1. \A i \in Block : ~(i < 0)
    BY DEF Block
  <2> QED
    BY <1>5, <2>1, Zenon DEF Waiting
<1>7. Absorbed(m, Full(0), InitialState)
  BY <1>5, AbsorbedNone, Zenon
<1> QED
  BY <1>1, <1>2, <1>3, <1>4, <1>5, <1>6, <1>7, InitialStateType, Zenon DEF Holds

(* The SIMD functions on one piece of n words, 16 <= n <= 31.                *)
SimdHolds(F, ms, n, x) ==
  /\ x \in Context(F) /\ x.out_size = 256
  /\ \/ /\ n = 0 /\ x.ptr = 0
        /\ \A l \in Lane(F) : LoadState(F, x, l) = InitialState
     \/ /\ n \in 16 .. 31
        /\ \A l \in Lane(F) :
             /\ LoadState(F, x, l) = Absorb(InitialState, BlockAt(ms[l], 0))
             /\ AtPointer(x.xbuf[l]) = LastBlock(ms[l], n)

SimdUpdate(F, x, data, n) ==
  [Compress(F, x, Past(F, data, 0)) EXCEPT !.xbuf = Past(F, data, 0 + 16), !.ptr = (n - 0) % 16]

LEMMA SimdUpdates ==
  ASSUME NEW x, x.ptr = 0, NEW data, NEW n
  PROVE  /\ simd128_sse2_mshabal(x, data, n) = SimdUpdate(4, x, data, n)
         /\ simd128_mshabal(x, data, n) = SimdUpdate(4, x, data, n)
         /\ simd256_mshabal(x, data, n) = SimdUpdate(8, x, data, n)
         /\ simd512_mshabal(x, data, n) = SimdUpdate(16, x, data, n)
<1>1. simd128_sse2_mshabal(x, data, n) = SimdUpdate(4, x, data, n)
  BY Zenon DEF simd128_sse2_mshabal, simd128_sse2_mshabal_compress, Update, SimdUpdate
<1>2. simd128_mshabal(x, data, n) = SimdUpdate(4, x, data, n)
  BY Zenon DEF simd128_mshabal, simd128_mshabal_compress, Update, SimdUpdate
<1>3. simd256_mshabal(x, data, n) = SimdUpdate(8, x, data, n)
  BY Zenon DEF simd256_mshabal, simd256_mshabal_compress, Update, SimdUpdate
<1>4. simd512_mshabal(x, data, n) = SimdUpdate(16, x, data, n)
  BY Zenon DEF simd512_mshabal, simd512_mshabal_compress, Update, SimdUpdate
<1> QED
  BY <1>1, <1>2, <1>3, <1>4

(* The memory behind the pointer of a lane that is fed n words at once.      *)
WholeMemory(m, n) ==
  [j \in 0 .. 63 |-> IF j < n THEN m[j + 1] ELSE IF j = n THEN EndMark ELSE Zero]

LEMMA PastArea ==
  ASSUME NEW M, DOMAIN M = 0 .. 63, \A j \in 0 .. 63 : M[j] \in Word, NEW k \in {0, 16}
  PROVE  LET past == [j \in {i \in DOMAIN M : i + k \in DOMAIN M} |-> M[j + k]]
         IN  past \in Area /\ \A j \in Block : past[j] = M[j + k]
<1> DEFINE D == {i \in DOMAIN M : i + k \in DOMAIN M}
           past == [j \in D |-> M[j + k]]
<1>1. \A i : i \in D <=> i \in 0 .. 63 /\ i + k \in 0 .. 63
  OBVIOUS
<1> HIDE DEF D
<1>2. D \in SUBSET Nat
  BY <1>1
<1>3. Block \subseteq D
  BY <1>1 DEF Block
<1>4. past \in [D -> Word]
  BY <1>1
<1>5. past \in Area
  BY <1>2, <1>3, <1>4, Zenon DEF Area
<1>6. \A j \in Block : past[j] = M[j + k]
  BY <1>3
<1> QED
  BY <1>5, <1>6 DEF D

LEMMA WholeMemoryBlocks ==
  ASSUME NEW m \in Seq(Word), NEW n \in 16 .. 31, n <= Len(m), NEW F, NEW data,
         NEW l \in Lane(F), data[l] = WholeMemory(m, n)
  PROVE  /\ Past(F, data, 0)[l] \in Area
         /\ AtPointer(Past(F, data, 0)[l]) = BlockAt(m, 0)
         /\ Past(F, data, 16)[l] \in Area
         /\ AtPointer(Past(F, data, 16)[l]) = LastBlock(m, n)
<1> DEFINE M == WholeMemory(m, n)
           past(k) == [j \in {i \in DOMAIN M : i + k \in DOMAIN M} |-> M[j + k]]
<1>1. \A i \in 1 .. n : m[i] \in Word
  OBVIOUS
<1>2. DOMAIN M = 0 .. 63 /\ \A j \in 0 .. 63 : M[j] \in Word
  <2>1. \A j \in 0 .. 63 : j < n => j + 1 \in 1 .. n
    OBVIOUS
  <2>2. EndMark \in Word /\ Zero \in Word
    BY EndMarkWord, ZeroOnesWord
  <2> QED
    BY <1>1, <2>1, <2>2 DEF WholeMemory
<1>3. ASSUME NEW j \in 0 .. 63
      PROVE  M[j] = IF j < n THEN m[j + 1] ELSE IF j = n THEN EndMark ELSE Zero
  BY DEF WholeMemory
<1>4. \A k : Past(F, data, k)[l] = past(k)
  BY DEF Past
<1> HIDE DEF M
<1>5. ASSUME NEW k \in {0, 16}
      PROVE  /\ past(k) \in Area
             /\ \A j \in Block : past(k)[j] = M[j + k]
  BY <1>2, PastArea
<1> HIDE DEF past
<1>6. AtPointer(past(0)) = BlockAt(m, 0)
  <2>1. ASSUME NEW j \in Block
        PROVE  past(0)[j] = m[16 * 0 + j + 1]
    <3>1. j \in 0 .. 63 /\ j < n /\ j + 0 = j /\ 16 * 0 + j + 1 = j + 1
      BY DEF Block
    <3> QED
      BY <1>3, <1>5, <3>1
  <2> QED
    BY <2>1, Zenon DEF AtPointer, BlockAt
<1>7. Full(n) = 1 /\ Rest(n) = n - 16
  BY SMT DEF Full, Rest
<1>8. AtPointer(past(16)) = LastBlock(m, n)
  <2>1. ASSUME NEW j \in Block
        PROVE  past(16)[j] = IF j < Rest(n) THEN m[16 * Full(n) + j + 1]
                             ELSE IF j = Rest(n) THEN EndMark ELSE Zero
    <3>1. /\ j + 16 \in 0 .. 63 /\ 16 * 1 + j + 1 = (j + 16) + 1
          /\ (j < n - 16 <=> j + 16 < n) /\ (j = n - 16 <=> j + 16 = n)
      BY DEF Block
    <3>2. past(16)[j] = M[j + 16]
      BY <1>5
    <3>3. M[j + 16] = IF j + 16 < n THEN m[(j + 16) + 1] ELSE IF j + 16 = n THEN EndMark ELSE Zero
      BY <1>3, <3>1
    <3> QED
      BY <1>7, <3>1, <3>2, <3>3
  <2> QED
    BY <2>1, Zenon DEF AtPointer, LastBlock
<1> QED
  BY <1>4, <1>5, <1>6, <1>8

LEMMA SimdFeed ==
  ASSUME NEW F \in Widths, NEW ms, NEW n \in 16 .. 31,
         \A l \in Lane(F) : ms[l] \in Seq(Word) /\ n <= Len(ms[l]),
         NEW x, SimdHolds(F, ms, 0, x), NEW data,
         \A l \in Lane(F) : data[l] = WholeMemory(ms[l], n)
  PROVE  SimdHolds(F, ms, n, SimdUpdate(F, x, data, n))
<1> DEFINE first == Past(F, data, 0)  rest == Past(F, data, 16)
           c == Compress(F, x, first)  y == SimdUpdate(F, x, data, n)
<1>1. /\ x \in Context(F) /\ x.out_size = 256
      /\ \A l \in Lane(F) : LoadState(F, x, l) = InitialState
  BY DEF SimdHolds
<1>2. ASSUME NEW l \in Lane(F)
      PROVE  /\ first[l] \in Area /\ AtPointer(first[l]) = BlockAt(ms[l], 0)
             /\ rest[l] \in Area /\ AtPointer(rest[l]) = LastBlock(ms[l], n)
  <2>1. ms[l] \in Seq(Word) /\ n <= Len(ms[l]) /\ data[l] = WholeMemory(ms[l], n)
    OBVIOUS
  <2> QED
    BY <2>1, WholeMemoryBlocks
<1>3. first \in Areas(F) /\ rest \in Areas(F)
  <2>1. first = [l \in Lane(F) |-> first[l]] /\ rest = [l \in Lane(F) |-> rest[l]]
    BY DEF Past
  <2> HIDE DEF first, rest
  <2> QED
    BY <1>2, <2>1 DEF Areas
<1>4. y = [c EXCEPT !.xbuf = rest, !.ptr = n % 16]
  <2>1. 0 + 16 = 16 /\ n - 0 = n
    OBVIOUS
  <2> QED
    BY <2>1, Zenon DEF SimdUpdate
<1> HIDE DEF first, rest, y
<1>5. /\ c \in Context(F) /\ SameRest(x, c)
      /\ \A l \in Lane(F) : LoadState(F, c, l) = Round(InitialState, AtPointer(first[l]))
  BY <1>1, <1>3, CompressLane
<1> HIDE DEF c
<1>6. n % 16 \in Nat
  BY SMT
<1>7. /\ y \in Context(F) /\ y.out_size = 256 /\ y.xbuf = rest
      /\ y.state = c.state /\ y.Wlow = c.Wlow /\ y.Whigh = c.Whigh
  BY <1>1, <1>3, <1>4, <1>5, <1>6 DEF Context, SameRest
<1>8. ASSUME NEW l \in Lane(F)
      PROVE  /\ LoadState(F, y, l) = Absorb(InitialState, BlockAt(ms[l], 0))
             /\ AtPointer(y.xbuf[l]) = LastBlock(ms[l], n)
  <2>1. LoadState(F, y, l) = LoadState(F, c, l)
    BY <1>7, Zenon DEF LoadState
  <2>2. BlockAt(ms[l], 0) \in MessageBlock
    BY <1>2, AreaBlock
  <2>3. Round(InitialState, BlockAt(ms[l], 0)) = Absorb(InitialState, BlockAt(ms[l], 0))
    BY <2>2, InitialStateType, RoundIsAbsorb
  <2> QED
    BY <1>2, <1>5, <1>7, <2>1, <2>3
<1> QED
  BY <1>7, <1>8, Zenon DEF SimdHolds, y

LEMMA DecrContext ==
  ASSUME NEW F \in Widths, NEW c \in Context(F)
  PROVE  /\ DecrW(c) \in Context(F) /\ SameRest(c, DecrW(c))
         /\ \A l \in Lane(F) : LoadState(F, DecrW(c), l) = DecrW(LoadState(F, c, l))
<1> DEFINE lo == Sub(c.Wlow, Small(1))
           hi == IF c.Wlow = Zero THEN Sub(c.Whigh, Small(1)) ELSE c.Whigh
           d == [c EXCEPT !.Wlow = lo, !.Whigh = hi]
<1>1. c.Wlow \in Word /\ c.Whigh \in Word
  BY DEF Context
<1>2. Small(1) \in Word
  BY SMT, SmallWord
<1>3. lo \in Word /\ hi \in Word
  BY <1>1, <1>2, SubType
<1>4. DecrW(c) = d
  <2>1. \A w : [c EXCEPT !.Wlow = w].Whigh = c.Whigh
    BY DEF Context
  <2> QED
    BY <2>1, Zenon DEF DecrW
<1> HIDE DEF lo, hi
<1>5. d \in Context(F) /\ SameRest(c, d) /\ d.state = c.state /\ d.Wlow = lo /\ d.Whigh = hi
  BY <1>3 DEF Context, SameRest
<1> HIDE DEF d
<1>6. ASSUME NEW l \in Lane(F)
      PROVE  LoadState(F, d, l) = DecrW(LoadState(F, c, l))
  <2> DEFINE r == LoadState(F, c, l)  t == LoadState(F, d, l)
  <2>1. c.state \in Memory(F) /\ d.state \in Memory(F)
    BY <1>5 DEF Context
  <2>2. r \in State /\ t \in State
    BY <1>1, <1>3, <1>5, <2>1, LoadStateType
  <2>3. r.Wlow = c.Wlow /\ r.Whigh = c.Whigh /\ t.Wlow = lo /\ t.Whigh = hi
    BY <1>5 DEF LoadState
  <2>4. t.A = r.A /\ t.B = r.B /\ t.C = r.C
    BY <1>5 DEF LoadState
  <2> HIDE DEF r, t
  <2>5. DecrW(r) = WithW(r, lo, hi)
    <3>1. \A w : [r EXCEPT !.Wlow = w].Whigh = r.Whigh
      BY <2>2 DEF State
    <3> QED
      BY <2>3, <3>1, Zenon DEF DecrW, WithW, lo, hi
  <2> QED
    BY <1>3, <2>2, <2>3, <2>4, <2>5, StateFields, SameState DEF r, t
<1> QED
  BY <1>4, <1>5, <1>6

(* Rounds 2 to 5: a compression after which the counter is turned back.      *)
StillContext(F, c) == DecrW(Compress(F, c, c.xbuf))

LEMMA StillLane ==
  ASSUME NEW F \in Widths, NEW x \in Context(F)
  PROVE  LET c == StillContext(F, x)
         IN  /\ c \in Context(F) /\ SameRest(x, c)
             /\ \A l \in Lane(F) :
                  LoadState(F, c, l) = StillRound(LoadState(F, x, l), AtPointer(x.xbuf[l]))
<1> DEFINE d == Compress(F, x, x.xbuf)
<1>1. x.xbuf \in Areas(F)
  BY DEF Context
<1>2. /\ d \in Context(F) /\ SameRest(x, d)
      /\ \A l \in Lane(F) :
           LoadState(F, d, l) = Round(LoadState(F, x, l), AtPointer(x.xbuf[l]))
  BY <1>1, CompressLane
<1> HIDE DEF d
<1>3. /\ DecrW(d) \in Context(F) /\ SameRest(d, DecrW(d))
      /\ \A l \in Lane(F) : LoadState(F, DecrW(d), l) = DecrW(LoadState(F, d, l))
  BY <1>2, DecrContext
<1>4. StillContext(F, x) = DecrW(d)
  BY DEF StillContext, d
<1>5. SameRest(x, DecrW(d))
  BY <1>2, <1>3 DEF SameRest
<1> QED
  BY <1>2, <1>3, <1>4, <1>5, Zenon DEF StillRound

FourStill(F, x) == StillContext(F, StillContext(F, StillContext(F, StillContext(F, x))))

LEMMA FourStillLane ==
  ASSUME NEW F \in Widths, NEW x \in Context(F)
  PROVE  LET c == FourStill(F, x)
         IN  /\ c \in Context(F) /\ SameRest(x, c)
             /\ \A l \in Lane(F) :
                  LoadState(F, c, l) = FourRounds(LoadState(F, x, l), AtPointer(x.xbuf[l]))
<1> DEFINE x1 == StillContext(F, x)  x2 == StillContext(F, x1)
           x3 == StillContext(F, x2)  x4 == StillContext(F, x3)
           M(l) == AtPointer(x.xbuf[l])
<1>1. /\ x1 \in Context(F) /\ SameRest(x, x1)
      /\ \A l \in Lane(F) : LoadState(F, x1, l) = StillRound(LoadState(F, x, l), M(l))
  BY StillLane
<1> HIDE DEF x1
<1>2. /\ x2 \in Context(F) /\ SameRest(x, x2)
      /\ \A l \in Lane(F) : LoadState(F, x2, l) = StillRound(LoadState(F, x1, l), M(l))
  <2>1. x1.xbuf = x.xbuf
    BY <1>1 DEF SameRest
  <2> QED
    BY <1>1, <2>1, StillLane DEF SameRest
<1> HIDE DEF x2
<1>3. /\ x3 \in Context(F) /\ SameRest(x, x3)
      /\ \A l \in Lane(F) : LoadState(F, x3, l) = StillRound(LoadState(F, x2, l), M(l))
  <2>1. x2.xbuf = x.xbuf
    BY <1>2 DEF SameRest
  <2> QED
    BY <1>2, <2>1, StillLane DEF SameRest
<1> HIDE DEF x3
<1>4. /\ x4 \in Context(F) /\ SameRest(x, x4)
      /\ \A l \in Lane(F) : LoadState(F, x4, l) = StillRound(LoadState(F, x3, l), M(l))
  <2>1. x3.xbuf = x.xbuf
    BY <1>3 DEF SameRest
  <2> QED
    BY <1>3, <2>1, StillLane DEF SameRest
<1> HIDE DEF x4
<1>5. FourStill(F, x) = x4
  BY DEF FourStill, x1, x2, x3, x4
<1>6. ASSUME NEW l \in Lane(F)
      PROVE  LoadState(F, x4, l) = FourRounds(LoadState(F, x, l), M(l))
  BY <1>1, <1>2, <1>3, <1>4, Zenon DEF FourRounds
<1> QED
  BY <1>4, <1>5, <1>6

LEMMA SimdCloses ==
  ASSUME NEW x
  PROVE  /\ simd128_mshabal_close(x).dst = Extract(4, FourStill(4, x), x.out_size \div 32)
         /\ simd256_mshabal_close(x).dst = Extract(8, FourStill(8, x), x.out_size \div 32)
         /\ simd512_mshabal_close(x).dst = Extract(16, FourStill(16, x), x.out_size \div 32)
<1>1. \A p, q : [sc |-> p, dst |-> q].dst = q
  OBVIOUS
<1> DEFINE n == x.out_size \div 32
<1> HIDE DEF n
<1>2. simd128_mshabal_close(x).dst = Extract(4, FourStill(4, x), n)
  BY <1>1, Zenon DEF simd128_mshabal_close, simd128_mshabal_compress, CloseContext, FourStill,
                     StillContext, n
<1>3. simd256_mshabal_close(x).dst = Extract(8, FourStill(8, x), n)
  BY <1>1, Zenon DEF simd256_mshabal_close, simd256_mshabal_compress, CloseContext, FourStill,
                     StillContext, n
<1>4. simd512_mshabal_close(x).dst = Extract(16, FourStill(16, x), n)
  BY <1>1, Zenon DEF simd512_mshabal_close, simd512_mshabal_compress, CloseContext, FourStill,
                     StillContext, n
<1> QED
  BY <1>2, <1>3, <1>4 DEF n

\* one piece has been fed to every lane
SimdFed(F, ms, n, x) ==
  /\ F \in Widths /\ n \in 16 .. 31 /\ SimdHolds(F, ms, n, x)
  /\ \A l \in Lane(F) : ms[l] \in Seq(Word) /\ n <= Len(ms[l])

LEMMA SimdClose ==
  ASSUME NEW F, NEW ms, NEW n, NEW x, SimdFed(F, ms, n, x), NEW l \in Lane(F)
  PROVE  Extract(F, FourStill(F, x), x.out_size \div 32)[l] = Shabal256(SubSeq(ms[l], 1, n))
<1> SUFFICES ASSUME F \in Widths, n \in 16 .. 31, SimdHolds(F, ms, n, x),
                    \A i \in Lane(F) : ms[i] \in Seq(Word) /\ n <= Len(ms[i])
             PROVE  Extract(F, FourStill(F, x), x.out_size \div 32)[l] =
                      Shabal256(SubSeq(ms[l], 1, n))
  BY DEF SimdFed
<1> DEFINE m == ms[l]  s == Absorb(InitialState, BlockAt(m, 0))  M == LastBlock(m, n)
           end == FourStill(F, x)  t == LoadState(F, end, l)
<1>1. n \in Nat /\ n # 0 /\ Full(n) = 1
  BY SMT DEF Full
<1>2. m \in Seq(Word) /\ n <= Len(m)
  OBVIOUS
<1>3. x \in Context(F) /\ x.out_size = 256 /\ LoadState(F, x, l) = s /\ AtPointer(x.xbuf[l]) = M
  BY <1>1 DEF SimdHolds
<1> HIDE DEF m
<1>4. BlockAt(m, 0) \in MessageBlock /\ M \in MessageBlock
  <2>1. 0 \in 0 .. Full(n) - 1
    BY <1>1
  <2> QED
    BY <1>1, <1>2, <2>1, MessageBlocks
<1>5. s \in State
  BY <1>4, InitialStateType, RoundIsAbsorb
<1>6. Absorbed(m, Full(n), s)
  <2>1. Absorbed(m, 0 + 1, s)
    BY AbsorbedNone, AbsorbedNext
  <2>2. 0 + 1 = 1
    OBVIOUS
  <2> QED
    BY <1>1, <2>1, <2>2
<1>7. Shabal256(SubSeq(m, 1, n)) = DigestOf(Finalize(s, M))
  BY <1>1, <1>2, <1>6, Shabal256Is
<1> HIDE DEF s, M, end
<1>8. end.out_size = 256 /\ t = FourRounds(s, M)
  BY <1>3, FourStillLane DEF SameRest, end
<1>9. t.C = Finalize(s, M).B
  BY <1>4, <1>5, <1>8, FourRoundsFinalize
<1>10. ASSUME NEW z \in 0 .. 7
       PROVE  end.state[F * (28 + (16 - (end.out_size \div 32)) + z) + l] = Finalize(s, M).B[8 + z]
  <2>1. 28 + (16 - (end.out_size \div 32)) + z = (8 + z) + 28
    <3>1. 256 \div 32 = 8
      BY SMT
    <3> QED
      BY <1>8, <3>1
  <2>2. 8 + z \in Block
    BY DEF Block
  <2>3. t.C[8 + z] = end.state[F * ((8 + z) + 28) + l]
    BY <2>2 DEF LoadState
  <2> QED
    BY <1>9, <2>1, <2>3
<1>11. Extract(F, end, x.out_size \div 32)[l] =
         [z \in 0 .. 7 |-> end.state[F * (28 + (16 - (end.out_size \div 32)) + z) + l]]
  <2>1. (x.out_size \div 32) - 1 = 7
    <3>1. (256 \div 32) - 1 = 7
      BY SMT
    <3> QED
      BY <1>3, <3>1
  <2>2. Extract(F, end, x.out_size \div 32)[l] =
          [z \in 0 .. (x.out_size \div 32) - 1 |->
             end.state[F * (28 + (16 - (end.out_size \div 32)) + z) + l]]
    BY Zenon DEF Extract
  <2> QED
    BY <2>1, <2>2
<1>12. DigestOf(Finalize(s, M)) = [z \in 0 .. 7 |-> Finalize(s, M).B[8 + z]]
  BY DEF DigestOf
<1>13. Extract(F, end, x.out_size \div 32)[l] = DigestOf(Finalize(s, M))
  BY <1>10, <1>11, <1>12, Zenon
<1> QED
  BY <1>7, <1>13 DEF m, end

(* The invariant of a stream: as long as the message is open, the context    *)
(* has taken the words fed so far.                                           *)
SimdKinds == {"sse2", "simd128", "simd256", "simd512"}
StreamKinds == {"sph"} \cup SimdKinds
Fed ==
  /\ words \in [Lane(LaneCount[kind]) -> Messages]
  /\ fed \in Nat /\ fed <= MaxWords[kind]
Taking ==
  IF kind = "sph" THEN Holds(words[0], fed, stream)
  ELSE SimdHolds(LaneCount[kind], words, fed, stream)
Streaming ==
  /\ kind \in Kinds \cup {"none"}
  /\ kind = "none" => Open /\ fed = 0
  /\ kind # "none" => Fed
  /\ kind # "none" /\ Open => Taking
  /\ DigestOfAllPieces

LEMMA LaneCounts ==
  /\ Kinds \subseteq StreamKinds /\ "none" \notin StreamKinds
  /\ LaneCount["sph"] = 1 /\ LaneCount["sse2"] = 4 /\ LaneCount["simd128"] = 4
  /\ LaneCount["simd256"] = 8 /\ LaneCount["simd512"] = 16
  /\ \A k \in SimdKinds : LaneCount[k] \in Widths
  /\ Lane(1) = {0}
<1>1. DOMAIN LaneCount = StreamKinds
  BY DEF LaneCount, StreamKinds, SimdKinds
<1>2. Kinds \subseteq StreamKinds
  BY <1>1, KindsAssumption
<1>3. Lane(1) = {0}
  BY DEF Lane
<1> QED
  BY <1>2, <1>3 DEF LaneCount, StreamKinds, SimdKinds, Widths

LEMMA WordsLong ==
  ASSUME kind \in Kinds, words \in [Lane(LaneCount[kind]) -> Messages],
         NEW l \in Lane(LaneCount[kind]), NEW n \in Nat, n <= MaxWords[kind]
  PROVE  words[l] \in Seq(Word) /\ n <= Len(words[l])
<1>1. words[l] \in Messages
  OBVIOUS
<1>2. words[l] \in Seq(Word) /\ MaxWords[kind] <= Len(words[l])
  BY <1>1, MessagesAssumption
<1>3. MaxWords[kind] \in Nat /\ Len(words[l]) \in Nat
  BY <1>2, PiecesAssumption
<1> QED
  BY <1>2, <1>3

LEMMA StreamingInit == ASSUME StreamInit PROVE Streaming
  BY DEF StreamInit, Streaming, Open, DigestOfAllPieces

LEMMA StreamingOpen ==
  ASSUME Streaming, OpenContext
  PROVE  Streaming'
<1> DEFINE k == kind'
<1>1. k \in Kinds /\ k # "none" /\ k \in StreamKinds
  BY LaneCounts DEF OpenContext
<1>2. fed' = fed /\ dst' = dst /\ Open /\ fed = 0
  BY DEF OpenContext, Streaming
<1>3. Open'
  BY <1>2 DEF Open
<1>4. words' \in [Lane(LaneCount[k]) -> Messages]
  <2>1. PICK m \in [Lane(16) -> Messages] : words' = [l \in Lane(LaneCount[k]) |-> m[l]]
    BY DEF OpenContext
  <2>2. LaneCount[k] \in {1, 4, 8, 16}
    BY <1>1, LaneCounts DEF StreamKinds, SimdKinds
  <2>3. Lane(LaneCount[k]) \subseteq Lane(16)
    BY <2>2 DEF Lane
  <2> QED
    BY <2>1, <2>3
<1>5. Fed'
  <2>1. MaxWords[k] \in Nat
    BY <1>1, PiecesAssumption
  <2> QED
    BY <1>2, <1>4, <2>1 DEF Fed
<1>6. Taking'
  <2>1. CASE k = "sph"
    <3>1. stream' = sph_shabal256_init(Garbage)
      BY <2>1 DEF OpenContext
    <3>2. Holds(words'[0], fed', stream')
      BY <1>2, <3>1, SphOpen
    <3> QED
      BY <2>1, <3>2 DEF Taking
  <2>2. CASE k \in SimdKinds
    <3> DEFINE F == LaneCount[k]
    <3>1. F \in Widths /\ k # "sph"
      BY <2>2, LaneCounts DEF SimdKinds
    <3>2. stream' = InitOf(F)
      BY <2>2, LaneCounts, InitsAre DEF OpenContext, SimdKinds
    <3> HIDE DEF F
    <3>3. SimdHolds(F, words', 0, stream')
      BY <3>1, <3>2, InitOfReady DEF SimdHolds, ReadyContext
    <3> QED
      BY <1>2, <3>1, <3>3 DEF Taking, F
  <2> QED
    BY <1>1, <2>1, <2>2 DEF StreamKinds
<1> QED
  BY <1>1, <1>3, <1>5, <1>6 DEF Streaming, DigestOfAllPieces

LEMMA FeedSph ==
  ASSUME Streaming, kind = "sph", Open, NEW n \in Pieces[kind], fed + n <= MaxWords[kind]
  PROVE  Holds(words[0], fed + n, sph_shabal256(stream, SubSeq(words[0], fed + 1, fed + n)))
<1> DEFINE m == words[0]  data == SubSeq(m, fed + 1, fed + n)
<1>1. kind \in Kinds /\ Fed /\ Holds(m, fed, stream)
  BY LaneCounts DEF Streaming, Taking
<1>2. fed \in Nat /\ n \in Nat /\ fed + n \in Nat
  BY <1>1, PiecesAssumption DEF Fed
<1>3. m \in Seq(Word) /\ fed + n <= Len(m)
  <2>1. 0 \in Lane(LaneCount[kind])
    BY LaneCounts
  <2> QED
    BY <1>1, <1>2, <2>1, WordsLong DEF Fed
<1> HIDE DEF m
<1>4. \A i \in fed + 1 .. fed + n : m[i] \in Word
  BY <1>2, <1>3
<1>5. /\ data \in Seq(Word)
      /\ Len(data) = IF fed + 1 <= fed + n THEN (fed + n) - (fed + 1) + 1 ELSE 0
      /\ \A i \in 1 .. (fed + n) - (fed + 1) + 1 : data[i] = m[(fed + 1) + i - 1]
  <2>1. fed + 1 \in Int /\ fed + n \in Int
    BY <1>2
  <2> QED
    BY <1>4, <2>1, SubSeqProperties
<1> HIDE DEF data
<1>6. Len(data) = n /\ \A i \in 1 .. n : data[i] = m[fed + i]
  BY <1>2, <1>5
<1>7. Part(m, fed, data)
  BY <1>2, <1>3, <1>5, <1>6 DEF Part
<1>8. Holds(m, fed + n, sph_shabal256(stream, data))
  BY <1>1, <1>6, <1>7, SphFeed
<1> QED
  BY <1>8 DEF m, data

(* A SIMD library is fed once.                                               *)
LEMMA FeedSimd ==
  ASSUME Streaming, kind \in SimdKinds, Open, NEW n \in Pieces[kind], fed + n <= MaxWords[kind]
  PROVE  LET F == LaneCount[kind]
             data == [l \in Lane(F) |-> LaneMemory(l, n)]
         IN  /\ stream.ptr = 0
             /\ SimdHolds(F, words, fed + n, SimdUpdate(F, stream, data, n))
<1> DEFINE F == LaneCount[kind]
           data == [l \in Lane(F) |-> LaneMemory(l, n)]
<1>1. kind \in Kinds /\ kind # "sph" /\ kind # "none" /\ F \in Widths
  BY LaneCounts DEF Streaming, SimdKinds
<1>2. Fed /\ SimdHolds(F, words, fed, stream)
  BY <1>1 DEF Streaming, Taking
<1>3. n \in 16 .. 31 /\ MaxWords[kind] \in Nat /\ MaxWords[kind] <= 31
  BY <1>1, PiecesAssumption
<1>4. fed = 0
  <2>1. fed \in Nat
    BY <1>2 DEF Fed
  <2>2. ~(fed \in 16 .. 31)
    BY <1>3, <2>1
  <2> QED
    BY <1>2, <2>2 DEF SimdHolds
<1>5. stream.ptr = 0
  BY <1>2, <1>4 DEF SimdHolds
<1>6. n \in Nat /\ n <= MaxWords[kind] /\ fed + n = n
  BY <1>3, <1>4
<1>7. \A l \in Lane(F) : words[l] \in Seq(Word) /\ n <= Len(words[l])
  BY <1>1, <1>2, <1>6, WordsLong DEF Fed
<1>8. ASSUME NEW l \in Lane(F)
      PROVE  data[l] = WholeMemory(words[l], n)
  <2>1. ASSUME NEW j \in 0 .. 63
        PROVE  fed + j = j
    BY <1>4
  <2>2. LaneMemory(l, n) = WholeMemory(words[l], n)
    BY <1>6, <2>1, Zenon DEF LaneMemory, WholeMemory
  <2> QED
    BY <2>2
<1> HIDE DEF data, F
<1>9. SimdHolds(F, words, n, SimdUpdate(F, stream, data, n))
  BY <1>1, <1>2, <1>3, <1>4, <1>7, <1>8, SimdFeed
<1> QED
  BY <1>5, <1>6, <1>9 DEF data, F

LEMMA StreamingFeed ==
  ASSUME Streaming, Feed
  PROVE  Streaming'
<1>1. PICK n \in Pieces[kind] :
        /\ fed + n <= MaxWords[kind] /\ fed' = fed + n
        /\ stream' =
             LET data == [l \in Lane(LaneCount[kind]) |-> LaneMemory(l, n)]
             IN  CASE kind = "sph" ->
                        sph_shabal256(stream, SubSeq(words[0], fed + 1, fed + n))
                   [] kind = "sse2" -> simd128_sse2_mshabal(stream, data, n)
                   [] kind = "simd128" -> simd128_mshabal(stream, data, n)
                   [] kind = "simd256" -> simd256_mshabal(stream, data, n)
                   [] kind = "simd512" -> simd512_mshabal(stream, data, n)
  BY Zenon DEF Feed
<1>2. /\ kind # "none" /\ Open /\ kind' = kind /\ words' = words /\ dst' = dst
      /\ kind \in Kinds /\ kind \in StreamKinds /\ Fed
  BY LaneCounts DEF Feed, Streaming
<1>3. Open'
  BY <1>2 DEF Open
<1>4. Fed'
  <2>1. n \in Nat
    BY <1>2, PiecesAssumption
  <2> QED
    BY <1>1, <1>2, <2>1 DEF Fed
<1>5. Taking'
  <2>1. CASE kind = "sph"
    <3>1. stream' = sph_shabal256(stream, SubSeq(words[0], fed + 1, fed + n))
      BY <1>1, <2>1
    <3>2. Holds(words[0], fed + n, stream')
      BY <1>1, <1>2, <2>1, <3>1, FeedSph
    <3> QED
      BY <1>1, <1>2, <2>1, <3>2 DEF Taking
  <2>2. CASE kind \in SimdKinds
    <3> DEFINE F == LaneCount[kind]
               data == [l \in Lane(F) |-> LaneMemory(l, n)]
    <3>1. stream.ptr = 0 /\ SimdHolds(F, words, fed + n, SimdUpdate(F, stream, data, n))
      BY <1>1, <1>2, <2>2, FeedSimd
    <3>2. stream' = CASE kind = "sph" ->
                           sph_shabal256(stream, SubSeq(words[0], fed + 1, fed + n))
                      [] kind = "sse2" -> simd128_sse2_mshabal(stream, data, n)
                      [] kind = "simd128" -> simd128_mshabal(stream, data, n)
                      [] kind = "simd256" -> simd256_mshabal(stream, data, n)
                      [] kind = "simd512" -> simd512_mshabal(stream, data, n)
      BY <1>1
    <3> HIDE DEF data
    <3>3. stream' = SimdUpdate(F, stream, data, n)
      BY <2>2, <3>1, <3>2, LaneCounts, SimdUpdates DEF SimdKinds
    <3>4. kind # "sph"
      BY <2>2 DEF SimdKinds
    <3> HIDE DEF F
    <3>5. SimdHolds(F, words, fed + n, stream')
      BY <3>1, <3>3
    <3> QED
      BY <1>1, <1>2, <3>4, <3>5 DEF Taking, F
  <2> QED
    BY <1>2, <2>1, <2>2 DEF StreamKinds
<1> QED
  BY <1>2, <1>3, <1>4, <1>5 DEF Streaming, DigestOfAllPieces

LEMMA CloseSimd ==
  ASSUME Streaming, kind \in SimdKinds, Open, fed > 0, NEW l \in Lane(LaneCount[kind])
  PROVE  Extract(LaneCount[kind], FourStill(LaneCount[kind], stream),
                 stream.out_size \div 32)[l] = Shabal256(SubSeq(words[l], 1, fed))
<1> DEFINE F == LaneCount[kind]
<1>1. kind \in Kinds /\ kind # "sph" /\ kind # "none" /\ F \in Widths
  BY LaneCounts DEF Streaming, SimdKinds
<1>2. Fed /\ SimdHolds(F, words, fed, stream)
  BY <1>1 DEF Streaming, Taking
<1>3. fed \in Nat /\ fed # 0 /\ fed <= MaxWords[kind]
  BY <1>2 DEF Fed
<1>4. fed \in 16 .. 31
  BY <1>2, <1>3 DEF SimdHolds
<1>5. \A i \in Lane(F) : words[i] \in Seq(Word) /\ fed <= Len(words[i])
  BY <1>1, <1>2, <1>3, WordsLong DEF Fed
<1> HIDE DEF F
<1>6. l \in Lane(F)
  BY DEF F
<1>7. SimdFed(F, words, fed, stream)
  BY <1>1, <1>2, <1>4, <1>5 DEF SimdFed
<1>8. Extract(F, FourStill(F, stream), stream.out_size \div 32)[l] =
        Shabal256(SubSeq(words[l], 1, fed))
  BY <1>6, <1>7, SimdClose
<1> QED
  BY <1>8 DEF F

LEMMA StreamingClose ==
  ASSUME Streaming, Close
  PROVE  Streaming'
<1>1. /\ kind # "none" /\ Open /\ kind' = kind /\ words' = words /\ fed' = fed
      /\ kind \in Kinds /\ kind \in StreamKinds /\ Fed
  BY LaneCounts DEF Close, Streaming
<1> DEFINE F == LaneCount[kind]
<1>2. \E d : /\ dst' = [l \in Lane(F) |-> d[l]]
             /\ \A l \in Lane(F) : d[l] = Shabal256(SubSeq(words[l], 1, fed))
  <2>1. CASE kind = "sph"
    <3> DEFINE r == shabal_close(stream)  d == [l \in {0} |-> r.dst]
    <3>1. dst' = [l \in {0} |-> r.dst]
      BY <2>1 DEF Close
    <3>2. Holds(words[0], fed, stream)
      BY <1>1, <2>1 DEF Streaming, Taking
    <3>3. fed \in Nat /\ words[0] \in Seq(Word) /\ fed <= Len(words[0])
      <4>1. 0 \in Lane(F)
        BY <2>1, LaneCounts
      <4> QED
        BY <1>1, <4>1, WordsLong DEF Fed
    <3>4. r.dst = Shabal256(SubSeq(words[0], 1, fed))
      BY <3>2, <3>3, SphClose
    <3> HIDE DEF r
    <3>5. Lane(F) = {0}
      BY <2>1, LaneCounts
    <3>6. d[0] = r.dst /\ dst' = [l \in {0} |-> d[l]]
      BY <3>1
    <3> HIDE DEF d
    <3> QED
      BY <3>4, <3>5, <3>6
  <2>2. CASE kind \in SimdKinds
    <3> DEFINE d == Extract(F, FourStill(F, stream), stream.out_size \div 32)
    <3>1. fed > 0 /\ dst' = d
      BY <2>2, LaneCounts, SimdCloses DEF Close, Ended, SimdKinds
    <3>2. d = [l \in Lane(F) |-> d[l]]
      BY DEF Extract
    <3>3. \A l \in Lane(F) : d[l] = Shabal256(SubSeq(words[l], 1, fed))
      BY <1>1, <2>2, <3>1, CloseSimd
    <3> HIDE DEF d
    <3> QED
      BY <3>1, <3>2, <3>3
  <2> QED
    BY <1>1, <2>1, <2>2 DEF StreamKinds
<1>3. PICK d : /\ dst' = [l \in Lane(F) |-> d[l]]
               /\ \A l \in Lane(F) : d[l] = Shabal256(SubSeq(words[l], 1, fed))
  BY <1>2
<1>4. 0 \in Lane(F)
  <2>1. F \in {1, 4, 8, 16}
    BY <1>1, LaneCounts DEF StreamKinds, SimdKinds
  <2> QED
    BY <2>1 DEF Lane
<1>5. ~Open'
  BY <1>3, <1>4 DEF Open
<1>6. Fed'
  BY <1>1 DEF Fed
<1>7. DigestOfAllPieces'
  <2>1. \A l \in Lane(F) : dst'[l] = Shabal256(SubSeq(words[l], 1, fed))
    BY <1>3
  <2> QED
    BY <1>1, <2>1 DEF DigestOfAllPieces
<1> QED
  BY <1>1, <1>5, <1>6, <1>7 DEF Streaming

LEMMA StreamingStep ==
  ASSUME Streaming, [StreamNext]_streamVars
  PROVE  Streaming'
<1>1. CASE OpenContext
  BY <1>1, StreamingOpen
<1>2. CASE Feed
  BY <1>2, StreamingFeed
<1>3. CASE Close
  BY <1>3, StreamingClose
<1>4. CASE Drop
  BY <1>4 DEF Drop, Streaming, Open, DigestOfAllPieces
<1>5. CASE UNCHANGED streamVars
  BY <1>5 DEF streamVars, Streaming, Open, DigestOfAllPieces, Fed, Taking
<1> QED
  BY <1>1, <1>2, <1>3, <1>4, <1>5 DEF StreamNext

LEMMA StreamingAlways == StreamSpec => []Streaming
<1>1. StreamInit => Streaming
  BY StreamingInit
<1>2. Streaming /\ [StreamNext]_streamVars => Streaming'
  BY StreamingStep
<1> QED
  BY <1>1, <1>2, PTL DEF StreamSpec

(* However the words of a message are cut into pieces, close delivers the    *)
(* digest that Shabal-256 is defined to have, of all of them: for the scalar *)
(* library and any pieces and lengths, for the SIMD ones and the single      *)
(* piece that the program gives them, in every lane.                         *)
THEOREM PiecesDigest == StreamSpec => []DigestOfAllPieces
<1>1. Streaming => DigestOfAllPieces
  BY DEF Streaming
<1> QED
  BY <1>1, StreamingAlways, PTL

(* What waits in buf of the scalar context is the rest of the words fed.     *)
THEOREM RestInBuf == StreamSpec => []BufHoldsTheRest
<1>1. ASSUME Streaming
      PROVE  BufHoldsTheRest
  <2> SUFFICES ASSUME kind = "sph", Open
               PROVE  /\ stream.ptr = fed % 16
                      /\ \A i \in 0 .. stream.ptr - 1 :
                           stream.buf[i] = words[0][fed - stream.ptr + i + 1]
    BY DEF BufHoldsTheRest
  <2>1. fed \in Nat /\ Holds(words[0], fed, stream)
    BY <1>1 DEF Streaming, Taking, Fed
  <2>2. PICK s \in State, b \in MessageBlock :
          stream = Sph(s, b, Rest(fed)) /\ Waiting(words[0], fed, b)
    BY <2>1, Zenon DEF Holds
  <2>3. stream.ptr = Rest(fed) /\ stream.buf = b
    BY <2>2, SphFields
  <2>4. ASSUME NEW i \in 0 .. Rest(fed) - 1
        PROVE  b[i] = words[0][fed - Rest(fed) + i + 1]
    <3>1. Full(fed) \in Nat /\ Rest(fed) \in Block /\ fed = 16 * Full(fed) + Rest(fed)
      BY <2>1, FullRest
    <3>2. i \in Block /\ i < Rest(fed) /\ 16 * Full(fed) + i + 1 = fed - Rest(fed) + i + 1
      BY <3>1 DEF Block
    <3> QED
      BY <2>2, <3>2 DEF Waiting
  <2> QED
    BY <2>3, <2>4 DEF Rest
<1> QED
  BY <1>1, StreamingAlways, PTL
=============================================================================
