------------------------------- MODULE Word32 -------------------------------
(* Unsigned 32-bit words (sph_u32, mshabal_u32) as pairs of 16-bit halves    *)
(* <<high, low>>, since an integer of TLC is signed and 32 bits wide, with   *)
(* the operations the Shabal code applies to them; and unsigned long long    *)
(* values as four 16-bit digits, the most significant first.                 *)
EXTENDS Integers, Sequences

HALF == 65536
Half == 0 .. HALF - 1
Word == Half \X Half

Small(n) == <<n \div HALF, n % HALF>>
Zero == <<0, 0>>
Ones == <<HALF - 1, HALF - 1>>

Add(a, b) ==
  LET lo == a[2] + b[2]
  IN  <<(a[1] + b[1] + (lo \div HALF)) % HALF, lo % HALF>>

Sub(a, b) ==
  LET borrow == IF a[2] < b[2] THEN 1 ELSE 0
  IN  <<(a[1] - b[1] - borrow) % HALF, (a[2] - b[2]) % HALF>>

\* a * k for a small k
Times(a, k) ==
  LET lo == a[2] * k
  IN  <<(a[1] * k + (lo \div HALF)) % HALF, lo % HALF>>

Not(a) == <<HALF - 1 - a[1], HALF - 1 - a[2]>>

Rotl(a, n) ==
  LET turn(x, y, k) == ((x * 2^k) % HALF) + (y \div 2^(16 - k))
  IN  IF n < 16 THEN <<turn(a[1], a[2], n), turn(a[2], a[1], n)>>
                ELSE <<turn(a[2], a[1], n - 16), turn(a[1], a[2], n - 16)>>

Bit(x, i) == (x \div 2^i) % 2

NibbleTable(Op(_, _)) ==
  [x \in 0 .. 15 |-> [y \in 0 .. 15 |->
    Op(Bit(x, 0), Bit(y, 0)) + 2 * Op(Bit(x, 1), Bit(y, 1))
      + 4 * Op(Bit(x, 2), Bit(y, 2)) + 8 * Op(Bit(x, 3), Bit(y, 3))]]
XorBit(p, q) == (p + q) % 2
AndNotBit(p, q) == p * (1 - q)
XorNibble    == NibbleTable(XorBit)
AndNotNibble == NibbleTable(AndNotBit)

Nibbles(t, x, y) ==
  t[x % 16][y % 16] + 16 * t[(x \div 16) % 16][(y \div 16) % 16]
    + 256 * t[(x \div 256) % 16][(y \div 256) % 16]
    + 4096 * t[x \div 4096][y \div 4096]

Xor(a, b) ==
  <<Nibbles(XorNibble, a[1], b[1]), Nibbles(XorNibble, a[2], b[2])>>
\* a & ~b
AndNot(a, b) ==
  <<Nibbles(AndNotNibble, a[1], b[1]), Nibbles(AndNotNibble, a[2], b[2])>>

-----------------------------------------------------------------------------
(* unsigned long long *)

Wide(high, low) == high \o low

Less(x, y) ==
  \E i \in 1 .. 4 : x[i] < y[i] /\ \A j \in 1 .. i - 1 : x[j] = y[j]

\* x / d by long division; d < 2^15 keeps the partial dividend within TLC's
\* integers
Div(x, d) ==
  LET rest[i \in 0 .. 4] ==
        IF i = 0 THEN 0 ELSE (rest[i - 1] * HALF + x[i]) % d
  IN  [i \in 1 .. 4 |-> (rest[i - 1] * HALF + x[i]) \div d]
=============================================================================
