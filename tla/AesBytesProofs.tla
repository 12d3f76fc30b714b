--------------------------- MODULE AesBytesProofs ---------------------------
(***************************************************************************)
(* The combinational logic of the RTL, proved for every byte, column,      *)
(* block and key: that the exclusive or, the shifts and the column         *)
(* functions of AesBytes are the sums and products of the field of         *)
(* AesField, that the decryption core undoes the encryption core, and that *)
(* the key words are those of the standard.  The bytes are taken apart     *)
(* into bits, where exclusive or is propositional logic.                   *)
(***************************************************************************)
EXTENDS MCAesBytes, FiniteSetTheorems, TLAPS

Bit == {0, 1}

\* The byte with the given bits, the most significant first.
ByteOf(b7, b6, b5, b4, b3, b2, b1, b0) ==
    128 * b7 + 64 * b6 + 32 * b5 + 16 * b4 + 8 * b3 + 4 * b2 + 2 * b1 + b0

\* The exponents of a byte, as a polynomial.
Bits(x) == {i \in 0 .. 7 : BitOf(x, i) = 1}

(***************************************************************************)
(* The bits of a byte, without the powers of two.                          *)
(***************************************************************************)
LEMMA BitOfNumber ==
  ASSUME NEW x \in BYTE
  PROVE  /\ BitOf(x, 0) = x % 2 /\ BitOf(x, 1) = (x \div 2) % 2
         /\ BitOf(x, 2) = (x \div 4) % 2 /\ BitOf(x, 3) = (x \div 8) % 2
         /\ BitOf(x, 4) = (x \div 16) % 2 /\ BitOf(x, 5) = (x \div 32) % 2
         /\ BitOf(x, 6) = (x \div 64) % 2 /\ BitOf(x, 7) = (x \div 128) % 2
BY DEF BitOf, BYTE

(***************************************************************************)
(* A byte is the number its eight bits make.                               *)
(***************************************************************************)
LEMMA BitsOfByte ==
  ASSUME NEW x \in BYTE
  PROVE  /\ \A i \in 0 .. 7 : BitOf(x, i) \in Bit
         /\ x = ByteOf(BitOf(x, 7), BitOf(x, 6), BitOf(x, 5), BitOf(x, 4),
                       BitOf(x, 3), BitOf(x, 2), BitOf(x, 1), BitOf(x, 0))
<1>1. /\ BitOf(x, 0) = x % 2 /\ BitOf(x, 1) = (x \div 2) % 2
      /\ BitOf(x, 2) = (x \div 4) % 2 /\ BitOf(x, 3) = (x \div 8) % 2
      /\ BitOf(x, 4) = (x \div 16) % 2 /\ BitOf(x, 5) = (x \div 32) % 2
      /\ BitOf(x, 6) = (x \div 64) % 2 /\ BitOf(x, 7) = (x \div 128) % 2
  BY DEF BitOf, BYTE
<1> HIDE DEF BitOf
<1>2. x = ByteOf((x \div 128) % 2, (x \div 64) % 2, (x \div 32) % 2, (x \div 16) % 2,
                 (x \div 8) % 2, (x \div 4) % 2, (x \div 2) % 2, x % 2)
  BY DEF ByteOf, BYTE
<1>3. \A i \in 0 .. 7 : i \in {0, 1, 2, 3, 4, 5, 6, 7}
  OBVIOUS
<1>4. \A i \in 0 .. 7 : BitOf(x, i) \in Bit
  BY <1>1, <1>3 DEF BYTE, Bit
<1> QED
  BY <1>1, <1>2, <1>4

(***************************************************************************)
(* And the bits of the number that eight bits make are these bits.         *)
(***************************************************************************)
LEMMA ByteOfBits ==
  ASSUME NEW b7, NEW b6, NEW b5, NEW b4, NEW b3, NEW b2, NEW b1, NEW b0,
         {b7, b6, b5, b4, b3, b2, b1, b0} \subseteq Bit
  PROVE  LET x == ByteOf(b7, b6, b5, b4, b3, b2, b1, b0) IN
         /\ x \in BYTE
         /\ BitOf(x, 0) = b0 /\ BitOf(x, 1) = b1 /\ BitOf(x, 2) = b2 /\ BitOf(x, 3) = b3
         /\ BitOf(x, 4) = b4 /\ BitOf(x, 5) = b5 /\ BitOf(x, 6) = b6 /\ BitOf(x, 7) = b7
<1> DEFINE x == ByteOf(b7, b6, b5, b4, b3, b2, b1, b0)
<1>1. x \in BYTE
  BY DEF BYTE, ByteOf, Bit
<1>2. /\ x % 2 = b0 /\ (x \div 2) % 2 = b1 /\ (x \div 4) % 2 = b2 /\ (x \div 8) % 2 = b3
      /\ (x \div 16) % 2 = b4 /\ (x \div 32) % 2 = b5 /\ (x \div 64) % 2 = b6 /\ (x \div 128) % 2 = b7
  BY DEF Bit, ByteOf
<1> HIDE DEF x
<1>3. /\ x \in BYTE
      /\ BitOf(x, 0) = b0 /\ BitOf(x, 1) = b1 /\ BitOf(x, 2) = b2 /\ BitOf(x, 3) = b3
      /\ BitOf(x, 4) = b4 /\ BitOf(x, 5) = b5 /\ BitOf(x, 6) = b6 /\ BitOf(x, 7) = b7
  BY <1>1, <1>2, BitOfNumber
<1> QED
  BY <1>3 DEF x

(***************************************************************************)
(* The nibbles of the exclusive or of AesBytes, bit by bit.                *)
(***************************************************************************)
LEMMA NibbleXor ==
  ASSUME NEW x \in Nibble, NEW y \in Nibble
  PROVE  XorNibble[x][y] = ByteOf(0, 0, 0, 0, (BitOf(x, 3) + BitOf(y, 3)) % 2,
                                             (BitOf(x, 2) + BitOf(y, 2)) % 2,
                                             (BitOf(x, 1) + BitOf(y, 1)) % 2,
                                             (BitOf(x, 0) + BitOf(y, 0)) % 2)
<1>1. /\ XorNibble[x][y] = 2^0 * ((BitOf(x, 0) + BitOf(y, 0)) % 2)
                        + 2^1 * ((BitOf(x, 1) + BitOf(y, 1)) % 2)
                        + 2^2 * ((BitOf(x, 2) + BitOf(y, 2)) % 2)
                        + 2^3 * ((BitOf(x, 3) + BitOf(y, 3)) % 2)
  BY DEF XorNibble, BitOf
<1> DEFINE z(i) == (BitOf(x, i) + BitOf(y, i)) % 2
<1>2. z(0) \in Bit /\ z(1) \in Bit /\ z(2) \in Bit /\ z(3) \in Bit
  <2>1. \A i \in 0 .. 7 : BitOf(x, i) \in Bit /\ BitOf(y, i) \in Bit
    BY BitsOfByte DEF Nibble, BYTE
  <2> QED
    BY <2>1 DEF Bit
<1>3. 2^0 = 1 /\ 2^1 = 2 /\ 2^2 = 4 /\ 2^3 = 8
  OBVIOUS
<1> QED
  BY <1>1, <1>2, <1>3 DEF ByteOf, Bit

(***************************************************************************)
(* (+) is the exclusive or of every bit, and stays within a byte.          *)
(***************************************************************************)
LEMMA XorBits ==
  ASSUME NEW x \in BYTE, NEW y \in BYTE
  PROVE  /\ x (+) y \in BYTE
         /\ \A i \in 0 .. 7 : BitOf(x (+) y, i) = (BitOf(x, i) + BitOf(y, i)) % 2
<1> DEFINE z(i) == (BitOf(x, i) + BitOf(y, i)) % 2
           xh == x \div 16  xl == x % 16  yh == y \div 16  yl == y % 16
<1>1. /\ xh \in Nibble /\ xl \in Nibble /\ yh \in Nibble /\ yl \in Nibble
  BY DEF Nibble, BYTE
<1>2. ASSUME NEW n \in BYTE
      PROVE  /\ BitOf(n \div 16, 0) = BitOf(n, 4) /\ BitOf(n \div 16, 1) = BitOf(n, 5)
             /\ BitOf(n \div 16, 2) = BitOf(n, 6) /\ BitOf(n \div 16, 3) = BitOf(n, 7)
             /\ BitOf(n % 16, 0) = BitOf(n, 0) /\ BitOf(n % 16, 1) = BitOf(n, 1)
             /\ BitOf(n % 16, 2) = BitOf(n, 2) /\ BitOf(n % 16, 3) = BitOf(n, 3)
  <2> DEFINE h == n \div 16
             l == n % 16
  <2>1. h \in BYTE /\ l \in BYTE
    BY DEF BYTE
  <2>2. /\ h % 2 = (n \div 16) % 2
        /\ (h \div 2) % 2 = (n \div 32) % 2
        /\ (h \div 4) % 2 = (n \div 64) % 2
        /\ (h \div 8) % 2 = (n \div 128) % 2
    BY DEF BYTE
  <2>3. /\ l % 2 = n % 2
        /\ (l \div 2) % 2 = (n \div 2) % 2
        /\ (l \div 4) % 2 = (n \div 4) % 2
        /\ (l \div 8) % 2 = (n \div 8) % 2
    BY DEF BYTE
  <2> HIDE DEF h, l
  <2>4. /\ BitOf(h, 0) = BitOf(n, 4) /\ BitOf(h, 1) = BitOf(n, 5)
        /\ BitOf(h, 2) = BitOf(n, 6) /\ BitOf(h, 3) = BitOf(n, 7)
    BY <2>1, <2>2, BitOfNumber
  <2>5. /\ BitOf(l, 0) = BitOf(n, 0) /\ BitOf(l, 1) = BitOf(n, 1)
        /\ BitOf(l, 2) = BitOf(n, 2) /\ BitOf(l, 3) = BitOf(n, 3)
    BY <2>1, <2>3, BitOfNumber
  <2> QED
    BY <2>4, <2>5 DEF h, l
<1>3. XorNibble[xh][yh] = ByteOf(0, 0, 0, 0, z(7), z(6), z(5), z(4))
  BY <1>1, <1>2, NibbleXor
<1>4. XorNibble[xl][yl] = ByteOf(0, 0, 0, 0, z(3), z(2), z(1), z(0))
  BY <1>1, <1>2, NibbleXor
<1>5. \A i \in 0 .. 7 : z(i) \in Bit
  BY BitsOfByte DEF Bit
<1>6. x (+) y = 16 * XorNibble[xh][yh] + XorNibble[xl][yl]
  BY DEF (+)
<1> HIDE DEF z, xh, xl, yh, yl
<1>7. x (+) y = ByteOf(z(7), z(6), z(5), z(4), z(3), z(2), z(1), z(0))
  BY <1>3, <1>4, <1>5, <1>6 DEF ByteOf, Bit
<1>8. /\ x (+) y \in BYTE
      /\ \A i \in 0 .. 7 : BitOf(x (+) y, i) = z(i)
  <2>1. /\ z(7) \in Bit /\ z(6) \in Bit /\ z(5) \in Bit /\ z(4) \in Bit
        /\ z(3) \in Bit /\ z(2) \in Bit /\ z(1) \in Bit /\ z(0) \in Bit
    BY <1>5
  <2> DEFINE v == x (+) y
  <2>2. v = ByteOf(z(7), z(6), z(5), z(4), z(3), z(2), z(1), z(0))
    BY <1>7
  <2> HIDE DEF v
  <2>3. /\ v \in BYTE
        /\ BitOf(v, 0) = z(0) /\ BitOf(v, 1) = z(1) /\ BitOf(v, 2) = z(2)
        /\ BitOf(v, 3) = z(3) /\ BitOf(v, 4) = z(4) /\ BitOf(v, 5) = z(5)
        /\ BitOf(v, 6) = z(6) /\ BitOf(v, 7) = z(7)
    BY <2>1, <2>2, ByteOfBits
  <2>4. \A i \in 0 .. 7 : i \in {0, 1, 2, 3, 4, 5, 6, 7}
    OBVIOUS
  <2>5. ASSUME NEW i \in {0, 1, 2, 3, 4, 5, 6, 7}
        PROVE  BitOf(v, i) = z(i)
    BY <2>3
  <2> QED
    BY <2>3, <2>4, <2>5 DEF v
<1> QED
  BY <1>8 DEF z

(***************************************************************************)
(* As sets of bits: (+) is the symmetric difference. With SameBits it      *)
(* leaves an identity between sums of bytes to propositional logic, one    *)
(* bit at a time; nearly all that follows is proved that way.              *)
(***************************************************************************)
LEMMA XorIsDifference ==
  ASSUME NEW x, NEW y, x \in BYTE, y \in BYTE
  PROVE  /\ x (+) y \in BYTE
         /\ \A i \in 0 .. 7 : i \in Bits(x (+) y) <=> ~ (i \in Bits(x) <=> i \in Bits(y))
<1>1. \A i \in 0 .. 7 : BitOf(x, i) \in {0, 1} /\ BitOf(y, i) \in {0, 1}
  BY BitsOfByte DEF Bit
<1>2. ASSUME NEW i \in 0 .. 7
      PROVE  i \in Bits(x (+) y) <=> ~ (i \in Bits(x) <=> i \in Bits(y))
  <2>1. BitOf(x (+) y, i) = (BitOf(x, i) + BitOf(y, i)) % 2
    BY XorBits
  <2> QED
    BY <1>1, <2>1 DEF Bits
<1> QED
  BY <1>2, XorBits

(***************************************************************************)
(* Two bytes with the same bits are the same.                              *)
(***************************************************************************)
LEMMA SameBits ==
  ASSUME NEW x \in BYTE, NEW y \in BYTE,
         \A i \in 0 .. 7 : i \in Bits(x) <=> i \in Bits(y)
  PROVE  x = y
<1>1. \A i \in 0 .. 7 : BitOf(x, i) \in {0, 1} /\ BitOf(y, i) \in {0, 1}
  BY BitsOfByte DEF Bit
<1>2. ASSUME NEW i \in 0 .. 7
      PROVE  BitOf(x, i) = BitOf(y, i)
  BY <1>1, <1>2 DEF Bits
<1> QED
  BY <1>2, BitsOfByte

(***************************************************************************)
(* The byte 0 is the empty set of bits.                                    *)
(***************************************************************************)
LEMMA ZeroHasNoBits == 0 \in BYTE /\ \A i \in 0 .. 7 : i \notin Bits(0)
<1>1. 0 \in BYTE
  BY DEF BYTE
<1>2. 0 = ByteOf(0, 0, 0, 0, 0, 0, 0, 0)
  BY DEF ByteOf
<1>3. \A i \in 0 .. 7 : i \in {0, 1, 2, 3, 4, 5, 6, 7}
  OBVIOUS
<1>4. \A i \in 0 .. 7 : BitOf(0, i) = 0
  BY <1>2, <1>3, ByteOfBits DEF Bit
<1> QED
  BY <1>1, <1>4 DEF Bits

-----------------------------------------------------------------------------
(***************************************************************************)
(* xtime moves every bit up by one and adds 1B when the top bit falls out. *)
(***************************************************************************)
LEMMA XtimeBits ==
  ASSUME NEW x \in BYTE
  PROVE  /\ xtime(x) \in BYTE
         /\ \A i \in 0 .. 7 :
              i \in Bits(xtime(x)) <=>
                ~ (i - 1 \in Bits(x) <=> (i \in {0, 1, 3, 4} /\ 7 \in Bits(x)))
<1> DEFINE twice == (2 * x) % 256
           mask == IF x >= 128 THEN 27 ELSE 0
<1>1. /\ twice \in BYTE /\ mask \in BYTE /\ 27 \in BYTE
  BY DEF BYTE
<1>2. \A i \in 0 .. 7 : i \in Bits(27) <=> i \in {0, 1, 3, 4}
  <2>1. 27 = ByteOf(0, 0, 0, 1, 1, 0, 1, 1)
    BY DEF ByteOf
  <2>2. {0, 1} \subseteq Bit /\ {0, 0, 0, 1, 1, 0, 1, 1} \subseteq Bit
    BY DEF Bit
  <2>3. /\ BitOf(27, 0) = 1 /\ BitOf(27, 1) = 1 /\ BitOf(27, 2) = 0 /\ BitOf(27, 3) = 1
        /\ BitOf(27, 4) = 1 /\ BitOf(27, 5) = 0 /\ BitOf(27, 6) = 0 /\ BitOf(27, 7) = 0
    BY <2>1, <2>2, ByteOfBits
  <2>4. \A i \in 0 .. 7 : i \in {0, 1, 2, 3, 4, 5, 6, 7}
    OBVIOUS
  <2> QED
    BY <2>3, <2>4 DEF Bits
<1>3. x >= 128 <=> 7 \in Bits(x)
  <2>1. BitOf(x, 7) = (x \div 128) % 2
    BY BitOfNumber
  <2>2. (x \div 128) % 2 = 1 <=> x >= 128
    BY DEF BYTE
  <2> QED
    BY <2>1, <2>2 DEF Bits
<1>4. \A i \in 0 .. 7 : i \in Bits(mask) <=> (i \in {0, 1, 3, 4} /\ 7 \in Bits(x))
  BY <1>2, <1>3, ZeroHasNoBits
<1>5. \A i \in 0 .. 7 : i \in Bits(twice) <=> i - 1 \in Bits(x)
  <2>1. /\ twice % 2 = 0
        /\ (twice \div 2) % 2 = x % 2
        /\ (twice \div 4) % 2 = (x \div 2) % 2
        /\ (twice \div 8) % 2 = (x \div 4) % 2
        /\ (twice \div 16) % 2 = (x \div 8) % 2
        /\ (twice \div 32) % 2 = (x \div 16) % 2
        /\ (twice \div 64) % 2 = (x \div 32) % 2
        /\ (twice \div 128) % 2 = (x \div 64) % 2
    BY DEF BYTE
  <2> HIDE DEF twice
  <2>2. /\ BitOf(twice, 0) = 0
        /\ BitOf(twice, 1) = BitOf(x, 0) /\ BitOf(twice, 2) = BitOf(x, 1)
        /\ BitOf(twice, 3) = BitOf(x, 2) /\ BitOf(twice, 4) = BitOf(x, 3)
        /\ BitOf(twice, 5) = BitOf(x, 4) /\ BitOf(twice, 6) = BitOf(x, 5)
        /\ BitOf(twice, 7) = BitOf(x, 6)
    BY <1>1, <2>1, BitOfNumber
  <2>3. \A i \in 0 .. 7 : i = 0 \/ i \in {1, 2, 3, 4, 5, 6, 7}
    OBVIOUS
  <2>4. 0 - 1 \notin 0 .. 7
    OBVIOUS
  <2> QED
    BY <2>2, <2>3, <2>4 DEF Bits
<1>6. xtime(x) = twice (+) mask
  BY DEF xtime
<1> HIDE DEF twice, mask
<1> QED
  BY <1>1, <1>4, <1>5, <1>6, XorIsDifference

(***************************************************************************)
(* xtime is linear: it may be computed before a sum or after it.           *)
(***************************************************************************)
LEMMA XtimeAdditive ==
  ASSUME NEW x, NEW y, x \in BYTE, y \in BYTE
  PROVE  xtime(x (+) y) = xtime(x) (+) xtime(y)
<1>1. /\ x (+) y \in BYTE /\ xtime(x (+) y) \in BYTE
      /\ xtime(x) \in BYTE /\ xtime(y) \in BYTE /\ xtime(x) (+) xtime(y) \in BYTE
  BY XtimeBits, XorIsDifference
<1>2. ASSUME NEW i \in 0 .. 7
      PROVE  i \in Bits(xtime(x (+) y)) <=> i \in Bits(xtime(x) (+) xtime(y))
  <2> DEFINE low(v) == i - 1 \in Bits(v)
  <2>1. i - 1 \in 0 .. 7 \/ (i - 1 \notin Bits(x) /\ i - 1 \notin Bits(y) /\ i - 1 \notin Bits(x (+) y))
    BY DEF Bits
  <2>2. i - 1 \in Bits(x (+) y) <=> ~ (i - 1 \in Bits(x) <=> i - 1 \in Bits(y))
    BY <2>1, XorIsDifference
  <2>3. 7 \in Bits(x (+) y) <=> ~ (7 \in Bits(x) <=> 7 \in Bits(y))
    BY XorIsDifference
  <2>4. i \in Bits(xtime(x) (+) xtime(y)) <=> ~ (i \in Bits(xtime(x)) <=> i \in Bits(xtime(y)))
    BY <1>1, XorIsDifference
  <2> QED
    BY <1>1, <2>2, <2>3, <2>4, XtimeBits
<1> QED
  BY <1>1, <1>2, SameBits

\* A row of mix_col, whose operands every row has in an order of its own.
MixRow(s1, s2, s3, s4) == xtime(s1) (+) xtime(s2) (+) s2 (+) s3 (+) s4

(***************************************************************************)
(* A row of mix_col is a byte, and linear in its operands.                 *)
(***************************************************************************)
LEMMA MixRowBytes ==
  ASSUME NEW s1 \in BYTE, NEW s2 \in BYTE, NEW s3 \in BYTE, NEW s4 \in BYTE
  PROVE  /\ MixRow(s1, s2, s3, s4) \in BYTE
         /\ xtime(MixRow(s1, s2, s3, s4)) =
              MixRow(xtime(s1), xtime(s2), xtime(s3), xtime(s4))
<1>1. /\ xtime(s1) \in BYTE /\ xtime(s2) \in BYTE /\ xtime(s3) \in BYTE /\ xtime(s4) \in BYTE
  BY XtimeBits
<1>2. /\ xtime(s1) (+) xtime(s2) \in BYTE
      /\ xtime(s1) (+) xtime(s2) (+) s2 \in BYTE
      /\ xtime(s1) (+) xtime(s2) (+) s2 (+) s3 \in BYTE
      /\ xtime(s1) (+) xtime(s2) (+) s2 (+) s3 (+) s4 \in BYTE
  BY <1>1, XorIsDifference
<1> QED
  BY <1>1, <1>2, XtimeAdditive DEF MixRow

(***************************************************************************)
(* A row of inv_mix_col, applied to the four rows of mix_col, gives back   *)
(* the byte of that row: the seventy-odd terms of shared shifts cancel but *)
(* for one.                                                                *)
(***************************************************************************)
LEMMA InvMixRow ==
  ASSUME NEW s1 \in BYTE, NEW s2 \in BYTE, NEW s3 \in BYTE, NEW s4 \in BYTE
  PROVE  pmul_e(MixRow(s1, s2, s3, s4)) (+) pmul_b(MixRow(s2, s3, s4, s1))
           (+) pmul_d(MixRow(s3, s4, s1, s2)) (+) pmul_9(MixRow(s4, s1, s2, s3)) = s1
<1> DEFINE X(x) == xtime(x)
           XX(x) == xtime(xtime(x))
           XXX(x) == xtime(xtime(xtime(x)))
<1>1. ASSUME NEW t1 \in BYTE, NEW t2 \in BYTE, NEW t3 \in BYTE, NEW t4 \in BYTE
      PROVE  /\ xtime(MixRow(t1, t2, t3, t4)) = MixRow(X(t1), X(t2), X(t3), X(t4))
             /\ xtime(xtime(MixRow(t1, t2, t3, t4))) = MixRow(XX(t1), XX(t2), XX(t3), XX(t4))
             /\ xtime(xtime(xtime(MixRow(t1, t2, t3, t4)))) =
                  MixRow(XXX(t1), XXX(t2), XXX(t3), XXX(t4))
  <2>1. \A x \in BYTE : xtime(x) \in BYTE
    BY XtimeBits
  <2>2. xtime(MixRow(t1, t2, t3, t4)) = MixRow(X(t1), X(t2), X(t3), X(t4))
    BY MixRowBytes
  <2>3. xtime(MixRow(X(t1), X(t2), X(t3), X(t4))) = MixRow(XX(t1), XX(t2), XX(t3), XX(t4))
    BY <2>1, MixRowBytes
  <2>4. xtime(MixRow(XX(t1), XX(t2), XX(t3), XX(t4))) = MixRow(XXX(t1), XXX(t2), XXX(t3), XXX(t4))
    BY <2>1, MixRowBytes
  <2> QED
    BY <2>2, <2>3, <2>4
<1>2. \A x \in {s1, s2, s3, s4} :
        x \in BYTE /\ X(x) \in BYTE /\ XX(x) \in BYTE /\ XXX(x) \in BYTE /\ xtime(XXX(x)) \in BYTE
  BY XtimeBits
<1>3. /\ pmul_e(MixRow(s1, s2, s3, s4)) = MixRow(XXX(s1), XXX(s2), XXX(s3), XXX(s4))
           (+) MixRow(XX(s1), XX(s2), XX(s3), XX(s4)) (+) MixRow(X(s1), X(s2), X(s3), X(s4))
      /\ pmul_b(MixRow(s2, s3, s4, s1)) = MixRow(XXX(s2), XXX(s3), XXX(s4), XXX(s1))
           (+) MixRow(X(s2), X(s3), X(s4), X(s1)) (+) MixRow(s2, s3, s4, s1)
      /\ pmul_d(MixRow(s3, s4, s1, s2)) = MixRow(XXX(s3), XXX(s4), XXX(s1), XXX(s2))
           (+) MixRow(XX(s3), XX(s4), XX(s1), XX(s2)) (+) MixRow(s3, s4, s1, s2)
      /\ pmul_9(MixRow(s4, s1, s2, s3)) = MixRow(XXX(s4), XXX(s1), XXX(s2), XXX(s3))
           (+) MixRow(s4, s1, s2, s3)
  BY <1>1 DEF pmul_e, pmul_b, pmul_d, pmul_9
<1>4. \A x \in {s1, s2, s3, s4} :
        /\ xtime(X(x)) = XX(x) /\ xtime(XX(x)) = XXX(x)
  OBVIOUS
<1> DEFINE XXXX(x) == xtime(XXX(x))
           e == pmul_e(MixRow(s1, s2, s3, s4))
           f == pmul_b(MixRow(s2, s3, s4, s1))
           g == pmul_d(MixRow(s3, s4, s1, s2))
           h == pmul_9(MixRow(s4, s1, s2, s3))
<1>5. /\ e = (XXXX(s1) (+) XXXX(s2) (+) XXX(s2) (+) XXX(s3) (+) XXX(s4))
          (+) (XXX(s1) (+) XXX(s2) (+) XX(s2) (+) XX(s3) (+) XX(s4))
          (+) (XX(s1) (+) XX(s2) (+) X(s2) (+) X(s3) (+) X(s4))
      /\ f = (XXXX(s2) (+) XXXX(s3) (+) XXX(s3) (+) XXX(s4) (+) XXX(s1))
          (+) (XX(s2) (+) XX(s3) (+) X(s3) (+) X(s4) (+) X(s1))
          (+) (X(s2) (+) X(s3) (+) s3 (+) s4 (+) s1)
      /\ g = (XXXX(s3) (+) XXXX(s4) (+) XXX(s4) (+) XXX(s1) (+) XXX(s2))
          (+) (XXX(s3) (+) XXX(s4) (+) XX(s4) (+) XX(s1) (+) XX(s2))
          (+) (X(s3) (+) X(s4) (+) s4 (+) s1 (+) s2)
      /\ h = (XXXX(s4) (+) XXXX(s1) (+) XXX(s1) (+) XXX(s2) (+) XXX(s3))
          (+) (X(s4) (+) X(s1) (+) s1 (+) s2 (+) s3)
  BY <1>3 DEF MixRow
<1>6. \A x \in {s1, s2, s3, s4} : xtime(XXX(x)) = XXXX(x)
  OBVIOUS
<1> HIDE DEF X, XX, XXX, XXXX, e, f, g, h
<1>7. /\ s1 \in BYTE /\ X(s1) \in BYTE /\ XX(s1) \in BYTE /\ XXX(s1) \in BYTE /\ XXXX(s1) \in BYTE
      /\ s2 \in BYTE /\ X(s2) \in BYTE /\ XX(s2) \in BYTE /\ XXX(s2) \in BYTE /\ XXXX(s2) \in BYTE
      /\ s3 \in BYTE /\ X(s3) \in BYTE /\ XX(s3) \in BYTE /\ XXX(s3) \in BYTE /\ XXXX(s3) \in BYTE
      /\ s4 \in BYTE /\ X(s4) \in BYTE /\ XX(s4) \in BYTE /\ XXX(s4) \in BYTE /\ XXXX(s4) \in BYTE
  BY <1>2, <1>6
<1>8. (e (+) f) (+) g (+) h = s1
  <2>1. (e (+) f) (+) g (+) h \in BYTE
    BY <1>5, <1>7, XorIsDifference
  <2>2. ASSUME NEW i \in 0 .. 7
        PROVE  i \in Bits((e (+) f) (+) g (+) h) <=> i \in Bits(s1)
    BY <1>5, <1>7, XorIsDifference
  <2> QED
    BY <1>7, <2>1, <2>2, SameBits
<1> QED
  BY <1>8 DEF e, f, g, h

(***************************************************************************)
(* The four products of inv_mix_col are bytes.                             *)
(***************************************************************************)
LEMMA PmulBytes ==
  ASSUME NEW x \in BYTE
  PROVE  pmul_e(x) \in BYTE /\ pmul_b(x) \in BYTE /\ pmul_d(x) \in BYTE /\ pmul_9(x) \in BYTE
<1> DEFINE two == xtime(x)
           four == xtime(two)
           eight == xtime(four)
<1>1. /\ pmul_e(x) = eight (+) four (+) two /\ pmul_9(x) = eight (+) x
      /\ pmul_d(x) = eight (+) four (+) x /\ pmul_b(x) = eight (+) two (+) x
  BY DEF pmul_e, pmul_9, pmul_d, pmul_b
<1>2. two \in BYTE /\ four \in BYTE /\ eight \in BYTE
  BY XtimeBits
<1> HIDE DEF two, four, eight
<1> QED
  BY <1>1, <1>2, XorIsDifference

(***************************************************************************)
(* inv_mix_col undoes mix_col, for all 2^32 columns; both yield bytes.     *)
(***************************************************************************)
LEMMA ColumnsUndone ==
  ASSUME NEW s1 \in BYTE, NEW s2 \in BYTE, NEW s3 \in BYTE, NEW s4 \in BYTE
  PROVE  /\ mix_col(<<s1, s2, s3, s4>>) \in BYTE \X BYTE \X BYTE \X BYTE
         /\ inv_mix_col(<<s1, s2, s3, s4>>) \in BYTE \X BYTE \X BYTE \X BYTE
         /\ inv_mix_col(mix_col(<<s1, s2, s3, s4>>)) = <<s1, s2, s3, s4>>
<1> DEFINE m1 == MixRow(s1, s2, s3, s4)
           m2 == MixRow(s2, s3, s4, s1)
           m3 == MixRow(s3, s4, s1, s2)
           m4 == MixRow(s4, s1, s2, s3)
<1>1. m1 \in BYTE /\ m2 \in BYTE /\ m3 \in BYTE /\ m4 \in BYTE
  BY MixRowBytes
<1>2. mix_col(<<s1, s2, s3, s4>>) = <<m1, m2, m3, m4>>
  <2> DEFINE x1 == xtime(s1) x2 == xtime(s2) x3 == xtime(s3) x4 == xtime(s4)
  <2>1. x1 \in BYTE /\ x2 \in BYTE /\ x3 \in BYTE /\ x4 \in BYTE
    BY XtimeBits
  <2>2. mix_col(<<s1, s2, s3, s4>>) = <<
           x1 (+) x2 (+) s2 (+) s3 (+) s4,
           s1 (+) x2 (+) x3 (+) s3 (+) s4,
           s1 (+) s2 (+) x3 (+) x4 (+) s4,
           x1 (+) s1 (+) s2 (+) s3 (+) x4 >>
    BY DEF mix_col
  <2>3. /\ m1 = x1 (+) x2 (+) s2 (+) s3 (+) s4 /\ m2 = x2 (+) x3 (+) s3 (+) s4 (+) s1
        /\ m3 = x3 (+) x4 (+) s4 (+) s1 (+) s2 /\ m4 = x4 (+) x1 (+) s1 (+) s2 (+) s3
    BY DEF MixRow
  <2> HIDE DEF x1, x2, x3, x4, m1, m2, m3, m4
  <2>4. m2 = s1 (+) x2 (+) x3 (+) s3 (+) s4
    BY <2>1, <2>3, SameBits, XorIsDifference
  <2>5. m3 = s1 (+) s2 (+) x3 (+) x4 (+) s4
    BY <2>1, <2>3, SameBits, XorIsDifference
  <2>6. m4 = x1 (+) s1 (+) s2 (+) s3 (+) x4
    BY <2>1, <2>3, SameBits, XorIsDifference
  <2> QED
    BY <2>2, <2>3, <2>4, <2>5, <2>6
<1>3. ASSUME NEW t1 \in BYTE, NEW t2 \in BYTE, NEW t3 \in BYTE, NEW t4 \in BYTE
      PROVE  pmul_e(t1) (+) pmul_b(t2) (+) pmul_d(t3) (+) pmul_9(t4) \in BYTE
  BY PmulBytes, XorIsDifference
<1>4. ASSUME NEW t1 \in BYTE, NEW t2 \in BYTE, NEW t3 \in BYTE, NEW t4 \in BYTE
      PROVE  inv_mix_col(<<t1, t2, t3, t4>>) =
               << pmul_e(t1) (+) pmul_b(t2) (+) pmul_d(t3) (+) pmul_9(t4),
                  pmul_e(t2) (+) pmul_b(t3) (+) pmul_d(t4) (+) pmul_9(t1),
                  pmul_e(t3) (+) pmul_b(t4) (+) pmul_d(t1) (+) pmul_9(t2),
                  pmul_e(t4) (+) pmul_b(t1) (+) pmul_d(t2) (+) pmul_9(t3) >>
  <2>1. /\ pmul_e(t1) \in BYTE /\ pmul_b(t1) \in BYTE /\ pmul_d(t1) \in BYTE /\ pmul_9(t1) \in BYTE
        /\ pmul_e(t2) \in BYTE /\ pmul_b(t2) \in BYTE /\ pmul_d(t2) \in BYTE /\ pmul_9(t2) \in BYTE
        /\ pmul_e(t3) \in BYTE /\ pmul_b(t3) \in BYTE /\ pmul_d(t3) \in BYTE /\ pmul_9(t3) \in BYTE
        /\ pmul_e(t4) \in BYTE /\ pmul_b(t4) \in BYTE /\ pmul_d(t4) \in BYTE /\ pmul_9(t4) \in BYTE
    BY PmulBytes
  <2>2. pmul_9(t1) (+) pmul_e(t2) (+) pmul_b(t3) (+) pmul_d(t4) =
          pmul_e(t2) (+) pmul_b(t3) (+) pmul_d(t4) (+) pmul_9(t1)
    BY <2>1, SameBits, XorIsDifference
  <2>3. pmul_d(t1) (+) pmul_9(t2) (+) pmul_e(t3) (+) pmul_b(t4) =
          pmul_e(t3) (+) pmul_b(t4) (+) pmul_d(t1) (+) pmul_9(t2)
    BY <2>1, SameBits, XorIsDifference
  <2>4. pmul_b(t1) (+) pmul_d(t2) (+) pmul_9(t3) (+) pmul_e(t4) =
          pmul_e(t4) (+) pmul_b(t1) (+) pmul_d(t2) (+) pmul_9(t3)
    BY <2>1, SameBits, XorIsDifference
  <2> QED
    BY <2>2, <2>3, <2>4 DEF inv_mix_col
<1> HIDE DEF m1, m2, m3, m4
<1>5. inv_mix_col(<<s1, s2, s3, s4>>) \in BYTE \X BYTE \X BYTE \X BYTE
  BY <1>3, <1>4
<1>6. inv_mix_col(<<m1, m2, m3, m4>>) = <<s1, s2, s3, s4>>
  <2>1. /\ pmul_e(m1) (+) pmul_b(m2) (+) pmul_d(m3) (+) pmul_9(m4) = s1
        /\ pmul_e(m2) (+) pmul_b(m3) (+) pmul_d(m4) (+) pmul_9(m1) = s2
        /\ pmul_e(m3) (+) pmul_b(m4) (+) pmul_d(m1) (+) pmul_9(m2) = s3
        /\ pmul_e(m4) (+) pmul_b(m1) (+) pmul_d(m2) (+) pmul_9(m3) = s4
    BY InvMixRow DEF m1, m2, m3, m4
  <2> QED
    BY <1>1, <1>4, <2>1
<1> QED
  BY <1>1, <1>2, <1>5, <1>6

-----------------------------------------------------------------------------
(***************************************************************************)
(* The S-boxes hold bytes, and the inverse one undoes the other: all of    *)
(* their 256 entries are looked up.                                        *)
(***************************************************************************)
LEMMA SboxUndone ==
  ASSUME NEW b \in BYTE
  PROVE  Sbox(b) \in BYTE /\ InvSbox(b) \in BYTE /\ InvSbox(Sbox(b)) = b
BY DEF Sbox, InvSbox, aes_sbox, aes_inv_sbox, BYTE

(***************************************************************************)
(* Row and Col are the coordinates of the sixteen places.                  *)
(***************************************************************************)
LEMMA Places ==
  ASSUME NEW i \in 0 .. 15
  PROVE  /\ Row(i) \in 0 .. 3 /\ Col(i) \in 0 .. 3 /\ i = 4 * Col(i) + Row(i)
         /\ \A c, r \in 0 .. 3 : 4 * c + r \in 0 .. 15 /\ Row(4 * c + r) = r /\ Col(4 * c + r) = c
BY DEF Row, Col

\* The place that place i of the shifted block is wired to, in either core.
ShiftedPlace(i) == 4 * ShiftedFrom[Row(i) + 1][Col(i) + 1] + Row(i)
InvShiftedPlace(i) == 4 * InvShiftedFrom[Row(i) + 1][Col(i) + 1] + Row(i)

(***************************************************************************)
(* The wiring of the two cores is a rotation of row r by r, to either      *)
(* side.                                                                   *)
(***************************************************************************)
LEMMA ShiftsByRow ==
  ASSUME NEW r \in 0 .. 3, NEW c \in 0 .. 3
  PROVE  /\ ShiftedFrom[r + 1][c + 1] = (c + r) % 4
         /\ InvShiftedFrom[r + 1][c + 1] = (c + 4 - r) % 4
<1>1. r \in {0, 1, 2, 3} /\ c \in {0, 1, 2, 3}
  OBVIOUS
<1> QED
  BY <1>1 DEF ShiftedFrom, InvShiftedFrom

(***************************************************************************)
(* So each place is wired to one place, and back.                          *)
(***************************************************************************)
LEMMA PlacesUndone ==
  ASSUME NEW i \in 0 .. 15
  PROVE  /\ ShiftedPlace(i) \in 0 .. 15
         /\ InvShiftedPlace(i) \in 0 .. 15
         /\ ShiftedPlace(InvShiftedPlace(i)) = i
<1> DEFINE r == Row(i)
           c == Col(i)
           d == (c + 4 - r) % 4
           e == (c + r) % 4
<1>1. r \in 0 .. 3 /\ c \in 0 .. 3 /\ i = 4 * c + r
  BY Places
<1>2. ShiftedPlace(i) = 4 * e + r /\ InvShiftedPlace(i) = 4 * d + r
  BY <1>1, ShiftsByRow DEF ShiftedPlace, InvShiftedPlace
<1> HIDE DEF r, c
<1>3. d \in 0 .. 3 /\ e \in 0 .. 3 /\ (d + r) % 4 = c
  BY <1>1
<1> HIDE DEF d, e
<1>4. Row(4 * d + r) = r /\ Col(4 * d + r) = d /\ 4 * d + r \in 0 .. 15 /\ 4 * e + r \in 0 .. 15
  BY <1>1, <1>3, Places
<1>5. ShiftedPlace(4 * d + r) = 4 * ShiftedFrom[r + 1][d + 1] + r
  BY <1>4 DEF ShiftedPlace
<1>6. ShiftedFrom[r + 1][d + 1] = c
  BY <1>1, <1>3, ShiftsByRow
<1> QED
  BY <1>1, <1>2, <1>4, <1>5, <1>6

(***************************************************************************)
(* The substituted and shifted block is a block, each of its bytes comes   *)
(* from r columns to the right, and the decryption core puts every one     *)
(* back.                                                                   *)
(***************************************************************************)
LEMMA ShiftSubUndone ==
  ASSUME NEW s \in ByteBlock
  PROVE  /\ SubShiftBlock(s) \in ByteBlock
         /\ InvShiftSubBlock(s) \in ByteBlock
         /\ \A i \in 0 .. 15 :
              SubShiftBlock(s)[i] = Sbox(s[4 * ((Col(i) + Row(i)) % 4) + Row(i)])
         /\ InvShiftSubBlock(SubShiftBlock(s)) = s
<1>1. \A i \in 0 .. 15 : s[i] \in BYTE
  BY DEF ByteBlock
<1>2. /\ SubShiftBlock(s) = [i \in 0 .. 15 |-> Sbox(s[ShiftedPlace(i)])]
      /\ InvShiftSubBlock(s) = [i \in 0 .. 15 |-> InvSbox(s[InvShiftedPlace(i)])]
  BY DEF SubShiftBlock, InvShiftSubBlock, ShiftedPlace, InvShiftedPlace
<1>3. SubShiftBlock(s) \in ByteBlock /\ InvShiftSubBlock(s) \in ByteBlock
  <2>1. ASSUME NEW i \in 0 .. 15
        PROVE  Sbox(s[ShiftedPlace(i)]) \in BYTE /\ InvSbox(s[InvShiftedPlace(i)]) \in BYTE
    BY <1>1, PlacesUndone, SboxUndone
  <2> QED
    BY <1>2, <2>1 DEF ByteBlock
<1>4. ASSUME NEW i \in 0 .. 15
      PROVE  SubShiftBlock(s)[i] = Sbox(s[4 * ((Col(i) + Row(i)) % 4) + Row(i)])
  <2>1. ShiftedPlace(i) = 4 * ((Col(i) + Row(i)) % 4) + Row(i)
    BY Places, ShiftsByRow DEF ShiftedPlace
  <2> QED
    BY <1>2, <2>1
<1>5. ASSUME NEW i \in 0 .. 15
      PROVE  InvShiftSubBlock(SubShiftBlock(s))[i] = s[i]
  <2>1. InvShiftSubBlock(SubShiftBlock(s))[i] = InvSbox(SubShiftBlock(s)[InvShiftedPlace(i)])
    BY DEF InvShiftSubBlock, InvShiftedPlace
  <2>2. SubShiftBlock(s)[InvShiftedPlace(i)] = Sbox(s[i])
    BY <1>2, PlacesUndone
  <2> QED
    BY <1>1, <2>1, <2>2, SboxUndone
<1>6. InvShiftSubBlock(SubShiftBlock(s)) = [i \in 0 .. 15 |-> InvShiftSubBlock(SubShiftBlock(s))[i]]
  BY DEF InvShiftSubBlock
<1>7. InvShiftSubBlock(SubShiftBlock(s)) = s
  BY <1>5, <1>6 DEF ByteBlock
<1> QED
  BY <1>3, <1>4, <1>7

(***************************************************************************)
(* The column functions on a whole block, and that one undoes the other.   *)
(***************************************************************************)
LEMMA MixColumnsUndone ==
  ASSUME NEW s \in ByteBlock
  PROVE  /\ MixColumnsBlock(s) \in ByteBlock
         /\ InvMixColumnsBlock(s) \in ByteBlock
         /\ InvMixColumnsBlock(MixColumnsBlock(s)) = s
<1> DEFINE m == MixColumnsBlock(s)
           col(t, c) == <<t[4 * c], t[4 * c + 1], t[4 * c + 2], t[4 * c + 3]>>
           BYTE4 == BYTE \X BYTE \X BYTE \X BYTE
<1>1. ASSUME NEW t
      PROVE  /\ MixColumnsBlock(t) = [i \in 0 .. 15 |-> mix_col(col(t, Col(i)))[Row(i) + 1]]
             /\ InvMixColumnsBlock(t) = [i \in 0 .. 15 |-> inv_mix_col(col(t, Col(i)))[Row(i) + 1]]
  BY Places DEF MixColumnsBlock, InvMixColumnsBlock, ByColumn
<1>2. \A c \in 0 .. 3 : /\ s[4 * c] \in BYTE /\ s[4 * c + 1] \in BYTE
                        /\ s[4 * c + 2] \in BYTE /\ s[4 * c + 3] \in BYTE
  BY DEF ByteBlock
<1>3. \A c \in 0 .. 3 : /\ mix_col(col(s, c)) \in BYTE4
                        /\ inv_mix_col(col(s, c)) \in BYTE4
                        /\ inv_mix_col(mix_col(col(s, c))) = col(s, c)
  BY <1>2, ColumnsUndone
<1>4. \A v \in BYTE4, r \in 0 .. 3 : v[r + 1] \in BYTE
  OBVIOUS
<1>5. MixColumnsBlock(s) \in ByteBlock /\ InvMixColumnsBlock(s) \in ByteBlock
  <2> HIDE DEF col, BYTE4
  <2> QED
    BY <1>1, <1>3, <1>4, Places DEF ByteBlock
<1>6. ASSUME NEW c \in 0 .. 3
      PROVE  col(m, c) = mix_col(col(s, c))
  <2> DEFINE v == mix_col(col(s, c))
  <2>1. ASSUME NEW r \in 0 .. 3
        PROVE  m[4 * c + r] = v[r + 1]
    <3> DEFINE i == 4 * c + r
    <3>1. i \in 0 .. 15 /\ Row(i) = r /\ Col(i) = c
      BY Places
    <3> HIDE DEF i, col
    <3>2. m[i] = mix_col(col(s, Col(i)))[Row(i) + 1]
      BY <1>1, <3>1
    <3> QED
      BY <3>1, <3>2 DEF i
  <2>2. v \in BYTE4
    BY <1>3
  <2> HIDE DEF v, m
  <2>3. m[4 * c] = v[1] /\ m[4 * c + 1] = v[2] /\ m[4 * c + 2] = v[3] /\ m[4 * c + 3] = v[4]
    BY <2>1
  <2>4. v = <<v[1], v[2], v[3], v[4]>>
    BY <2>2
  <2>5. col(m, c) = v
    BY <2>3, <2>4
  <2> QED
    BY <2>5 DEF v
<1>7. ASSUME NEW i \in 0 .. 15
      PROVE  InvMixColumnsBlock(m)[i] = s[i]
  <2>1. InvMixColumnsBlock(m)[i] = inv_mix_col(col(m, Col(i)))[Row(i) + 1]
    BY <1>1
  <2>2. inv_mix_col(col(m, Col(i))) = col(s, Col(i))
    BY <1>3, <1>6, Places
  <2>3. \A c \in 0 .. 3, r \in 0 .. 3 : col(s, c)[r + 1] = s[4 * c + r]
    OBVIOUS
  <2> QED
    BY <2>1, <2>2, <2>3, Places
<1>8. InvMixColumnsBlock(m) = [i \in 0 .. 15 |-> InvMixColumnsBlock(m)[i]]
  BY <1>1
<1>9. InvMixColumnsBlock(m) = s
  BY <1>7, <1>8 DEF ByteBlock
<1> QED
  BY <1>5, <1>9

-----------------------------------------------------------------------------
\* The sum of v over a set of numbers below 15.
Total(v, s) ==
    LET At(i) == IF i \in s THEN v[i] ELSE 0
    IN  At(0) + At(1) + At(2) + At(3) + At(4) + At(5) + At(6) + At(7)
        + At(8) + At(9) + At(10) + At(11) + At(12) + At(13) + At(14)

\* The sums FromBits and FieldTimes ask for: of integers, over exponents.
Summable(v, s) == s \subseteq 0 .. 14 /\ \A i \in s : v[i] \in Int

(***************************************************************************)
(* Taking one element out of the sum.                                      *)
(***************************************************************************)
LEMMA TotalStep ==
  ASSUME NEW v, NEW s, Summable(v, s), NEW j \in s
  PROVE  Total(v, s) \in Int /\ Total(v, s) = v[j] + Total(v, s \ {j})
<1> DEFINE At(i, t) == IF i \in t THEN v[i] ELSE 0
           t == s \ {j}
<1>1. ASSUME NEW i \in 0 .. 14
      PROVE  At(i, s) \in Int /\ At(i, t) = IF i = j THEN 0 ELSE At(i, s)
  BY DEF Summable
<1>2. v[j] = At(j, s)
  BY DEF Summable
<1>3. /\ Total(v, s) = At(0, s) + At(1, s) + At(2, s) + At(3, s) + At(4, s) + At(5, s)
          + At(6, s) + At(7, s) + At(8, s) + At(9, s) + At(10, s) + At(11, s)
          + At(12, s) + At(13, s) + At(14, s)
      /\ Total(v, t) = At(0, t) + At(1, t) + At(2, t) + At(3, t) + At(4, t) + At(5, t)
          + At(6, t) + At(7, t) + At(8, t) + At(9, t) + At(10, t) + At(11, t)
          + At(12, t) + At(13, t) + At(14, t)
  BY DEF Total
<1>4. j \in 0 .. 14
  BY DEF Summable
<1> HIDE DEF At, t
<1> QED
  BY <1>1, <1>2, <1>3, <1>4 DEF t

(***************************************************************************)
(* SumOf, a fold over a set, is the sum written out. Its recursion is a    *)
(* CHOOSE over the subsets of the domain: it is shown to have a solution,  *)
(* and a subset of the smallest size at which that solution differed would *)
(* have an element to take out.                                            *)
(***************************************************************************)
LEMMA SumIsTotal ==
  ASSUME NEW v, Summable(v, DOMAIN v)
  PROVE  SumOf(v) = Total(v, DOMAIN v)
<1> DEFINE D == DOMAIN v
           Step(f) == [s \in SUBSET D |->
                         IF s = {} THEN 0
                         ELSE LET j == CHOOSE j \in s : TRUE IN v[j] + f[s \ {j}]]
           G == [s \in SUBSET D |-> Total(v, s)]
           sum == CHOOSE f : f = Step(f)
           Bad == {s \in SUBSET D : sum[s] # Total(v, s)}
<1>1. SumOf(v) = sum[D]
  BY DEF SumOf, MapThenSumSet, MapThenFoldSet
<1>2. ASSUME NEW s \in SUBSET D, s # {}, NEW f
      PROVE  LET j == CHOOSE j \in s : TRUE IN
             /\ j \in s
             /\ Step(f)[s] = v[j] + f[s \ {j}]
             /\ Total(v, s) = v[j] + Total(v, s \ {j})
  <2> DEFINE j == CHOOSE j \in s : TRUE
  <2>1. j \in s
    BY <1>2
  <2>2. Step(f)[s] = v[j] + f[s \ {j}]
    BY <1>2
  <2>3. Summable(v, s)
    BY DEF Summable
  <2> HIDE DEF j
  <2>4. Total(v, s) = v[j] + Total(v, s \ {j})
    BY <2>1, <2>3, TotalStep
  <2> QED
    BY <2>1, <2>2, <2>4 DEF j
<1>3. Total(v, {}) = 0 /\ \A f : Step(f)[{}] = 0
  BY DEF Total
<1>4. G = Step(G)
  <2>1. ASSUME NEW s \in SUBSET D, s # {}
        PROVE  Step(G)[s] = Total(v, s)
    <3> DEFINE j == CHOOSE j \in s : TRUE
    <3>1. /\ j \in s /\ Step(G)[s] = v[j] + G[s \ {j}]
          /\ Total(v, s) = v[j] + Total(v, s \ {j})
      BY <1>2, <2>1
    <3> HIDE DEF j, Step
    <3> QED
      BY <3>1
  <2>2. \A s \in SUBSET D : Step(G)[s] = G[s]
    <3> HIDE DEF Step
    <3> QED
      BY <1>3, <2>1
  <2> HIDE DEF G
  <2>3. Step(G) = [s \in SUBSET D |-> Step(G)[s]]
    OBVIOUS
  <2>4. G = [s \in SUBSET D |-> G[s]]
    BY DEF G
  <2> HIDE DEF Step
  <2> QED
    BY <2>2, <2>3, <2>4
<1>5. sum = Step(sum)
  <2> HIDE DEF G, Step
  <2> QED
    BY <1>4
<1> HIDE DEF G, sum
<1>6. IsFiniteSet(D) /\ Cardinality(D) \in 0 .. 15
  <2> DEFINE low == 0
             high == 14
             U == low .. high
  <2>1. low \in Int /\ high \in Int /\ ~ (low > high) /\ high - low + 1 = 15
    OBVIOUS
  <2>2. D \in SUBSET U
    BY DEF Summable
  <2> HIDE DEF low, high, D
  <2>3. IsFiniteSet(U) /\ Cardinality(U) = 15
    BY <2>1, FS_Interval
  <2> HIDE DEF U
  <2>4. IsFiniteSet(D) /\ Cardinality(D) <= 15
    BY <2>2, <2>3, FS_Subset
  <2>5. Cardinality(D) \in Nat
    BY <2>4, FS_CardinalityType
  <2> QED
    BY <2>4, <2>5
<1>7. {} \notin Bad
  <2>1. sum[{}] = 0
    <3> HIDE DEF Step
    <3> QED
      BY <1>3, <1>5
  <2> QED
    BY <1>3, <2>1
<1>8. ASSUME NEW s \in Bad
      PROVE  \E t \in Bad : Cardinality(s) \in Nat \ {0} /\ Cardinality(t) = Cardinality(s) - 1
  <2> DEFINE j == CHOOSE j \in s : TRUE
             t == s \ {j}
  <2>1. s \in SUBSET D /\ s # {} /\ sum[s] # Total(v, s)
    BY <1>7
  <2>2. j \in s /\ sum[s] = v[j] + sum[t] /\ Total(v, s) = v[j] + Total(v, t)
    <3>1. sum[s] = Step(sum)[s]
      <4> HIDE DEF Step
      <4> QED
        BY <1>5
    <3> HIDE DEF Step
    <3> QED
      BY <1>2, <2>1, <3>1
  <2> HIDE DEF j
  <2>3. t \in Bad
    BY <2>1, <2>2
  <2>4. IsFiniteSet(s)
    BY <1>6, <2>1, FS_Subset
  <2>5. Cardinality(s) \in Nat /\ Cardinality(s) # 0 /\ Cardinality(t) = Cardinality(s) - 1
    BY <2>1, <2>2, <2>4, FS_CardinalityType, FS_EmptySet, FS_RemoveElement
  <2> QED
    BY <2>3, <2>5
<1> DEFINE P(n) == \A s \in Bad : Cardinality(s) # n
<1>9. P(0)
  BY <1>8
<1>10. ASSUME NEW n \in 1 .. 15, P(n - 1)
       PROVE  P(n)
  <2> SUFFICES ASSUME NEW s \in Bad, Cardinality(s) = n
               PROVE  FALSE
    OBVIOUS
  <2>1. PICK t \in Bad : Cardinality(t) = Cardinality(s) - 1
    BY <1>8
  <2> QED
    BY <1>10, <2>1
<1> HIDE DEF P
<1>11. P(0) /\ P(1) /\ P(2) /\ P(3) /\ P(4) /\ P(5) /\ P(6) /\ P(7)
  BY <1>9, <1>10
<1>12. P(8) /\ P(9) /\ P(10) /\ P(11) /\ P(12) /\ P(13) /\ P(14) /\ P(15)
  BY <1>10, <1>11
<1>13. \A n \in 0 .. 15 : P(n)
  BY <1>11, <1>12
<1>14. P(Cardinality(D))
  <2> HIDE DEF D
  <2> QED
    BY <1>6, <1>13
<1>15. D \notin Bad
  BY <1>14 DEF P
<1> QED
  BY <1>1, <1>15

\* The polynomials of degree below 15: products of bytes, before they are
\* reduced.
WORD == 0 .. 32767

WordOf(w) ==
    w[0] + 2 * w[1] + 4 * w[2] + 8 * w[3] + 16 * w[4] + 32 * w[5] + 64 * w[6] + 128 * w[7]
    + 256 * w[8] + 512 * w[9] + 1024 * w[10] + 2048 * w[11] + 4096 * w[12]
    + 8192 * w[13] + 16384 * w[14]

(***************************************************************************)
(* FromBits on eight bits: the byte with these bits.                       *)
(***************************************************************************)
LEMMA ByteFromBits ==
  ASSUME NEW w \in [0 .. 7 -> Bit]
  PROVE  /\ FromBits(w) \in BYTE
         /\ \A i \in 0 .. 7 : BitOf(FromBits(w), i) = w[i]
<1> DEFINE v == [i \in DOMAIN w |-> 2^i * w[i]]
<1>1. /\ 2^0 = 1 /\ 2^1 = 2 /\ 2^2 = 4 /\ 2^3 = 8 /\ 2^4 = 16 /\ 2^5 = 32 /\ 2^6 = 64 /\ 2^7 = 128
  OBVIOUS
<1>2. /\ w[0] \in Bit /\ w[1] \in Bit /\ w[2] \in Bit /\ w[3] \in Bit
      /\ w[4] \in Bit /\ w[5] \in Bit /\ w[6] \in Bit /\ w[7] \in Bit
  OBVIOUS
<1>3. /\ v[0] = w[0] /\ v[1] = 2 * w[1] /\ v[2] = 4 * w[2] /\ v[3] = 8 * w[3]
      /\ v[4] = 16 * w[4] /\ v[5] = 32 * w[5] /\ v[6] = 64 * w[6] /\ v[7] = 128 * w[7]
  BY <1>1, <1>2 DEF Bit
<1>4. DOMAIN v = 0 .. 7
  OBVIOUS
<1>5. FromBits(w) = SumOf(v)
  BY DEF FromBits
<1> HIDE DEF v
<1>6. \A i \in 0 .. 7 : i \in {0, 1, 2, 3, 4, 5, 6, 7}
  OBVIOUS
<1>7. Summable(v, DOMAIN v)
  <2>1. /\ v[0] \in Int /\ v[1] \in Int /\ v[2] \in Int /\ v[3] \in Int
        /\ v[4] \in Int /\ v[5] \in Int /\ v[6] \in Int /\ v[7] \in Int
    BY <1>2, <1>3 DEF Bit
  <2>2. \A i \in 0 .. 7 : v[i] \in Int
    BY <1>6, <2>1
  <2> QED
    BY <1>4, <2>2 DEF Summable
<1>8. FromBits(w) = Total(v, 0 .. 7)
  BY <1>4, <1>5, <1>7, SumIsTotal
<1>9. FromBits(w) = ByteOf(w[7], w[6], w[5], w[4], w[3], w[2], w[1], w[0])
  BY <1>2, <1>3, <1>8 DEF Total, ByteOf, Bit
<1> DEFINE n == FromBits(w)
<1>10. /\ n \in BYTE
       /\ BitOf(n, 0) = w[0] /\ BitOf(n, 1) = w[1] /\ BitOf(n, 2) = w[2] /\ BitOf(n, 3) = w[3]
       /\ BitOf(n, 4) = w[4] /\ BitOf(n, 5) = w[5] /\ BitOf(n, 6) = w[6] /\ BitOf(n, 7) = w[7]
  BY <1>2, <1>9, ByteOfBits
<1> HIDE DEF n
<1>11. \A i \in {0, 1, 2, 3, 4, 5, 6, 7} : BitOf(n, i) = w[i]
  BY <1>10
<1> QED
  BY <1>6, <1>10, <1>11 DEF n

(***************************************************************************)
(* The bits of a number below 2^15, without the powers of two.             *)
(***************************************************************************)
LEMMA BitOfWord ==
  ASSUME NEW x \in WORD
  PROVE  /\ BitOf(x, 0) = x % 2 /\ BitOf(x, 1) = (x \div 2) % 2
         /\ BitOf(x, 2) = (x \div 4) % 2 /\ BitOf(x, 3) = (x \div 8) % 2
         /\ BitOf(x, 4) = (x \div 16) % 2 /\ BitOf(x, 5) = (x \div 32) % 2
         /\ BitOf(x, 6) = (x \div 64) % 2 /\ BitOf(x, 7) = (x \div 128) % 2
         /\ BitOf(x, 8) = (x \div 256) % 2 /\ BitOf(x, 9) = (x \div 512) % 2
         /\ BitOf(x, 10) = (x \div 1024) % 2 /\ BitOf(x, 11) = (x \div 2048) % 2
         /\ BitOf(x, 12) = (x \div 4096) % 2 /\ BitOf(x, 13) = (x \div 8192) % 2
         /\ BitOf(x, 14) = (x \div 16384) % 2
BY DEF BitOf, WORD

(***************************************************************************)
(* Such a number is cut at bit 8 into two bytes.                           *)
(***************************************************************************)
LEMMA WordInTwo ==
  ASSUME NEW h \in BYTE, h < 128, NEW l \in BYTE
  PROVE  LET n == 256 * h + l IN
         /\ n \in WORD
         /\ \A i \in 0 .. 7 : BitOf(n, i) = BitOf(l, i)
         /\ \A i \in 0 .. 6 : BitOf(n, i + 8) = BitOf(h, i)
<1> DEFINE n == 256 * h + l
<1>1. n \in WORD
  BY DEF WORD, BYTE
<1>2. /\ n % 2 = l % 2 /\ (n \div 2) % 2 = (l \div 2) % 2
      /\ (n \div 4) % 2 = (l \div 4) % 2 /\ (n \div 8) % 2 = (l \div 8) % 2
  BY DEF BYTE
<1>3. /\ (n \div 16) % 2 = (l \div 16) % 2 /\ (n \div 32) % 2 = (l \div 32) % 2
      /\ (n \div 64) % 2 = (l \div 64) % 2 /\ (n \div 128) % 2 = (l \div 128) % 2
  BY DEF BYTE
<1>4. n \div 256 = h
  BY DEF BYTE
<1>5. /\ n \div 512 = h \div 2 /\ n \div 1024 = h \div 4 /\ n \div 2048 = h \div 8
      /\ n \div 4096 = h \div 16 /\ n \div 8192 = h \div 32 /\ n \div 16384 = h \div 64
  BY DEF BYTE
<1> HIDE DEF n
<1>6. /\ BitOf(n, 0) = BitOf(l, 0) /\ BitOf(n, 1) = BitOf(l, 1)
      /\ BitOf(n, 2) = BitOf(l, 2) /\ BitOf(n, 3) = BitOf(l, 3)
      /\ BitOf(n, 4) = BitOf(l, 4) /\ BitOf(n, 5) = BitOf(l, 5)
      /\ BitOf(n, 6) = BitOf(l, 6) /\ BitOf(n, 7) = BitOf(l, 7)
  BY <1>1, <1>2, <1>3, BitOfNumber, BitOfWord
<1>7. /\ BitOf(n, 8) = BitOf(h, 0) /\ BitOf(n, 9) = BitOf(h, 1)
      /\ BitOf(n, 10) = BitOf(h, 2) /\ BitOf(n, 11) = BitOf(h, 3)
      /\ BitOf(n, 12) = BitOf(h, 4) /\ BitOf(n, 13) = BitOf(h, 5)
      /\ BitOf(n, 14) = BitOf(h, 6)
  BY <1>1, <1>4, <1>5, BitOfNumber, BitOfWord
<1>8. /\ \A i \in {0, 1, 2, 3, 4, 5, 6, 7} : BitOf(n, i) = BitOf(l, i)
      /\ \A i \in {0, 1, 2, 3, 4, 5, 6} : BitOf(n, i + 8) = BitOf(h, i)
  BY <1>6, <1>7
<1>9. /\ \A i \in 0 .. 7 : i \in {0, 1, 2, 3, 4, 5, 6, 7}
      /\ \A i \in 0 .. 6 : i \in {0, 1, 2, 3, 4, 5, 6}
  OBVIOUS
<1>10. /\ n \in WORD
       /\ \A i \in 0 .. 7 : BitOf(n, i) = BitOf(l, i)
       /\ \A i \in 0 .. 6 : BitOf(n, i + 8) = BitOf(h, i)
  BY <1>1, <1>8, <1>9
<1> QED
  BY <1>10 DEF n

\* A byte whose highest bit is clear is below 128.
LEMMA SevenBits ==
  ASSUME NEW b6, NEW b5, NEW b4, NEW b3, NEW b2, NEW b1, NEW b0,
         {b6, b5, b4, b3, b2, b1, b0} \subseteq Bit
  PROVE  ByteOf(0, b6, b5, b4, b3, b2, b1, b0) < 128
<1>1. \A b \in Bit : b \in Int /\ b =< 1
  BY DEF Bit
<1>2. /\ b6 \in Int /\ b5 \in Int /\ b4 \in Int /\ b3 \in Int /\ b2 \in Int /\ b1 \in Int /\ b0 \in Int
      /\ b6 =< 1 /\ b5 =< 1 /\ b4 =< 1 /\ b3 =< 1 /\ b2 =< 1 /\ b1 =< 1 /\ b0 =< 1
  BY <1>1
<1> QED
  BY <1>2 DEF ByteOf

(***************************************************************************)
(* FromBits on fifteen bits.                                               *)
(***************************************************************************)
LEMMA WordFromBits ==
  ASSUME NEW w \in [0 .. 14 -> Bit]
  PROVE  /\ FromBits(w) \in WORD
         /\ \A i \in 0 .. 14 : BitOf(FromBits(w), i) = w[i]
<1> DEFINE v == [i \in DOMAIN w |-> 2^i * w[i]]
<1>1. /\ 2^0 = 1 /\ 2^1 = 2 /\ 2^2 = 4 /\ 2^3 = 8 /\ 2^4 = 16 /\ 2^5 = 32 /\ 2^6 = 64 /\ 2^7 = 128
      /\ 2^8 = 256 /\ 2^9 = 512 /\ 2^10 = 1024 /\ 2^11 = 2048 /\ 2^12 = 4096
      /\ 2^13 = 8192 /\ 2^14 = 16384
  OBVIOUS
<1>2. /\ w[0] \in Bit /\ w[1] \in Bit /\ w[2] \in Bit /\ w[3] \in Bit
      /\ w[4] \in Bit /\ w[5] \in Bit /\ w[6] \in Bit /\ w[7] \in Bit
      /\ w[8] \in Bit /\ w[9] \in Bit /\ w[10] \in Bit /\ w[11] \in Bit
      /\ w[12] \in Bit /\ w[13] \in Bit /\ w[14] \in Bit
  OBVIOUS
<1> DEFINE Integer(i) == w[i] \in Int
<1>2a. /\ Integer(0) /\ Integer(1) /\ Integer(2) /\ Integer(3) /\ Integer(4)
       /\ Integer(5) /\ Integer(6) /\ Integer(7) /\ Integer(8) /\ Integer(9)
       /\ Integer(10) /\ Integer(11) /\ Integer(12) /\ Integer(13) /\ Integer(14)
  <2>1. Bit \subseteq Int
    BY DEF Bit
  <2> QED
    BY <1>2, <2>1
<1>3. /\ v[0] = w[0] /\ v[1] = 2 * w[1] /\ v[2] = 4 * w[2] /\ v[3] = 8 * w[3]
      /\ v[4] = 16 * w[4] /\ v[5] = 32 * w[5] /\ v[6] = 64 * w[6] /\ v[7] = 128 * w[7]
      /\ v[8] = 256 * w[8] /\ v[9] = 512 * w[9] /\ v[10] = 1024 * w[10] /\ v[11] = 2048 * w[11]
      /\ v[12] = 4096 * w[12] /\ v[13] = 8192 * w[13] /\ v[14] = 16384 * w[14]
  BY <1>1, <1>2a
<1>4. DOMAIN v = 0 .. 14
  OBVIOUS
<1>5. FromBits(w) = SumOf(v)
  BY DEF FromBits
<1> HIDE DEF v
<1>6. \A i \in 0 .. 14 : i \in {0, 1, 2, 3, 4, 5, 6, 7, 8, 9, 10, 11, 12, 13, 14}
  OBVIOUS
<1>7. Summable(v, DOMAIN v)
  <2>1. \A i \in {0, 1, 2, 3, 4, 5, 6, 7, 8, 9, 10, 11, 12, 13, 14} : v[i] \in Int
    BY <1>2a, <1>3
  <2> QED
    BY <1>4, <1>6, <2>1 DEF Summable
<1>8. FromBits(w) = Total(v, 0 .. 14)
  BY <1>4, <1>5, <1>7, SumIsTotal
<1>9. FromBits(w) = WordOf(w)
  <2>1. v[0] + v[1] + v[2] + v[3] + v[4] + v[5] + v[6] + v[7] + v[8] + v[9]
        + v[10] + v[11] + v[12] + v[13] + v[14] = WordOf(w)
    BY <1>3, <1>2a DEF WordOf
  <2> QED
    BY <1>8, <2>1 DEF Total
<1> DEFINE n == FromBits(w)
           h == ByteOf(0, w[14], w[13], w[12], w[11], w[10], w[9], w[8])
           l == ByteOf(w[7], w[6], w[5], w[4], w[3], w[2], w[1], w[0])
<1>10. n = 256 * h + l
  BY <1>2a, <1>9 DEF WordOf, ByteOf
<1>11. h < 128
  BY <1>2, SevenBits
<1> HIDE DEF n
<1>12. /\ h \in BYTE
       /\ BitOf(h, 0) = w[8] /\ BitOf(h, 1) = w[9] /\ BitOf(h, 2) = w[10] /\ BitOf(h, 3) = w[11]
       /\ BitOf(h, 4) = w[12] /\ BitOf(h, 5) = w[13] /\ BitOf(h, 6) = w[14]
  <2>1. 0 \in Bit
    BY DEF Bit
  <2> QED
    BY <1>2, <2>1, ByteOfBits
<1>13. /\ l \in BYTE
       /\ BitOf(l, 0) = w[0] /\ BitOf(l, 1) = w[1] /\ BitOf(l, 2) = w[2] /\ BitOf(l, 3) = w[3]
       /\ BitOf(l, 4) = w[4] /\ BitOf(l, 5) = w[5] /\ BitOf(l, 6) = w[6] /\ BitOf(l, 7) = w[7]
  BY <1>2, ByteOfBits
<1> HIDE DEF h, l
<1>14. /\ n \in WORD
       /\ \A i \in 0 .. 7 : BitOf(n, i) = BitOf(l, i)
       /\ \A i \in 0 .. 6 : BitOf(n, i + 8) = BitOf(h, i)
  BY <1>10, <1>11, <1>12, <1>13, WordInTwo
<1>15. /\ BitOf(n, 8) = w[8] /\ BitOf(n, 9) = w[9] /\ BitOf(n, 10) = w[10]
       /\ BitOf(n, 11) = w[11] /\ BitOf(n, 12) = w[12] /\ BitOf(n, 13) = w[13]
       /\ BitOf(n, 14) = w[14]
  <2>1. /\ BitOf(n, 0 + 8) = w[8] /\ BitOf(n, 1 + 8) = w[9] /\ BitOf(n, 2 + 8) = w[10]
        /\ BitOf(n, 3 + 8) = w[11] /\ BitOf(n, 4 + 8) = w[12] /\ BitOf(n, 5 + 8) = w[13]
        /\ BitOf(n, 6 + 8) = w[14]
    BY <1>12, <1>14
  <2> QED
    BY <2>1
<1>16. \A i \in {0, 1, 2, 3, 4, 5, 6, 7, 8, 9, 10, 11, 12, 13, 14} : BitOf(n, i) = w[i]
  BY <1>13, <1>14, <1>15
<1> QED
  BY <1>6, <1>14, <1>16 DEF n

\* The exponents of a polynomial of degree below 15.
WordBits(q) == {i \in 0 .. 14 : BitOf(q, i) = 1}

(***************************************************************************)
(* The addition of the field is the exclusive or of the RTL.               *)
(***************************************************************************)
LEMMA FieldAddIsXor ==
  ASSUME NEW x \in BYTE, NEW y \in BYTE
  PROVE  FieldAdd(x, y) = x (+) y
<1> DEFINE w == [i \in 0 .. 7 |-> (BitOf(x, i) + BitOf(y, i)) % 2]
<1>1. w \in [0 .. 7 -> Bit]
  BY BitsOfByte DEF Bit
<1>2. FieldAdd(x, y) = FromBits(w)
  BY DEF FieldAdd
<1>3. \A i \in 0 .. 7 : w[i] = BitOf(x (+) y, i)
  BY XorBits
<1> HIDE DEF w
<1>4. /\ FromBits(w) \in BYTE
      /\ \A i \in 0 .. 7 : i \in Bits(FromBits(w)) <=> i \in Bits(x (+) y)
  BY <1>1, <1>3, ByteFromBits DEF Bits
<1> QED
  BY <1>2, <1>4, XorBits, SameBits

\* What Modulo subtracts for the exponent k, and its step.
Minus(q, k) ==
    FromBits([i \in 0 .. 14 |-> (BitOf(q, i) + BitOf(283 * 2^(k - 8), i)) % 2])

Reduced(q, k) == IF BitOf(q, k) = 1 THEN Minus(q, k) ELSE q

(***************************************************************************)
(* The recursion of Modulo, unrolled from the highest exponent down.       *)
(***************************************************************************)
LEMMA ModuloSteps ==
  ASSUME NEW q
  PROVE  Modulo(q) = Reduced(Reduced(Reduced(Reduced(Reduced(Reduced(Reduced(
                       q, 14), 13), 12), 11), 10), 9), 8)
<1> DEFINE Step(r) == [k \in 8 .. 15 |-> IF k = 15 THEN q ELSE Reduced(r[k + 1], k)]
           h14 == Reduced(q, 14)
           h13 == Reduced(h14, 13)
           h12 == Reduced(h13, 12)
           h11 == Reduced(h12, 11)
           h10 == Reduced(h11, 10)
           h9 == Reduced(h10, 9)
           h8 == Reduced(h9, 8)
           f == [k \in 8 .. 15 |->
                   CASE k = 15 -> q [] k = 14 -> h14 [] k = 13 -> h13 [] k = 12 -> h12
                     [] k = 11 -> h11 [] k = 10 -> h10 [] k = 9 -> h9 [] OTHER -> h8]
           r == CHOOSE r : r = Step(r)
<1>1. Modulo(q) = r[8]
  BY DEF Modulo, Reduced, Minus
<1>2. /\ f[15] = q /\ f[14] = h14 /\ f[13] = h13 /\ f[12] = h12
      /\ f[11] = h11 /\ f[10] = h10 /\ f[9] = h9 /\ f[8] = h8
  OBVIOUS
<1>3. /\ h14 = Reduced(q, 14) /\ h13 = Reduced(h14, 13) /\ h12 = Reduced(h13, 12)
      /\ h11 = Reduced(h12, 11) /\ h10 = Reduced(h11, 10) /\ h9 = Reduced(h10, 9)
      /\ h8 = Reduced(h9, 8)
  OBVIOUS
<1>4. f = [k \in 8 .. 15 |-> f[k]]
  OBVIOUS
<1> HIDE DEF f, h14, h13, h12, h11, h10, h9, h8
<1>5. \A k \in 8 .. 15 : k \in {8, 9, 10, 11, 12, 13, 14, 15}
  OBVIOUS
<1>6. \A k \in {8, 9, 10, 11, 12, 13, 14, 15} :
        f[k] = IF k = 15 THEN q ELSE Reduced(f[k + 1], k)
  BY <1>2, <1>3
<1>7. f = Step(f)
  BY <1>4, <1>5, <1>6
<1>8. r = Step(r)
  <2> HIDE DEF Step
  <2> QED
    BY <1>7
<1>9. /\ r[15] = q /\ r[14] = Reduced(r[15], 14) /\ r[13] = Reduced(r[14], 13)
      /\ r[12] = Reduced(r[13], 12) /\ r[11] = Reduced(r[12], 11)
      /\ r[10] = Reduced(r[11], 10) /\ r[9] = Reduced(r[10], 9) /\ r[8] = Reduced(r[9], 8)
  <2> HIDE DEF r
  <2>1. \A k \in 8 .. 15 : r[k] = IF k = 15 THEN q ELSE Reduced(r[k + 1], k)
    BY <1>8
  <2> HIDE DEF Step
  <2>2. /\ r[14] = Reduced(r[14 + 1], 14) /\ r[13] = Reduced(r[13 + 1], 13)
        /\ r[12] = Reduced(r[12 + 1], 12) /\ r[11] = Reduced(r[11 + 1], 11)
        /\ r[10] = Reduced(r[10 + 1], 10) /\ r[9] = Reduced(r[9 + 1], 9)
        /\ r[8] = Reduced(r[8 + 1], 8) /\ r[15] = q
    BY <2>1
  <2> QED
    BY <2>2
<1> HIDE DEF r
<1> QED
  BY <1>1, <1>9

(***************************************************************************)
(* One step of the division by x^8 + x^4 + x^3 + x + 1, shifted up by k -  *)
(* 8.                                                                      *)
(***************************************************************************)
LEMMA ReducedBits ==
  ASSUME NEW q, q \in WORD, NEW k \in {8, 9, 10}
  PROVE  /\ Reduced(q, k) \in WORD
         /\ \A i \in 0 .. 14 :
              i \in WordBits(Reduced(q, k)) <=>
                ~ (i \in WordBits(q) <=>
                     k \in WordBits(q) /\ i - (k - 8) \in {0, 1, 3, 4, 8})
<1> DEFINE m == 283 * 2^(k - 8)
           w == [i \in 0 .. 14 |-> (BitOf(q, i) + BitOf(m, i)) % 2]
<1>1. m \in WORD /\ \A i \in 0 .. 14 :
        BitOf(m, i) = IF i - (k - 8) \in {0, 1, 3, 4, 8} THEN 1 ELSE 0
  <2>1. \A n \in {283, 566, 1132} : n \in WORD
    BY DEF WORD
  <2>2. \A i \in 0 .. 14 : i \in {0, 1, 2, 3, 4, 5, 6, 7, 8, 9, 10, 11, 12, 13, 14}
    OBVIOUS
  <2>3. \A i \in {0, 1, 2, 3, 4, 5, 6, 7, 8, 9, 10, 11, 12, 13, 14} :
          BitOf(283, i) = IF i \in {0, 1, 3, 4, 8} THEN 1 ELSE 0
    BY <2>1, BitOfWord
  <2>4. \A i \in {0, 1, 2, 3, 4, 5, 6, 7, 8, 9, 10, 11, 12, 13, 14} :
          BitOf(566, i) = IF i - 1 \in {0, 1, 3, 4, 8} THEN 1 ELSE 0
    BY <2>1, BitOfWord
  <2>5. \A i \in {0, 1, 2, 3, 4, 5, 6, 7, 8, 9, 10, 11, 12, 13, 14} :
          BitOf(1132, i) = IF i - 2 \in {0, 1, 3, 4, 8} THEN 1 ELSE 0
    BY <2>1, BitOfWord
  <2>6. CASE k = 8
    <3>1. m = 283
      BY <2>6
    <3> QED
      BY <2>1, <2>2, <2>3, <2>6, <3>1
  <2>7. CASE k = 9
    <3>1. m = 566
      BY <2>7
    <3> QED
      BY <2>1, <2>2, <2>4, <2>7, <3>1
  <2>8. CASE k = 10
    <3>1. m = 1132
      BY <2>8
    <3> QED
      BY <2>1, <2>2, <2>5, <2>8, <3>1
  <2> QED
    BY <2>6, <2>7, <2>8
<1>2. Minus(q, k) = FromBits(w)
  BY DEF Minus
<1> HIDE DEF m
<1>3. \A i \in 0 .. 14 : BitOf(q, i) \in {0, 1}
  <2>1. \A i \in 0 .. 14 : i \in {0, 1, 2, 3, 4, 5, 6, 7, 8, 9, 10, 11, 12, 13, 14}
    OBVIOUS
  <2>2. \A n \in Nat : n % 2 \in {0, 1}
    OBVIOUS
  <2>3. \A n \in Nat \ {0} : q \div n \in Nat
    BY DEF WORD
  <2>4. q \in Nat
    BY DEF WORD
  <2>5. \A i \in {0, 1, 2, 3, 4, 5, 6, 7, 8, 9, 10, 11, 12, 13, 14} : BitOf(q, i) \in {0, 1}
    BY <2>2, <2>3, <2>4, BitOfWord
  <2> QED
    BY <2>1, <2>5
<1>4. ASSUME NEW i \in 0 .. 14
      PROVE  w[i] \in Bit /\ (w[i] = 1 <=> ~ (BitOf(q, i) = 1 <=> i - (k - 8) \in {0, 1, 3, 4, 8}))
  <2>1. w[i] = (BitOf(q, i) + BitOf(m, i)) % 2
    OBVIOUS
  <2>2. BitOf(m, i) = IF i - (k - 8) \in {0, 1, 3, 4, 8} THEN 1 ELSE 0
    BY <1>1
  <2> HIDE DEF w
  <2> QED
    BY <1>3, <2>1, <2>2 DEF Bit
<1>5. w \in [0 .. 14 -> Bit]
  BY <1>4
<1> HIDE DEF w
<1>6. /\ Minus(q, k) \in WORD
      /\ \A i \in 0 .. 14 : i \in WordBits(Minus(q, k)) <=>
           ~ (i \in WordBits(q) <=> i - (k - 8) \in {0, 1, 3, 4, 8})
  BY <1>2, <1>4, <1>5, WordFromBits DEF WordBits
<1>7. k \in WordBits(q) <=> BitOf(q, k) = 1
  BY DEF WordBits
<1> QED
  BY <1>6, <1>7 DEF Reduced

\* The exponents of the product, before it is reduced, with a polynomial of degree below 4.
InProduct(c, b, k) ==
    ~ (~ ((0 \in Bits(c) /\ k \in Bits(b)) <=> (1 \in Bits(c) /\ k - 1 \in Bits(b)))
       <=> ~ ((2 \in Bits(c) /\ k - 2 \in Bits(b)) <=> (3 \in Bits(c) /\ k - 3 \in Bits(b))))

\* The coefficient of x^k in the product of two bytes, as FieldTimes counts it.
Coefficient(c, b, k) ==
    SumOf([i \in {i \in 0 .. 7 : k - i \in 0 .. 7} |-> BitOf(c, i) * BitOf(b, k - i)])

(***************************************************************************)
(* A number below 16 is a polynomial of degree below 4.                    *)
(***************************************************************************)
LEMMA NibbleHasNoHighBits ==
  ASSUME NEW c \in 0 .. 15
  PROVE  /\ c \in BYTE
         /\ BitOf(c, 4) = 0 /\ BitOf(c, 5) = 0 /\ BitOf(c, 6) = 0 /\ BitOf(c, 7) = 0
<1>1. c \in BYTE
  BY DEF BYTE
<1>2. /\ (c \div 16) % 2 = 0 /\ (c \div 32) % 2 = 0
      /\ (c \div 64) % 2 = 0 /\ (c \div 128) % 2 = 0
  OBVIOUS
<1> QED
  BY <1>1, <1>2, BitOfNumber

(***************************************************************************)
(* The coefficient of x^k in a product is the parity of the pairs of       *)
(* exponents that sum to k.                                                *)
(***************************************************************************)
LEMMA CoefficientBit ==
  ASSUME NEW c \in 0 .. 15, NEW b \in BYTE, NEW k \in 0 .. 14
  PROVE  /\ Coefficient(c, b, k) % 2 \in Bit
         /\ Coefficient(c, b, k) % 2 = 1 <=> InProduct(c, b, k)
<1> DEFINE D == {i \in 0 .. 7 : k - i \in 0 .. 7}
           v == [i \in D |-> BitOf(c, i) * BitOf(b, k - i)]
           T(i) == IF i \in Bits(c) /\ k - i \in Bits(b) THEN 1 ELSE 0
<1>1. Coefficient(c, b, k) = SumOf(v)
  BY DEF Coefficient
<1>2. DOMAIN v = D
  OBVIOUS
<1>3. ASSUME NEW i \in D
      PROVE  v[i] = T(i)
  <2>1. /\ i \in 0 .. 7 /\ k - i \in 0 .. 7
    OBVIOUS
  <2>2. v[i] = BitOf(c, i) * BitOf(b, k - i)
    OBVIOUS
  <2>3. BitOf(c, i) \in {0, 1} /\ BitOf(b, k - i) \in {0, 1}
    BY <2>1, BitsOfByte, NibbleHasNoHighBits DEF Bit
  <2> HIDE DEF v, D
  <2> QED
    BY <2>1, <2>2, <2>3 DEF Bits
<1>4. ASSUME NEW i \in 0 .. 7, i \notin D
      PROVE  T(i) = 0
  BY <1>4 DEF Bits
<1>5. \A i \in 0 .. 7 : T(i) \in {0, 1}
  OBVIOUS
<1>6. T(4) = 0 /\ T(5) = 0 /\ T(6) = 0 /\ T(7) = 0
  BY NibbleHasNoHighBits DEF Bits
<1>7. Summable(v, D)
  <2> HIDE DEF v, T
  <2> QED
    BY <1>3, <1>5 DEF Summable
<1>8. SumOf(v) = Total(v, D)
  BY <1>2, <1>7, SumIsTotal
<1> DEFINE At(i) == IF i \in D THEN v[i] ELSE 0
<1>9. \A i \in 0 .. 7 : At(i) = T(i)
  <2> HIDE DEF v, T, D
  <2> QED
    BY <1>3, <1>4
<1>10. \A i \in 8 .. 14 : At(i) = 0
  OBVIOUS
<1>11. Total(v, D) = At(0) + At(1) + At(2) + At(3) + At(4) + At(5) + At(6) + At(7)
         + At(8) + At(9) + At(10) + At(11) + At(12) + At(13) + At(14)
  BY DEF Total
<1>12. InProduct(c, b, k) <=>
         ~ (~ (T(0) = 1 <=> T(1) = 1) <=> ~ (T(2) = 1 <=> T(3) = 1))
  BY DEF InProduct
<1> HIDE DEF At, T, D, v
<1>13. Total(v, D) = T(0) + T(1) + T(2) + T(3)
  <2>1. T(0) \in Int /\ T(1) \in Int /\ T(2) \in Int /\ T(3) \in Int
    BY <1>5
  <2> QED
    BY <1>6, <1>9, <1>10, <1>11, <2>1
<1>14. T(0) \in {0, 1} /\ T(1) \in {0, 1} /\ T(2) \in {0, 1} /\ T(3) \in {0, 1}
  BY <1>5
<1>15. Coefficient(c, b, k) = T(0) + T(1) + T(2) + T(3)
  BY <1>1, <1>8, <1>13
<1> QED
  BY <1>12, <1>14, <1>15 DEF Bit

(***************************************************************************)
(* No exponent of 8 or more is left: the word is a byte.                   *)
(***************************************************************************)
LEMMA LowWordIsByte ==
  ASSUME NEW q \in WORD, \A i \in 8 .. 14 : i \notin WordBits(q)
  PROVE  q \in BYTE /\ \A i \in 0 .. 7 : i \in Bits(q) <=> i \in WordBits(q)
<1>1. /\ BitOf(q, 8) # 1 /\ BitOf(q, 9) # 1 /\ BitOf(q, 10) # 1 /\ BitOf(q, 11) # 1
      /\ BitOf(q, 12) # 1 /\ BitOf(q, 13) # 1 /\ BitOf(q, 14) # 1
  BY DEF WordBits
<1>2. /\ (q \div 256) % 2 # 1 /\ (q \div 512) % 2 # 1 /\ (q \div 1024) % 2 # 1
      /\ (q \div 2048) % 2 # 1 /\ (q \div 4096) % 2 # 1 /\ (q \div 8192) % 2 # 1
      /\ (q \div 16384) % 2 # 1
  BY <1>1, BitOfWord
<1>3. q < 256
  <2>1. q \div 16384 = 0
    BY <1>2 DEF WORD
  <2>2. q \div 8192 = 0
    BY <1>2, <2>1 DEF WORD
  <2>3. q \div 4096 = 0
    BY <1>2, <2>2 DEF WORD
  <2>4. q \div 2048 = 0
    BY <1>2, <2>3 DEF WORD
  <2>5. q \div 1024 = 0
    BY <1>2, <2>4 DEF WORD
  <2>6. q \div 512 = 0
    BY <1>2, <2>5 DEF WORD
  <2>7. q \div 256 = 0
    BY <1>2, <2>6 DEF WORD
  <2> QED
    BY <2>7 DEF WORD
<1>4. q \in BYTE
  <2>1. q \in Int /\ 0 <= q /\ q <= 255
    BY <1>3 DEF WORD
  <2> QED
    BY <2>1 DEF BYTE
<1> QED
  BY <1>4 DEF Bits, WordBits

(***************************************************************************)
(* The bits of a product with a polynomial of degree below 4: the bits of  *)
(* the product itself, and those that reducing its exponents 8, 9 and 10   *)
(* adds.                                                                   *)
(***************************************************************************)
LEMMA FieldTimesBits ==
  ASSUME NEW c, c \in 0 .. 15, NEW b, b \in BYTE
  PROVE  LET inP(k) == InProduct(c, b, k) IN
         /\ FieldTimes(c, b) \in BYTE
         /\ \A i \in 0 .. 7 :
              i \in Bits(FieldTimes(c, b)) <=>
                ~ (~ (inP(i) <=> inP(8) /\ i \in {0, 1, 3, 4})
                   <=> ~ (inP(9) /\ i \in {1, 2, 4, 5} <=> inP(10) /\ i \in {2, 3, 5, 6}))
<1> DEFINE inP(k) == InProduct(c, b, k)
           w == [k \in 0 .. 14 |-> Coefficient(c, b, k) % 2]
           q == FromBits(w)
           q10 == Reduced(q, 10)
           q9 == Reduced(q10, 9)
           q8 == Reduced(q9, 8)
<1>1. w \in [0 .. 14 -> Bit] /\ \A k \in 0 .. 14 : w[k] = 1 <=> inP(k)
  <2>1. \A k \in 0 .. 14 : w[k] \in Bit /\ (w[k] = 1 <=> inP(k))
    BY CoefficientBit
  <2> QED
    BY <2>1
<1>2. FieldTimes(c, b) = Modulo(q)
  BY DEF FieldTimes, Coefficient
<1> HIDE DEF w, inP
<1>3. q \in WORD /\ \A k \in 0 .. 14 : k \in WordBits(q) <=> inP(k)
  BY <1>1, WordFromBits DEF WordBits
<1>4. ~ inP(11) /\ ~ inP(12) /\ ~ inP(13) /\ ~ inP(14)
  BY DEF inP, InProduct, Bits
<1> HIDE DEF q
<1>5. Modulo(q) = q8
  <2>1. BitOf(q, 11) # 1 /\ BitOf(q, 12) # 1 /\ BitOf(q, 13) # 1 /\ BitOf(q, 14) # 1
    BY <1>3, <1>4 DEF WordBits
  <2>2. Reduced(Reduced(Reduced(Reduced(q, 14), 13), 12), 11) = q
    BY <2>1 DEF Reduced
  <2> QED
    BY <2>2, ModuloSteps
<1>6. /\ q10 \in WORD
      /\ \A i \in 0 .. 14 : i \in WordBits(q10) <=> ~ (inP(i) <=> inP(10) /\ i \in {2, 3, 5, 6, 10})
  <2>1. \A i \in 0 .. 14 : i - (10 - 8) \in {0, 1, 3, 4, 8} <=> i \in {2, 3, 5, 6, 10}
    OBVIOUS
  <2> QED
    BY <1>3, <2>1, ReducedBits
<1> HIDE DEF q10
<1>7. /\ q9 \in WORD
      /\ \A i \in 0 .. 14 : i \in WordBits(q9) <=>
           ~ (i \in WordBits(q10) <=> 9 \in WordBits(q10) /\ i \in {1, 2, 4, 5, 9})
  <2>1. \A i \in 0 .. 14 : i - (9 - 8) \in {0, 1, 3, 4, 8} <=> i \in {1, 2, 4, 5, 9}
    OBVIOUS
  <2> QED
    BY <1>6, <2>1, ReducedBits
<1> HIDE DEF q9
<1>8. /\ q8 \in WORD
      /\ \A i \in 0 .. 14 : i \in WordBits(q8) <=>
           ~ (i \in WordBits(q9) <=> 8 \in WordBits(q9) /\ i \in {0, 1, 3, 4, 8})
  <2>1. \A i \in 0 .. 14 : i - (8 - 8) \in {0, 1, 3, 4, 8} <=> i \in {0, 1, 3, 4, 8}
    OBVIOUS
  <2> QED
    BY <1>7, <2>1, ReducedBits
<1> HIDE DEF q8
<1>9. /\ 9 \in WordBits(q10) <=> inP(9)
      /\ 8 \in WordBits(q10) <=> inP(8)
      /\ 8 \in WordBits(q9) <=> inP(8)
      /\ 10 \notin WordBits(q10)
  BY <1>6, <1>7
<1>10. \A i \in 0 .. 14 : i \in WordBits(q8) <=>
         ~ (~ (inP(i) <=> inP(8) /\ i \in {0, 1, 3, 4, 8})
            <=> ~ (inP(9) /\ i \in {1, 2, 4, 5, 9} <=> inP(10) /\ i \in {2, 3, 5, 6, 10}))
  BY <1>6, <1>7, <1>8, <1>9
<1>11. \A i \in 8 .. 14 : i \notin WordBits(q8)
  BY <1>4, <1>10
<1>12. q8 \in BYTE /\ \A i \in 0 .. 7 : i \in Bits(q8) <=> i \in WordBits(q8)
  BY <1>8, <1>11, LowWordIsByte
<1> QED
  BY <1>2, <1>5, <1>10, <1>12 DEF inP

(***************************************************************************)
(* The numbers of the two polynomials of the standard, by their bits.      *)
(***************************************************************************)
LEMMA SmallBits ==
  \A c \in {1, 2, 3, 9, 11, 13, 14} :
    /\ c \in 0 .. 15
    /\ 0 \in Bits(c) <=> c \in {1, 3, 9, 11, 13}
    /\ 1 \in Bits(c) <=> c \in {2, 3, 11, 14}
    /\ 2 \in Bits(c) <=> c \in {13, 14}
    /\ 3 \in Bits(c) <=> c \in {9, 11, 13, 14}
<1>1. ASSUME NEW c \in {1, 2, 3, 9, 11, 13, 14}
      PROVE  /\ c \in BYTE /\ c \in 0 .. 15
             /\ c % 2 = 1 <=> c \in {1, 3, 9, 11, 13}
             /\ (c \div 2) % 2 = 1 <=> c \in {2, 3, 11, 14}
             /\ (c \div 4) % 2 = 1 <=> c \in {13, 14}
             /\ (c \div 8) % 2 = 1 <=> c \in {9, 11, 13, 14}
  BY DEF BYTE
<1> QED
  BY <1>1, BitOfNumber DEF Bits

(***************************************************************************)
(* The shifts of the RTL are the products of the field: xtime is the       *)
(* product with 2, and the four shared terms of inv_mix_col those with 9,  *)
(* 11, 13 and 14.                                                          *)
(***************************************************************************)
LEMMA Products ==
  ASSUME NEW b, b \in BYTE
  PROVE  /\ FieldTimes(1, b) = b
         /\ FieldTimes(2, b) = xtime(b)
         /\ FieldTimes(3, b) = xtime(b) (+) b
         /\ FieldTimes(9, b) = pmul_9(b)
         /\ FieldTimes(11, b) = pmul_b(b)
         /\ FieldTimes(13, b) = pmul_d(b)
         /\ FieldTimes(14, b) = pmul_e(b)
<1> DEFINE two == xtime(b)
           four == xtime(two)
           eight == xtime(four)
           inP(c, k) == InProduct(c, b, k)
           B(k) == k \in Bits(b)
<1>1. two \in BYTE /\ four \in BYTE /\ eight \in BYTE
  BY XtimeBits
<1>2. /\ pmul_9(b) = eight (+) b
      /\ pmul_b(b) = eight (+) two (+) b
      /\ pmul_d(b) = eight (+) four (+) b
      /\ pmul_e(b) = eight (+) four (+) two
  BY DEF pmul_9, pmul_b, pmul_d, pmul_e
<1>3. ASSUME NEW i \in 0 .. 7
      PROVE  /\ i \in Bits(two) <=> ~ (i - 1 \in Bits(b) <=> (i \in {0, 1, 3, 4} /\ 7 \in Bits(b)))
             /\ i \in Bits(four) <=> ~ (i - 1 \in Bits(two) <=> (i \in {0, 1, 3, 4} /\ 7 \in Bits(two)))
             /\ i \in Bits(eight) <=> ~ (i - 1 \in Bits(four) <=> (i \in {0, 1, 3, 4} /\ 7 \in Bits(four)))
  BY <1>1, XtimeBits
<1>4. ASSUME NEW k
      PROVE  /\ inP(1, k) <=> B(k)
             /\ inP(2, k) <=> B(k - 1)
             /\ inP(3, k) <=> ~ (B(k) <=> B(k - 1))
             /\ inP(9, k) <=> ~ (B(k) <=> B(k - 3))
             /\ inP(11, k) <=> ~ (~ (B(k) <=> B(k - 1)) <=> B(k - 3))
             /\ inP(13, k) <=> ~ (~ (B(k) <=> B(k - 2)) <=> B(k - 3))
             /\ inP(14, k) <=> ~ (~ (B(k - 1) <=> B(k - 2)) <=> B(k - 3))
  BY SmallBits DEF InProduct
<1>5. ASSUME NEW c \in {1, 2, 3, 9, 11, 13, 14}
      PROVE  /\ FieldTimes(c, b) \in BYTE
             /\ \A i \in 0 .. 7 :
                  i \in Bits(FieldTimes(c, b)) <=>
                    ~ (~ (inP(c, i) <=> inP(c, 8) /\ i \in {0, 1, 3, 4})
                       <=> ~ (inP(c, 9) /\ i \in {1, 2, 4, 5} <=> inP(c, 10) /\ i \in {2, 3, 5, 6}))
  BY SmallBits, FieldTimesBits
<1>6. \A i \in -3 .. 10 : i \notin 0 .. 7 => ~ B(i) /\ i \notin Bits(two) /\ i \notin Bits(four)
  BY DEF Bits
<1>7. \A i \in 0 .. 7 : i \in {0, 1, 2, 3, 4, 5, 6, 7}
  OBVIOUS
<1> HIDE DEF inP, two, four, eight
<1>8. FieldTimes(1, b) = b
  <2>1. 1 \in {1, 2, 3, 9, 11, 13, 14} /\ b \in BYTE
    BY <1>1, XorIsDifference
  <2>2. \A i \in {0, 1, 2, 3, 4, 5, 6, 7} :
          i \in Bits(FieldTimes(1, b)) <=> i \in Bits(b)
    BY <1>1, <1>3, <1>4, <1>5, <1>6, <2>1, XorIsDifference
  <2> QED
    BY <1>5, <1>7, <2>1, <2>2, SameBits
<1>9. FieldTimes(2, b) = two
  <2>1. 2 \in {1, 2, 3, 9, 11, 13, 14} /\ two \in BYTE
    BY <1>1, XorIsDifference
  <2>2. \A i \in {0, 1, 2, 3, 4, 5, 6, 7} :
          i \in Bits(FieldTimes(2, b)) <=> i \in Bits(two)
    BY <1>1, <1>3, <1>4, <1>5, <1>6, <2>1, XorIsDifference
  <2> QED
    BY <1>5, <1>7, <2>1, <2>2, SameBits
<1>10. FieldTimes(3, b) = two (+) b
  <2>1. 3 \in {1, 2, 3, 9, 11, 13, 14} /\ two (+) b \in BYTE
    BY <1>1, XorIsDifference
  <2>2. \A i \in {0, 1, 2, 3, 4, 5, 6, 7} :
          i \in Bits(FieldTimes(3, b)) <=> i \in Bits(two (+) b)
    BY <1>1, <1>3, <1>4, <1>5, <1>6, <2>1, XorIsDifference
  <2> QED
    BY <1>5, <1>7, <2>1, <2>2, SameBits
<1>11. FieldTimes(9, b) = eight (+) b
  <2>1. 9 \in {1, 2, 3, 9, 11, 13, 14} /\ eight (+) b \in BYTE
    BY <1>1, XorIsDifference
  <2>2. \A i \in {0, 1, 2, 3, 4, 5, 6, 7} :
          i \in Bits(FieldTimes(9, b)) <=> i \in Bits(eight (+) b)
    BY <1>1, <1>3, <1>4, <1>5, <1>6, <2>1, XorIsDifference
  <2> QED
    BY <1>5, <1>7, <2>1, <2>2, SameBits
<1>12. FieldTimes(11, b) = eight (+) two (+) b
  <2>1. 11 \in {1, 2, 3, 9, 11, 13, 14} /\ eight (+) two (+) b \in BYTE
    BY <1>1, XorIsDifference
  <2>2. \A i \in {0, 1, 2, 3, 4, 5, 6, 7} :
          i \in Bits(FieldTimes(11, b)) <=> i \in Bits(eight (+) two (+) b)
    BY <1>1, <1>3, <1>4, <1>5, <1>6, <2>1, XorIsDifference
  <2> QED
    BY <1>5, <1>7, <2>1, <2>2, SameBits
<1>13. FieldTimes(13, b) = eight (+) four (+) b
  <2>1. 13 \in {1, 2, 3, 9, 11, 13, 14} /\ eight (+) four (+) b \in BYTE
    BY <1>1, XorIsDifference
  <2>2. \A i \in {0, 1, 2, 3, 4, 5, 6, 7} :
          i \in Bits(FieldTimes(13, b)) <=> i \in Bits(eight (+) four (+) b)
    BY <1>1, <1>3, <1>4, <1>5, <1>6, <2>1, XorIsDifference
  <2> QED
    BY <1>5, <1>7, <2>1, <2>2, SameBits
<1>14. FieldTimes(14, b) = eight (+) four (+) two
  <2>1. 14 \in {1, 2, 3, 9, 11, 13, 14} /\ eight (+) four (+) two \in BYTE
    BY <1>1, XorIsDifference
  <2>2. \A i \in {0, 1, 2, 3, 4, 5, 6, 7} :
          i \in Bits(FieldTimes(14, b)) <=> i \in Bits(eight (+) four (+) two)
    BY <1>1, <1>3, <1>4, <1>5, <1>6, <2>1, XorIsDifference
  <2> QED
    BY <1>5, <1>7, <2>1, <2>2, SameBits
<1> QED
  BY <1>2, <1>8, <1>9, <1>10, <1>11, <1>12, <1>13, <1>14 DEF two

(***************************************************************************)
(* mix_col and inv_mix_col are the products with the two polynomials of    *)
(* FIPS-197, (5.6) and (5.10), for all 2^32 columns.                       *)
(***************************************************************************)
LEMMA ColumnsAreTheProducts ==
  ASSUME NEW s1 \in BYTE, NEW s2 \in BYTE, NEW s3 \in BYTE, NEW s4 \in BYTE
  PROVE  LET s == <<s1, s2, s3, s4>> IN
         /\ mix_col(s) = MixColumn(s)
         /\ inv_mix_col(s) = InvMixColumn(s)
<1> DEFINE s == <<s1, s2, s3, s4>>
           F(x, y) == FieldAdd(x, y)
           T(c, x) == FieldTimes(c, x)
<1>1. ASSUME NEW c1, NEW c2, NEW c3, NEW c4
      PROVE  ColumnTimes(<<c1, c2, c3, c4>>, s) =
               << F(F(T(c1, s1), T(c4, s2)), F(T(c3, s3), T(c2, s4))),
                  F(F(T(c2, s1), T(c1, s2)), F(T(c4, s3), T(c3, s4))),
                  F(F(T(c3, s1), T(c2, s2)), F(T(c1, s3), T(c4, s4))),
                  F(F(T(c4, s1), T(c3, s2)), F(T(c2, s3), T(c1, s4))) >>
  <2> DEFINE c == <<c1, c2, c3, c4>>
             place(r, j) == ((r - j) % 4) + 1
             row(r) == F(F(T(c[place(r, 1)], s[1]), T(c[place(r, 2)], s[2])),
                         F(T(c[place(r, 3)], s[3]), T(c[place(r, 4)], s[4])))
  <2>1. ColumnTimes(c, s) = [r \in 1 .. 4 |-> row(r)]
    BY DEF ColumnTimes
  <2>2. [r \in 1 .. 4 |-> row(r)] = <<row(1), row(2), row(3), row(4)>>
    <3> HIDE DEF row
    <3> QED
      OBVIOUS
  <2>3. /\ place(1, 1) = 1 /\ place(1, 2) = 4 /\ place(1, 3) = 3 /\ place(1, 4) = 2
        /\ place(2, 1) = 2 /\ place(2, 2) = 1 /\ place(2, 3) = 4 /\ place(2, 4) = 3
        /\ place(3, 1) = 3 /\ place(3, 2) = 2 /\ place(3, 3) = 1 /\ place(3, 4) = 4
        /\ place(4, 1) = 4 /\ place(4, 2) = 3 /\ place(4, 3) = 2 /\ place(4, 4) = 1
    <3>1. \A r \in 1 .. 4, j \in 1 .. 4 : place(r, j) = IF j <= r THEN r - j + 1 ELSE r - j + 5
      OBVIOUS
    <3> HIDE DEF place
    <3> QED
      BY <3>1
  <2>4. /\ c[1] = c1 /\ c[2] = c2 /\ c[3] = c3 /\ c[4] = c4
        /\ s[1] = s1 /\ s[2] = s2 /\ s[3] = s3 /\ s[4] = s4
    OBVIOUS
  <2> HIDE DEF place, c, s, F, T
  <2>5. /\ row(1) = F(F(T(c1, s1), T(c4, s2)), F(T(c3, s3), T(c2, s4)))
        /\ row(2) = F(F(T(c2, s1), T(c1, s2)), F(T(c4, s3), T(c3, s4)))
        /\ row(3) = F(F(T(c3, s1), T(c2, s2)), F(T(c1, s3), T(c4, s4)))
        /\ row(4) = F(F(T(c4, s1), T(c3, s2)), F(T(c2, s3), T(c1, s4)))
    BY <2>3, <2>4
  <2> HIDE DEF row
  <2>6. ColumnTimes(c, s) = <<row(1), row(2), row(3), row(4)>>
    BY <2>1, <2>2
  <2> QED
    BY <2>5, <2>6 DEF c
<1>2. ASSUME NEW x1, NEW x2, NEW x3, NEW x4, {x1, x2, x3, x4} \subseteq BYTE
      PROVE  /\ F(F(x1, x2), F(x3, x4)) = (x1 (+) x2) (+) (x3 (+) x4)
             /\ (x1 (+) x2) (+) (x3 (+) x4) \in BYTE
             /\ (x1 (+) x2) (+) (x3 (+) x4) = x1 (+) x2 (+) x3 (+) x4
  <2>1. /\ x1 (+) x2 \in BYTE /\ x3 (+) x4 \in BYTE /\ (x1 (+) x2) (+) (x3 (+) x4) \in BYTE
        /\ x1 (+) x2 (+) x3 (+) x4 \in BYTE
    BY <1>2, XorIsDifference
  <2>2. F(F(x1, x2), F(x3, x4)) = (x1 (+) x2) (+) (x3 (+) x4)
    BY <1>2, <2>1, FieldAddIsXor
  <2>3. (x1 (+) x2) (+) (x3 (+) x4) = x1 (+) x2 (+) x3 (+) x4
    BY <1>2, <2>1, SameBits, XorIsDifference
  <2> QED
    BY <2>1, <2>2, <2>3
<1>3. \A x \in BYTE :
        /\ T(1, x) = x /\ T(2, x) = xtime(x) /\ T(3, x) = xtime(x) (+) x
        /\ T(9, x) = pmul_9(x) /\ T(11, x) = pmul_b(x)
        /\ T(13, x) = pmul_d(x) /\ T(14, x) = pmul_e(x)
  BY Products
<1>4. /\ MixColumn(s) = ColumnTimes(<<2, 1, 1, 3>>, s)
      /\ InvMixColumn(s) = ColumnTimes(<<14, 9, 13, 11>>, s)
  BY DEF MixColumn, InvMixColumn
<1> DEFINE x1 == xtime(s1) x2 == xtime(s2) x3 == xtime(s3) x4 == xtime(s4)
<1>5. mix_col(s) = MixColumn(s)
  <2>1. x1 \in BYTE /\ x2 \in BYTE /\ x3 \in BYTE /\ x4 \in BYTE
    BY XtimeBits
  <2>2. mix_col(s) = << x1 (+) x2 (+) s2 (+) s3 (+) s4,
                        s1 (+) x2 (+) x3 (+) s3 (+) s4,
                        s1 (+) s2 (+) x3 (+) x4 (+) s4,
                        x1 (+) s1 (+) s2 (+) s3 (+) x4 >>
    BY DEF mix_col
  <2>3. MixColumn(s) = << F(F(x1, x2 (+) s2), F(s3, s4)), F(F(s1, x2), F(x3 (+) s3, s4)),
                          F(F(s1, s2), F(x3, x4 (+) s4)), F(F(x1 (+) s1, s2), F(s3, x4)) >>
    <3> HIDE DEF F, T, s
    <3> QED
      BY <1>1, <1>3, <1>4
  <2> HIDE DEF x1, x2, x3, x4, F, s
  <2>4. x2 (+) s2 \in BYTE /\ x3 (+) s3 \in BYTE /\ x4 (+) s4 \in BYTE /\ x1 (+) s1 \in BYTE
    BY <2>1, XorIsDifference
  <2>5. /\ F(F(x1, x2 (+) s2), F(s3, s4)) = x1 (+) (x2 (+) s2) (+) s3 (+) s4
        /\ F(F(s1, x2), F(x3 (+) s3, s4)) = s1 (+) x2 (+) (x3 (+) s3) (+) s4
        /\ F(F(s1, s2), F(x3, x4 (+) s4)) = s1 (+) s2 (+) x3 (+) (x4 (+) s4)
        /\ F(F(x1 (+) s1, s2), F(s3, x4)) = (x1 (+) s1) (+) s2 (+) s3 (+) x4
    BY <1>2, <2>1, <2>4
  <2>6. x1 (+) (x2 (+) s2) (+) s3 (+) s4 = x1 (+) x2 (+) s2 (+) s3 (+) s4
    BY <2>1, SameBits, XorIsDifference
  <2>7. s1 (+) x2 (+) (x3 (+) s3) (+) s4 = s1 (+) x2 (+) x3 (+) s3 (+) s4
    BY <2>1, SameBits, XorIsDifference
  <2>8. s1 (+) s2 (+) x3 (+) (x4 (+) s4) = s1 (+) s2 (+) x3 (+) x4 (+) s4
    BY <2>1, SameBits, XorIsDifference
  <2> QED
    BY <2>2, <2>3, <2>5, <2>6, <2>7, <2>8
<1>6. inv_mix_col(s) = InvMixColumn(s)
  <2>1. /\ pmul_e(s1) \in BYTE /\ pmul_b(s1) \in BYTE /\ pmul_d(s1) \in BYTE /\ pmul_9(s1) \in BYTE
        /\ pmul_e(s2) \in BYTE /\ pmul_b(s2) \in BYTE /\ pmul_d(s2) \in BYTE /\ pmul_9(s2) \in BYTE
        /\ pmul_e(s3) \in BYTE /\ pmul_b(s3) \in BYTE /\ pmul_d(s3) \in BYTE /\ pmul_9(s3) \in BYTE
        /\ pmul_e(s4) \in BYTE /\ pmul_b(s4) \in BYTE /\ pmul_d(s4) \in BYTE /\ pmul_9(s4) \in BYTE
    BY PmulBytes
  <2>2. InvMixColumn(s) =
          << F(F(pmul_e(s1), pmul_b(s2)), F(pmul_d(s3), pmul_9(s4))),
             F(F(pmul_9(s1), pmul_e(s2)), F(pmul_b(s3), pmul_d(s4))),
             F(F(pmul_d(s1), pmul_9(s2)), F(pmul_e(s3), pmul_b(s4))),
             F(F(pmul_b(s1), pmul_d(s2)), F(pmul_9(s3), pmul_e(s4))) >>
    <3> HIDE DEF F, T, s
    <3> QED
      BY <1>1, <1>3, <1>4
  <2> HIDE DEF F
  <2> QED
    BY <1>2, <2>1, <2>2 DEF inv_mix_col
<1> QED
  BY <1>5, <1>6

-----------------------------------------------------------------------------
\* The bits two bytes have in common.
BothBits(x, y) ==
    128 * (x \div 128) * (y \div 128)
    + 64 * ((x \div 64) % 2) * ((y \div 64) % 2) + 32 * ((x \div 32) % 2) * ((y \div 32) % 2)
    + 16 * ((x \div 16) % 2) * ((y \div 16) % 2) + 8 * ((x \div 8) % 2) * ((y \div 8) % 2)
    + 4 * ((x \div 4) % 2) * ((y \div 4) % 2) + 2 * ((x \div 2) % 2) * ((y \div 2) % 2)
    + (x % 2) * (y % 2)

(***************************************************************************)
(* An exclusive or is a sum without its carries: for the entries of a      *)
(* table, which are known.                                                 *)
(***************************************************************************)
LEMMA XorBySum ==
  ASSUME NEW x, NEW y, x \in BYTE, y \in BYTE
  PROVE  x (+) y = x + y - 2 * BothBits(x, y)
<1> DEFINE z == x (+) y
           X(j) == BitOf(x, j)
           Y(j) == BitOf(y, j)
           Z(j) == BitOf(z, j)
           M(j) == X(j) * Y(j)
           J == {0, 1, 2, 3, 4, 5, 6, 7}
<1>1. z \in BYTE /\ \A j \in J : Z(j) = (X(j) + Y(j)) % 2
  BY XorBits
<1>2. \A j \in J : X(j) \in Bit /\ Y(j) \in Bit
  BY BitsOfByte
<1>3. \A u, v \in Bit : u \in Int /\ v \in Int /\ u * v \in Int /\ (u + v) % 2 = u + v - 2 * (u * v)
  BY DEF Bit
<1>4. /\ x = ByteOf(X(7), X(6), X(5), X(4), X(3), X(2), X(1), X(0))
      /\ y = ByteOf(Y(7), Y(6), Y(5), Y(4), Y(3), Y(2), Y(1), Y(0))
      /\ z = ByteOf(Z(7), Z(6), Z(5), Z(4), Z(3), Z(2), Z(1), Z(0))
  BY <1>1, BitsOfByte
<1>5. BothBits(x, y) = 128 * M(7) + 64 * M(6) + 32 * M(5) + 16 * M(4) + 8 * M(3) + 4 * M(2) + 2 * M(1) + M(0)
  <2>1. /\ X(0) = x % 2 /\ X(1) = (x \div 2) % 2 /\ X(2) = (x \div 4) % 2 /\ X(3) = (x \div 8) % 2
        /\ X(4) = (x \div 16) % 2 /\ X(5) = (x \div 32) % 2 /\ X(6) = (x \div 64) % 2
        /\ X(7) = (x \div 128) % 2
    BY BitOfNumber
  <2>2. /\ Y(0) = y % 2 /\ Y(1) = (y \div 2) % 2 /\ Y(2) = (y \div 4) % 2 /\ Y(3) = (y \div 8) % 2
        /\ Y(4) = (y \div 16) % 2 /\ Y(5) = (y \div 32) % 2 /\ Y(6) = (y \div 64) % 2
        /\ Y(7) = (y \div 128) % 2
    BY BitOfNumber
  <2>3. x \div 128 = (x \div 128) % 2 /\ y \div 128 = (y \div 128) % 2
    BY DEF BYTE
  <2>4. \A u, v, w \in Bit : w * u * v = w * (u * v)
    BY DEF Bit
  <2>5. \A u, v \in Bit : /\ 128 * u * v = 128 * (u * v) /\ 64 * u * v = 64 * (u * v)
                          /\ 32 * u * v = 32 * (u * v) /\ 16 * u * v = 16 * (u * v)
                          /\ 8 * u * v = 8 * (u * v) /\ 4 * u * v = 4 * (u * v) /\ 2 * u * v = 2 * (u * v)
    BY DEF Bit
  <2> HIDE DEF X, Y
  <2>6. BothBits(x, y) = 128 * X(7) * Y(7) + 64 * X(6) * Y(6) + 32 * X(5) * Y(5) + 16 * X(4) * Y(4)
                         + 8 * X(3) * Y(3) + 4 * X(2) * Y(2) + 2 * X(1) * Y(1) + X(0) * Y(0)
    BY <2>1, <2>2, <2>3 DEF BothBits
  <2> QED
    BY <1>2, <2>5, <2>6
<1> HIDE DEF X, Y, Z, z
<1>6. \A j \in J : M(j) \in Int /\ Z(j) = X(j) + Y(j) - 2 * M(j)
  BY <1>1, <1>2, <1>3
<1>7. \A j \in J : X(j) \in Int /\ Y(j) \in Int
  BY <1>2, <1>3
<1> HIDE DEF M
<1>8. z = x + y - 2 * BothBits(x, y)
  BY <1>4, <1>5, <1>6, <1>7 DEF ByteOf
<1> QED
  BY <1>8 DEF z

\* 2u with 1B added: bits 0, 1, 3 and 4 of e, which are where 27 is, turned over.
TwiceReduced(u) ==
    LET e == 2 * u - 256
    IN  e + 1 - 2 * (e % 2) + 2 - 4 * ((e \div 2) % 2)
          + 8 - 16 * ((e \div 8) % 2) + 16 - 32 * ((e \div 16) % 2)

(***************************************************************************)
(* The four columns of the table of the C code, entry by entry.            *)
(***************************************************************************)
LEMMA TableEntries ==
  ASSUME NEW b \in BYTE
  PROVE  LET u == aes_sbox[b + 1]
             double == table_0[4 * b + 4]
         IN  /\ u \in BYTE
             /\ table_0[4 * b + 1] = u
             /\ table_0[4 * b + 2] = u
             /\ table_0[4 * b + 3] = double + u - 2 * BothBits(double, u)
             /\ IF u < 128 THEN double = 2 * u ELSE double = TwiceReduced(u)
<1>1. aes_sbox[b + 1] \in BYTE /\ table_0[4 * b + 1] = aes_sbox[b + 1]
      /\ table_0[4 * b + 2] = aes_sbox[b + 1]
  BY DEF BYTE, table_0, aes_sbox
<1>2. table_0[4 * b + 3] = table_0[4 * b + 4] + aes_sbox[b + 1]
                           - 2 * BothBits(table_0[4 * b + 4], aes_sbox[b + 1])
  BY DEF BYTE, table_0, aes_sbox, BothBits
<1>3. LET u == aes_sbox[b + 1]
          double == table_0[4 * b + 4]
      IN  IF u < 128 THEN double = 2 * u ELSE double = TwiceReduced(u)
  BY DEF BYTE, table_0, aes_sbox, TwiceReduced
<1> QED
  BY <1>1, <1>2, <1>3

(***************************************************************************)
(* Nothing is added with 0, in either order.                               *)
(***************************************************************************)
LEMMA XorZero ==
  ASSUME NEW x, x \in BYTE
  PROVE  x (+) 0 = x /\ 0 (+) x = x
<1>1. 0 \in BYTE /\ x (+) 0 \in BYTE /\ 0 (+) x \in BYTE
  BY ZeroHasNoBits, XorBits
<1>2. \A j \in 0 .. 7 : /\ j \in Bits(x (+) 0) <=> j \in Bits(x)
                        /\ j \in Bits(0 (+) x) <=> j \in Bits(x)
  BY <1>1, ZeroHasNoBits, XorIsDifference
<1> QED
  BY <1>1, <1>2, SameBits

(***************************************************************************)
(* A word of the table is the S-box once, twice and three times.           *)
(***************************************************************************)
LEMMA TableWords ==
  ASSUME NEW b, b \in BYTE
  PROVE  LET u == Sbox(b) IN
         /\ u \in BYTE
         /\ S(b) = u
         /\ t0(b) = <<u, u, FieldTimes(3, u), FieldTimes(2, u)>>
<1> DEFINE u == aes_sbox[b + 1]
           double == table_0[4 * b + 4]
<1>1. /\ u \in BYTE
      /\ table_0[4 * b + 1] = u
      /\ table_0[4 * b + 2] = u
      /\ table_0[4 * b + 3] = double + u - 2 * BothBits(double, u)
      /\ IF u < 128 THEN double = 2 * u ELSE double = TwiceReduced(u)
  BY TableEntries
<1>2. Sbox(b) = u /\ S(b) = table_0[4 * b + 1]
      /\ t0(b) = <<table_0[4 * b + 1], table_0[4 * b + 2], table_0[4 * b + 3], double>>
  BY DEF Sbox, S, t0
<1> HIDE DEF u, double
<1>3. double = xtime(u)
  <2>1. CASE u < 128
    <3>1. (2 * u) % 256 = 2 * u /\ 2 * u \in BYTE /\ ~ (u >= 128)
      BY <1>1, <2>1 DEF BYTE
    <3>2. (2 * u) (+) 0 = 2 * u
      BY <3>1, XorZero
    <3> QED
      BY <1>1, <2>1, <3>1, <3>2 DEF xtime
  <2>2. CASE u >= 128
    <3>1. (2 * u) % 256 = 2 * u - 256 /\ 2 * u - 256 \in BYTE /\ 27 \in BYTE
      BY <1>1, <2>2 DEF BYTE
    <3> DEFINE e == 2 * u - 256
    <3>2. /\ 27 \div 128 = 0 /\ (27 \div 64) % 2 = 0 /\ (27 \div 32) % 2 = 0
          /\ (27 \div 16) % 2 = 1 /\ (27 \div 8) % 2 = 1 /\ (27 \div 4) % 2 = 0
          /\ (27 \div 2) % 2 = 1 /\ 27 % 2 = 1
      OBVIOUS
    <3>3. e \in Int
      BY <3>1 DEF BYTE
    <3> HIDE DEF e
    <3>4. BothBits(e, 27) =
            16 * ((e \div 16) % 2) + 8 * ((e \div 8) % 2) + 2 * ((e \div 2) % 2) + (e % 2)
      BY <3>2, <3>3 DEF BothBits
    <3>5. e (+) 27 = e + 27 - 2 * BothBits(e, 27)
      BY <3>1, XorBySum DEF e
    <3>6. e (+) 27 = TwiceReduced(u)
      BY <3>3, <3>4, <3>5 DEF TwiceReduced, e
    <3> QED
      BY <1>1, <2>2, <3>1, <3>6 DEF xtime, e, BYTE
  <2> QED
    BY <1>1, <2>1, <2>2 DEF BYTE
<1>4. xtime(u) \in BYTE
  BY <1>1, XtimeBits
<1>5. table_0[4 * b + 3] = xtime(u) (+) u
  BY <1>1, <1>3, <1>4, XorBySum
<1>6. FieldTimes(2, u) = xtime(u) /\ FieldTimes(3, u) = xtime(u) (+) u
  BY <1>1, Products
<1> QED
  BY <1>1, <1>2, <1>3, <1>5, <1>6

-----------------------------------------------------------------------------
(***************************************************************************)
(* The four words that aes_key_expand_128 computes side by side, each from *)
(* old words only, satisfy the equations of a chain.                       *)
(***************************************************************************)
LEMMA ExpandKeyWords ==
  ASSUME NEW k \in ByteBlock, NEW c \in BYTE
  PROVE  /\ ExpandKeyBlock(k, c) \in ByteBlock
         /\ \A i \in 0 .. 3 :
              ExpandKeyBlock(k, c)[i] =
                (k[i] (+) Sbox(k[12 + ((i + 1) % 4)])) (+) (IF i = 0 THEN c ELSE 0)
         /\ \A i \in 4 .. 15 :
              ExpandKeyBlock(k, c)[i] = k[i] (+) ExpandKeyBlock(k, c)[i - 4]
<1> DEFINE e == ExpandKeyBlock(k, c)
           rc(j) == IF j = 0 THEN c ELSE 0
           first(j) == subword(k)[j] (+) rc(j)
<1>1. \A i \in 0 .. 15 : k[i] \in BYTE
  BY DEF ByteBlock
<1>2. ASSUME NEW j \in 0 .. 3
      PROVE  /\ subword(k)[j] = Sbox(k[12 + ((j + 1) % 4)])
             /\ subword(k)[j] \in BYTE /\ rc(j) \in BYTE /\ first(j) \in BYTE
             /\ k[j] \in BYTE /\ k[4 + j] \in BYTE /\ k[8 + j] \in BYTE /\ k[12 + j] \in BYTE
  <2>1. 12 + ((j + 1) % 4) \in 0 .. 15
    OBVIOUS
  <2>2. subword(k)[j] = Sbox(k[12 + ((j + 1) % 4)])
    BY DEF subword
  <2>3. subword(k)[j] \in BYTE
    BY <1>1, <2>1, <2>2, SboxUndone
  <2>4. rc(j) \in BYTE
    BY ZeroHasNoBits
  <2> HIDE DEF rc
  <2>5. subword(k)[j] (+) rc(j) \in BYTE
    BY <2>3, <2>4, XorIsDifference
  <2>6. j \in 0 .. 15 /\ 4 + j \in 0 .. 15 /\ 8 + j \in 0 .. 15 /\ 12 + j \in 0 .. 15
    OBVIOUS
  <2> QED
    BY <1>1, <2>2, <2>3, <2>4, <2>5, <2>6
<1>3. ASSUME NEW j \in 0 .. 3
      PROVE  /\ e[j] = k[j] (+) first(j)
             /\ e[4 + j] = (k[j] (+) k[4 + j]) (+) first(j)
             /\ e[8 + j] = (k[j] (+) k[8 + j] (+) k[4 + j]) (+) first(j)
             /\ e[12 + j] = (k[j] (+) k[12 + j] (+) k[8 + j] (+) k[4 + j]) (+) first(j)
  <2> DEFINE upTo(i) == CASE i = 0 -> k[j]
                          [] i = 1 -> k[j] (+) k[4 + j]
                          [] i = 2 -> k[j] (+) k[8 + j] (+) k[4 + j]
                          [] i = 3 -> k[j] (+) k[12 + j] (+) k[8 + j] (+) k[4 + j]
  <2>1. ASSUME NEW n \in 0 .. 3
        PROVE  e[4 * n + j] = upTo(n) (+) first(j)
    <3> DEFINE i == 4 * n + j
    <3>1. i \in 0 .. 15 /\ Row(i) = j /\ Col(i) = n
      BY Places
    <3> HIDE DEF i
    <3>2. e[i] = upTo(n) (+) first(j)
      BY <3>1 DEF ExpandKeyBlock
    <3> QED
      BY <3>2 DEF i
  <2>2. /\ upTo(0) = k[j] /\ upTo(1) = k[j] (+) k[4 + j]
        /\ upTo(2) = k[j] (+) k[8 + j] (+) k[4 + j]
        /\ upTo(3) = k[j] (+) k[12 + j] (+) k[8 + j] (+) k[4 + j]
    OBVIOUS
  <2> HIDE DEF upTo, e, first
  <2>3. /\ e[4 * 0 + j] = upTo(0) (+) first(j) /\ e[4 * 1 + j] = upTo(1) (+) first(j)
        /\ e[4 * 2 + j] = upTo(2) (+) first(j) /\ e[4 * 3 + j] = upTo(3) (+) first(j)
    BY <2>1
  <2>4. 4 * 0 + j = j /\ 4 * 1 + j = 4 + j /\ 4 * 2 + j = 8 + j /\ 4 * 3 + j = 12 + j
    OBVIOUS
  <2> QED
    BY <2>2, <2>3, <2>4
<1>4. ASSUME NEW j \in 0 .. 3
      PROVE  /\ e[j] \in BYTE /\ e[4 + j] \in BYTE /\ e[8 + j] \in BYTE /\ e[12 + j] \in BYTE
             /\ e[j] = (k[j] (+) subword(k)[j]) (+) rc(j)
             /\ e[4 + j] = k[4 + j] (+) e[j]
             /\ e[8 + j] = k[8 + j] (+) e[4 + j]
             /\ e[12 + j] = k[12 + j] (+) e[8 + j]
  <2> DEFINE f == first(j) k0 == k[j] k1 == k[4 + j] k2 == k[8 + j] k3 == k[12 + j]
             e0 == e[j] e1 == e[4 + j] e2 == e[8 + j] e3 == e[12 + j]
  <2>1. f \in BYTE /\ k0 \in BYTE /\ k1 \in BYTE /\ k2 \in BYTE /\ k3 \in BYTE
    BY <1>2
  <2>2. /\ e0 = k0 (+) f /\ e1 = (k0 (+) k1) (+) f /\ e2 = (k0 (+) k2 (+) k1) (+) f
        /\ e3 = (k0 (+) k3 (+) k2 (+) k1) (+) f
    BY <1>3
  <2>3. e0 = (k[j] (+) subword(k)[j]) (+) rc(j)
    <3> DEFINE s == subword(k)[j]
               r == rc(j)
    <3>1. s \in BYTE /\ r \in BYTE /\ f = s (+) r
      BY <1>2
    <3> HIDE DEF s, r, f, k0, e0
    <3>2. e0 = (k0 (+) s) (+) r
      BY <2>1, <2>2, <3>1, SameBits, XorIsDifference
    <3> QED
      BY <3>2 DEF s, r, k0
  <2> HIDE DEF f, k0, k1, k2, k3, e0, e1, e2, e3
  <2>4. e0 \in BYTE /\ e1 \in BYTE /\ e2 \in BYTE /\ e3 \in BYTE
    BY <2>1, <2>2, XorIsDifference
  <2>5. e1 = k1 (+) e0
    BY <2>1, <2>2, SameBits, XorIsDifference
  <2>6. e2 = k2 (+) e1
    BY <2>1, <2>2, SameBits, XorIsDifference
  <2>7. e3 = k3 (+) e2
    BY <2>1, <2>2, SameBits, XorIsDifference
  <2> QED
    BY <2>3, <2>4, <2>5, <2>6, <2>7 DEF k0, k1, k2, k3, e0, e1, e2, e3
<1>5. \A i \in 0 .. 15 : e[i] \in BYTE
  <2>1. ASSUME NEW i \in 0 .. 15
        PROVE  \E j \in 0 .. 3 : i \in {j, 4 + j, 8 + j, 12 + j}
    <3>1. i % 4 \in 0 .. 3 /\ i \in {i % 4, 4 + (i % 4), 8 + (i % 4), 12 + (i % 4)}
      OBVIOUS
    <3> QED
      BY <3>1
  <2> HIDE DEF e
  <2> QED
    BY <1>4, <2>1
<1>6. e \in ByteBlock
  <2> DEFINE upTo(n, j) == CASE n = 0 -> k[j]
                             [] n = 1 -> k[j] (+) k[4 + j]
                             [] n = 2 -> k[j] (+) k[8 + j] (+) k[4 + j]
                             [] n = 3 -> k[j] (+) k[12 + j] (+) k[8 + j] (+) k[4 + j]
             g(i) == upTo(Col(i), Row(i)) (+) first(Row(i))
  <2>0. e = [i \in 0 .. 15 |-> g(i)]
    BY DEF ExpandKeyBlock
  <2> HIDE DEF g, e
  <2>1. e = [i \in 0 .. 15 |-> e[i]]
    BY <2>0
  <2> HIDE DEF e
  <2> QED
    BY <1>5, <2>1 DEF ByteBlock
<1>7. ASSUME NEW i \in 4 .. 15
      PROVE  e[i] = k[i] (+) e[i - 4]
  <2> DEFINE j == i % 4
  <2>1. /\ j \in 0 .. 3
        /\ \/ i = 4 + j /\ i - 4 = j
           \/ i = 8 + j /\ i - 4 = 4 + j
           \/ i = 12 + j /\ i - 4 = 8 + j
    OBVIOUS
  <2> HIDE DEF e, j
  <2> QED
    BY <1>4, <2>1
<1> HIDE DEF e
<1>8. ASSUME NEW i \in 0 .. 3
      PROVE  e[i] = (k[i] (+) Sbox(k[12 + ((i + 1) % 4)])) (+) rc(i)
  BY <1>2, <1>4
<1> QED
  BY <1>6, <1>7, <1>8 DEF e

(***************************************************************************)
(* They are the chain of FIPS-197, figure 11, for every key and round      *)
(* constant. NextRoundKey is a recursion over sixteen bytes: the two       *)
(* satisfy the same equations, and agree on a word when they agree on the  *)
(* word before.                                                            *)
(***************************************************************************)
LEMMA KeyWordsOfTheStandard ==
  ASSUME NEW k \in ByteBlock, NEW c \in BYTE
  PROVE  ExpandKeyBlock(k, c) = NextRoundKey(k, c, Sbox)
<1> DEFINE e == ExpandKeyBlock(k, c)
           Step(key) == [i \in 0 .. 15 |->
              IF i < 4 THEN FieldAdd(FieldAdd(k[i], Sbox(k[12 + ((i + 1) % 4)])),
                                     IF i = 0 THEN c ELSE 0)
                       ELSE FieldAdd(k[i], key[i - 4])]
           key == CHOOSE key : key = Step(key)
<1>1. NextRoundKey(k, c, Sbox) = key
  BY DEF NextRoundKey
<1>2. ASSUME NEW f \in ByteBlock
      PROVE  Step(f) = [i \in 0 .. 15 |->
               IF i < 4 THEN (k[i] (+) Sbox(k[12 + ((i + 1) % 4)])) (+) (IF i = 0 THEN c ELSE 0)
                        ELSE k[i] (+) f[i - 4]]
  <2>1. ASSUME NEW i \in 0 .. 15, i < 4
        PROVE  FieldAdd(FieldAdd(k[i], Sbox(k[12 + ((i + 1) % 4)])), IF i = 0 THEN c ELSE 0) =
                 (k[i] (+) Sbox(k[12 + ((i + 1) % 4)])) (+) (IF i = 0 THEN c ELSE 0)
    <3> DEFINE s == Sbox(k[12 + ((i + 1) % 4)])
               r == IF i = 0 THEN c ELSE 0
    <3>1. k[i] \in BYTE /\ r \in BYTE
      BY ZeroHasNoBits DEF ByteBlock
    <3>2. s \in BYTE
      <4>1. 12 + ((i + 1) % 4) \in 0 .. 15
        BY <2>1
      <4> QED
        BY <4>1, SboxUndone DEF ByteBlock
    <3> HIDE DEF s, r
    <3>3. k[i] (+) s \in BYTE
      BY <3>1, <3>2, XorIsDifference
    <3>4. FieldAdd(FieldAdd(k[i], s), r) = (k[i] (+) s) (+) r
      BY <3>1, <3>2, <3>3, FieldAddIsXor
    <3> QED
      BY <3>4 DEF s, r
  <2>2. ASSUME NEW i \in 0 .. 15, ~ (i < 4)
        PROVE  FieldAdd(k[i], f[i - 4]) = k[i] (+) f[i - 4]
    <3>1. k[i] \in BYTE /\ f[i - 4] \in BYTE
      BY <2>2 DEF ByteBlock
    <3> QED
      BY <3>1, FieldAddIsXor
  <2> QED
    BY <2>1, <2>2
<1>3. e \in ByteBlock
  BY ExpandKeyWords
<1>4. e = Step(e)
  <2>1. \A i \in 0 .. 15 : e[i] =
          IF i < 4 THEN (k[i] (+) Sbox(k[12 + ((i + 1) % 4)])) (+) (IF i = 0 THEN c ELSE 0)
                   ELSE k[i] (+) e[i - 4]
    BY ExpandKeyWords
  <2> HIDE DEF e, Step
  <2>2. e = [i \in 0 .. 15 |-> e[i]]
    BY <1>3 DEF ByteBlock
  <2> QED
    BY <1>2, <1>3, <2>1, <2>2
<1>5. key = Step(key)
  <2> HIDE DEF e, Step
  <2> QED
    BY <1>4
<1>6. \A i \in 0 .. 15 : /\ key[i] = Step(key)[i] /\ e[i] = Step(e)[i]
  <2> HIDE DEF e, key, Step
  <2> QED
    BY <1>4, <1>5
<1> DEFINE head(i) == FieldAdd(FieldAdd(k[i], Sbox(k[12 + ((i + 1) % 4)])),
                               IF i = 0 THEN c ELSE 0)
<1>7. ASSUME NEW i \in 0 .. 15
      PROVE  /\ i < 4 => key[i] = head(i) /\ e[i] = head(i)
             /\ ~ (i < 4) => key[i] = FieldAdd(k[i], key[i - 4]) /\ e[i] = FieldAdd(k[i], e[i - 4])
  <2> HIDE DEF e, key
  <2> QED
    BY <1>6
<1>8. key = [i \in 0 .. 15 |-> key[i]] /\ e = [i \in 0 .. 15 |-> e[i]]
  <2> HIDE DEF e, key
  <2> QED
    BY <1>4, <1>5
<1> HIDE DEF e, key, Step, head
<1>9. \A i \in 0 .. 3 : key[i] = e[i]
  BY <1>7
<1>10. \A i \in 4 .. 7 : key[i] = e[i]
  <2>1. \A i \in 4 .. 7 : key[i - 4] = e[i - 4]
    BY <1>9
  <2> QED
    BY <1>7, <2>1
<1>11. \A i \in 8 .. 11 : key[i] = e[i]
  <2>1. \A i \in 8 .. 11 : key[i - 4] = e[i - 4]
    BY <1>10
  <2> QED
    BY <1>7, <2>1
<1>12. \A i \in 12 .. 15 : key[i] = e[i]
  <2>1. \A i \in 12 .. 15 : key[i - 4] = e[i - 4]
    BY <1>11
  <2> QED
    BY <1>7, <2>1
<1>13. \A i \in 0 .. 15 : key[i] = e[i]
  BY <1>9, <1>10, <1>11, <1>12
<1>14. key = e
  BY <1>8, <1>13
<1> QED
  BY <1>1, <1>14 DEF e

\* AES-128 with the operations of the RTL.
A == INSTANCE AesTheorems WITH
       Block <- ByteBlock, Xor <- XorBlock, SubShift <- SubShiftBlock,
       MixColumns <- MixColumnsBlock, InvShiftSub <- InvShiftSubBlock,
       InvMixColumns <- InvMixColumnsBlock, ExpandKey <- ExpandKeyBlock

-----------------------------------------------------------------------------
(***************************************************************************)
(* Adding a round key twice takes it away.                                 *)
(***************************************************************************)
LEMMA XorBlockUndone ==
  ASSUME NEW s \in ByteBlock, NEW k \in ByteBlock
  PROVE  XorBlock(s, k) \in ByteBlock /\ XorBlock(XorBlock(s, k), k) = s
<1>1. \A i \in 0 .. 15 : s[i] \in BYTE /\ k[i] \in BYTE
  BY DEF ByteBlock
<1>2. ASSUME NEW i \in 0 .. 15
      PROVE  s[i] (+) k[i] \in BYTE /\ (s[i] (+) k[i]) (+) k[i] = s[i]
  <2>1. s[i] \in BYTE /\ k[i] \in BYTE
    BY <1>1
  <2> QED
    BY <2>1, SameBits, XorIsDifference
<1>3. XorBlock(s, k) = [i \in 0 .. 15 |-> s[i] (+) k[i]]
  BY DEF XorBlock
<1>4. XorBlock(XorBlock(s, k), k) = [i \in 0 .. 15 |-> (s[i] (+) k[i]) (+) k[i]]
  BY <1>3 DEF XorBlock
<1>5. s = [i \in 0 .. 15 |-> s[i]]
  BY DEF ByteBlock
<1> QED
  BY <1>2, <1>3, <1>4, <1>5 DEF ByteBlock

(***************************************************************************)
(* The operations of the RTL stay within its blocks: the assumption        *)
(* Closure of AesAlgebra holds of them.                                    *)
(***************************************************************************)
THEOREM ClosureOfTheBytes == A!Closure
<1>1. \A x, y \in ByteBlock : XorBlock(x, y) \in ByteBlock
  BY XorBlockUndone
<1>2. \A x \in ByteBlock : SubShiftBlock(x) \in ByteBlock /\ InvShiftSubBlock(x) \in ByteBlock
  BY ShiftSubUndone
<1>3. \A x \in ByteBlock : MixColumnsBlock(x) \in ByteBlock /\ InvMixColumnsBlock(x) \in ByteBlock
  BY MixColumnsUndone
<1>4. \A x \in ByteBlock, c \in BYTE : ExpandKeyBlock(x, c) \in ByteBlock
  BY ExpandKeyWords
<1> QED
  BY <1>1, <1>2, <1>3, <1>4 DEF A!Closure, A!Byte, BYTE

(***************************************************************************)
(* The operations of the decryption core undo those of the encryption      *)
(* core, on every block: the assumption Inverses of AesAlgebra holds of    *)
(* them. What AesTheorems proves from the two assumptions, that Decrypt    *)
(* undoes Encrypt, is so true of the bytes of the RTL, of every key and    *)
(* every text.                                                             *)
(***************************************************************************)
THEOREM InversesOfTheBytes == A!Inverses
<1>1. \A x, y \in ByteBlock : XorBlock(XorBlock(x, y), y) = x
  BY XorBlockUndone
<1>2. \A x \in ByteBlock : InvShiftSubBlock(SubShiftBlock(x)) = x
  BY ShiftSubUndone
<1>3. \A x \in ByteBlock : InvMixColumnsBlock(MixColumnsBlock(x)) = x
  BY MixColumnsUndone
<1> QED
  BY <1>1, <1>2, <1>3 DEF A!Inverses

-----------------------------------------------------------------------------
(***************************************************************************)
(* Every operation of the RTL on blocks is that of the standard: adding a  *)
(* round key, the two column transformations and the next round key, on    *)
(* every block.  What is left of a round are the S-box, whose 256 entries  *)
(* SboxesAreTheirFormula enumerates, and the rows, which ShiftSubUndone    *)
(* places.                                                                 *)
(***************************************************************************)
THEOREM OperationsOfTheStandard ==
  ASSUME NEW s \in ByteBlock, NEW k \in ByteBlock, NEW c \in BYTE
  PROVE  /\ XorBlock(s, k) = [i \in 0 .. 15 |-> FieldAdd(s[i], k[i])]
         /\ MixColumnsBlock(s) = ByColumn(MixColumn, s)
         /\ InvMixColumnsBlock(s) = ByColumn(InvMixColumn, s)
         /\ ExpandKeyBlock(k, c) = NextRoundKey(k, c, Sbox)
<1>1. \A i \in 0 .. 15 : s[i] \in BYTE /\ k[i] \in BYTE
  BY DEF ByteBlock
<1>2. XorBlock(s, k) = [i \in 0 .. 15 |-> FieldAdd(s[i], k[i])]
  BY <1>1, FieldAddIsXor DEF XorBlock
<1> DEFINE col(n) == <<s[4 * n], s[4 * n + 1], s[4 * n + 2], s[4 * n + 3]>>
<1>3. ASSUME NEW n \in 0 .. 3
      PROVE  mix_col(col(n)) = MixColumn(col(n)) /\ inv_mix_col(col(n)) = InvMixColumn(col(n))
  <2>1. /\ s[4 * n] \in BYTE /\ s[4 * n + 1] \in BYTE
        /\ s[4 * n + 2] \in BYTE /\ s[4 * n + 3] \in BYTE
    BY <1>1
  <2> QED
    BY <2>1, ColumnsAreTheProducts
<1>4. MixColumnsBlock(s) = ByColumn(MixColumn, s)
  <2>1. /\ MixColumnsBlock(s) = [i \in 0 .. 15 |-> mix_col(col(Col(i)))[Row(i) + 1]]
        /\ ByColumn(MixColumn, s) = [i \in 0 .. 15 |-> MixColumn(col(Col(i)))[Row(i) + 1]]
    BY Places DEF MixColumnsBlock, ByColumn
  <2> HIDE DEF col
  <2> QED
    BY <1>3, <2>1, Places
<1>5. InvMixColumnsBlock(s) = ByColumn(InvMixColumn, s)
  <2>1. /\ InvMixColumnsBlock(s) = [i \in 0 .. 15 |-> inv_mix_col(col(Col(i)))[Row(i) + 1]]
        /\ ByColumn(InvMixColumn, s) = [i \in 0 .. 15 |-> InvMixColumn(col(Col(i)))[Row(i) + 1]]
    BY Places DEF InvMixColumnsBlock, ByColumn
  <2> HIDE DEF col
  <2> QED
    BY <1>3, <2>1, Places
<1> QED
  BY <1>2, <1>4, <1>5, KeyWordsOfTheStandard

-----------------------------------------------------------------------------
\* The state of MCAesBytes: its column and its block are bytes.
TypeOK == a \in BYTE /\ p \in 1 .. 4 /\ fill \in BYTE

(***************************************************************************)
(* The state of MCAesBytes stays within its type, for any set of bytes to  *)
(* fill up with.                                                           *)
(***************************************************************************)
LEMMA TypeOKInvariant == Spec => []TypeOK
<1>1. Init => TypeOK
  BY FillBytes DEF Init, TypeOK, BYTE
<1>2. TypeOK /\ [NextByte \/ NextPlace]_vars => TypeOK'
  <2> SUFFICES ASSUME TypeOK, [NextByte \/ NextPlace]_vars
               PROVE  TypeOK'
    OBVIOUS
  <2>1. CASE NextByte
    BY <2>1 DEF NextByte, TypeOK, BYTE
  <2>2. CASE NextPlace
    BY <2>2 DEF NextPlace, TypeOK
  <2>3. CASE UNCHANGED vars
    BY <2>3 DEF vars, TypeOK
  <2> QED
    BY <2>1, <2>2, <2>3
<1> QED
  BY <1>1, <1>2, PTL DEF Spec

(***************************************************************************)
(* The column and the block of such a state are a column and a block.      *)
(***************************************************************************)
LEMMA Samples ==
  ASSUME TypeOK
  PROVE  /\ Column = <<Column[1], Column[2], Column[3], Column[4]>>
         /\ Column[1] \in BYTE /\ Column[2] \in BYTE /\ Column[3] \in BYTE /\ Column[4] \in BYTE
         /\ SampleBlock \in ByteBlock
<1>1. \A i \in 1 .. 4 : Column[i] \in BYTE
  BY DEF TypeOK, Column
<1>2. Column = <<Column[1], Column[2], Column[3], Column[4]>>
  BY DEF Column
<1>3. SampleBlock \in ByteBlock
  <2>1. \A n \in Nat : n % 256 \in BYTE
    BY DEF BYTE
  <2>2. ASSUME NEW i \in 0 .. 15
        PROVE  a + 17 * Col(i) \in Nat /\ fill + 7 * i \in Nat
    BY Places DEF TypeOK, BYTE
  <2> QED
    BY <2>1, <2>2 DEF SampleBlock, ByteBlock
<1> QED
  BY <1>1, <1>2, <1>3

(***************************************************************************)
(* The property that mix_col and inv_mix_col are the products of the       *)
(* standard and undo each other, with any bytes to fill the column up.     *)
(***************************************************************************)
THEOREM ColumnsAreProductsCorrect == Spec => []ColumnsAreProducts
<1>1. TypeOK => ColumnsAreProducts
  <2> SUFFICES ASSUME TypeOK
               PROVE  ColumnsAreProducts
    OBVIOUS
  <2> DEFINE c1 == Column[1] c2 == Column[2] c3 == Column[3] c4 == Column[4]
  <2>1. Column = <<c1, c2, c3, c4>> /\ c1 \in BYTE /\ c2 \in BYTE /\ c3 \in BYTE /\ c4 \in BYTE
    BY Samples
  <2> HIDE DEF c1, c2, c3, c4
  <2>2. /\ mix_col(<<c1, c2, c3, c4>>) = MixColumn(<<c1, c2, c3, c4>>)
        /\ inv_mix_col(<<c1, c2, c3, c4>>) = InvMixColumn(<<c1, c2, c3, c4>>)
        /\ inv_mix_col(mix_col(<<c1, c2, c3, c4>>)) = <<c1, c2, c3, c4>>
    BY <2>1, ColumnsAreTheProducts, ColumnsUndone
  <2> QED
    BY <2>1, <2>2 DEF ColumnsAreProducts
<1> QED
  BY <1>1, TypeOKInvariant, PTL

(***************************************************************************)
(* The property that the wiring shifts row r by r and is put back.         *)
(***************************************************************************)
THEOREM ShiftsUndoneCorrect == Spec => []ShiftsUndone
<1>1. TypeOK => ShiftsUndone
  BY Samples, ShiftSubUndone DEF ShiftsUndone
<1> QED
  BY <1>1, TypeOKInvariant, PTL

(***************************************************************************)
(* The property that the key words computed side by side are the chain of  *)
(* the standard.                                                           *)
(***************************************************************************)
THEOREM KeyWordsChainCorrect == Spec => []KeyWordsChain
<1>1. TypeOK => KeyWordsChain
  BY Samples, KeyWordsOfTheStandard DEF KeyWordsChain, TypeOK
<1> QED
  BY <1>1, TypeOKInvariant, PTL

(***************************************************************************)
(* The property of the table of the C code.                                *)
(***************************************************************************)
THEOREM TableOfTheCoreCorrect == Spec => []TableOfTheCore
<1>1. TypeOK => TableOfTheCore
  BY TableWords DEF TypeOK, TableOfTheCore
<1> QED
  BY <1>1, TypeOKInvariant, PTL
=============================================================================
