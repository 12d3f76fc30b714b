------------------------------ MODULE AesField ------------------------------
(***************************************************************************)
(* What the combinational logic is for: the field GF(2^8) and the round    *)
(* transformations of FIPS-197, sections 4 and 5, written from their       *)
(* mathematical definitions and not from the RTL.  A byte is a polynomial  *)
(* over GF(2), a column a sequence of four bytes.                          *)
(***************************************************************************)
EXTENDS Integers, FiniteSetsExt

BitOf(a, i) == (a \div 2^i) % 2

SumOf(f) == MapThenSumSet(LAMBDA i : f[i], DOMAIN f)

\* The number with the given bits.
FromBits(bit) == SumOf([i \in DOMAIN bit |-> 2^i * bit[i]])

FieldAdd(a, b) == FromBits([i \in 0 .. 7 |-> (BitOf(a, i) + BitOf(b, i)) % 2])

\* A polynomial of degree below 15 modulo x^8 + x^4 + x^3 + x + 1: r[k] is what
\* is left when its coefficients from k up have been divided away.
Modulo(p) ==
    LET Minus(q, k) ==
          FromBits([i \in 0 .. 14 |-> (BitOf(q, i) + BitOf(283 * 2^(k - 8), i)) % 2])
        r[k \in 8 .. 15] ==
          IF k = 15 THEN p
                    ELSE IF BitOf(r[k + 1], k) = 1 THEN Minus(r[k + 1], k) ELSE r[k + 1]
    IN  r[8]

\* The product of two bytes in the field.
FieldTimes(a, b) ==
    LET Coefficient(k) ==
          SumOf([i \in {i \in 0 .. 7 : k - i \in 0 .. 7} |-> BitOf(a, i) * BitOf(b, k - i)])
    IN  Modulo(FromBits([k \in 0 .. 14 |-> Coefficient(k) % 2]))

\* The affine transformation of SubBytes, (5.1), with its constant {63}.
Affine == [b \in 0 .. 255 |->
    FromBits([i \in 0 .. 7 |->
        (BitOf(99, i) + BitOf(b, i) + SumOf([j \in 4 .. 7 |-> BitOf(b, (i + j) % 8)])) % 2])]

\* A column times a polynomial, (5.6) and (5.10): by a circulant matrix, of which
\* c is the first column.
ColumnTimes(c, s) ==
    LET Term(r, j) == FieldTimes(c[((r - j) % 4) + 1], s[j])
    IN  [r \in 1 .. 4 |-> FieldAdd(FieldAdd(Term(r, 1), Term(r, 2)),
                                   FieldAdd(Term(r, 3), Term(r, 4)))]

MixColumn(s) == ColumnTimes(<<2, 1, 1, 3>>, s)
InvMixColumn(s) == ColumnTimes(<<14, 9, 13, 11>>, s)

\* The next round key, figure 11: each word from the one before it and the one
\* four back, the first of the four through RotWord, SubWord and Rcon.
NextRoundKey(k, rcon, sub(_)) ==
    LET key[i \in 0 .. 15] ==
          IF i < 4 THEN FieldAdd(FieldAdd(k[i], sub(k[12 + ((i + 1) % 4)])),
                                 IF i = 0 THEN rcon ELSE 0)
                   ELSE FieldAdd(k[i], key[i - 4])
    IN  key
=============================================================================
