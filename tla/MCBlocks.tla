------------------------------ MODULE MCBlocks ------------------------------
(***************************************************************************)
(* Blocks of three bits for TLC, with small invertible round operations    *)
(* that meet AesAlgebra.                                                   *)
(***************************************************************************)
EXTENDS Naturals

MCBlock == 0 .. 7

LOCAL Bit(a, i) == (a \div 2^i) % 2

\* The operations are tables, which TLC makes once.
LOCAL Sum ==
    [a, b \in MCBlock |->
       LET X(i) == (Bit(a, i) + Bit(b, i)) % 2
       IN  X(0) + 2 * X(1) + 4 * X(2)]

\* A permutation that is not linear, as the S-box; with it the key generator
\* comes back to where it was after 16 idle cycles.
LOCAL Sub == <<1, 7, 5, 2, 3, 4, 0, 6>>

LOCAL InvSub == [b \in MCBlock |-> CHOOSE a \in MCBlock : Sub[a + 1] = b]

\* Each of the constants 1 2 4 8 .. 54 adds bits that are not all zero.
LOCAL Folded == [c \in 0 .. 255 |-> (c + (c \div 8) + (c \div 64)) % 8]

MCXor(a, b) == Sum[a, b]

MCSubShift(a) == Sub[a + 1]
MCInvShiftSub(a) == InvSub[a]

\* A linear one, as MixColumns: a rotation of the bits.
MCMixColumns(a) == ((2 * a) % 8) + (a \div 4)
MCInvMixColumns(a) == (a \div 2) + (4 * (a % 2))

MCExpandKey(k, c) == MCXor(MCSubShift(k), Folded[c])

MCKeys == {2, 5}
MCTexts == {0, 6}
=============================================================================
