------------------------------ MODULE AesBytes ------------------------------
(***************************************************************************)
(* The combinational logic of the RTL, byte by byte.  A block is 16 bytes, *)
(* the most significant of the 128 bits first, so that sa<r><c> is byte    *)
(* 4c+r and byte j of the key word w<i> is byte 4i+j.                      *)
(***************************************************************************)
EXTENDS Naturals, Sequences

BYTE == 0 .. 255

ByteBlock == [0 .. 15 -> BYTE]

Nibble == 0 .. 15

\* Exclusive or, by nibbles.
XorNibble == [a \in Nibble |-> [b \in Nibble |->
    LET Bit(x, i) == (x \div 2^i) % 2
        X(i) == 2^i * ((Bit(a, i) + Bit(b, i)) % 2)
    IN  X(0) + X(1) + X(2) + X(3)]]

a (+) b == 16 * XorNibble[a \div 16][b \div 16] + XorNibble[a % 16][b % 16]

-----------------------------------------------------------------------------
\* aes_sbox and aes_inv_sbox.
aes_sbox ==
  <<
      99, 124, 119, 123, 242, 107, 111, 197,  48,   1, 103,  43, 254, 215, 171, 118,
     202, 130, 201, 125, 250,  89,  71, 240, 173, 212, 162, 175, 156, 164, 114, 192,
     183, 253, 147,  38,  54,  63, 247, 204,  52, 165, 229, 241, 113, 216,  49,  21,
       4, 199,  35, 195,  24, 150,   5, 154,   7,  18, 128, 226, 235,  39, 178, 117,
       9, 131,  44,  26,  27, 110,  90, 160,  82,  59, 214, 179,  41, 227,  47, 132,
      83, 209,   0, 237,  32, 252, 177,  91, 106, 203, 190,  57,  74,  76,  88, 207,
     208, 239, 170, 251,  67,  77,  51, 133,  69, 249,   2, 127,  80,  60, 159, 168,
      81, 163,  64, 143, 146, 157,  56, 245, 188, 182, 218,  33,  16, 255, 243, 210,
     205,  12,  19, 236,  95, 151,  68,  23, 196, 167, 126,  61, 100,  93,  25, 115,
      96, 129,  79, 220,  34,  42, 144, 136,  70, 238, 184,  20, 222,  94,  11, 219,
     224,  50,  58,  10,  73,   6,  36,  92, 194, 211, 172,  98, 145, 149, 228, 121,
     231, 200,  55, 109, 141, 213,  78, 169, 108,  86, 244, 234, 101, 122, 174,   8,
     186, 120,  37,  46,  28, 166, 180, 198, 232, 221, 116,  31,  75, 189, 139, 138,
     112,  62, 181, 102,  72,   3, 246,  14,  97,  53,  87, 185, 134, 193,  29, 158,
     225, 248, 152,  17, 105, 217, 142, 148, 155,  30, 135, 233, 206,  85,  40, 223,
     140, 161, 137,  13, 191, 230,  66, 104,  65, 153,  45,  15, 176,  84, 187,  22
  >>

aes_inv_sbox ==
  <<
      82,   9, 106, 213,  48,  54, 165,  56, 191,  64, 163, 158, 129, 243, 215, 251,
     124, 227,  57, 130, 155,  47, 255, 135,  52, 142,  67,  68, 196, 222, 233, 203,
      84, 123, 148,  50, 166, 194,  35,  61, 238,  76, 149,  11,  66, 250, 195,  78,
       8,  46, 161, 102,  40, 217,  36, 178, 118,  91, 162,  73, 109, 139, 209,  37,
     114, 248, 246, 100, 134, 104, 152,  22, 212, 164,  92, 204,  93, 101, 182, 146,
     108, 112,  72,  80, 253, 237, 185, 218,  94,  21,  70,  87, 167, 141, 157, 132,
     144, 216, 171,   0, 140, 188, 211,  10, 247, 228,  88,   5, 184, 179,  69,   6,
     208,  44,  30, 143, 202,  63,  15,   2, 193, 175, 189,   3,   1,  19, 138, 107,
      58, 145,  17,  65,  79, 103, 220, 234, 151, 242, 207, 206, 240, 180, 230, 115,
     150, 172, 116,  34, 231, 173,  53, 133, 226, 249,  55, 232,  28, 117, 223, 110,
      71, 241,  26, 113,  29,  41, 197, 137, 111, 183,  98,  14, 170,  24, 190,  27,
     252,  86,  62,  75, 198, 210, 121,  32, 154, 219, 192, 254, 120, 205,  90, 244,
      31, 221, 168,  51, 136,   7, 199,  49, 177,  18,  16,  89,  39, 128, 236,  95,
      96,  81, 127, 169,  25, 181,  74,  13,  45, 229, 122, 159, 147, 201, 156, 239,
     160, 224,  59,  77, 174,  42, 245, 176, 200, 235, 187,  60, 131,  83, 153,  97,
      23,  43,   4, 126, 186, 119, 214,  38, 225, 105,  20,  99,  85,  33,  12, 125
  >>

\* Mutant: one of the constants is wrong in a bit.
SboxWithTypo(b) == IF b = 83 THEN 236 ELSE aes_sbox[b + 1]

Sbox(b) == aes_sbox[b + 1]

InvSbox(b) == aes_inv_sbox[b + 1]

-----------------------------------------------------------------------------
\* xtime: {b[6:0],1'b0}^(8'h1b&{8{b[7]}})
xtime(b) == ((2 * b) % 256) (+) (IF b >= 128 THEN 27 ELSE 0)

\* mix_col, of one column.
mix_col(s) == <<
    xtime(s[1]) (+) xtime(s[2]) (+) s[2] (+) s[3] (+) s[4],
    s[1] (+) xtime(s[2]) (+) xtime(s[3]) (+) s[3] (+) s[4],
    s[1] (+) s[2] (+) xtime(s[3]) (+) xtime(s[4]) (+) s[4],
    xtime(s[1]) (+) s[1] (+) s[2] (+) s[3] (+) xtime(s[4]) >>

pmul_e(b) == LET two == xtime(b) four == xtime(two) eight == xtime(four)
             IN  eight (+) four (+) two
pmul_9(b) == LET two == xtime(b) four == xtime(two) eight == xtime(four)
             IN  eight (+) b
\* Mutant: the product with 11 for the product with 13.
pmul_d_as_b(b) == LET two == xtime(b) four == xtime(two) eight == xtime(four)
                  IN  eight (+) two (+) b

pmul_d(b) == LET two == xtime(b) four == xtime(two) eight == xtime(four)
             IN  eight (+) four (+) b
pmul_b(b) == LET two == xtime(b) four == xtime(two) eight == xtime(four)
             IN  eight (+) two (+) b

\* inv_mix_col, of one column.
inv_mix_col(s) == <<
    pmul_e(s[1]) (+) pmul_b(s[2]) (+) pmul_d(s[3]) (+) pmul_9(s[4]),
    pmul_9(s[1]) (+) pmul_e(s[2]) (+) pmul_b(s[3]) (+) pmul_d(s[4]),
    pmul_d(s[1]) (+) pmul_9(s[2]) (+) pmul_e(s[3]) (+) pmul_b(s[4]),
    pmul_b(s[1]) (+) pmul_d(s[2]) (+) pmul_9(s[3]) (+) pmul_e(s[4]) >>

-----------------------------------------------------------------------------
\* The wiring of sa<r><c>_sr: the column each row of a column is taken from.
ShiftedFrom == << <<0, 1, 2, 3>>, <<1, 2, 3, 0>>, <<2, 3, 0, 1>>, <<3, 0, 1, 2>> >>

\* Mutant: the rows shifted the same way again.
ShiftedAgain == ShiftedFrom

InvShiftedFrom == << <<0, 1, 2, 3>>, <<3, 0, 1, 2>>, <<2, 3, 0, 1>>, <<1, 2, 3, 0>> >>

Row(i) == i % 4
Col(i) == i \div 4

XorBlock(s, k) == [i \in 0 .. 15 |-> s[i] (+) k[i]]

SubShiftBlock(s) == [i \in 0 .. 15 |->
    Sbox(s[4 * ShiftedFrom[Row(i) + 1][Col(i) + 1] + Row(i)])]

InvShiftSubBlock(s) == [i \in 0 .. 15 |->
    InvSbox(s[4 * InvShiftedFrom[Row(i) + 1][Col(i) + 1] + Row(i)])]

\* A function on columns, applied to the four of a block.
ByColumn(f(_), s) ==
    LET column == [c \in 0 .. 3 |->
            f(<<s[4 * c], s[4 * c + 1], s[4 * c + 2], s[4 * c + 3]>>)]
    IN  [i \in 0 .. 15 |-> column[Col(i)][Row(i) + 1]]

MixColumnsBlock(s) == ByColumn(mix_col, s)
InvMixColumnsBlock(s) == ByColumn(inv_mix_col, s)

\* Mutant: the last word is not rotated.
UnrotatedSubword(k) == [j \in 0 .. 3 |-> Sbox(k[12 + j])]

\* The last word, rotated and substituted.
subword(k) == [j \in 0 .. 3 |-> Sbox(k[12 + ((j + 1) % 4)])]

\* w[0] .. w[3] of aes_key_expand_128: each new word is the exclusive or of
\* subword, the round constant and the old words up to its own.
ExpandKeyBlock(k, rcon) ==
    LET sub == subword(k)
        first(j) == sub[j] (+) (IF j = 0 THEN rcon ELSE 0)
        upTo(i, j) == CASE i = 0 -> k[j]
                        [] i = 1 -> k[j] (+) k[4 + j]
                        [] i = 2 -> k[j] (+) k[8 + j] (+) k[4 + j]
                        [] i = 3 -> k[j] (+) k[12 + j] (+) k[8 + j] (+) k[4 + j]
    IN  [i \in 0 .. 15 |-> upTo(Col(i), Row(i)) (+) first(Row(i))]
=============================================================================
