------------------------------- MODULE PyAes -------------------------------
(***************************************************************************)
(* The block encryption of aes.py: KeyExpansion and Cipher.  One step is   *)
(* one round of Cipher.  The state is four rows, each a list of columns,   *)
(* and lists count from 1 here.                                            *)
(***************************************************************************)
EXTENDS AesBytes

CONSTANT Calls           \* the calls to look at: [key, text], lists of bytes

VARIABLES
    call,
    w,                   \* the key schedule, a list of words
    state,
    round

pyVars == <<call, w, state, round>>

Nb == 4

-----------------------------------------------------------------------------
Rcon == <<0, 1, 2, 4, 8, 16, 32, 64, 128, 27, 54>>

\* The script has a table of its own.
PySbox ==
  <<
       99, 124, 119, 123, 242, 107, 111, 197,  48,   1, 103,  43, 254, 215, 171, 118,
      202, 130, 201, 125, 250,  89,  71, 240, 173, 212, 162, 175, 156, 164, 114, 192,
      183, 253, 147,  38,  54,  63, 247, 204,  52, 165, 229, 241, 113, 216,  49,  21,
        4, 199,  35, 195,  24, 150,   5, 154,   7,  18, 128, 226, 235,  39, 178, 117,
        9, 131,  44,  26,  27, 110,  90, 160,  82,  59, 214, 179,  41, 227,  47, 132,
       83, 209,   0, 237,  32, 252, 177,  91, 106, 203, 190,  57,  74,  76,  88, 207,
      208, 239, 170, 251,  67,  77,  51, 133,  69, 249,   2, 127,  80,  60, 159, 168,
       81, 163,  64, 143, 146, 157,  56, 245, 188, 182, 218,  33,  16, 255, 243, 210,
      205,  12,  19, 236,  95, 151,  68,  23, 196, 167, 126,  61, 100,  93,  25, 115,
       96, 129,  79, 220,  34,  42, 144, 136,  70, 238, 184,  20, 222,  94,  11, 219,
      224,  50,  58,  10,  73,   6,  36,  92, 194, 211, 172,  98, 145, 149, 228, 121,
      231, 200,  55, 109, 141, 213,  78, 169, 108,  86, 244, 234, 101, 122, 174,   8,
      186, 120,  37,  46,  28, 166, 180, 198, 232, 221, 116,  31,  75, 189, 139, 138,
      112,  62, 181, 102,  72,   3, 246,  14,  97,  53,  87, 185, 134, 193,  29, 158,
      225, 248, 152,  17, 105, 217, 142, 148, 155,  30, 135, 233, 206,  85,  40, 223,
      140, 161, 137,  13, 191, 230,  66, 104,  65, 153,  45,  15, 176,  84, 187,  22
  >>

SubWord(a) == <<PySbox[a[1] + 1], PySbox[a[2] + 1], PySbox[a[3] + 1], PySbox[a[4] + 1]>>

RotWord(a) == <<a[2], a[3], a[4], a[1]>>

XorWord(a, b) == <<a[1] (+) b[1], a[2] (+) b[2], a[3] (+) b[3], a[4] (+) b[4]>>

\* Mutant: the second substitution of long keys is left out.
ExpandedShort(ws, Nk) ==
    LET i == Len(ws)
        temp == ws[i]
    IN  Append(ws, XorWord(ws[i - Nk + 1],
          IF i % Nk = 0 THEN XorWord(SubWord(RotWord(temp)), <<Rcon[i \div Nk + 1], 0, 0, 0>>)
          ELSE temp))

\* ws with one more word.
Expanded(ws, Nk) ==
    LET i == Len(ws)
        temp == ws[i]
    IN  Append(ws, XorWord(ws[i - Nk + 1],
          IF i % Nk = 0 THEN XorWord(SubWord(RotWord(temp)), <<Rcon[i \div Nk + 1], 0, 0, 0>>)
          ELSE IF Nk > 6 /\ i % Nk = 4 THEN SubWord(temp)
          ELSE temp))

KeyExpansion(key) ==
    LET Nk == Len(key) \div 4
        ws[n \in 0 .. Nb * (Nk + 7) - Nk] ==
          IF n = 0 THEN [i \in 1 .. Nk |-> SubSeq(key, 4 * i - 3, 4 * i)]
                   ELSE Expanded(ws[n - 1], Nk)
    IN  ws[Nb * (Nk + 7) - Nk]

-----------------------------------------------------------------------------
SubBytes(s) == [r \in 1 .. 4 |-> [c \in 1 .. Nb |-> PySbox[s[r][c] + 1]]]

\* Mutant: by columns.
ShiftColumns(s) == [r \in 1 .. 4 |-> [c \in 1 .. Nb |-> s[((c + r - 2) % Nb) + 1][c]]]

ShiftRows(s) == [r \in 1 .. 4 |-> [c \in 1 .. Nb |-> s[r][((c + r - 2) % Nb) + 1]]]

\* b[i] = s[i][c] << 1, reduced: the double of a byte.
doubled(a) == IF a >= 128 THEN ((2 * a) % 256) (+) 27 ELSE 2 * a

MixColumns(s) == [r \in 1 .. 4 |-> [c \in 1 .. Nb |->
    LET a(n) == s[((r + n - 1) % 4) + 1][c]
    IN  doubled(a(0)) (+) a(1) (+) doubled(a(1)) (+) a(2) (+) a(3)]]

AddRoundKey(s, ws, rnd) ==
    [r \in 1 .. 4 |-> [c \in 1 .. Nb |-> s[r][c] (+) ws[4 * rnd + c][r]]]

\* state[i % 4][i // 4] = input[i], and back again.
ByRows(input) == [r \in 1 .. 4 |-> [c \in 1 .. Nb |-> input[4 * (c - 1) + r]]]

output == [i \in 1 .. 16 |-> state[((i - 1) % 4) + 1][((i - 1) \div 4) + 1]]

Nr == Len(w) \div Nb - 1

Round ==
    /\ round < Nr
    /\ state' = AddRoundKey(MixColumns(ShiftRows(SubBytes(state))), w, round)
    /\ round' = round + 1
    /\ UNCHANGED <<call, w>>

LastRound ==
    /\ round = Nr
    /\ state' = AddRoundKey(ShiftRows(SubBytes(state)), w, round)
    /\ round' = round + 1
    /\ UNCHANGED <<call, w>>

\* Cipher is called with the input and KeyExpansion of the key.
CipherInit ==
    \E c \in Calls :
      /\ call = c
      /\ w = KeyExpansion(c.key)
      /\ state = AddRoundKey(ByRows(c.text), w, 0)
      /\ round = 1

CipherNext == Round \/ LastRound

CipherSpec == CipherInit /\ [][CipherNext]_pyVars
=============================================================================
