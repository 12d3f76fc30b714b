-------------------------------- MODULE Aes --------------------------------
(***************************************************************************)
(* AES-128 as FIPS-197 defines it, over abstract 128-bit blocks: the       *)
(* reference the hardware is compared with.  The operations on one block   *)
(* are parameters; AesBytes gives the ones of the RTL, byte by byte.       *)
(***************************************************************************)
EXTENDS Naturals

CONSTANTS
    Block,               \* 128-bit values: keys, round keys, states, texts
    Xor(_, _),           \* AddRoundKey
    SubShift(_),         \* SubBytes, then ShiftRows
    MixColumns(_),
    InvShiftSub(_),      \* InvShiftRows, then InvSubBytes
    InvMixColumns(_),
    ExpandKey(_, _)      \* the next round key, of a round key and a constant

Byte == 0 .. 255

Nr == 10                 \* rounds of AES-128

\* The round constants x^(i-1) of FIPS-197, figure 11.
Rcon == <<1, 2, 4, 8, 16, 32, 64, 128, 27, 54>>

\* The round keys of a cipher key, by round.
KeySchedule(key) ==
    LET K[r \in 0 .. Nr] == IF r = 0 THEN key ELSE ExpandKey(K[r - 1], Rcon[r])
    IN  K

\* One round of the cipher, and one of the inverse cipher, under a round key.
CipherRound(s, k) == Xor(MixColumns(SubShift(s)), k)

InvCipherRound(s, k) == InvMixColumns(Xor(InvShiftSub(s), k))

\* The states of the cipher after its first 0 .. Nr-1 rounds.
CipherRounds(key, text) ==
    LET S[r \in 0 .. Nr - 1] ==
          IF r = 0 THEN Xor(text, KeySchedule(key)[0])
                   ELSE CipherRound(S[r - 1], KeySchedule(key)[r])
    IN  S

Encrypt(key, text) ==
    Xor(SubShift(CipherRounds(key, text)[Nr - 1]), KeySchedule(key)[Nr])

\* The states of the inverse cipher, which takes the round keys backwards.
InvCipherRounds(key, text) ==
    LET S[r \in 0 .. Nr - 1] ==
          IF r = 0 THEN Xor(text, KeySchedule(key)[Nr])
                   ELSE InvCipherRound(S[r - 1], KeySchedule(key)[Nr - r])
    IN  S

Decrypt(key, text) ==
    Xor(InvShiftSub(InvCipherRounds(key, text)[Nr - 1]), KeySchedule(key)[0])
=============================================================================
