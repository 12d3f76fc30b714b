------------------------------ MODULE Fips197 ------------------------------
(***************************************************************************)
(* AES with keys of 4, 6 and 8 words as FIPS-197 writes it down, sections  *)
(* 5.1 and 5.2: the reference for the software of the repository.  A word  *)
(* is four bytes, a state four words, its columns.  It is written from the *)
(* standard, with the field of AesField and the S-box that AesBytes is     *)
(* checked to have right.                                                  *)
(***************************************************************************)
EXTENDS AesBytes, AesField

Times2 == [b \in BYTE |-> FieldTimes(2, b)]
Times3 == [b \in BYTE |-> FieldTimes(3, b)]

WordAdd(a, b) == <<a[1] (+) b[1], a[2] (+) b[2], a[3] (+) b[3], a[4] (+) b[4]>>

SubWord(a) == <<Sbox(a[1]), Sbox(a[2]), Sbox(a[3]), Sbox(a[4])>>
RotWord(a) == <<a[2], a[3], a[4], a[1]>>

\* x^(i-1) in the field.
RoundConstant[i \in 1 .. 10] == IF i = 1 THEN 1 ELSE Times2[RoundConstant[i - 1]]

\* W with the next word of figure 11, for a key of Nk words.
Extended(W, Nk) ==
    LET i == Len(W)
        temp == IF i % Nk = 0
                  THEN WordAdd(SubWord(RotWord(W[i])), <<RoundConstant[i \div Nk], 0, 0, 0>>)
                ELSE IF Nk > 6 /\ i % Nk = 4 THEN SubWord(W[i])
                ELSE W[i]
    IN  Append(W, WordAdd(W[i - Nk + 1], temp))

\* The words of a cipher key and of the round keys, from W[1].
KeyWords(key) ==
    LET Nk == Len(key)
        W[n \in 0 .. 3 * Nk + 28] == IF n = 0 THEN key ELSE Extended(W[n - 1], Nk)
    IN  W[3 * Nk + 28]

Columns(column(_)) == <<column(1), column(2), column(3), column(4)>>

\* w[4r, 4r+3], by columns.
RoundKey(W, r) == Columns(LAMBDA c : W[4 * r + c])

AddKey(s, k) == Columns(LAMBDA c : WordAdd(s[c], k[c]))

SubShiftColumns(s) == Columns(LAMBDA c :
    LET from(r) == Sbox(s[((c + r - 2) % 4) + 1][r])
    IN  <<from(1), from(2), from(3), from(4)>>)

MixColumns(s) == Columns(LAMBDA c :
    LET a == s[c]
        row(r) == Times2[a[r]] (+) Times3[a[(r % 4) + 1]]
                    (+) a[((r + 1) % 4) + 1] (+) a[((r + 2) % 4) + 1]
    IN  <<row(1), row(2), row(3), row(4)>>)

\* The states after the rounds of figure 5, from that with the key added, which is
\* the state after round 0; that after round Nr is the ciphertext.
CipherStates(key, text) ==
    LET Nr == Len(key) + 6
        W == KeyWords(key)
        S[r \in 0 .. Nr] ==
          IF r = 0 THEN AddKey(text, RoundKey(W, 0))
          ELSE IF r < Nr THEN AddKey(MixColumns(SubShiftColumns(S[r - 1])), RoundKey(W, r))
          ELSE AddKey(SubShiftColumns(S[r - 1]), RoundKey(W, r))
    IN  S
=============================================================================
