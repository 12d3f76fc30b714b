---------------------------- MODULE FipsLongKeys ----------------------------
(***************************************************************************)
(* The examples of FIPS-197 for keys of Nk = 4, 6 and 8 words, and keys of *)
(* equal bytes, as lists of bytes.                                         *)
(***************************************************************************)
EXTENDS Naturals, Sequences

EqualBytes(b, n) == [j \in 1 .. 4 * n |-> b]

\* appendix C: the key 00 01 02 .., the text 00 11 22 .. and the ciphertexts.
KeyC(Nk) == [j \in 1 .. 4 * Nk |-> j - 1]

TextC == [j \in 1 .. 16 |-> 17 * (j - 1)]

CipherC(Nk) ==
    CASE Nk = 4 -> <<105, 196, 224, 216, 106, 123, 4, 48,
                     216, 205, 183, 128, 112, 180, 197, 90>>
      [] Nk = 6 -> <<221, 169, 124, 164, 134, 76, 223, 224,
                     110, 175, 112, 160, 236, 13, 113, 145>>
      [] Nk = 8 -> <<142, 162, 183, 202, 81, 103, 69, 191,
                     234, 252, 73, 144, 75, 73, 96, 137>>

\* appendices A.1, A.2 and A.3
KeyA(Nk) ==
    CASE Nk = 4 -> <<43, 126, 21, 22, 40, 174, 210, 166, 171, 247, 21, 136, 9, 207, 79, 60>>
      [] Nk = 6 -> <<142, 115, 176, 247, 218, 14, 100, 82, 200, 16, 243, 43,
                     128, 144, 121, 229, 98, 248, 234, 210, 82, 44, 107, 123>>
      [] Nk = 8 -> <<96, 61, 235, 16, 21, 202, 113, 190, 43, 115, 174, 240, 133, 125, 119, 129,
                     31, 53, 44, 7, 59, 97, 8, 215, 45, 152, 16, 163, 9, 20, 223, 244>>

SampleKeys(Nk) == {KeyC(Nk), KeyA(Nk), EqualBytes(0, Nk), EqualBytes(255, Nk)}

SampleTexts == {TextC, EqualBytes(0, 4), EqualBytes(165, 4)}

\* A list of bytes in words.
InWords(bytes) == [c \in 1 .. (Len(bytes) \div 4) |-> SubSeq(bytes, 4 * c - 3, 4 * c)]
=============================================================================
