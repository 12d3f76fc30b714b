----------------------------- MODULE FipsVectors -----------------------------
(***************************************************************************)
(* The two examples of AES-128 in FIPS-197, as blocks of AesBytes.         *)
(***************************************************************************)
EXTENDS AesBytes

Vector(bytes) == [i \in 0 .. 15 |-> bytes[i + 1]]

\* appendix B
KeyB == Vector(<<43, 126, 21, 22, 40, 174, 210, 166, 171, 247, 21, 136, 9, 207, 79, 60>>)
PlainB == Vector(<<50, 67, 246, 168, 136, 90, 48, 141, 49, 49, 152, 162, 224, 55, 7, 52>>)
CipherB == Vector(<<57, 37, 132, 29, 2, 220, 9, 251, 220, 17, 133, 151, 25, 106, 11, 50>>)

\* appendix C.1
KeyC == Vector(<<0, 1, 2, 3, 4, 5, 6, 7, 8, 9, 10, 11, 12, 13, 14, 15>>)
PlainC == Vector(<<0, 17, 34, 51, 68, 85, 102, 119, 136, 153, 170, 187, 204, 221, 238, 255>>)
CipherC == Vector(<<105, 196, 224, 216, 106, 123, 4, 48, 216, 205, 183, 128, 112, 180, 197, 90>>)

FipsKeys == {KeyB, KeyC}
PlainTexts == {PlainB, PlainC}
CipherTexts == {CipherB, CipherC}
=============================================================================
