----------------------------- MODULE MCAesBytes -----------------------------
(***************************************************************************)
(* The combinational logic of AesBytes against the mathematics of          *)
(* AesField.  The state is one input: a byte a, at place p of a column     *)
(* whose other bytes are fill.  The logic but for the S-boxes is linear,   *)
(* and every column is a sum of columns with one byte that is not zero.    *)
(***************************************************************************)
EXTENDS AesBytes, AesTable, AesField

CONSTANT Fills       \* what the other three bytes may be

ASSUME FillBytes == Fills \subseteq BYTE

VARIABLES a, p, fill

vars == <<a, p, fill>>

Init == a = 0 /\ p = 1 /\ fill \in Fills

NextByte == a' = (a + 1) % 256 /\ UNCHANGED <<p, fill>>

NextPlace == p < 4 /\ p' = p + 1 /\ UNCHANGED <<a, fill>>

Spec == Init /\ [][NextByte \/ NextPlace]_vars

Column == [i \in 1 .. 4 |-> IF i = p THEN a ELSE fill]

\* A block that has the byte in every column, with sixteen different neighbours.
SampleBlock == [i \in 0 .. 15 |->
    IF Row(i) + 1 = p THEN (a + 17 * Col(i)) % 256 ELSE (fill + 7 * i) % 256]

-----------------------------------------------------------------------------
(***************************************************************************)
(* The table of aes_sbox is inversion in the field and then the affine     *)
(* transformation, and the table of aes_inv_sbox is its inverse: 512 hand  *)
(* typed constants, none of which is wrong.                                *)
(***************************************************************************)
SboxesAreTheirFormula ==
    LET b == CHOOSE b \in BYTE : Affine[b] = Sbox(a)
    IN  /\ IF a = 0 THEN b = 0 ELSE FieldTimes(a, b) = 1
        /\ InvSbox(Sbox(a)) = a

(***************************************************************************)
(* mix_col and inv_mix_col, by shifts and shared terms, are the products   *)
(* with the two polynomials of the standard, and undo each other.          *)
(***************************************************************************)
ColumnsAreProducts ==
    /\ mix_col(Column) = MixColumn(Column)
    /\ inv_mix_col(Column) = InvMixColumn(Column)
    /\ inv_mix_col(mix_col(Column)) = Column

(***************************************************************************)
(* The wiring of sa<r><c>_sr in the encryption core shifts row r left by   *)
(* r, and the wiring in the decryption core puts every byte back.          *)
(***************************************************************************)
ShiftsUndone ==
    /\ \A i \in 0 .. 15 :
         SubShiftBlock(SampleBlock)[i] =
           Sbox(SampleBlock[4 * ((Col(i) + Row(i)) % 4) + Row(i)])
    /\ InvShiftSubBlock(SubShiftBlock(SampleBlock)) = SampleBlock

(***************************************************************************)
(* aes_key_expand_128 computes its four words side by side, each from the  *)
(* old words only; they are the four words the standard chains.            *)
(***************************************************************************)
KeyWordsChain ==
    ExpandKeyBlock(SampleBlock, a) = NextRoundKey(SampleBlock, a, Sbox)

(***************************************************************************)
(* Every entry of the table of the C code holds the S-box of the RTL once, *)
(* twice and three times in the field, in the order its rotations count    *)
(* on: the bench compares two implementations that share no table.         *)
(***************************************************************************)
TableOfTheCore ==
    t0(a) = <<Sbox(a), Sbox(a), FieldTimes(3, Sbox(a)), FieldTimes(2, Sbox(a))>>
=============================================================================
