----------------------------- MODULE AesAlgebra -----------------------------
(***************************************************************************)
(* What the theorems assume of the operations on blocks: they stay within  *)
(* Block, and each inverse undoes its operation.  The runs over small      *)
(* blocks evaluate these assumptions; MCAesBytes checks the bytes of the   *)
(* RTL against them.                                                       *)
(***************************************************************************)
EXTENDS Aes

ASSUME Closure ==
    /\ \A a, b \in Block : Xor(a, b) \in Block
    /\ \A a \in Block : /\ SubShift(a) \in Block
                        /\ MixColumns(a) \in Block
                        /\ InvShiftSub(a) \in Block
                        /\ InvMixColumns(a) \in Block
    /\ \A a \in Block, c \in Byte : ExpandKey(a, c) \in Block

ASSUME Inverses ==
    /\ \A a, b \in Block : Xor(Xor(a, b), b) = a
    /\ \A a \in Block : InvShiftSub(SubShift(a)) = a
    /\ \A a \in Block : InvMixColumns(MixColumns(a)) = a
=============================================================================
