---------------------------- MODULE MCAesCipher ----------------------------
(***************************************************************************)
(* AesCipherJobs over the small blocks of MCBlocks.                        *)
(***************************************************************************)
EXTENDS AesCipherJobs, AesAlgebra, MCBlocks

MCUnknown == {1, 4}
MCUnknownRcon == {0, 64}
=============================================================================
