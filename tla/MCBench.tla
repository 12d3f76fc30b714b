------------------------------ MODULE MCBench ------------------------------
(***************************************************************************)
(* Bench over the small blocks of MCBlocks: their three bits turned round  *)
(* stand for the sixteen bytes.                                            *)
(***************************************************************************)
EXTENDS Bench, AesAlgebra, MCBlocks

MCReversed(b) == (4 * (b % 2)) + (2 * ((b \div 2) % 2)) + (b \div 4)

MCUnknown == {7}
MCUnknownRcon == {0}

EarlyResets == 0 .. 12
LateResets == {13, 14}
NonZero == {TRUE}
=============================================================================
