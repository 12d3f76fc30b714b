---------------------------- MODULE MCPoliteHost ----------------------------
(***************************************************************************)
(* PoliteHost over the small blocks of MCBlocks, bounded as                *)
(* MCAesInvCipher: after a first reset the host acts at most MaxOps times, *)
(* each time within MaxGap cycles of the last.                             *)
(***************************************************************************)
EXTENDS PoliteHost, AesAlgebra, MCBlocks

CONSTANTS MaxOps, MaxGap

VARIABLES ops, gap

mcVars == <<vars, ops, gap>>

MCInit ==
    /\ JobInit
    /\ bkey = 2 /\ job = [key |-> 2, text |-> 6]
    /\ ops = 0 /\ gap = 0

HostActs ==
    \/ JobReset
    \/ \E text \in Texts : PoliteLoadText(text)
    \/ \E key \in Keys : PoliteLoadKey(key)

MCNext ==
    \/ JobRun /\ gap' = (IF gap < MaxGap THEN gap + 1 ELSE gap) /\ UNCHANGED ops
    \/ ~known /\ JobReset /\ UNCHANGED <<ops, gap>>
    \/ known /\ ops < MaxOps /\ gap < MaxGap /\ HostActs /\ ops' = ops + 1 /\ gap' = 0

MCSpec == MCInit /\ [][MCNext]_mcVars

MCOneText == {6}
MCUnknown == {7}
MCUnknownRcon == {0}
MCUnknownCount == {11}
=============================================================================
