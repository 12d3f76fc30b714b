--------------------------- MODULE MCAesInvCipher ---------------------------
(***************************************************************************)
(* AesInvCipherJobs over the small blocks of MCBlocks.  After a first      *)
(* reset the host acts at most MaxOps times, in any way and at any cycle   *)
(* of the MaxGap that follow the last time.  After 13 cycles nothing is in *)
(* flight any more: a longer wait only turns the free-running counters.    *)
(***************************************************************************)
EXTENDS AesInvCipherJobs, AesAlgebra, MCBlocks

CONSTANTS MaxOps, MaxGap

VARIABLES
    ops,        \* host actions since the first reset
    gap         \* cycles since the last one, up to MaxGap

mcVars == <<vars, ops, gap>>

MCInit ==
    /\ JobInit
    /\ bkey = 2 /\ job = [key |-> 2, text |-> 6]
    /\ ops = 0 /\ gap = 0

HostActs ==
    \/ JobReset
    \/ \E text \in Texts : JobLoadText(text)
    \/ \E key \in Keys : JobLoadKey(key)
    \/ \E key \in Keys, text \in Texts : JobLoadBoth(key, text)

MCNext ==
    \/ JobRun /\ gap' = (IF gap < MaxGap THEN gap + 1 ELSE gap) /\ UNCHANGED ops
    \/ ops = 0 /\ ~known /\ JobReset /\ UNCHANGED <<ops, gap>>
    \/ ops < MaxOps /\ gap < MaxGap /\ HostActs /\ ops' = ops + 1 /\ gap' = 0

MCSpec == MCInit /\ [][MCNext]_mcVars /\ WF_mcVars(MCNext)

MCUnknown == {7}
MCUnknownRcon == {0}
MCUnknownCount == {11}
MCOneText == {6}
MCManyCounts == {0, 6, 11, 15}
=============================================================================
