------------------------------ MODULE MCAesTop ------------------------------
(***************************************************************************)
(* AesTopHost over the small blocks of MCBlocks, under a host that does    *)
(* anything (MCAnySpec) and under one that asks one block at a time        *)
(* (MCHostedSpec).  The first edge is a reset and the second may load a    *)
(* key; then the host acts at most MaxOps times, each time within MaxGap   *)
(* cycles of the last: after 13 nothing is in flight.                      *)
(***************************************************************************)
EXTENDS AesTopHost, AesAlgebra, MCBlocks

CONSTANTS MaxOps, MaxGap

VARIABLES ops, gap

mcVars == <<hostedVars, ops, gap>>

MCInit ==
    /\ HostedInit
    /\ bkey = 2 /\ job = [key |-> 2, text |-> 6]
    /\ job_e = [key |-> 2, text |-> 6]
    /\ last = [op |-> "encrypt", key |-> 2, text |-> 6]
    /\ ~ld_r /\ ~ld_r_e /\ ~kb_ld /\ ~kdone /\ ~go
    /\ ~done /\ dcnt_e = 5 /\ rcnt_e = 9
    /\ ops = 0 /\ gap = 0

\* The host at rest, and the edges that count.  An edge that mode makes the same
\* as another is left out: kld when encrypting, and either mode at rest.
Quiet(rst, ld, kld) == rst /\ ~ld /\ ~kld

Distinct(mode, rst, ld, kld) ==
    /\ mode = "encrypt" => ~kld
    /\ mode = "decrypt" => ld \/ kld

Counted(mode, rst, ld, kld) ==
    /\ Distinct(mode, rst, ld, kld)
    /\ \/ /\ known /\ (kage # 0 \/ ops # 0) /\ Quiet(rst, ld, kld)
          /\ gap < MaxGap /\ gap' = gap + 1
          /\ UNCHANGED ops
       \/ /\ ~known /\ ~rst /\ ~ld /\ ~kld
          /\ UNCHANGED <<ops, gap>>
       \/ /\ known /\ kage = 0 /\ ops = 0 /\ mode = "decrypt" /\ rst /\ kld /\ ~ld
          /\ gap' = 0
          /\ UNCHANGED ops
       \/ /\ known /\ ops < MaxOps /\ ~Quiet(rst, ld, kld)
          /\ ops' = ops + 1
          /\ gap' = 0

\* The bounds are reached: no more is looked at.
Over == ops = MaxOps /\ gap = MaxGap /\ UNCHANGED mcVars

MCAnyNext ==
    \/ Over
    \/ \E mode \in Modes, rst, ld, kld \in BOOLEAN, key \in Keys, text \in Texts :
          /\ Counted(mode, rst, ld, kld)
          /\ TopEdge(mode, rst, ld, kld, key, text)
          /\ UNCHANGED last

MCAnySpec == MCInit /\ [][MCAnyNext]_mcVars

MCHostedNext ==
    \/ Over
    \/ \E mode \in Modes, rst, ld, kld \in BOOLEAN, key \in Keys, text \in Texts :
          /\ Counted(mode, rst, ld, kld)
          /\ ~rst => ~ld /\ ~kld
          /\ HostedEdge(mode, rst, ld, kld, key, text)

MCHostedSpec == MCInit /\ [][MCHostedNext]_mcVars

MCOneKey == {2}
MCOneText == {6}
MCUnknown == {7}
MCUnknownRcon == {0}
MCUnknownCount == {11}
=============================================================================
