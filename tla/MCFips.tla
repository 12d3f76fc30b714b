------------------------------- MODULE MCFips -------------------------------
(***************************************************************************)
(* aes_top with the logic of the RTL on the examples of FIPS-197, under    *)
(* the host of AesTopHost.  After a reset and a first key the host acts at *)
(* most MaxOps times, when the gap since the last time is in ActGaps (a    *)
(* key may come 8 cycles after a text, a text 11 after a key or a text),   *)
(* and is observed until the gap is MaxGap.                                *)
(***************************************************************************)
EXTENDS AesTopHost, FipsVectors

CONSTANTS MaxOps, MaxGap, ActGaps

VARIABLES ops, gap

mcVars == <<hostedVars, ops, gap>>

Examples == {[key |-> KeyB, plain |-> PlainB, cipher |-> CipherB],
             [key |-> KeyC, plain |-> PlainC, cipher |-> CipherC]}

MCInit ==
    /\ HostedInit
    /\ bkey = KeyB /\ job = [key |-> KeyB, text |-> CipherB]
    /\ job_e = [key |-> KeyB, text |-> PlainB]
    /\ last = [op |-> "encrypt", key |-> KeyB, text |-> PlainB]
    /\ ~ld_r /\ ~ld_r_e /\ ~kb_ld /\ ~kdone /\ ~go
    /\ ~done /\ dcnt_e = 11 /\ rcnt_e = 3
    /\ ops = 0 /\ gap = 0

Clocked(mode, ld, kld, key, text) ==
    HostedEdge(mode, TRUE, ld, kld, key, text)

Quiet == Clocked("encrypt", FALSE, FALSE, KeyB, PlainB)

LoadKeyOf(x) == Clocked("decrypt", FALSE, TRUE, x.key, x.cipher)

HostActs ==
    \/ HostedEdge("encrypt", FALSE, FALSE, FALSE, KeyB, PlainB)
    \/ \E x \in Examples :
         \/ LoadKeyOf(x)
         \/ Clocked("encrypt", TRUE, FALSE, x.key, x.plain)
         \/ bkey = x.key /\ Clocked("decrypt", TRUE, FALSE, x.key, x.cipher)

Started == known /\ (kage # 0 \/ ops # 0)

MCNext ==
    \/ ~known /\ HostedEdge("encrypt", FALSE, FALSE, FALSE, KeyB, PlainB)
         /\ UNCHANGED <<ops, gap>>
    \/ known /\ ~Started /\ UNCHANGED <<ops, gap>>
         /\ \E x \in Examples : LoadKeyOf(x)
    \/ Started /\ gap < MaxGap /\ Quiet /\ gap' = gap + 1 /\ UNCHANGED ops
    \/ Started /\ ops < MaxOps /\ gap \in ActGaps /\ HostActs /\ ops' = ops + 1 /\ gap' = 0
    \/ gap = MaxGap /\ UNCHANGED mcVars

MCSpec == MCInit /\ [][MCNext]_mcVars

MCTexts == PlainTexts \cup CipherTexts
MCUnknown == {[i \in 0 .. 15 |-> 99]}
MCUnknownRcon == {0}
MCUnknownCount == {11}

-----------------------------------------------------------------------------
(***************************************************************************)
(* done in the one mode means the ciphertext of the standard, for the      *)
(* example asked last, also when it follows on a decryption, on a block    *)
(* cut short or on a reset.                                                *)
(***************************************************************************)
KnownAnswerCipher ==
    \A x \in Examples :
        known /\ TopDone /\ last = [op |-> "encrypt", key |-> x.key, text |-> x.plain]
          => d_text_out = x.cipher

(***************************************************************************)
(* done in the other mode means the plaintext of the standard, also when   *)
(* the next key is already being loaded, or an encryption or a reset came  *)
(* between.                                                                *)
(***************************************************************************)
KnownAnswerInvCipher ==
    \A x \in Examples :
        known /\ TopDone /\ last = [op |-> "decrypt", key |-> x.key, text |-> x.cipher]
          => d_text_out = x.plain
=============================================================================
