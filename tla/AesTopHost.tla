----------------------------- MODULE AesTopHost -----------------------------
(***************************************************************************)
(* aes_top with a host that gives it one block at a time: after a reset it *)
(* may ask for the encryption of a block, or, when the key is in, for the  *)
(* decryption of one, but turns to the other core only when the one has    *)
(* answered or has been reset.  It keeps to the rules of PoliteHost, reads *)
(* an output that nothing drives as low, and ignores done in the cycle     *)
(* after a reset.                                                          *)
(***************************************************************************)
EXTENDS AesTop, PoliteHost

VARIABLE last                \* the last block it asked for, and what it asked

hostedVars == <<topVars, last>>

TopJobs == [op : Modes, key : Keys, text : Texts]

\* No other block is in the core, or its answer is out.
CipherFree == cipher!Age \in {0, 12}
DecipherFree == age \in {0, 12}

\* What it may start out of reset.
HostStarts(mode, ld, kld) ==
    /\ ld_e(mode, ld) => known /\ DecipherFree
    /\ ld_d(mode, ld) => MayStart /\ ~kld /\ CipherFree
    /\ kld_d(mode, kld) => MayLoadKey

HostedEdge(mode, rst, ld, kld, key, text) ==
    /\ rst => HostStarts(mode, ld, kld)
    /\ TopEdge(mode, rst, ld, kld, key, text)
    /\ last' = IF rst /\ ld
               THEN [op |-> mode, text |-> text,
                     key |-> IF mode = "encrypt" THEN key ELSE bkey]
               ELSE last

HostedInit == TopInit /\ last \in TopJobs

HostedNext ==
    \E mode \in Modes, rst, ld, kld \in BOOLEAN, key \in Keys, text \in Texts :
        HostedEdge(mode, rst, ld, kld, key, text)

HostedSpec == HostedInit /\ [][HostedNext]_hostedVars

-----------------------------------------------------------------------------
TopAge == IF ~known THEN 0 ELSE IF age # 0 THEN age ELSE cipher!Age

TopDone == d_done = TRUE /\ ~fresh

TopResult(j) ==
    IF j.op = "encrypt" THEN Encrypt(j.key, j.text) ELSE Decrypt(j.key, j.text)

TopEngine == INSTANCE BlockEngine
               WITH Jobs <- TopJobs, Out <- Block \cup {Undriven},
                    Result <- TopResult, Latency <- 12,
                    job <- last, age <- TopAge, done <- TopDone, out <- d_text_out

(***************************************************************************)
(* Through one done and one text_out, with no signal that says which core  *)
(* is speaking, the host gets the answer to the question it asked last, 12 *)
(* cycles after it and for one cycle, and no other: aes_top is a block     *)
(* engine as its cores are.                                                *)
(***************************************************************************)
TopImplementsEngine == TopEngine!EngineSpec
=============================================================================
