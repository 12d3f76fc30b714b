----------------------------- MODULE PoliteHost -----------------------------
(***************************************************************************)
(* aes_inv_cipher_top with a host that keeps to its side: to such a host   *)
(* the decryption core is the same block engine as the encryption core.    *)
(* The host may reset the core and load keys when it likes, except in the  *)
(* first eight cycles of a decryption, and it ignores done in the cycle    *)
(* after a reset: the core does not clear it.                              *)
(***************************************************************************)
EXTENDS AesInvCipherJobs

PoliteLoadText(text) == MayStart /\ JobLoadText(text)

PoliteLoadKey(key) == MayLoadKey /\ JobLoadKey(key)

PoliteNext ==
    \/ JobReset
    \/ JobRun
    \/ \E text \in Texts : PoliteLoadText(text)
    \/ \E key \in Keys : PoliteLoadKey(key)

PoliteSpec == JobInit /\ [][PoliteNext]_vars

(***************************************************************************)
(* A host that keeps to its side has every decryption clean, and finds the *)
(* core ready when its clock says so: what the host must know, its own     *)
(* clock and done, is all it needs.                                        *)
(***************************************************************************)
AlwaysReady ==
    /\ age > 0 => clean
    /\ known /\ age = 0 => dcnt = 0 /\ ~go

DecryptJob(j) == Decrypt(j.key, j.text)

Engine == INSTANCE BlockEngine
            WITH Out <- Block, Result <- DecryptJob, Latency <- 12,
                 done <- done /\ ~fresh, out <- text_out

(***************************************************************************)
(* The core and its host implement BlockEngine: every text started is      *)
(* answered by its decryption after 12 cycles, for one cycle, and nothing  *)
(* else is ever announced, whichever keys are loaded meanwhile.            *)
(***************************************************************************)
ImplementsEngine == Engine!EngineSpec
=============================================================================
