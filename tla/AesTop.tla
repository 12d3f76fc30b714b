------------------------------- MODULE AesTop -------------------------------
(***************************************************************************)
(* aes_top: the two cores behind one set of ports.  mode says which core   *)
(* ld and kld reach; rst, key and text_in reach both.  The outputs are     *)
(* those of the core that answered last: the always_comb that drives them  *)
(* has no default, and what its assign statements connect stays connected. *)
(*                                                                         *)
(* The names of AesInvCipherJobs are those of the core decipher; those of  *)
(* the core cipher end in _e, as the wires of aes_top do.                  *)
(***************************************************************************)
EXTENDS AesInvCipherJobs

CONSTANT Undriven            \* what an output nothing is connected to shows

ASSUME UndrivenIsNoValue == Undriven \notin Block /\ Undriven \notin BOOLEAN

VARIABLES
    dcnt_e, done_e, ld_r_e, text_in_r_e, sa_e, text_out_e, w_e, rcon_e, rcnt_e,
    known_e, job_e,          \* the history of the core cipher
    shown                    \* the core connected to the outputs

cipher == INSTANCE AesCipherJobs
            WITH dcnt <- dcnt_e, done <- done_e, ld_r <- ld_r_e,
                 text_in_r <- text_in_r_e, sa <- sa_e, text_out <- text_out_e,
                 w <- w_e, rcon <- rcon_e, rcnt <- rcnt_e,
                 known <- known_e, job <- job_e

coreVars_e ==
    <<dcnt_e, done_e, ld_r_e, text_in_r_e, sa_e, text_out_e, w_e, rcon_e, rcnt_e,
      known_e, job_e>>

topVars == <<vars, coreVars_e, shown>>

Modes == {"encrypt", "decrypt"}

-----------------------------------------------------------------------------
\* Mutant: ld reaches the cipher in both modes.
ld_e_always(mode, ld) == ld

\* The first always_comb: which core hears ld and kld.
ld_e(mode, ld) == mode = "encrypt" /\ ld

ld_d(mode, ld) == mode = "decrypt" /\ ld

kld_d(mode, kld) == mode = "decrypt" /\ kld

\* An edge at the core cipher, and at the core decipher.
CipherEdge(rst, ld, key, text) ==
    \/ rst /\ ld /\ cipher!JobLoad(key, text)
    \/ rst /\ ~ld /\ cipher!JobRound
    \/ ~rst /\ ld /\ cipher!JobResetLoad(key, text)
    \/ ~rst /\ ~ld /\ cipher!JobReset

DecipherEdge(rst, ld, kld, key, text) ==
    \/ rst /\ ld /\ kld /\ JobLoadBoth(key, text)
    \/ rst /\ ld /\ ~kld /\ JobLoadText(text)
    \/ rst /\ ~ld /\ kld /\ JobLoadKey(key)
    \/ rst /\ ~ld /\ ~kld /\ JobRun
    \/ /\ ~rst
       /\ JobReset
       /\ IF ld THEN LatchText(text) ELSE NoText
       /\ IF kld THEN LatchKey(key) ELSE NoKey

\* Mutant: the decipher is connected only while the cipher has never answered.
ConnectOnce ==
    shown' = IF done_e' THEN "cipher"
             ELSE IF done' /\ shown # "cipher" THEN "decipher" ELSE shown

\* The second always_comb, at the outputs the edge leaves.
Connect ==
    shown' = IF done_e' THEN "cipher" ELSE IF done' THEN "decipher" ELSE shown

d_done ==
    CASE shown = "cipher" -> done_e [] shown = "decipher" -> done [] OTHER -> Undriven

d_text_out ==
    CASE shown = "cipher" -> text_out_e [] shown = "decipher" -> text_out
      [] OTHER -> Undriven

TopEdge(mode, rst, ld, kld, key, text) ==
    /\ CipherEdge(rst, ld_e(mode, ld), key, text)
    /\ DecipherEdge(rst, ld_d(mode, ld), kld_d(mode, kld), key, text)
    /\ Connect

TopInit ==
    /\ JobInit
    /\ cipher!JobInit
    /\ shown = IF done_e THEN "cipher" ELSE IF done THEN "decipher" ELSE "none"

TopNext ==
    \E mode \in Modes, rst, ld, kld \in BOOLEAN, key \in Keys, text \in Texts :
        TopEdge(mode, rst, ld, kld, key, text)

TopSpec == TopInit /\ [][TopNext]_topVars

-----------------------------------------------------------------------------
(***************************************************************************)
(* Whatever the host does with mode, an answer reaches the outputs in the  *)
(* one cycle it is there for: that of the cipher always, that of the       *)
(* decipher if the host kept to the decipher's rules.  The output takes    *)
(* one of two answers that come together, so this says that a clean        *)
(* decryption never ends with an encryption: they take equally long, and   *)
(* mode lets one ld start only one of them.                                *)
(***************************************************************************)
AnswersShown ==
    /\ known_e /\ done_e =>
         d_done = TRUE /\ d_text_out = Encrypt(job_e.key, job_e.text)
    /\ clean /\ done =>
         d_done = TRUE /\ d_text_out = Decrypt(job.key, job.text)
=============================================================================
