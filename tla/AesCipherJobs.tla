--------------------------- MODULE AesCipherJobs ---------------------------
(***************************************************************************)
(* What aes_cipher_top computes for its host.  Two history variables watch *)
(* the core of AesCipher without steering it:                              *)
(*                                                                         *)
(*    known    the core has seen a reset or a load since power-up          *)
(*    job      the key and the text of the last load                       *)
(***************************************************************************)
EXTENDS AesCipher

VARIABLES known, job

vars == <<cipherVars, known, job>>

Jobs == [key : Keys, text : Texts]

JobInit == Init /\ known = FALSE /\ job \in Jobs

JobReset == Reset /\ known' = TRUE /\ UNCHANGED job

\* A load under reset is no job: the core will not raise done for it.
JobResetLoad(key, text) == ResetLoad(key, text) /\ known' = TRUE /\ UNCHANGED job

JobLoad(key, text) ==
    /\ Load(key, text)
    /\ known' = TRUE
    /\ job' = [key |-> key, text |-> text]

JobRound == Round /\ UNCHANGED <<known, job>>

JobNext ==
    \/ JobReset
    \/ JobRound
    \/ \E key \in Keys, text \in Texts : JobResetLoad(key, text) \/ JobLoad(key, text)

Spec == JobInit /\ [][JobNext]_vars

\* The clock keeps running.
FairSpec == Spec /\ WF_vars(JobNext)

-----------------------------------------------------------------------------
(***************************************************************************)
(* Type correctness: the counters keep to their 4 bits, the constant to a  *)
(* byte and the datapath to blocks.                                        *)
(***************************************************************************)
TypeOK ==
    /\ dcnt \in 0 .. 15
    /\ done \in BOOLEAN
    /\ ld_r \in BOOLEAN
    /\ text_in_r \in Block
    /\ sa \in Block
    /\ text_out \in Block
    /\ w \in Block
    /\ rcon \in Byte
    /\ rcnt \in 0 .. 15
    /\ known \in BOOLEAN
    /\ job \in Jobs

-----------------------------------------------------------------------------
Cycle == 12 - dcnt          \* cycles since the last load, while dcnt # 0

\* u0 holds the round key of this cycle and the constant of the next one.
KeysInStep ==
    /\ w = KeySchedule(job.key)[Cycle - 1]
    /\ rcnt = Cycle - 1
    /\ Cycle <= Nr => rcon = Rcon[Cycle]

\* The text waits for its first round key, then goes through the rounds.
StateInStep ==
    /\ ld_r <=> Cycle = 1
    /\ Cycle = 1 => text_in_r = job.text
    /\ Cycle > 1 => sa = CipherRounds(job.key, job.text)[Cycle - 2]

(***************************************************************************)
(* While a block is in progress, three things nothing ties together stay   *)
(* in step: the count of dcnt, the key generator's own counter (which runs *)
(* free and is never reset) and the state array.  done means that the      *)
(* countdown is over and the answer out, after any sequence of resets,     *)
(* loads that cut a block short, and loads under reset.                    *)
(***************************************************************************)
PipelineInv ==
    known => /\ dcnt <= 11
             /\ dcnt > 0 => KeysInStep /\ StateInStep
             /\ done => dcnt = 0 /\ text_out = Encrypt(job.key, job.text)

(***************************************************************************)
(* What done promises: text_out is then the encryption of the last block   *)
(* loaded, never that of a block a later load replaced nor a mix of both.  *)
(***************************************************************************)
ResultCorrect == known /\ done => text_out = Encrypt(job.key, job.text)

(***************************************************************************)
(* The core is a block engine of latency 12: what a host has to know of it *)
(* is BlockEngine, and nothing else.                                       *)
(***************************************************************************)
Age == IF ~known THEN 0 ELSE IF done THEN 12 ELSE IF dcnt = 0 THEN 0 ELSE Cycle

EncryptJob(j) == Encrypt(j.key, j.text)

Engine == INSTANCE BlockEngine
            WITH Out <- Block, Result <- EncryptJob, Latency <- 12,
                 age <- Age, out <- text_out

\* The core implements BlockEngine step by step, from any power-up state.
ImplementsEngine == Engine!EngineSpec

(***************************************************************************)
(* Once the host leaves the core alone it falls idle, whatever the counter *)
(* held at power-up: no countdown survives and done does not come back.    *)
(***************************************************************************)
Quiesces == <>[][JobRound]_vars => <>[](dcnt = 0 /\ ~done)
=============================================================================
