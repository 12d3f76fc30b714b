-------------------------- MODULE AesInvCipherJobs --------------------------
(***************************************************************************)
(* What aes_inv_cipher_top computes for a host that presents anything at   *)
(* any time.  History variables watch the core of AesInvCipher:            *)
(*                                                                         *)
(*    known    a reset has been seen                                       *)
(*    fresh    the last edge was a reset                                   *)
(*    bkey     the last key loaded                                         *)
(*    kage     cycles since, 12 when the buffer holds all of it, 0 when a  *)
(*             reset cut the loading short                                 *)
(*    job      the key and the text of the last decryption started         *)
(*    age      cycles since, 0 when there is none                          *)
(*    clean    it is in progress, and the host kept to its side            *)
(*                                                                         *)
(* The host's side: it starts a decryption when the buffer is full, the    *)
(* last decryption is over and done is low; and it loads no other key in   *)
(* the eight cycles that follow.                                           *)
(***************************************************************************)
EXTENDS AesInvCipher

VARIABLES known, fresh, bkey, kage, job, age, clean

hostVars == <<known, fresh, bkey, kage, job, age, clean>>

vars == <<textVars, keyBufferVars, hostVars>>

Jobs == [key : Keys, text : Texts]

MayStart == known /\ kage = 12 /\ age = 0 /\ ~done

MayLoadKey == age \notin 1 .. 8

StaysClean == clean /\ age # 12

Older(a) == IF a \in 1 .. 11 THEN a + 1 ELSE a

-----------------------------------------------------------------------------
JobInit ==
    /\ Init
    /\ known = FALSE /\ fresh = FALSE /\ clean = FALSE
    /\ kage = 0 /\ age = 0
    /\ bkey \in Keys
    /\ job \in Jobs

\* A reset at kage 11 comes too late to keep the last round key out.
JobReset ==
    /\ Reset
    /\ known' = TRUE /\ fresh' = TRUE
    /\ kage' = IF kage >= 11 THEN 12 ELSE 0
    /\ age' = 0 /\ clean' = FALSE
    /\ UNCHANGED <<bkey, job>>

TextAges ==
    /\ age' = IF age = 12 THEN 0 ELSE Older(age)
    /\ UNCHANGED job

TextStarts(text) ==
    /\ age' = 1
    /\ job' = [key |-> bkey, text |-> text]

KeyAges == kage' = Older(kage) /\ UNCHANGED bkey

KeyStarts(key) == kage' = 1 /\ bkey' = key

JobLoadText(text) ==
    /\ LoadText(text)
    /\ TextStarts(text) /\ KeyAges
    /\ clean' = MayStart
    /\ fresh' = FALSE /\ UNCHANGED known

JobLoadKey(key) ==
    /\ LoadKey(key)
    /\ TextAges /\ KeyStarts(key)
    /\ clean' = (StaysClean /\ MayLoadKey)
    /\ fresh' = FALSE /\ UNCHANGED known

JobLoadBoth(key, text) ==
    /\ LoadBoth(key, text)
    /\ TextStarts(text) /\ KeyStarts(key)
    /\ clean' = FALSE
    /\ fresh' = FALSE /\ UNCHANGED known

JobRun ==
    /\ Run
    /\ TextAges /\ KeyAges
    /\ clean' = StaysClean
    /\ fresh' = FALSE /\ UNCHANGED known

JobNext ==
    \/ JobReset
    \/ JobRun
    \/ \E text \in Texts : JobLoadText(text)
    \/ \E key \in Keys : JobLoadKey(key)
    \/ \E key \in Keys, text \in Texts : JobLoadBoth(key, text)

Spec == JobInit /\ [][JobNext]_vars

\* The clock keeps running.
FairSpec == Spec /\ WF_vars(JobNext)

-----------------------------------------------------------------------------
(***************************************************************************)
(* Type correctness of the registers and of the history.                   *)
(***************************************************************************)
TypeOK ==
    /\ {dcnt, kcnt, rcnt} \subseteq 0 .. 15
    /\ {go, done, ld_r, kb_ld, kdone} \subseteq BOOLEAN
    /\ {text_in_r, sa, text_out, w, wk} \subseteq Block
    /\ kb \in [0 .. 10 -> Block]
    /\ rcon \in Byte
    /\ {known, fresh, clean} \subseteq BOOLEAN
    /\ bkey \in Keys /\ job \in Jobs
    /\ {kage, age} \subseteq 0 .. 12

-----------------------------------------------------------------------------
\* The round keys 0 .. n-1 of a key are in their places in the buffer.
Holds(key, n) == \A r \in 0 .. n - 1 : kb[10 - r] = KeySchedule(key)[r]

(***************************************************************************)
(* The filling of the buffer: three counters that nothing ties together    *)
(* (kcnt, the generator's rcnt and the host's clock) stay in step, from    *)
(* any power-up and through any loads and resets.  So every round key goes *)
(* to its own place, no write leaves the buffer, and a buffer once full    *)
(* stays as it is until the next key.                                      *)
(***************************************************************************)
KeyBufferInv ==
    /\ kage \in 1 .. 11 =>
         /\ kb_ld
         /\ kcnt = 11 - kage
         /\ wk = KeySchedule(bkey)[kage - 1]
         /\ rcnt = kage - 1
         /\ kage <= Nr => rcon = Rcon[kage]
         /\ Holds(bkey, kage - 1)
    /\ kage = 12 => Holds(bkey, 11)
    /\ kage = 12 \/ (known /\ kage = 0) => ~kb_ld /\ kcnt \in {10, 15}

(***************************************************************************)
(* kdone, the core's own signal that the buffer is full: the edge that     *)
(* stores the last round key raises it and no other edge does, not for a   *)
(* load that another load or a reset cut short, and not again.  A reset at *)
(* that edge changes nothing, but a key presented under it does: the       *)
(* generator takes it, the buffer is complete all the same, and kdone      *)
(* stays low.                                                              *)
(***************************************************************************)
KeyDoneWhenFull ==
    [][known =>
         /\ kdone' => kage = 11 /\ kage' = 12 /\ Holds(bkey, 11)'
         /\ kage = 11 /\ kage' = 12 => kdone' \/ (fresh' /\ rcnt' = 0)]_vars

\* How the decryption stands, by the host's clock.
Resting == age = 0 /\ dcnt = 0 /\ ~go /\ ~done
InTime  == age \in 1 .. 12 /\ dcnt = age /\ go /\ (done <=> age = 12)
Late    == age \in 1 .. 12 /\ dcnt = age - 1 /\ go /\ ~done
LateEnd == age = 0 /\ dcnt = 12 /\ go /\ done

(***************************************************************************)
(* The decryption never hangs and never lingers, whatever loads come while *)
(* it runs.  When it is over the index is back at 0, so that the next      *)
(* start reads kb[0].  A start while done is high is late by a cycle, and  *)
(* that is all there is to it: the next start is in time again, or late    *)
(* again if done is high again.                                            *)
(***************************************************************************)
ControlInv ==
    known => IF fresh THEN age = 0 /\ dcnt = 0 /\ ~go
                      ELSE Resting \/ InTime \/ Late \/ LateEnd

\* A clean decryption: its round key and its state are those of its age.
CleanInStep ==
    /\ ld_r <=> age = 1
    /\ age = 1 => text_in_r = job.text
    /\ age <= 11 => w = KeySchedule(job.key)[11 - age]
    /\ age \in 2 .. 11 => sa = InvCipherRounds(job.key, job.text)[age - 2]
    /\ age = 12 => text_out = Decrypt(job.key, job.text)
    /\ age <= 9 => kage = 12 /\ bkey = job.key
    /\ age = 10 => kb[10] = KeySchedule(job.key)[0]

(***************************************************************************)
(* The round keys read upwards meet the states they belong to, even when   *)
(* the host starts to load its next key nine cycles into the decryption:   *)
(* the read of kb[10] is just ahead of the write.                          *)
(***************************************************************************)
CleanInv == clean => known /\ ~fresh /\ InTime /\ CleanInStep

(***************************************************************************)
(* What done promises: text_out is the decryption of the last text, under  *)
(* the key in the buffer when it was started, if the host kept to its side.*)
(***************************************************************************)
CleanResult ==
    clean /\ done => text_out = Decrypt(job.key, job.text)

(***************************************************************************)
(* done is a pulse: no host, careful or not, sees it for two cycles.       *)
(***************************************************************************)
DoneIsPulse == [][known /\ done => ~done']_vars

(***************************************************************************)
(* After a reset and once the host is quiet, the core comes to rest: no    *)
(* decryption and no filling runs for ever.                                *)
(***************************************************************************)
Quiesces ==
    <>[][JobRun]_vars => <>[](known => dcnt = 0 /\ ~go /\ ~done /\ ~kb_ld)
=============================================================================
