---------------------------- MODULE AesTopProofs ----------------------------
(***************************************************************************)
(* aes_top: under any host every answer reaches the outputs, and under a   *)
(* host that asks one block at a time aes_top implements BlockEngine.  The *)
(* two cores are used through their own theorems only.                     *)
(***************************************************************************)
EXTENDS AesTopHost, AesInvCipherProofs

\* The theorems of the core cipher.
cp == INSTANCE AesCipherProofs
        WITH dcnt <- dcnt_e, done <- done_e, ld_r <- ld_r_e,
             text_in_r <- text_in_r_e, sa <- sa_e, text_out <- text_out_e,
             w <- w_e, rcon <- rcon_e, rcnt <- rcnt_e,
             known <- known_e, job <- job_e

(***************************************************************************)
(* The encryption that cipher speaks of is Encrypt.                        *)
(***************************************************************************)
LEMMA SameEncrypt ==
  ASSUME NEW k, NEW t
  PROVE  cipher!Encrypt(k, t) = Encrypt(k, t)
<1>1. cipher!KeySchedule(k) = KeySchedule(k)
  BY DEF cipher!KeySchedule, KeySchedule, cipher!Nr, Nr, cipher!Rcon, Rcon
<1>2. cipher!CipherRounds(k, t) = CipherRounds(k, t)
  BY <1>1 DEF cipher!CipherRounds, CipherRounds, cipher!CipherRound, CipherRound,
     cipher!Nr, Nr
<1> QED
  BY <1>1, <1>2 DEF cipher!Encrypt, Encrypt, cipher!Nr, Nr

(***************************************************************************)
(* The specification of the core cipher is the one its theorems are about, *)
(* and so are its invariants.                                              *)
(***************************************************************************)
LEMMA SameCipher ==
  /\ cipher!JobInit => cp!JobInit
  /\ [cipher!JobNext]_(cipher!vars) => [cp!JobNext]_(cp!vars)
  /\ cp!TypeOK => cipher!TypeOK
  /\ cp!PipelineInv => cipher!PipelineInv
<1>1. cipher!JobInit => cp!JobInit
  BY DEF cp!JobInit, cipher!JobInit, cp!Init, cipher!Init, cp!Byte, cipher!Byte,
    cp!Jobs, cipher!Jobs
<1>2. [cipher!JobNext]_(cipher!vars) => [cp!JobNext]_(cp!vars)
  BY DEF cp!JobNext, cipher!JobNext, cp!JobReset, cipher!JobReset, cp!JobRound,
    cipher!JobRound, cp!JobResetLoad, cipher!JobResetLoad, cp!JobLoad,
    cipher!JobLoad, cp!Reset, cipher!Reset, cp!Round, cipher!Round,
    cp!ResetLoad, cipher!ResetLoad, cp!Load, cipher!Load, cp!ResetControl,
    cipher!ResetControl, cp!RoundControl, cipher!RoundControl,
    cp!LoadControl, cipher!LoadControl, cp!LatchInputs, cipher!LatchInputs,
    cp!RunRound, cipher!RunRound, cp!AddRoundKey, cipher!AddRoundKey,
    cp!FinalText, cipher!FinalText, cp!sa_next, cipher!sa_next,
    cp!u0!LoadKey, cipher!u0!LoadKey, cp!u0!NextKey, cipher!u0!NextKey,
    cp!u0!frcon, cipher!u0!frcon, cp!u0!rcnt_next, cipher!u0!rcnt_next,
    cp!vars, cipher!vars, cp!cipherVars, cipher!cipherVars
<1>3. cp!TypeOK => cipher!TypeOK
  BY DEF cp!TypeOK, cipher!TypeOK, cp!Byte, cipher!Byte, cp!Jobs, cipher!Jobs
<1>4. cp!PipelineInv => cipher!PipelineInv
  BY DEF cp!PipelineInv, cipher!PipelineInv, cp!KeysInStep, cipher!KeysInStep,
    cp!StateInStep, cipher!StateInStep, cp!Cycle, cipher!Cycle, cp!Nr,
    cipher!Nr, cp!Rcon, cipher!Rcon, cp!Encrypt, cipher!Encrypt,
    cp!KeySchedule, cipher!KeySchedule, cp!CipherRounds,
    cipher!CipherRounds, cp!CipherRound, cipher!CipherRound
<1> QED
  BY <1>1, <1>2, <1>3, <1>4

(***************************************************************************)
(* What is proved of the core cipher, in the terms of aes_top.             *)
(***************************************************************************)
LEMMA CipherInvariants == cipher!Spec => [](cipher!TypeOK /\ cipher!PipelineInv)
<1>1. cp!Byte = Byte
  BY DEF cp!Byte, Byte
<1>2. cp!Spec => []cp!TypeOK
  BY <1>1, HostInputs, UnknownValues, Closure, Inverses, cp!TypeCorrect
<1>3. cp!Spec => []cp!PipelineInv
  BY <1>1, HostInputs, UnknownValues, Closure, Inverses, cp!PipelineCorrect
<1> QED
  BY <1>2, <1>3, SameCipher, PTL DEF cipher!Spec, cp!Spec

-----------------------------------------------------------------------------
(***************************************************************************)
(* An edge of aes_top is an edge of each core.                             *)
(***************************************************************************)
LEMMA TopIsCores == TopSpec => Spec /\ cipher!Spec
<1>1. TopInit => JobInit /\ cipher!JobInit
  BY DEF TopInit
<1>2. ASSUME NEW rst, NEW ld, NEW kld, NEW key \in Keys, NEW text \in Texts
      PROVE  /\ CipherEdge(rst, ld, key, text) => cipher!JobNext
             /\ DecipherEdge(rst, ld, kld, key, text) => JobNext
  BY DEF CipherEdge, DecipherEdge, cipher!JobNext, JobNext
<1>3. TopNext => JobNext /\ cipher!JobNext
  BY <1>2 DEF TopNext, TopEdge
<1>4. UNCHANGED topVars => UNCHANGED vars /\ UNCHANGED cipher!vars
  BY DEF topVars, coreVars_e, cipher!vars, cipher!cipherVars
<1>5. [TopNext]_topVars => [JobNext]_vars /\ [cipher!JobNext]_(cipher!vars)
  BY <1>3, <1>4
<1> QED
  BY <1>1, <1>5, PTL DEF TopSpec, Spec, cipher!Spec

(***************************************************************************)
(* What is proved of each core holds in aes_top.                           *)
(***************************************************************************)
LEMMA CoreInvariants ==
  TopSpec => [](/\ TypeOK /\ ControlInv /\ CleanInv
                /\ cipher!TypeOK /\ cipher!PipelineInv)
BY TopIsCores, TypeCorrect, ControlCorrect, CleanCorrect, CipherInvariants, PTL

-----------------------------------------------------------------------------
(***************************************************************************)
(* What an edge does to the history and the control of the core cipher.    *)
(***************************************************************************)
LEMMA CipherEdgeCounts ==
  ASSUME NEW rst \in BOOLEAN, NEW ld \in BOOLEAN, NEW key, NEW text,
         CipherEdge(rst, ld, key, text)
  PROVE  /\ ~rst => known_e' /\ dcnt_e' = 0 /\ ~done_e' /\ job_e' = job_e
         /\ rst /\ ld => /\ known_e' /\ dcnt_e' = 11 /\ ~done_e'
                         /\ job_e' = [key |-> key, text |-> text]
         /\ rst /\ ~ld => /\ (known_e' <=> known_e) /\ job_e' = job_e
                          /\ dcnt_e' = IF dcnt_e # 0 THEN dcnt_e - 1 ELSE dcnt_e
                          /\ done_e' <=> dcnt_e = 1
<1> USE DEF cipher!ResetControl, cipher!LoadControl
<1>1. ASSUME cipher!JobRound
      PROVE  /\ known_e' = known_e /\ job_e' = job_e
             /\ dcnt_e' = IF dcnt_e # 0 THEN dcnt_e - 1 ELSE dcnt_e
             /\ done_e' <=> dcnt_e = 1
  <2>1. done_e' <=> dcnt_e = 1
    BY <1>1, Zenon DEF cipher!JobRound, cipher!Round, cipher!RoundControl
  <2> QED
    BY <1>1, <2>1 DEF cipher!JobRound, cipher!Round, cipher!RoundControl
<1>2. ASSUME cipher!JobLoad(key, text)
      PROVE  /\ known_e' /\ dcnt_e' = 11 /\ ~done_e'
             /\ job_e' = [key |-> key, text |-> text]
  BY <1>2 DEF cipher!JobLoad, cipher!Load
<1>3. ASSUME cipher!JobResetLoad(key, text) \/ cipher!JobReset
      PROVE  known_e' /\ dcnt_e' = 0 /\ ~done_e' /\ job_e' = job_e
  BY <1>3 DEF cipher!JobResetLoad, cipher!ResetLoad, cipher!JobReset, cipher!Reset
<1>4. ~rst => cipher!JobResetLoad(key, text) \/ cipher!JobReset
  BY DEF CipherEdge
<1>5. rst /\ ld => cipher!JobLoad(key, text)
  BY DEF CipherEdge
<1>6. rst /\ ~ld => cipher!JobRound
  BY DEF CipherEdge
<1>7. rst /\ ~ld => /\ (known_e' <=> known_e) /\ job_e' = job_e
                    /\ dcnt_e' = IF dcnt_e # 0 THEN dcnt_e - 1 ELSE dcnt_e
                    /\ done_e' <=> dcnt_e = 1
  BY <1>1, <1>6
<1> QED
  BY <1>2, <1>3, <1>4, <1>5, <1>7

(***************************************************************************)
(* The same in terms of the age of its block.                              *)
(***************************************************************************)
LEMMA CipherAges ==
  ASSUME NEW rst \in BOOLEAN, NEW ld \in BOOLEAN, NEW key, NEW text,
         CipherEdge(rst, ld, key, text),
         cipher!TypeOK, cipher!PipelineInv
  PROVE  /\ cipher!Age \in 0 .. 12
         /\ known_e => (done_e <=> cipher!Age = 12)
         /\ ~rst => cipher!Age' = 0
         /\ rst /\ ld => cipher!Age' = 1
         /\ rst /\ ~ld /\ known_e =>
              cipher!Age' = IF cipher!Age \in 1 .. 11 THEN cipher!Age + 1 ELSE 0
<1>1. dcnt_e \in 0 .. 15 /\ (known_e => dcnt_e <= 11 /\ (done_e => dcnt_e = 0))
  BY DEF cipher!TypeOK, cipher!PipelineInv
<1> USE DEF cipher!Age, cipher!Cycle
<1>2. cipher!Age \in 0 .. 12 /\ (known_e => (done_e <=> cipher!Age = 12))
  BY <1>1
<1>3. ~rst => cipher!Age' = 0
  BY CipherEdgeCounts
<1>4. ASSUME rst /\ ld
      PROVE  cipher!Age' = 1
  <2>1. known_e' /\ dcnt_e' = 11 /\ ~done_e'
    BY <1>4, CipherEdgeCounts
  <2> QED
    BY <2>1
<1>5. ASSUME rst /\ ~ld, known_e
      PROVE  cipher!Age' = IF cipher!Age \in 1 .. 11 THEN cipher!Age + 1 ELSE 0
  <2>1. known_e' /\ (done_e' <=> dcnt_e = 1)
    BY <1>5, CipherEdgeCounts
  <2>2. dcnt_e' = IF dcnt_e # 0 THEN dcnt_e - 1 ELSE dcnt_e
    BY <1>5, CipherEdgeCounts
  <2>3. CASE dcnt_e = 0
    BY <1>1, <1>5, <2>1, <2>2, <2>3
  <2>4. CASE dcnt_e = 1
    BY <1>1, <1>5, <2>1, <2>2, <2>4
  <2>5. CASE dcnt_e \in 2 .. 11
    BY <1>1, <1>5, <2>1, <2>2, <2>5
  <2> QED
    BY <1>1, <1>5, <2>3, <2>4, <2>5
<1> QED
  BY <1>2, <1>3, <1>4, <1>5

(***************************************************************************)
(* What an edge does to the history of the core decipher.                  *)
(***************************************************************************)
LEMMA DecipherAges ==
  ASSUME NEW rst \in BOOLEAN, NEW ld \in BOOLEAN, NEW kld \in BOOLEAN,
         NEW key \in Keys, NEW text \in Texts, DecipherEdge(rst, ld, kld, key, text)
  PROVE  /\ ~rst => /\ known' /\ fresh' /\ ~clean' /\ age' = 0 /\ job' = job
         /\ rst => ~fresh' /\ (known' <=> known)
         /\ rst /\ ld => /\ age' = 1 /\ ~done'
                         /\ job' = [key |-> bkey, text |-> text]
         /\ rst /\ ~ld => /\ age' = IF age = 12 THEN 0 ELSE Older(age)
                          /\ job' = job
                          /\ clean' => StaysClean
<1>1. ~rst => JobReset
  BY DEF DecipherEdge
<1>2. ~rst => /\ known' /\ fresh' /\ ~clean' /\ age' = 0 /\ job' = job
  BY <1>1, ResetCounts
<1>3. ASSUME rst
      PROVE  ~fresh' /\ (known' <=> known)
  BY <1>3 DEF DecipherEdge, JobLoadBoth, JobLoadText, JobLoadKey, JobRun
<1>4. ASSUME rst /\ ld
      PROVE  age' = 1 /\ ~done' /\ job' = [key |-> bkey, text |-> text]
  BY <1>4 DEF DecipherEdge, JobLoadBoth, JobLoadText, TextStarts, LoadBoth, LoadText,
     LatchText
<1>5. ASSUME rst /\ ~ld
      PROVE  /\ age' = IF age = 12 THEN 0 ELSE Older(age)
             /\ job' = job
             /\ clean' => StaysClean
  <2>1. JobLoadKey(key) \/ JobRun
    BY <1>5 DEF DecipherEdge
  <2>2. CASE JobLoadKey(key)
    <3>1. TextAges
      BY <2>2 DEF JobLoadKey
    <3>2. clean' => StaysClean
      BY <2>2, Zenon DEF JobLoadKey
    <3> QED
      BY <3>1, <3>2 DEF TextAges
  <2>3. CASE JobRun
    <3>1. TextAges
      BY <2>3 DEF JobRun
    <3>2. clean' => StaysClean
      BY <2>3, Zenon DEF JobRun
    <3> QED
      BY <3>1, <3>2 DEF TextAges
  <2> QED
    BY <2>1, <2>2, <2>3
<1> QED
  BY <1>2, <1>3, <1>4, <1>5

-----------------------------------------------------------------------------
(***************************************************************************)
(* The strengthening of AnswersShown: the output is connected to the core  *)
(* that answers, a reset of one core is one of the other, and an           *)
(* encryption is never as old as a clean decryption.                       *)
(***************************************************************************)
TopInv ==
    /\ done_e => shown = "cipher"
    /\ done /\ ~done_e => shown = "decipher"
    /\ known => known_e
    /\ clean => cipher!Age # age

(***************************************************************************)
(* TopInv is inductive, given the invariants of the cores.                 *)
(***************************************************************************)
LEMMA TopStep ==
  ASSUME TypeOK, CleanInv, cipher!TypeOK, cipher!PipelineInv, TopInv,
         [TopNext]_topVars
  PROVE  TopInv'
<1>1. CASE UNCHANGED topVars
  BY <1>1 DEF topVars, vars, textVars, hostVars, coreVars_e, TopInv, cipher!Age,
     cipher!Cycle
<1>2. ASSUME NEW mode \in Modes, NEW rst \in BOOLEAN, NEW ld \in BOOLEAN,
             NEW kld \in BOOLEAN, NEW key \in Keys, NEW text \in Texts,
             TopEdge(mode, rst, ld, kld, key, text)
      PROVE  TopInv'
  <2> DEFINE lde == ld_e(mode, ld)
             ldd == ld_d(mode, ld)
             kldd == kld_d(mode, kld)
  <2>1. /\ CipherEdge(rst, lde, key, text)
        /\ DecipherEdge(rst, ldd, kldd, key, text)
        /\ lde \in BOOLEAN /\ ldd \in BOOLEAN /\ kldd \in BOOLEAN
    BY <1>2 DEF TopEdge, ld_e, ld_d, kld_d
  <2>0. /\ cipher!Age \in 0 .. 12
        /\ rst /\ lde => cipher!Age' = 1
        /\ rst /\ ~lde /\ known_e =>
             cipher!Age' = IF cipher!Age \in 1 .. 11 THEN cipher!Age + 1 ELSE 0
    <3> HIDE DEF lde, ldd, kldd
    <3> QED
      BY <2>1, CipherAges
  <2>2. ~(lde /\ ldd)
    BY DEF ld_e, ld_d
  <2> HIDE DEF lde, ldd, kldd
  <2>3. /\ done_e' => shown' = "cipher"
        /\ done' /\ ~done_e' => shown' = "decipher"
    BY <1>2 DEF TopEdge, Connect
  <2>4. known' => known_e'
    BY <2>1, CipherEdgeCounts, DecipherAges DEF TopInv
  <2>5. ASSUME clean'
        PROVE  cipher!Age' # age'
    <3>1. rst
      BY <2>1, <2>5, DecipherAges
    <3>2. CASE ldd
      <4>1. age' = 1 /\ ~lde
        BY <2>1, <2>2, <3>1, <3>2, DecipherAges
      <4>2. ~known_e => cipher!Age' \in {0, 12}
        <5>1. ASSUME ~known_e
              PROVE  ~known_e'
          BY <2>1, <3>1, <4>1, <5>1, CipherEdgeCounts
        <5> QED
          BY <5>1 DEF cipher!Age
      <4>3. known_e => cipher!Age' # 1
        BY <2>0, <3>1, <4>1
      <4> QED
        BY <4>1, <4>2, <4>3
    <3>3. CASE ~ldd
      <4>1. clean /\ age # 12 /\ age' = Older(age)
        BY <2>1, <2>5, <3>1, <3>3, DecipherAges DEF StaysClean
      <4>2. age \in 1 .. 11 /\ age' = age + 1 /\ cipher!Age # age /\ known_e
        BY <4>1 DEF CleanInv, InTime, Older, TopInv
      <4>3. CASE lde
        BY <2>0, <3>1, <4>2, <4>3
      <4>4. CASE ~lde
        BY <2>0, <3>1, <4>2, <4>4
      <4> QED
        BY <4>3, <4>4
    <3> QED
      BY <3>2, <3>3
  <2> QED
    BY <2>3, <2>4, <2>5 DEF TopInv
<1> QED
  BY <1>1, <1>2 DEF TopNext

(***************************************************************************)
(* TopInv holds throughout.                                                *)
(***************************************************************************)
LEMMA TopInvariant == TopSpec => []TopInv
<1>1. TopInit => TopInv
  BY DEF TopInit, TopInv, JobInit, cipher!JobInit
<1>2. /\ TypeOK /\ ControlInv /\ CleanInv /\ cipher!TypeOK /\ cipher!PipelineInv
      /\ TopInv /\ [TopNext]_topVars
      => TopInv'
  BY TopStep
<1> QED
  BY <1>1, <1>2, CoreInvariants, PTL DEF TopSpec

(***************************************************************************)
(* Under any host, the answer of a core is on the outputs when it comes.   *)
(***************************************************************************)
THEOREM TopShowsAnswers == TopSpec => []AnswersShown
<1>1. TypeOK /\ CleanInv /\ cipher!TypeOK /\ cipher!PipelineInv /\ TopInv
      => AnswersShown
  <2> SUFFICES ASSUME TypeOK, CleanInv, cipher!TypeOK, cipher!PipelineInv, TopInv
               PROVE  AnswersShown
    OBVIOUS
  <2>1. ASSUME known_e, done_e
        PROVE  d_done = TRUE /\ d_text_out = Encrypt(job_e.key, job_e.text)
    <3>1. text_out_e = Encrypt(job_e.key, job_e.text) /\ done_e = TRUE
      BY <2>1, SameEncrypt DEF cipher!PipelineInv, cipher!TypeOK
    <3> QED
      BY <2>1, <3>1 DEF TopInv, d_done, d_text_out
  <2>2. ASSUME clean, done
        PROVE  d_done = TRUE /\ d_text_out = Decrypt(job.key, job.text)
    <3>1. age = 12 /\ text_out = Decrypt(job.key, job.text) /\ done = TRUE /\ known
      BY <2>2 DEF CleanInv, InTime, CleanInStep, TypeOK
    <3>2. ~done_e
      BY <2>2, <3>1 DEF TopInv, cipher!Age
    <3> QED
      BY <2>2, <3>1, <3>2 DEF TopInv, d_done, d_text_out
  <2> QED
    BY <2>1, <2>2 DEF AnswersShown
<1> QED
  BY <1>1, CoreInvariants, TopInvariant, PTL

-----------------------------------------------------------------------------
(***************************************************************************)
(* A host that asks one block at a time is one of the hosts of aes_top,    *)
(* and a polite host of the core decipher.                                 *)
(***************************************************************************)
LEMMA HostedIsPolite == HostedSpec => TopSpec /\ PoliteSpec
<1>1. HostedInit => TopInit /\ JobInit
  BY DEF HostedInit, TopInit
<1>2. HostedNext => TopNext
  BY DEF HostedNext, HostedEdge, TopNext
<1>3. ASSUME NEW rst \in BOOLEAN, NEW ld \in BOOLEAN, NEW kld \in BOOLEAN,
             NEW key \in Keys, NEW text \in Texts,
             DecipherEdge(rst, ld, kld, key, text),
             rst => (ld => MayStart /\ ~kld) /\ (kld => MayLoadKey)
      PROVE  PoliteNext
  BY <1>3 DEF DecipherEdge, PoliteNext, PoliteLoadText, PoliteLoadKey
<1>4. ASSUME NEW mode \in Modes, NEW rst \in BOOLEAN, NEW ld \in BOOLEAN,
             NEW kld \in BOOLEAN, NEW key \in Keys, NEW text \in Texts,
             HostedEdge(mode, rst, ld, kld, key, text)
      PROVE  PoliteNext
  <2>1. DecipherEdge(rst, ld_d(mode, ld), kld_d(mode, kld), key, text)
    BY <1>4 DEF HostedEdge, TopEdge
  <2>2. rst => /\ ld_d(mode, ld) => MayStart /\ ~kld_d(mode, kld)
               /\ kld_d(mode, kld) => MayLoadKey
    BY <1>4 DEF HostedEdge, HostStarts, kld_d
  <2>3. ld_d(mode, ld) \in BOOLEAN /\ kld_d(mode, kld) \in BOOLEAN
    BY DEF ld_d, kld_d
  <2> QED
    BY <1>3, <2>1, <2>2, <2>3
<1>5. HostedNext => PoliteNext
  BY <1>4 DEF HostedNext
<1>6. UNCHANGED hostedVars => UNCHANGED topVars /\ UNCHANGED vars
  BY DEF hostedVars, topVars
<1>7. [HostedNext]_hostedVars => [TopNext]_topVars /\ [PoliteNext]_vars
  BY <1>2, <1>5, <1>6
<1> QED
  BY <1>1, <1>7, PTL DEF HostedSpec, TopSpec, PoliteSpec

(***************************************************************************)
(* Only one core has a block at a time, and it is the block asked for last.*)
(***************************************************************************)
HostedInv ==
    /\ known_e <=> known
    /\ age = 0 \/ cipher!Age = 0
    /\ cipher!Age # 0 =>
         last = [op |-> "encrypt", key |-> job_e.key, text |-> job_e.text]
    /\ age # 0 => last = [op |-> "decrypt", key |-> job.key, text |-> job.text]

\* All that is known of aes_top and such a host.
AllInv ==
    /\ TypeOK /\ ControlInv /\ CleanInv /\ AlwaysReady
    /\ cipher!TypeOK /\ cipher!PipelineInv
    /\ TopInv

(***************************************************************************)
(* AllInv holds throughout.                                                *)
(***************************************************************************)
LEMMA AllInvariants == HostedSpec => []AllInv
BY HostedIsPolite, CoreInvariants, TopInvariant, PoliteIsReady, PTL DEF AllInv

(***************************************************************************)
(* What an edge of aes_top does under such a host: a reset, an encryption  *)
(* asked for, a decryption asked for, or the passing of a cycle.           *)
(***************************************************************************)
HostedReset ==
    /\ known' /\ known_e' /\ fresh' /\ age' = 0 /\ cipher!Age' = 0
    /\ last' = last

HostedEncrypt ==
    /\ known /\ age \in {0, 12}
    /\ known' /\ known_e' /\ ~fresh' /\ age' = 0 /\ cipher!Age' = 1
    /\ \E key \in Keys, text \in Texts :
         /\ job_e' = [key |-> key, text |-> text]
         /\ last' = [op |-> "encrypt", key |-> key, text |-> text]

HostedDecrypt ==
    /\ known /\ cipher!Age \in {0, 12}
    /\ known' /\ known_e' /\ ~fresh' /\ age' = 1 /\ cipher!Age' = 0
    /\ \E text \in Texts :
         /\ job' = [key |-> bkey, text |-> text]
         /\ last' = [op |-> "decrypt", key |-> bkey, text |-> text]

HostedCycle ==
    /\ (known' <=> known) /\ (known_e' <=> known_e) /\ ~fresh'
    /\ job' = job /\ job_e' = job_e /\ last' = last
    /\ age' = IF age \in 1 .. 11 THEN age + 1 ELSE 0
    /\ known_e => cipher!Age' = IF cipher!Age \in 1 .. 11 THEN cipher!Age + 1 ELSE 0

(***************************************************************************)
(* An edge is one of the four.                                             *)
(***************************************************************************)
LEMMA HostedStep ==
  ASSUME AllInv, HostedInv, HostedNext
  PROVE  HostedReset \/ HostedEncrypt \/ HostedDecrypt \/ HostedCycle
<1> SUFFICES ASSUME NEW mode \in Modes, NEW rst \in BOOLEAN, NEW ld \in BOOLEAN,
                    NEW kld \in BOOLEAN, NEW key \in Keys, NEW text \in Texts,
                    HostedEdge(mode, rst, ld, kld, key, text)
             PROVE  HostedReset \/ HostedEncrypt \/ HostedDecrypt \/ HostedCycle
  BY DEF HostedNext
<1> DEFINE lde == ld_e(mode, ld)
           ldd == ld_d(mode, ld)
           kldd == kld_d(mode, kld)
<1>1. /\ CipherEdge(rst, lde, key, text)
      /\ DecipherEdge(rst, ldd, kldd, key, text)
      /\ lde \in BOOLEAN /\ ldd \in BOOLEAN /\ kldd \in BOOLEAN
  BY DEF HostedEdge, TopEdge, ld_e, ld_d, kld_d
<1>2. /\ rst /\ lde => known /\ age \in {0, 12}
      /\ rst /\ ldd => MayStart /\ cipher!Age \in {0, 12}
  BY DEF HostedEdge, HostStarts, DecipherFree, CipherFree
<1>3. /\ rst /\ lde => last' = [op |-> "encrypt", key |-> key, text |-> text]
      /\ rst /\ ldd => last' = [op |-> "decrypt", key |-> bkey, text |-> text]
      /\ ~rst \/ (~lde /\ ~ldd) => last' = last
      /\ ~(lde /\ ldd)
  BY DEF HostedEdge, ld_e, ld_d, Modes
<1> HIDE DEF lde, ldd, kldd
<1>4. /\ cipher!Age \in 0 .. 12
      /\ ~rst => cipher!Age' = 0
      /\ rst /\ lde => cipher!Age' = 1
      /\ rst /\ ~lde /\ known_e =>
           cipher!Age' = IF cipher!Age \in 1 .. 11 THEN cipher!Age + 1 ELSE 0
  BY <1>1, CipherAges DEF AllInv
<1>5. /\ ~rst => known_e'
      /\ rst /\ lde => known_e' /\ job_e' = [key |-> key, text |-> text]
      /\ rst /\ ~lde => (known_e' <=> known_e) /\ job_e' = job_e
  BY <1>1, CipherEdgeCounts
<1>6. /\ ~rst => known' /\ fresh' /\ age' = 0
      /\ rst => ~fresh' /\ (known' <=> known)
      /\ rst /\ ldd => age' = 1 /\ job' = [key |-> bkey, text |-> text]
      /\ rst /\ ~ldd => age' = (IF age = 12 THEN 0 ELSE Older(age)) /\ job' = job
  BY <1>1, DecipherAges
<1>7. age \in 0 .. 12 /\ bkey \in Keys
  BY DEF AllInv, TypeOK
<1>8. CASE ~rst
  BY <1>3, <1>4, <1>5, <1>6, <1>8 DEF HostedReset
<1>9. CASE rst /\ lde
  BY <1>2, <1>3, <1>4, <1>5, <1>6, <1>7, <1>9 DEF HostedEncrypt, Older
<1>10. CASE rst /\ ldd
  <2>1. known /\ known_e
    BY <1>2, <1>10 DEF MayStart, HostedInv
  <2> QED
    BY <1>2, <1>3, <1>4, <1>5, <1>6, <1>7, <1>10, <2>1 DEF HostedDecrypt
<1>11. CASE rst /\ ~lde /\ ~ldd
  BY <1>3, <1>4, <1>5, <1>6, <1>7, <1>11 DEF HostedCycle, Older
<1> QED
  BY <1>1, <1>8, <1>9, <1>10, <1>11

(***************************************************************************)
(* HostedInv holds throughout.                                             *)
(***************************************************************************)
LEMMA HostedInvariant == HostedSpec => []HostedInv
<1>1. HostedInit => HostedInv
  BY DEF HostedInit, TopInit, JobInit, cipher!JobInit, HostedInv, cipher!Age
<1>2. AllInv /\ HostedInv /\ [HostedNext]_hostedVars => HostedInv'
  <2> SUFFICES ASSUME AllInv, HostedInv, [HostedNext]_hostedVars
               PROVE  HostedInv'
    OBVIOUS
  <2>1. CASE UNCHANGED hostedVars
    BY <2>1 DEF hostedVars, topVars, vars, hostVars, coreVars_e, HostedInv,
       cipher!Age, cipher!Cycle
  <2>2. CASE HostedReset
    BY <2>2 DEF HostedReset, HostedInv
  <2>3. CASE HostedEncrypt
    BY <2>3 DEF HostedEncrypt, HostedInv
  <2>4. CASE HostedDecrypt
    BY <2>4 DEF HostedDecrypt, HostedInv
  <2>5. CASE HostedCycle
    <3>1. age \in 0 .. 12 /\ (age > 0 => known)
      BY DEF AllInv, TypeOK, AlwaysReady, CleanInv
    <3>2. ~known_e' => cipher!Age' = 0
      BY DEF cipher!Age
    <3> QED
      BY <2>5, <3>1, <3>2 DEF HostedCycle, HostedInv
  <2> QED
    BY <2>1, <2>2, <2>3, <2>4, <2>5, HostedStep
<1> QED
  BY <1>1, <1>2, AllInvariants, PTL DEF HostedSpec

-----------------------------------------------------------------------------
\* What the outputs show, by the age of the block asked for.
OutputsInv ==
    /\ TopAge \in 0 .. 12
    /\ TopDone \in BOOLEAN
    /\ d_text_out \in Block \cup {Undriven}
    /\ known /\ fresh => ~TopDone
    /\ known /\ ~fresh => (TopDone <=> TopAge = 12)
    /\ known /\ TopAge = 12 => d_text_out = TopResult(last)

(***************************************************************************)
(* OutputsInv follows from what is known of the cores and of the host.     *)
(***************************************************************************)
LEMMA OutputsByAge == AllInv /\ HostedInv => OutputsInv
<1> SUFFICES ASSUME AllInv, HostedInv
             PROVE  OutputsInv
  OBVIOUS
<1>1. /\ TypeOK /\ ControlInv /\ CleanInv /\ AlwaysReady
      /\ cipher!TypeOK /\ cipher!PipelineInv /\ TopInv
  BY DEF AllInv
<1>2. /\ cipher!Age \in 0 .. 12
      /\ known_e => (done_e <=> cipher!Age = 12)
  BY <1>1 DEF cipher!Age, cipher!Cycle, cipher!TypeOK, cipher!PipelineInv
<1>3. age \in 0 .. 12 /\ done \in BOOLEAN /\ done_e \in BOOLEAN
      /\ text_out \in Block /\ text_out_e \in Block
  BY <1>1 DEF TypeOK, cipher!TypeOK
<1>4. TopAge \in 0 .. 12
  BY <1>2, <1>3 DEF TopAge
<1>5. TopDone \in BOOLEAN
  BY DEF TopDone
<1>6. d_text_out \in Block \cup {Undriven}
  BY <1>3 DEF d_text_out
<1>7. known /\ fresh => ~TopDone
  BY DEF TopDone
<1>8. known => known_e
  BY <1>1 DEF TopInv
<1>9. ASSUME known, ~fresh
      PROVE  done <=> age = 12
  BY <1>1, <1>9 DEF ControlInv, Resting, InTime, Late, LateEnd, AlwaysReady, CleanInv,
     TypeOK
<1>10. ASSUME known, ~fresh
       PROVE  TopDone <=> TopAge = 12
  <2>1. TopDone <=> (shown = "cipher" /\ done_e) \/ (shown = "decipher" /\ done)
    BY <1>3, <1>10, UndrivenIsNoValue DEF TopDone, d_done
  <2>2. TopAge = 12 <=> age = 12 \/ cipher!Age = 12
    BY <1>2, <1>3, <1>10 DEF TopAge, HostedInv
  <2>3. CASE done_e
    BY <1>1, <1>2, <1>8, <1>10, <2>1, <2>2, <2>3 DEF TopInv
  <2>4. CASE ~done_e
    BY <1>1, <1>2, <1>8, <1>9, <1>10, <2>1, <2>2, <2>4 DEF TopInv
  <2> QED
    BY <2>3, <2>4
<1>11. ASSUME known, TopAge = 12
       PROVE  d_text_out = TopResult(last)
  <2>1. CASE age = 12
    <3>1. text_out = Decrypt(job.key, job.text) /\ done
      BY <1>1, <2>1 DEF AlwaysReady, CleanInv, InTime, CleanInStep
    <3>2. ~done_e
      BY <1>2, <1>8, <1>11, <2>1 DEF HostedInv
    <3>3. d_text_out = text_out
      BY <1>1, <3>1, <3>2 DEF TopInv, d_text_out
    <3>4. last = [op |-> "decrypt", key |-> job.key, text |-> job.text]
      BY <2>1 DEF HostedInv
    <3> QED
      BY <3>1, <3>3, <3>4 DEF TopResult
  <2>2. CASE age # 12
    <3>1. cipher!Age = 12
      BY <1>11, <2>2 DEF TopAge
    <3>2. done_e /\ text_out_e = Encrypt(job_e.key, job_e.text)
      BY <1>1, <1>2, <1>8, <1>11, <3>1, SameEncrypt DEF cipher!PipelineInv
    <3>3. d_text_out = text_out_e
      BY <1>1, <3>2 DEF TopInv, d_text_out
    <3>4. last = [op |-> "encrypt", key |-> job_e.key, text |-> job_e.text]
      BY <3>1 DEF HostedInv
    <3> QED
      BY <3>2, <3>3, <3>4 DEF TopResult
  <2> QED
    BY <2>1, <2>2
<1> QED
  BY <1>4, <1>5, <1>6, <1>7, <1>10, <1>11 DEF OutputsInv

\* The block asked for last is one.
LastType == last \in TopJobs

(***************************************************************************)
(* A step of aes_top and its host is a step of BlockEngine.                *)
(***************************************************************************)
LEMMA TopEngineStep ==
  ASSUME AllInv, AllInv', HostedInv, OutputsInv', LastType',
         [HostedNext]_hostedVars
  PROVE  [TopEngine!EngineNext]_(TopEngine!engineVars)
<1>1. /\ TopAge' \in 0 .. 12
      /\ TopDone' \in BOOLEAN
      /\ d_text_out' \in Block \cup {Undriven}
      /\ known' /\ fresh' => ~TopDone'
      /\ known' /\ ~fresh' => (TopDone' <=> TopAge' = 12)
      /\ known' /\ TopAge' = 12 => d_text_out' = TopResult(last')
  BY DEF OutputsInv
<1> USE DEF LastType
<1>2. /\ age \in 0 .. 12 /\ cipher!Age \in 0 .. 12
      /\ age > 0 => known
      /\ known \in BOOLEAN /\ known' \in BOOLEAN
  BY DEF AllInv, TypeOK, AlwaysReady, CleanInv, cipher!Age, cipher!Cycle,
     cipher!TypeOK, cipher!PipelineInv
<1> USE DEF TopEngine!EngineNext
<1>3. CASE UNCHANGED hostedVars
  BY <1>3 DEF hostedVars, topVars, vars, textVars, hostVars, coreVars_e,
     TopEngine!engineVars, TopAge, TopDone, d_done, d_text_out, cipher!Age,
     cipher!Cycle
<1>4. CASE HostedReset
  <2>1. known' = TRUE /\ TopAge' = 0 /\ TopDone' = FALSE /\ last' = last
    BY <1>1, <1>2, <1>4 DEF HostedReset, TopAge
  <2> QED
    BY <1>1, <2>1 DEF TopEngine!Drop
<1>5. CASE HostedEncrypt \/ HostedDecrypt
  <2>1. known' = TRUE /\ TopAge' = 1
    BY <1>2, <1>5 DEF HostedEncrypt, HostedDecrypt, TopAge
  <2>2. TopDone' = FALSE
    BY <1>1, <1>5, <2>1 DEF HostedEncrypt, HostedDecrypt
  <2> QED
    BY <1>1, <2>1, <2>2 DEF TopEngine!Accept
<1>6. CASE HostedCycle /\ ~known
  <2>1. known' = known /\ last' = last /\ TopAge' = 0 /\ TopAge = 0
    BY <1>2, <1>6 DEF HostedCycle, TopAge
  <2> QED
    BY <1>1, <1>6, <2>1 DEF TopEngine!Dark
<1>7. CASE HostedCycle /\ known
  <2>1. known' = known /\ last' = last /\ known_e /\ ~fresh'
    BY <1>2, <1>7 DEF HostedCycle, HostedInv
  <2>2. TopAge \in 0 .. 12 /\ TopAge' = IF TopAge \in 1 .. 11 THEN TopAge + 1 ELSE 0
    <3>1. TopAge = (IF age # 0 THEN age ELSE cipher!Age)
      BY <1>7 DEF TopAge
    <3>2. TopAge' = (IF age' # 0 THEN age' ELSE cipher!Age')
      BY <1>7, <2>1 DEF TopAge
    <3>3. /\ age' = IF age \in 1 .. 11 THEN age + 1 ELSE 0
          /\ cipher!Age' = IF cipher!Age \in 1 .. 11 THEN cipher!Age + 1 ELSE 0
      BY <1>7, <2>1 DEF HostedCycle
    <3>4. age = 0 \/ cipher!Age = 0
      BY DEF HostedInv
    <3> QED
      BY <1>2, <3>1, <3>2, <3>3, <3>4
  <2>3. TopDone' = (TopAge' = 12)
    BY <1>1, <1>7, <2>1
  <2>4. CASE TopAge \in {0, 12}
    BY <1>1, <1>7, <2>1, <2>2, <2>3, <2>4 DEF TopEngine!Rest
  <2>5. CASE TopAge = 11
    BY <1>1, <1>7, <2>1, <2>2, <2>3, <2>5 DEF TopEngine!Answer
  <2>6. CASE TopAge \in 1 .. 10
    BY <1>1, <1>7, <2>1, <2>2, <2>3, <2>6 DEF TopEngine!Work
  <2> QED
    BY <2>2, <2>4, <2>5, <2>6
<1> QED
  BY <1>3, <1>4, <1>5, <1>6, <1>7, HostedStep

(***************************************************************************)
(* Behind its ports aes_top is a block engine of latency 12.               *)
(***************************************************************************)
THEOREM TopRefinesEngine == HostedSpec => TopImplementsEngine
<1>1. HostedInit => TopEngine!EngineInit
  <2> SUFFICES ASSUME HostedInit
               PROVE  TopEngine!EngineInit
    OBVIOUS
  <2>1. known = FALSE /\ last \in TopJobs /\ TopDone \in BOOLEAN
    BY DEF HostedInit, TopInit, JobInit, TopDone
  <2>2. text_out \in Block /\ text_out_e \in Block
    BY UnknownValues DEF HostedInit, TopInit, JobInit, Init, cipher!JobInit, cipher!Init
  <2>3. d_text_out \in Block \cup {Undriven}
    BY <2>2 DEF d_text_out
  <2> QED
    BY <2>1, <2>3 DEF TopEngine!EngineInit, TopAge
<1>2. HostedInit => LastType
  BY DEF HostedInit, LastType
<1>3. LastType /\ AllInv /\ [HostedNext]_hostedVars => LastType'
  <2>1. AllInv => bkey \in Keys
    BY DEF AllInv, TypeOK
  <2> QED
    BY <2>1 DEF HostedNext, HostedEdge, TopJobs, hostedVars, LastType
<1>4. /\ AllInv /\ AllInv' /\ HostedInv /\ OutputsInv' /\ LastType'
      /\ [HostedNext]_hostedVars
      => [TopEngine!EngineNext]_(TopEngine!engineVars)
  BY TopEngineStep
<1>5. HostedSpec => []LastType
  BY <1>2, <1>3, AllInvariants, PTL DEF HostedSpec
<1>6. HostedSpec => []OutputsInv
  BY OutputsByAge, AllInvariants, HostedInvariant, PTL
<1> QED
  BY <1>1, <1>4, <1>5, <1>6, AllInvariants, HostedInvariant, PTL
  DEF HostedSpec, TopImplementsEngine, TopEngine!EngineSpec
=============================================================================
