-------------------------- MODULE AesCipherProofs --------------------------
(***************************************************************************)
(* The encryption core, for every set of keys, texts and power-up values   *)
(* and every block operations that meet AesAlgebra: TypeOK, PipelineInv,   *)
(* ResultCorrect and the implementation of BlockEngine.                    *)
(***************************************************************************)
EXTENDS AesCipherJobs, AesTheorems

(***************************************************************************)
(* The constant table of aes_rcon is that of FIPS-197, shifted by one, and *)
(* holds bytes only.                                                       *)
(***************************************************************************)
LEMMA FrconIsRcon ==
  /\ \A i \in 0 .. 15 : u0!frcon(i) \in Byte
  /\ \A r \in 1 .. Nr : u0!frcon(r - 1) = Rcon[r]
<1>1. ASSUME NEW i \in 0 .. 9
      PROVE  u0!frcon(i) = Rcon[i + 1] /\ u0!frcon(i) \in Byte
  BY DEF u0!frcon, Rcon, Byte
<1>2. ASSUME NEW i \in 10 .. 15
      PROVE  u0!frcon(i) \in Byte
  BY DEF u0!frcon, Byte
<1>3. ASSUME NEW r \in 1 .. Nr
      PROVE  u0!frcon(r - 1) = Rcon[r]
  <2>1. r - 1 \in 0 .. 9 /\ (r - 1) + 1 = r
    BY DEF Nr
  <2> QED
    BY <1>1, <2>1
<1> QED
  BY <1>1, <1>2, <1>3

-----------------------------------------------------------------------------
(***************************************************************************)
(* The two halves of every step keep the datapath and the key generator    *)
(* within their types.                                                     *)
(***************************************************************************)
LEMMA DatapathType ==
  ASSUME TypeOK,
         RunRound \/ \E key \in Keys, text \in Texts : LatchInputs(key, text)
  PROVE  /\ ld_r' \in BOOLEAN
         /\ text_in_r' \in Block
         /\ sa' \in Block
         /\ text_out' \in Block
         /\ w' \in Block
         /\ rcon' \in Byte
         /\ rcnt' \in 0 .. 15
<1>1. AddRoundKey /\ FinalText => sa' \in Block /\ text_out' \in Block
  BY Closure DEF TypeOK, AddRoundKey, FinalText, sa_next
<1>2. CASE RunRound
  <2>1. rcnt' \in 0 .. 15
    BY <1>2 DEF TypeOK, RunRound, u0!NextKey, u0!rcnt_next
  <2>2. rcon' \in Byte
    BY <1>2, <2>1, FrconIsRcon DEF RunRound, u0!NextKey
  <2>3. w' \in Block
    BY <1>2, Closure DEF TypeOK, RunRound, u0!NextKey
  <2> QED
    BY <1>1, <1>2, <2>1, <2>2, <2>3 DEF TypeOK, RunRound
<1>3. CASE \E key \in Keys, text \in Texts : LatchInputs(key, text)
  BY <1>1, <1>3, HostInputs DEF LatchInputs, u0!LoadKey, Byte
<1> QED
  BY <1>2, <1>3

(***************************************************************************)
(* TypeOK is inductive on its own.                                         *)
(***************************************************************************)
THEOREM TypeCorrect == Spec => []TypeOK
<1>1. JobInit => TypeOK
  BY UnknownValues DEF JobInit, Init, TypeOK, Jobs
<1>2. TypeOK /\ [JobNext]_vars => TypeOK'
  <2> SUFFICES ASSUME TypeOK, [JobNext]_vars
               PROVE  TypeOK'
    OBVIOUS
  <2> DEFINE ControlType == /\ dcnt' \in 0 .. 15 /\ done' \in BOOLEAN
                            /\ known' \in BOOLEAN /\ job' \in Jobs
  <2>1. ASSUME ControlType,
               RunRound \/ \E key \in Keys, text \in Texts : LatchInputs(key, text)
        PROVE  TypeOK'
    BY <2>1, DatapathType DEF TypeOK
  <2>2. CASE JobReset
    <3>1. dcnt' \in 0 .. 15 /\ job' \in Jobs
      BY <2>2 DEF JobReset, Reset, ResetControl, TypeOK
    <3>2. done' \in BOOLEAN /\ known' \in BOOLEAN
      BY <2>2, Zenon DEF JobReset, Reset, ResetControl
    <3> QED
      BY <2>1, <2>2, <3>1, <3>2 DEF JobReset, Reset
  <2>3. CASE JobRound
    <3>1. dcnt' \in 0 .. 15 /\ known' \in BOOLEAN /\ job' \in Jobs
      BY <2>3 DEF JobRound, Round, RoundControl, TypeOK
    <3>2. done' \in BOOLEAN
      BY <2>3, Zenon DEF JobRound, Round, RoundControl
    <3> QED
      BY <2>1, <2>3, <3>1, <3>2 DEF JobRound, Round
  <2>4. ASSUME NEW key \in Keys, NEW text \in Texts, JobResetLoad(key, text)
        PROVE  TypeOK'
    <3>1. dcnt' \in 0 .. 15 /\ job' \in Jobs
      BY <2>4 DEF JobResetLoad, ResetLoad, ResetControl, TypeOK
    <3>2. done' \in BOOLEAN /\ known' \in BOOLEAN
      BY <2>4, Zenon DEF JobResetLoad, ResetLoad, ResetControl
    <3> QED
      BY <2>1, <2>4, <3>1, <3>2 DEF JobResetLoad, ResetLoad
  <2>5. ASSUME NEW key \in Keys, NEW text \in Texts, JobLoad(key, text)
        PROVE  TypeOK'
    <3>1. dcnt' \in 0 .. 15 /\ job' \in Jobs
      BY <2>5 DEF JobLoad, Load, LoadControl, TypeOK, Jobs
    <3>2. done' \in BOOLEAN /\ known' \in BOOLEAN
      BY <2>5, Zenon DEF JobLoad, Load, LoadControl
    <3> QED
      BY <2>1, <2>5, <3>1, <3>2 DEF JobLoad, Load
  <2>6. CASE UNCHANGED vars
    BY <2>6 DEF vars, cipherVars, TypeOK
  <2> QED
    BY <2>2, <2>3, <2>4, <2>5, <2>6 DEF JobNext
<1> QED
  BY <1>1, <1>2, PTL DEF Spec

-----------------------------------------------------------------------------
(***************************************************************************)
(* One round brings a block in progress in step with the next cycle: key   *)
(* generator and state array advance together.                             *)
(***************************************************************************)
LEMMA RoundInStep ==
  ASSUME TypeOK, dcnt \in 1 .. 11, KeysInStep, StateInStep,
         dcnt' = dcnt - 1, RunRound, job' = job
  PROVE  /\ dcnt' > 0 => (KeysInStep /\ StateInStep)'
         /\ dcnt' = 0 => text_out' = Encrypt(job.key, job.text)
<1> DEFINE K == KeySchedule(job.key)
           S == CipherRounds(job.key, job.text)
<1>1. Cycle \in 1 .. 11 /\ Cycle' = Cycle + 1
  BY DEF Cycle, TypeOK
<1>2. dcnt' > 0 => KeysInStep'
  <2> SUFFICES ASSUME dcnt' > 0
               PROVE  KeysInStep'
    OBVIOUS
  <2>1. Cycle \in 1 .. Nr
    BY <1>1 DEF Cycle, Nr, TypeOK
  <2>2. rcnt' = Cycle
    BY <2>1 DEF KeysInStep, RunRound, u0!NextKey, u0!rcnt_next, Nr
  <2>3. w' = K[Cycle]
    BY <2>1, KeyScheduleEquation DEF KeysInStep, RunRound, u0!NextKey
  <2>4. Cycle' <= Nr => rcon' = Rcon[Cycle']
    <3>1. rcon' = u0!frcon(rcnt')
      BY DEF RunRound, u0!NextKey
    <3>2. Cycle' <= Nr => Cycle' \in 1 .. Nr /\ Cycle' - 1 = Cycle
      BY <1>1 DEF Nr
    <3> QED
      BY <2>2, <3>1, <3>2, FrconIsRcon
  <2> QED
    BY <1>1, <2>2, <2>3, <2>4 DEF KeysInStep
<1>3. dcnt' > 0 => StateInStep'
  <2> SUFFICES ASSUME dcnt' > 0
               PROVE  StateInStep'
    OBVIOUS
  <2>1. Cycle \in 1 .. 10
    BY <1>1 DEF Cycle, TypeOK
  <2>2. sa' = S[Cycle - 1]
    <3>1. CASE Cycle = 1
      BY <3>1, CipherEquation
      DEF StateInStep, KeysInStep, RunRound, AddRoundKey
    <3>2. CASE Cycle > 1
      <4>1. Cycle - 1 \in 1 .. Nr - 1 /\ (Cycle - 1) - 1 = Cycle - 2
        BY <2>1, <3>2 DEF Nr
      <4>2. S[Cycle - 1] = CipherRound(S[Cycle - 2], K[Cycle - 1])
        BY <4>1, CipherEquation
      <4>3. sa' = CipherRound(sa, w)
        BY <1>1, <3>2 DEF StateInStep, RunRound, AddRoundKey, sa_next, CipherRound
      <4> QED
        BY <3>2, <4>2, <4>3 DEF StateInStep, KeysInStep
    <3> QED
      BY <2>1, <3>1, <3>2
  <2>3. ld_r' = FALSE
    BY DEF RunRound
  <2>4. Cycle' > 1 /\ Cycle' # 1 /\ Cycle' - 2 = Cycle - 1
    BY <1>1
  <2> HIDE DEF S
  <2>5. sa' = CipherRounds(job'.key, job'.text)[Cycle' - 2]
    BY <2>2, <2>4 DEF S
  <2> QED
    BY <2>3, <2>4, <2>5 DEF StateInStep
<1>4. dcnt' = 0 => text_out' = Encrypt(job.key, job.text)
  <2> SUFFICES ASSUME dcnt' = 0
               PROVE  text_out' = Encrypt(job.key, job.text)
    OBVIOUS
  <2>1. Cycle = 11
    BY DEF Cycle, TypeOK
  <2>2. w = K[10] /\ sa = S[9]
    BY <2>1 DEF KeysInStep, StateInStep
  <2> QED
    BY <2>2 DEF RunRound, FinalText, Encrypt, Nr
<1> QED
  BY <1>2, <1>3, <1>4

(***************************************************************************)
(* The control half of a round, with done as a formula.                    *)
(***************************************************************************)
LEMMA RoundCounts ==
  ASSUME JobRound
  PROVE  /\ dcnt = 0 => dcnt' = 0
         /\ dcnt # 0 => dcnt' = dcnt - 1
         /\ done' <=> dcnt = 1
<1>1. done' <=> dcnt = 1
  BY Zenon DEF JobRound, Round, RoundControl
<1> QED
  BY <1>1 DEF JobRound, Round, RoundControl

(***************************************************************************)
(* PipelineInv is inductive, given the types.                              *)
(***************************************************************************)
LEMMA PipelineStep ==
  ASSUME TypeOK, PipelineInv, [JobNext]_vars
  PROVE  PipelineInv'
<1>1. ASSUME ResetControl
      PROVE  PipelineInv'
  BY <1>1 DEF ResetControl, PipelineInv
<1>2. CASE JobReset
  BY <1>1, <1>2 DEF JobReset, Reset
<1>3. CASE JobRound
  <2>1. RunRound /\ job' = job /\ known' = known
    BY <1>3 DEF JobRound, Round
  <2>2. CASE ~known
    BY <2>1, <2>2 DEF PipelineInv
  <2>3. CASE known /\ dcnt = 0
    BY <1>3, <2>3, RoundCounts DEF PipelineInv
  <2>4. CASE known /\ dcnt > 0
    <3>1. dcnt \in 1 .. 11 /\ KeysInStep /\ StateInStep
      BY <2>4 DEF PipelineInv, TypeOK
    <3>2. dcnt' = dcnt - 1 /\ (done' <=> dcnt = 1)
      BY <1>3, <2>4, RoundCounts
    <3>3. /\ dcnt' > 0 => (KeysInStep /\ StateInStep)'
          /\ dcnt' = 0 => text_out' = Encrypt(job.key, job.text)
      BY <2>1, <3>1, <3>2, RoundInStep
    <3>4. dcnt' <= 11 /\ (done' => dcnt' = 0)
      BY <3>1, <3>2
    <3> QED
      BY <2>1, <3>3, <3>4 DEF PipelineInv
  <2> QED
    BY <2>2, <2>3, <2>4 DEF TypeOK
<1>4. ASSUME NEW key \in Keys, NEW text \in Texts, JobResetLoad(key, text)
      PROVE  PipelineInv'
  BY <1>1, <1>4 DEF JobResetLoad, ResetLoad
<1>5. ASSUME NEW key \in Keys, NEW text \in Texts, JobLoad(key, text)
      PROVE  PipelineInv'
  <2>1. /\ dcnt' = 11 /\ ~done'
        /\ job'.key = key /\ job'.text = text
        /\ w' = key /\ rcon' = 1 /\ rcnt' = 0
        /\ ld_r' /\ text_in_r' = text
    BY <1>5 DEF JobLoad, Load, LoadControl, LatchInputs, u0!LoadKey
  <2>2. Cycle' = 1
    BY <2>1 DEF Cycle
  <2>3. KeysInStep'
    BY <2>1, <2>2, KeyScheduleEquation DEF KeysInStep, Rcon
  <2>4. StateInStep'
    BY <2>1, <2>2 DEF StateInStep
  <2> QED
    BY <2>1, <2>3, <2>4 DEF PipelineInv
<1>6. CASE UNCHANGED vars
  BY <1>6 DEF vars, cipherVars, PipelineInv, KeysInStep, StateInStep, Cycle
<1> QED
  BY <1>2, <1>3, <1>4, <1>5, <1>6 DEF JobNext

(***************************************************************************)
(* Counter, key generator and state array never fall out of step.          *)
(***************************************************************************)
THEOREM PipelineCorrect == Spec => []PipelineInv
<1>1. JobInit => PipelineInv
  BY DEF JobInit, PipelineInv
<1>2. TypeOK /\ PipelineInv /\ [JobNext]_vars => PipelineInv'
  BY PipelineStep
<1> QED
  BY <1>1, <1>2, TypeCorrect, PTL DEF Spec

(***************************************************************************)
(* done announces the encryption of the last block loaded.                 *)
(***************************************************************************)
THEOREM CipherCorrect == Spec => []ResultCorrect
<1>1. PipelineInv => ResultCorrect
  BY DEF PipelineInv, ResultCorrect
<1> QED
  BY <1>1, PipelineCorrect, PTL

-----------------------------------------------------------------------------
(***************************************************************************)
(* A step of the core is a step of BlockEngine or leaves it alone.         *)
(***************************************************************************)
LEMMA EngineStep ==
  ASSUME TypeOK, TypeOK', PipelineInv, PipelineInv', [JobNext]_vars
  PROVE  [Engine!EngineNext]_(Engine!engineVars)
<1>1. text_out' \in Block /\ job' \in Jobs
  BY DEF TypeOK
<1>2. ASSUME ResetControl, known', job' = job
      PROVE  Engine!Drop
  BY <1>1, <1>2 DEF ResetControl, Engine!Drop, Age
<1>3. CASE JobReset
  BY <1>2, <1>3 DEF JobReset, Reset, Engine!EngineNext
<1>4. CASE JobRound
  <2>1. known' = known /\ job' = job
    BY <1>4 DEF JobRound
  <2>2. CASE ~known
    <3>1. done' \in BOOLEAN
      BY DEF TypeOK
    <3> QED
      BY <1>1, <2>1, <2>2, <3>1 DEF Engine!Dark, Engine!EngineNext, Age
  <2>3. CASE known /\ dcnt = 0
    <3>1. dcnt' = 0 /\ ~done'
      BY <1>4, <2>3, RoundCounts
    <3>2. Age \in {0, 12} /\ Age' = 0
      BY <2>1, <2>3, <3>1 DEF Age
    <3> QED
      BY <1>1, <2>1, <2>3, <3>1, <3>2, TypeOK' DEF Engine!Rest, Engine!EngineNext, TypeOK
  <2>4. CASE known /\ dcnt > 0
    <3>1. dcnt \in 1 .. 11 /\ ~done /\ Age = 12 - dcnt
      BY <2>4 DEF PipelineInv, TypeOK, Age, Cycle
    <3>2. dcnt' = dcnt - 1 /\ (done' <=> dcnt = 1)
      BY <1>4, <2>4, RoundCounts
    <3>3. CASE dcnt = 1
      <4>1. done' /\ Age = 11 /\ Age' = 12
        BY <2>1, <2>4, <3>1, <3>2, <3>3 DEF Age
      <4>2. text_out' = EncryptJob(job)
        BY <2>1, <2>4, <4>1 DEF PipelineInv, EncryptJob
      <4>3. done' = TRUE
        BY <4>1 DEF TypeOK
      <4> QED
        BY <2>1, <2>4, <4>1, <4>2, <4>3 DEF Engine!Answer, Engine!EngineNext
    <3>4. CASE dcnt # 1
      <4>1. ~done' /\ Age \in 1 .. 10 /\ Age' = Age + 1
        BY <2>1, <2>4, <3>1, <3>2, <3>4 DEF Age, Cycle
      <4>2. done' = FALSE
        BY <4>1 DEF TypeOK
      <4> QED
        BY <1>1, <2>1, <2>4, <4>1, <4>2 DEF Engine!Work, Engine!EngineNext
    <3> QED
      BY <3>3, <3>4
  <2> QED
    BY <2>2, <2>3, <2>4 DEF TypeOK
<1>5. ASSUME NEW key \in Keys, NEW text \in Texts, JobResetLoad(key, text)
      PROVE  Engine!EngineNext
  BY <1>2, <1>5 DEF JobResetLoad, ResetLoad, Engine!EngineNext
<1>6. ASSUME NEW key \in Keys, NEW text \in Texts, JobLoad(key, text)
      PROVE  Engine!EngineNext
  <2>1. dcnt' = 11 /\ done' = FALSE /\ known' = TRUE
    BY <1>6 DEF JobLoad, Load, LoadControl
  <2>2. Age' = 1
    BY <2>1 DEF Age, Cycle
  <2> QED
    BY <1>1, <2>1, <2>2 DEF Engine!Accept, Engine!EngineNext
<1>7. CASE UNCHANGED vars
  BY <1>7 DEF vars, cipherVars, Engine!engineVars, Age, Cycle
<1> QED
  BY <1>3, <1>4, <1>5, <1>6, <1>7 DEF JobNext

(***************************************************************************)
(* The core implements the block engine: a block accepted is answered      *)
(* right, after 12 cycles and for one cycle, unless the host itself resets *)
(* the core or loads another.                                              *)
(***************************************************************************)
THEOREM CipherImplementsEngine == Spec => ImplementsEngine
<1>1. JobInit => Engine!EngineInit
  BY UnknownValues DEF JobInit, Init, Engine!EngineInit, Age
<1>2. /\ TypeOK /\ TypeOK' /\ PipelineInv /\ PipelineInv' /\ [JobNext]_vars
      => [Engine!EngineNext]_(Engine!engineVars)
  BY EngineStep
<1> QED
  BY <1>1, <1>2, TypeCorrect, PipelineCorrect, PTL
  DEF Spec, ImplementsEngine, Engine!EngineSpec
=============================================================================
