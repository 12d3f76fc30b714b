------------------------- MODULE AesInvCipherProofs -------------------------
(***************************************************************************)
(* The decryption core, for every set of keys, texts and unknown values,   *)
(* every block operations that meet AesAlgebra and every host: TypeOK,     *)
(* KeyBufferInv, ControlInv, CleanInv and what follows from them; and with *)
(* a host that keeps to its side it implements BlockEngine.                *)
(***************************************************************************)
EXTENDS PoliteHost, AesTheorems

(***************************************************************************)
(* The constant table of aes_rcon is that of FIPS-197, shifted by one, and *)
(* holds bytes only.                                                       *)
(***************************************************************************)
LEMMA FrconIsRcon ==
  /\ \A i \in 0 .. 15 : u0!frcon(i) \in Byte
  /\ \A r \in 1 .. Nr : u0!frcon(r - 1) = Rcon[r]
<1>1. ASSUME NEW i \in 0 .. 9
      PROVE  u0!frcon(i) = Rcon[i + 1] /\ u0!frcon(i) \in Byte
  BY DEF u0!frcon, Rcon, Byte
<1>2. ASSUME NEW i \in 10 .. 15
      PROVE  u0!frcon(i) \in Byte
  BY DEF u0!frcon, Byte
<1>3. ASSUME NEW r \in 1 .. Nr
      PROVE  u0!frcon(r - 1) = Rcon[r]
  <2>1. r - 1 \in 0 .. 9 /\ (r - 1) + 1 = r
    BY DEF Nr
  <2> QED
    BY <1>1, <2>1
<1> QED
  BY <1>1, <1>2, <1>3

-----------------------------------------------------------------------------
(***************************************************************************)
(* What one edge does, register by register: the five actions differ in    *)
(* the control, and otherwise in whether a text and a key come in.         *)
(***************************************************************************)
TextIn == \E text \in Texts : LatchText(text)
KeyIn == \E key \in Keys : LatchKey(key)
Edge == Datapath /\ WriteBuffer /\ (NoText \/ TextIn) /\ (NoKey \/ KeyIn)

(***************************************************************************)
(* Every step is an edge of the core, and is told from the others by what  *)
(* its two ports see.                                                      *)
(***************************************************************************)
LEMMA EveryStep ==
  ASSUME JobNext
  PROVE  /\ Edge
         /\ \/ JobReset
            \/ JobRun /\ NoText /\ NoKey
            \/ \E text \in Texts : JobLoadText(text) /\ LatchText(text) /\ NoKey
            \/ \E key \in Keys : JobLoadKey(key) /\ LatchKey(key) /\ NoText
            \/ \E key \in Keys, text \in Texts :
                 JobLoadBoth(key, text) /\ LatchKey(key) /\ LatchText(text)
BY DEF JobNext, JobReset, Reset, JobRun, Run, JobLoadText, LoadText,
       JobLoadKey, LoadKey, JobLoadBoth, LoadBoth, Edge, TextIn, KeyIn

(***************************************************************************)
(* The datapath keeps to blocks, also when it reads outside the buffer.    *)
(***************************************************************************)
LEMMA DatapathType ==
  ASSUME TypeOK, Datapath
  PROVE  sa' \in Block /\ text_out' \in Block /\ w' \in Block
<1>1. sa_ark \in Block
  BY Closure DEF TypeOK, sa_ark
<1>2. sa' \in Block
  BY <1>1, Closure DEF TypeOK, Datapath
<1>3. w' \in Block
  <2>1. DOMAIN kb = 0 .. 10
    BY DEF TypeOK
  <2>2. CASE dcnt \in 0 .. 10
    BY <2>1, <2>2 DEF TypeOK, Datapath
  <2>3. CASE dcnt \notin 0 .. 10
    BY <2>1, <2>3, UnknownValues DEF Datapath
  <2> QED
    BY <2>2, <2>3
<1> QED
  BY <1>1, <1>2, <1>3 DEF Datapath

(***************************************************************************)
(* The registers of the two ports, the buffer and the key generator keep   *)
(* to their types.                                                         *)
(***************************************************************************)
LEMMA PortsType ==
  ASSUME TypeOK, Edge
  PROVE  /\ text_in_r' \in Block /\ ld_r' \in BOOLEAN /\ done' \in BOOLEAN
         /\ wk' \in Block /\ rcon' \in Byte /\ rcnt' \in 0 .. 15
         /\ kdone' \in BOOLEAN
         /\ kb' \in [0 .. 10 -> Block]
<1>1. text_in_r' \in Block
  BY HostInputs DEF TypeOK, Edge, TextIn, LatchText, NoText
<1>2. ld_r' \in BOOLEAN /\ done' \in BOOLEAN /\ kdone' \in BOOLEAN
  BY Zenon DEF Edge, TextIn, KeyIn, LatchText, NoText, LatchKey, NoKey
<1>3. wk' \in Block /\ rcon' \in Byte /\ rcnt' \in 0 .. 15
  <2>1. CASE NoKey
    <3>1. rcnt' \in 0 .. 15
      BY <2>1 DEF TypeOK, NoKey, u0!NextKey, u0!rcnt_next
    <3>2. rcon' \in Byte
      BY <2>1, <3>1, FrconIsRcon DEF NoKey, u0!NextKey
    <3> QED
      BY <2>1, <3>1, <3>2, Closure DEF TypeOK, NoKey, u0!NextKey
  <2>2. CASE KeyIn
    BY <2>2, HostInputs DEF KeyIn, LatchKey, u0!LoadKey, Byte
  <2> QED
    BY <2>1, <2>2 DEF Edge
<1>4. kb' \in [0 .. 10 -> Block]
  BY DEF TypeOK, Edge, WriteBuffer
<1> QED
  BY <1>1, <1>2, <1>3, <1>4

(***************************************************************************)
(* The counters, the flags and the history keep to theirs.                 *)
(***************************************************************************)
LEMMA ControlType ==
  ASSUME TypeOK, JobNext
  PROVE  /\ dcnt' \in 0 .. 15 /\ go' \in BOOLEAN
         /\ kcnt' \in 0 .. 15 /\ kb_ld' \in BOOLEAN
         /\ known' \in BOOLEAN /\ fresh' \in BOOLEAN /\ clean' \in BOOLEAN
         /\ bkey' \in Keys /\ job' \in Jobs
         /\ kage' \in 0 .. 12 /\ age' \in 0 .. 12
<1>1. dcnt' \in 0 .. 15 /\ kcnt' \in 0 .. 15
  BY DEF TypeOK, JobNext, JobReset, Reset, ResetControl, JobRun, Run,
         JobLoadText, LoadText, JobLoadKey, LoadKey, JobLoadBoth, LoadBoth,
         StartText, StepText, StartKey, StepKey
<1>2. /\ go' \in BOOLEAN /\ kb_ld' \in BOOLEAN
      /\ known' \in BOOLEAN /\ fresh' \in BOOLEAN /\ clean' \in BOOLEAN
  BY Zenon
  DEF TypeOK, JobNext, JobReset, Reset, ResetControl, JobRun, Run,
      JobLoadText, LoadText, JobLoadKey, LoadKey, JobLoadBoth, LoadBoth,
      StartText, StepText, StartKey, StepKey, MayStart, MayLoadKey, StaysClean
<1>3. bkey' \in Keys /\ job' \in Jobs
  BY DEF TypeOK, Jobs, JobNext, JobReset, JobRun, JobLoadText, JobLoadKey,
         JobLoadBoth, TextAges, TextStarts, KeyAges, KeyStarts
<1>4. kage' \in 0 .. 12 /\ age' \in 0 .. 12
  BY DEF TypeOK, JobNext, JobReset, JobRun, JobLoadText, JobLoadKey,
         JobLoadBoth, TextAges, TextStarts, KeyAges, KeyStarts, Older
<1> QED
  BY <1>1, <1>2, <1>3, <1>4

(***************************************************************************)
(* TypeOK is inductive on its own.                                         *)
(***************************************************************************)
THEOREM TypeCorrect == Spec => []TypeOK
<1>1. JobInit => TypeOK
  <2> SUFFICES ASSUME JobInit
               PROVE  TypeOK
    OBVIOUS
  <2>1. /\ {dcnt, kcnt, rcnt} \subseteq 0 .. 15 /\ rcon \in Byte
        /\ {text_in_r, sa, text_out, w, wk} \subseteq Block
        /\ kb \in [0 .. 10 -> Block]
        /\ {kage, age} \subseteq 0 .. 12
        /\ bkey \in Keys /\ job \in Jobs
    BY UnknownValues DEF JobInit, Init
  <2>2. /\ go \in BOOLEAN /\ done \in BOOLEAN /\ ld_r \in BOOLEAN
        /\ kb_ld \in BOOLEAN /\ kdone \in BOOLEAN
    BY DEF JobInit, Init
  <2>3. known \in BOOLEAN /\ fresh \in BOOLEAN /\ clean \in BOOLEAN
    BY Zenon DEF JobInit
  <2> QED
    BY <2>1, <2>2, <2>3 DEF TypeOK
<1>2. TypeOK /\ [JobNext]_vars => TypeOK'
  <2> SUFFICES ASSUME TypeOK, [JobNext]_vars
               PROVE  TypeOK'
    OBVIOUS
  <2>1. CASE JobNext
    <3>1. Edge /\ Datapath
      BY <2>1, EveryStep DEF Edge
    <3> QED
      BY <2>1, <3>1, DatapathType, PortsType, ControlType DEF TypeOK
  <2>2. CASE UNCHANGED vars
    BY <2>2 DEF vars, textVars, keyBufferVars, hostVars, TypeOK
  <2> QED
    BY <2>1, <2>2
<1> QED
  BY <1>1, <1>2, PTL DEF Spec

-----------------------------------------------------------------------------
(***************************************************************************)
(* What the control does, action by action, with its flags as formulas.    *)
(***************************************************************************)
LEMMA ResetCounts ==
  ASSUME JobReset
  PROVE  /\ dcnt' = 0 /\ ~go' /\ kcnt' = 10 /\ ~kb_ld'
         /\ known' /\ fresh' /\ ~clean' /\ age' = 0
         /\ kage' = IF kage >= 11 THEN 12 ELSE 0
         /\ bkey' = bkey /\ job' = job
BY DEF JobReset, Reset, ResetControl

(***************************************************************************)
(* What an edge out of reset does on the side of the text, control and     *)
(* history together: a text starts, or the last one ages.                  *)
(***************************************************************************)
LEMMA TextCounts ==
  ASSUME JobNext, ~JobReset
  PROVE  /\ ~fresh' /\ (known' <=> known)
         /\ \/ \E text \in Texts :
                /\ LatchText(text) /\ ~done' /\ go' /\ age' = 1
                /\ dcnt' = IF done THEN 0 ELSE 1
                /\ job' = [key |-> bkey, text |-> text]
            \/ /\ NoText /\ (done' <=> dcnt = 11) /\ (go' <=> go /\ ~done)
               /\ dcnt' = IF done THEN 0 ELSE IF go THEN (dcnt + 1) % 16 ELSE dcnt
               /\ age' = IF age = 12 THEN 0 ELSE Older(age)
               /\ job' = job
<1> USE DEF TextStarts, TextAges
<1>1. ASSUME NoText, StepText
      PROVE  /\ done' <=> dcnt = 11
             /\ go' <=> go /\ ~done
             /\ dcnt' = IF done THEN 0 ELSE IF go THEN (dcnt + 1) % 16 ELSE dcnt
  BY <1>1, Zenon DEF NoText, StepText
<1>2. ASSUME NEW text \in Texts, LatchText(text), StartText
      PROVE  ~done' /\ go' /\ dcnt' = IF done THEN 0 ELSE 1
  BY <1>2 DEF LatchText, StartText
<1>3. ASSUME fresh' = FALSE, UNCHANGED known
      PROVE  ~fresh' /\ (known' <=> known)
  BY <1>3
<1>4. CASE JobRun
  <2>1. NoText /\ StepText
    BY <1>4 DEF JobRun, Run
  <2> QED
    BY <1>1, <1>3, <1>4, <2>1 DEF JobRun
<1>5. ASSUME NEW text \in Texts, JobLoadText(text)
      PROVE  LatchText(text) /\ StartText /\ fresh' = FALSE /\ UNCHANGED known
             /\ TextStarts(text)
  BY <1>5 DEF JobLoadText, LoadText
<1>6. ASSUME NEW key \in Keys, JobLoadKey(key)
      PROVE  NoText /\ StepText /\ fresh' = FALSE /\ UNCHANGED known /\ TextAges
  BY <1>6 DEF JobLoadKey, LoadKey
<1>7. ASSUME NEW key \in Keys, NEW text \in Texts, JobLoadBoth(key, text)
      PROVE  LatchText(text) /\ StartText /\ fresh' = FALSE /\ UNCHANGED known
             /\ TextStarts(text)
  BY <1>7 DEF JobLoadBoth, LoadBoth
<1> QED
  BY <1>1, <1>2, <1>3, <1>4, <1>5, <1>6, <1>7 DEF JobNext

(***************************************************************************)
(* And on the side of the key: a key starts, or the last one ages.         *)
(***************************************************************************)
LEMMA KeyCounts ==
  ASSUME JobNext, ~JobReset
  PROVE  \/ \E key \in Keys :
               /\ LatchKey(key) /\ ~kdone' /\ kcnt' = 10 /\ kb_ld'
               /\ kage' = 1 /\ bkey' = key
         \/ /\ NoKey /\ (kdone' <=> kcnt = 0)
            /\ kcnt' = IF kb_ld THEN (kcnt + 15) % 16 ELSE kcnt
            /\ kb_ld' <=> kb_ld /\ kcnt # 0
            /\ kage' = Older(kage) /\ bkey' = bkey
<1> USE DEF KeyStarts, KeyAges
<1>1. ASSUME NoKey, StepKey
      PROVE  /\ kdone' <=> kcnt = 0
             /\ kb_ld' <=> kb_ld /\ kcnt # 0
             /\ kcnt' = IF kb_ld THEN (kcnt + 15) % 16 ELSE kcnt
  BY <1>1, Zenon DEF NoKey, StepKey
<1>2. ASSUME NEW key \in Keys, LatchKey(key), StartKey
      PROVE  ~kdone' /\ kcnt' = 10 /\ kb_ld'
  BY <1>2 DEF LatchKey, StartKey
<1>3. CASE JobRun
  <2>1. NoKey /\ StepKey /\ KeyAges
    BY <1>3 DEF JobRun, Run
  <2> QED
    BY <1>1, <2>1
<1>4. ASSUME NEW text \in Texts, JobLoadText(text)
      PROVE  NoKey /\ StepKey /\ KeyAges
  BY <1>4 DEF JobLoadText, LoadText
<1>5. ASSUME NEW key \in Keys, JobLoadKey(key)
      PROVE  LatchKey(key) /\ StartKey /\ KeyStarts(key)
  BY <1>5 DEF JobLoadKey, LoadKey
<1>6. ASSUME NEW key \in Keys, NEW text \in Texts, JobLoadBoth(key, text)
      PROVE  LatchKey(key) /\ StartKey /\ KeyStarts(key)
  BY <1>6 DEF JobLoadBoth, LoadBoth
<1> QED
  BY <1>1, <1>2, <1>3, <1>4, <1>5, <1>6 DEF JobNext

-----------------------------------------------------------------------------
(***************************************************************************)
(* A write puts the next round key in its place and leaves the ones before *)
(* it in theirs; a buffer at rest is not written.                          *)
(***************************************************************************)
LEMMA WriteHolds ==
  ASSUME TypeOK, KeyBufferInv, WriteBuffer
  PROVE  /\ kage \in 1 .. 11 =>
              \A r \in 0 .. kage - 1 : kb'[10 - r] = KeySchedule(bkey)[r]
         /\ kage = 12 => kb' = kb
<1> DEFINE K == KeySchedule(bkey)
<1>1. DOMAIN kb = 0 .. 10
  BY DEF TypeOK
<1>2. ASSUME kage \in 1 .. 11, NEW r \in 0 .. kage - 1
      PROVE  kb'[10 - r] = K[r]
  <2>1. /\ kb_ld /\ kcnt = 11 - kage /\ wk = K[kage - 1]
        /\ \A i \in 0 .. kage - 2 : kb[10 - i] = K[i]
    <3>1. kage - 1 - 1 = kage - 2
      BY <1>2
    <3> QED
      BY <1>2, <3>1 DEF KeyBufferInv, Holds
  <2> HIDE DEF K
  <2>2. kcnt \in 0 .. 10 /\ 10 - r \in 0 .. 10
    BY <1>2, <2>1
  <2>3. kb' = [kb EXCEPT ![kcnt] = wk]
    BY <1>1, <2>1, <2>2 DEF WriteBuffer
  <2>4. CASE r = kage - 1
    <3>1. 10 - r = kcnt
      BY <1>2, <2>1, <2>4
    <3> QED
      BY <1>1, <2>1, <2>2, <2>3, <2>4, <3>1
  <2>5. CASE r # kage - 1
    <3>1. 10 - r # kcnt /\ r \in 0 .. kage - 2
      BY <1>2, <2>1, <2>5
    <3> QED
      BY <1>1, <2>1, <2>2, <2>3, <3>1
  <2> QED
    BY <2>4, <2>5
<1>3. kage = 12 => kb' = kb
  BY DEF KeyBufferInv, WriteBuffer
<1> QED
  BY <1>2, <1>3

(***************************************************************************)
(* KeyBufferInv is inductive, given the types.                             *)
(***************************************************************************)
LEMMA KeyBufferStep ==
  ASSUME TypeOK, KeyBufferInv, [JobNext]_vars
  PROVE  KeyBufferInv'
<1>1. CASE UNCHANGED vars
  BY <1>1 DEF vars, keyBufferVars, hostVars, KeyBufferInv, Holds
<1>2. CASE JobReset
  <2>1. /\ ~kb_ld' /\ kcnt' = 10 /\ bkey' = bkey
        /\ kage' = IF kage >= 11 THEN 12 ELSE 0
    BY <1>2, ResetCounts
  <2>2. WriteBuffer
    BY <1>2 DEF JobReset, Reset
  <2>3. kage' = 12 => kage \in {11, 12}
    BY <2>1 DEF TypeOK
  <2>4. kage \in {11, 12} => \A r \in 0 .. 10 : kb'[10 - r] = KeySchedule(bkey)[r]
    BY <2>2, WriteHolds DEF KeyBufferInv, Holds
  <2>5. kage' = 12 => Holds(bkey, 11)'
    BY <2>1, <2>3, <2>4 DEF Holds
  <2>6. kage' \notin 1 .. 11
    BY <2>1
  <2> QED
    BY <2>1, <2>5, <2>6 DEF KeyBufferInv
<1>3. ASSUME NEW key \in Keys, LatchKey(key), kcnt' = 10, kb_ld', kage' = 1, bkey' = key
      PROVE  KeyBufferInv'
  <2>1. wk' = key /\ rcnt' = 0 /\ rcon' = 1
    BY <1>3 DEF LatchKey, u0!LoadKey
  <2>2. Holds(bkey, kage - 1)'
    BY <1>3 DEF Holds
  <2>3. wk' = KeySchedule(bkey')[kage' - 1]
    BY <1>3, <2>1, KeyScheduleEquation
  <2> QED
    BY <1>3, <2>1, <2>2, <2>3 DEF KeyBufferInv, Rcon
<1>4. ASSUME JobNext, ~JobReset, NoKey,
             kcnt' = IF kb_ld THEN (kcnt + 15) % 16 ELSE kcnt,
             kb_ld' <=> kb_ld /\ kcnt # 0,
             kage' = Older(kage), bkey' = bkey
      PROVE  KeyBufferInv'
  <2> DEFINE K == KeySchedule(bkey)
  <2>0. WriteBuffer /\ (known' <=> known)
    BY <1>4, EveryStep, TextCounts DEF Edge
  <2>1. CASE kage \in 1 .. 10
    <3>1. kb_ld /\ kcnt = 11 - kage /\ kage' = kage + 1
      BY <1>4, <2>1 DEF KeyBufferInv, Older
    <3>2. kb_ld' /\ kcnt' = 11 - kage'
      BY <1>4, <2>1, <3>1
    <3>3. wk' = K[kage]
      <4>1. wk = K[kage - 1] /\ rcon = Rcon[kage] /\ kage \in 1 .. Nr
        BY <2>1 DEF KeyBufferInv, Nr
      <4> QED
        BY <1>4, <4>1, KeyScheduleEquation DEF NoKey, u0!NextKey
    <3>4. rcnt' = kage
      BY <1>4, <2>1 DEF KeyBufferInv, NoKey, u0!NextKey, u0!rcnt_next
    <3>5. kage' <= Nr => rcon' = Rcon[kage']
      <4>1. rcon' = u0!frcon(rcnt')
        BY <1>4 DEF NoKey, u0!NextKey
      <4>2. kage' <= Nr => kage' \in 1 .. Nr /\ kage' - 1 = kage
        BY <2>1, <3>1 DEF Nr
      <4> QED
        BY <3>4, <4>1, <4>2, FrconIsRcon
    <3>6. Holds(bkey, kage - 1)'
      <4>1. kage' - 1 = kage
        BY <2>1, <3>1
      <4> QED
        BY <1>4, <2>0, <2>1, <4>1, WriteHolds DEF Holds
    <3>7. kage' \in 1 .. 11 /\ kage' - 1 = kage /\ kage' # 12 /\ kage' # 0
      BY <2>1, <3>1
    <3> QED
      BY <1>4, <3>2, <3>3, <3>4, <3>5, <3>6, <3>7 DEF KeyBufferInv
  <2>2. CASE kage = 11
    <3>1. kb_ld /\ kcnt = 0 /\ kage' = 12
      BY <1>4, <2>2 DEF KeyBufferInv, Older
    <3>2. ~kb_ld' /\ kcnt' = 15
      BY <1>4, <3>1
    <3>3. Holds(bkey, 11)'
      BY <1>4, <2>0, <2>2, WriteHolds DEF Holds
    <3> QED
      BY <3>1, <3>2, <3>3 DEF KeyBufferInv
  <2>3. CASE kage = 12
    <3>1. ~kb_ld /\ kcnt \in {10, 15} /\ kage' = 12 /\ kb' = kb
      BY <1>4, <2>0, <2>3, WriteHolds DEF KeyBufferInv, Older
    <3>2. Holds(bkey, 11)'
      BY <1>4, <2>3, <3>1 DEF KeyBufferInv, Holds
    <3> QED
      BY <1>4, <3>1, <3>2 DEF KeyBufferInv
  <2>4. CASE kage = 0
    <3>1. kage' = 0
      BY <1>4, <2>4 DEF Older
    <3>2. known' => ~kb_ld' /\ kcnt' \in {10, 15}
      BY <1>4, <2>0, <2>4 DEF KeyBufferInv
    <3> QED
      BY <3>1, <3>2 DEF KeyBufferInv
  <2> QED
    BY <2>1, <2>2, <2>3, <2>4 DEF TypeOK
<1> QED
  BY <1>1, <1>2, <1>3, <1>4, KeyCounts

(***************************************************************************)
(* Every round key is in its place when the buffer is full.                *)
(***************************************************************************)
THEOREM KeyBufferCorrect == Spec => []KeyBufferInv
<1>1. JobInit => KeyBufferInv
  BY DEF JobInit, KeyBufferInv
<1>2. TypeOK /\ KeyBufferInv /\ [JobNext]_vars => KeyBufferInv'
  BY KeyBufferStep
<1> QED
  BY <1>1, <1>2, TypeCorrect, PTL DEF Spec

(***************************************************************************)
(* kdone tells the truth and tells it in time: kcnt is 0 in cycle 11 of a  *)
(* filling and in no other, which is when the last round key is stored.    *)
(***************************************************************************)
THEOREM KeyDoneCorrect == Spec => KeyDoneWhenFull
<1> DEFINE Full == kdone' => kage = 11 /\ kage' = 12 /\ Holds(bkey, 11)'
           Announced == kage = 11 /\ kage' = 12 => kdone' \/ (fresh' /\ rcnt' = 0)
<1>1. ASSUME TypeOK, KeyBufferInv, KeyBufferInv', [JobNext]_vars
      PROVE  [known => Full /\ Announced]_vars
  <2>1. SUFFICES ASSUME JobNext, known
                 PROVE  Full /\ Announced
    BY <1>1
  <2>2. kcnt = 0 <=> kage = 11
    BY <1>1, <2>1 DEF TypeOK, KeyBufferInv
  <2>3. kage' = 12 => Holds(bkey, 11)'
    BY <1>1 DEF KeyBufferInv
  <2>4. NoKey => (kdone' <=> kcnt = 0)
    BY Zenon DEF NoKey
  <2>5. KeyIn => ~kdone' /\ rcnt' = 0
    BY DEF KeyIn, LatchKey, u0!LoadKey
  <2>6. CASE JobReset
    <3>1. fresh' /\ (kage = 11 => kage' = 12)
      BY <2>6, ResetCounts
    <3>2. NoKey \/ KeyIn
      BY <2>1, EveryStep DEF Edge
    <3> QED
      BY <2>2, <2>3, <2>4, <2>5, <3>1, <3>2
  <2>7. CASE ~JobReset
    <3>1. \/ ~kdone' /\ kage' = 1
          \/ NoKey /\ kage' = Older(kage)
      BY <2>1, <2>7, KeyCounts
    <3>2. kage = 11 => Older(kage) = 12
      BY DEF Older
    <3> QED
      BY <2>2, <2>3, <2>4, <3>1, <3>2
  <2> QED
    BY <2>6, <2>7
<1> QED
  BY <1>1, TypeCorrect, KeyBufferCorrect, PTL DEF Spec, KeyDoneWhenFull

-----------------------------------------------------------------------------
(***************************************************************************)
(* ControlInv is inductive, given the types, and done never stays high.    *)
(***************************************************************************)
LEMMA ControlStep ==
  ASSUME TypeOK, ControlInv, [JobNext]_vars
  PROVE  ControlInv'
<1> USE DEF Resting, InTime, Late, LateEnd
<1>1. CASE UNCHANGED vars
  BY <1>1 DEF vars, textVars, hostVars, ControlInv
<1>2. CASE JobReset
  BY <1>2, ResetCounts DEF ControlInv
<1>3. CASE JobNext /\ ~JobReset /\ known
  <2>1. ~fresh'
    BY <1>3, TextCounts
  <2>2. ASSUME ~done', go', age' = 1, dcnt' = IF done THEN 0 ELSE 1
        PROVE  ControlInv'
    <3>1. IF done THEN Late' ELSE InTime'
      BY <2>2
    <3> QED
      BY <2>1, <3>1 DEF ControlInv
  <2>3. ASSUME done' <=> dcnt = 11, go' <=> go /\ ~done,
               dcnt' = IF done THEN 0 ELSE IF go THEN (dcnt + 1) % 16 ELSE dcnt,
               age' = IF age = 12 THEN 0 ELSE Older(age)
        PROVE  ControlInv'
    <3>1. CASE fresh \/ Resting \/ LateEnd
      <4>1. age' = 0 /\ dcnt' = 0 /\ ~go' /\ ~done'
        BY <1>3, <2>3, <3>1 DEF ControlInv, Older
      <4> QED
        BY <2>1, <4>1 DEF ControlInv
    <3>2. CASE InTime
      BY <2>1, <2>3, <3>2 DEF ControlInv, Older
    <3>3. CASE Late
      BY <2>1, <2>3, <3>3 DEF ControlInv, Older
    <3> QED
      BY <1>3, <3>1, <3>2, <3>3 DEF ControlInv
  <2> QED
    BY <1>3, <2>2, <2>3, TextCounts
<1>4. CASE JobNext /\ ~JobReset /\ ~known
  BY <1>4, TextCounts DEF ControlInv
<1> QED
  BY <1>1, <1>2, <1>3, <1>4

(***************************************************************************)
(* The index, the run flag and done follow the host's clock, or it late by *)
(* a cycle, whatever the host does.                                        *)
(***************************************************************************)
THEOREM ControlCorrect == Spec => []ControlInv
<1>1. JobInit => ControlInv
  BY DEF JobInit, ControlInv
<1>2. TypeOK /\ ControlInv /\ [JobNext]_vars => ControlInv'
  BY ControlStep
<1> QED
  BY <1>1, <1>2, TypeCorrect, PTL DEF Spec

(***************************************************************************)
(* done never lasts two cycles: while it is high the index is not 11.      *)
(***************************************************************************)
THEOREM DonePulse == Spec => DoneIsPulse
<1>1. ASSUME TypeOK, ControlInv, [JobNext]_vars
      PROVE  [known /\ done => ~done']_vars
  <2>1. SUFFICES ASSUME JobNext, known, done
                 PROVE  ~done'
    BY <1>1
  <2>2. dcnt # 11
    BY <1>1, <2>1 DEF ControlInv, Resting, InTime, Late, LateEnd
  <2>3. NoText \/ TextIn
    BY <2>1, EveryStep DEF Edge
  <2> QED
    BY <2>2, <2>3 DEF NoText, TextIn, LatchText
<1> QED
  BY <1>1, TypeCorrect, ControlCorrect, PTL DEF Spec, DoneIsPulse

-----------------------------------------------------------------------------
(***************************************************************************)
(* One edge without a new text takes a clean decryption to its next cycle, *)
(* unless the host loads a key too early or the decryption is over.        *)
(***************************************************************************)
LEMMA CleanAdvances ==
  ASSUME TypeOK, KeyBufferInv, CleanInv, Edge, NoText, clean, age # 12,
         job' = job, age' = age + 1, dcnt' = age + 1,
         \/ age \notin 1 .. 8
         \/ kage' = Older(kage) /\ bkey' = bkey
  PROVE  CleanInStep'
<1> DEFINE K == KeySchedule(job.key)
           D == InvCipherRounds(job.key, job.text)
<1>1. age \in 1 .. 11 /\ dcnt = age /\ CleanInStep
  BY DEF CleanInv, InTime, TypeOK
<1>2. ~ld_r'
  BY DEF NoText
<1>3. age' <= 11 => w' = K[11 - age']
  <2> SUFFICES ASSUME age \in 1 .. 10
               PROVE  w' = K[11 - age']
    BY <1>1
  <2>1. w' = kb[age]
    BY <1>1 DEF Edge, Datapath, TypeOK
  <2>2. 11 - age' = 10 - age
    OBVIOUS
  <2>3. CASE age = 10
    BY <1>1, <2>1, <2>2, <2>3 DEF CleanInStep
  <2>4. CASE age <= 9
    <3>1. kb[10 - (10 - age)] = K[10 - age]
      BY <1>1, <2>4 DEF CleanInStep, KeyBufferInv, Holds
    <3> QED
      BY <2>1, <2>2, <2>4, <3>1
  <2> QED
    BY <2>3, <2>4
<1>4. age' \in 2 .. 11 => sa' = D[age' - 2]
  <2> SUFFICES ASSUME age \in 1 .. 10
               PROVE  sa' = D[age' - 2]
    BY <1>1
  <2>1. age' - 2 = age - 1 /\ w = K[11 - age]
    BY <1>1 DEF CleanInStep
  <2>2. CASE age = 1
    <3>1. sa' = Xor(job.text, w)
      BY <1>1, <2>2 DEF CleanInStep, Edge, Datapath
    <3> QED
      BY <2>1, <2>2, <3>1, InvCipherEquation DEF Nr
  <2>3. CASE age > 1
    <3>1. sa' = InvCipherRound(sa, w)
      BY <1>1, <2>3 DEF CleanInStep, Edge, Datapath, sa_ark, InvCipherRound
    <3>2. age - 1 \in 1 .. Nr - 1 /\ (age - 1) - 1 = age - 2 /\ Nr - (age - 1) = 11 - age
      BY <2>3 DEF Nr
    <3>3. D[age - 1] = InvCipherRound(D[age - 2], K[11 - age])
      BY <3>2, InvCipherEquation
    <3> QED
      BY <1>1, <2>1, <2>3, <3>1, <3>3 DEF CleanInStep
  <2> QED
    BY <1>1, <2>2, <2>3
<1>5. age' = 12 => text_out' = Decrypt(job.key, job.text)
  <2> SUFFICES ASSUME age = 11
               PROVE  text_out' = Decrypt(job.key, job.text)
    BY <1>1
  <2>1. sa = D[9] /\ w = K[0]
    BY <1>1 DEF CleanInStep
  <2> QED
    BY <2>1 DEF Edge, Datapath, sa_ark, Decrypt, Nr
<1>6. age' <= 9 => kage' = 12 /\ bkey' = job.key
  BY <1>1 DEF CleanInStep, Older
<1>7. age' = 10 => kb'[10] = K[0]
  <2> SUFFICES ASSUME age = 9
               PROVE  kb'[10] = K[0]
    BY <1>1
  <2>1. kage = 12 /\ bkey = job.key
    BY <1>1 DEF CleanInStep
  <2>2. kb' = kb /\ Holds(job.key, 11)
    BY <2>1, WriteHolds DEF Edge, KeyBufferInv
  <2>3. kb[10 - 0] = K[0]
    BY <2>2 DEF Holds
  <2> QED
    BY <2>2, <2>3
<1>8. age' # 1
  BY <1>1
<1> HIDE DEF K, D
<1> QED
  BY <1>2, <1>3, <1>4, <1>5, <1>6, <1>7, <1>8 DEF CleanInStep, K, D

(***************************************************************************)
(* CleanInv is inductive, given the types, the buffer and the control.     *)
(***************************************************************************)
LEMMA CleanStep ==
  ASSUME TypeOK, KeyBufferInv, ControlInv, CleanInv, [JobNext]_vars
  PROVE  CleanInv'
<1>1. CASE UNCHANGED vars
  BY <1>1 DEF vars, textVars, keyBufferVars, hostVars, CleanInv, InTime, CleanInStep
<1>2. CASE JobReset
  BY <1>2, ResetCounts DEF CleanInv
<1>3. ASSUME NEW text \in Texts, JobLoadText(text), LatchText(text)
      PROVE  CleanInv'
  <2>1. /\ clean' <=> MayStart
        /\ ~fresh' /\ (known' <=> known)
        /\ age' = 1 /\ job' = [key |-> bkey, text |-> text]
        /\ kage' = Older(kage) /\ bkey' = bkey
    BY <1>3, Zenon DEF JobLoadText, TextStarts, KeyAges
  <2> SUFFICES ASSUME MayStart
               PROVE  CleanInv'
    BY <2>1 DEF CleanInv
  <2>2. known /\ kage = 12 /\ ~done /\ dcnt = 0
    BY DEF MayStart, ControlInv, Resting, InTime, Late, LateEnd
  <2>3. dcnt' = 1 /\ go' /\ ~done'
    BY <1>3, <2>2 DEF JobLoadText, LoadText, StartText, LatchText
  <2>4. w' = KeySchedule(bkey)[10]
    <3>1. w' = kb[0]
      BY <1>3, <2>2 DEF JobLoadText, LoadText, Datapath, TypeOK
    <3>2. kb[10 - 10] = KeySchedule(bkey)[10]
      BY <2>2 DEF KeyBufferInv, Holds
    <3> QED
      BY <3>1, <3>2
  <2>5. job'.key = bkey /\ job'.text = text /\ kage' = 12
    BY <2>1, <2>2 DEF Older
  <2>6. ld_r' /\ text_in_r' = text
    BY <1>3 DEF LatchText
  <2>7. 11 - age' = 10
    BY <2>1
  <2> QED
    BY <2>1, <2>2, <2>3, <2>4, <2>5, <2>6, <2>7 DEF CleanInv, InTime, CleanInStep
<1>4. ASSUME NoText, Edge, clean' => StaysClean, ~fresh', known' <=> known,
             done' <=> dcnt = 11, go' <=> go /\ ~done,
             dcnt' = IF done THEN 0 ELSE IF go THEN (dcnt + 1) % 16 ELSE dcnt,
             age' = IF age = 12 THEN 0 ELSE Older(age), job' = job,
             clean' => MayLoadKey \/ (kage' = Older(kage) /\ bkey' = bkey)
      PROVE  CleanInv'
  <2> SUFFICES ASSUME clean'
               PROVE  CleanInv'
    BY DEF CleanInv
  <2>1. clean /\ age \in 1 .. 11 /\ dcnt = age /\ go /\ ~done /\ known
    BY <1>4 DEF StaysClean, CleanInv, InTime
  <2>2. age' = age + 1 /\ dcnt' = age + 1 /\ go' /\ (done' <=> age' = 12)
    BY <1>4, <2>1 DEF Older
  <2>3. age' \in 1 .. 12
    BY <2>1, <2>2
  <2>4. CleanInStep'
    BY <1>4, <2>1, <2>2, CleanAdvances DEF MayLoadKey
  <2> QED
    BY <1>4, <2>1, <2>2, <2>3, <2>4 DEF CleanInv, InTime
<1>5. ASSUME NoText, NoKey, JobRun
      PROVE  CleanInv'
  <2>1. /\ StepText
        /\ clean' <=> StaysClean
        /\ ~fresh' /\ (known' <=> known)
        /\ age' = IF age = 12 THEN 0 ELSE Older(age)
        /\ job' = job
        /\ kage' = Older(kage) /\ bkey' = bkey
    BY <1>5, Zenon DEF JobRun, Run, TextAges, KeyAges
  <2>2. JobNext /\ Edge
    BY <1>5, EveryStep DEF JobNext
  <2>3. /\ done' <=> dcnt = 11
        /\ go' <=> go /\ ~done
        /\ dcnt' = IF done THEN 0 ELSE IF go THEN (dcnt + 1) % 16 ELSE dcnt
    BY <1>5, <2>1, Zenon DEF NoText, StepText
  <2> QED
    BY <1>4, <1>5, <2>1, <2>2, <2>3
<1>6. ASSUME NEW key \in Keys, NoText, JobLoadKey(key)
      PROVE  CleanInv'
  <2>1. /\ StepText
        /\ clean' <=> StaysClean /\ MayLoadKey
        /\ ~fresh' /\ (known' <=> known)
        /\ age' = IF age = 12 THEN 0 ELSE Older(age)
        /\ job' = job
    BY <1>6, Zenon DEF JobLoadKey, LoadKey, TextAges
  <2>2. JobNext /\ Edge
    BY <1>6, EveryStep DEF JobNext
  <2>3. /\ done' <=> dcnt = 11
        /\ go' <=> go /\ ~done
        /\ dcnt' = IF done THEN 0 ELSE IF go THEN (dcnt + 1) % 16 ELSE dcnt
    BY <1>6, <2>1, Zenon DEF NoText, StepText
  <2> QED
    BY <1>4, <1>6, <2>1, <2>2, <2>3
<1>7. ASSUME NEW key \in Keys, NEW text \in Texts, JobLoadBoth(key, text)
      PROVE  CleanInv'
  BY <1>7 DEF JobLoadBoth, CleanInv
<1> QED
  BY <1>1, <1>2, <1>3, <1>5, <1>6, <1>7, EveryStep

(***************************************************************************)
(* In a clean decryption round keys and states meet.                       *)
(***************************************************************************)
THEOREM CleanCorrect == Spec => []CleanInv
<1>1. JobInit => CleanInv
  BY DEF JobInit, CleanInv
<1>2. TypeOK /\ KeyBufferInv /\ ControlInv /\ CleanInv /\ [JobNext]_vars => CleanInv'
  BY CleanStep
<1> QED
  BY <1>1, <1>2, TypeCorrect, KeyBufferCorrect, ControlCorrect, PTL DEF Spec

(***************************************************************************)
(* done announces the decryption of the last text, to a host that kept to  *)
(* its side.                                                               *)
(***************************************************************************)
THEOREM InvCipherCorrect == Spec => []CleanResult
<1>1. CleanInv => CleanResult
  BY DEF CleanInv, InTime, CleanInStep, CleanResult
<1> QED
  BY <1>1, CleanCorrect, PTL

-----------------------------------------------------------------------------
(***************************************************************************)
(* A polite step is a step of the core: its invariants carry over.         *)
(***************************************************************************)
LEMMA PoliteIsHost == PoliteSpec => Spec
<1>1. [PoliteNext]_vars => [JobNext]_vars
  BY DEF PoliteNext, PoliteLoadText, PoliteLoadKey, JobNext
<1> QED
  BY <1>1, PTL DEF PoliteSpec, Spec

(***************************************************************************)
(* What is proved of the core under any host holds under a polite one.     *)
(***************************************************************************)
LEMMA PoliteInvariants ==
  PoliteSpec => [](TypeOK /\ ControlInv /\ CleanInv)
BY PoliteIsHost, TypeCorrect, ControlCorrect, CleanCorrect, PTL

(***************************************************************************)
(* A polite step is a reset, the start of a clean decryption, or a step    *)
(* that leaves the text port alone; the last keeps clean what is clean.    *)
(***************************************************************************)
QuietText ==
    /\ ~fresh' /\ (known' <=> known) /\ job' = job
    /\ age' = IF age = 12 THEN 0 ELSE Older(age)
    /\ dcnt' = IF done THEN 0 ELSE IF go THEN (dcnt + 1) % 16 ELSE dcnt
    /\ go' <=> go /\ ~done
    /\ done' <=> dcnt = 11
    /\ clean' <=> StaysClean

(***************************************************************************)
(* A polite step is one of the three: a reset, a start, or QuietText.      *)
(***************************************************************************)
LEMMA PoliteStep ==
  ASSUME PoliteNext
  PROVE  \/ JobReset
         \/ QuietText
         \/ /\ ~fresh' /\ known /\ known' /\ clean'
            /\ age' = 1 /\ ~done' /\ \E text \in Texts : job' = [key |-> bkey, text |-> text]
<1>1. ASSUME NoText, StepText
      PROVE  /\ done' <=> dcnt = 11
             /\ go' <=> go /\ ~done
             /\ dcnt' = IF done THEN 0 ELSE IF go THEN (dcnt + 1) % 16 ELSE dcnt
  BY <1>1, Zenon DEF NoText, StepText
<1>2. CASE JobRun
  <2>1. NoText /\ StepText /\ TextAges
    BY <1>2 DEF JobRun, Run
  <2>2. ~fresh' /\ (known' <=> known) /\ (clean' <=> StaysClean)
    BY <1>2, Zenon DEF JobRun
  <2> QED
    BY <1>1, <2>1, <2>2 DEF QuietText, TextAges
<1>3. ASSUME NEW key \in Keys, PoliteLoadKey(key)
      PROVE  QuietText
  <2>1. NoText /\ StepText /\ TextAges
    BY <1>3 DEF PoliteLoadKey, JobLoadKey, LoadKey
  <2>2. ~fresh' /\ (known' <=> known) /\ (clean' <=> StaysClean)
    BY <1>3, Zenon DEF PoliteLoadKey, JobLoadKey
  <2> QED
    BY <1>1, <2>1, <2>2 DEF QuietText, TextAges
<1>4. ASSUME NEW text \in Texts, PoliteLoadText(text)
      PROVE  /\ ~fresh' /\ known /\ known' /\ clean'
             /\ age' = 1 /\ ~done' /\ job' = [key |-> bkey, text |-> text]
  <2>1. ~fresh' /\ known /\ (known' <=> known) /\ (clean' <=> MayStart) /\ MayStart
    BY <1>4, Zenon DEF PoliteLoadText, JobLoadText, MayStart
  <2>2. age' = 1 /\ ~done' /\ job' = [key |-> bkey, text |-> text]
    BY <1>4 DEF PoliteLoadText, JobLoadText, LoadText, LatchText, TextStarts
  <2> QED
    BY <2>1, <2>2
<1> QED
  BY <1>2, <1>3, <1>4 DEF PoliteNext

(***************************************************************************)
(* The polite host's side suffices: every decryption clean, and the core   *)
(* ready whenever the host's clock is at rest.                             *)
(***************************************************************************)
THEOREM PoliteIsReady == PoliteSpec => []AlwaysReady
<1>1. JobInit => AlwaysReady
  BY DEF JobInit, AlwaysReady
<1>2. TypeOK /\ CleanInv /\ AlwaysReady /\ [PoliteNext]_vars => AlwaysReady'
  <2> SUFFICES ASSUME TypeOK, CleanInv, AlwaysReady, [PoliteNext]_vars
               PROVE  AlwaysReady'
    OBVIOUS
  <2>1. CASE JobReset
    BY <2>1, ResetCounts DEF AlwaysReady
  <2>2. CASE QuietText
    <3>1. CASE age = 12
      <4>1. done /\ age' = 0
        BY <2>2, <3>1 DEF AlwaysReady, CleanInv, InTime, QuietText
      <4> QED
        BY <2>2, <4>1 DEF AlwaysReady, QuietText
    <3>2. CASE age \in 1 .. 11
      <4>1. clean' /\ age' = age + 1
        BY <2>2, <3>2 DEF AlwaysReady, QuietText, StaysClean, Older
      <4> QED
        BY <3>2, <4>1 DEF AlwaysReady
    <3>3. CASE age = 0
      <4>1. age' = 0
        BY <2>2, <3>3 DEF QuietText, Older
      <4>2. known' => dcnt' = 0 /\ ~go'
        BY <2>2, <3>3 DEF QuietText, AlwaysReady
      <4> QED
        BY <4>1, <4>2 DEF AlwaysReady
    <3> QED
      BY <3>1, <3>2, <3>3 DEF TypeOK
  <2>3. CASE clean' /\ age' = 1
    BY <2>3 DEF AlwaysReady
  <2>4. CASE UNCHANGED vars
    BY <2>4 DEF vars, textVars, hostVars, AlwaysReady
  <2> QED
    BY <2>1, <2>2, <2>3, <2>4, PoliteStep
<1> QED
  BY <1>1, <1>2, PoliteInvariants, PTL DEF PoliteSpec

-----------------------------------------------------------------------------
(***************************************************************************)
(* A step that leaves the text port alone is a step of BlockEngine: a      *)
(* cycle in the dark, at work, at rest, or the one that brings the answer. *)
(***************************************************************************)
LEMMA QuietStep ==
  ASSUME TypeOK, TypeOK', CleanInv, CleanInv', AlwaysReady, AlwaysReady', QuietText
  PROVE  Engine!EngineNext
<1>1. text_out' \in Block /\ job' = job /\ known' = known
  BY DEF TypeOK, QuietText
<1>2. (done /\ ~fresh)' \in BOOLEAN /\ ((done /\ ~fresh)' <=> dcnt = 11)
  BY DEF QuietText
<1>3. CASE ~known
  <2>1. age = 0 /\ age' = 0
    BY <1>3 DEF CleanInv, AlwaysReady, TypeOK, QuietText, Older
  <2> QED
    BY <1>1, <1>2, <1>3, <2>1 DEF Engine!Dark, Engine!EngineNext
<1>4. CASE known /\ age \in {0, 12}
  <2>1. age' = 0 /\ dcnt # 11
    BY <1>4 DEF QuietText, AlwaysReady, CleanInv, InTime, Older
  <2>2. (done /\ ~fresh)' = FALSE
    BY <1>2, <2>1
  <2> QED
    BY <1>1, <1>4, <2>1, <2>2 DEF Engine!Rest, Engine!EngineNext
<1>5. CASE known /\ age \in 1 .. 10
  <2>1. age' = age + 1 /\ dcnt # 11
    BY <1>5 DEF QuietText, AlwaysReady, CleanInv, InTime, Older
  <2>2. (done /\ ~fresh)' = FALSE
    BY <1>2, <2>1
  <2> QED
    BY <1>1, <1>5, <2>1, <2>2 DEF Engine!Work, Engine!EngineNext
<1>6. CASE known /\ age = 11
  <2>1. age' = 12 /\ dcnt = 11
    BY <1>6 DEF QuietText, AlwaysReady, CleanInv, InTime, Older
  <2>2. (done /\ ~fresh)' = TRUE
    BY <1>2, <2>1
  <2>3. text_out' = DecryptJob(job)
    BY <1>1, <2>1 DEF AlwaysReady, CleanInv, CleanInStep, DecryptJob
  <2> QED
    BY <1>1, <1>6, <2>1, <2>2, <2>3 DEF Engine!Answer, Engine!EngineNext
<1> QED
  BY <1>3, <1>4, <1>5, <1>6 DEF TypeOK

(***************************************************************************)
(* A step of the core and its polite host is a step of BlockEngine or      *)
(* leaves it alone.                                                        *)
(***************************************************************************)
LEMMA EngineStep ==
  ASSUME TypeOK, TypeOK', CleanInv, CleanInv', AlwaysReady, AlwaysReady', [PoliteNext]_vars
  PROVE  [Engine!EngineNext]_(Engine!engineVars)
<1>1. text_out' \in Block /\ job' \in Jobs
  BY DEF TypeOK
<1>2. CASE JobReset
  <2>1. (done /\ ~fresh)' = FALSE /\ known' = TRUE /\ age' = 0 /\ job' = job
    BY <1>2, ResetCounts DEF TypeOK
  <2> QED
    BY <1>1, <2>1 DEF Engine!Drop, Engine!EngineNext
<1>3. CASE QuietText
  BY <1>3, QuietStep
<1>4. CASE ~fresh' /\ known' /\ age' = 1 /\ ~done'
  <2>1. (done /\ ~fresh)' = FALSE /\ known' = TRUE
    BY <1>4 DEF TypeOK
  <2> QED
    BY <1>1, <1>4, <2>1 DEF Engine!Accept, Engine!EngineNext
<1>5. CASE UNCHANGED vars
  BY <1>5 DEF vars, textVars, hostVars, Engine!engineVars
<1> QED
  BY <1>2, <1>3, <1>4, <1>5, PoliteStep

(***************************************************************************)
(* Core and polite host implement the block engine that the encryption     *)
(* core implements for any host.                                           *)
(***************************************************************************)
THEOREM InvCipherImplementsEngine == PoliteSpec => ImplementsEngine
<1>1. JobInit => Engine!EngineInit
  <2> SUFFICES ASSUME JobInit
               PROVE  Engine!EngineInit
    OBVIOUS
  <2>1. known = FALSE /\ job \in Jobs /\ age = 0 /\ text_out \in Block
    BY UnknownValues DEF JobInit, Init
  <2>2. (done /\ ~fresh) \in BOOLEAN
    OBVIOUS
  <2> QED
    BY <2>1, <2>2 DEF Engine!EngineInit
<1>2. /\ TypeOK /\ TypeOK' /\ CleanInv /\ CleanInv' /\ AlwaysReady /\ AlwaysReady'
      /\ [PoliteNext]_vars
      => [Engine!EngineNext]_(Engine!engineVars)
  BY EngineStep
<1> QED
  BY <1>1, <1>2, PoliteInvariants, PoliteIsReady, PTL
  DEF PoliteSpec, ImplementsEngine, Engine!EngineSpec
=============================================================================
