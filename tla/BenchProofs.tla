---------------------------- MODULE BenchProofs ----------------------------
(***************************************************************************)
(* The bench, for every block operations, keys, texts and warm-up of two   *)
(* calls or more: as long as no reset comes in the last two calls of a     *)
(* block, the golden model keeps in step with the core, and the checker    *)
(* neither finds an error nor lets an answer go by.  Nothing is assumed of *)
(* the core beyond its own theorems.                                       *)
(***************************************************************************)
EXTENDS Bench, AesCipherProofs

(***************************************************************************)
(* The bench is one of the hosts of the core, whose theorems hold in it.   *)
(***************************************************************************)
LEMMA BenchIsHost == BenchSpec => [](TypeOK /\ PipelineInv)
<1>1. BenchInit => JobInit
  BY DEF BenchInit
<1>2. ASSUME NEW rt, NEW l, NEW k \in Keys, NEW t \in Texts, CoreEdge(rt, l, k, t)
      PROVE  JobNext
  BY <1>2 DEF CoreEdge, JobNext
<1>3. [BenchNext]_<<vars, benchVars>> => [JobNext]_vars
  BY <1>2 DEF BenchNext, do_cycle
<1>4. BenchSpec => Spec
  BY <1>1, <1>3, PTL DEF BenchSpec, Spec
<1> QED
  BY <1>4, TypeCorrect, PipelineCorrect, PTL

(***************************************************************************)
(* What an edge that is driven does to the core.                           *)
(***************************************************************************)
LEMMA CoreCounts ==
  ASSUME NEW rt \in BOOLEAN, NEW l \in BOOLEAN, NEW k, NEW t,
         CoreEdge(rt, l, k, t), calls # 0
  PROVE  /\ ~rt => known' /\ dcnt' = 0 /\ ~done' /\ job' = job
         /\ rt /\ l => /\ known' /\ dcnt' = 11 /\ ~done'
                       /\ job' = [key |-> k, text |-> t]
         /\ rt /\ ~l => /\ (known' <=> known) /\ job' = job
                        /\ dcnt' = IF dcnt # 0 THEN dcnt - 1 ELSE dcnt
                        /\ done' <=> dcnt = 1
<1>1. ASSUME JobResetLoad(k, t) \/ JobReset
      PROVE  known' /\ dcnt' = 0 /\ ~done' /\ job' = job
  BY <1>1 DEF JobResetLoad, ResetLoad, JobReset, Reset, ResetControl
<1>2. ASSUME JobLoad(k, t)
      PROVE  known' /\ dcnt' = 11 /\ ~done' /\ job' = [key |-> k, text |-> t]
  BY <1>2 DEF JobLoad, Load, LoadControl
<1>3. ASSUME JobRound
      PROVE  /\ (known' <=> known) /\ job' = job
             /\ dcnt' = IF dcnt # 0 THEN dcnt - 1 ELSE dcnt
             /\ done' <=> dcnt = 1
  <2>1. known' = known /\ job' = job
    BY <1>3 DEF JobRound
  <2> QED
    BY <1>3, <2>1, RoundCounts
<1>4. /\ ~rt => JobResetLoad(k, t) \/ JobReset
      /\ rt /\ l => JobLoad(k, t)
      /\ rt /\ ~l => JobRound
  BY DEF CoreEdge
<1> QED
  BY <1>1, <1>2, <1>3, <1>4

-----------------------------------------------------------------------------
(***************************************************************************)
(* The strengthening of LockStep: how the bench starts, what the           *)
(* transaction knows of the golden model, and the answer in flight.        *)
(***************************************************************************)
BenchInv ==
    /\ calls \in Nat /\ (calls < Warmup => ~rst)
    /\ calls < 2 => /\ status \in {0, 1} /\ ~rst /\ ~cb_done
                    /\ known => calls = 1 /\ ~done
    /\ t_status = 0 => status = 0 \/ ~rst
    /\ LockStep
    /\ calls >= 2 /\ ~rst => status <= 12
    /\ calls >= 2 /\ cb_done => cb_text_out = Encrypt(key, state)
    /\ rst \in BOOLEAN /\ cb_done \in BOOLEAN

(***************************************************************************)
(* The golden model's side of a call, by the new status s.                 *)
(***************************************************************************)
LEMMA GoldenStep ==
  ASSUME BenchConstants, HostInputs, UnpassedRst = {TRUE},
         NEW rt \in BOOLEAN, NEW l \in BOOLEAN, NEW k \in Keys, NEW t \in Texts,
         NEW s, s = send_ld_rst(l), Golden(rt, l, k, t)
  PROVE  /\ rst' = rt
         /\ status' = IF s = 14 THEN 0 ELSE s
         /\ t_status' = IF calls + 1 = Warmup THEN 0 ELSE s
         /\ s = 1 => key' = k /\ state' = t
         /\ s # 1 => key' = key
         /\ s \notin {1, 14} => state' = state
         /\ s = 14 /\ rt => ctext' = Reversed(Encrypt(key, state))
         /\ verdict' = check_result(s, ctext')
<1>1. k \in Block /\ t \in Block
  BY DEF HostInputs
<1>2. s = 1 => key_now(s, k) = k /\ text_now(s, t) = t
  BY <1>1 DEF BenchConstants, key_now, text_now, rearranged, rebuilt, Words
<1>3. s # 1 => key_now(s, k) = key /\ text_now(s, t) = state
  BY DEF key_now, text_now, rearranged, rebuilt
<1> DEFINE enc == generated(s, TRUE, text_now(s, t), key_now(s, k))
           c == ciphertext(rt, rearranged(s, 14, enc))
<1>4. /\ rst' = rt /\ key' = key_now(s, k) /\ state' = enc /\ ctext' = c
      /\ status' = IF s = 14 THEN 0 ELSE s
      /\ t_status' = IF calls + 1 = Warmup THEN 0 ELSE s
      /\ verdict' = check_result(s, c)
  BY DEF Golden
<1>5. s # 14 => enc = text_now(s, t)
  BY DEF generated
<1>6. s = 14 => enc = Encrypt(key, state)
  BY <1>3 DEF generated
<1>7. s = 14 /\ rt => c = Reversed(Encrypt(key, state))
  BY <1>6 DEF ciphertext, rearranged
<1> HIDE DEF enc, c
<1>8. /\ s = 1 => key' = k /\ state' = t
      /\ s # 1 => key' = key
      /\ s \notin {1, 14} => state' = state
  BY <1>2, <1>3, <1>4, <1>5
<1>9. s = 14 /\ rt => ctext' = Reversed(Encrypt(key, state))
  BY <1>4, <1>7
<1>10. verdict' = check_result(s, ctext')
  BY <1>4
<1> QED
  BY <1>4, <1>8, <1>9, <1>10

(***************************************************************************)
(* BenchInv is inductive and leads to what the checker finds.              *)
(***************************************************************************)
LEMMA BenchStep ==
  ASSUME BenchConstants, HostInputs, UnpassedRst = {TRUE}, ResetsAt \subseteq 0 .. 12,
         Warmup >= 2,
         TypeOK, TypeOK', PipelineInv, PipelineInv', BenchInv, BenchNext
  PROVE  /\ BenchInv'
         /\ verdict' \notin Errors
         /\ calls >= 2 /\ cb_done => verdict' = "passed text"
<1> SUFFICES ASSUME NEW rt \in BOOLEAN, NEW l \in BOOLEAN, NEW k \in Keys,
                    NEW t \in Texts, do_cycle(rt, l, k, t),
                    NEW s, s = send_ld_rst(l)
             PROVE  /\ BenchInv'
                    /\ verdict' \notin Errors
                    /\ calls >= 2 /\ cb_done => verdict' = "passed text"
  BY DEF BenchNext
<1>1. /\ Transaction(rt, l) /\ Golden(rt, l, k, t) /\ Sample
      /\ CoreEdge(rt, l, k, t)
      /\ calls' = IF calls < Warmup THEN calls + 1 ELSE calls
  BY DEF do_cycle
<1>2. /\ rst' = rt
      /\ status' = IF s = 14 THEN 0 ELSE s
      /\ t_status' = IF calls + 1 = Warmup THEN 0 ELSE s
      /\ s = 1 => key' = k /\ state' = t
      /\ s # 1 => key' = key
      /\ s \notin {1, 14} => state' = state
      /\ s = 14 /\ rt => ctext' = Reversed(Encrypt(key, state))
      /\ verdict' = check_result(s, ctext')
  BY <1>1, GoldenStep
<1>3. calls \in Nat /\ calls' \in Nat /\ Warmup \in Nat /\ calls' >= calls
  BY <1>1 DEF BenchInv, BenchConstants
<1>4. /\ t_status # 0 => ~l
      /\ calls < Warmup => ~rt
      /\ calls >= Warmup => rt \/ s \in 0 .. 12
  <2>1. t_status # 0 => ~l
    BY <1>1 DEF Transaction
  <2>2. calls < Warmup => ~rt
    BY <1>1 DEF Transaction
  <2>3. ~(calls < Warmup) => rt \/ s \in ResetsAt
    BY <1>1 DEF Transaction
  <2>4. calls >= Warmup => ~(calls < Warmup)
    BY <1>3
  <2>5. s \in ResetsAt => s \in 0 .. 12
    OBVIOUS
  <2> QED
    BY <2>1, <2>2, <2>3, <2>4, <2>5, Zenon
<1>5. s = IF l THEN 1 ELSE IF ~rst /\ status # 14 THEN 0
          ELSE IF status >= 1 THEN status + 1 ELSE 0
  BY DEF send_ld_rst
<1>6. calls # 0 =>
        /\ ~rt => known' /\ dcnt' = 0 /\ ~done' /\ job' = job
        /\ rt /\ l => /\ known' /\ dcnt' = 11 /\ ~done'
                      /\ job' = [key |-> k, text |-> t]
        /\ rt /\ ~l => /\ (known' <=> known) /\ job' = job
                       /\ dcnt' = IF dcnt # 0 THEN dcnt - 1 ELSE dcnt
                       /\ done' <=> dcnt = 1
  BY <1>1, CoreCounts
<1>7. /\ cb_done' <=> known /\ done
      /\ cb_text_out' = text_out
      /\ cb_done' \in BOOLEAN
  BY <1>1, Zenon DEF Sample, TypeOK
<1>8. /\ ~cb_done /\ s \in 0 .. 13 => verdict' = "passed done"
      /\ cb_done /\ s = 14 /\ Reversed(cb_text_out) = ctext' => verdict' = "passed text"
  <2>1. cb_done \in BOOLEAN
    BY DEF BenchInv
  <2>2. ASSUME ~cb_done, s \in 0 .. 13
        PROVE  verdict' = "passed done"
    <3>1. s # 14 /\ ~(s > 14)
      BY <2>2
    <3>2. ~(cb_done # (s = 14))
      <4>1. cb_done = FALSE /\ (s = 14) = FALSE
        BY <2>1, <2>2, <3>1, Zenon
      <4> QED
        BY <4>1
    <3> QED
      BY <1>2, <3>1, <3>2 DEF check_result
  <2>3. ASSUME cb_done, s = 14, Reversed(cb_text_out) = ctext'
        PROVE  verdict' = "passed text"
    <3>1. ~(s > 14)
      BY <2>3
    <3>2. ~(cb_done # (s = 14))
      <4>1. cb_done = TRUE /\ (s = 14) = TRUE
        BY <2>1, <2>3, Zenon
      <4> QED
        BY <4>1
    <3> QED
      BY <1>2, <2>3, <3>1, <3>2 DEF check_result, Words
  <2> QED
    BY <2>2, <2>3
<1>9. calls' < Warmup => ~rst'
  BY <1>1, <1>2, <1>3, <1>4
<1>10. rst' \in BOOLEAN
  BY <1>2
<1>11. t_status' = 0 => s = 0 \/ ~rst'
  BY <1>2, <1>3, <1>4
<1>12. CASE calls < 2
  <2>1. status \in {0, 1} /\ ~rst /\ ~cb_done /\ (known => calls = 1 /\ ~done) /\ ~rt
    BY <1>3, <1>4, <1>12 DEF BenchInv
  <2>2. s \in {0, 1} /\ status' = s /\ ~rst'
    BY <1>2, <1>5, <2>1
  <2>3. verdict' = "passed done"
    <3>1. s \in 0 .. 13
      BY <2>2
    <3> QED
      BY <1>8, <2>1, <3>1, Zenon
  <2>4. ~cb_done'
    BY <1>7, <2>1
  <2>5. verdict' \notin Errors
    BY <2>3 DEF Errors
  <2>6. CASE calls = 0
    <3>1. calls' = 1 /\ JobNext
      BY <1>1, <1>3, <1>12, <2>6 DEF CoreEdge
    <3>2. known' => ~done'
      <4>1. ~known
        BY <2>1, <2>6
      <4> QED
        <5>1. JobRound => ~known'
          BY <4>1 DEF JobRound
        <5>2. JobReset => ~done'
          BY DEF JobReset, Reset, ResetControl
        <5>3. \A key_1, text_1 : JobResetLoad(key_1, text_1) => ~done'
          BY DEF JobResetLoad, ResetLoad, ResetControl
        <5>4. \A key_1, text_1 : JobLoad(key_1, text_1) => ~done'
          BY DEF JobLoad, Load, LoadControl
        <5> QED
          BY <3>1, <5>1, <5>2, <5>3, <5>4, Zenon DEF JobNext
    <3>3. LockStep'
      BY <3>1 DEF LockStep
    <3>4. /\ calls' \in Nat /\ (calls' < Warmup => ~rst')
          /\ calls' < 2 => /\ status' \in {0, 1} /\ ~rst' /\ ~cb_done'
                           /\ known' => calls' = 1 /\ ~done'
          /\ t_status' = 0 => status' = 0 \/ ~rst'
          /\ ~(calls' >= 2)
      BY <1>3, <1>9, <2>2, <2>4, <3>1, <3>2
    <3>5. BenchInv'
      <4>1. /\ calls' < 2 => /\ status' \in {0, 1} /\ ~rst' /\ ~cb_done'
                             /\ known' => calls' = 1 /\ ~done'
            /\ calls' >= 2 /\ ~rst' => status' <= 12
            /\ calls' >= 2 /\ cb_done' => cb_text_out' = Encrypt(key', state')
        BY <3>4
      <4>2. rst' \in BOOLEAN /\ cb_done' \in BOOLEAN
        BY <1>7, <1>10
      <4>3. calls' \in Nat /\ (calls' < Warmup => ~rst')
        BY <1>3, <1>9
      <4>4. t_status' = 0 => status' = 0 \/ ~rst'
        BY <3>4
      <4> QED
        BY <3>3, <4>1, <4>2, <4>3, <4>4 DEF BenchInv
    <3> QED
      BY <2>5, <2>6, <3>5
  <2>7. CASE calls = 1
    <3>1. calls' = 2 /\ known' /\ dcnt' = 0 /\ ~done'
      BY <1>1, <1>3, <1>6, <2>1, <2>7
    <3>2. LockStep'
      BY <2>2, <2>4, <3>1 DEF LockStep
    <3>3. BenchInv'
      BY <1>7, <1>9, <1>10, <2>2, <2>4, <3>1, <3>2 DEF BenchInv
    <3> QED
      BY <2>5, <2>7, <3>3
  <2>8. calls = 0 \/ calls = 1
    BY <1>3, <1>12
  <2> QED
    BY <2>6, <2>7, <2>8
<1>13. CASE calls >= 2
  <2>1. /\ known /\ status \in 0 .. 13
        /\ cb_done <=> rst /\ status = 13
        /\ done <=> rst /\ status = 12
        /\ dcnt = IF rst /\ status \in 1 .. 12 THEN 12 - status ELSE 0
        /\ rst /\ status > 0 => job = [key |-> key, text |-> state]
        /\ t_status = 0 => status = 0 \/ ~rst
        /\ cb_done => cb_text_out = Encrypt(key, state)
        /\ ~rst => status <= 12
    BY <1>13 DEF BenchInv, LockStep
  <2>2. /\ s \in 0 .. 14
        /\ s = 14 <=> rst /\ status = 13
        /\ l <=> s = 1
        /\ s > 1 => rst /\ status = s - 1 /\ ~l
        /\ l => status = 0 \/ ~rst
        /\ s = 0 => ~rst \/ status = 0
    BY <1>4, <1>5, <2>1
  <2>3. s > 12 => rt
    BY <1>3, <1>4, <2>2 DEF BenchInv
  <2>4. calls' >= 2 /\ calls # 0
    BY <1>3, <1>13
  <2>5. known'
    BY <1>6, <2>1, <2>4
  <2>6. cb_done' <=> s = 13
    BY <1>7, <2>1, <2>2
  <2>7. CASE s = 14
    <3>1. verdict' = "passed text"
      <4>1. cb_done
        BY <2>1, <2>2, <2>7
      <4>2. ctext' = Reversed(Encrypt(key, state)) /\ cb_text_out = Encrypt(key, state)
        BY <1>2, <2>1, <2>3, <2>7, <4>1
      <4> QED
        BY <1>8, <2>7, <4>1, <4>2
    <3>2. status' = 0 /\ rst' /\ rt /\ ~l
      BY <1>2, <2>2, <2>3, <2>7
    <3>3. dcnt' = 0 /\ ~done'
      BY <1>6, <2>1, <2>2, <2>4, <2>7, <3>2
    <3>4. ~cb_done'
      BY <2>6, <2>7
    <3>5. LockStep'
      BY <2>5, <3>2, <3>3, <3>4 DEF LockStep
    <3>6. BenchInv'
      BY <1>3, <1>7, <1>9, <1>10, <2>4, <3>2, <3>4, <3>5 DEF BenchInv
    <3> QED
      BY <3>1, <3>6 DEF Errors
  <2>8. CASE s # 14
    <3>1. verdict' = "passed done" /\ ~cb_done
      <4>1. s \in 0 .. 13 /\ ~cb_done
        BY <2>1, <2>2, <2>8
      <4> QED
        BY <1>8, <4>1, Zenon
    <3>2. status' = s /\ rst' = rt
      BY <1>2, <2>8
    <3>3. cb_done' => cb_text_out' = Encrypt(key', state')
      <4>1. SUFFICES ASSUME s = 13
                     PROVE  cb_text_out' = Encrypt(key', state')
        BY <2>6
      <4>2. key' = key /\ state' = state /\ job = [key |-> key, text |-> state] /\ done
        BY <1>2, <2>1, <2>2, <4>1
      <4>3. text_out = Encrypt(job.key, job.text)
        BY <2>1, <4>2 DEF PipelineInv
      <4> QED
        BY <1>7, <4>2, <4>3
    <3>4. /\ done' <=> rt /\ s = 12
          /\ dcnt' = IF rt /\ s \in 1 .. 12 THEN 12 - s ELSE 0
          /\ rt /\ s > 0 => job' = [key |-> key', text |-> state']
      <4>1. CASE ~rt
        BY <1>6, <2>4, <4>1
      <4>2. CASE rt /\ l
        <5>1. s = 1 /\ key' = k /\ state' = t
          BY <1>2, <2>2, <4>2
        <5>2. dcnt' = 11 /\ ~done' /\ job' = [key |-> k, text |-> t]
          BY <1>6, <2>4, <4>2
        <5>3. s # 12 /\ s \in 1 .. 12 /\ 12 - s = 11
          BY <5>1
        <5> QED
          BY <4>2, <5>1, <5>2, <5>3, Zenon
      <4>3. CASE rt /\ ~l
        <5>1. s # 1 /\ key' = key /\ state' = state
          BY <1>2, <2>2, <2>8, <4>3
        <5>2. /\ job' = job /\ (done' <=> dcnt = 1)
              /\ dcnt' = IF dcnt # 0 THEN dcnt - 1 ELSE dcnt
          BY <1>6, <2>4, <4>3
        <5>3. dcnt = IF s \in 2 .. 13 THEN 13 - s ELSE 0
          BY <2>1, <2>2, <2>8, <5>1
        <5>4. s > 0 => job = [key |-> key, text |-> state]
          BY <2>1, <2>2, <5>1
        <5> QED
          BY <2>2, <4>3, <5>1, <5>2, <5>3, <5>4
      <4> QED
        BY <4>1, <4>2, <4>3
    <3>5. LockStep'
      <4>1. s \in 0 .. 13
        BY <2>2, <2>8
      <4>2. cb_done' <=> rt /\ s = 13
        BY <2>3, <2>6, <4>1
      <4> QED
        BY <2>5, <3>2, <3>4, <4>1, <4>2 DEF LockStep
    <3>6. ~rst' => status' <= 12
      BY <2>2, <2>3, <3>2
    <3>7. BenchInv'
      BY <1>3, <1>7, <1>9, <1>10, <1>11, <2>4, <3>2, <3>3, <3>5, <3>6 DEF BenchInv
    <3> QED
      BY <3>1, <3>7 DEF Errors
  <2> QED
    BY <2>7, <2>8
<1>14. calls < 2 \/ calls >= 2
  BY <1>3
<1> QED
  BY <1>12, <1>13, <1>14

-----------------------------------------------------------------------------
(***************************************************************************)
(* What the three theorems below assume of the bench: the parameter of     *)
(* generate_ciphertext is found to be true, the warm-up takes two calls or *)
(* more, and no reset comes in the last two calls of a block.              *)
(***************************************************************************)
QuietEnd == UnpassedRst = {TRUE} /\ ResetsAt \subseteq 0 .. 12 /\ Warmup >= 2

(***************************************************************************)
(* BenchInv holds throughout.                                              *)
(***************************************************************************)
LEMMA BenchInvariant ==
  ASSUME QuietEnd
  PROVE  BenchSpec => [](BenchInv /\ TypeOK /\ PipelineInv)
<1>1. BenchInit => BenchInv
  <2> SUFFICES ASSUME BenchInit
               PROVE  BenchInv
    OBVIOUS
  <2>1. calls = 0 /\ status = 0 /\ t_status = 0
    BY DEF BenchInit
  <2>2. ~rst /\ ~cb_done /\ ~known /\ rst \in BOOLEAN /\ cb_done \in BOOLEAN
    BY DEF BenchInit, JobInit
  <2>3. calls \in Nat /\ ~(calls >= 2) /\ status \in {0, 1}
    BY <2>1
  <2>4. LockStep
    BY <2>3 DEF LockStep
  <2> QED
    BY <2>1, <2>2, <2>3, <2>4, Zenon DEF BenchInv
<1>2. BenchInv /\ TypeOK /\ TypeOK' /\ PipelineInv /\ PipelineInv'
        /\ [BenchNext]_<<vars, benchVars>> => BenchInv'
  <2> SUFFICES ASSUME BenchInv, TypeOK, TypeOK', PipelineInv, PipelineInv',
                      [BenchNext]_<<vars, benchVars>>
               PROVE  BenchInv'
    OBVIOUS
  <2>1. CASE BenchNext
    BY <2>1, BenchStep, BenchConstants, HostInputs DEF QuietEnd
  <2>2. CASE UNCHANGED <<vars, benchVars>>
    BY <2>2 DEF vars, cipherVars, benchVars, BenchInv, LockStep
  <2> QED
    BY <2>1, <2>2
<1> QED
  BY <1>1, <1>2, BenchIsHost, PTL DEF BenchSpec

(***************************************************************************)
(* The golden model stays in step with the core.                           *)
(***************************************************************************)
THEOREM StaysInStep ==
  ASSUME QuietEnd
  PROVE  BenchSpec => []LockStep
<1>1. BenchInv => LockStep
  BY DEF BenchInv
<1> QED
  BY <1>1, BenchInvariant, PTL

(***************************************************************************)
(* The checker finds no error in a run of any length.                      *)
(***************************************************************************)
THEOREM FindsNoError ==
  ASSUME QuietEnd
  PROVE  BenchSpec => []ChecksPass
<1>1. BenchInit => ChecksPass
  BY DEF BenchInit, ChecksPass, Errors
<1>2. ChecksPass /\ BenchInv /\ TypeOK /\ TypeOK' /\ PipelineInv /\ PipelineInv'
        /\ [BenchNext]_<<vars, benchVars>> => ChecksPass'
  <2> SUFFICES ASSUME ChecksPass, BenchInv, TypeOK, TypeOK', PipelineInv, PipelineInv',
                      [BenchNext]_<<vars, benchVars>>
               PROVE  ChecksPass'
    OBVIOUS
  <2>1. CASE BenchNext
    BY <2>1, BenchStep, BenchConstants, HostInputs DEF QuietEnd, ChecksPass, Errors
  <2>2. CASE UNCHANGED <<vars, benchVars>>
    BY <2>2 DEF benchVars, ChecksPass, Errors
  <2> QED
    BY <2>1, <2>2
<1> QED
  BY <1>1, <1>2, BenchInvariant, PTL DEF BenchSpec

(***************************************************************************)
(* Every answer the core announces is compared with the golden model's.    *)
(***************************************************************************)
THEOREM ComparesEveryAnswer ==
  ASSUME QuietEnd
  PROVE  BenchSpec => AnswersCompared
<1>1. BenchInv /\ TypeOK /\ TypeOK' /\ PipelineInv /\ PipelineInv'
        /\ [BenchNext]_<<vars, benchVars>>
        => [calls >= 2 /\ cb_done => verdict' = "passed text"]_<<vars, benchVars>>
  BY BenchStep, BenchConstants, HostInputs DEF QuietEnd
<1> QED
  BY <1>1, BenchInvariant, PTL DEF BenchSpec, AnswersCompared

=============================================================================
