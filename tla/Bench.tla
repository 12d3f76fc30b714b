------------------------------- MODULE Bench -------------------------------
(***************************************************************************)
(* The simulation bench: do_cycle of test.sv, the golden model of test.c   *)
(* and the checker of aes_checker.sv, with the encryption core on the      *)
(* other side of the clocking block.                                       *)
(*                                                                         *)
(* One step is one call of do_cycle and the clock edge that follows it.    *)
(* The call draws a transaction, runs the golden model on it, and compares *)
(* the golden model with the outputs that the clocking block sampled just  *)
(* before the last edge; the core sees the transaction at the next edge.   *)
(* So an answer takes the core 12 edges, and the golden model, which       *)
(* counts its calls in status, has to hold its own back until call 14.     *)
(***************************************************************************)
EXTENDS AesCipherJobs

CONSTANTS
    Reversed(_),         \* a block with its 16 bytes in the other order
    Zero,                \* the block of zeros
    Warmup,              \* WARMUP: calls with rst low, to begin with
    ResetsAt,            \* where RESET_DENSITY lets rst be low after that: at
                         \* these values of status
    UnpassedRst          \* what generate_ciphertext may find in its parameter
                         \* (test.sv imports it without one): is it not 0?

ASSUME BenchConstants ==
    /\ \A b \in Block : Reversed(b) \in Block /\ Reversed(Reversed(b)) = b
    /\ Zero \in Block
    /\ Warmup \in Nat
    /\ ResetsAt \subseteq 0 .. 14
    /\ UnpassedRst \subseteq BOOLEAN /\ UnpassedRst # {}

VARIABLES
    calls,                      \* of do_cycle, up to Warmup
    status, rst,                \* the globals of test.c: 0 when there is no
    state, key,                 \* block; rst of the last call; the block and
    ctext,                      \* its key in memory, and the answer
    t_status,                   \* the status in the transaction of test.sv
    cb_done, cb_text_out,       \* the core's outputs before the last edge
    verdict                     \* of the checker, in the last call

benchVars == <<calls, status, rst, state, key, ctext, t_status, cb_done,
               cb_text_out, verdict>>

Errors == {"error in done bit", "error in text_o"}

-----------------------------------------------------------------------------
\* Mutant: the golden model forgets a reset.
status_kept(l) == IF l THEN 1 ELSE IF status >= 1 THEN status + 1 ELSE 0

\* send_ld_rst: status counts the calls since ld, and the reset it heard of
\* in the last call stops it in this one.
send_ld_rst(l) ==
    IF l THEN 1
    ELSE IF ~rst /\ status # 14 THEN 0
    ELSE IF status >= 1 THEN status + 1 ELSE 0

\* The words of a block of the ports lie in memory last byte first.
Words(b) == Reversed(b)

\* rearrange_text, rearrange_key, rearrange_cipher: the bytes of an array in
\* the other order, in the call for it.
rearranged(s, now, a) == IF s = now THEN Reversed(a) ELSE a

\* rebuild_text and rebuild_key: words from the ports, in the call of ld.
rebuilt(s, b, a) == IF s = 1 THEN Words(b) ELSE a

\* Mutant: the key is taken in the call after that of ld.
key_late(s, k) == rearranged(s, 2, IF s = 2 THEN Words(k) ELSE key)

text_now(s, t) == rearranged(s, 1, rebuilt(s, t, state))

key_now(s, k) == rearranged(s, 1, rebuilt(s, k, key))

\* generate_ciphertext, with encrypt_128_key_expand_inline_no_branch.
generated(s, unpassed, txt, k) == IF s = 14 /\ unpassed THEN Encrypt(k, txt) ELSE txt

\* get_ciphertext: zeros while rst is low.
ciphertext(rt, c) == IF rt THEN c ELSE Words(Zero)

\* check_result: done in every call of a block, and text_out in the call for it.
check_result(s, c) ==
    IF s > 14 THEN "bypassed"
    ELSE IF cb_done # (s = 14) THEN "error in done bit"
    ELSE IF s # 14 THEN "passed done"
    ELSE IF Words(cb_text_out) # c THEN "error in text_o"
    ELSE "passed text"

\* The golden model and the checker, in a call with these inputs.
Golden(rt, l, k, t) ==
    LET s == send_ld_rst(l)
    IN  \E unpassed \in UnpassedRst :
          LET enc == generated(s, unpassed, text_now(s, t), key_now(s, k))
              c == ciphertext(rt, rearranged(s, 14, enc))
          IN  /\ rst' = rt
              /\ key' = key_now(s, k)
              /\ state' = enc
              /\ ctext' = c
              /\ status' = IF s = 14 THEN 0 ELSE s         \* get_done
              /\ t_status' = IF calls + 1 = Warmup THEN 0 ELSE s
              /\ verdict' = check_result(s, c)

\* Mutant: ld may come whatever the golden model is doing.
EagerTransaction(rt, l) == IF calls < Warmup THEN ~rt ELSE rt \/ send_ld_rst(l) \in ResetsAt

\* The constraints on a transaction.
Transaction(rt, l) ==
    /\ t_status # 0 => ~l
    /\ IF calls < Warmup THEN ~rt ELSE rt \/ send_ld_rst(l) \in ResetsAt

\* The edge: the clocking block samples what is there, X as 0, and the core
\* takes its inputs.  Before the second call nothing drives them.
Sample ==
    /\ cb_done' = (known /\ done)
    /\ cb_text_out' = text_out

CoreEdge(rt, l, k, t) ==
    \/ calls = 0 /\ JobNext
    \/ calls # 0 /\ rt /\ l /\ JobLoad(k, t)
    \/ calls # 0 /\ rt /\ ~l /\ JobRound
    \/ calls # 0 /\ ~rt /\ l /\ JobResetLoad(k, t)
    \/ calls # 0 /\ ~rt /\ ~l /\ JobReset

do_cycle(rt, l, k, t) ==
    /\ verdict \notin Errors                             \* after $exit, none
    /\ Transaction(rt, l)
    /\ Golden(rt, l, k, t)
    /\ Sample
    /\ CoreEdge(rt, l, k, t)
    /\ calls' = IF calls < Warmup THEN calls + 1 ELSE calls

BenchInit ==
    /\ JobInit
    /\ calls = 0 /\ status = 0 /\ rst = FALSE /\ t_status = 0
    /\ state = Zero /\ key = Zero /\ ctext = Zero
    /\ cb_done = FALSE /\ cb_text_out \in Unknown
    /\ verdict = "passed done"

BenchNext ==
    \E rt, l \in BOOLEAN, k \in Keys, t \in Texts : do_cycle(rt, l, k, t)

BenchSpec == BenchInit /\ [][BenchNext]_<<vars, benchVars>>

-----------------------------------------------------------------------------
(***************************************************************************)
(* The golden model and the core, which share nothing but the inputs, stay *)
(* in step: status tells where the core is, which block it works on, and   *)
(* in which call its answer can be seen; and a reset that the golden model *)
(* has still to hear of has left nothing behind in the core.               *)
(***************************************************************************)
LockStep ==
    calls >= 2 =>
      /\ known
      /\ status \in 0 .. 13
      /\ cb_done <=> rst /\ status = 13
      /\ done <=> rst /\ status = 12
      /\ dcnt = IF rst /\ status \in 1 .. 12 THEN 12 - status ELSE 0
      /\ rst /\ status > 0 => job = [key |-> key, text |-> state]

(***************************************************************************)
(* The checker finds no error: every text a correct core announces agrees  *)
(* with the golden model's, in the very call the golden model has its own  *)
(* ready.                                                                  *)
(***************************************************************************)
ChecksPass == verdict \notin Errors

(***************************************************************************)
(* No answer goes by unchecked: a call that sees done compares the texts.  *)
(***************************************************************************)
AnswersCompared ==
    [][calls >= 2 /\ cb_done => verdict' = "passed text"]_<<vars, benchVars>>
=============================================================================
