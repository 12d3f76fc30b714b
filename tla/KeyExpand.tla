----------------------------- MODULE KeyExpand -----------------------------
(***************************************************************************)
(* The round-key generator aes_key_expand_128 with its round-constant      *)
(* counter aes_rcon: at each clock edge it loads a key or computes the     *)
(* next round key.  It has no reset, no stop and no end: it runs on past   *)
(* the tenth round.                                                        *)
(***************************************************************************)
EXTENDS Naturals

CONSTANT ExpandKey(_, _)

VARIABLES
    w,          \* the four round-key words
    rcon,       \* aes_rcon.out: the constant the next round key takes
    rcnt        \* aes_rcon.rcnt: a 4-bit counter

keyVars == <<w, rcon, rcnt>>

\* Mutant: the table stops one constant short.
FrconOfNine(i) ==
    IF i < 9 THEN <<1, 2, 4, 8, 16, 32, 64, 128, 27>>[i + 1] ELSE 0

\* frcon: the table of round constants; the counts it does not list give 0.
frcon(i) ==
    IF i < 10 THEN <<1, 2, 4, 8, 16, 32, 64, 128, 27, 54>>[i + 1] ELSE 0

\* Mutant: a counter wider than its 4 bits.
WideCount == rcnt + 1

rcnt_next == (rcnt + 1) % 16

\* Mutant: the load leaves the counter where it is.
LoadKeyOnly(key) == w' = key /\ rcon' = 1 /\ UNCHANGED rcnt

\* kld: the key is the first round key.
LoadKey(key) ==
    /\ w' = key
    /\ rcon' = 1
    /\ rcnt' = 0

NextKey ==
    /\ w' = ExpandKey(w, rcon)
    /\ rcon' = frcon(rcnt_next)
    /\ rcnt' = rcnt_next
=============================================================================
