----------------------------- MODULE GoldenAes -----------------------------
(***************************************************************************)
(* The block encryption of aes.c: four functions that expand the key as    *)
(* they go and look the rounds up in a table.  One step is one round.      *)
(*                                                                         *)
(* A word is its four bytes in memory, lowest address first, which is its  *)
(* least significant byte first on the machines the bench is built for.    *)
(***************************************************************************)
EXTENDS AesBytes, AesTable

CONSTANTS
    SignedChar,          \* is char, to this compiler, a signed type?
    Calls                \* the calls to look at: [fn, key, text]

Functions == {"128 branch", "128", "192", "256"}

\* The words of a key.
KeySize(f) == CASE f = "192" -> 6 [] f = "256" -> 8 [] OTHER -> 4

Word == BYTE \X BYTE \X BYTE \X BYTE

\* The arrays a function is called with have as many words as it reads.
ASSUME GoldenConstants ==
    /\ SignedChar \in BOOLEAN
    /\ \A c \in Calls : /\ c.fn \in Functions
                        /\ c.key \in [1 .. KeySize(c.fn) -> Word]
                        /\ c.text \in [1 .. 4 -> Word]

VARIABLES
    fn, i,               \* the function, and the round it is in
    k,                   \* k0, k1 .. : as many words as the key has
    state,
    rcon,
    call                 \* what it was called with

goldenVars == <<fn, i, k, state, rcon, call>>

-----------------------------------------------------------------------------
Q == INSTANCE SequencesExt

x ++ y == <<x[1] (+) y[1], x[2] (+) y[2], x[3] (+) y[3], x[4] (+) y[4]>>

sub_byte(w) == <<S(w[1]), S(w[2]), S(w[3]), S(w[4])>>

\* Mutant: the rotations in the other direction.
rot_the_other_way(w) == <<w[2], w[3], w[4], w[1]>>

rot_up_8(w)   == <<w[4], w[1], w[2], w[3]>>

rot_16(w)     == <<w[3], w[4], w[1], w[2]>>

rot_down_8(w) == <<w[2], w[3], w[4], w[1]>>

\* table_lookup and rot: p0 .. p3 of a column.
lookup(b) == <<rot_up_8(t0(b[1])), rot_16(t0(b[2])), rot_down_8(t0(b[3])), t0(b[4])>>

only(w, j) == <<IF j = 1 THEN w[1] ELSE 0, IF j = 2 THEN w[2] ELSE 0,
                IF j = 3 THEN w[3] ELSE 0, IF j = 4 THEN w[4] ELSE 0>>

\* Mutant: the third rotated as in the other rounds.
masked_unrotated(b) ==
    <<only(t0(b[1]), 1), only(t0(b[2]), 2), only(rot_down_8(t0(b[3])), 3),
      only(rot_down_8(t0(b[4])), 4)>>

\* table_lookup and final_mask in the last round: one byte of each entry.
masked(b) ==
    <<only(t0(b[1]), 1), only(t0(b[2]), 2), only(rot_16(t0(b[3])), 3),
      only(rot_down_8(t0(b[4])), 4)>>

\* The columns z0 .. z3, which are the round key before, with p<r> of state[c],
\* which is p[c][r + 1], added to the column r to the left of c.
collect(z, p) == [c \in 1 .. 4 |->
    LET from(r) == p[((c + r - 1) % 4) + 1][r + 1]
    IN  z[c] ++ from(0) ++ from(1) ++ from(2) ++ from(3)]

\* The last round without the mask: bytes of the key registers, each with the
\* table's S of a byte of state.
substitute(z) == [c \in 1 .. 4 |->
    LET from(r) == S(state[((c + r - 2) % 4) + 1][r])
    IN  z[c] ++ <<from(1), from(2), from(3), from(4)>>]

-----------------------------------------------------------------------------
\* Mutant: not reduced.
rcon_doubled(rc) == (2 * rc) % 256

\* j = (char)rcon << 1; rcon = j ^ ((j >> 8) & 0x1B), cut to a byte.
rcon_next(rc) ==
    LET j == 2 * (IF SignedChar /\ rc >= 128 THEN rc - 256 ELSE rc)
    IN  (j % 256) (+) (IF j < 0 THEN 27 ELSE j \div 256)

nr == [f \in Functions |-> CASE f = "192" -> 12 [] f = "256" -> 14 [] OTHER -> 10]

\* The registers that are the round key: two rounds out of three of the loop for
\* 192 bits use two of them over, and the loop for 256 bits uses halves in turn.
used_192(r) == << <<0, 1, 2, 3>>, <<4, 5, 0, 1>>, <<2, 3, 4, 5>> >>[(r % 3) + 1]

used_256(r) == IF r % 2 = 0 THEN <<0, 1, 2, 3>> ELSE <<4, 5, 6, 7>>

used(f, r) ==
    CASE f = "192" -> used_192(r)
      [] f = "256" -> used_256(r)
      [] OTHER -> <<0, 1, 2, 3>>

\* Mutant: the loops entered at the top.
updates_from_top(f, r) == used(f, r)

\* The registers brought up to date for it, in this order: the same, but for what
\* goto a jumps over in round 1, the words that are still those of the key.
updates(f, r) ==
    CASE r = 1 /\ f = "192" -> <<0, 1>>
      [] r = 1 /\ f = "256" -> <<>>
      [] OTHER -> used(f, r)

\* k0 ^= temp and k<j> ^= k<j-1>; k4 of eight takes a substituted k3.
update(ks, j) ==
    LET added == CASE j = 0 -> sub_byte(rot_down_8(ks[Len(ks)])) ++ <<rcon, 0, 0, 0>>
                   [] j = 4 /\ Len(ks) = 8 -> sub_byte(ks[4])
                   [] OTHER -> ks[j]
    IN  [ks EXCEPT ![j + 1] = @ ++ added]

\* The registers after all the updates of a round.
expanded ==
    LET js == updates(fn, i)
        after[n \in 0 .. Len(js)] == IF n = 0 THEN k ELSE update(after[n - 1], js[n])
    IN  after[Len(js)]

\* All functions but the one with the branch leave rcon alone in the last round.
StepKey ==
    /\ k' = expanded
    /\ rcon' = IF Q!Contains(updates(fn, i), 0) /\ (i < nr[fn] \/ fn = "128 branch")
               THEN rcon_next(rcon) ELSE rcon

round_key ==
    LET ks == expanded
    IN  [c \in 1 .. 4 |-> ks[used(fn, i)[c] + 1]]

Round ==
    /\ i < nr[fn]
    /\ StepKey
    /\ state' = collect(round_key, [c \in 1 .. 4 |-> lookup(state[c])])
    /\ i' = i + 1
    /\ UNCHANGED <<fn, call>>

LastRound ==
    /\ i = nr[fn]
    /\ StepKey
    /\ state' = IF fn = "128 branch"
               THEN collect(round_key, [c \in 1 .. 4 |-> masked(state[c])])
               ELSE substitute(round_key)
    /\ i' = i + 1
    /\ UNCHANGED <<fn, call>>

\* A call: the first round key is the key.
GoldenInit ==
    \E c \in Calls :
      /\ call = c
      /\ fn = c.fn
      /\ k = c.key
      /\ state = [n \in 1 .. 4 |-> c.text[n] ++ c.key[n]]
      /\ rcon = 1
      /\ i = 1

GoldenNext == Round \/ LastRound

GoldenSpec == GoldenInit /\ [][GoldenNext]_goldenVars

Returned == i > nr[fn]
=============================================================================
