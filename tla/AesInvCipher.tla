---------------------------- MODULE AesInvCipher ----------------------------
(***************************************************************************)
(* The decryption core aes_inv_cipher_top: one action per kind of clock    *)
(* edge.  It needs the round keys backwards, so a key is loaded first: kld *)
(* starts the key generator and eleven round keys go into the buffer kb,   *)
(* last one at index 0.  ld then starts a decryption that reads kb up from *)
(* index 0, dcnt being the index.  Neither port waits for the other, and   *)
(* the core has no output that says the buffer is full.                    *)
(*                                                                         *)
(* rst (active low) clears dcnt, go, kcnt and kb_ld; done, the datapath,   *)
(* the buffer and the key generator are clocked whatever rst is.           *)
(***************************************************************************)
EXTENDS Aes

CONSTANTS
    Keys, Texts,             \* what the host presents on key and text_in
    Unknown, UnknownRcon,    \* what registers without a value may hold: at
    UnknownCount             \* power-up, and w after a read outside kb

ASSUME HostInputs == Keys \subseteq Block /\ Texts \subseteq Block

ASSUME UnknownValues ==
    /\ Unknown \subseteq Block
    /\ UnknownRcon \subseteq Byte
    /\ UnknownCount \subseteq 0 .. 15

VARIABLES
    dcnt, go, done,          \* the decryption: index, running, answer out
    ld_r, text_in_r,         \* ld and the text loaded, one cycle later
    sa, text_out,            \* the state array and the output
    w,                       \* the round key read from the buffer
    kb,                      \* the key buffer
    kcnt, kb_ld, kdone,      \* its filling: index, running, over
    wk, rcon, rcnt           \* the registers of aes_key_expand_128 u0

u0 == INSTANCE KeyExpand WITH w <- wk

textVars == <<dcnt, go, done, ld_r, text_in_r, sa, text_out, w>>
keyBufferVars == <<kb, kcnt, kb_ld, kdone, wk, rcon, rcnt>>

-----------------------------------------------------------------------------
\* InvShiftRows and InvSubBytes, then the round key.
sa_ark == Xor(InvShiftSub(sa), w)

\* Mutant: the round key after InvMixColumns, as if the keys were mixed already.
KeyAfterMix ==
    /\ sa' = IF ld_r THEN Xor(text_in_r, w) ELSE Xor(InvMixColumns(InvShiftSub(sa)), w)
    /\ text_out' = sa_ark
    /\ w' \in IF dcnt \in DOMAIN kb THEN {kb[dcnt]} ELSE Unknown

\* One edge of the datapath, in and out of reset.
Datapath ==
    /\ sa' = IF ld_r THEN Xor(text_in_r, w) ELSE InvMixColumns(sa_ark)
    /\ text_out' = sa_ark
    /\ w' \in IF dcnt \in DOMAIN kb THEN {kb[dcnt]} ELSE Unknown

\* Mutants: a write at every edge, and the round keys in the order they come.
WriteAlways == kb' = IF kcnt \in DOMAIN kb THEN [kb EXCEPT ![kcnt] = wk] ELSE kb

WriteUpwards ==
    kb' = IF kb_ld /\ kcnt \in DOMAIN kb THEN [kb EXCEPT ![10 - kcnt] = wk] ELSE kb

\* The buffer takes a round key; an index it does not have writes nothing.
WriteBuffer ==
    kb' = IF kb_ld /\ kcnt \in DOMAIN kb THEN [kb EXCEPT ![kcnt] = wk] ELSE kb

\* The text port, with ld high and low.  done looks at ld, not at rst.
LatchText(text_in) ==
    /\ ld_r' = TRUE
    /\ text_in_r' = text_in
    /\ done' = FALSE

\* Mutants: done for as long as the index is past the end, and a cycle early.
LongDone ==
    /\ ld_r' = FALSE
    /\ UNCHANGED text_in_r
    /\ done' = (dcnt >= 11)

EarlyDone ==
    /\ ld_r' = FALSE
    /\ UNCHANGED text_in_r
    /\ done' = (dcnt = 10)

NoText ==
    /\ ld_r' = FALSE
    /\ UNCHANGED text_in_r
    /\ done' = (dcnt = 11)

\* Mutant: kdone does not look at kld.
LatchKeepsDone(key) == u0!LoadKey(key) /\ kdone' = (kcnt = 0)

\* The key port, with kld high and low.
LatchKey(key) ==
    /\ u0!LoadKey(key)
    /\ kdone' = FALSE

\* Mutant: kdone when the filling has stopped at index 0, which it never does.
KeyDoneAfter == u0!NextKey /\ kdone' = (kcnt = 0 /\ ~kb_ld)

NoKey ==
    /\ u0!NextKey
    /\ kdone' = (kcnt = 0)

-----------------------------------------------------------------------------
\* An edge with rst low: a key presented now reaches the generator only.
ResetControl ==
    /\ dcnt' = 0
    /\ go' = FALSE
    /\ kcnt' = 10
    /\ kb_ld' = FALSE

Reset ==
    /\ ResetControl
    /\ Datapath
    /\ WriteBuffer
    /\ NoText \/ \E text \in Texts : LatchText(text)
    /\ NoKey \/ \E key \in Keys : LatchKey(key)

\* With rst high, a decryption starts; done comes first for dcnt, ld for go.
StartText ==
    /\ dcnt' = IF done THEN 0 ELSE 1
    /\ go' = TRUE

\* Mutants: nothing stops a decryption, and nothing takes the index back to 0.
StepForever ==
    /\ dcnt' = IF done THEN 0 ELSE IF go THEN (dcnt + 1) % 16 ELSE dcnt
    /\ UNCHANGED go

StepNoReturn ==
    /\ dcnt' = IF go THEN (dcnt + 1) % 16 ELSE dcnt
    /\ go' = (go /\ ~done)

\* ... or the one that is running goes on, and the one that is done stops.
StepText ==
    /\ dcnt' = IF done THEN 0 ELSE IF go THEN (dcnt + 1) % 16 ELSE dcnt
    /\ go' = (go /\ ~done)

\* Mutant: a load that does not take kcnt back to the top.
StartWhereItIs == UNCHANGED kcnt /\ kb_ld' = TRUE

\* With rst high, the buffer starts to fill from its last index,
StartKey ==
    /\ kcnt' = 10
    /\ kb_ld' = TRUE

\* Mutants: an index of 5 bits, and a filling that nothing ends.
StepFiveBits ==
    /\ kcnt' = IF kb_ld THEN (kcnt + 31) % 32 ELSE kcnt
    /\ kb_ld' = (kb_ld /\ kcnt # 0)

FillForever ==
    /\ kcnt' = IF kb_ld THEN (kcnt + 15) % 16 ELSE kcnt
    /\ UNCHANGED kb_ld

\* ... or goes on down to index 0.
StepKey ==
    /\ kcnt' = IF kb_ld THEN (kcnt + 15) % 16 ELSE kcnt
    /\ kb_ld' = (kb_ld /\ kcnt # 0)

LoadText(text_in) ==
    Datapath /\ WriteBuffer /\ LatchText(text_in) /\ StartText /\ NoKey /\ StepKey

LoadKey(key) ==
    Datapath /\ WriteBuffer /\ LatchKey(key) /\ StartKey /\ NoText /\ StepText

LoadBoth(key, text_in) ==
    /\ Datapath
    /\ WriteBuffer
    /\ LatchText(text_in) /\ StartText
    /\ LatchKey(key) /\ StartKey

Run == Datapath /\ WriteBuffer /\ NoText /\ StepText /\ NoKey /\ StepKey

-----------------------------------------------------------------------------
Init ==
    /\ dcnt \in UnknownCount
    /\ go \in BOOLEAN
    /\ done \in BOOLEAN
    /\ ld_r \in BOOLEAN
    /\ text_in_r \in Unknown
    /\ sa \in Unknown
    /\ text_out \in Unknown
    /\ w \in Unknown
    /\ kb \in [0 .. 10 -> Unknown]
    /\ kcnt \in UnknownCount
    /\ kb_ld \in BOOLEAN
    /\ kdone \in BOOLEAN
    /\ wk \in Unknown
    /\ rcon \in UnknownRcon
    /\ rcnt \in UnknownCount

Next ==
    \/ Reset
    \/ Run
    \/ \E text \in Texts : LoadText(text)
    \/ \E key \in Keys : LoadKey(key)
    \/ \E key \in Keys, text \in Texts : LoadBoth(key, text)
=============================================================================
