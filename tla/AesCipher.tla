----------------------------- MODULE AesCipher -----------------------------
(***************************************************************************)
(* The encryption core aes_cipher_top: one action per kind of clock edge.  *)
(* It encrypts one block in a burst of rounds counted down by dcnt, with   *)
(* the round keys generated on the fly by aes_key_expand_128.              *)
(*                                                                         *)
(* rst (active low) clears only dcnt and done; the datapath and the key    *)
(* generator are clocked in and out of reset, and load when ld is high     *)
(* whatever rst is.  Before the first edges every register holds an        *)
(* unknown value: Unknown and UnknownRcon are the values to consider.      *)
(***************************************************************************)
EXTENDS Aes

CONSTANTS
    Keys, Texts,             \* what the host presents on key and text_in
    Unknown, UnknownRcon     \* what the registers may hold at power-up

ASSUME HostInputs == Keys \subseteq Block /\ Texts \subseteq Block

ASSUME UnknownValues == Unknown \subseteq Block /\ UnknownRcon \subseteq Byte

VARIABLES
    dcnt,                    \* 4-bit count of the cycles left, 0 when idle
    done,                    \* text_out holds the encrypted block
    ld_r,                    \* ld, one cycle later
    text_in_r,               \* the block loaded
    sa,                      \* the state array sa00 .. sa33
    text_out,
    w, rcon, rcnt            \* the registers of aes_key_expand_128 u0

u0 == INSTANCE KeyExpand

cipherVars == <<dcnt, done, ld_r, text_in_r, sa, text_out, w, rcon, rcnt>>

-----------------------------------------------------------------------------
\* The round permutation sa_next: SubBytes, ShiftRows, MixColumns, round key.
sa_next == Xor(MixColumns(SubShift(sa)), w)

\* aes_addroundkey, one aes_xor per byte: the text just loaded, or the round.
AddRoundKey == sa' = IF ld_r THEN Xor(text_in_r, w) ELSE sa_next

\* Mutant: the last round mixes the columns, as the others.
MixedFinalText == text_out' = sa_next

\* text_out latches the last round (it skips MixColumns) at every edge.
FinalText == text_out' = Xor(SubShift(sa), w)

\* What each edge does to the datapath and to the key generator, whatever rst.
LatchInputs(key, text_in) ==
    /\ ld_r' = TRUE
    /\ text_in_r' = text_in
    /\ u0!LoadKey(key)
    /\ AddRoundKey
    /\ FinalText

RunRound ==
    /\ ld_r' = FALSE
    /\ UNCHANGED text_in_r
    /\ u0!NextKey
    /\ AddRoundKey
    /\ FinalText

-----------------------------------------------------------------------------
\* An edge with rst low; ld may be high or low.
ResetControl == dcnt' = 0 /\ done' = FALSE

Reset == ResetControl /\ RunRound

ResetLoad(key, text_in) == ResetControl /\ LatchInputs(key, text_in)

\* Mutant: done does not look at ld.
LoadKeepsDone == dcnt' = 11 /\ done' = (dcnt = 1)

\* An edge with rst and ld high: a new block, whatever the core was doing.
LoadControl == dcnt' = 11 /\ done' = FALSE

Load(key, text_in) == LoadControl /\ LatchInputs(key, text_in)

\* Mutant: the counter does not stop at 0.
EndlessRounds ==
    /\ dcnt' = (dcnt + 15) % 16
    /\ done' = (dcnt = 1)

\* An edge with rst high and ld low: one more round, or an idle cycle.
RoundControl ==
    /\ dcnt' = IF dcnt # 0 THEN dcnt - 1 ELSE dcnt
    /\ done' = (dcnt = 1)

Round == RoundControl /\ RunRound

-----------------------------------------------------------------------------
Init ==
    /\ dcnt \in 0 .. 15
    /\ done \in BOOLEAN
    /\ ld_r \in BOOLEAN
    /\ text_in_r \in Unknown
    /\ sa \in Unknown
    /\ text_out \in Unknown
    /\ w \in Unknown
    /\ rcon \in UnknownRcon
    /\ rcnt \in 0 .. 15

Next ==
    \/ Reset
    \/ Round
    \/ \E key \in Keys, text \in Texts : ResetLoad(key, text) \/ Load(key, text)
=============================================================================
