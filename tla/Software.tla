------------------------------ MODULE Software ------------------------------
(***************************************************************************)
(* The functions of aes.c and Cipher of aes.py side by side, each call     *)
(* given to both, against FIPS-197, round by round.                        *)
(***************************************************************************)
EXTENDS GoldenAes, Fips197

VARIABLES py_call, py_w, py_state, py_round

softwareVars == <<goldenVars, py_call, py_w, py_state, py_round>>

\* The list of the bytes of a list of words: how aes.py takes a key and a text.
InBytes(words) == [n \in 1 .. 4 * Len(words) |-> words[((n - 1) \div 4) + 1][((n - 1) % 4) + 1]]

PyCall(c) == [key |-> InBytes(c.key), text |-> InBytes(c.text)]

Py == INSTANCE PyAes WITH Calls <- {PyCall(c) : c \in Calls}, call <- py_call,
                          w <- py_w, state <- py_state, round <- py_round

SoftwareInit ==
    /\ GoldenInit
    /\ Py!CipherInit
    /\ py_call = PyCall(call)

SoftwareSpec == SoftwareInit /\ [][GoldenNext /\ Py!CipherNext]_softwareVars

\* The reference.
WordsOf == [c \in Calls |-> KeyWords(c.key)]
StatesOf == [c \in Calls |-> CipherStates(c.key, c.text)]

-----------------------------------------------------------------------------
(***************************************************************************)
(* The state array of aes.c is that of the standard after every round,     *)
(* though the table does three steps of a round in one and the last round  *)
(* is done in two different ways.                                          *)
(***************************************************************************)
StatesOfTheStandard == state = StatesOf[call][i - 1]

(***************************************************************************)
(* Its registers, written over as the rounds go and never all at once,     *)
(* hold the round key of the standard when it is used, also where the loop *)
(* is entered in the middle and where 4 words of 6 or 8 are used.          *)
(***************************************************************************)
RoundKeysOfTheStandard ==
    ~Returned => round_key = RoundKey(WordsOf[call], i)

(***************************************************************************)
(* The constant of the next round key is the power of x of the standard,   *)
(* past 80, where it is reduced.                                           *)
(***************************************************************************)
RconIsReduced ==
    ~Returned /\ Q!Contains(updates(fn, i), 0) =>
      rcon = RoundConstant[CASE fn = "192" -> i - (i \div 3) [] fn = "256" -> i \div 2 [] OTHER -> i]

(***************************************************************************)
(* The state of aes.py, kept by rows, is that of the standard after every  *)
(* round, for the key schedules of all three lengths.                      *)
(***************************************************************************)
PyStatesOfTheStandard == Py!output = InBytes(StatesOf[call][py_round - 1])
=============================================================================
