\* The C code and the script on the same calls.
CONSTANTS
    SignedChar = TRUE
    Calls <- MCCalls
SPECIFICATION SoftwareSpec
INVARIANTS
    StatesOfTheStandard
    RoundKeysOfTheStandard
    RconIsReduced
    KnownAnswersGolden
    PyStatesOfTheStandard
    KnownAnswersPython
\* The functions return.
CHECK_DEADLOCK FALSE
