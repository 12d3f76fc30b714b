CONSTANTS
    Chars <- MCChars
    Messages <- MCMessages
    Passwords = {0, 5}
    Lengths = {64, 128, 256}
    Nonces = {0, 2}
    Xor <- MCXor
    KeySchedule <- MCKeySchedule
    Cipher <- MCCipher
    blockSize = 2
    Half = 3
SPECIFICATION CountedSpec
INVARIANT RoundTrip
PROPERTY CountersDiffer
\* The script ends.
CHECK_DEADLOCK FALSE
