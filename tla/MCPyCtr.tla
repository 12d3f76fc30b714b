------------------------------ MODULE MCPyCtr ------------------------------
(***************************************************************************)
(* aes.py on every message of two characters up to Half blocks, and on one *)
(* of every length up to where the counter comes round, and past it.       *)
(***************************************************************************)
EXTENDS PyCtrCounters

B == INSTANCE AesBytes

MCChars == 0 .. 15

MCMessages ==
    UNION {[1 .. n -> {0, 7}] : n \in 0 .. Half * blockSize}
      \cup {[i \in 1 .. n |-> 7] : n \in 0 .. Half * Half * blockSize + 1}

MCXor(x, y) == B!XorNibble[x][y]

\* A 4-bit block cipher by columns: two characters, of everything it is given.
MCCipher(counter, schedule) ==
    LET x == counter[1] + 4 * counter[2] + counter[3] + schedule
    IN  <<x % 16, (3 * x + 1) % 16>>

MCKeySchedule(p, bits) == p + (bits \div 64)
=============================================================================
