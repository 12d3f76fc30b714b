------------------------------- MODULE PyCtr -------------------------------
(***************************************************************************)
(* encrypt and decrypt of aes.py: counter mode over Cipher, a message      *)
(* encrypted and then decrypted with the same password.  One step is one   *)
(* block.  Strings are sequences of character codes; the eight characters  *)
(* of the nonce are one of them, and base64, which the library undoes, is  *)
(* left out.                                                               *)
(***************************************************************************)
EXTENDS Integers, Sequences

CONSTANTS
    Chars,               \* what a string is made of: bytes
    Messages,            \* the plaintexts
    Passwords, Lengths,  \* the passwords and the values of nBits
    Nonces,              \* what the clock gives
    Xor(_, _),           \* of two characters
    KeySchedule(_, _),   \* from a password and nBits, or how encrypt makes one
    Cipher(_, _),        \* the block of a counter block, under a schedule
    blockSize,           \* 16
    Half                 \* 0x100000000: what one half of the counter can count

ASSUME CtrConstants ==
    /\ blockSize \in Nat \ {0}
    /\ Half \in Nat \ {0}

Counters == Nonces \X (0 .. Half - 1) \X (0 .. Half - 1)

\* Strings hold characters, a block of Cipher blockSize of them, and an exclusive
\* or with the same block twice changes nothing.
ASSUME CtrStrings ==
    /\ Messages \subseteq Seq(Chars) /\ Nonces \subseteq Chars
    /\ \A x, c \in Chars : Xor(x, c) \in Chars /\ Xor(x, Xor(x, c)) = c
    /\ \A counter \in Counters, p \in Passwords, n \in Lengths :
         Cipher(counter, KeySchedule(p, n)) \in [1 .. blockSize -> Chars]

VARIABLES
    pc,                          \* what is running
    text, password, nBits,       \* what it was called with
    nonce,
    b,                           \* the block the loop is at
    out,                         \* the string so far
    ciphertext

ctrVars == <<pc, text, password, nBits, nonce, b, out, ciphertext>>

KeyLengths == {128, 192, 256}

Ceil(n) == (n + blockSize - 1) \div blockSize

blockCount == Ceil(Len(text))

nBlocks == Ceil(Len(ciphertext) - 1)

-----------------------------------------------------------------------------
low == b % Half

\* int(float(b + 1) / Half - 1), which cuts towards 0.
decrypt_high == IF b + 1 < Half THEN 0 ELSE ((b + 1 - Half) \div Half) % Half

\* Mutant: as decrypt has it.
encrypt_high_of_decrypt == decrypt_high

\* (Not cut to bytes as the other halves are, which tells from 2^40 blocks on.)
encrypt_high == (b \div Half) % Half

\* Mutant: a full last block is taken for an empty one.
length_by_remainder == IF b < blockCount - 1 THEN blockSize ELSE (Len(text) % blockSize)

blockLength == IF b < blockCount - 1 THEN blockSize ELSE ((Len(text) - 1) % blockSize) + 1

Masked(block, chars) == [i \in 1 .. Len(chars) |-> Xor(block[i], chars[i])]

Pad(high) == Cipher(<<nonce, high, low>>, KeySchedule(password, nBits))

-----------------------------------------------------------------------------
\* encrypt is called: "" for a length it does not know.
encrypt ==
    /\ pc = "idle"
    /\ text' \in Messages /\ password' \in Passwords /\ nBits' \in Lengths
    /\ IF nBits' \in KeyLengths
         THEN /\ nonce' \in Nonces
              /\ pc' = "encrypting" /\ out' = <<nonce'>> /\ b' = 0
              /\ UNCHANGED ciphertext
         ELSE /\ pc' = "encrypted" /\ ciphertext' = <<>>
              /\ UNCHANGED <<nonce, out, b>>

EncryptBlock ==
    /\ pc = "encrypting" /\ b < blockCount
    /\ out' = out \o Masked(Pad(encrypt_high),
                            SubSeq(text, b * blockSize + 1, b * blockSize + blockLength))
    /\ b' = b + 1
    /\ UNCHANGED <<pc, text, password, nBits, nonce, ciphertext>>

EncryptReturns ==
    /\ pc = "encrypting" /\ b = blockCount
    /\ pc' = "encrypted" /\ ciphertext' = out
    /\ UNCHANGED <<text, password, nBits, nonce, b, out>>

\* decrypt takes the nonce from the ciphertext.
decrypt ==
    /\ pc = "encrypted"
    /\ IF nBits \in KeyLengths
         THEN pc' = "decrypting" /\ nonce' = ciphertext[1] /\ b' = 0
         ELSE pc' = "decrypted" /\ UNCHANGED <<nonce, b>>
    /\ out' = <<>>
    /\ UNCHANGED <<text, password, nBits, ciphertext>>

DecryptBlock ==
    /\ pc = "decrypting" /\ b < nBlocks
    /\ LET end == b * blockSize + blockSize + 1
           last == IF end <= Len(ciphertext) THEN end ELSE Len(ciphertext)
       IN  out' = out \o Masked(Pad(decrypt_high),
                                SubSeq(ciphertext, b * blockSize + 2, last))
    /\ b' = b + 1
    /\ UNCHANGED <<pc, text, password, nBits, nonce, ciphertext>>

DecryptReturns ==
    /\ pc = "decrypting" /\ b = nBlocks
    /\ pc' = "decrypted"
    /\ UNCHANGED <<text, password, nBits, nonce, b, out, ciphertext>>

CtrInit ==
    /\ pc = "idle" /\ text = <<>> /\ password \in Passwords /\ nBits \in Lengths
    /\ nonce \in Nonces /\ b = 0 /\ out = <<>> /\ ciphertext = <<>>

CtrNext ==
    \/ encrypt \/ EncryptBlock \/ EncryptReturns
    \/ decrypt \/ DecryptBlock \/ DecryptReturns

CtrSpec == CtrInit /\ [][CtrNext]_ctrVars

-----------------------------------------------------------------------------
(***************************************************************************)
(* decrypt gives back what encrypt was given, at every length up to Half   *)
(* blocks: the last block may be full, short or missing, and the two       *)
(* compute the high half of the counter in different ways.                 *)
(***************************************************************************)
RoundTrip ==
    nBits \in KeyLengths /\ Len(text) <= Half * blockSize =>
      /\ pc = "decrypting" => out = SubSeq(text, 1, Len(out))
      /\ pc = "decrypted" => out = text
=============================================================================
