---------------------------- MODULE PyCtrProofs ----------------------------
(***************************************************************************)
(* Counter mode of aes.py, proved for every block size, range of the       *)
(* counter, block cipher and message.  The products b * blockSize are what *)
(* makes it hard for the provers, so the facts about them come first.      *)
(***************************************************************************)
EXTENDS PyCtrCounters, SequenceTheorems, TLAPS

(***************************************************************************)
(* Quotient and remainder of natural numbers.                              *)
(***************************************************************************)
LEMMA DivMod ==
  ASSUME NEW x \in Nat, NEW n \in Nat \ {0}
  PROVE  /\ x = n * (x \div n) + (x % n)
         /\ x % n \in 0 .. n - 1
         /\ x \div n \in Nat
OBVIOUS

(***************************************************************************)
(* A block ends where the next one begins, or before.                      *)
(***************************************************************************)
LEMMA BlocksInOrder ==
  ASSUME NEW x \in Nat, NEW y \in Nat, NEW n \in Nat, x < y
  PROVE  x * n + n <= y * n /\ x * n \in Nat /\ y * n \in Nat
OBVIOUS

(***************************************************************************)
(* Ceil counts the blocks of n characters: all but the last are full, and  *)
(* the last has one at least.                                              *)
(***************************************************************************)
LEMMA CeilCounts ==
  ASSUME NEW n \in Nat
  PROVE  /\ Ceil(n) \in Nat
         /\ n <= Ceil(n) * blockSize
         /\ Ceil(n) * blockSize \in Nat
         /\ \A m \in Nat : m < Ceil(n) =>
              /\ m * blockSize \in Nat
              /\ m * blockSize < n
              /\ m < Ceil(n) - 1 => m * blockSize + blockSize < n
<1> DEFINE x == n + blockSize - 1
           c == x \div blockSize
<1>1. x \in Nat /\ blockSize \in Nat \ {0}
  BY CtrConstants
<1> HIDE DEF x
<1>2. c \in Nat /\ blockSize * c <= x /\ x < blockSize * c + blockSize
  BY <1>1, DivMod
<1>3. Ceil(n) = c
  BY DEF Ceil, x
<1> HIDE DEF c
<1>4. blockSize * c \in Nat /\ blockSize * c = c * blockSize
  BY <1>1, <1>2
<1>5. ASSUME NEW m \in Nat, m < c
      PROVE  /\ m * blockSize \in Nat
             /\ m * blockSize < n
             /\ m < c - 1 => m * blockSize + blockSize < n
  <2>1. m * blockSize + blockSize <= c * blockSize /\ m * blockSize \in Nat
    BY <1>1, <1>2, <1>5, BlocksInOrder
  <2>2. m * blockSize < n
    BY <1>1, <1>2, <1>4, <2>1 DEF x
  <2>3. ASSUME m < c - 1
        PROVE  m * blockSize + blockSize < n
    <3>1. (m + 1) * blockSize + blockSize <= c * blockSize
      BY <1>1, <1>2, <2>3, BlocksInOrder
    <3>2. (m + 1) * blockSize = m * blockSize + blockSize
      BY <1>1
    <3> QED
      BY <1>1, <1>2, <1>4, <2>1, <3>1, <3>2 DEF x
  <2> QED
    BY <2>1, <2>2, <2>3
<1> QED
  BY <1>1, <1>2, <1>3, <1>4, <1>5 DEF x

(***************************************************************************)
(* encrypt's length of block b is what is left of the text, up to a block. *)
(***************************************************************************)
LEMMA BlockLengthIsRest ==
  ASSUME NEW L \in Nat, L = Len(text), b \in Nat, b < blockCount
  PROVE  /\ blockLength \in 1 .. blockSize
         /\ b * blockSize + blockSize <= L => blockLength = blockSize
         /\ b * blockSize + blockSize > L => blockLength = L - b * blockSize
<1>1. /\ blockSize \in Nat \ {0}
      /\ blockCount \in Nat /\ L <= blockCount * blockSize
      /\ b * blockSize \in Nat /\ b * blockSize < L
      /\ b < blockCount - 1 => b * blockSize + blockSize < L
  BY CtrConstants, CeilCounts DEF blockCount
<1>2. CASE b < blockCount - 1
  BY <1>1, <1>2 DEF blockLength
<1>3. CASE b = blockCount - 1
  <2> DEFINE r == L - 1 - b * blockSize
  <2>1. blockCount * blockSize = b * blockSize + blockSize
    BY <1>1, <1>3
  <2>2. r \in 0 .. blockSize - 1 /\ L - 1 = b * blockSize + r /\ L - 1 \in Nat
    BY <1>1, <2>1
  <2> HIDE DEF r
  <2>3. (L - 1) % blockSize = r
    <3>1. blockSize * b = b * blockSize
      BY <1>1
    <3> DEFINE q == (L - 1) \div blockSize
               s == (L - 1) % blockSize
    <3>2. L - 1 = blockSize * q + s /\ s \in 0 .. blockSize - 1 /\ q \in Nat
      BY <1>1, <2>2, DivMod
    <3> HIDE DEF q, s
    <3>3. ~ (q < b) /\ ~ (b < q)
      <4>1. q < b => q * blockSize + blockSize <= b * blockSize
        BY <1>1, <3>2, BlocksInOrder
      <4>2. b < q => b * blockSize + blockSize <= q * blockSize
        BY <1>1, <3>2, BlocksInOrder
      <4>3. blockSize * q = q * blockSize /\ blockSize * q \in Nat
        BY <1>1, <3>2
      <4> QED
        BY <1>1, <2>2, <3>2, <4>1, <4>2, <4>3
    <3>4. q = b
      BY <3>2, <3>3
    <3> QED
      BY <1>1, <2>2, <3>1, <3>2, <3>4 DEF s
  <2>4. blockLength = r + 1
    BY <1>3, <1>1, <2>3 DEF blockLength
  <2> QED
    BY <1>1, <2>1, <2>2, <2>4 DEF r
<1> QED
  BY <1>1, <1>2, <1>3

(***************************************************************************)
(* While the message is not longer than Half blocks, the high half of the  *)
(* counter is 0 in both functions, however they compute it.                *)
(***************************************************************************)
LEMMA HighIsZero ==
  ASSUME Len(text) \in Nat, b \in Nat, b < blockCount, Len(text) <= Half * blockSize
  PROVE  encrypt_high = 0 /\ decrypt_high = 0
<1>1. blockSize \in Nat \ {0} /\ Half \in Nat \ {0}
  BY CtrConstants
<1>2. b * blockSize < Len(text) /\ b * blockSize \in Nat
  BY CeilCounts DEF blockCount
<1>3. b < Half
  <2> SUFFICES ASSUME Half <= b PROVE FALSE
    BY <1>1
  <2>1. Half * blockSize <= b * blockSize
    <3>1. CASE Half = b
      BY <1>1, <1>2, <3>1
    <3>2. CASE Half < b
      BY <1>1, <3>2, BlocksInOrder
    <3> QED
      BY <1>1, <3>1, <3>2
  <2> QED
    BY <1>1, <1>2, <2>1
<1>4. b \div Half = 0 /\ 0 % Half = 0
  BY <1>1, <1>3
<1>5. b + 1 < Half \/ (b + 1 - Half = 0 /\ 0 \div Half = 0)
  BY <1>1, <1>3
<1> QED
  BY <1>4, <1>5 DEF encrypt_high, decrypt_high

-----------------------------------------------------------------------------
(***************************************************************************)
(* What block n of the text is masked with while the high half is 0.       *)
(***************************************************************************)
Stream(n) == Cipher(<<nonce, 0, n % Half>>, KeySchedule(password, nBits))

Least(m, n) == IF m <= n THEN m ELSE n

\* s is the nonce and the first n blocks of the text, masked.
MaskedBlocks(s, n) ==
    /\ Len(s) = Least(n * blockSize, Len(text)) + 1
    /\ s[1] = nonce
    /\ Len(text) <= Half * blockSize =>
         \A m \in 0 .. n - 1, j \in 1 .. blockSize :
           m * blockSize + j <= Len(text) =>
             s[m * blockSize + j + 1] = Xor(Stream(m)[j], text[m * blockSize + j])

CtrType ==
    /\ pc \in {"idle", "encrypting", "encrypted", "decrypting", "decrypted"}
    /\ text \in Seq(Chars) /\ password \in Passwords /\ nBits \in Lengths
    /\ nonce \in Nonces /\ b \in Nat
    /\ out \in Seq(Chars) /\ ciphertext \in Seq(Chars)

EncryptInv ==
    pc = "encrypting" =>
      /\ nBits \in KeyLengths
      /\ b <= blockCount
      /\ MaskedBlocks(out, b)

CiphertextInv ==
    pc \in {"encrypted", "decrypting", "decrypted"} /\ nBits \in KeyLengths =>
      MaskedBlocks(ciphertext, blockCount)

DecryptInv ==
    /\ pc = "decrypting" =>
         /\ nBits \in KeyLengths
         /\ b <= blockCount
         /\ Len(out) = Least(b * blockSize, Len(text))
    /\ pc \in {"decrypting", "decrypted"} /\ nBits \in KeyLengths
         /\ Len(text) <= Half * blockSize =>
           \A i \in 1 .. Len(out) : out[i] = text[i]
    /\ pc = "decrypted" /\ nBits \in KeyLengths => Len(out) = Len(text)

(***************************************************************************)
(* RoundTrip says nothing of what encrypt has written: this does.          *)
(***************************************************************************)
CtrInv == CtrType /\ EncryptInv /\ CiphertextInv /\ DecryptInv

(***************************************************************************)
(* Masking n characters of a string, those after the first m, with a block *)
(* gives characters, one each.                                             *)
(***************************************************************************)
MaskedPiece(block, s, m, n) == Masked(block, SubSeq(s, m + 1, m + n))

LEMMA MaskedChars ==
  ASSUME NEW block \in [1 .. blockSize -> Chars], NEW s \in Seq(Chars),
         NEW m \in Nat, NEW n \in 0 .. blockSize, m + n <= Len(s)
  PROVE  /\ MaskedPiece(block, s, m, n) \in Seq(Chars)
         /\ Len(MaskedPiece(block, s, m, n)) = n
         /\ \A j \in 1 .. n : MaskedPiece(block, s, m, n)[j] = Xor(block[j], s[m + j])
<1> DEFINE c == SubSeq(s, m + 1, m + n)
           t == MaskedPiece(block, s, m, n)
<1>0. blockSize \in Nat \ {0} /\ n \in Nat /\ Len(s) \in Nat
  BY CtrConstants, LenProperties
<1>1. c \in Seq(Chars) /\ Len(c) = n /\ \A j \in 1 .. n : c[j] = s[m + j]
  <2>1. \A i \in m + 1 .. m + n : s[i] \in Chars
    BY <1>0, ElementOfSeq
  <2>2. /\ c \in Seq(Chars)
        /\ Len(c) = IF m + 1 <= m + n THEN (m + n) - (m + 1) + 1 ELSE 0
        /\ \A i \in 1 .. (m + n) - (m + 1) + 1 : c[i] = s[(m + 1) + i - 1]
    BY <1>0, <2>1, SubSeqProperties
  <2> QED
    BY <1>0, <2>2
<1>2. t = [i \in 1 .. n |-> Xor(block[i], c[i])]
  BY <1>1 DEF Masked, MaskedPiece, c
<1> HIDE DEF c
<1>3. \A i \in 1 .. n : block[i] \in Chars /\ c[i] \in Chars
  BY <1>0, <1>1, ElementOfSeq
<1>4. t \in [1 .. n -> Chars]
  BY <1>2, <1>3, CtrStrings
<1> HIDE DEF t
<1>5. t \in Seq(Chars) /\ Len(t) = n
  BY <1>0, <1>4
<1> QED
  BY <1>1, <1>2, <1>5 DEF t

(***************************************************************************)
(* The pads of both functions are blocks of characters, and while the high *)
(* half is 0 they are the same.                                            *)
(***************************************************************************)
LEMMA Pads ==
  ASSUME CtrType
  PROVE  /\ Pad(encrypt_high) \in [1 .. blockSize -> Chars]
         /\ Pad(decrypt_high) \in [1 .. blockSize -> Chars]
         /\ \A high : high = 0 => Pad(high) = Stream(b)
<1>1. Half \in Nat \ {0} /\ b \in Nat
  BY CtrConstants DEF CtrType
<1>2. low \in 0 .. Half - 1
  BY <1>1, DivMod DEF low
<1>3. encrypt_high \in 0 .. Half - 1
  BY <1>1, DivMod DEF encrypt_high
<1>4. decrypt_high \in 0 .. Half - 1
  <2>1. CASE b + 1 < Half
    BY <1>1, <2>1 DEF decrypt_high
  <2>2. CASE ~ (b + 1 < Half)
    <3>1. b + 1 - Half \in Nat
      BY <1>1, <2>2
    <3>2. (b + 1 - Half) \div Half \in Nat
      BY <1>1, <3>1, DivMod
    <3> QED
      BY <1>1, <2>2, <3>2, DivMod DEF decrypt_high
  <2> QED
    BY <2>1, <2>2
<1>5. \A high \in 0 .. Half - 1 : <<nonce, high, low>> \in Counters
  BY <1>2 DEF Counters, CtrType
<1>6. \A high \in 0 .. Half - 1 : Pad(high) \in [1 .. blockSize -> Chars]
  BY <1>5, CtrStrings DEF Pad, CtrType
<1> QED
  BY <1>3, <1>4, <1>6 DEF Pad, Stream, low

(***************************************************************************)
(* One block of encrypt.                                                   *)
(***************************************************************************)
LEMMA EncryptBlockStep ==
  ASSUME CtrType, EncryptInv, EncryptBlock
  PROVE  CtrType' /\ EncryptInv'
<1> DEFINE L == Len(text)
           t == MaskedPiece(Pad(encrypt_high), text, b * blockSize, blockLength)
<1>1. /\ blockSize \in Nat \ {0} /\ L \in Nat /\ b \in Nat
      /\ pc = "encrypting" /\ b < blockCount /\ blockCount \in Nat
      /\ b * blockSize \in Nat /\ b * blockSize < L
      /\ (b + 1) * blockSize = b * blockSize + blockSize
  <2>1. blockSize \in Nat \ {0} /\ L \in Nat /\ b \in Nat
    BY CtrConstants, LenProperties DEF CtrType
  <2>2. pc = "encrypting" /\ b < blockCount
    BY DEF EncryptBlock
  <2>3. blockCount \in Nat /\ b * blockSize \in Nat /\ b * blockSize < L
    BY <2>1, <2>2, CeilCounts DEF blockCount
  <2> QED
    BY <2>1, <2>2, <2>3
<1>2. /\ blockLength \in 1 .. blockSize
      /\ b * blockSize + blockSize <= L => blockLength = blockSize
      /\ b * blockSize + blockSize > L => blockLength = L - b * blockSize
  BY <1>1, BlockLengthIsRest
<1>3. /\ t \in Seq(Chars) /\ Len(t) = blockLength
      /\ \A j \in 1 .. blockLength :
           t[j] = Xor(Pad(encrypt_high)[j], text[b * blockSize + j])
  <2>1. blockLength \in 0 .. blockSize /\ b * blockSize + blockLength <= L
    BY <1>1, <1>2
  <2>2. Pad(encrypt_high) \in [1 .. blockSize -> Chars] /\ text \in Seq(Chars)
    BY Pads DEF CtrType
  <2> QED
    BY <1>1, <2>1, <2>2, MaskedChars
<1>4. /\ out' = out \o t /\ b' = b + 1
      /\ UNCHANGED <<pc, text, password, nBits, nonce, ciphertext>>
  BY DEF EncryptBlock, MaskedPiece
<1> HIDE DEF t
<1>5. /\ out \in Seq(Chars) /\ Len(out) = b * blockSize + 1 /\ out[1] = nonce
      /\ nBits \in KeyLengths
  BY <1>1 DEF CtrType, EncryptInv, MaskedBlocks, Least
<1>6. /\ out' \in Seq(Chars)
      /\ Len(out') = b * blockSize + 1 + blockLength
      /\ \A i \in 1 .. b * blockSize + 1 + blockLength :
           out'[i] = IF i <= b * blockSize + 1 THEN out[i] ELSE t[i - (b * blockSize + 1)]
  <2>1. /\ out \o t \in Seq(Chars)
        /\ Len(out \o t) = Len(out) + Len(t)
        /\ \A i \in 1 .. Len(out) + Len(t) :
             (out \o t)[i] = IF i <= Len(out) THEN out[i] ELSE t[i - Len(out)]
    BY <1>3, <1>5, ConcatProperties
  <2> QED
    BY <1>3, <1>4, <1>5, <2>1
<1>7. CtrType'
  BY <1>1, <1>4, <1>6 DEF CtrType
<1>8. Len(out') = Least((b + 1) * blockSize, L) + 1 /\ out'[1] = nonce
  <2>1. out'[1] = out[1]
    <3>1. 1 \in 1 .. b * blockSize + 1 + blockLength /\ 1 <= b * blockSize + 1
      BY <1>1, <1>2
    <3> QED
      BY <1>6, <3>1
  <2>2. Len(out') = b * blockSize + 1 + blockLength
    BY <1>6
  <2>3. CASE b * blockSize + blockSize <= L
    BY <1>1, <1>2, <1>5, <2>1, <2>2, <2>3 DEF Least
  <2>4. CASE b * blockSize + blockSize > L
    BY <1>1, <1>2, <1>5, <2>1, <2>2, <2>4 DEF Least
  <2> QED
    BY <1>1, <2>3, <2>4
<1>9. ASSUME L <= Half * blockSize,
             NEW m \in 0 .. b, NEW j \in 1 .. blockSize, m * blockSize + j <= L
      PROVE  out'[m * blockSize + j + 1] = Xor(Stream(m)[j], text[m * blockSize + j])
  <2>1. CASE m = b
    <3>1. j <= blockLength
      BY <1>1, <1>2, <1>9, <2>1
    <3>2. out'[b * blockSize + j + 1] = t[j]
      BY <1>1, <1>2, <1>6, <3>1
    <3>3. t[j] = Xor(Stream(b)[j], text[b * blockSize + j])
      BY <1>1, <1>2, <1>3, <1>9, <3>1, HighIsZero, Pads
    <3> QED
      BY <2>1, <3>2, <3>3
  <2>2. CASE m < b
    <3>1. m * blockSize + j <= b * blockSize /\ m * blockSize \in Nat
      BY <1>1, <2>2, BlocksInOrder
    <3>2. out'[m * blockSize + j + 1] = out[m * blockSize + j + 1]
      BY <1>1, <1>2, <1>6, <3>1
    <3>3. m \in 0 .. b - 1
      BY <1>1, <2>2
    <3> QED
      BY <1>1, <1>9, <3>2, <3>3 DEF EncryptInv, MaskedBlocks
  <2> QED
    BY <1>1, <2>1, <2>2
<1>10. EncryptInv'
  <2>1. b' <= blockCount' /\ nBits' \in KeyLengths /\ blockCount' = blockCount
    BY <1>1, <1>4, <1>5 DEF blockCount
  <2>2. \A m : Stream(m)' = Stream(m)
    BY <1>4 DEF Stream
  <2>3. b' - 1 = b
    BY <1>1, <1>4
  <2> QED
    BY <1>4, <1>8, <1>9, <2>1, <2>2, <2>3 DEF EncryptInv, MaskedBlocks
<1> QED
  BY <1>7, <1>10

(***************************************************************************)
(* A finished ciphertext is one longer than the text, so decrypt counts as *)
(* many blocks as encrypt did.                                             *)
(***************************************************************************)
LEMMA AsManyBlocks ==
  ASSUME CtrType, CiphertextInv, nBits \in KeyLengths,
         pc \in {"encrypted", "decrypting", "decrypted"}
  PROVE  /\ Len(text) \in Nat
         /\ Len(ciphertext) = Len(text) + 1
         /\ ciphertext[1] = nonce
         /\ nBlocks = blockCount
<1>1. Len(text) \in Nat
  BY LenProperties DEF CtrType
<1>2. Len(text) <= blockCount * blockSize /\ blockCount * blockSize \in Nat
  BY <1>1, CeilCounts DEF blockCount
<1>3. MaskedBlocks(ciphertext, blockCount)
  BY DEF CiphertextInv
<1>4. Len(ciphertext) = Len(text) + 1 /\ ciphertext[1] = nonce
  BY <1>1, <1>2, <1>3 DEF MaskedBlocks, Least
<1>5. Len(ciphertext) - 1 = Len(text)
  BY <1>1, <1>4
<1> QED
  BY <1>1, <1>4, <1>5 DEF nBlocks, blockCount

(***************************************************************************)
(* One block of decrypt.                                                   *)
(***************************************************************************)
LEMMA DecryptBlockStep ==
  ASSUME CtrType, CiphertextInv, DecryptInv, DecryptBlock
  PROVE  CtrType' /\ DecryptInv'
<1> DEFINE L == Len(text)
           n == IF b * blockSize + blockSize <= L THEN blockSize ELSE L - b * blockSize
           t == MaskedPiece(Pad(decrypt_high), ciphertext, b * blockSize + 1, n)
<1>1. pc = "decrypting" /\ nBits \in KeyLengths
  BY DEF DecryptBlock, DecryptInv
<1>2. /\ L \in Nat /\ Len(ciphertext) = L + 1
      /\ nBlocks = blockCount
  BY <1>1, AsManyBlocks
<1>3. /\ blockSize \in Nat \ {0} /\ b \in Nat /\ b < blockCount /\ blockCount \in Nat
      /\ b * blockSize \in Nat /\ b * blockSize < L
      /\ (b + 1) * blockSize = b * blockSize + blockSize
  <2>1. blockSize \in Nat \ {0} /\ b \in Nat
    BY CtrConstants DEF CtrType
  <2>2. b < blockCount
    BY <1>2 DEF DecryptBlock
  <2>3. blockCount \in Nat /\ b * blockSize \in Nat /\ b * blockSize < L
    BY <1>2, <2>1, <2>2, CeilCounts DEF blockCount
  <2> QED
    BY <2>1, <2>2, <2>3
<1>4. /\ n \in 1 .. blockSize /\ b * blockSize + n <= L
      /\ b * blockSize + blockSize <= L => n = blockSize
      /\ b * blockSize + blockSize > L => n = L - b * blockSize
  <2> DEFINE m == b * blockSize
  <2>1. m \in Nat /\ m < L /\ n = IF m + blockSize <= L THEN blockSize ELSE L - m
    BY <1>3
  <2> HIDE DEF m, n, L
  <2>2. /\ n \in 1 .. blockSize /\ m + n <= L
        /\ m + blockSize <= L => n = blockSize
        /\ m + blockSize > L => n = L - m
    BY <1>2, <1>3, <2>1
  <2> QED
    BY <2>2 DEF m
<1>5. /\ t \in Seq(Chars) /\ Len(t) = n
      /\ \A j \in 1 .. n :
           t[j] = Xor(Pad(decrypt_high)[j], ciphertext[b * blockSize + 1 + j])
  <2> HIDE DEF n
  <2>1. n \in 0 .. blockSize /\ b * blockSize + 1 \in Nat
        /\ b * blockSize + 1 + n <= Len(ciphertext)
    BY <1>2, <1>3, <1>4
  <2>2. Pad(decrypt_high) \in [1 .. blockSize -> Chars] /\ ciphertext \in Seq(Chars)
    BY Pads DEF CtrType
  <2> QED
    BY <2>1, <2>2, MaskedChars
<1>6. /\ out' = out \o t /\ b' = b + 1
      /\ UNCHANGED <<pc, text, password, nBits, nonce, ciphertext>>
  <2> DEFINE end == b * blockSize + blockSize + 1
             last == IF end <= Len(ciphertext) THEN end ELSE Len(ciphertext)
  <2>1. last = b * blockSize + 1 + n
    <3> HIDE DEF n
    <3>1. CASE b * blockSize + blockSize <= L
      BY <1>2, <1>3, <1>4, <3>1
    <3>2. CASE b * blockSize + blockSize > L
      BY <1>2, <1>3, <1>4, <3>2
    <3> QED
      BY <1>2, <1>3, <3>1, <3>2
  <2>2. b * blockSize + 1 + 1 = b * blockSize + 2
    BY <1>3
  <2>3. out' = out \o Masked(Pad(decrypt_high), SubSeq(ciphertext, b * blockSize + 2, last))
    BY DEF DecryptBlock
  <2> HIDE DEF last, n
  <2>4. out' = out \o t
    BY <2>1, <2>2, <2>3 DEF MaskedPiece
  <2> QED
    BY <2>4 DEF DecryptBlock
<1> HIDE DEF t, n
<1>7. out \in Seq(Chars) /\ Len(out) = b * blockSize
  BY <1>1, <1>2, <1>3 DEF CtrType, DecryptInv, Least
<1>8. /\ out' \in Seq(Chars)
      /\ Len(out') = b * blockSize + n
      /\ \A i \in 1 .. b * blockSize + n :
           out'[i] = IF i <= b * blockSize THEN out[i] ELSE t[i - b * blockSize]
  <2>1. /\ out \o t \in Seq(Chars)
        /\ Len(out \o t) = Len(out) + Len(t)
        /\ \A i \in 1 .. Len(out) + Len(t) :
             (out \o t)[i] = IF i <= Len(out) THEN out[i] ELSE t[i - Len(out)]
    BY <1>5, <1>7, ConcatProperties
  <2> QED
    BY <1>5, <1>6, <1>7, <2>1
<1>9. CtrType'
  BY <1>3, <1>6, <1>8 DEF CtrType
<1>10. Len(out') = Least((b + 1) * blockSize, L)
  <2>1. CASE b * blockSize + blockSize <= L
    BY <1>2, <1>3, <1>4, <1>8, <2>1 DEF Least
  <2>2. CASE b * blockSize + blockSize > L
    BY <1>2, <1>3, <1>4, <1>8, <2>2 DEF Least
  <2> QED
    BY <1>2, <1>3, <2>1, <2>2
<1>11. ASSUME L <= Half * blockSize, NEW i \in 1 .. b * blockSize + n
       PROVE  out'[i] = text[i]
  <2>1. CASE i <= b * blockSize
    <3>1. i \in 1 .. Len(out)
      BY <1>3, <1>7, <2>1
    <3>2. out[i] = text[i]
      BY <1>1, <1>11, <3>1 DEF DecryptInv
    <3> QED
      BY <1>8, <1>11, <2>1, <3>2
  <2>2. CASE i > b * blockSize
    <3> DEFINE j == i - b * blockSize
    <3>1. j \in 1 .. n /\ j \in 1 .. blockSize /\ b * blockSize + j = i
          /\ b * blockSize + j <= L
      BY <1>3, <1>4, <1>11, <2>2
    <3>2. out'[i] = t[j]
      BY <1>8, <1>11, <2>2, <1>3
    <3> HIDE DEF j
    <3>3. b * blockSize + 1 + j = b * blockSize + j + 1
      BY <1>3, <3>1
    <3>4. t[j] = Xor(Stream(b)[j], ciphertext[b * blockSize + j + 1])
      BY <1>2, <1>3, <1>5, <1>11, <3>1, <3>3, HighIsZero, Pads
    <3>5. ciphertext[b * blockSize + j + 1] = Xor(Stream(b)[j], text[b * blockSize + j])
      <4>1. b \in 0 .. blockCount - 1
        BY <1>3
      <4> QED
        BY <1>1, <1>11, <3>1, <4>1 DEF CiphertextInv, MaskedBlocks
    <3>6. Stream(b)[j] \in Chars
      <4>1. Stream(b) \in [1 .. blockSize -> Chars]
        BY <1>2, <1>3, <1>11, HighIsZero, Pads
      <4> QED
        BY <3>1, <4>1
    <3>7. text[i] \in Chars
      BY <1>2, <1>3, <1>11, <3>1, ElementOfSeq DEF CtrType
    <3> QED
      BY <3>1, <3>2, <3>4, <3>5, <3>6, <3>7, CtrStrings
  <2> QED
    BY <1>3, <1>11, <2>1, <2>2
<1>12. DecryptInv'
  <2>1. b' <= blockCount' /\ nBits' \in KeyLengths /\ pc' = "decrypting"
    BY <1>1, <1>3, <1>6 DEF blockCount
  <2> QED
    BY <1>6, <1>8, <1>10, <1>11, <2>1 DEF DecryptInv
<1> QED
  BY <1>9, <1>12

-----------------------------------------------------------------------------
(***************************************************************************)
(* Every step keeps the invariant: between the loops the string so far is  *)
(* the ciphertext, or is emptied.                                          *)
(***************************************************************************)
LEMMA CtrInvStart == CtrInit => CtrInv
  BY DEF CtrInit, CtrInv, CtrType, EncryptInv, CiphertextInv, DecryptInv

LEMMA CtrInvStep == CtrInv /\ [CtrNext]_ctrVars => CtrInv'
<1> SUFFICES ASSUME CtrInv, [CtrNext]_ctrVars
             PROVE  CtrInv'
  OBVIOUS
<1> USE DEF CtrInv
<1>1. CASE encrypt
  <2>1. CtrType'
    <3>1. CASE nBits' \in KeyLengths
      <4>1. nonce' \in Nonces /\ out' = <<nonce'>>
        BY <1>1, <3>1 DEF encrypt
      <4>2. out' \in Seq(Chars)
        BY <4>1, CtrStrings
      <4> QED
        BY <1>1, <3>1, <4>1, <4>2, CtrStrings DEF encrypt, CtrType
    <3>2. CASE nBits' \notin KeyLengths
      BY <1>1, <3>2, CtrStrings DEF encrypt, CtrType
    <3> QED
      BY <3>1, <3>2
  <2>2. EncryptInv'
    <3>1. CASE nBits' \in KeyLengths
      <4>1. nonce' \in Nonces /\ out' = <<nonce'>> /\ b' = 0
        BY <1>1, <3>1 DEF encrypt
      <4>2. Len(text') \in Nat /\ 0 * blockSize = 0 /\ (blockCount \in Nat)'
        <5>1. Len(text') \in Nat
          BY <2>1, LenProperties DEF CtrType
        <5>2. Ceil(Len(text')) \in Nat
          BY <5>1, CeilCounts
        <5> QED
          BY <5>1, <5>2, CtrConstants DEF blockCount
      <4>3. MaskedBlocks(out, b)'
        BY <4>1, <4>2 DEF MaskedBlocks, Least
      <4> QED
        BY <3>1, <4>1, <4>2, <4>3 DEF EncryptInv
    <3>2. CASE nBits' \notin KeyLengths
      BY <1>1, <3>2 DEF encrypt, EncryptInv
    <3> QED
      BY <3>1, <3>2
  <2>3. CiphertextInv' /\ DecryptInv'
    BY <1>1 DEF encrypt, CiphertextInv, DecryptInv
  <2> QED
    BY <2>1, <2>2, <2>3
<1>2. CASE EncryptBlock
  <2>1. pc' = "encrypting"
    BY <1>2 DEF EncryptBlock
  <2> QED
    BY <1>2, <2>1, EncryptBlockStep DEF CiphertextInv, DecryptInv
<1>3. CASE EncryptReturns
  <2>1. MaskedBlocks(ciphertext, blockCount)'
    <3>1. MaskedBlocks(out, blockCount)
      BY <1>3 DEF EncryptReturns, EncryptInv
    <3>2. \A m : Stream(m)' = Stream(m)
      BY <1>3 DEF EncryptReturns, Stream
    <3>3. ciphertext' = out /\ blockCount' = blockCount /\ text' = text /\ nonce' = nonce
      BY <1>3 DEF EncryptReturns, blockCount
    <3> QED
      BY <3>1, <3>2, <3>3 DEF MaskedBlocks
  <2> QED
    BY <1>3, <2>1 DEF EncryptReturns, CtrType, EncryptInv, CiphertextInv, DecryptInv
<1>4. CASE decrypt
  <2>1. CASE nBits \in KeyLengths
    <3>1. Len(text) \in Nat /\ ciphertext[1] = nonce
      BY <1>4, <2>1, AsManyBlocks DEF decrypt
    <3>2. nonce' = nonce /\ b' = 0 /\ out' = <<>> /\ pc' = "decrypting"
          /\ UNCHANGED <<text, password, nBits, ciphertext>>
      BY <1>4, <2>1, <3>1 DEF decrypt
    <3>3. CtrType'
      BY <3>2 DEF CtrType
    <3>4. CiphertextInv'
      <4>1. MaskedBlocks(ciphertext, blockCount)
        BY <1>4, <2>1 DEF decrypt, CiphertextInv
      <4>2. (\A m : Stream(m)' = Stream(m)) /\ blockCount' = blockCount
        BY <3>2 DEF Stream, blockCount
      <4> QED
        BY <3>2, <4>1, <4>2 DEF MaskedBlocks, CiphertextInv
    <3>5. DecryptInv'
      <4>1. blockCount \in Nat /\ 0 * blockSize = 0 /\ blockCount' = blockCount
        BY <3>1, <3>2, CeilCounts, CtrConstants DEF blockCount
      <4> QED
        BY <2>1, <3>1, <3>2, <4>1 DEF DecryptInv, Least
    <3> QED
      BY <3>2, <3>3, <3>4, <3>5 DEF EncryptInv
  <2>2. CASE nBits \notin KeyLengths
    BY <1>4, <2>2 DEF decrypt, CtrType, EncryptInv, CiphertextInv, DecryptInv
  <2> QED
    BY <2>1, <2>2
<1>5. CASE DecryptBlock
  <2>1. pc = "decrypting" /\ pc' = pc /\ UNCHANGED <<text, password, nBits, nonce, ciphertext>>
    BY <1>5 DEF DecryptBlock
  <2>2. (\A m : Stream(m)' = Stream(m)) /\ blockCount' = blockCount
    BY <2>1 DEF Stream, blockCount
  <2>3. CiphertextInv'
    BY <2>1, <2>2 DEF CiphertextInv, MaskedBlocks
  <2> QED
    BY <1>5, <2>1, <2>3, DecryptBlockStep DEF EncryptInv
<1>6. CASE DecryptReturns
  <2>1. pc = "decrypting" /\ pc' = "decrypted"
        /\ UNCHANGED <<text, password, nBits, nonce, b, out, ciphertext>>
    BY <1>6 DEF DecryptReturns
  <2>2. (\A m : Stream(m)' = Stream(m)) /\ blockCount' = blockCount
    BY <2>1 DEF Stream, blockCount
  <2>3. CiphertextInv'
    BY <2>1, <2>2 DEF CiphertextInv, MaskedBlocks
  <2>4. Len(out) = Len(text)
    <3>1. nBits \in KeyLengths
      BY <2>1 DEF DecryptInv
    <3>2. b = blockCount /\ Len(text) \in Nat
      BY <1>6, <2>1, <3>1, AsManyBlocks DEF DecryptReturns
    <3>3. Len(text) <= blockCount * blockSize /\ blockCount * blockSize \in Nat
      BY <3>2, CeilCounts DEF blockCount
    <3> QED
      BY <2>1, <3>2, <3>3 DEF DecryptInv, Least
  <2> QED
    BY <2>1, <2>3, <2>4 DEF CtrType, EncryptInv, DecryptInv
<1>7. CASE UNCHANGED ctrVars
  <2>1. (\A m : Stream(m)' = Stream(m)) /\ blockCount' = blockCount
    BY <1>7 DEF Stream, blockCount, ctrVars
  <2> QED
    BY <1>7, <2>1 DEF ctrVars, CtrType, EncryptInv, CiphertextInv, DecryptInv, MaskedBlocks
<1> QED
  BY <1>1, <1>2, <1>3, <1>4, <1>5, <1>6, <1>7 DEF CtrNext

(***************************************************************************)
(* What decrypt has written so far is the beginning of the text, and at    *)
(* the end it is the text.                                                 *)
(***************************************************************************)
LEMMA CtrInvEnough == CtrInv => RoundTrip
<1> SUFFICES ASSUME CtrInv, nBits \in KeyLengths, Len(text) <= Half * blockSize,
                    pc \in {"decrypting", "decrypted"}
             PROVE  /\ out = SubSeq(text, 1, Len(out))
                    /\ pc = "decrypted" => out = text
  BY DEF RoundTrip
<1>1. text \in Seq(Chars) /\ out \in Seq(Chars) /\ Len(text) \in Nat /\ Len(out) \in Nat
  BY LenProperties DEF CtrInv, CtrType
<1>2. \A i \in 1 .. Len(out) : out[i] = text[i]
  BY DEF CtrInv, DecryptInv
<1>3. Len(out) <= Len(text)
  <2>1. b * blockSize \in Nat
    BY CtrConstants DEF CtrInv, CtrType
  <2> QED
    BY <1>1, <2>1 DEF CtrInv, DecryptInv, Least
<1>4. out = SubSeq(text, 1, Len(out))
  <2> DEFINE n == Len(out)
             s == SubSeq(text, 1, n)
  <2>1. \A i \in 1 .. n : text[i] \in Chars
    BY <1>1, <1>3, ElementOfSeq
  <2>2. n \in Nat
    BY <1>1
  <2> HIDE DEF n
  <2>3. /\ s \in Seq(Chars)
        /\ Len(s) = IF 1 <= n THEN n - 1 + 1 ELSE 0
        /\ \A i \in 1 .. n - 1 + 1 : s[i] = text[1 + i - 1]
    BY <2>1, <2>2, SubSeqProperties
  <2> HIDE DEF s
  <2>4. Len(s) = n /\ \A i \in 1 .. n : s[i] = text[i]
    BY <2>2, <2>3
  <2>5. s = out
    BY <1>1, <1>2, <2>3, <2>4, SeqEqual DEF n
  <2> QED
    BY <2>5 DEF s, n
<1>5. ASSUME pc = "decrypted"
      PROVE  out = text
  <2>1. Len(out) = Len(text)
    BY <1>5 DEF CtrInv, DecryptInv
  <2> QED
    BY <1>1, <1>2, <2>1, SeqEqual
<1> QED
  BY <1>4, <1>5

(***************************************************************************)
(* decrypt gives back what encrypt was given, for every block size, cipher *)
(* and message of up to Half blocks.                                       *)
(***************************************************************************)
THEOREM RoundTripCorrect == CtrSpec => []RoundTrip
<1>1. CtrSpec => []CtrInv
  BY CtrInvStart, CtrInvStep, PTL DEF CtrSpec
<1> QED
  BY <1>1, CtrInvEnough, PTL

-----------------------------------------------------------------------------
(***************************************************************************)
(* Block n's counter, and that no other block up to the range of both      *)
(* halves has it.                                                          *)
(***************************************************************************)
CounterOf(n) == <<(n \div Half) % Half, n % Half>>

LEMMA CountersAreDistinct ==
  ASSUME NEW m \in Nat, NEW n \in Nat, m < n, n < Half * Half
  PROVE  CounterOf(m) # CounterOf(n)
<1>1. Half \in Nat \ {0}
  BY CtrConstants
<1>2. ASSUME NEW x \in Nat, x < Half * Half
      PROVE  /\ x \div Half \in Nat
             /\ (x \div Half) % Half = x \div Half
             /\ x = Half * (x \div Half) + (x % Half)
  <2> DEFINE q == x \div Half
             r == x % Half
  <2>1. x = Half * q + r /\ r \in 0 .. Half - 1 /\ q \in Nat
    BY <1>1, DivMod
  <2> HIDE DEF q, r
  <2>2. q < Half
    <3> SUFFICES ASSUME Half <= q PROVE FALSE
      BY <1>1, <2>1
    <3>1. Half * Half <= Half * q
      <4>1. CASE Half = q
        BY <1>1, <4>1
      <4>2. CASE Half < q
        <5>1. Half * Half + Half <= q * Half
          BY <1>1, <2>1, <4>2, BlocksInOrder
        <5>2. q * Half = Half * q /\ Half * Half \in Nat /\ q * Half \in Nat
          BY <1>1, <2>1
        <5> QED
          BY <1>1, <5>1, <5>2
      <4> QED
        BY <1>1, <2>1, <4>1, <4>2
    <3>2. Half * q \in Nat /\ Half * Half \in Nat
      BY <1>1, <2>1
    <3> QED
      BY <1>1, <1>2, <2>1, <3>1, <3>2
  <2>3. q % Half = q
    BY <1>1, <2>1, <2>2
  <2> QED
    BY <2>1, <2>3 DEF q, r
<1>3. m < Half * Half
  <2>1. Half * Half \in Nat
    BY <1>1
  <2> QED
    BY <2>1
<1>4. ASSUME CounterOf(m) = CounterOf(n)
      PROVE  FALSE
  <2>1. m \div Half = n \div Half /\ m % Half = n % Half
    BY <1>2, <1>3, <1>4 DEF CounterOf
  <2>2. m = n
    BY <1>2, <1>3, <2>1
  <2> QED
    BY <2>2
<1> QED
  BY <1>4

(***************************************************************************)
(* The history variable holds the counters of the blocks before b, while   *)
(* encrypt runs.                                                           *)
(***************************************************************************)
UsedInv == pc = "encrypting" => used = {CounterOf(n) : n \in 0 .. b - 1}

LEMMA UsedInvStep == CtrInv /\ UsedInv /\ [CountedNext]_countedVars => UsedInv'
<1> SUFFICES ASSUME CtrInv, UsedInv, [CountedNext]_countedVars, pc' = "encrypting"
             PROVE  used' = {CounterOf(n) : n \in 0 .. b' - 1}
  BY DEF UsedInv
<1>1. b \in Nat
  BY DEF CtrInv, CtrType
<1>2. CASE CountedNext /\ encrypt
  <2>1. b' = 0 /\ used' = {}
    BY <1>2 DEF CountedNext, encrypt
  <2>2. 0 .. b' - 1 = {}
    BY <2>1
  <2> QED
    BY <2>1, <2>2
<1>3. CASE CountedNext /\ EncryptBlock
  <2>1. pc = "encrypting" /\ b' = b + 1 /\ ~ encrypt
    BY <1>3 DEF EncryptBlock, encrypt
  <2>2. used' = used \cup {CounterOf(b)}
    BY <1>3, <2>1 DEF CountedNext, CounterOf, encrypt_high, low
  <2>3. 0 .. b' - 1 = (0 .. b - 1) \cup {b}
    BY <1>1, <2>1
  <2> QED
    BY <2>1, <2>2, <2>3 DEF UsedInv
<1>4. CASE UNCHANGED countedVars
  BY <1>4 DEF UsedInv, countedVars, ctrVars
<1> QED
  BY <1>2, <1>3, <1>4
     DEF CountedNext, CtrNext, EncryptReturns, decrypt, DecryptBlock, DecryptReturns

(***************************************************************************)
(* No two blocks of a message have the same counter, for every range of    *)
(* the halves and every message up to the range of both.                   *)
(***************************************************************************)
THEOREM CountersDifferCorrect == CountedSpec => CountersDiffer
<1>1. CountedSpec => [](CtrInv /\ UsedInv)
  <2>1. CountedInit => CtrInv /\ UsedInv
    BY CtrInvStart DEF CountedInit, CtrInit, UsedInv
  <2>2. CtrInv /\ UsedInv /\ [CountedNext]_countedVars => CtrInv' /\ UsedInv'
    <3>1. [CountedNext]_countedVars => [CtrNext]_ctrVars
      BY DEF CountedNext, countedVars
    <3> QED
      BY <3>1, CtrInvStep, UsedInvStep
  <2> QED
    BY <2>1, <2>2, PTL DEF CountedSpec
<1>2. ASSUME CtrInv, UsedInv, EncryptBlock, Len(text) <= Half * Half * blockSize
      PROVE  <<encrypt_high, low>> \notin used
  <2>1. /\ pc = "encrypting" /\ b < blockCount /\ b \in Nat /\ Len(text) \in Nat
        /\ blockSize \in Nat \ {0} /\ Half * Half \in Nat
    BY <1>2, LenProperties, CtrConstants DEF EncryptBlock, CtrInv, CtrType
  <2>2. b * blockSize \in Nat /\ b * blockSize < Len(text)
    BY <2>1, CeilCounts DEF blockCount
  <2>3. b < Half * Half
    <3> DEFINE range == Half * Half
    <3>1. range \in Nat /\ Len(text) <= range * blockSize
      BY <1>2, <2>1
    <3> HIDE DEF range
    <3>2. range < b => range * blockSize + blockSize <= b * blockSize
      BY <2>1, <3>1, BlocksInOrder
    <3>3. range * blockSize \in Nat /\ (range = b => range * blockSize = b * blockSize)
      BY <2>1, <3>1
    <3>4. b < range
      BY <2>1, <2>2, <3>1, <3>2, <3>3
    <3> QED
      BY <3>4 DEF range
  <2>4. \A n \in 0 .. b - 1 : CounterOf(n) # CounterOf(b)
    BY <2>1, <2>3, CountersAreDistinct
  <2>5. <<encrypt_high, low>> = CounterOf(b)
    BY DEF CounterOf, encrypt_high, low
  <2> QED
    BY <1>2, <2>1, <2>4, <2>5 DEF UsedInv
<1>3. CtrInv /\ UsedInv /\ [CountedNext]_countedVars =>
        [EncryptBlock /\ Len(text) <= Half * Half * blockSize
           => <<encrypt_high, low>> \notin used]_countedVars
  BY <1>2
<1> QED
  BY <1>1, <1>3, PTL DEF CountedSpec, CountersDiffer
=============================================================================
