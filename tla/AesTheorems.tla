---------------------------- MODULE AesTheorems ----------------------------
(***************************************************************************)
(* Facts about the functions of Aes that hold for every block, key and     *)
(* text: their recursion equations, their types, and that Decrypt undoes   *)
(* Encrypt.  A recursive function of TLA+ is a CHOOSE: each equation is    *)
(* proved by exhibiting the function, round by round.                      *)
(***************************************************************************)
EXTENDS AesAlgebra, TLAPS

(***************************************************************************)
(* The key schedule satisfies its recursion equation.                      *)
(***************************************************************************)
LEMMA KeyScheduleEquation ==
  ASSUME NEW key
  PROVE  /\ KeySchedule(key)[0] = key
         /\ \A r \in 1 .. Nr :
              KeySchedule(key)[r] = ExpandKey(KeySchedule(key)[r - 1], Rcon[r])
<1> DEFINE v0 == key
           v1 == ExpandKey(v0, Rcon[1])
           v2 == ExpandKey(v1, Rcon[2])
           v3 == ExpandKey(v2, Rcon[3])
           v4 == ExpandKey(v3, Rcon[4])
           v5 == ExpandKey(v4, Rcon[5])
           v6 == ExpandKey(v5, Rcon[6])
           v7 == ExpandKey(v6, Rcon[7])
           v8 == ExpandKey(v7, Rcon[8])
           v9 == ExpandKey(v8, Rcon[9])
           v10 == ExpandKey(v9, Rcon[10])
           F == [r \in 0 .. Nr |->
              IF r = 0 THEN v0 ELSE IF r = 1 THEN v1 ELSE IF r = 2 THEN v2 ELSE
              IF r = 3 THEN v3 ELSE IF r = 4 THEN v4 ELSE IF r = 5 THEN v5 ELSE
              IF r = 6 THEN v6 ELSE IF r = 7 THEN v7 ELSE IF r = 8 THEN v8 ELSE
              IF r = 9 THEN v9 ELSE v10]
           Step(f) == [r \in 0 .. Nr |->
                        IF r = 0 THEN key
                                 ELSE ExpandKey(f[r - 1], Rcon[r])]
<1>1. /\ v0 = key
      /\ v1 = ExpandKey(v0, Rcon[1])
      /\ v2 = ExpandKey(v1, Rcon[2])
      /\ v3 = ExpandKey(v2, Rcon[3])
      /\ v4 = ExpandKey(v3, Rcon[4])
      /\ v5 = ExpandKey(v4, Rcon[5])
      /\ v6 = ExpandKey(v5, Rcon[6])
      /\ v7 = ExpandKey(v6, Rcon[7])
      /\ v8 = ExpandKey(v7, Rcon[8])
      /\ v9 = ExpandKey(v8, Rcon[9])
      /\ v10 = ExpandKey(v9, Rcon[10])
  OBVIOUS
<1> HIDE DEF v0, v1, v2, v3, v4, v5, v6, v7, v8, v9, v10
<1>2. F = Step(F)
  BY <1>1 DEF Nr
<1> HIDE DEF F
<1>3. KeySchedule(key) = CHOOSE f : f = Step(f)
  BY DEF KeySchedule
<1>4. KeySchedule(key) = Step(KeySchedule(key))
  BY <1>2, <1>3
<1> QED
  BY <1>4 DEF Nr

(***************************************************************************)
(* The rounds of the cipher satisfy theirs.                                *)
(***************************************************************************)
LEMMA CipherEquation ==
  ASSUME NEW key, NEW text
  PROVE  /\ CipherRounds(key, text)[0] = Xor(text, KeySchedule(key)[0])
         /\ \A r \in 1 .. Nr - 1 :
              CipherRounds(key, text)[r] =
                CipherRound(CipherRounds(key, text)[r - 1], KeySchedule(key)[r])
<1> DEFINE v0 == Xor(text, KeySchedule(key)[0])
           v1 == CipherRound(v0, KeySchedule(key)[1])
           v2 == CipherRound(v1, KeySchedule(key)[2])
           v3 == CipherRound(v2, KeySchedule(key)[3])
           v4 == CipherRound(v3, KeySchedule(key)[4])
           v5 == CipherRound(v4, KeySchedule(key)[5])
           v6 == CipherRound(v5, KeySchedule(key)[6])
           v7 == CipherRound(v6, KeySchedule(key)[7])
           v8 == CipherRound(v7, KeySchedule(key)[8])
           v9 == CipherRound(v8, KeySchedule(key)[9])
           F == [r \in 0 .. Nr - 1 |->
              IF r = 0 THEN v0 ELSE IF r = 1 THEN v1 ELSE IF r = 2 THEN v2 ELSE
              IF r = 3 THEN v3 ELSE IF r = 4 THEN v4 ELSE IF r = 5 THEN v5 ELSE
              IF r = 6 THEN v6 ELSE IF r = 7 THEN v7 ELSE IF r = 8 THEN v8 ELSE
              v9]
           Step(f) == [r \in 0 .. Nr - 1 |->
                        IF r = 0 THEN Xor(text, KeySchedule(key)[0])
                                 ELSE CipherRound(f[r - 1], KeySchedule(key)[r])]
<1>1. /\ v0 = Xor(text, KeySchedule(key)[0])
      /\ v1 = CipherRound(v0, KeySchedule(key)[1])
      /\ v2 = CipherRound(v1, KeySchedule(key)[2])
      /\ v3 = CipherRound(v2, KeySchedule(key)[3])
      /\ v4 = CipherRound(v3, KeySchedule(key)[4])
      /\ v5 = CipherRound(v4, KeySchedule(key)[5])
      /\ v6 = CipherRound(v5, KeySchedule(key)[6])
      /\ v7 = CipherRound(v6, KeySchedule(key)[7])
      /\ v8 = CipherRound(v7, KeySchedule(key)[8])
      /\ v9 = CipherRound(v8, KeySchedule(key)[9])
  OBVIOUS
<1> HIDE DEF v0, v1, v2, v3, v4, v5, v6, v7, v8, v9
<1>2. F = Step(F)
  BY <1>1 DEF Nr
<1> HIDE DEF F
<1>3. CipherRounds(key, text) = CHOOSE f : f = Step(f)
  BY DEF CipherRounds
<1>4. CipherRounds(key, text) = Step(CipherRounds(key, text))
  BY <1>2, <1>3
<1> QED
  BY <1>4 DEF Nr

(***************************************************************************)
(* And so do those of the inverse cipher.                                  *)
(***************************************************************************)
LEMMA InvCipherEquation ==
  ASSUME NEW key, NEW text
  PROVE  /\ InvCipherRounds(key, text)[0] = Xor(text, KeySchedule(key)[Nr])
         /\ \A r \in 1 .. Nr - 1 :
              InvCipherRounds(key, text)[r] =
                InvCipherRound(InvCipherRounds(key, text)[r - 1], KeySchedule(key)[Nr - r])
<1> DEFINE v0 == Xor(text, KeySchedule(key)[Nr])
           v1 == InvCipherRound(v0, KeySchedule(key)[Nr - 1])
           v2 == InvCipherRound(v1, KeySchedule(key)[Nr - 2])
           v3 == InvCipherRound(v2, KeySchedule(key)[Nr - 3])
           v4 == InvCipherRound(v3, KeySchedule(key)[Nr - 4])
           v5 == InvCipherRound(v4, KeySchedule(key)[Nr - 5])
           v6 == InvCipherRound(v5, KeySchedule(key)[Nr - 6])
           v7 == InvCipherRound(v6, KeySchedule(key)[Nr - 7])
           v8 == InvCipherRound(v7, KeySchedule(key)[Nr - 8])
           v9 == InvCipherRound(v8, KeySchedule(key)[Nr - 9])
           F == [r \in 0 .. Nr - 1 |->
              IF r = 0 THEN v0 ELSE IF r = 1 THEN v1 ELSE IF r = 2 THEN v2 ELSE
              IF r = 3 THEN v3 ELSE IF r = 4 THEN v4 ELSE IF r = 5 THEN v5 ELSE
              IF r = 6 THEN v6 ELSE IF r = 7 THEN v7 ELSE IF r = 8 THEN v8 ELSE
              v9]
           Step(f) == [r \in 0 .. Nr - 1 |->
                        IF r = 0 THEN Xor(text, KeySchedule(key)[Nr])
                                 ELSE InvCipherRound(f[r - 1], KeySchedule(key)[Nr - r])]
<1>1. /\ v0 = Xor(text, KeySchedule(key)[Nr])
      /\ v1 = InvCipherRound(v0, KeySchedule(key)[Nr - 1])
      /\ v2 = InvCipherRound(v1, KeySchedule(key)[Nr - 2])
      /\ v3 = InvCipherRound(v2, KeySchedule(key)[Nr - 3])
      /\ v4 = InvCipherRound(v3, KeySchedule(key)[Nr - 4])
      /\ v5 = InvCipherRound(v4, KeySchedule(key)[Nr - 5])
      /\ v6 = InvCipherRound(v5, KeySchedule(key)[Nr - 6])
      /\ v7 = InvCipherRound(v6, KeySchedule(key)[Nr - 7])
      /\ v8 = InvCipherRound(v7, KeySchedule(key)[Nr - 8])
      /\ v9 = InvCipherRound(v8, KeySchedule(key)[Nr - 9])
  OBVIOUS
<1> HIDE DEF v0, v1, v2, v3, v4, v5, v6, v7, v8, v9
<1>2. F = Step(F)
  BY <1>1 DEF Nr
<1> HIDE DEF F
<1>3. InvCipherRounds(key, text) = CHOOSE f : f = Step(f)
  BY DEF InvCipherRounds
<1>4. InvCipherRounds(key, text) = Step(InvCipherRounds(key, text))
  BY <1>2, <1>3
<1> QED
  BY <1>4 DEF Nr

-----------------------------------------------------------------------------
(***************************************************************************)
(* The round constants are bytes.                                          *)
(***************************************************************************)
LEMMA RconType == \A r \in 1 .. Nr : Rcon[r] \in Byte
BY DEF Rcon, Byte, Nr

(***************************************************************************)
(* Every round key is a block.                                             *)
(***************************************************************************)
LEMMA KeyScheduleType ==
  ASSUME NEW key \in Block
  PROVE  \A r \in 0 .. Nr : KeySchedule(key)[r] \in Block
<1> DEFINE K == KeySchedule(key)
<1>1. K[0] \in Block
  BY KeyScheduleEquation
<1>2. ASSUME NEW r \in 1 .. Nr, K[r - 1] \in Block
      PROVE  K[r] \in Block
  <2>1. K[r] = ExpandKey(K[r - 1], Rcon[r])
    BY KeyScheduleEquation
  <2> QED
    BY <1>2, <2>1, RconType, Closure
<1> HIDE DEF K
<1>3. /\ K[1] \in Block /\ K[2] \in Block /\ K[3] \in Block /\ K[4] \in Block
      /\ K[5] \in Block /\ K[6] \in Block /\ K[7] \in Block /\ K[8] \in Block
      /\ K[9] \in Block /\ K[10] \in Block
  BY <1>1, <1>2 DEF Nr
<1> QED
  BY <1>1, <1>3 DEF Nr, K

(***************************************************************************)
(* Every intermediate state of the cipher is a block, and so is its result.*)
(***************************************************************************)
LEMMA CipherType ==
  ASSUME NEW key \in Block, NEW text \in Block
  PROVE  /\ \A r \in 0 .. Nr - 1 : CipherRounds(key, text)[r] \in Block
         /\ Encrypt(key, text) \in Block
<1> DEFINE S == CipherRounds(key, text)
           K == KeySchedule(key)
<1>0. \A r \in 0 .. Nr : K[r] \in Block
  BY KeyScheduleType
<1>1. S[0] \in Block
  BY <1>0, CipherEquation, Closure DEF Nr
<1>2. ASSUME NEW r \in 1 .. Nr - 1, S[r - 1] \in Block
      PROVE  S[r] \in Block
  <2>1. S[r] = CipherRound(S[r - 1], K[r])
    BY CipherEquation
  <2>2. K[r] \in Block
    BY <1>0 DEF Nr
  <2> QED
    BY <1>2, <2>1, <2>2, Closure DEF CipherRound
<1>3. Encrypt(key, text) = Xor(SubShift(S[9]), K[10])
  BY DEF Encrypt, Nr
<1> HIDE DEF S, K
<1>4. /\ S[1] \in Block /\ S[2] \in Block /\ S[3] \in Block /\ S[4] \in Block
      /\ S[5] \in Block /\ S[6] \in Block /\ S[7] \in Block /\ S[8] \in Block
      /\ S[9] \in Block
  BY <1>1, <1>2 DEF Nr
<1>5. Encrypt(key, text) \in Block
  BY <1>0, <1>3, <1>4, Closure DEF Nr
<1> QED
  BY <1>1, <1>4, <1>5 DEF Nr, S

-----------------------------------------------------------------------------
(***************************************************************************)
(* Decryption undoes encryption, for every key and text: the state of the  *)
(* inverse cipher after r rounds is what SubShift makes of the state of    *)
(* the cipher r rounds before its end.                                     *)
(***************************************************************************)
THEOREM DecryptInverts ==
  ASSUME NEW key \in Block, NEW text \in Block
  PROVE  Decrypt(key, Encrypt(key, text)) = text
<1> DEFINE S == CipherRounds(key, text)
           D == InvCipherRounds(key, Encrypt(key, text))
           K == KeySchedule(key)
<1>1. /\ \A r \in 0 .. Nr : K[r] \in Block
      /\ \A r \in 0 .. Nr - 1 : S[r] \in Block
  BY KeyScheduleType, CipherType
<1>2. D[0] = SubShift(S[9])
  <2>1. D[0] = Xor(Xor(SubShift(S[9]), K[10]), K[10])
    BY InvCipherEquation DEF Encrypt, Nr
  <2>2. SubShift(S[9]) \in Block /\ K[10] \in Block
    BY <1>1, Closure DEF Nr
  <2> QED
    BY <2>1, <2>2, Inverses
<1>3. ASSUME NEW r \in 1 .. Nr - 1, D[r - 1] = SubShift(S[Nr - r])
      PROVE  D[r] = SubShift(S[Nr - r - 1])
  <2> DEFINE before == S[Nr - r - 1]
  <2>1. S[Nr - r] = Xor(MixColumns(SubShift(before)), K[Nr - r])
    <3>1. Nr - r \in 1 .. Nr - 1
      BY DEF Nr
    <3> QED
      BY <3>1, CipherEquation DEF CipherRound
  <2>2. D[r] = InvMixColumns(Xor(InvShiftSub(D[r - 1]), K[Nr - r]))
    BY InvCipherEquation DEF InvCipherRound
  <2>3. before \in Block /\ S[Nr - r] \in Block /\ K[Nr - r] \in Block
    <3>1. {Nr - r - 1, Nr - r} \subseteq 0 .. Nr - 1 /\ Nr - r \in 0 .. Nr
      BY DEF Nr
    <3> QED
      BY <1>1, <3>1
  <2>4. InvShiftSub(D[r - 1]) = S[Nr - r]
    BY <1>3, <2>3, Inverses
  <2> HIDE DEF before
  <2>5. SubShift(before) \in Block /\ MixColumns(SubShift(before)) \in Block
    BY <2>3, Closure
  <2>6. Xor(S[Nr - r], K[Nr - r]) = MixColumns(SubShift(before))
    BY <2>1, <2>3, <2>5, Inverses
  <2>7. D[r] = SubShift(before)
    BY <2>2, <2>4, <2>5, <2>6, Inverses
  <2> QED
    BY <2>7 DEF before
<1>4. D[9] = SubShift(S[0])
  <2> HIDE DEF S, D
  <2>1. D[1] = SubShift(S[8])
    BY <1>2, <1>3 DEF Nr
  <2>2. D[2] = SubShift(S[7])
    BY <1>3, <2>1 DEF Nr
  <2>3. D[3] = SubShift(S[6])
    BY <1>3, <2>2 DEF Nr
  <2>4. D[4] = SubShift(S[5])
    BY <1>3, <2>3 DEF Nr
  <2>5. D[5] = SubShift(S[4])
    BY <1>3, <2>4 DEF Nr
  <2>6. D[6] = SubShift(S[3])
    BY <1>3, <2>5 DEF Nr
  <2>7. D[7] = SubShift(S[2])
    BY <1>3, <2>6 DEF Nr
  <2>8. D[8] = SubShift(S[1])
    BY <1>3, <2>7 DEF Nr
  <2> QED
    BY <1>3, <2>8 DEF Nr
<1>5. S[0] = Xor(text, K[0]) /\ K[0] \in Block /\ S[0] \in Block
  BY <1>1, CipherEquation DEF Nr
<1>6. Decrypt(key, Encrypt(key, text)) = Xor(S[0], K[0])
  BY <1>4, <1>5, Inverses DEF Decrypt, Nr
<1> QED
  BY <1>5, <1>6, Inverses
=============================================================================
