--------------------------- MODULE SoftwareProofs ---------------------------
(***************************************************************************)
(* The functions of aes.c and Cipher of aes.py, proved to be FIPS-197 for  *)
(* every key and every text of every call, and so the encryption core with *)
(* the byte logic of the RTL.  What the standard and the programs define   *)
(* by recursion is taken apart by least numbers, since the induction       *)
(* theorems of the library are out of reach of the provers.                *)
(***************************************************************************)
EXTENDS Software, AesBytesProofs, WellFoundedInduction, SequenceTheorems

(***************************************************************************)
(* A set of numbers that is not empty has a least one.                     *)
(***************************************************************************)
LEMMA LeastNumber ==
  ASSUME NEW T, T \subseteq Nat, T # {}
  PROVE  \E m \in T : \A n \in T : m =< n
<1> DEFINE Less == OpToRel(<, Nat)
<1>1. \E m \in T : \A n \in T : ~ (<<n, m>> \in Less)
  BY WFMin, NatLessThanWellFounded
<1>2. PICK m \in T : \A n \in T : ~ (<<n, m>> \in Less)
  BY <1>1
<1>3. ASSUME NEW n \in T
      PROVE  m =< n
  <2>1. n \in Nat /\ m \in Nat
    OBVIOUS
  <2>2. ~ (n < m)
    BY <1>2, <2>1 DEF OpToRel
  <2> QED
    BY <2>1, <2>2
<1> QED
  BY <1>3

(***************************************************************************)
(* Induction up to a bound.                                                *)
(***************************************************************************)
LEMMA UpTo ==
  ASSUME NEW N \in Nat, NEW T, 0 \in T,
         \A n \in 1 .. N : n - 1 \in T => n \in T
  PROVE  \A n \in 0 .. N : n \in T
<1> DEFINE Out == {n \in 0 .. N : n \notin T}
<1>1. SUFFICES ASSUME Out # {}
               PROVE  FALSE
  OBVIOUS
<1>2. PICK m \in Out : \A n \in Out : m =< n
  <2>1. Out \subseteq Nat
    OBVIOUS
  <2> HIDE DEF Out
  <2> QED
    BY <1>1, <2>1, LeastNumber
<1>3. m \in 1 .. N
  <2>1. m \in 0 .. N /\ m # 0
    OBVIOUS
  <2> QED
    BY <2>1
<1>4. m - 1 \in 0 .. N /\ ~ (m =< m - 1)
  BY <1>3
<1>5. m - 1 \in T
  BY <1>2, <1>4
<1>6. m \in T
  BY <1>3, <1>5
<1> QED
  BY <1>6

\* Step n takes the values X[n - 1] to values X[n], for n up to N.
StepsWithin(step, X, N) == \A n \in 1 .. N : \A x \in X[n - 1] : step[n][x] \in X[n]

\* The values of the recursion from start, by number of steps.
IsRecursion(f, start, step, X, N) ==
    /\ f = [n \in 0 .. N |-> f[n]]
    /\ f[0] = start
    /\ \A n \in 1 .. N : f[n] = step[n][f[n - 1]]
    /\ \A n \in 0 .. N : f[n] \in X[n]

(***************************************************************************)
(* Recursion over 0 .. N defines a function.                               *)
(***************************************************************************)
LEMMA Recursion ==
  ASSUME NEW N \in Nat, NEW X, NEW step, StepsWithin(step, X, N), NEW start, start \in X[0]
  PROVE  \E f : IsRecursion(f, start, step, X, N)
<1> DEFINE Upto(f, m) == IsRecursion(f, start, step, X, m)
           T == {m \in 0 .. N : \E f : Upto(f, m)}
<1> USE DEF IsRecursion
<1>1. 0 \in T
  <2> DEFINE f == [n \in 0 .. 0 |-> start]
  <2>1. \A n \in 0 .. 0 : n = 0
    OBVIOUS
  <2>2. 0 \in 0 .. N /\ 0 \in 0 .. 0
    OBVIOUS
  <2>3. \A n \in 1 .. 0 : FALSE
    OBVIOUS
  <2>4. Upto(f, 0)
    BY <2>1, <2>2, <2>3
  <2> HIDE DEF Upto
  <2> QED
    BY <2>2, <2>4
<1>2. ASSUME NEW m \in 1 .. N, m - 1 \in T
      PROVE  m \in T
  <2>1. PICK f : Upto(f, m - 1)
    BY <1>2
  <2> DEFINE g == [n \in 0 .. m |-> IF n = m THEN step[m][f[m - 1]] ELSE f[n]]
  <2>2. /\ m \in 0 .. N /\ m \in 0 .. m /\ 0 \in 0 .. m /\ 0 # m /\ m - 1 \in 0 .. m - 1
        /\ \A n \in 1 .. m : n \in 0 .. m /\ n - 1 \in 0 .. m /\ n - 1 # m
        /\ \A n \in 1 .. m : n = m \/ n \in 1 .. m - 1
        /\ \A n \in 0 .. m : n = m \/ n \in 0 .. m - 1
    OBVIOUS
  <2>3. step[m][f[m - 1]] \in X[m]
    <3>1. f[m - 1] \in X[m - 1]
      BY <2>1, <2>2
    <3> QED
      BY <3>1 DEF StepsWithin
  <2>4. g = [n \in 0 .. m |-> g[n]] /\ g[0] = start
    BY <2>1, <2>2
  <2>5. \A n \in 1 .. m : g[n] = step[n][g[n - 1]]
    BY <2>1, <2>2
  <2>6. \A n \in 0 .. m : g[n] \in X[n]
    BY <2>1, <2>2, <2>3
  <2> HIDE DEF g
  <2>7. Upto(g, m)
    BY <2>4, <2>5, <2>6
  <2> QED
    BY <2>2, <2>7
<1>3. N \in T
  <2> HIDE DEF T
  <2>1. \A n \in 0 .. N : n \in T
    BY <1>1, <1>2, UpTo
  <2> QED
    BY <2>1
<1> QED
  BY <1>3

-----------------------------------------------------------------------------
(***************************************************************************)
(* A word is the tuple of its bytes.                                       *)
(***************************************************************************)
LEMMA WordBytes ==
  ASSUME NEW v, v \in Word
  PROVE  /\ v = <<v[1], v[2], v[3], v[4]>>
         /\ \A r \in 1 .. 4 : v[r] \in BYTE
         /\ v[1] \in BYTE /\ v[2] \in BYTE /\ v[3] \in BYTE /\ v[4] \in BYTE
<1>1. /\ v = <<v[1], v[2], v[3], v[4]>>
      /\ v[1] \in BYTE /\ v[2] \in BYTE /\ v[3] \in BYTE /\ v[4] \in BYTE
  BY DEF Word
<1>2. \A r \in 1 .. 4 : r = 1 \/ r = 2 \/ r = 3 \/ r = 4
  OBVIOUS
<1> QED
  BY <1>1, <1>2

(***************************************************************************)
(* The operations on words stay within words, and those of aes.c are those *)
(* of the standard.                                                        *)
(***************************************************************************)
LEMMA WordOperations ==
  ASSUME NEW v, v \in Word, NEW u, u \in Word
  PROVE  /\ WordAdd(v, u) \in Word
         /\ SubWord(v) \in Word
         /\ RotWord(v) \in Word
         /\ v ++ u = WordAdd(v, u)
         /\ WordAdd(v, u) = WordAdd(u, v)
         /\ sub_byte(v) = SubWord(v)
         /\ rot_down_8(v) = RotWord(v)
<1>1. /\ v[1] \in BYTE /\ v[2] \in BYTE /\ v[3] \in BYTE /\ v[4] \in BYTE
      /\ u[1] \in BYTE /\ u[2] \in BYTE /\ u[3] \in BYTE /\ u[4] \in BYTE
  BY WordBytes
<1>2. \A x, y \in BYTE : x (+) y \in BYTE /\ x (+) y = y (+) x
  <2> TAKE x, y \in BYTE
  <2>1. x (+) y \in BYTE /\ y (+) x \in BYTE
    BY XorIsDifference
  <2>2. \A j \in 0 .. 7 : j \in Bits(x (+) y) <=> j \in Bits(y (+) x)
    BY XorIsDifference
  <2> QED
    BY <2>1, <2>2, SameBits
<1>3. \A x \in BYTE : Sbox(x) \in BYTE /\ S(x) = Sbox(x)
  BY TableWords
<1>4. WordAdd(v, u) \in Word /\ WordAdd(v, u) = WordAdd(u, v)
  BY <1>1, <1>2 DEF WordAdd, Word
<1>5. SubWord(v) \in Word /\ sub_byte(v) = SubWord(v)
  BY <1>1, <1>3 DEF SubWord, sub_byte, Word
<1>6. RotWord(v) \in Word /\ rot_down_8(v) = RotWord(v)
  BY <1>1 DEF RotWord, rot_down_8, Word
<1>7. v ++ u = WordAdd(v, u)
  BY DEF WordAdd, ++
<1> QED
  BY <1>4, <1>5, <1>6, <1>7

-----------------------------------------------------------------------------
\* The round constants, computed.
Constants == <<1, 2, 4, 8, 16, 32, 64, 128, 27, 54>>

(***************************************************************************)
(* The recursion of the round constants, unrolled.                         *)
(***************************************************************************)
LEMMA RoundConstants ==
  /\ \A m \in 1 .. 10 : RoundConstant[m] = Constants[m] /\ RoundConstant[m] \in BYTE
  /\ \A m \in 1 .. 10 : <<RoundConstant[m], 0, 0, 0>> \in Word
  /\ \A m \in 1 .. 9 : RoundConstant[m + 1] = xtime(RoundConstant[m])
<1> DEFINE f == [m \in 1 .. 10 |-> Constants[m]]
           Step(g) == [m \in 1 .. 10 |-> IF m = 1 THEN 1 ELSE Times2[g[m - 1]]]
           chosen == CHOOSE g : g = Step(g)
<1>1. RoundConstant = chosen
  BY DEF RoundConstant
<1>2. \A m \in 1 .. 10 : m \in {1, 2, 3, 4, 5, 6, 7, 8, 9, 10}
  OBVIOUS
<1>3. \A m \in 1 .. 10 : Constants[m] \in BYTE
  BY <1>2 DEF Constants, BYTE
<1>4. \A b \in BYTE : Times2[b] = xtime(b)
  BY Products DEF Times2
<1>5. \A m \in 1 .. 9 : xtime(Constants[m]) = Constants[m + 1]
  <2>1. \A b \in BYTE : b (+) 0 = b /\ 0 (+) b = b
    BY XorZero
  <2>2. xtime(1) = 2 (+) 0 /\ xtime(2) = 4 (+) 0 /\ xtime(4) = 8 (+) 0 /\ xtime(8) = 16 (+) 0
    BY DEF xtime
  <2>3. xtime(16) = 32 (+) 0 /\ xtime(32) = 64 (+) 0 /\ xtime(64) = 128 (+) 0
    BY DEF xtime
  <2>4. xtime(128) = 0 (+) 27 /\ xtime(27) = 54 (+) 0
    BY DEF xtime
  <2>5. \A m \in 1 .. 9 : m \in {1, 2, 3, 4, 5, 6, 7, 8, 9}
    OBVIOUS
  <2>6. /\ xtime(1) = 2 /\ xtime(2) = 4 /\ xtime(4) = 8 /\ xtime(8) = 16 /\ xtime(16) = 32
        /\ xtime(32) = 64 /\ xtime(64) = 128 /\ xtime(128) = 27 /\ xtime(27) = 54
    BY <2>1, <2>2, <2>3, <2>4 DEF BYTE
  <2> HIDE DEF xtime
  <2> QED
    BY <2>5, <2>6 DEF Constants
<1>6. f = Step(f)
  <2>1. ASSUME NEW m \in 1 .. 10
        PROVE  f[m] = IF m = 1 THEN 1 ELSE Times2[f[m - 1]]
    <3>1. m = 1 \/ (m # 1 /\ m - 1 \in 1 .. 9 /\ m - 1 \in 1 .. 10 /\ (m - 1) + 1 = m)
      OBVIOUS
    <3>2. Constants[1] = 1
      BY DEF Constants
    <3> QED
      BY <1>3, <1>4, <1>5, <3>1, <3>2
  <2> QED
    BY <2>1
<1>7. chosen = Step(chosen)
  <2> HIDE DEF f, Step
  <2> QED
    BY <1>6
<1>8. ASSUME NEW m \in 1 .. 10
      PROVE  chosen[m] = IF m = 1 THEN 1 ELSE Times2[chosen[m - 1]]
  <2> HIDE DEF chosen
  <2> QED
    BY <1>7
<1> HIDE DEF chosen
<1>9. \A m \in 0 .. 9 : chosen[m + 1] = Constants[m + 1]
  <2> DEFINE T == {m \in 0 .. 9 : chosen[m + 1] = Constants[m + 1]}
  <2>1. 0 \in T
    BY <1>8 DEF Constants
  <2>2. ASSUME NEW m \in 1 .. 9, m - 1 \in T
        PROVE  m \in T
    <3>1. m + 1 \in 1 .. 10 /\ m + 1 # 1 /\ (m + 1) - 1 = m /\ (m - 1) + 1 = m /\ m \in 1 .. 10
      OBVIOUS
    <3>2. chosen[m] = Constants[m]
      BY <2>2, <3>1
    <3>3. chosen[m + 1] = Times2[chosen[m]]
      BY <1>8, <3>1
    <3> QED
      BY <1>3, <1>4, <1>5, <3>1, <3>2, <3>3
  <2> HIDE DEF T
  <2>3. \A m \in 0 .. 9 : m \in T
    BY <2>1, <2>2, UpTo
  <2> QED
    BY <2>3 DEF T
<1>10. ASSUME NEW m \in 1 .. 10
       PROVE  chosen[m] = Constants[m]
  <2>1. m - 1 \in 0 .. 9 /\ (m - 1) + 1 = m
    OBVIOUS
  <2> QED
    BY <1>9, <2>1
<1>11. \A m \in 1 .. 9 : m \in 1 .. 10 /\ m + 1 \in 1 .. 10
  OBVIOUS
<1>12. \A m \in 1 .. 10 : <<Constants[m], 0, 0, 0>> \in Word
  BY <1>3, ZeroHasNoBits DEF Word
<1> QED
  BY <1>1, <1>3, <1>5, <1>10, <1>11, <1>12

-----------------------------------------------------------------------------
(***************************************************************************)
(* A function on 1 .. m is a list of m elements.                           *)
(***************************************************************************)
LEMMA Lists ==
  ASSUME NEW Y, NEW m \in Nat, NEW V \in [1 .. m -> Y]
  PROVE  V \in Seq(Y) /\ Len(V) = m
OBVIOUS

\* Lists of m words, and a list with one word more.
WordList(m) == [1 .. m -> Word]

Longer(V, e) == Append(V, e)

(***************************************************************************)
(* A list with one more word.                                              *)
(***************************************************************************)
LEMMA LongerList ==
  ASSUME NEW m \in Nat, NEW V \in WordList(m), NEW e \in Word
  PROVE  /\ Longer(V, e) \in WordList(m + 1)
         /\ Longer(V, e)[m + 1] = e
         /\ \A j \in 1 .. m : Longer(V, e)[j] = V[j]
<1>1. V \in Seq(Word) /\ Len(V) = m
  BY Lists DEF WordList
<1>2. Append(V, e) \in Seq(Word) /\ Len(Append(V, e)) = m + 1
  BY <1>1
<1>3. Append(V, e) \in WordList(m + 1)
  BY <1>2, LenProperties DEF WordList
<1>4. Append(V, e)[m + 1] = e /\ \A j \in 1 .. m : Append(V, e)[j] = V[j]
  BY <1>1, <1>3
<1> QED
  BY <1>3, <1>4 DEF Longer

KeySizes == {4, 6, 8}

\* What figure 11 adds to the word Nk back, of the word before.
Temp(v, n, Nk) ==
    IF n % Nk = 0
      THEN WordAdd(SubWord(RotWord(v)), <<RoundConstant[n \div Nk], 0, 0, 0>>)
    ELSE IF Nk > 6 /\ n % Nk = 4 THEN SubWord(v)
    ELSE v

\* The lists of words that begin with the key and go on for m words of figure 11.
Schedules(key, Nk, m) ==
    {V \in [1 .. Nk + m -> Word] :
       /\ \A j \in 1 .. Nk : V[j] = key[j]
       /\ \A n \in Nk .. Nk + m - 1 : V[n + 1] = WordAdd(V[n - Nk + 1], Temp(V[n], n, Nk))}

(***************************************************************************)
(* The word that is added is a word, as far as a key schedule goes.        *)
(***************************************************************************)
LEMMA TempIsWord ==
  ASSUME NEW Nk \in KeySizes, NEW n \in Nk .. 4 * Nk + 27, NEW v, v \in Word
  PROVE  /\ n % Nk = 0 => n \div Nk \in 1 .. 10
         /\ Temp(v, n, Nk) \in Word
<1>1. n % Nk = 0 => n \div Nk \in 1 .. 10
  <2>1. CASE Nk = 4
    BY <2>1
  <2>2. CASE Nk = 6
    BY <2>2
  <2>3. CASE Nk = 8
    BY <2>3
  <2> QED
    BY <2>1, <2>2, <2>3 DEF KeySizes
<1>2. SubWord(v) \in Word /\ RotWord(v) \in Word
  BY WordOperations
<1>3. SubWord(RotWord(v)) \in Word
  BY <1>2, WordOperations
<1>4. CASE n % Nk = 0
  <2>1. <<RoundConstant[n \div Nk], 0, 0, 0>> \in Word
    BY <1>1, <1>4, RoundConstants
  <2>2. WordAdd(SubWord(RotWord(v)), <<RoundConstant[n \div Nk], 0, 0, 0>>) \in Word
    BY <1>3, <2>1, WordOperations
  <2> QED
    BY <1>1, <1>4, <2>2 DEF Temp
<1>5. CASE n % Nk # 0
  BY <1>2, <1>5 DEF Temp
<1> QED
  BY <1>1, <1>4, <1>5

(***************************************************************************)
(* One more word keeps a schedule a schedule.                              *)
(***************************************************************************)
LEMMA ScheduleStep ==
  ASSUME NEW Nk \in KeySizes, NEW key, NEW m \in 1 .. 3 * Nk + 28,
         NEW V \in Schedules(key, Nk, m - 1)
  PROVE  Extended(V, Nk) \in Schedules(key, Nk, m)
<1> DEFINE n == Nk + m - 1
           e == WordAdd(V[n - Nk + 1], Temp(V[n], n, Nk))
           U == Longer(V, e)
<1>1. /\ Nk \in Nat /\ n \in Nat /\ n \in Nk .. 4 * Nk + 27 /\ n \in 1 .. n
      /\ n - Nk + 1 \in 1 .. n /\ Nk + (m - 1) = n /\ Nk + m = n + 1
  BY DEF KeySizes
<1>2. V \in [1 .. n -> Word]
  BY <1>1 DEF Schedules
<1>3. e \in Word
  <2>1. V[n] \in Word /\ V[n - Nk + 1] \in Word
    BY <1>1, <1>2
  <2>2. Temp(V[n], n, Nk) \in Word
    BY <1>1, <2>1, TempIsWord
  <2> QED
    BY <2>1, <2>2, WordOperations
<1>4. Extended(V, Nk) = U
  <2>1. Len(V) = n
    BY <1>1, <1>2, Lists
  <2> HIDE DEF n
  <2> QED
    BY <2>1 DEF Extended, Temp, Longer
<1> HIDE DEF e, n
<1>5. U \in [1 .. n + 1 -> Word] /\ U[n + 1] = e /\ \A j \in 1 .. n : U[j] = V[j]
  <2>1. n \in Nat /\ V \in WordList(n)
    BY <1>1, <1>2 DEF WordList
  <2>2. U \in WordList(n + 1) /\ U[n + 1] = e /\ \A j \in 1 .. n : U[j] = V[j]
    BY <1>3, <2>1, LongerList
  <2> QED
    BY <2>2 DEF WordList
<1> HIDE DEF U
<1>6. \A j \in 1 .. Nk : U[j] = key[j]
  BY <1>1, <1>5 DEF Schedules
<1>7. \A j \in Nk .. n : U[j + 1] = WordAdd(U[j - Nk + 1], Temp(U[j], j, Nk))
  <2> TAKE j \in Nk .. n
  <2>1. j \in 1 .. n /\ j - Nk + 1 \in 1 .. n
    BY <1>1 DEF KeySizes
  <2>2. CASE j = n
    BY <1>5, <2>1, <2>2 DEF e
  <2>3. CASE j # n
    <3>1. j + 1 \in 1 .. n /\ j \in Nk .. Nk + (m - 1) - 1
      BY <1>1, <2>1, <2>3
    <3>2. V[j + 1] = WordAdd(V[j - Nk + 1], Temp(V[j], j, Nk))
      BY <3>1 DEF Schedules
    <3> QED
      BY <1>5, <2>1, <3>1, <3>2
  <2> QED
    BY <2>2, <2>3
<1>8. Nk .. Nk + m - 1 = Nk .. n
  BY DEF n
<1>9. U \in Schedules(key, Nk, m)
  BY <1>1, <1>5, <1>6, <1>7, <1>8 DEF Schedules
<1> QED
  BY <1>4, <1>9

(***************************************************************************)
(* The key words of the standard: a recursion that has a solution.         *)
(***************************************************************************)
LEMMA ScheduleRecursion ==
  ASSUME NEW Nk \in KeySizes, NEW key \in WordList(Nk)
  PROVE  \E f : /\ f = [n \in 0 .. 3 * Nk + 28 |->
                          IF n = 0 THEN key ELSE Extended(f[n - 1], Nk)]
                /\ \A n \in 0 .. 3 * Nk + 28 : f[n] \in Schedules(key, Nk, n)
<1> DEFINE N == 3 * Nk + 28
           X == [n \in 0 .. N |-> Schedules(key, Nk, n)]
           step == [n \in 1 .. N |-> [V \in X[n - 1] |-> Extended(V, Nk)]]
<1>1. N \in Nat /\ Nk \in Nat /\ 0 \in 0 .. N
  BY DEF KeySizes
<1>2. \A n \in 1 .. N : n \in 0 .. N /\ n - 1 \in 0 .. N
  BY <1>1
<1>3. key \in X[0]
  <2>1. Nk + 0 = Nk /\ Nk .. Nk + 0 - 1 = {}
    BY <1>1
  <2>2. key \in Schedules(key, Nk, 0)
    BY <2>1 DEF Schedules, WordList
  <2> QED
    BY <1>1, <2>2
<1>4. StepsWithin(step, X, N)
  <2>1. ASSUME NEW n \in 1 .. N
        PROVE  X[n - 1] = Schedules(key, Nk, n - 1) /\ X[n] = Schedules(key, Nk, n)
    BY <1>2
  <2> HIDE DEF X
  <2>2. ASSUME NEW n \in 1 .. N, NEW V \in X[n - 1]
        PROVE  step[n][V] \in X[n]
    <3>1. step[n][V] = Extended(V, Nk)
      OBVIOUS
    <3> QED
      BY <2>1, <3>1, ScheduleStep
  <2> QED
    BY <2>2 DEF StepsWithin
<1> HIDE DEF N, X, step
<1>5. PICK f : IsRecursion(f, key, step, X, N)
  BY <1>1, <1>3, <1>4, Recursion
<1>6. ASSUME NEW n \in 0 .. N
      PROVE  f[n] = IF n = 0 THEN key ELSE Extended(f[n - 1], Nk)
  <2>1. CASE n = 0
    BY <1>5, <2>1 DEF IsRecursion
  <2>2. CASE n # 0
    <3>1. n \in 1 .. N /\ n - 1 \in 0 .. N
      BY <1>1, <2>2
    <3>2. f[n - 1] \in X[n - 1] /\ f[n] = step[n][f[n - 1]]
      BY <1>5, <3>1 DEF IsRecursion
    <3> QED
      BY <2>2, <3>1, <3>2 DEF step
  <2> QED
    BY <2>1, <2>2
<1>7. f = [n \in 0 .. N |-> IF n = 0 THEN key ELSE Extended(f[n - 1], Nk)]
  <2>1. f = [n \in 0 .. N |-> f[n]]
    BY <1>5 DEF IsRecursion
  <2> QED
    BY <1>6, <2>1
<1>8. \A n \in 0 .. N : f[n] \in Schedules(key, Nk, n)
  BY <1>5 DEF X, IsRecursion
<1> QED
  BY <1>7, <1>8 DEF N

(***************************************************************************)
(* KeyWords is the schedule of the key, to its last word.                  *)
(***************************************************************************)
LEMMA KeyWordsAreSchedule ==
  ASSUME NEW Nk \in KeySizes, NEW key \in WordList(Nk)
  PROVE  KeyWords(key) \in Schedules(key, Nk, 3 * Nk + 28)
<1> DEFINE N == 3 * Nk + 28
           Step(f) == [n \in 0 .. N |-> IF n = 0 THEN key ELSE Extended(f[n - 1], Nk)]
           chosen == CHOOSE f : f = Step(f)
<1>1. N \in Nat /\ Nk \in Nat /\ 0 \in 0 .. N /\ N \in 0 .. N
  BY DEF KeySizes
<1>2. Len(key) = Nk
  BY <1>1, Lists DEF WordList
<1>3. KeyWords(key) = chosen[N]
  BY <1>2 DEF KeyWords
<1>4. PICK f : f = Step(f) /\ \A n \in 0 .. N : f[n] \in Schedules(key, Nk, n)
  BY ScheduleRecursion
<1>5. chosen = Step(chosen)
  <2> HIDE DEF Step
  <2> QED
    BY <1>4
<1>6. \A n \in 0 .. N : /\ chosen[n] = IF n = 0 THEN key ELSE Extended(chosen[n - 1], Nk)
                        /\ f[n] = IF n = 0 THEN key ELSE Extended(f[n - 1], Nk)
  <2> HIDE DEF chosen, N
  <2> QED
    BY <1>4, <1>5
<1> HIDE DEF N, chosen, Step
<1> DEFINE T == {n \in 0 .. N : chosen[n] = f[n]}
<1>7. 0 \in T
  BY <1>1, <1>6
<1>8. ASSUME NEW n \in 1 .. N, n - 1 \in T
      PROVE  n \in T
  <2>1. n \in 0 .. N /\ n # 0
    OBVIOUS
  <2> QED
    BY <1>6, <1>8, <2>1
<1>9. N \in T
  <2> HIDE DEF T
  <2>1. \A n \in 0 .. N : n \in T
    BY <1>1, <1>7, <1>8, UpTo
  <2> QED
    BY <1>1, <2>1
<1>10. chosen[N] \in Schedules(key, Nk, N)
  BY <1>1, <1>4, <1>9
<1> QED
  BY <1>3, <1>10 DEF N

-----------------------------------------------------------------------------
(***************************************************************************)
(* Four words in a row are a list.                                         *)
(***************************************************************************)
LEMMA FourWords ==
  /\ \A w1, w2, w3, w4 \in Word :
       LET s == <<w1, w2, w3, w4>> IN
       s \in WordList(4) /\ s[1] = w1 /\ s[2] = w2 /\ s[3] = w3 /\ s[4] = w4
  /\ \A s \in WordList(4) : s = <<s[1], s[2], s[3], s[4]>>
  /\ \A s \in WordList(4) : s[1] \in Word /\ s[2] \in Word /\ s[3] \in Word /\ s[4] \in Word
<1>1. \A w1, w2, w3, w4 \in Word :
        LET s == <<w1, w2, w3, w4>> IN
        s \in WordList(4) /\ s[1] = w1 /\ s[2] = w2 /\ s[3] = w3 /\ s[4] = w4
  <2> TAKE w1, w2, w3, w4 \in Word
  <2> DEFINE s == <<w1, w2, w3, w4>>
  <2>1. s \in Seq(Word) /\ Len(s) = 4
    OBVIOUS
  <2>2. s \in [1 .. 4 -> Word]
    BY <2>1, LenProperties
  <2> QED
    BY <2>2 DEF WordList
<1>2. \A s \in WordList(4) : s[1] \in Word /\ s[2] \in Word /\ s[3] \in Word /\ s[4] \in Word
  BY DEF WordList
<1>3. \A s \in WordList(4) : s = <<s[1], s[2], s[3], s[4]>>
  <2> TAKE s \in WordList(4)
  <2>1. s \in Seq(Word) /\ Len(s) = 4
    BY Lists DEF WordList
  <2> QED
    BY <2>1
<1> QED
  BY <1>1, <1>2, <1>3

(***************************************************************************)
(* The products of a round.                                                *)
(***************************************************************************)
LEMMA TimesOfBytes ==
  ASSUME NEW x, x \in BYTE
  PROVE  /\ xtime(x) \in BYTE
         /\ Times2[x] = xtime(x) /\ Times2[x] \in BYTE
         /\ Times3[x] = xtime(x) (+) x /\ Times3[x] \in BYTE
<1>1. xtime(x) \in BYTE /\ FieldTimes(2, x) = xtime(x) /\ FieldTimes(3, x) = xtime(x) (+) x
  BY Products, XtimeBits
<1>2. xtime(x) (+) x \in BYTE
  BY <1>1, XorIsDifference
<1>3. Times2[x] = FieldTimes(2, x) /\ Times3[x] = FieldTimes(3, x)
  BY DEF Times2, Times3
<1> QED
  BY <1>1, <1>2, <1>3

(***************************************************************************)
(* The transformations of a state, column by column.                       *)
(***************************************************************************)
LEMMA StateOperations ==
  ASSUME NEW s \in WordList(4), NEW z \in WordList(4)
  PROVE  /\ AddKey(s, z) \in WordList(4)
         /\ SubShiftColumns(s) \in WordList(4)
         /\ MixColumns(s) \in WordList(4)
<1>1. /\ s[1] \in Word /\ s[2] \in Word /\ s[3] \in Word /\ s[4] \in Word
      /\ z[1] \in Word /\ z[2] \in Word /\ z[3] \in Word /\ z[4] \in Word
  BY FourWords
<1>2. AddKey(s, z) \in WordList(4)
  <2>1. /\ WordAdd(s[1], z[1]) \in Word /\ WordAdd(s[2], z[2]) \in Word
        /\ WordAdd(s[3], z[3]) \in Word /\ WordAdd(s[4], z[4]) \in Word
    BY <1>1, WordOperations
  <2> QED
    BY <2>1, FourWords DEF AddKey, Columns
<1>3. \A c, r \in 1 .. 4 : s[c][r] \in BYTE
  BY WordBytes DEF WordList
<1>4. SubShiftColumns(s) \in WordList(4)
  <2> DEFINE from(c, r) == Sbox(s[((c + r - 2) % 4) + 1][r])
             col(c) == <<from(c, 1), from(c, 2), from(c, 3), from(c, 4)>>
  <2>1. \A c, r \in 1 .. 4 : from(c, r) \in BYTE
    <3> TAKE c, r \in 1 .. 4
    <3>1. ((c + r - 2) % 4) + 1 \in 1 .. 4
      OBVIOUS
    <3> QED
      BY <1>3, <3>1, TableWords
  <2>2. SubShiftColumns(s) = <<col(1), col(2), col(3), col(4)>>
    BY DEF SubShiftColumns, Columns
  <2> HIDE DEF from
  <2>3. col(1) \in Word /\ col(2) \in Word /\ col(3) \in Word /\ col(4) \in Word
    BY <2>1 DEF Word
  <2> QED
    BY <2>2, <2>3, FourWords
<1>5. MixColumns(s) \in WordList(4)
  <2> DEFINE row(c, r) == Times2[s[c][r]] (+) Times3[s[c][(r % 4) + 1]]
                            (+) s[c][((r + 1) % 4) + 1] (+) s[c][((r + 2) % 4) + 1]
             col(c) == <<row(c, 1), row(c, 2), row(c, 3), row(c, 4)>>
  <2>1. \A x \in BYTE : Times2[x] \in BYTE /\ Times3[x] \in BYTE
    BY TimesOfBytes
  <2>2. \A c, r \in 1 .. 4 : row(c, r) \in BYTE
    <3> TAKE c, r \in 1 .. 4
    <3>1. (r % 4) + 1 \in 1 .. 4 /\ ((r + 1) % 4) + 1 \in 1 .. 4 /\ ((r + 2) % 4) + 1 \in 1 .. 4
      OBVIOUS
    <3>2. /\ s[c][r] \in BYTE /\ s[c][(r % 4) + 1] \in BYTE
          /\ s[c][((r + 1) % 4) + 1] \in BYTE /\ s[c][((r + 2) % 4) + 1] \in BYTE
      BY <1>3, <3>1
    <3> QED
      BY <2>1, <3>2, XorIsDifference
  <2>3. MixColumns(s) = <<col(1), col(2), col(3), col(4)>>
    BY DEF MixColumns, Columns
  <2> HIDE DEF row
  <2>4. col(1) \in Word /\ col(2) \in Word /\ col(3) \in Word /\ col(4) \in Word
    BY <2>2 DEF Word
  <2> QED
    BY <2>3, <2>4, FourWords
<1> QED
  BY <1>2, <1>4, <1>5

(***************************************************************************)
(* The round keys of a schedule.                                           *)
(***************************************************************************)
LEMMA RoundKeys ==
  ASSUME NEW Nk \in KeySizes, NEW key, NEW V \in Schedules(key, Nk, 3 * Nk + 28),
         NEW r \in 0 .. Nk + 6
  PROVE  /\ RoundKey(V, r) \in WordList(4)
         /\ RoundKey(V, r) = [c \in 1 .. 4 |-> V[4 * r + c]]
<1>1. Nk \in Nat /\ V \in [1 .. 4 * Nk + 28 -> Word]
  <2>1. Nk + (3 * Nk + 28) = 4 * Nk + 28 /\ Nk \in Nat
    BY DEF KeySizes
  <2> QED
    BY <2>1 DEF Schedules
<1>2. \A c \in 1 .. 4 : 4 * r + c \in 1 .. 4 * Nk + 28
  BY <1>1
<1>3. V[4 * r + 1] \in Word /\ V[4 * r + 2] \in Word /\ V[4 * r + 3] \in Word /\ V[4 * r + 4] \in Word
  BY <1>1, <1>2
<1>4. RoundKey(V, r) = <<V[4 * r + 1], V[4 * r + 2], V[4 * r + 3], V[4 * r + 4]>>
  BY DEF RoundKey, Columns
<1>5. RoundKey(V, r) \in WordList(4)
  BY <1>3, <1>4, FourWords
<1> DEFINE z == [c \in 1 .. 4 |-> V[4 * r + c]]
<1>6. z \in WordList(4)
  BY <1>1, <1>2 DEF WordList
<1>7. z = <<z[1], z[2], z[3], z[4]>>
  <2> HIDE DEF z
  <2> QED
    BY <1>6, FourWords
<1>8. z[1] = V[4 * r + 1] /\ z[2] = V[4 * r + 2] /\ z[3] = V[4 * r + 3] /\ z[4] = V[4 * r + 4]
  OBVIOUS
<1> HIDE DEF z
<1>9. RoundKey(V, r) = z
  BY <1>4, <1>7, <1>8
<1> QED
  BY <1>5, <1>9 DEF z

\* Round r of the cipher of Nr rounds, on a state, with the key words V.
CipherRoundOf(s, V, r, Nr) ==
    IF r < Nr THEN AddKey(MixColumns(SubShiftColumns(s)), RoundKey(V, r))
              ELSE AddKey(SubShiftColumns(s), RoundKey(V, r))

(***************************************************************************)
(* A round takes states to states.                                         *)
(***************************************************************************)
LEMMA RoundOfStates ==
  ASSUME NEW Nk \in KeySizes, NEW key, NEW V \in Schedules(key, Nk, 3 * Nk + 28),
         NEW r \in 0 .. Nk + 6, NEW s \in WordList(4)
  PROVE  /\ AddKey(s, RoundKey(V, r)) \in WordList(4)
         /\ CipherRoundOf(s, V, r, Nk + 6) \in WordList(4)
<1>1. RoundKey(V, r) \in WordList(4)
  BY RoundKeys
<1>2. SubShiftColumns(s) \in WordList(4)
  BY StateOperations
<1>3. MixColumns(SubShiftColumns(s)) \in WordList(4)
  BY <1>2, StateOperations
<1> QED
  BY <1>1, <1>2, <1>3, StateOperations DEF CipherRoundOf

(***************************************************************************)
(* The states of the standard: a recursion that has a solution, which they *)
(* therefore are.                                                          *)
(***************************************************************************)
LEMMA CipherStatesByRound ==
  ASSUME NEW Nk \in KeySizes, NEW key \in WordList(Nk), NEW text \in WordList(4)
  PROVE  LET s == CipherStates(key, text)
             V == KeyWords(key)
         IN  /\ s[0] = AddKey(text, RoundKey(V, 0))
             /\ \A r \in 1 .. Nk + 6 : s[r] = CipherRoundOf(s[r - 1], V, r, Nk + 6)
             /\ \A r \in 0 .. Nk + 6 : s[r] \in WordList(4)
<1> DEFINE V == KeyWords(key)
           N == Nk + 6
           start == AddKey(text, RoundKey(V, 0))
           At(s, r) == IF r = 0 THEN start
                       ELSE IF r < N THEN AddKey(MixColumns(SubShiftColumns(s[r - 1])), RoundKey(V, r))
                       ELSE AddKey(SubShiftColumns(s[r - 1]), RoundKey(V, r))
           Step(s) == [r \in 0 .. N |-> At(s, r)]
           chosen == CHOOSE s : s = Step(s)
           X == [r \in 0 .. N |-> WordList(4)]
           step == [r \in 1 .. N |-> [s \in WordList(4) |-> CipherRoundOf(s, V, r, N)]]
<1>1. N \in Nat /\ Nk \in Nat /\ 0 \in 0 .. N /\ N = Nk + 6
  BY DEF KeySizes
<1>2. Len(key) + 6 = N
  BY <1>1, Lists DEF WordList
<1>3. CipherStates(key, text) = chosen
  BY <1>2 DEF CipherStates
<1>4. V \in Schedules(key, Nk, 3 * Nk + 28)
  BY KeyWordsAreSchedule
<1> HIDE DEF V, N
<1>5. start \in WordList(4)
  BY <1>1, <1>4, RoundOfStates
<1> HIDE DEF start
<1>6. \A r \in 1 .. N : r \in 0 .. N /\ r - 1 \in 0 .. N /\ r # 0
  BY <1>1
<1>7. \A r \in 0 .. N : \A s \in WordList(4) : CipherRoundOf(s, V, r, N) \in WordList(4)
  BY <1>1, <1>4, RoundOfStates
<1>8. StepsWithin(step, X, N) /\ start \in X[0]
  BY <1>1, <1>5, <1>6, <1>7 DEF StepsWithin
<1> HIDE DEF X, step
<1>9. PICK f : IsRecursion(f, start, step, X, N)
  BY <1>1, <1>8, Recursion
<1>10. \A r \in 0 .. N : f[r] \in WordList(4)
  BY <1>9 DEF IsRecursion, X
<1>11. ASSUME NEW r \in 0 .. N
       PROVE  f[r] = At(f, r)
  <2>1. CASE r = 0
    BY <1>9, <2>1 DEF IsRecursion
  <2>2. CASE r # 0
    <3>1. r \in 1 .. N /\ r - 1 \in 0 .. N
      BY <1>1, <2>2
    <3>2. f[r - 1] \in WordList(4) /\ f[r] = step[r][f[r - 1]]
      BY <1>9, <1>10, <3>1 DEF IsRecursion
    <3> QED
      BY <2>2, <3>1, <3>2 DEF step, CipherRoundOf
  <2> QED
    BY <2>1, <2>2
<1>12. f = Step(f)
  <2>1. f = [r \in 0 .. N |-> f[r]]
    BY <1>9 DEF IsRecursion
  <2> HIDE DEF At
  <2> QED
    BY <1>11, <2>1
<1>13. chosen = Step(chosen)
  <2> HIDE DEF Step
  <2> QED
    BY <1>12
<1>14. \A r \in 0 .. N : chosen[r] = At(chosen, r)
  <2> HIDE DEF chosen, At
  <2> QED
    BY <1>13
<1> HIDE DEF chosen, Step
<1> DEFINE T == {r \in 0 .. N : chosen[r] = f[r]}
<1>15. 0 \in T
  BY <1>1, <1>11, <1>14
<1>16. ASSUME NEW r \in 1 .. N, r - 1 \in T
       PROVE  r \in T
  BY <1>6, <1>11, <1>14, <1>16
<1>17. \A r \in 0 .. N : chosen[r] = f[r]
  <2> HIDE DEF T
  <2>1. \A r \in 0 .. N : r \in T
    BY <1>1, <1>15, <1>16, UpTo
  <2> QED
    BY <2>1 DEF T
<1>18. \A r \in 0 .. N : chosen[r] \in WordList(4)
  BY <1>10, <1>17
<1>19. chosen[0] = start
  BY <1>1, <1>14
<1>20. \A r \in 1 .. N : chosen[r] = CipherRoundOf(chosen[r - 1], V, r, N)
  BY <1>6, <1>14 DEF CipherRoundOf
<1> QED
  BY <1>3, <1>18, <1>19, <1>20 DEF V, N, start

-----------------------------------------------------------------------------
\* One of the two and not both.
Odd(p1, p2) == ~ (p1 <=> p2)

(***************************************************************************)
(* The bits of a sum of five bytes.                                        *)
(***************************************************************************)
LEMMA BitsOfFive ==
  ASSUME NEW y1, NEW y2, NEW y3, NEW y4, NEW y5,
         y1 \in BYTE, y2 \in BYTE, y3 \in BYTE, y4 \in BYTE, y5 \in BYTE
  PROVE  /\ y1 (+) y2 (+) y3 (+) y4 (+) y5 \in BYTE
         /\ \A j \in 0 .. 7 : j \in Bits(y1 (+) y2 (+) y3 (+) y4 (+) y5) <=>
              Odd(Odd(Odd(Odd(j \in Bits(y1), j \in Bits(y2)), j \in Bits(y3)),
                      j \in Bits(y4)), j \in Bits(y5))
<1> DEFINE s2 == y1 (+) y2
           s3 == s2 (+) y3
           s4 == s3 (+) y4
           s5 == s4 (+) y5
<1>1. /\ s2 \in BYTE
      /\ \A j \in 0 .. 7 : j \in Bits(s2) <=> ~ (j \in Bits(y1) <=> j \in Bits(y2))
  BY XorIsDifference
<1> HIDE DEF s2
<1>2. /\ s3 \in BYTE
      /\ \A j \in 0 .. 7 : j \in Bits(s3) <=> ~ (j \in Bits(s2) <=> j \in Bits(y3))
  BY <1>1, XorIsDifference
<1> HIDE DEF s3
<1>3. /\ s4 \in BYTE
      /\ \A j \in 0 .. 7 : j \in Bits(s4) <=> ~ (j \in Bits(s3) <=> j \in Bits(y4))
  BY <1>2, XorIsDifference
<1> HIDE DEF s4
<1>4. /\ s5 \in BYTE
      /\ \A j \in 0 .. 7 : j \in Bits(s5) <=> ~ (j \in Bits(s4) <=> j \in Bits(y5))
  BY <1>3, XorIsDifference
<1> HIDE DEF s5
<1>5. \A j \in 0 .. 7 : j \in Bits(s5) <=>
        Odd(Odd(Odd(Odd(j \in Bits(y1), j \in Bits(y2)), j \in Bits(y3)),
                j \in Bits(y4)), j \in Bits(y5))
  BY <1>1, <1>2, <1>3, <1>4 DEF Odd
<1> QED
  BY <1>4, <1>5 DEF s2, s3, s4, s5

(***************************************************************************)
(* The four sums of a column, which aes.c starts with the key, and where   *)
(* the standard starts with another term each.                             *)
(***************************************************************************)
LEMMA SumOfFive ==
  ASSUME NEW z, NEW x1, NEW x2, NEW x3, NEW x4,
         z \in BYTE, x1 \in BYTE, x2 \in BYTE, x3 \in BYTE, x4 \in BYTE
  PROVE  LET sum == z (+) x1 (+) x2 (+) x3 (+) x4
         IN  /\ sum = (x1 (+) x2 (+) x3 (+) x4) (+) z
             /\ sum = (x2 (+) x3 (+) x4 (+) x1) (+) z
             /\ sum = (x3 (+) x4 (+) x1 (+) x2) (+) z
             /\ sum = (x4 (+) x1 (+) x2 (+) x3) (+) z
<1> DEFINE sum == z (+) x1 (+) x2 (+) x3 (+) x4
           t1 == x1 (+) x2 (+) x3 (+) x4
           t2 == x2 (+) x3 (+) x4 (+) x1
           t3 == x3 (+) x4 (+) x1 (+) x2
           t4 == x4 (+) x1 (+) x2 (+) x3
           In(x, j) == j \in Bits(x)
<1>1. /\ sum \in BYTE
      /\ \A j \in 0 .. 7 : In(sum, j) <=>
           Odd(Odd(Odd(Odd(In(z, j), In(x1, j)), In(x2, j)), In(x3, j)), In(x4, j))
  BY BitsOfFive
<1>3. /\ t1 (+) z \in BYTE
      /\ \A j \in 0 .. 7 : In(t1 (+) z, j) <=>
           Odd(Odd(Odd(Odd(In(x1, j), In(x2, j)), In(x3, j)), In(x4, j)), In(z, j))
  BY BitsOfFive
<1>4. /\ t2 (+) z \in BYTE
      /\ \A j \in 0 .. 7 : In(t2 (+) z, j) <=>
           Odd(Odd(Odd(Odd(In(x2, j), In(x3, j)), In(x4, j)), In(x1, j)), In(z, j))
  BY BitsOfFive
<1>5. /\ t3 (+) z \in BYTE
      /\ \A j \in 0 .. 7 : In(t3 (+) z, j) <=>
           Odd(Odd(Odd(Odd(In(x3, j), In(x4, j)), In(x1, j)), In(x2, j)), In(z, j))
  BY BitsOfFive
<1>6. /\ t4 (+) z \in BYTE
      /\ \A j \in 0 .. 7 : In(t4 (+) z, j) <=>
           Odd(Odd(Odd(Odd(In(x4, j), In(x1, j)), In(x2, j)), In(x3, j)), In(z, j))
  BY BitsOfFive
<1> HIDE DEF sum, t1, t2, t3, t4
<1>7. sum = t1 (+) z
  BY <1>1, <1>3, SameBits DEF Odd
<1>8. sum = t2 (+) z
  BY <1>1, <1>4, SameBits DEF Odd
<1>9. sum = t3 (+) z
  BY <1>1, <1>5, SameBits DEF Odd
<1>10. sum = t4 (+) z
  BY <1>1, <1>6, SameBits DEF Odd
<1> QED
  BY <1>7, <1>8, <1>9, <1>10 DEF sum, t1, t2, t3, t4

\* MixColumns of one column.
Mixed(v) == <<Times2[v[1]] (+) Times3[v[2]] (+) v[3] (+) v[4],
              Times2[v[2]] (+) Times3[v[3]] (+) v[4] (+) v[1],
              Times2[v[3]] (+) Times3[v[4]] (+) v[1] (+) v[2],
              Times2[v[4]] (+) Times3[v[1]] (+) v[2] (+) v[3]>>

\* SubBytes and ShiftRows of one column.
Shifted(s, c) == <<Sbox(s[((c - 1) % 4) + 1][1]), Sbox(s[(c % 4) + 1][2]),
                   Sbox(s[((c + 1) % 4) + 1][3]), Sbox(s[((c + 2) % 4) + 1][4])>>

(***************************************************************************)
(* The rounds of the standard, by columns.                                 *)
(***************************************************************************)
LEMMA ByColumns ==
  ASSUME NEW s \in WordList(4), NEW z \in WordList(4), NEW c \in 1 .. 4
  PROVE  /\ Shifted(s, c) \in Word
         /\ AddKey(SubShiftColumns(s), z)[c] = WordAdd(Shifted(s, c), z[c])
         /\ AddKey(MixColumns(SubShiftColumns(s)), z)[c] = WordAdd(Mixed(Shifted(s, c)), z[c])
<1>1. c = 1 \/ c = 2 \/ c = 3 \/ c = 4
  OBVIOUS
<1>2. \A t : /\ AddKey(t, z)[c] = WordAdd(t[c], z[c])
             /\ SubShiftColumns(t)[c] = <<Sbox(t[((c + 1 - 2) % 4) + 1][1]), Sbox(t[((c + 2 - 2) % 4) + 1][2]),
                   Sbox(t[((c + 3 - 2) % 4) + 1][3]), Sbox(t[((c + 4 - 2) % 4) + 1][4])>>
  BY <1>1 DEF AddKey, SubShiftColumns, Columns
<1>3. \A t : MixColumns(t)[c] = Mixed(t[c])
  <2> TAKE t
  <2> DEFINE row(v, r) == Times2[v[r]] (+) Times3[v[(r % 4) + 1]]
                            (+) v[((r + 1) % 4) + 1] (+) v[((r + 2) % 4) + 1]
             col(d) == <<row(t[d], 1), row(t[d], 2), row(t[d], 3), row(t[d], 4)>>
  <2>1. MixColumns(t) = <<col(1), col(2), col(3), col(4)>>
    BY DEF MixColumns, Columns
  <2>2. (1 % 4) + 1 = 2 /\ (2 % 4) + 1 = 3 /\ (3 % 4) + 1 = 4 /\ (4 % 4) + 1 = 1
    OBVIOUS
  <2>3. /\ ((1 + 1) % 4) + 1 = 3 /\ ((2 + 1) % 4) + 1 = 4 /\ ((3 + 1) % 4) + 1 = 1 /\ ((4 + 1) % 4) + 1 = 2
        /\ ((1 + 2) % 4) + 1 = 4 /\ ((2 + 2) % 4) + 1 = 1 /\ ((3 + 2) % 4) + 1 = 2 /\ ((4 + 2) % 4) + 1 = 3
    OBVIOUS
  <2>4. \A v : <<row(v, 1), row(v, 2), row(v, 3), row(v, 4)>> = Mixed(v)
    BY <2>2, <2>3 DEF Mixed
  <2> HIDE DEF row
  <2>5. MixColumns(t)[c] = col(c)
    BY <1>1, <2>1
  <2> QED
    BY <2>4, <2>5
<1>4. /\ c + 1 - 2 = c - 1 /\ c + 2 - 2 = c /\ c + 3 - 2 = c + 1 /\ c + 4 - 2 = c + 2
      /\ ((c - 1) % 4) + 1 \in 1 .. 4 /\ (c % 4) + 1 \in 1 .. 4
      /\ ((c + 1) % 4) + 1 \in 1 .. 4 /\ ((c + 2) % 4) + 1 \in 1 .. 4
  OBVIOUS
<1>5. SubShiftColumns(s)[c] = Shifted(s, c)
  BY <1>2, <1>4 DEF Shifted
<1>6. Shifted(s, c) \in Word
  <2>1. SubShiftColumns(s) \in WordList(4)
    BY StateOperations
  <2> QED
    BY <1>5, <2>1 DEF WordList
<1> QED
  BY <1>2, <1>3, <1>5, <1>6

(***************************************************************************)
(* What table_lookup, rot and the table make of the bytes a column of the  *)
(* next state comes from: MixColumns of their S-boxes, and with the mask   *)
(* of the last round the S-boxes alone.                                    *)
(***************************************************************************)
LEMMA LookupSums ==
  ASSUME NEW z, z \in Word,
         NEW b1, NEW b2, NEW b3, NEW b4, b1 \in BYTE, b2 \in BYTE, b3 \in BYTE, b4 \in BYTE
  PROVE  LET v == <<Sbox(b1), Sbox(b2), Sbox(b3), Sbox(b4)>> IN
         /\ z ++ rot_up_8(t0(b1)) ++ rot_16(t0(b2)) ++ rot_down_8(t0(b3)) ++ t0(b4) =
              WordAdd(Mixed(v), z)
         /\ z ++ only(t0(b1), 1) ++ only(t0(b2), 2) ++ only(rot_16(t0(b3)), 3)
              ++ only(rot_down_8(t0(b4)), 4) = WordAdd(v, z)
<1> DEFINE u1 == Sbox(b1) u2 == Sbox(b2) u3 == Sbox(b3) u4 == Sbox(b4)
           x1 == Times2[u1] x2 == Times2[u2] x3 == Times2[u3] x4 == Times2[u4]
           y1 == Times3[u1] y2 == Times3[u2] y3 == Times3[u3] y4 == Times3[u4]
<1>1. \A b \in BYTE : /\ Sbox(b) \in BYTE
                      /\ t0(b) = <<Sbox(b), Sbox(b), Times3[Sbox(b)], Times2[Sbox(b)]>>
  BY TableWords DEF Times2, Times3
<1>2. /\ u1 \in BYTE /\ u2 \in BYTE /\ u3 \in BYTE /\ u4 \in BYTE
  BY <1>1
<1>3. /\ t0(b1) = <<u1, u1, y1, x1>> /\ t0(b2) = <<u2, u2, y2, x2>>
      /\ t0(b3) = <<u3, u3, y3, x3>> /\ t0(b4) = <<u4, u4, y4, x4>>
  BY <1>1
<1> HIDE DEF u1, u2, u3, u4
<1>4. /\ x1 \in BYTE /\ x2 \in BYTE /\ x3 \in BYTE /\ x4 \in BYTE
      /\ y1 \in BYTE /\ y2 \in BYTE /\ y3 \in BYTE /\ y4 \in BYTE
  BY <1>2, TimesOfBytes
<1> HIDE DEF x1, x2, x3, x4, y1, y2, y3, y4
<1>5. z[1] \in BYTE /\ z[2] \in BYTE /\ z[3] \in BYTE /\ z[4] \in BYTE
  BY WordBytes
<1>6. z ++ rot_up_8(t0(b1)) ++ rot_16(t0(b2)) ++ rot_down_8(t0(b3)) ++ t0(b4) =
        <<z[1] (+) x1 (+) y2 (+) u3 (+) u4, z[2] (+) u1 (+) x2 (+) y3 (+) u4,
          z[3] (+) u1 (+) u2 (+) x3 (+) y4, z[4] (+) y1 (+) u2 (+) u3 (+) x4>>
  <2>1. /\ rot_up_8(t0(b1)) = <<x1, u1, u1, y1>> /\ rot_16(t0(b2)) = <<y2, x2, u2, u2>>
        /\ rot_down_8(t0(b3)) = <<u3, y3, x3, u3>>
    BY <1>3 DEF rot_up_8, rot_16, rot_down_8
  <2> QED
    BY <1>3, <2>1 DEF ++
<1>7. WordAdd(Mixed(<<u1, u2, u3, u4>>), z) =
        <<(x1 (+) y2 (+) u3 (+) u4) (+) z[1], (x2 (+) y3 (+) u4 (+) u1) (+) z[2],
          (x3 (+) y4 (+) u1 (+) u2) (+) z[3], (x4 (+) y1 (+) u2 (+) u3) (+) z[4]>>
  BY DEF WordAdd, Mixed, x1, x2, x3, x4, y1, y2, y3, y4
<1>8. /\ z[1] (+) x1 (+) y2 (+) u3 (+) u4 = (x1 (+) y2 (+) u3 (+) u4) (+) z[1]
      /\ z[2] (+) u1 (+) x2 (+) y3 (+) u4 = (x2 (+) y3 (+) u4 (+) u1) (+) z[2]
      /\ z[3] (+) u1 (+) u2 (+) x3 (+) y4 = (x3 (+) y4 (+) u1 (+) u2) (+) z[3]
      /\ z[4] (+) y1 (+) u2 (+) u3 (+) x4 = (x4 (+) y1 (+) u2 (+) u3) (+) z[4]
  BY <1>2, <1>4, <1>5, SumOfFive
<1>9. z ++ only(t0(b1), 1) ++ only(t0(b2), 2) ++ only(rot_16(t0(b3)), 3)
        ++ only(rot_down_8(t0(b4)), 4) =
      <<z[1] (+) u1 (+) 0 (+) 0 (+) 0, z[2] (+) 0 (+) u2 (+) 0 (+) 0,
        z[3] (+) 0 (+) 0 (+) u3 (+) 0, z[4] (+) 0 (+) 0 (+) 0 (+) u4>>
  <2>1. /\ only(t0(b1), 1) = <<u1, 0, 0, 0>> /\ only(t0(b2), 2) = <<0, u2, 0, 0>>
        /\ only(rot_16(t0(b3)), 3) = <<0, 0, u3, 0>>
        /\ only(rot_down_8(t0(b4)), 4) = <<0, 0, 0, u4>>
    BY <1>3 DEF only, rot_16, rot_down_8
  <2> QED
    BY <2>1 DEF ++
<1>10. \A x, y \in BYTE : x (+) y \in BYTE /\ x (+) 0 = x /\ x (+) y = y (+) x
  <2> TAKE x, y \in BYTE
  <2>1. x (+) y \in BYTE /\ y (+) x \in BYTE
    BY XorIsDifference
  <2>2. \A j \in 0 .. 7 : j \in Bits(x (+) y) <=> j \in Bits(y (+) x)
    BY XorIsDifference
  <2> QED
    BY <2>1, <2>2, SameBits, XorZero
<1>11. /\ z[1] (+) u1 (+) 0 (+) 0 (+) 0 = u1 (+) z[1] /\ z[2] (+) 0 (+) u2 (+) 0 (+) 0 = u2 (+) z[2]
       /\ z[3] (+) 0 (+) 0 (+) u3 (+) 0 = u3 (+) z[3] /\ z[4] (+) 0 (+) 0 (+) 0 (+) u4 = u4 (+) z[4]
  <2>1. /\ z[1] (+) u1 \in BYTE /\ z[2] (+) u2 \in BYTE /\ z[3] (+) u3 \in BYTE
        /\ z[1] (+) u1 = u1 (+) z[1] /\ z[2] (+) u2 = u2 (+) z[2]
        /\ z[3] (+) u3 = u3 (+) z[3] /\ z[4] (+) u4 = u4 (+) z[4]
    BY <1>2, <1>5, <1>10
  <2>2. z[2] (+) 0 = z[2] /\ z[3] (+) 0 = z[3] /\ z[4] (+) 0 = z[4]
    BY <1>5, <1>10
  <2>3. \A x \in BYTE : x (+) 0 = x
    BY XorZero
  <2> QED
    BY <2>1, <2>2, <2>3
<1>12. WordAdd(<<u1, u2, u3, u4>>, z) = <<u1 (+) z[1], u2 (+) z[2], u3 (+) z[3], u4 (+) z[4]>>
  BY DEF WordAdd
<1> QED
  BY <1>6, <1>7, <1>8, <1>9, <1>11, <1>12 DEF u1, u2, u3, u4

(***************************************************************************)
(* The rounds of aes.c are those of the standard, whichever way they are   *)
(* done.                                                                   *)
(***************************************************************************)
LEMMA GoldenRounds ==
  ASSUME state \in WordList(4), NEW z \in WordList(4)
  PROVE  /\ collect(z, [c \in 1 .. 4 |-> lookup(state[c])]) =
              AddKey(MixColumns(SubShiftColumns(state)), z)
         /\ collect(z, [c \in 1 .. 4 |-> masked(state[c])]) = AddKey(SubShiftColumns(state), z)
         /\ substitute(z) = AddKey(SubShiftColumns(state), z)
<1> DEFINE b(c, r) == state[((c + r - 2) % 4) + 1][r]
           L == [c \in 1 .. 4 |-> lookup(state[c])]
           M == [c \in 1 .. 4 |-> masked(state[c])]
<1>1. ASSUME NEW c \in 1 .. 4
      PROVE  /\ b(c, 1) \in BYTE /\ b(c, 2) \in BYTE /\ b(c, 3) \in BYTE /\ b(c, 4) \in BYTE
             /\ Shifted(state, c) = <<Sbox(b(c, 1)), Sbox(b(c, 2)), Sbox(b(c, 3)), Sbox(b(c, 4))>>
             /\ collect(z, L)[c] = z[c] ++ rot_up_8(t0(b(c, 1))) ++ rot_16(t0(b(c, 2)))
                                        ++ rot_down_8(t0(b(c, 3))) ++ t0(b(c, 4))
             /\ collect(z, M)[c] = z[c] ++ only(t0(b(c, 1)), 1) ++ only(t0(b(c, 2)), 2)
                                        ++ only(rot_16(t0(b(c, 3))), 3) ++ only(rot_down_8(t0(b(c, 4))), 4)
             /\ substitute(z)[c] = z[c] ++ <<S(b(c, 1)), S(b(c, 2)), S(b(c, 3)), S(b(c, 4))>>
  <2> DEFINE d1 == ((c - 1) % 4) + 1
             d2 == (c % 4) + 1
             d3 == ((c + 1) % 4) + 1
             d4 == ((c + 2) % 4) + 1
  <2>1. /\ d1 \in 1 .. 4 /\ d2 \in 1 .. 4 /\ d3 \in 1 .. 4 /\ d4 \in 1 .. 4
    OBVIOUS
  <2>2. /\ c + 1 - 2 = c - 1 /\ c + 2 - 2 = c /\ c + 3 - 2 = c + 1 /\ c + 4 - 2 = c + 2
        /\ c + 0 - 1 = c - 1 /\ c + 1 - 1 = c /\ c + 2 - 1 = c + 1 /\ c + 3 - 1 = c + 2
    OBVIOUS
  <2>3. /\ b(c, 1) = state[d1][1] /\ b(c, 2) = state[d2][2]
        /\ b(c, 3) = state[d3][3] /\ b(c, 4) = state[d4][4]
    BY <2>2
  <2>4. /\ state[d1][1] \in BYTE /\ state[d2][2] \in BYTE
        /\ state[d3][3] \in BYTE /\ state[d4][4] \in BYTE
    BY <2>1, WordBytes DEF WordList
  <2>5. Shifted(state, c) = <<Sbox(state[d1][1]), Sbox(state[d2][2]), Sbox(state[d3][3]), Sbox(state[d4][4])>>
    BY DEF Shifted
  <2>6. \A p0 : collect(z, p0)[c] = z[c] ++ p0[((c + 0 - 1) % 4) + 1][0 + 1] ++ p0[((c + 1 - 1) % 4) + 1][1 + 1]
                                 ++ p0[((c + 2 - 1) % 4) + 1][2 + 1] ++ p0[((c + 3 - 1) % 4) + 1][3 + 1]
    BY DEF collect
  <2>7. 0 + 1 = 1 /\ 1 + 1 = 2 /\ 2 + 1 = 3 /\ 3 + 1 = 4
    OBVIOUS
  <2>8. \A p0 : collect(z, p0)[c] = z[c] ++ p0[d1][1] ++ p0[d2][2] ++ p0[d3][3] ++ p0[d4][4]
    <3> TAKE p0
    <3>1. /\ p0[((c + 0 - 1) % 4) + 1][0 + 1] = p0[d1][1] /\ p0[((c + 1 - 1) % 4) + 1][1 + 1] = p0[d2][2]
          /\ p0[((c + 2 - 1) % 4) + 1][2 + 1] = p0[d3][3] /\ p0[((c + 3 - 1) % 4) + 1][3 + 1] = p0[d4][4]
      BY <2>2, <2>7
    <3> HIDE DEF d1, d2, d3, d4
    <3> QED
      BY <2>6, <3>1
  <2>9. substitute(z)[c] = z[c] ++ <<S(b(c, 1)), S(b(c, 2)), S(b(c, 3)), S(b(c, 4))>>
    BY DEF substitute
  <2> HIDE DEF d1, d2, d3, d4
  <2>10. /\ L[d1][1] = rot_up_8(t0(state[d1][1])) /\ L[d2][2] = rot_16(t0(state[d2][2]))
         /\ L[d3][3] = rot_down_8(t0(state[d3][3])) /\ L[d4][4] = t0(state[d4][4])
    BY <2>1 DEF lookup
  <2>11. /\ M[d1][1] = only(t0(state[d1][1]), 1) /\ M[d2][2] = only(t0(state[d2][2]), 2)
         /\ M[d3][3] = only(rot_16(t0(state[d3][3])), 3)
         /\ M[d4][4] = only(rot_down_8(t0(state[d4][4])), 4)
    BY <2>1 DEF masked
  <2> HIDE DEF L, M, b
  <2> QED
    BY <2>3, <2>4, <2>5, <2>8, <2>9, <2>10, <2>11
<1> HIDE DEF L, M
<1>2. ASSUME NEW c \in 1 .. 4
      PROVE  /\ collect(z, L)[c] = AddKey(MixColumns(SubShiftColumns(state)), z)[c]
             /\ collect(z, M)[c] = AddKey(SubShiftColumns(state), z)[c]
             /\ substitute(z)[c] = AddKey(SubShiftColumns(state), z)[c]
  <2> DEFINE b1 == b(c, 1)
             b2 == b(c, 2)
             b3 == b(c, 3)
             b4 == b(c, 4)
             v == Shifted(state, c)
             zc == z[c]
  <2>1. /\ b1 \in BYTE /\ b2 \in BYTE /\ b3 \in BYTE /\ b4 \in BYTE
        /\ v = <<Sbox(b1), Sbox(b2), Sbox(b3), Sbox(b4)>>
    BY <1>1
  <2>2. zc \in Word /\ v \in Word
    BY ByColumns DEF WordList
  <2>3. /\ AddKey(MixColumns(SubShiftColumns(state)), z)[c] = WordAdd(Mixed(v), zc)
        /\ AddKey(SubShiftColumns(state), z)[c] = WordAdd(v, zc)
    BY ByColumns
  <2>4. /\ collect(z, L)[c] = zc ++ rot_up_8(t0(b1)) ++ rot_16(t0(b2)) ++ rot_down_8(t0(b3)) ++ t0(b4)
        /\ collect(z, M)[c] = zc ++ only(t0(b1), 1) ++ only(t0(b2), 2)
                                ++ only(rot_16(t0(b3)), 3) ++ only(rot_down_8(t0(b4)), 4)
        /\ substitute(z)[c] = zc ++ <<S(b1), S(b2), S(b3), S(b4)>>
    BY <1>1
  <2> HIDE DEF b1, b2, b3, b4, v, zc
  <2>5. /\ collect(z, L)[c] = WordAdd(Mixed(v), zc)
        /\ collect(z, M)[c] = WordAdd(v, zc)
    BY <2>1, <2>2, <2>4, LookupSums
  <2>6. <<S(b1), S(b2), S(b3), S(b4)>> = v
    BY <2>1, TableWords
  <2>7. zc ++ v = WordAdd(v, zc)
    BY <2>2, WordOperations
  <2> QED
    BY <2>3, <2>4, <2>5, <2>6, <2>7
<1>3. AddKey(SubShiftColumns(state), z) \in WordList(4)
  BY StateOperations
<1>4. AddKey(MixColumns(SubShiftColumns(state)), z) \in WordList(4)
  <2>1. MixColumns(SubShiftColumns(state)) \in WordList(4)
    BY StateOperations
  <2> QED
    BY <2>1, StateOperations
<1>5. /\ collect(z, L) = [c \in 1 .. 4 |-> collect(z, L)[c]]
      /\ collect(z, M) = [c \in 1 .. 4 |-> collect(z, M)[c]]
      /\ substitute(z) = [c \in 1 .. 4 |-> substitute(z)[c]]
  BY DEF collect, substitute
<1>6. \A s \in WordList(4) : s = [c \in 1 .. 4 |-> s[c]]
  BY DEF WordList
<1>7. collect(z, L) = AddKey(MixColumns(SubShiftColumns(state)), z)
  BY <1>2, <1>4, <1>5, <1>6
<1>8. collect(z, M) = AddKey(SubShiftColumns(state), z)
  BY <1>2, <1>3, <1>5, <1>6
<1>9. substitute(z) = AddKey(SubShiftColumns(state), z)
  BY <1>2, <1>3, <1>5, <1>6
<1> QED
  BY <1>7, <1>8, <1>9 DEF L, M

-----------------------------------------------------------------------------
\* The registers hold the Nk words of the schedule before word n, each in the place
\* that its number has left when Nk divides it.
Holds(ks, Nk, n, V) ==
    /\ ks \in WordList(Nk)
    /\ \A m \in n - Nk .. n - 1 : ks[(m % Nk) + 1] = V[m + 1]

(***************************************************************************)
(* The place of a word, of the word before and of those in between.        *)
(***************************************************************************)
LEMMA RegisterPlaces ==
  ASSUME NEW Nk \in KeySizes, NEW n \in Nk .. 4 * Nk + 27
  PROVE  /\ n % Nk \in 0 .. Nk - 1
         /\ (n - Nk) % Nk = n % Nk
         /\ n % Nk = 0 => (n - 1) % Nk = Nk - 1
         /\ n % Nk # 0 => (n - 1) % Nk = (n % Nk) - 1
         /\ \A m \in n + 1 - Nk .. n - 1 : m % Nk # n % Nk /\ m % Nk \in 0 .. Nk - 1
<1>1. CASE Nk = 4
  BY <1>1
<1>2. CASE Nk = 6
  BY <1>2
<1>3. CASE Nk = 8
  BY <1>3
<1> QED
  BY <1>1, <1>2, <1>3 DEF KeySizes

(***************************************************************************)
(* An update of aes.c writes the next word of the schedule over the oldest *)
(* one in the registers.                                                   *)
(***************************************************************************)
LEMMA UpdateHolds ==
  ASSUME NEW Nk \in KeySizes, NEW key, NEW V \in Schedules(key, Nk, 3 * Nk + 28),
         NEW n \in Nk .. 4 * Nk + 27, NEW ks, Holds(ks, Nk, n, V),
         n % Nk = 0 => rcon = RoundConstant[n \div Nk]
  PROVE  Holds(update(ks, n % Nk), Nk, n + 1, V)
<1> DEFINE j == n % Nk
           v == V[n]
           old == V[n - Nk + 1]
           added == CASE j = 0 -> sub_byte(rot_down_8(ks[Nk])) ++ <<rcon, 0, 0, 0>>
                      [] j = 4 /\ Nk = 8 -> sub_byte(ks[4])
                      [] OTHER -> ks[j]
           new == [ks EXCEPT ![j + 1] = @ ++ added]
<1>1. Nk \in Nat /\ Nk >= 4 /\ n \in Nat /\ ks \in WordList(Nk) /\ Len(ks) = Nk
  <2>1. Nk \in Nat /\ Nk >= 4 /\ n \in Nat /\ ks \in WordList(Nk)
    BY DEF KeySizes, Holds
  <2> QED
    BY <2>1, Lists DEF WordList
<1>2. /\ j \in 0 .. Nk - 1 /\ (n - Nk) % Nk = j
      /\ j = 0 => (n - 1) % Nk = Nk - 1
      /\ j # 0 => (n - 1) % Nk = j - 1
      /\ \A m \in n + 1 - Nk .. n - 1 : m % Nk # j /\ m % Nk \in 0 .. Nk - 1
  BY RegisterPlaces
<1>3. update(ks, n % Nk) = new
  BY <1>1 DEF update
<1>4. v \in Word /\ old \in Word /\ V[n + 1] = WordAdd(old, Temp(v, n, Nk))
  <2>1. V \in [1 .. Nk + (3 * Nk + 28) -> Word] /\ Nk + (3 * Nk + 28) = 4 * Nk + 28
    BY <1>1 DEF Schedules
  <2>2. n \in 1 .. 4 * Nk + 28 /\ n - Nk + 1 \in 1 .. 4 * Nk + 28
    BY <1>1
  <2>3. n \in Nk .. Nk + (3 * Nk + 28) - 1
    BY <1>1
  <2> QED
    BY <2>1, <2>2, <2>3 DEF Schedules
<1>5. ks[j + 1] = old
  <2>1. n - Nk \in n - Nk .. n - 1
    BY <1>1
  <2> QED
    BY <1>2, <2>1 DEF Holds
<1>6. /\ j = 0 => ks[Nk] = v
      /\ j # 0 => ks[j] = v
  <2>1. n - 1 \in n - Nk .. n - 1 /\ (n - 1) + 1 = n
    BY <1>1
  <2>2. ks[((n - 1) % Nk) + 1] = v
    BY <2>1 DEF Holds
  <2>3. (Nk - 1) + 1 = Nk /\ (j - 1) + 1 = j
    BY <1>1, <1>2
  <2> QED
    BY <1>2, <2>2, <2>3
<1> HIDE DEF v, old
<1>7. added = Temp(v, n, Nk)
  <2>1. CASE j = 0
    <3>1. rcon = RoundConstant[n \div Nk] /\ n \div Nk \in 1 .. 10
      BY <1>4, <2>1, TempIsWord
    <3>2. <<rcon, 0, 0, 0>> \in Word
      BY <3>1, RoundConstants
    <3>3. rot_down_8(v) = RotWord(v) /\ RotWord(v) \in Word
      BY <1>4, WordOperations
    <3>4. sub_byte(RotWord(v)) = SubWord(RotWord(v)) /\ SubWord(RotWord(v)) \in Word
      BY <3>3, WordOperations
    <3>5. SubWord(RotWord(v)) ++ <<rcon, 0, 0, 0>> = WordAdd(SubWord(RotWord(v)), <<rcon, 0, 0, 0>>)
      BY <3>2, <3>4, WordOperations
    <3>6. Temp(v, n, Nk) = WordAdd(SubWord(RotWord(v)), <<rcon, 0, 0, 0>>)
      BY <2>1, <3>1 DEF Temp
    <3>7. added = sub_byte(rot_down_8(v)) ++ <<rcon, 0, 0, 0>>
      BY <1>6, <2>1
    <3> QED
      BY <3>3, <3>4, <3>5, <3>6, <3>7
  <2>2. CASE j = 4 /\ Nk = 8
    <3>1. added = sub_byte(v)
      BY <1>6, <2>2
    <3>2. Temp(v, n, Nk) = SubWord(v)
      BY <2>2 DEF Temp
    <3> QED
      BY <1>4, <3>1, <3>2, WordOperations
  <2>3. CASE j # 0 /\ ~ (j = 4 /\ Nk = 8)
    <3>1. added = v
      BY <1>6, <2>3
    <3>2. ~ (Nk > 6 /\ j = 4)
      BY <2>3 DEF KeySizes
    <3>3. Temp(v, n, Nk) = v
      BY <2>3, <3>2 DEF Temp
    <3> QED
      BY <3>1, <3>3
  <2> QED
    BY <2>1, <2>2, <2>3
<1> HIDE DEF added
<1>8. Temp(v, n, Nk) \in Word
  BY <1>4, TempIsWord
<1>9. old ++ added = V[n + 1] /\ V[n + 1] \in Word
  BY <1>4, <1>7, <1>8, WordOperations
<1>10. j + 1 \in 1 .. Nk
  BY <1>1, <1>2
<1>11. new \in WordList(Nk) /\ new[j + 1] = V[n + 1]
  BY <1>1, <1>5, <1>9, <1>10 DEF WordList
<1>12. \A x \in 1 .. Nk : x # j + 1 => new[x] = ks[x]
  BY <1>1 DEF WordList
<1> HIDE DEF new
<1>13. ASSUME NEW m \in (n + 1) - Nk .. (n + 1) - 1
       PROVE  new[(m % Nk) + 1] = V[m + 1]
  <2>1. CASE m = n
    BY <1>11, <2>1
  <2>2. CASE m # n
    <3>1. m \in n + 1 - Nk .. n - 1 /\ m \in n - Nk .. n - 1
      BY <1>1, <2>2
    <3>2. m % Nk # j /\ m % Nk \in 0 .. Nk - 1
      BY <1>2, <3>1
    <3> HIDE DEF j
    <3>3. (m % Nk) + 1 \in 1 .. Nk /\ (m % Nk) + 1 # j + 1
      BY <1>1, <1>2, <3>2
    <3>4. ks[(m % Nk) + 1] = V[m + 1]
      BY <3>1 DEF Holds
    <3> QED
      BY <1>12, <3>3, <3>4
  <2> QED
    BY <2>1, <2>2
<1>14. Holds(new, Nk, n + 1, V)
  <2>1. \A m \in (n + 1) - Nk .. (n + 1) - 1 : new[(m % Nk) + 1] = V[m + 1]
    BY <1>13
  <2>2. new \in WordList(Nk)
    BY <1>11
  <2> HIDE DEF j
  <2> QED
    BY <2>1, <2>2, Zenon DEF Holds
<1> QED
  BY <1>3, <1>14

\* The first word that round r has to compute, and how many there are.
FirstNew(f, r) == IF r = 1 THEN KeySize(f) ELSE 4 * r

NewWords(f, r) == (4 * r + 4) - FirstNew(f, r)

\* Which round constant the next word that takes one takes.
RconIndex(f, r) ==
    CASE f = "192" -> r - (r \div 3)
      [] f = "256" -> (r + 1) \div 2
      [] OTHER -> r

(***************************************************************************)
(* The functions and their numbers of rounds.                              *)
(***************************************************************************)
LEMMA FunctionSizes ==
  ASSUME NEW f \in Functions
  PROVE  /\ KeySize(f) \in KeySizes /\ nr[f] = KeySize(f) + 6
         /\ f = "192" => KeySize(f) = 6 /\ nr[f] = 12
         /\ f = "256" => KeySize(f) = 8 /\ nr[f] = 14
         /\ f # "192" /\ f # "256" => KeySize(f) = 4 /\ nr[f] = 10
<1>1. /\ f = "192" => KeySize(f) = 6
      /\ f = "256" => KeySize(f) = 8
      /\ f # "192" /\ f # "256" => KeySize(f) = 4
  BY DEF KeySize
<1>2. nr[f] = CASE f = "192" -> 12 [] f = "256" -> 14 [] OTHER -> 10
  BY DEF nr
<1>3. /\ f = "192" => nr[f] = 12
      /\ f = "256" => nr[f] = 14
      /\ f # "192" /\ f # "256" => nr[f] = 10
  BY <1>2
<1> QED
  BY <1>1, <1>3 DEF KeySizes

(***************************************************************************)
(* The registers a round brings up to date are the places of the words it  *)
(* has to compute, in their order, and the ones it uses those of the round *)
(* key.                                                                    *)
(***************************************************************************)
LEMMA UpdatesInOrder ==
  ASSUME NEW f \in Functions, NEW r \in 1 .. nr[f]
  PROVE  /\ Len(updates(f, r)) = NewWords(f, r)
         /\ \A m \in 1 .. NewWords(f, r) :
              updates(f, r)[m] = (FirstNew(f, r) + (m - 1)) % KeySize(f)
         /\ \A c \in 1 .. 4 : used(f, r)[c] = (4 * r + (c - 1)) % KeySize(f)
<1>1. \A m \in 1 .. 4 : m = 1 \/ m = 2 \/ m = 3 \/ m = 4
  OBVIOUS
<1>2. CASE f = "192"
  <2>1. KeySize(f) = 6 /\ r \in 1 .. 12
    BY <1>2, FunctionSizes
  <2>2. /\ r % 3 = 0 => (4 * r) % 6 = 0 /\ (4 * r + 1) % 6 = 1 /\ (4 * r + 2) % 6 = 2 /\ (4 * r + 3) % 6 = 3
        /\ r % 3 = 1 => (4 * r) % 6 = 4 /\ (4 * r + 1) % 6 = 5 /\ (4 * r + 2) % 6 = 0 /\ (4 * r + 3) % 6 = 1
        /\ r % 3 = 2 => (4 * r) % 6 = 2 /\ (4 * r + 1) % 6 = 3 /\ (4 * r + 2) % 6 = 4 /\ (4 * r + 3) % 6 = 5
        /\ r % 3 = 0 \/ r % 3 = 1 \/ r % 3 = 2
    BY <2>1
  <2>3. /\ used(f, r) = used_192(r)
        /\ r % 3 = 0 => used_192(r) = <<0, 1, 2, 3>>
        /\ r % 3 = 1 => used_192(r) = <<4, 5, 0, 1>>
        /\ r % 3 = 2 => used_192(r) = <<2, 3, 4, 5>>
    BY <1>2 DEF used, used_192
  <2>4. \A c \in 1 .. 4 : used(f, r)[c] = (4 * r + (c - 1)) % 6
    <3>1. /\ 4 * r + (1 - 1) = 4 * r /\ 4 * r + (2 - 1) = 4 * r + 1
          /\ 4 * r + (3 - 1) = 4 * r + 2 /\ 4 * r + (4 - 1) = 4 * r + 3
      BY <2>1
    <3>2. /\ used(f, r)[1] = (4 * r) % 6 /\ used(f, r)[2] = (4 * r + 1) % 6
          /\ used(f, r)[3] = (4 * r + 2) % 6 /\ used(f, r)[4] = (4 * r + 3) % 6
      BY <2>2, <2>3
    <3> QED
      BY <1>1, <3>1, <3>2
  <2>5. CASE r = 1
    <3>1. FirstNew(f, r) = 6 /\ NewWords(f, r) = 2 /\ updates(f, r) = <<0, 1>>
      BY <1>2, <2>1, <2>5 DEF FirstNew, NewWords, updates
    <3>2. \A m \in 1 .. 2 : m = 1 \/ m = 2
      OBVIOUS
    <3>3. (6 + (1 - 1)) % 6 = 0 /\ (6 + (2 - 1)) % 6 = 1
      OBVIOUS
    <3> QED
      BY <2>1, <2>4, <3>1, <3>2, <3>3
  <2>6. CASE r # 1
    <3>1. FirstNew(f, r) = 4 * r /\ NewWords(f, r) = 4 /\ updates(f, r) = used(f, r)
      BY <1>2, <2>1, <2>6 DEF FirstNew, NewWords, updates
    <3>2. Len(used(f, r)) = 4
      BY <2>2, <2>3
    <3> QED
      BY <2>1, <2>4, <3>1, <3>2
  <2> QED
    BY <2>5, <2>6
<1>3. CASE f = "256"
  <2>1. KeySize(f) = 8 /\ r \in 1 .. 14
    BY <1>3, FunctionSizes
  <2>2. /\ r % 2 = 0 => (4 * r) % 8 = 0 /\ (4 * r + 1) % 8 = 1 /\ (4 * r + 2) % 8 = 2 /\ (4 * r + 3) % 8 = 3
        /\ r % 2 = 1 => (4 * r) % 8 = 4 /\ (4 * r + 1) % 8 = 5 /\ (4 * r + 2) % 8 = 6 /\ (4 * r + 3) % 8 = 7
        /\ r % 2 = 0 \/ r % 2 = 1
    BY <2>1
  <2>3. /\ used(f, r) = used_256(r)
        /\ r % 2 = 0 => used_256(r) = <<0, 1, 2, 3>>
        /\ r % 2 = 1 => used_256(r) = <<4, 5, 6, 7>>
    BY <1>3 DEF used, used_256
  <2>4. \A c \in 1 .. 4 : used(f, r)[c] = (4 * r + (c - 1)) % 8
    <3>1. /\ 4 * r + (1 - 1) = 4 * r /\ 4 * r + (2 - 1) = 4 * r + 1
          /\ 4 * r + (3 - 1) = 4 * r + 2 /\ 4 * r + (4 - 1) = 4 * r + 3
      BY <2>1
    <3>2. /\ used(f, r)[1] = (4 * r) % 8 /\ used(f, r)[2] = (4 * r + 1) % 8
          /\ used(f, r)[3] = (4 * r + 2) % 8 /\ used(f, r)[4] = (4 * r + 3) % 8
      BY <2>2, <2>3
    <3> QED
      BY <1>1, <3>1, <3>2
  <2>5. CASE r = 1
    <3>1. FirstNew(f, r) = 8 /\ NewWords(f, r) = 0 /\ updates(f, r) = << >>
      BY <1>3, <2>1, <2>5 DEF FirstNew, NewWords, updates
    <3> QED
      BY <2>1, <2>4, <3>1
  <2>6. CASE r # 1
    <3>1. FirstNew(f, r) = 4 * r /\ NewWords(f, r) = 4 /\ updates(f, r) = used(f, r)
      BY <1>3, <2>1, <2>6 DEF FirstNew, NewWords, updates
    <3>2. Len(used(f, r)) = 4
      BY <2>2, <2>3
    <3> QED
      BY <2>1, <2>4, <3>1, <3>2
  <2> QED
    BY <2>5, <2>6
<1>4. CASE f # "192" /\ f # "256"
  <2>1. KeySize(f) = 4 /\ r \in 1 .. 10
    BY <1>4, FunctionSizes
  <2>2. (4 * r) % 4 = 0 /\ (4 * r + 1) % 4 = 1 /\ (4 * r + 2) % 4 = 2 /\ (4 * r + 3) % 4 = 3
    BY <2>1
  <2>3. used(f, r) = <<0, 1, 2, 3>> /\ updates(f, r) = <<0, 1, 2, 3>>
    BY <1>4 DEF used, updates
  <2>4. FirstNew(f, r) = 4 * r /\ NewWords(f, r) = 4
    BY <2>1 DEF FirstNew, NewWords
  <2>5. \A c \in 1 .. 4 : <<0, 1, 2, 3>>[c] = (4 * r + (c - 1)) % 4
    <3>1. /\ 4 * r + (1 - 1) = 4 * r /\ 4 * r + (2 - 1) = 4 * r + 1
          /\ 4 * r + (3 - 1) = 4 * r + 2 /\ 4 * r + (4 - 1) = 4 * r + 3
      BY <2>1
    <3> QED
      BY <1>1, <2>2, <3>1
  <2> QED
    BY <2>1, <2>3, <2>4, <2>5
<1> QED
  BY <1>2, <1>3, <1>4

(***************************************************************************)
(* The words a round computes are words of the schedule, and at most one   *)
(* of them takes a round constant, the one that is next.                   *)
(***************************************************************************)
LEMMA ConstantsInOrder ==
  ASSUME NEW f \in Functions, NEW r \in 1 .. nr[f]
  PROVE  /\ FirstNew(f, r) \in KeySize(f) .. 4 * r + 4
         /\ NewWords(f, r) \in 0 .. 4
         /\ 4 * r + 3 =< 4 * KeySize(f) + 27
         /\ RconIndex(f, r) \in 1 .. 10
         /\ r < nr[f] => FirstNew(f, r + 1) = 4 * r + 4
         /\ \A n \in FirstNew(f, r) .. 4 * r + 3 :
              n % KeySize(f) = 0 => /\ n \div KeySize(f) = RconIndex(f, r)
                                    /\ r < nr[f] => RconIndex(f, r + 1) = RconIndex(f, r) + 1
         /\ (\A n \in FirstNew(f, r) .. 4 * r + 3 : n % KeySize(f) # 0) =>
              RconIndex(f, r + 1) = RconIndex(f, r)
<1>1. CASE f = "192"
  <2>1. KeySize(f) = 6 /\ nr[f] = 12 /\ r \in 1 .. 12
    BY <1>1, FunctionSizes
  <2>2. /\ RconIndex(f, r) = r - (r \div 3) /\ RconIndex(f, r + 1) = (r + 1) - ((r + 1) \div 3)
        /\ FirstNew(f, r) = IF r = 1 THEN 6 ELSE 4 * r
        /\ FirstNew(f, r + 1) = 4 * r + 4
    BY <1>1, <2>1 DEF RconIndex, FirstNew
  <2>3. FirstNew(f, r) \in 6 .. 4 * r + 4 /\ NewWords(f, r) \in 0 .. 4
    BY <2>1, <2>2 DEF NewWords
  <2>4. \A n \in FirstNew(f, r) .. 4 * r + 3 :
          n % 6 = 0 => /\ n \div 6 = r - (r \div 3)
                       /\ (r + 1) - ((r + 1) \div 3) = r - (r \div 3) + 1
    BY <2>1, <2>2
  <2>5. (\A n \in FirstNew(f, r) .. 4 * r + 3 : n % 6 # 0) =>
          (r + 1) - ((r + 1) \div 3) = r - (r \div 3)
    <3>1. r % 3 # 2 => (4 * r) % 6 = 0 \/ (4 * r + 2) % 6 = 0
      BY <2>1
    <3>2. r % 3 = 2 => (r + 1) - ((r + 1) \div 3) = r - (r \div 3)
      BY <2>1
    <3>3. r = 1 => 6 \in FirstNew(f, r) .. 4 * r + 3 /\ 6 % 6 = 0
      BY <2>2
    <3>4. r # 1 => /\ 4 * r \in FirstNew(f, r) .. 4 * r + 3
                   /\ 4 * r + 2 \in FirstNew(f, r) .. 4 * r + 3
      BY <2>1, <2>2
    <3> QED
      BY <3>1, <3>2, <3>3, <3>4
  <2>6. r - (r \div 3) \in 1 .. 10
    BY <2>1
  <2> QED
    BY <2>1, <2>2, <2>3, <2>4, <2>5, <2>6
<1>2. CASE f = "256"
  <2>1. KeySize(f) = 8 /\ nr[f] = 14 /\ r \in 1 .. 14
    BY <1>2, FunctionSizes
  <2>2. /\ RconIndex(f, r) = (r + 1) \div 2 /\ RconIndex(f, r + 1) = ((r + 1) + 1) \div 2
        /\ FirstNew(f, r) = IF r = 1 THEN 8 ELSE 4 * r
        /\ FirstNew(f, r + 1) = 4 * r + 4
    BY <1>2, <2>1 DEF RconIndex, FirstNew
  <2>3. FirstNew(f, r) \in 8 .. 4 * r + 4 /\ NewWords(f, r) \in 0 .. 4
    BY <2>1, <2>2 DEF NewWords
  <2>4. \A n \in FirstNew(f, r) .. 4 * r + 3 :
          n % 8 = 0 => /\ n \div 8 = (r + 1) \div 2
                       /\ ((r + 1) + 1) \div 2 = ((r + 1) \div 2) + 1
    BY <2>1, <2>2
  <2>5. (\A n \in FirstNew(f, r) .. 4 * r + 3 : n % 8 # 0) =>
          ((r + 1) + 1) \div 2 = (r + 1) \div 2
    <3>1. r % 2 = 0 => (4 * r) % 8 = 0 /\ r # 1
      BY <2>1
    <3>2. r % 2 = 1 => ((r + 1) + 1) \div 2 = (r + 1) \div 2
      BY <2>1
    <3>3. r # 1 => 4 * r \in FirstNew(f, r) .. 4 * r + 3
      BY <2>1, <2>2
    <3>4. r % 2 = 0 \/ r % 2 = 1
      BY <2>1
    <3> QED
      BY <3>1, <3>2, <3>3, <3>4
  <2>6. (r + 1) \div 2 \in 1 .. 10
    BY <2>1
  <2> QED
    BY <2>1, <2>2, <2>3, <2>4, <2>5, <2>6
<1>3. CASE f # "192" /\ f # "256"
  <2>1. KeySize(f) = 4 /\ nr[f] = 10 /\ r \in 1 .. 10
    BY <1>3, FunctionSizes
  <2>2. /\ RconIndex(f, r) = r /\ RconIndex(f, r + 1) = r + 1
        /\ FirstNew(f, r) = 4 * r /\ FirstNew(f, r + 1) = 4 * r + 4
    BY <1>3, <2>1 DEF RconIndex, FirstNew
  <2>3. FirstNew(f, r) \in 4 .. 4 * r + 4 /\ NewWords(f, r) \in 0 .. 4
    BY <2>1, <2>2 DEF NewWords
  <2>4. \A n \in FirstNew(f, r) .. 4 * r + 3 : n % 4 = 0 => n \div 4 = r
    BY <2>1, <2>2
  <2>5. 4 * r \in FirstNew(f, r) .. 4 * r + 3 /\ (4 * r) % 4 = 0
    BY <2>1, <2>2
  <2> QED
    BY <2>1, <2>2, <2>3, <2>4, <2>5
<1> QED
  BY <1>1, <1>2, <1>3

\* What holds of the registers and of the constant at the head of round i, with V
\* the schedule of the key.
KeyState(key, V) ==
    /\ fn \in Functions
    /\ i \in 1 .. nr[fn]
    /\ V \in Schedules(key, KeySize(fn), 3 * KeySize(fn) + 28)
    /\ Holds(k, KeySize(fn), FirstNew(fn, i), V)
    /\ rcon = RoundConstant[RconIndex(fn, i)]

(***************************************************************************)
(* The updates of a round, a recursion that has a solution, leave the      *)
(* words up to the round key in the registers.                             *)
(***************************************************************************)
LEMMA ExpandedHolds ==
  ASSUME NEW key, NEW V, KeyState(key, V)
  PROVE  Holds(expanded, KeySize(fn), 4 * i + 4, V)
<1> DEFINE js == updates(fn, i)
           Nk == KeySize(fn)
           N == Len(js)
           first == FirstNew(fn, i)
           Step(f) == [n \in 0 .. N |-> IF n = 0 THEN k ELSE update(f[n - 1], js[n])]
           chosen == CHOOSE f : f = Step(f)
           X == [n \in 0 .. N |-> {ks \in WordList(Nk) : Holds(ks, Nk, first + n, V)}]
           step == [n \in 1 .. N |-> [ks \in X[n - 1] |-> update(ks, js[n])]]
<1>1. /\ fn \in Functions /\ i \in 1 .. nr[fn] /\ Nk \in KeySizes /\ i \in Nat
      /\ V \in Schedules(key, Nk, 3 * Nk + 28)
      /\ Holds(k, Nk, first, V) /\ k \in WordList(Nk)
      /\ rcon = RoundConstant[RconIndex(fn, i)]
  <2>1. fn \in Functions
    BY DEF KeyState
  <2>2. nr[fn] \in Nat /\ Nk \in KeySizes
    BY <2>1, FunctionSizes DEF KeySizes
  <2> QED
    BY <2>1, <2>2 DEF KeyState, Holds
<1>2. expanded = chosen[N]
  BY DEF expanded
<1>3. /\ N = (4 * i + 4) - first /\ N \in 0 .. 4 /\ first \in Nk .. 4 * i + 4
      /\ 4 * i + 3 =< 4 * Nk + 27
      /\ \A m \in 1 .. N : js[m] = (first + (m - 1)) % Nk
      /\ \A n \in first .. 4 * i + 3 : n % Nk = 0 => n \div Nk = RconIndex(fn, i)
  BY <1>1, ConstantsInOrder, UpdatesInOrder DEF NewWords
<1>4. Nk \in Nat /\ first \in Nat /\ N \in Nat /\ 0 \in 0 .. N /\ N \in 0 .. N /\ first + N = 4 * i + 4
  <2>1. Nk \in Nat
    BY <1>1 DEF KeySizes
  <2> HIDE DEF first, N, Nk
  <2> QED
    BY <1>1, <1>3, <2>1
<1> HIDE DEF js, Nk, first, N
<1>5. ASSUME NEW n \in 1 .. N, NEW ks \in WordList(Nk), Holds(ks, Nk, first + (n - 1), V)
      PROVE  /\ update(ks, js[n]) \in WordList(Nk)
             /\ Holds(update(ks, js[n]), Nk, first + n, V)
  <2> DEFINE m == first + (n - 1)
  <2>1. m \in first .. 4 * i + 3 /\ m \in Nk .. 4 * Nk + 27 /\ m + 1 = first + n
    BY <1>1, <1>3, <1>4
  <2>2. js[n] = m % Nk
    BY <1>3
  <2>3. m % Nk = 0 => m \div Nk = RconIndex(fn, i)
    BY <1>3, <2>1
  <2>4. Holds(ks, Nk, m, V)
    BY <1>5
  <2> HIDE DEF m
  <2>5. m % Nk = 0 => rcon = RoundConstant[m \div Nk]
    BY <1>1, <2>3
  <2>6. Holds(update(ks, m % Nk), Nk, m + 1, V)
    BY <1>1, <2>1, <2>4, <2>5, UpdateHolds
  <2> QED
    BY <2>1, <2>2, <2>6 DEF Holds
<1>6. \A n \in 1 .. N : n \in 0 .. N /\ n - 1 \in 0 .. N /\ n # 0
  BY <1>4
<1>7. first + 0 = first
  BY <1>4
<1>8. k \in X[0]
  BY <1>1, <1>4, <1>7
<1>9. StepsWithin(step, X, N)
  <2>1. ASSUME NEW n \in 1 .. N, NEW ks \in X[n - 1]
        PROVE  step[n][ks] \in X[n]
    <3>1. ks \in WordList(Nk) /\ Holds(ks, Nk, first + (n - 1), V)
      BY <1>6
    <3>2. step[n][ks] = update(ks, js[n])
      OBVIOUS
    <3> HIDE DEF step
    <3> QED
      BY <1>5, <1>6, <3>1, <3>2
  <2> HIDE DEF step, X
  <2> QED
    BY <2>1 DEF StepsWithin
<1> HIDE DEF X, step
<1>10. PICK f : IsRecursion(f, k, step, X, N)
  BY <1>4, <1>8, <1>9, Recursion
<1>11. ASSUME NEW n \in 0 .. N
       PROVE  f[n] = IF n = 0 THEN k ELSE update(f[n - 1], js[n])
  <2>1. CASE n = 0
    BY <1>10, <2>1 DEF IsRecursion
  <2>2. CASE n # 0
    <3>1. n \in 1 .. N /\ n - 1 \in 0 .. N
      BY <1>4, <2>2
    <3>2. f[n - 1] \in X[n - 1] /\ f[n] = step[n][f[n - 1]]
      BY <1>10, <3>1 DEF IsRecursion
    <3> QED
      BY <2>2, <3>1, <3>2 DEF step
  <2> QED
    BY <2>1, <2>2
<1>12. f = Step(f)
  <2>1. f = [n \in 0 .. N |-> f[n]]
    BY <1>10 DEF IsRecursion
  <2> QED
    BY <1>11, <2>1
<1>13. chosen = Step(chosen)
  <2> HIDE DEF Step
  <2> QED
    BY <1>12
<1>14. \A n \in 0 .. N : chosen[n] = IF n = 0 THEN k ELSE update(chosen[n - 1], js[n])
  <2> HIDE DEF chosen
  <2> QED
    BY <1>13
<1> HIDE DEF chosen, Step
<1> DEFINE T == {n \in 0 .. N : chosen[n] = f[n]}
<1>15. 0 \in T
  BY <1>4, <1>11, <1>14
<1>16. ASSUME NEW n \in 1 .. N, n - 1 \in T
       PROVE  n \in T
  BY <1>6, <1>11, <1>14, <1>16
<1>17. chosen[N] = f[N]
  <2> HIDE DEF T
  <2>1. \A n \in 0 .. N : n \in T
    BY <1>4, <1>15, <1>16, UpTo
  <2> QED
    BY <1>4, <2>1 DEF T
<1>18. f[N] \in X[N]
  BY <1>4, <1>10 DEF IsRecursion
<1>19. Holds(f[N], Nk, first + N, V)
  BY <1>4, <1>18 DEF X
<1>20. Holds(expanded, Nk, 4 * i + 4, V)
  BY <1>2, <1>4, <1>17, <1>19
<1> QED
  BY <1>20 DEF Nk

(***************************************************************************)
(* The registers that are used are the round key of the standard.          *)
(***************************************************************************)
LEMMA UsedIsRoundKey ==
  ASSUME NEW key, NEW V, KeyState(key, V)
  PROVE  round_key = RoundKey(V, i) /\ RoundKey(V, i) \in WordList(4)
<1> DEFINE Nk == KeySize(fn)
           ks == expanded
<1>1. /\ fn \in Functions /\ i \in 1 .. nr[fn] /\ Nk \in KeySizes /\ nr[fn] = Nk + 6
      /\ V \in Schedules(key, Nk, 3 * Nk + 28)
  BY FunctionSizes DEF KeyState
<1>2. Nk \in Nat /\ i \in Nat /\ i \in 0 .. Nk + 6 /\ Nk >= 4
  <2>1. Nk \in Nat /\ Nk >= 4
    BY <1>1 DEF KeySizes
  <2> HIDE DEF Nk
  <2> QED
    BY <1>1, <2>1
<1>3. Holds(ks, Nk, 4 * i + 4, V)
  BY ExpandedHolds
<1>4. \A c \in 1 .. 4 : used(fn, i)[c] = (4 * i + (c - 1)) % Nk
  BY <1>1, UpdatesInOrder
<1>5. round_key = [c \in 1 .. 4 |-> ks[used(fn, i)[c] + 1]]
  BY DEF round_key
<1> HIDE DEF Nk, ks
<1>6. ASSUME NEW c \in 1 .. 4
      PROVE  ks[used(fn, i)[c] + 1] = V[4 * i + c]
  <2> DEFINE m == 4 * i + (c - 1)
  <2>1. m \in (4 * i + 4) - Nk .. (4 * i + 4) - 1 /\ m + 1 = 4 * i + c
    BY <1>2
  <2> HIDE DEF m
  <2>2. ks[(m % Nk) + 1] = V[m + 1]
    BY <1>3, <2>1 DEF Holds
  <2>3. used(fn, i)[c] = m % Nk
    BY <1>4 DEF m
  <2> QED
    BY <2>1, <2>2, <2>3
<1>7. RoundKey(V, i) \in WordList(4) /\ RoundKey(V, i) = [c \in 1 .. 4 |-> V[4 * i + c]]
  BY <1>1, <1>2, RoundKeys
<1> QED
  BY <1>5, <1>6, <1>7

-----------------------------------------------------------------------------
(***************************************************************************)
(* The next constant: aes.c doubles it with a reduction that takes a char  *)
(* to be signed, which only the step from 80 asks for.                     *)
(***************************************************************************)
LEMMA NextConstant ==
  ASSUME NEW m \in 1 .. 9, SignedChar \/ m =< 7
  PROVE  rcon_next(RoundConstant[m]) = RoundConstant[m + 1]
<1>1. \A rc : rcon_next(rc) =
        ((2 * (IF SignedChar /\ rc >= 128 THEN rc - 256 ELSE rc)) % 256) (+)
          (IF 2 * (IF SignedChar /\ rc >= 128 THEN rc - 256 ELSE rc) < 0 THEN 27
           ELSE (2 * (IF SignedChar /\ rc >= 128 THEN rc - 256 ELSE rc)) \div 256)
  BY DEF rcon_next
<1>2. /\ \A rc \in {1, 2, 4, 8, 16, 32, 64, 27} : rcon_next(rc) = (2 * rc) (+) 0
      /\ SignedChar => rcon_next(128) = 0 (+) 27
  <2>1. ASSUME NEW rc \in {1, 2, 4, 8, 16, 32, 64, 27}
        PROVE  rcon_next(rc) = (2 * rc) (+) 0
    <3>1. /\ (IF SignedChar /\ rc >= 128 THEN rc - 256 ELSE rc) = rc
          /\ (2 * rc) % 256 = 2 * rc /\ ~ (2 * rc < 0) /\ (2 * rc) \div 256 = 0
      OBVIOUS
    <3> QED
      BY <1>1, <3>1
  <2>2. ASSUME SignedChar
        PROVE  rcon_next(128) = 0 (+) 27
    <3>1. /\ (IF SignedChar /\ 128 >= 128 THEN 128 - 256 ELSE 128) = -128
          /\ (2 * (-128)) % 256 = 0 /\ 2 * (-128) < 0
      BY <2>2
    <3> QED
      BY <1>1, <3>1
  <2> QED
    BY <2>1, <2>2
<1>3. \A x \in {2, 4, 8, 16, 32, 64, 128, 54, 27} : x (+) 0 = x /\ 0 (+) x = x
  BY XorZero DEF BYTE
<1>4. \A rc \in {1, 2, 4, 8, 16, 32, 64, 27} : 2 * rc \in {2, 4, 8, 16, 32, 64, 128, 54, 27}
  OBVIOUS
<1>5. /\ rcon_next(1) = 2 /\ rcon_next(2) = 4 /\ rcon_next(4) = 8 /\ rcon_next(8) = 16
      /\ rcon_next(16) = 32 /\ rcon_next(32) = 64 /\ rcon_next(64) = 128 /\ rcon_next(27) = 54
      /\ SignedChar => rcon_next(128) = 27
  BY <1>2, <1>3, <1>4
<1>6. m \in {1, 2, 3, 4, 5, 6, 7, 8, 9}
  OBVIOUS
<1>7. rcon_next(Constants[m]) = Constants[m + 1]
  BY <1>5, <1>6 DEF Constants
<1>8. m \in 1 .. 10 /\ m + 1 \in 1 .. 10
  OBVIOUS
<1> QED
  BY <1>7, <1>8, RoundConstants

\* What the compiler has to do for the function that is called.
CharWillDo == SignedChar \/ fn \in {"192", "256"}

(***************************************************************************)
(* StepKey keeps the registers and the constant what they have to be.      *)
(***************************************************************************)
LEMMA StepKeyKeeps ==
  ASSUME NEW key, NEW V, KeyState(key, V), CharWillDo, i < nr[fn], StepKey,
         i' = i + 1, fn' = fn
  PROVE  KeyState(key, V)'
<1> DEFINE Nk == KeySize(fn)
           zero == Q!Contains(updates(fn, i), 0)
           x == RconIndex(fn, i)
           y == RconIndex(fn, i + 1)
<1>1. /\ fn \in Functions /\ i \in 1 .. nr[fn] /\ V \in Schedules(key, Nk, 3 * Nk + 28)
      /\ rcon = RoundConstant[x]
      /\ Nk \in KeySizes /\ nr[fn] = Nk + 6 /\ nr[fn] \in Nat
  <2>1. fn \in Functions
    BY DEF KeyState
  <2>2. Nk \in KeySizes /\ nr[fn] = Nk + 6 /\ nr[fn] \in Nat
    BY <2>1, FunctionSizes DEF KeySizes
  <2> QED
    BY <2>1, <2>2 DEF KeyState
<1>2. i \in Nat /\ i + 1 \in 1 .. nr[fn]
  BY <1>1
<1>3. /\ FirstNew(fn, i + 1) = 4 * i + 4
      /\ x \in 1 .. 10 /\ y \in 1 .. 10
      /\ \A n \in FirstNew(fn, i) .. 4 * i + 3 : n % Nk = 0 => y = x + 1
      /\ (\A n \in FirstNew(fn, i) .. 4 * i + 3 : n % Nk # 0) => y = x
  BY <1>1, <1>2, ConstantsInOrder
<1>4. fn \in {"192", "256"} => y =< 8
  <2>1. CASE fn = "192"
    <3>1. i + 1 \in 1 .. 12 /\ y = (i + 1) - ((i + 1) \div 3)
      BY <1>1, <1>2, <2>1, FunctionSizes DEF RconIndex
    <3> HIDE DEF y
    <3> QED
      BY <1>2, <3>1
  <2>2. CASE fn = "256"
    <3>1. i + 1 \in 1 .. 14 /\ y = ((i + 1) + 1) \div 2
      BY <1>1, <1>2, <2>2, FunctionSizes DEF RconIndex
    <3> HIDE DEF y
    <3> QED
      BY <1>2, <3>1
  <2> QED
    BY <2>1, <2>2
<1>5. zero <=> \E n \in FirstNew(fn, i) .. 4 * i + 3 : n % Nk = 0
  <2> DEFINE js == updates(fn, i)
             first == FirstNew(fn, i)
  <2>1. /\ Len(js) = (4 * i + 4) - first /\ first \in Nk .. 4 * i + 4
        /\ \A m \in 1 .. Len(js) : js[m] = (first + (m - 1)) % Nk
    BY <1>1, UpdatesInOrder, ConstantsInOrder DEF NewWords
  <2>2. zero <=> \E m \in 1 .. Len(js) : js[m] = 0
    BY DEF Q!Contains
  <2>3. Nk \in Nat /\ first \in Nat
    <3>1. Nk \in Nat
      BY <1>1 DEF KeySizes
    <3> HIDE DEF first, Nk
    <3> QED
      BY <1>2, <2>1, <3>1
  <2> HIDE DEF js, first, Nk, zero
  <2>4. ASSUME NEW m \in 1 .. Len(js), js[m] = 0
        PROVE  \E n \in first .. 4 * i + 3 : n % Nk = 0
    <3>1. first + (m - 1) \in first .. 4 * i + 3 /\ (first + (m - 1)) % Nk = 0
      BY <1>2, <2>1, <2>3, <2>4
    <3> QED
      BY <3>1
  <2>5. ASSUME NEW n \in first .. 4 * i + 3, n % Nk = 0
        PROVE  \E m \in 1 .. Len(js) : js[m] = 0
    <3> DEFINE m == n - first + 1
    <3>1. m \in 1 .. Len(js) /\ first + (m - 1) = n
      BY <1>2, <2>1, <2>3
    <3> HIDE DEF m
    <3>2. js[m] = 0
      BY <2>1, <2>5, <3>1
    <3> QED
      BY <3>1, <3>2
  <2> QED
    BY <2>2, <2>4, <2>5 DEF first
<1>6. k' = expanded /\ rcon' = IF zero THEN rcon_next(rcon) ELSE rcon
  BY DEF StepKey
<1>7. Holds(k', Nk, 4 * i + 4, V)
  BY <1>6, ExpandedHolds
<1>8. rcon' = RoundConstant[y]
  <2> HIDE DEF x, y, zero, Nk
  <2>1. CASE zero
    <3>1. y = x + 1
      BY <1>3, <1>5, <2>1
    <3>2. x \in 1 .. 9 /\ (SignedChar \/ x =< 7)
      BY <1>3, <1>4, <3>1 DEF CharWillDo
    <3>3. rcon_next(RoundConstant[x]) = RoundConstant[x + 1]
      BY <3>2, NextConstant
    <3> QED
      BY <1>1, <1>6, <2>1, <3>1, <3>3
  <2>2. CASE ~zero
    BY <1>1, <1>3, <1>5, <1>6, <2>2
  <2> QED
    BY <2>1, <2>2
<1> QED
  <2>1. /\ fn' \in Functions /\ i' \in 1 .. nr[fn']
        /\ V \in Schedules(key, KeySize(fn'), 3 * KeySize(fn') + 28)
    BY <1>1, <1>2
  <2>2. FirstNew(fn', i') = 4 * i + 4 /\ KeySize(fn') = Nk
    BY <1>3
  <2>3. rcon' = RoundConstant[RconIndex(fn', i')]
    BY <1>8
  <2>4. Holds(k', KeySize(fn'), FirstNew(fn', i'), V)
    BY <1>7, <2>2
  <2> QED
    BY <2>1, <2>3, <2>4 DEF KeyState

-----------------------------------------------------------------------------
\* The inductive invariant of the functions of aes.c.
GoldenInv ==
    /\ call \in Calls
    /\ fn = call.fn
    /\ i \in 1 .. nr[fn] + 1
    /\ CharWillDo =>
         /\ state = StatesOf[call][i - 1]
         /\ i =< nr[fn] => KeyState(call.key, WordsOf[call])

(***************************************************************************)
(* A call of a function gives it a key and a text of its size.             *)
(***************************************************************************)
LEMMA CallSizes ==
  ASSUME NEW c \in Calls
  PROVE  /\ c.fn \in Functions /\ KeySize(c.fn) \in KeySizes
         /\ nr[c.fn] = KeySize(c.fn) + 6 /\ nr[c.fn] \in Nat /\ nr[c.fn] >= 1
         /\ c.key \in WordList(KeySize(c.fn)) /\ c.text \in WordList(4)
         /\ WordsOf[c] = KeyWords(c.key) /\ StatesOf[c] = CipherStates(c.key, c.text)
         /\ KeyWords(c.key) \in Schedules(c.key, KeySize(c.fn), 3 * KeySize(c.fn) + 28)
<1>1. c.fn \in Functions /\ c.key \in WordList(KeySize(c.fn)) /\ c.text \in WordList(4)
  BY GoldenConstants DEF WordList
<1>2. KeySize(c.fn) \in KeySizes /\ nr[c.fn] = KeySize(c.fn) + 6
  BY <1>1, FunctionSizes
<1>3. nr[c.fn] \in Nat /\ nr[c.fn] >= 1
  BY <1>2 DEF KeySizes
<1>4. WordsOf[c] = KeyWords(c.key) /\ StatesOf[c] = CipherStates(c.key, c.text)
  BY DEF WordsOf, StatesOf
<1>5. KeyWords(c.key) \in Schedules(c.key, KeySize(c.fn), 3 * KeySize(c.fn) + 28)
  BY <1>1, <1>2, KeyWordsAreSchedule
<1> QED
  BY <1>1, <1>2, <1>3, <1>4, <1>5

(***************************************************************************)
(* The key itself is the first of the registers' windows.                  *)
(***************************************************************************)
LEMMA KeyHolds ==
  ASSUME NEW Nk \in KeySizes, NEW key \in WordList(Nk),
         NEW V \in Schedules(key, Nk, 3 * Nk + 28)
  PROVE  /\ Holds(key, Nk, Nk, V)
         /\ RoundKey(V, 0) = [c \in 1 .. 4 |-> key[c]]
<1>1. Nk \in Nat /\ Nk >= 4 /\ Nk - Nk = 0
  BY DEF KeySizes
<1>2. \A j \in 1 .. Nk : V[j] = key[j]
  BY DEF Schedules
<1>3. \A m \in 0 .. Nk - 1 : m % Nk = m /\ m + 1 \in 1 .. Nk
  <2>1. CASE Nk = 4
    BY <2>1
  <2>2. CASE Nk = 6
    BY <2>2
  <2>3. CASE Nk = 8
    BY <2>3
  <2> QED
    BY <2>1, <2>2, <2>3 DEF KeySizes
<1>4. Holds(key, Nk, Nk, V)
  <2>1. \A m \in Nk - Nk .. Nk - 1 : key[(m % Nk) + 1] = V[m + 1]
    BY <1>1, <1>2, <1>3
  <2> QED
    BY <2>1 DEF Holds
<1>5. RoundKey(V, 0) = [c \in 1 .. 4 |-> V[4 * 0 + c]]
  <2>1. 0 \in 0 .. Nk + 6
    BY <1>1
  <2> QED
    BY <2>1, RoundKeys
<1>6. \A c \in 1 .. 4 : c \in 1 .. Nk /\ 4 * 0 + c = c
  BY <1>1
<1> QED
  BY <1>2, <1>4, <1>5, <1>6

(***************************************************************************)
(* A function is called with the first round key added to the text.        *)
(***************************************************************************)
LEMMA GoldenInvInit == GoldenInit => GoldenInv
<1> SUFFICES ASSUME GoldenInit
             PROVE  GoldenInv
  OBVIOUS
<1>1. PICK c \in Calls :
        /\ call = c /\ fn = c.fn /\ k = c.key
        /\ state = [n \in 1 .. 4 |-> c.text[n] ++ c.key[n]]
        /\ rcon = 1 /\ i = 1
  BY DEF GoldenInit
<1> DEFINE Nk == KeySize(c.fn)
           V == KeyWords(c.key)
<1>2. /\ c.fn \in Functions /\ Nk \in KeySizes /\ nr[c.fn] = Nk + 6
      /\ nr[c.fn] \in Nat /\ nr[c.fn] >= 1
      /\ c.key \in WordList(Nk) /\ c.text \in WordList(4)
      /\ WordsOf[c] = V /\ StatesOf[c] = CipherStates(c.key, c.text)
      /\ V \in Schedules(c.key, Nk, 3 * Nk + 28)
  BY CallSizes
<1>3. 1 \in 1 .. nr[c.fn] /\ 1 \in 1 .. nr[c.fn] + 1 /\ 1 - 1 = 0
  BY <1>2
<1>4. Holds(c.key, Nk, Nk, V) /\ RoundKey(V, 0) = [n \in 1 .. 4 |-> c.key[n]]
  BY <1>2, KeyHolds
<1>5. RconIndex(c.fn, 1) = 1 /\ RoundConstant[1] = 1 /\ FirstNew(c.fn, 1) = Nk
  <2>1. RoundConstant[1] = 1
    BY RoundConstants DEF Constants
  <2>2. 1 - (1 \div 3) = 1 /\ (1 + 1) \div 2 = 1
    OBVIOUS
  <2>3. RconIndex(c.fn, 1) = 1
    BY <2>2 DEF RconIndex
  <2> QED
    BY <2>1, <2>3 DEF FirstNew
<1>6. KeyState(c.key, V)
  BY <1>1, <1>2, <1>3, <1>4, <1>5 DEF KeyState
<1>7. state = StatesOf[c][0]
  <2>1. CipherStates(c.key, c.text)[0] = AddKey(c.text, RoundKey(V, 0))
    BY <1>2, CipherStatesByRound
  <2>2. RoundKey(V, 0) \in WordList(4)
    <3>1. 0 \in 0 .. Nk + 6
      BY <1>2
    <3> QED
      BY <1>2, <3>1, RoundKeys
  <2> DEFINE z == RoundKey(V, 0)
             t == AddKey(c.text, z)
  <2>3. t \in WordList(4)
    BY <1>2, <2>2, StateOperations
  <2>4. \A n \in 1 .. 4 : t[n] = WordAdd(c.text[n], z[n])
    <3>1. t = <<WordAdd(c.text[1], z[1]), WordAdd(c.text[2], z[2]),
                WordAdd(c.text[3], z[3]), WordAdd(c.text[4], z[4])>>
      BY DEF AddKey, Columns
    <3>2. \A n \in 1 .. 4 : n = 1 \/ n = 2 \/ n = 3 \/ n = 4
      OBVIOUS
    <3> HIDE DEF z, t
    <3> QED
      BY <3>1, <3>2
  <2>5. \A n \in 1 .. 4 : z[n] = c.key[n]
    BY <1>4
  <2> HIDE DEF z, t
  <2>6. \A n \in 1 .. 4 : c.text[n] ++ c.key[n] = t[n]
    BY <2>4, <2>5 DEF ++, WordAdd
  <2>7. t = [n \in 1 .. 4 |-> t[n]]
    BY <2>3 DEF WordList
  <2>8. state = t
    BY <1>1, <2>6, <2>7
  <2> QED
    BY <1>2, <2>1, <2>8 DEF t, z
<1> HIDE DEF V
<1> QED
  BY <1>1, <1>2, <1>3, <1>6, <1>7 DEF GoldenInv

(***************************************************************************)
(* Every round keeps the invariant: the round key is in the registers, and *)
(* the state goes from that of the standard to its next.                   *)
(***************************************************************************)
LEMMA GoldenInvStep == GoldenInv /\ [GoldenNext]_goldenVars => GoldenInv'
<1> SUFFICES ASSUME GoldenInv, [GoldenNext]_goldenVars
             PROVE  GoldenInv'
  OBVIOUS
<1>1. CASE UNCHANGED goldenVars
  BY <1>1 DEF goldenVars, GoldenInv, CharWillDo, KeyState
<1>2. CASE GoldenNext
  <2> DEFINE Nk == KeySize(fn)
             V == WordsOf[call]
             s == StatesOf[call]
             r == round_key
  <2>1. /\ i =< nr[fn] /\ i' = i + 1 /\ fn' = fn /\ call' = call /\ StepKey
    <3>1. nr[fn] \in Nat /\ i \in Nat
      BY CallSizes DEF GoldenInv
    <3>2. i < nr[fn] \/ i = nr[fn]
      BY <1>2 DEF GoldenNext, Round, LastRound
    <3>3. i' = i + 1 /\ fn' = fn /\ call' = call /\ StepKey
      BY <1>2 DEF GoldenNext, Round, LastRound
    <3> QED
      BY <3>1, <3>2, <3>3
  <2>2. /\ call \in Calls /\ fn = call.fn
        /\ Nk \in KeySizes /\ nr[fn] = Nk + 6 /\ nr[fn] \in Nat
        /\ call.key \in WordList(Nk) /\ call.text \in WordList(4)
        /\ V = KeyWords(call.key) /\ s = CipherStates(call.key, call.text)
    BY CallSizes DEF GoldenInv
  <2>3. i \in 1 .. nr[fn] /\ i + 1 \in 1 .. nr[fn] + 1 /\ (i + 1) - 1 = i /\ i - 1 \in 0 .. Nk + 6
    BY <2>1, <2>2 DEF GoldenInv
  <2> HIDE DEF Nk, V, s, r
  <2>4. ASSUME CharWillDo
        PROVE  /\ state' = s[i]
               /\ i + 1 =< nr[fn] => KeyState(call.key, V)'
    <3>1. KeyState(call.key, V) /\ state = s[i - 1]
      BY <2>1, <2>4 DEF GoldenInv, V, s
    <3>2. r = RoundKey(V, i) /\ r \in WordList(4)
      BY <3>1, UsedIsRoundKey DEF r
    <3>3. /\ s[i] = CipherRoundOf(s[i - 1], V, i, nr[fn])
          /\ state \in WordList(4)
      BY <2>2, <2>3, <3>1, CipherStatesByRound
    <3>4. /\ collect(r, [c \in 1 .. 4 |-> lookup(state[c])]) =
               AddKey(MixColumns(SubShiftColumns(state)), r)
          /\ collect(r, [c \in 1 .. 4 |-> masked(state[c])]) = AddKey(SubShiftColumns(state), r)
          /\ substitute(r) = AddKey(SubShiftColumns(state), r)
      BY <3>2, <3>3, GoldenRounds
    <3>5. CASE Round
      <4>1. state' = collect(r, [c \in 1 .. 4 |-> lookup(state[c])]) /\ i < nr[fn]
        BY <3>5 DEF Round, r
      <4>2. s[i] = AddKey(MixColumns(SubShiftColumns(state)), r)
        BY <3>1, <3>2, <3>3, <4>1 DEF CipherRoundOf
      <4>3. KeyState(call.key, V)'
        <5>1. ASSUME NEW key, NEW W, KeyState(key, W)
              PROVE  KeyState(key, W)'
          BY <2>1, <2>4, <4>1, <5>1, StepKeyKeeps
        <5>2. PICK key, W : key = call.key /\ W = V
          OBVIOUS
        <5>3. KeyState(key, W)
          BY <3>1, <5>2
        <5>4. KeyState(key, W)'
          BY <5>1, <5>3
        <5>5. call.key' = call.key /\ V' = V
          BY <2>1 DEF V
        <5> QED
          BY <5>2, <5>4, <5>5 DEF KeyState
      <4> QED
        BY <3>4, <4>1, <4>2, <4>3
    <3>6. CASE LastRound
      <4>1. i = nr[fn] /\ ~ (i + 1 =< nr[fn]) /\ ~ (i < nr[fn])
        <5>1. i = nr[fn]
          BY <3>6 DEF LastRound
        <5> QED
          BY <2>2, <5>1
      <4>2. \/ state' = collect(r, [c \in 1 .. 4 |-> masked(state[c])])
            \/ state' = substitute(r)
        BY <3>6, Zenon DEF LastRound, r
      <4>3. s[i] = AddKey(SubShiftColumns(state), r)
        BY <3>1, <3>2, <3>3, <4>1 DEF CipherRoundOf
      <4> QED
        BY <3>4, <4>1, <4>2, <4>3
    <3> QED
      BY <1>2, <3>5, <3>6 DEF GoldenNext
  <2>5. CharWillDo' => CharWillDo
    BY <2>1 DEF CharWillDo
  <2>6. /\ call' \in Calls /\ fn' = call'.fn /\ i' \in 1 .. nr[fn'] + 1
    BY <2>1, <2>2, <2>3
  <2>7. CharWillDo' => /\ state' = StatesOf[call'][i' - 1]
                       /\ i' =< nr[fn'] => KeyState(call.key, WordsOf[call])'
    BY <2>1, <2>3, <2>4, <2>5 DEF s, V
  <2> QED
    BY <2>6, <2>7 DEF GoldenInv
<1> QED
  BY <1>1, <1>2

(***************************************************************************)
(* The invariant holds of the functions of aes.c as they run next to the   *)
(* script.                                                                 *)
(***************************************************************************)
LEMMA GoldenInvariant == SoftwareSpec => []GoldenInv
<1>1. SoftwareInit => GoldenInv
  BY GoldenInvInit DEF SoftwareInit
<1>2. GoldenInv /\ [GoldenNext /\ Py!CipherNext]_softwareVars => GoldenInv'
  <2>1. [GoldenNext /\ Py!CipherNext]_softwareVars => [GoldenNext]_goldenVars
    BY DEF softwareVars
  <2> QED
    BY <2>1, GoldenInvStep
<1> QED
  BY <1>1, <1>2, PTL DEF SoftwareSpec

(***************************************************************************)
(* The invariant says what the properties ask for.                         *)
(***************************************************************************)
LEMMA GoldenInvSuffices ==
  ASSUME GoldenInv, CharWillDo
  PROVE  StatesOfTheStandard /\ RoundKeysOfTheStandard /\ RconIsReduced
<1>1. StatesOfTheStandard
  BY DEF GoldenInv, StatesOfTheStandard
<1>2. ASSUME ~Returned
      PROVE  i =< nr[fn] /\ KeyState(call.key, WordsOf[call])
  <2>1. nr[fn] \in Nat /\ i \in Nat
    BY CallSizes DEF GoldenInv
  <2>2. i =< nr[fn]
    BY <1>2, <2>1 DEF Returned
  <2> QED
    BY <2>2 DEF GoldenInv
<1>3. RoundKeysOfTheStandard
  BY <1>2, UsedIsRoundKey DEF RoundKeysOfTheStandard
<1>4. RconIsReduced
  <2> SUFFICES ASSUME ~Returned, Q!Contains(updates(fn, i), 0)
               PROVE  rcon = RoundConstant[CASE fn = "192" -> i - (i \div 3)
                                             [] fn = "256" -> i \div 2
                                             [] OTHER -> i]
    BY DEF RconIsReduced
  <2>1. /\ rcon = RoundConstant[RconIndex(fn, i)] /\ i \in 1 .. nr[fn] /\ fn \in Functions
    BY <1>2 DEF KeyState
  <2>2. i \in Nat
    BY <2>1
  <2>3. CASE fn = "192"
    BY <2>1, <2>3 DEF RconIndex
  <2>4. CASE fn = "256"
    <3>1. i % 2 = 0
      <4>1. \E m \in 1 .. Len(updates(fn, i)) : updates(fn, i)[m] = 0
        BY DEF Q!Contains
      <4>2. CASE i = 1
        <5>1. updates(fn, i) = << >>
          BY <2>4, <4>2 DEF updates
        <5> QED
          BY <4>1, <5>1
      <4>3. CASE i # 1 /\ i % 2 # 0
        <5>1. updates(fn, i) = <<4, 5, 6, 7>>
          BY <2>4, <4>3 DEF updates, used, used_256
        <5> QED
          BY <4>1, <5>1
      <4> QED
        BY <4>2, <4>3
    <3>2. (i + 1) \div 2 = i \div 2
      BY <2>2, <3>1
    <3> QED
      BY <2>1, <2>4, <3>2 DEF RconIndex
  <2>5. CASE fn # "192" /\ fn # "256"
    BY <2>1, <2>5 DEF RconIndex
  <2> QED
    BY <2>3, <2>4, <2>5
<1> QED
  BY <1>1, <1>3, <1>4

(***************************************************************************)
(* The state of every function of aes.c is that of the standard after      *)
(* every round, for every key and text, when char is signed.               *)
(***************************************************************************)
THEOREM StatesOfTheStandardCorrect ==
  ASSUME SignedChar
  PROVE  SoftwareSpec => []StatesOfTheStandard
<1>1. GoldenInv => StatesOfTheStandard
  BY GoldenInvSuffices DEF CharWillDo
<1> QED
  BY <1>1, GoldenInvariant, PTL

(***************************************************************************)
(* Its registers hold the round key of the standard when it is used.       *)
(***************************************************************************)
THEOREM RoundKeysOfTheStandardCorrect ==
  ASSUME SignedChar
  PROVE  SoftwareSpec => []RoundKeysOfTheStandard
<1>1. GoldenInv => RoundKeysOfTheStandard
  BY GoldenInvSuffices DEF CharWillDo
<1> QED
  BY <1>1, GoldenInvariant, PTL

(***************************************************************************)
(* Its round constant is the power of x of the standard.                   *)
(***************************************************************************)
THEOREM RconIsReducedCorrect ==
  ASSUME SignedChar
  PROVE  SoftwareSpec => []RconIsReduced
<1>1. GoldenInv => RconIsReduced
  BY GoldenInvSuffices DEF CharWillDo
<1> QED
  BY <1>1, GoldenInvariant, PTL

(***************************************************************************)
(* The functions for 192 and 256 bits are those of the standard also where *)
(* char is not signed: they have done before the constant is 80.           *)
(***************************************************************************)
THEOREM LongKeysWhateverTheChar ==
  SoftwareSpec => [](fn \in {"192", "256"} =>
                       StatesOfTheStandard /\ RoundKeysOfTheStandard /\ RconIsReduced)
<1>1. GoldenInv => (fn \in {"192", "256"} =>
                      StatesOfTheStandard /\ RoundKeysOfTheStandard /\ RconIsReduced)
  BY GoldenInvSuffices DEF CharWillDo
<1> QED
  BY <1>1, GoldenInvariant, PTL

-----------------------------------------------------------------------------
\* The double of a byte, as aes.py has it.
Doubled(x) == IF x >= 128 THEN ((2 * x) % 256) (+) 27 ELSE 2 * x

\* The state of aes.py that holds the columns of s, and the other way around.
Rows(s) == [r \in 1 .. 4 |-> [c \in 1 .. 4 |-> s[c][r]]]

(***************************************************************************)
(* The operations of aes.py, in terms of those of the standard's bytes.    *)
(***************************************************************************)
LEMMA PyOperations ==
  /\ \A x, y : Py!XorWord(x, y) = WordAdd(x, y)
  /\ \A x : Py!SubWord(x) = SubWord(x)
  /\ \A x : Py!RotWord(x) = RotWord(x)
  /\ \A s : Py!SubBytes(s) = [r \in 1 .. 4 |-> [c \in 1 .. 4 |-> Sbox(s[r][c])]]
  /\ \A s : Py!ShiftRows(s) = [r \in 1 .. 4 |-> [c \in 1 .. 4 |-> s[r][((c + r - 2) % 4) + 1]]]
  /\ \A s, V, n : Py!AddRoundKey(s, V, n) =
       [r \in 1 .. 4 |-> [c \in 1 .. 4 |-> s[r][c] (+) V[4 * n + c][r]]]
  /\ \A s : Py!MixColumns(s) =
       [r \in 1 .. 4 |-> [c \in 1 .. 4 |->
          Doubled(s[((r + 0 - 1) % 4) + 1][c]) (+) s[((r + 1 - 1) % 4) + 1][c]
            (+) Doubled(s[((r + 1 - 1) % 4) + 1][c]) (+) s[((r + 2 - 1) % 4) + 1][c]
            (+) s[((r + 3 - 1) % 4) + 1][c]]]
<1>1. \A x, y : Py!XorWord(x, y) = WordAdd(x, y)
  BY DEF Py!XorWord, WordAdd, Py!(+), (+), Py!XorNibble, XorNibble, Py!Nibble, Nibble
<1>2. \A x : Py!SubWord(x) = SubWord(x)
  BY DEF Py!SubWord, SubWord, Py!PySbox, Sbox, Py!aes_sbox, aes_sbox
<1>3. \A x : Py!RotWord(x) = RotWord(x)
  BY DEF Py!RotWord, RotWord
<1>4. \A s : Py!SubBytes(s) = [r \in 1 .. 4 |-> [c \in 1 .. 4 |-> Sbox(s[r][c])]]
  BY DEF Py!SubBytes, Py!Nb, Py!PySbox, Sbox, Py!aes_sbox, aes_sbox
<1>5. \A s : Py!ShiftRows(s) = [r \in 1 .. 4 |-> [c \in 1 .. 4 |-> s[r][((c + r - 2) % 4) + 1]]]
  BY DEF Py!ShiftRows, Py!Nb
<1>6. \A s, V, n : Py!AddRoundKey(s, V, n) =
        [r \in 1 .. 4 |-> [c \in 1 .. 4 |-> s[r][c] (+) V[4 * n + c][r]]]
  BY DEF Py!AddRoundKey, Py!Nb, Py!(+), (+), Py!XorNibble, XorNibble, Py!Nibble, Nibble
<1>7. \A s : Py!MixColumns(s) =
        [r \in 1 .. 4 |-> [c \in 1 .. 4 |->
           Doubled(s[((r + 0 - 1) % 4) + 1][c]) (+) s[((r + 1 - 1) % 4) + 1][c]
             (+) Doubled(s[((r + 1 - 1) % 4) + 1][c]) (+) s[((r + 2 - 1) % 4) + 1][c]
             (+) s[((r + 3 - 1) % 4) + 1][c]]]
  BY DEF Py!MixColumns, Py!Nb, Py!doubled, Doubled,
         Py!(+), (+), Py!XorNibble, XorNibble, Py!Nibble, Nibble
<1> QED
  BY <1>1, <1>2, <1>3, <1>4, <1>5, <1>6, <1>7

(***************************************************************************)
(* The double of a byte is its product with x.                             *)
(***************************************************************************)
LEMMA DoubledIsXtime ==
  ASSUME NEW x, x \in BYTE
  PROVE  Doubled(x) = xtime(x)
<1>1. CASE x >= 128
  BY <1>1 DEF Doubled, xtime
<1>2. CASE ~ (x >= 128)
  <2>1. (2 * x) % 256 = 2 * x /\ 2 * x \in BYTE
    BY <1>2 DEF BYTE
  <2>2. (2 * x) (+) 0 = 2 * x
    BY <2>1, XorZero
  <2> QED
    BY <1>2, <2>1, <2>2 DEF Doubled, xtime
<1> QED
  BY <1>1, <1>2

(***************************************************************************)
(* A word of the key schedule of aes.py is one of figure 11.               *)
(***************************************************************************)
LEMMA PyExpanded ==
  ASSUME NEW Nk \in KeySizes, NEW key, NEW m \in 1 .. 3 * Nk + 28,
         NEW V \in Schedules(key, Nk, m - 1)
  PROVE  Py!Expanded(V, Nk) = Extended(V, Nk)
<1> DEFINE n == Nk + m - 1
<1>1. /\ Nk \in Nat /\ n \in Nat /\ n \in Nk .. 4 * Nk + 27 /\ n \in 1 .. n
      /\ n - Nk + 1 \in 1 .. n /\ Nk + (m - 1) = n
  BY DEF KeySizes
<1>2. V \in [1 .. n -> Word]
  BY <1>1 DEF Schedules
<1>3. Len(V) = n
  BY <1>1, <1>2, Lists
<1>4. n % Nk = 0 => n \div Nk \in 1 .. 10
  <2>1. V[n] \in Word
    BY <1>1, <1>2
  <2> HIDE DEF n
  <2> QED
    BY <1>1, <2>1, TempIsWord
<1>5. n % Nk = 0 => Py!Rcon[n \div Nk + 1] = RoundConstant[n \div Nk]
  <2>1. \A j \in 1 .. 10 : Py!Rcon[j + 1] = Constants[j]
    <3>1. \A j \in 1 .. 10 : j \in {1, 2, 3, 4, 5, 6, 7, 8, 9, 10}
      OBVIOUS
    <3> QED
      BY <3>1 DEF Py!Rcon, Constants
  <2> QED
    BY <1>4, <2>1, RoundConstants
<1> HIDE DEF n
<1>6. CASE n % Nk = 0
  BY <1>3, <1>5, <1>6, PyOperations DEF Py!Expanded, Extended
<1>7. CASE n % Nk # 0
  BY <1>3, <1>7, PyOperations DEF Py!Expanded, Extended
<1> QED
  BY <1>6, <1>7

(***************************************************************************)
(* A list of words as the bytes that aes.py is given.                      *)
(***************************************************************************)
LEMMA BytesOfWords ==
  ASSUME NEW m \in Nat, NEW V \in WordList(m)
  PROVE  /\ Len(V) = m /\ Len(InBytes(V)) = 4 * m
         /\ \A n \in 1 .. 4 * m : InBytes(V)[n] \in BYTE
         /\ \A j \in 1 .. m : \A r \in 1 .. 4 : InBytes(V)[4 * (j - 1) + r] = V[j][r]
         /\ \A j \in 1 .. m : SubSeq(InBytes(V), 4 * j - 3, 4 * j) = V[j]
<1> DEFINE B == InBytes(V)
<1>1. Len(V) = m
  BY Lists DEF WordList
<1>2. B = [n \in 1 .. 4 * m |-> V[((n - 1) \div 4) + 1][((n - 1) % 4) + 1]]
  BY <1>1 DEF InBytes
<1>3. \A n \in 1 .. 4 * m : ((n - 1) \div 4) + 1 \in 1 .. m /\ ((n - 1) % 4) + 1 \in 1 .. 4
  OBVIOUS
<1>4. \A j \in 1 .. m : V[j] \in Word
  BY DEF WordList
<1>5. \A j \in 1 .. m : \A r \in 1 .. 4 : V[j][r] \in BYTE
  BY <1>4, WordBytes
<1> HIDE DEF B
<1>6. \A n \in 1 .. 4 * m : B[n] \in BYTE
  BY <1>2, <1>3, <1>5
<1>7. B \in [1 .. 4 * m -> BYTE]
  BY <1>2, <1>6
<1>8. 4 * m \in Nat
  OBVIOUS
<1>9. Len(B) = 4 * m
  BY <1>7, <1>8, Lists
<1>10. ASSUME NEW j \in 1 .. m, NEW r \in 1 .. 4
       PROVE  /\ 4 * (j - 1) + r \in 1 .. 4 * m
              /\ B[4 * (j - 1) + r] = V[j][r]
  <2> DEFINE n == 4 * (j - 1) + r
  <2>1. n \in 1 .. 4 * m /\ ((n - 1) \div 4) + 1 = j /\ ((n - 1) % 4) + 1 = r
    OBVIOUS
  <2> HIDE DEF n
  <2>2. B[n] = V[j][r]
    BY <1>2, <2>1
  <2> QED
    BY <2>1, <2>2 DEF n
<1>11. ASSUME NEW j \in 1 .. m
       PROVE  SubSeq(B, 4 * j - 3, 4 * j) = V[j]
  <2> DEFINE w == SubSeq(B, 4 * j - 3, 4 * j)
  <2>1. /\ 4 * j - 3 \in Int /\ 4 * j \in Int /\ 4 * j - 3 =< 4 * j
        /\ 4 * j - (4 * j - 3) + 1 = 4
        /\ \A n \in 4 * j - 3 .. 4 * j : n \in 1 .. 4 * m
        /\ \A r \in 1 .. 4 : (4 * j - 3) + r - 1 = 4 * (j - 1) + r
    OBVIOUS
  <2>2. \A n \in 4 * j - 3 .. 4 * j : B[n] \in BYTE
    BY <1>6, <2>1
  <2>3. /\ w \in Seq(BYTE) /\ Len(w) = 4
        /\ \A r \in 1 .. 4 : w[r] = B[(4 * j - 3) + r - 1]
    BY <2>1, <2>2, SubSeqProperties
  <2> HIDE DEF w
  <2>4. \A r \in 1 .. 4 : w[r] = V[j][r]
    BY <1>10, <2>1, <2>3
  <2>5. w = <<w[1], w[2], w[3], w[4]>>
    BY <2>3
  <2>6. V[j] = <<V[j][1], V[j][2], V[j][3], V[j][4]>>
    BY <1>4, WordBytes
  <2>7. w[1] = V[j][1] /\ w[2] = V[j][2] /\ w[3] = V[j][3] /\ w[4] = V[j][4]
    BY <2>4
  <2>8. w = V[j]
    BY <2>5, <2>6, <2>7
  <2> QED
    BY <2>8 DEF w
<1> QED
  BY <1>1, <1>6, <1>9, <1>10, <1>11 DEF B

(***************************************************************************)
(* KeyExpansion of aes.py is the key schedule of the standard.             *)
(***************************************************************************)
LEMMA PyKeyExpansion ==
  ASSUME NEW Nk \in KeySizes, NEW key \in WordList(Nk)
  PROVE  Py!KeyExpansion(InBytes(key)) = KeyWords(key)
<1> DEFINE N == 3 * Nk + 28
           B == InBytes(key)
           first == [j \in 1 .. Nk |-> SubSeq(B, 4 * j - 3, 4 * j)]
           PyStep(g) == [n \in 0 .. N |-> IF n = 0 THEN first ELSE Py!Expanded(g[n - 1], Nk)]
           ws == CHOOSE g : g = PyStep(g)
           Step(g) == [n \in 0 .. N |-> IF n = 0 THEN key ELSE Extended(g[n - 1], Nk)]
           W == CHOOSE g : g = Step(g)
<1>1. N \in Nat /\ Nk \in Nat /\ 0 \in 0 .. N /\ N \in 0 .. N /\ 4 * (Nk + 7) - Nk = N
  BY DEF KeySizes
<1>2. Len(key) = Nk /\ Len(B) \div 4 = Nk
  <2>1. Len(key) = Nk /\ Len(B) = 4 * Nk
    BY <1>1, BytesOfWords
  <2> QED
    BY <1>1, <2>1
<1>3. KeyWords(key) = W[N]
  BY <1>2 DEF KeyWords
<1>4. Py!KeyExpansion(B) = ws[N]
  <2> HIDE DEF B, N
  <2> QED
    BY <1>1, <1>2 DEF Py!KeyExpansion, Py!Nb
<1>5. first = key
  <2>1. \A j \in 1 .. Nk : SubSeq(B, 4 * j - 3, 4 * j) = key[j]
    BY <1>1, BytesOfWords
  <2>2. key = [j \in 1 .. Nk |-> key[j]]
    BY DEF WordList
  <2> HIDE DEF B
  <2> QED
    BY <2>1, <2>2
<1>6. PICK f : f = Step(f) /\ \A n \in 0 .. N : f[n] \in Schedules(key, Nk, n)
  BY ScheduleRecursion
<1> HIDE DEF first
<1>7. ASSUME NEW n \in 1 .. N
      PROVE  /\ n \in 0 .. N /\ n - 1 \in 0 .. N /\ n # 0
             /\ Py!Expanded(f[n - 1], Nk) = Extended(f[n - 1], Nk)
  <2>1. n \in 0 .. N /\ n - 1 \in 0 .. N /\ n # 0
    BY <1>1
  <2> QED
    BY <1>6, <2>1, PyExpanded
<1> HIDE DEF N
<1>8. \A n \in 0 .. N : f[n] = IF n = 0 THEN key ELSE Extended(f[n - 1], Nk)
  BY <1>6
<1>9. f = PyStep(f)
  <2>1. f = [n \in 0 .. N |-> f[n]]
    BY <1>6
  <2>2. \A n \in 0 .. N : n = 0 \/ n \in 1 .. N
    BY <1>1
  <2>3. \A n \in 0 .. N : f[n] = IF n = 0 THEN first ELSE Py!Expanded(f[n - 1], Nk)
    BY <1>5, <1>7, <1>8, <2>2
  <2> QED
    BY <2>1, <2>3
<1>10. ws = PyStep(ws) /\ W = Step(W)
  <2> HIDE DEF PyStep, Step
  <2> QED
    BY <1>6, <1>9
<1>11. \A n \in 0 .. N : /\ ws[n] = IF n = 0 THEN first ELSE Py!Expanded(ws[n - 1], Nk)
                         /\ W[n] = IF n = 0 THEN key ELSE Extended(W[n - 1], Nk)
  <2> HIDE DEF ws, W
  <2> QED
    BY <1>10
<1> HIDE DEF ws, W, PyStep, Step
<1> DEFINE T == {n \in 0 .. N : ws[n] = f[n] /\ W[n] = f[n]}
<1>12. 0 \in T
  BY <1>1, <1>5, <1>8, <1>11
<1>13. ASSUME NEW n \in 1 .. N, n - 1 \in T
       PROVE  n \in T
  <2>1. ws[n - 1] = f[n - 1] /\ W[n - 1] = f[n - 1]
    BY <1>13
  <2> QED
    BY <1>7, <1>8, <1>11, <2>1
<1>14. N \in T
  <2> HIDE DEF T
  <2>1. \A n \in 0 .. N : n \in T
    BY <1>1, <1>12, <1>13, UpTo
  <2> QED
    BY <1>1, <2>1
<1> QED
  BY <1>3, <1>4, <1>14 DEF B

(***************************************************************************)
(* The terms of a row of MixColumns, in the orders of aes.py and, row by   *)
(* row, of mix_col: a byte and its double are added one after the other,   *)
(* where the standard multiplies it with 3.                                *)
(***************************************************************************)
LEMMA MixedTerms ==
  ASSUME NEW x0, NEW x1, NEW y1, NEW y2, NEW y3,
         x0 \in BYTE, x1 \in BYTE, y1 \in BYTE, y2 \in BYTE, y3 \in BYTE
  PROVE  LET sum == x0 (+) (x1 (+) y1) (+) y2 (+) y3
         IN  /\ x0 (+) y1 (+) x1 (+) y2 (+) y3 = sum
             /\ x0 (+) x1 (+) y1 (+) y2 (+) y3 = sum
             /\ y3 (+) x0 (+) x1 (+) y1 (+) y2 = sum
             /\ y2 (+) y3 (+) x0 (+) x1 (+) y1 = sum
             /\ x1 (+) y1 (+) y2 (+) y3 (+) x0 = sum
<1> DEFINE t1 == x1 (+) y1 t2 == x0 (+) t1 t3 == t2 (+) y2 sum == t3 (+) y3
           s1 == x0 (+) y1 (+) x1 (+) y2 (+) y3
           s2 == x0 (+) x1 (+) y1 (+) y2 (+) y3
           s3 == y3 (+) x0 (+) x1 (+) y1 (+) y2
           s4 == y2 (+) y3 (+) x0 (+) x1 (+) y1
           s5 == x1 (+) y1 (+) y2 (+) y3 (+) x0
           In(x, j) == j \in Bits(x)
           Five(j) == Odd(Odd(Odd(Odd(In(x0, j), In(x1, j)), In(y1, j)), In(y2, j)), In(y3, j))
<1>1. /\ s1 \in BYTE /\ s2 \in BYTE /\ s3 \in BYTE /\ s4 \in BYTE /\ s5 \in BYTE
      /\ \A j \in 0 .. 7 :
           /\ In(s1, j) <=> Odd(Odd(Odd(Odd(In(x0, j), In(y1, j)), In(x1, j)), In(y2, j)), In(y3, j))
           /\ In(s2, j) <=> Odd(Odd(Odd(Odd(In(x0, j), In(x1, j)), In(y1, j)), In(y2, j)), In(y3, j))
           /\ In(s3, j) <=> Odd(Odd(Odd(Odd(In(y3, j), In(x0, j)), In(x1, j)), In(y1, j)), In(y2, j))
           /\ In(s4, j) <=> Odd(Odd(Odd(Odd(In(y2, j), In(y3, j)), In(x0, j)), In(x1, j)), In(y1, j))
           /\ In(s5, j) <=> Odd(Odd(Odd(Odd(In(x1, j), In(y1, j)), In(y2, j)), In(y3, j)), In(x0, j))
  BY BitsOfFive
<1> HIDE DEF s1, s2, s3, s4, s5
<1>2. \A j \in 0 .. 7 : /\ In(s1, j) <=> Five(j)
                        /\ In(s2, j) <=> Five(j)
                        /\ In(s3, j) <=> Five(j)
                        /\ In(s4, j) <=> Five(j)
                        /\ In(s5, j) <=> Five(j)
  BY <1>1 DEF Odd
<1>3. t1 \in BYTE /\ \A j \in 0 .. 7 : In(t1, j) <=> ~ (In(x1, j) <=> In(y1, j))
  BY XorIsDifference
<1> HIDE DEF t1
<1>4. t2 \in BYTE /\ \A j \in 0 .. 7 : In(t2, j) <=> ~ (In(x0, j) <=> In(t1, j))
  BY <1>3, XorIsDifference
<1> HIDE DEF t2
<1>5. t3 \in BYTE /\ \A j \in 0 .. 7 : In(t3, j) <=> ~ (In(t2, j) <=> In(y2, j))
  BY <1>4, XorIsDifference
<1> HIDE DEF t3
<1>6. sum \in BYTE /\ \A j \in 0 .. 7 : In(sum, j) <=> ~ (In(t3, j) <=> In(y3, j))
  BY <1>5, XorIsDifference
<1> HIDE DEF sum
<1>7. \A j \in 0 .. 7 : In(sum, j) <=> Five(j)
  BY <1>3, <1>4, <1>5, <1>6 DEF Odd
<1> HIDE DEF Five
<1>8. s1 = sum /\ s2 = sum /\ s3 = sum /\ s4 = sum /\ s5 = sum
  BY <1>1, <1>2, <1>6, <1>7, SameBits
<1> QED
  BY <1>8 DEF s1, s2, s3, s4, s5, sum, t3, t2, t1

(***************************************************************************)
(* A row of MixColumns of aes.py.                                          *)
(***************************************************************************)
LEMMA PyMixedRow ==
  ASSUME NEW a0, NEW a1, NEW a2, NEW a3, a0 \in BYTE, a1 \in BYTE, a2 \in BYTE, a3 \in BYTE
  PROVE  Doubled(a0) (+) a1 (+) Doubled(a1) (+) a2 (+) a3 =
           Times2[a0] (+) Times3[a1] (+) a2 (+) a3
<1> DEFINE d0 == Times2[a0] d1 == Times2[a1]
<1>1. /\ Doubled(a0) = d0 /\ d0 \in BYTE
      /\ Doubled(a1) = d1 /\ d1 \in BYTE
      /\ Times3[a1] = d1 (+) a1
  BY DoubledIsXtime, TimesOfBytes
<1> HIDE DEF d0, d1
<1>2. d0 (+) a1 (+) d1 (+) a2 (+) a3 = d0 (+) (d1 (+) a1) (+) a2 (+) a3
  BY <1>1, MixedTerms
<1> QED
  BY <1>1, <1>2 DEF d0

(***************************************************************************)
(* The rounds of aes.py, on rows, are those of the standard, on columns.   *)
(***************************************************************************)
LEMMA PyRounds ==
  ASSUME NEW s \in WordList(4), NEW V, NEW n, NEW z \in WordList(4),
         z = [c \in 1 .. 4 |-> V[4 * n + c]]
  PROVE  LET u == Py!ShiftRows(Py!SubBytes(Rows(s))) IN
         /\ Py!AddRoundKey(Rows(s), V, n) = Rows(AddKey(s, z))
         /\ Py!AddRoundKey(u, V, n) = Rows(AddKey(SubShiftColumns(s), z))
         /\ Py!AddRoundKey(Py!MixColumns(u), V, n) = Rows(AddKey(MixColumns(SubShiftColumns(s)), z))
<1> DEFINE b == Py!SubBytes(Rows(s))
           u == Py!ShiftRows(b)
           m == Py!MixColumns(u)
<1>1. \A c \in 1 .. 4 : c = 1 \/ c = 2 \/ c = 3 \/ c = 4
  OBVIOUS
<1>2. \A t : \A c \in 1 .. 4 : AddKey(t, z)[c] = WordAdd(t[c], z[c])
  BY <1>1 DEF AddKey, Columns
<1>3. \A x, y : \A r \in 1 .. 4 : WordAdd(x, y)[r] = x[r] (+) y[r]
  BY <1>1 DEF WordAdd
<1>4. \A c \in 1 .. 4 : V[4 * n + c] = z[c]
  OBVIOUS
<1>5. \A t : Py!AddRoundKey(t, V, n) = [r \in 1 .. 4 |-> [c \in 1 .. 4 |-> t[r][c] (+) z[c][r]]]
  BY <1>4, PyOperations
<1>6. \A c, r \in 1 .. 4 : b[r][c] = Sbox(s[c][r])
  BY PyOperations DEF Rows
<1> HIDE DEF b
<1>7. \A c, r \in 1 .. 4 : u[r][c] = Shifted(s, c)[r]
  <2> TAKE c, r \in 1 .. 4
  <2>1. u[r][c] = b[r][((c + r - 2) % 4) + 1]
    BY PyOperations
  <2>2. ((c + r - 2) % 4) + 1 \in 1 .. 4
    OBVIOUS
  <2>3. u[r][c] = Sbox(s[((c + r - 2) % 4) + 1][r])
    BY <1>6, <2>1, <2>2
  <2>4. CASE r = 1
    <3>1. c + r - 2 = c - 1
      BY <2>4
    <3> QED
      BY <2>3, <2>4, <3>1 DEF Shifted
  <2>5. CASE r = 2
    <3>1. c + r - 2 = c
      BY <2>5
    <3> QED
      BY <2>3, <2>5, <3>1 DEF Shifted
  <2>6. CASE r = 3
    <3>1. c + r - 2 = c + 1
      BY <2>6
    <3> QED
      BY <2>3, <2>6, <3>1 DEF Shifted
  <2>7. CASE r = 4
    <3>1. c + r - 2 = c + 2
      BY <2>7
    <3> QED
      BY <2>3, <2>7, <3>1 DEF Shifted
  <2> QED
    BY <1>1, <2>4, <2>5, <2>6, <2>7
<1> HIDE DEF u
<1>8. ASSUME NEW c \in 1 .. 4, NEW r \in 1 .. 4
      PROVE  m[r][c] = Mixed(Shifted(s, c))[r]
  <2> DEFINE v == Shifted(s, c)
             at(j) == v[((r + j - 1) % 4) + 1]
  <2>1. /\ ((r + 0 - 1) % 4) + 1 \in 1 .. 4 /\ ((r + 1 - 1) % 4) + 1 \in 1 .. 4
        /\ ((r + 2 - 1) % 4) + 1 \in 1 .. 4 /\ ((r + 3 - 1) % 4) + 1 \in 1 .. 4
    OBVIOUS
  <2>2. m[r][c] = Doubled(u[((r + 0 - 1) % 4) + 1][c]) (+) u[((r + 1 - 1) % 4) + 1][c]
                    (+) Doubled(u[((r + 1 - 1) % 4) + 1][c]) (+) u[((r + 2 - 1) % 4) + 1][c]
                    (+) u[((r + 3 - 1) % 4) + 1][c]
    BY PyOperations
  <2>3. /\ u[((r + 0 - 1) % 4) + 1][c] = at(0) /\ u[((r + 1 - 1) % 4) + 1][c] = at(1)
        /\ u[((r + 2 - 1) % 4) + 1][c] = at(2) /\ u[((r + 3 - 1) % 4) + 1][c] = at(3)
    BY <1>7, <2>1
  <2>4. v \in Word
    BY ByColumns
  <2>5. at(0) \in BYTE /\ at(1) \in BYTE /\ at(2) \in BYTE /\ at(3) \in BYTE
    <3> HIDE DEF v
    <3> QED
      BY <2>1, <2>4, WordBytes
  <2>6. m[r][c] = Doubled(at(0)) (+) at(1) (+) Doubled(at(1)) (+) at(2) (+) at(3)
    <3> HIDE DEF at, m
    <3> QED
      BY <2>2, <2>3
  <2>7. m[r][c] = Times2[at(0)] (+) Times3[at(1)] (+) at(2) (+) at(3)
    <3> HIDE DEF at, m
    <3> QED
      BY <2>5, <2>6, PyMixedRow
  <2> HIDE DEF v, m
  <2>8. CASE r = 1
    <3>1. at(0) = v[1] /\ at(1) = v[2] /\ at(2) = v[3] /\ at(3) = v[4]
      BY <2>8
    <3> HIDE DEF at
    <3> QED
      BY <2>7, <2>8, <3>1 DEF Mixed, v
  <2>9. CASE r = 2
    <3>1. at(0) = v[2] /\ at(1) = v[3] /\ at(2) = v[4] /\ at(3) = v[1]
      BY <2>9
    <3> HIDE DEF at
    <3> QED
      BY <2>7, <2>9, <3>1 DEF Mixed, v
  <2>10. CASE r = 3
    <3>1. at(0) = v[3] /\ at(1) = v[4] /\ at(2) = v[1] /\ at(3) = v[2]
      BY <2>10
    <3> HIDE DEF at
    <3> QED
      BY <2>7, <2>10, <3>1 DEF Mixed, v
  <2>11. CASE r = 4
    <3>1. at(0) = v[4] /\ at(1) = v[1] /\ at(2) = v[2] /\ at(3) = v[3]
      BY <2>11
    <3> HIDE DEF at
    <3> QED
      BY <2>7, <2>11, <3>1 DEF Mixed, v
  <2> QED
    BY <1>1, <2>8, <2>9, <2>10, <2>11
<1> HIDE DEF m
<1>9. \A c, r \in 1 .. 4 : AddKey(s, z)[c][r] = Rows(s)[r][c] (+) z[c][r]
  BY <1>2, <1>3 DEF Rows
<1>10. \A c, r \in 1 .. 4 : AddKey(SubShiftColumns(s), z)[c][r] = u[r][c] (+) z[c][r]
  BY <1>3, <1>7, ByColumns
<1>11. \A c, r \in 1 .. 4 : AddKey(MixColumns(SubShiftColumns(s)), z)[c][r] = m[r][c] (+) z[c][r]
  BY <1>3, <1>8, ByColumns
<1>12. ASSUME NEW x, NEW t, \A c, r \in 1 .. 4 : t[c][r] = x[r][c] (+) z[c][r]
       PROVE  Py!AddRoundKey(x, V, n) = Rows(t)
  <2> DEFINE left(r) == [c \in 1 .. 4 |-> x[r][c] (+) z[c][r]]
             right(r) == [c \in 1 .. 4 |-> t[c][r]]
  <2>1. \A r \in 1 .. 4 : left(r) = right(r)
    BY <1>12
  <2>2. Py!AddRoundKey(x, V, n) = [r \in 1 .. 4 |-> left(r)]
    BY <1>5
  <2>3. Rows(t) = [r \in 1 .. 4 |-> right(r)]
    BY DEF Rows
  <2> HIDE DEF left, right
  <2> QED
    BY <2>1, <2>2, <2>3
<1>13. Py!AddRoundKey(Rows(s), V, n) = Rows(AddKey(s, z))
  BY <1>9, <1>12
<1>14. Py!AddRoundKey(u, V, n) = Rows(AddKey(SubShiftColumns(s), z))
  BY <1>10, <1>12
<1>15. Py!AddRoundKey(m, V, n) = Rows(AddKey(MixColumns(SubShiftColumns(s)), z))
  BY <1>11, <1>12
<1> QED
  BY <1>13, <1>14, <1>15 DEF u, b, m

-----------------------------------------------------------------------------
(***************************************************************************)
(* The inductive invariant of the script: its key schedule is that of the  *)
(* standard, and its rows those of the standard's columns.                 *)
(***************************************************************************)
PyInv ==
    /\ call \in Calls
    /\ py_w = KeyWords(call.key)
    /\ py_round \in 1 .. KeySize(call.fn) + 7
    /\ py_state = Rows(StatesOf[call][py_round - 1])

(***************************************************************************)
(* The script begins like the standard.                                    *)
(***************************************************************************)
LEMMA PyInvInit == SoftwareInit => PyInv
<1> SUFFICES ASSUME SoftwareInit
             PROVE  PyInv
  OBVIOUS
<1> DEFINE Nk == KeySize(call.fn)
           V == KeyWords(call.key)
<1>1. call \in Calls
  BY DEF SoftwareInit, GoldenInit
<1>2. /\ Nk \in KeySizes /\ call.key \in WordList(Nk) /\ call.text \in WordList(4)
      /\ StatesOf[call] = CipherStates(call.key, call.text)
      /\ V \in Schedules(call.key, Nk, 3 * Nk + 28)
  BY <1>1, CallSizes
<1>3. /\ py_w = Py!KeyExpansion(InBytes(call.key))
      /\ py_state = Py!AddRoundKey(Py!ByRows(InBytes(call.text)), py_w, 0)
      /\ py_round = 1
  <2>1. PICK c : /\ py_call = c
                 /\ py_w = Py!KeyExpansion(c.key)
                 /\ py_state = Py!AddRoundKey(Py!ByRows(c.text), py_w, 0)
                 /\ py_round = 1
    BY DEF SoftwareInit, Py!CipherInit
  <2>2. c = PyCall(call)
    BY <2>1 DEF SoftwareInit
  <2>3. c.key = InBytes(call.key) /\ c.text = InBytes(call.text)
    BY <2>2 DEF PyCall
  <2> QED
    BY <2>1, <2>3
<1> HIDE DEF Nk
<1>4. Nk \in Nat /\ Nk >= 4
  BY <1>2 DEF KeySizes
<1>5. py_w = V
  BY <1>2, <1>3, PyKeyExpansion
<1> HIDE DEF V
<1>6. Py!ByRows(InBytes(call.text)) = Rows(call.text)
  <2> DEFINE b == InBytes(call.text)
             t == call.text
             left(r) == [c \in 1 .. 4 |-> b[4 * (c - 1) + r]]
             right(r) == [c \in 1 .. 4 |-> t[c][r]]
  <2>1. \A j \in 1 .. 4 : \A r \in 1 .. 4 : b[4 * (j - 1) + r] = t[j][r]
    <3>1. 4 \in Nat
      OBVIOUS
    <3> QED
      BY <1>2, <3>1, BytesOfWords
  <2>2. Py!ByRows(b) = [r \in 1 .. 4 |-> left(r)]
    BY DEF Py!ByRows, Py!Nb
  <2>3. Rows(t) = [r \in 1 .. 4 |-> right(r)]
    BY DEF Rows
  <2> HIDE DEF b, t
  <2>4. \A r \in 1 .. 4 : left(r) = right(r)
    BY <2>1
  <2> HIDE DEF left, right
  <2>5. Py!ByRows(b) = Rows(t)
    BY <2>2, <2>3, <2>4
  <2> QED
    BY <2>5 DEF b, t
<1> DEFINE z == RoundKey(V, 0)
<1>7. z \in WordList(4) /\ z = [c \in 1 .. 4 |-> V[4 * 0 + c]]
  <2>1. 0 \in 0 .. Nk + 6
    BY <1>4
  <2> QED
    BY <1>2, <2>1, RoundKeys
<1> HIDE DEF z
<1>8. Py!AddRoundKey(Rows(call.text), V, 0) = Rows(AddKey(call.text, z))
  BY <1>2, <1>7, PyRounds
<1>9. StatesOf[call][0] = AddKey(call.text, z)
  BY <1>2, CipherStatesByRound DEF V, z
<1>10. py_state = Rows(StatesOf[call][0])
  BY <1>3, <1>5, <1>6, <1>8, <1>9
<1>11. py_round \in 1 .. Nk + 7 /\ py_round - 1 = 0
  BY <1>3, <1>4
<1> QED
  BY <1>1, <1>5, <1>10, <1>11 DEF PyInv, V, Nk

(***************************************************************************)
(* A round of the script is a round of the standard.                       *)
(***************************************************************************)
LEMMA PyInvStep ==
  PyInv /\ [GoldenNext /\ Py!CipherNext]_softwareVars => PyInv'
<1> SUFFICES ASSUME PyInv, [GoldenNext /\ Py!CipherNext]_softwareVars
             PROVE  PyInv'
  OBVIOUS
<1>1. CASE UNCHANGED softwareVars
  BY <1>1 DEF softwareVars, goldenVars, PyInv
<1>2. CASE GoldenNext /\ Py!CipherNext
  <2> DEFINE Nk == KeySize(call.fn)
             V == KeyWords(call.key)
             s == StatesOf[call]
             n == py_round
  <2>1. /\ call \in Calls /\ py_w = V /\ n \in 1 .. Nk + 7 /\ py_state = Rows(s[n - 1])
    BY DEF PyInv
  <2>2. /\ Nk \in KeySizes /\ call.key \in WordList(Nk) /\ call.text \in WordList(4)
        /\ s = CipherStates(call.key, call.text)
        /\ V \in Schedules(call.key, Nk, 3 * Nk + 28)
    BY <2>1, CallSizes
  <2>3. call' = call
    BY <1>2 DEF GoldenNext, Round, LastRound
  <2>4. /\ py_w' = py_w /\ n' = n + 1
        /\ \/ /\ n < Py!Nr
              /\ py_state' = Py!AddRoundKey(Py!MixColumns(Py!ShiftRows(Py!SubBytes(py_state))), py_w, n)
           \/ /\ n = Py!Nr
              /\ py_state' = Py!AddRoundKey(Py!ShiftRows(Py!SubBytes(py_state)), py_w, n)
    BY <1>2, Zenon DEF Py!CipherNext, Py!Round, Py!LastRound
  <2> HIDE DEF Nk
  <2>5. Nk \in Nat
    BY <2>2 DEF KeySizes
  <2>6. Py!Nr = Nk + 6
    <3>1. V \in [1 .. 4 * Nk + 28 -> Word]
      <4>1. Nk + (3 * Nk + 28) = 4 * Nk + 28
        BY <2>5
      <4> QED
        BY <2>2, <4>1 DEF Schedules
    <3> HIDE DEF V
    <3>2. Len(V) = 4 * Nk + 28
      BY <2>5, <3>1, Lists
    <3>3. (4 * Nk + 28) \div 4 - 1 = Nk + 6
      BY <2>5
    <3> QED
      BY <2>1, <3>2, <3>3 DEF Py!Nr, Py!Nb
  <2>7. n \in 1 .. Nk + 6 /\ n \in 0 .. Nk + 6 /\ n - 1 \in 0 .. Nk + 6 /\ n + 1 \in 1 .. Nk + 7
        /\ (n + 1) - 1 = n
    BY <2>1, <2>4, <2>5, <2>6
  <2> DEFINE z == RoundKey(V, n)
             t == s[n - 1]
  <2>8. z \in WordList(4) /\ z = [c \in 1 .. 4 |-> V[4 * n + c]]
    BY <2>2, <2>7, RoundKeys
  <2>9. t \in WordList(4) /\ s[n] = CipherRoundOf(t, V, n, Nk + 6)
    BY <2>2, <2>7, CipherStatesByRound
  <2> HIDE DEF V, s, n
  <2>10. /\ Py!AddRoundKey(Py!ShiftRows(Py!SubBytes(Rows(t))), V, n) =
              Rows(AddKey(SubShiftColumns(t), z))
         /\ Py!AddRoundKey(Py!MixColumns(Py!ShiftRows(Py!SubBytes(Rows(t)))), V, n) =
              Rows(AddKey(MixColumns(SubShiftColumns(t)), z))
    <3> HIDE DEF z, t
    <3> QED
      BY <2>8, <2>9, PyRounds
  <2>11. py_state' = Rows(s[n])
    <3>1. CASE n < Nk + 6
      <4>1. ~ (n = Nk + 6)
        BY <2>5, <2>7, <3>1
      <4>2. py_state' = Py!AddRoundKey(Py!MixColumns(Py!ShiftRows(Py!SubBytes(Rows(t)))), V, n)
        BY <2>1, <2>4, <2>6, <4>1
      <4>3. s[n] = AddKey(MixColumns(SubShiftColumns(t)), z)
        BY <2>9, <3>1 DEF CipherRoundOf
      <4> QED
        BY <2>10, <4>2, <4>3
    <3>2. CASE ~ (n < Nk + 6)
      <4>1. py_state' = Py!AddRoundKey(Py!ShiftRows(Py!SubBytes(Rows(t))), V, n)
        BY <2>1, <2>4, <2>6, <3>2
      <4>2. s[n] = AddKey(SubShiftColumns(t), z)
        BY <2>9, <3>2 DEF CipherRoundOf
      <4> QED
        BY <2>10, <4>1, <4>2
    <3> QED
      BY <3>1, <3>2
  <2>12. py_w' = KeyWords(call'.key) /\ py_round' \in 1 .. KeySize(call'.fn) + 7
    BY <2>1, <2>3, <2>4, <2>7 DEF V, n, Nk
  <2>13. py_state' = Rows(StatesOf[call'][py_round' - 1])
    BY <2>3, <2>4, <2>7, <2>11 DEF s, n
  <2> QED
    BY <2>1, <2>3, <2>12, <2>13 DEF PyInv
<1> QED
  BY <1>1, <1>2

(***************************************************************************)
(* The state of Cipher of aes.py, kept by rows, is that of the standard    *)
(* after every round, for every key of the three lengths and every text.   *)
(***************************************************************************)
THEOREM PyStatesOfTheStandardCorrect == SoftwareSpec => []PyStatesOfTheStandard
<1>1. PyInv => PyStatesOfTheStandard
  <2> SUFFICES ASSUME PyInv
               PROVE  PyStatesOfTheStandard
    OBVIOUS
  <2> DEFINE t == StatesOf[call][py_round - 1]
             Nk == KeySize(call.fn)
  <2>1. /\ call \in Calls /\ py_round \in 1 .. Nk + 7 /\ py_state = Rows(t)
    BY DEF PyInv
  <2>2. /\ Nk \in KeySizes /\ call.key \in WordList(Nk) /\ call.text \in WordList(4)
        /\ StatesOf[call] = CipherStates(call.key, call.text)
    BY <2>1, CallSizes
  <2>3. t \in WordList(4)
    <3>1. py_round - 1 \in 0 .. Nk + 6
      BY <2>1, <2>2 DEF KeySizes
    <3> HIDE DEF Nk
    <3> QED
      BY <2>2, <3>1, CipherStatesByRound
  <2> HIDE DEF t
  <2>4. Len(t) = 4 /\ 4 * 4 = 16
    <3>1. 4 \in Nat /\ 4 * 4 = 16
      OBVIOUS
    <3> QED
      BY <2>3, <3>1, Lists DEF WordList
  <2>5. InBytes(t) = [n \in 1 .. 16 |-> t[((n - 1) \div 4) + 1][((n - 1) % 4) + 1]]
    BY <2>4 DEF InBytes
  <2>6. \A n \in 1 .. 16 : /\ ((n - 1) \div 4) + 1 \in 1 .. 4 /\ ((n - 1) % 4) + 1 \in 1 .. 4
    OBVIOUS
  <2>7. \A n \in 1 .. 16 : py_state[((n - 1) % 4) + 1][((n - 1) \div 4) + 1] =
                             t[((n - 1) \div 4) + 1][((n - 1) % 4) + 1]
    BY <2>1, <2>6 DEF Rows
  <2>8. Py!output = InBytes(t)
    BY <2>5, <2>7 DEF Py!output
  <2> QED
    BY <2>8 DEF PyStatesOfTheStandard, t
<1> QED
  BY <1>1, PyInvInit, PyInvStep, PTL DEF SoftwareSpec

-----------------------------------------------------------------------------
\* The block of the RTL that holds the words of s, and the words of a block.
InBlock(s) == [n \in 0 .. 15 |-> s[Col(n) + 1][Row(n) + 1]]

InColumns(b) == [c \in 1 .. 4 |-> <<b[4 * (c - 1)], b[4 * (c - 1) + 1],
                                    b[4 * (c - 1) + 2], b[4 * (c - 1) + 3]>>]

(***************************************************************************)
(* Every block of the RTL is four words.                                   *)
(***************************************************************************)
LEMMA BlocksAreWords ==
  /\ \A s \in WordList(4) : InBlock(s) \in ByteBlock
  /\ \A b \in ByteBlock : InColumns(b) \in WordList(4) /\ InBlock(InColumns(b)) = b
<1>1. ASSUME NEW s \in WordList(4)
      PROVE  InBlock(s) \in ByteBlock
  <2>1. \A c \in 1 .. 4 : \A r \in 1 .. 4 : s[c][r] \in BYTE
    BY WordBytes DEF WordList
  <2>2. \A n \in 0 .. 15 : Col(n) + 1 \in 1 .. 4 /\ Row(n) + 1 \in 1 .. 4
    BY Places
  <2> QED
    BY <2>1, <2>2 DEF InBlock, ByteBlock
<1>2. ASSUME NEW b \in ByteBlock
      PROVE  InColumns(b) \in WordList(4) /\ InBlock(InColumns(b)) = b
  <2>1. \A n \in 0 .. 15 : b[n] \in BYTE
    BY DEF ByteBlock
  <2> DEFINE word(c) == <<b[4 * (c - 1)], b[4 * (c - 1) + 1], b[4 * (c - 1) + 2], b[4 * (c - 1) + 3]>>
  <2>2. ASSUME NEW c \in 1 .. 4
        PROVE  /\ word(c) \in Word
               /\ word(c)[1] = b[4 * (c - 1) + 0] /\ word(c)[2] = b[4 * (c - 1) + 1]
               /\ word(c)[3] = b[4 * (c - 1) + 2] /\ word(c)[4] = b[4 * (c - 1) + 3]
    <3>1. /\ 4 * (c - 1) \in 0 .. 15 /\ 4 * (c - 1) + 1 \in 0 .. 15
          /\ 4 * (c - 1) + 2 \in 0 .. 15 /\ 4 * (c - 1) + 3 \in 0 .. 15
          /\ 4 * (c - 1) + 0 = 4 * (c - 1)
      OBVIOUS
    <3>2. /\ b[4 * (c - 1)] \in BYTE /\ b[4 * (c - 1) + 1] \in BYTE
          /\ b[4 * (c - 1) + 2] \in BYTE /\ b[4 * (c - 1) + 3] \in BYTE
      BY <2>1, <3>1
    <3> QED
      BY <3>1, <3>2 DEF Word
  <2>3. InColumns(b) = [c \in 1 .. 4 |-> word(c)]
    BY DEF InColumns
  <2> HIDE DEF word
  <2>4. InColumns(b) \in WordList(4)
    BY <2>2, <2>3 DEF WordList
  <2>5. ASSUME NEW n \in 0 .. 15
        PROVE  InColumns(b)[Col(n) + 1][Row(n) + 1] = b[n]
    <3>1. Row(n) \in {0, 1, 2, 3} /\ Col(n) + 1 \in 1 .. 4 /\ n = 4 * ((Col(n) + 1) - 1) + Row(n)
      BY Places
    <3> DEFINE c == Col(n) + 1
    <3>2. InColumns(b)[c] = word(c) /\ c \in 1 .. 4
      BY <2>3, <3>1
    <3> HIDE DEF c
    <3>3. word(c)[Row(n) + 1] = b[4 * (c - 1) + Row(n)]
      BY <2>2, <3>1, <3>2
    <3> QED
      BY <3>1, <3>2, <3>3 DEF c
  <2>6. b = [n \in 0 .. 15 |-> b[n]]
    BY DEF ByteBlock
  <2>7. InBlock(InColumns(b)) = b
    BY <2>5, <2>6 DEF InBlock
  <2> QED
    BY <2>4, <2>7
<1> QED
  BY <1>1, <1>2

(***************************************************************************)
(* mix_col is a column of MixColumns.                                      *)
(***************************************************************************)
LEMMA MixColIsMixed ==
  ASSUME NEW v, v \in Word
  PROVE  mix_col(v) = Mixed(v)
<1> DEFINE v1 == v[1] v2 == v[2] v3 == v[3] v4 == v[4]
           x1 == xtime(v1) x2 == xtime(v2) x3 == xtime(v3) x4 == xtime(v4)
<1>1. v1 \in BYTE /\ v2 \in BYTE /\ v3 \in BYTE /\ v4 \in BYTE
  BY WordBytes
<1>2. Mixed(v) = <<Times2[v1] (+) Times3[v2] (+) v3 (+) v4, Times2[v2] (+) Times3[v3] (+) v4 (+) v1,
                   Times2[v3] (+) Times3[v4] (+) v1 (+) v2, Times2[v4] (+) Times3[v1] (+) v2 (+) v3>>
  BY DEF Mixed
<1>3. mix_col(v) = <<x1 (+) x2 (+) v2 (+) v3 (+) v4, v1 (+) x2 (+) x3 (+) v3 (+) v4,
                     v1 (+) v2 (+) x3 (+) x4 (+) v4, x1 (+) v1 (+) v2 (+) v3 (+) x4>>
  BY DEF mix_col
<1> HIDE DEF v1, v2, v3, v4
<1>4. /\ x1 \in BYTE /\ x2 \in BYTE /\ x3 \in BYTE /\ x4 \in BYTE
      /\ Times2[v1] = x1 /\ Times2[v2] = x2 /\ Times2[v3] = x3 /\ Times2[v4] = x4
      /\ Times3[v1] = x1 (+) v1 /\ Times3[v2] = x2 (+) v2
      /\ Times3[v3] = x3 (+) v3 /\ Times3[v4] = x4 (+) v4
  BY <1>1, TimesOfBytes
<1> HIDE DEF x1, x2, x3, x4
<1>5. /\ x1 (+) x2 (+) v2 (+) v3 (+) v4 = x1 (+) (x2 (+) v2) (+) v3 (+) v4
      /\ v1 (+) x2 (+) x3 (+) v3 (+) v4 = x2 (+) (x3 (+) v3) (+) v4 (+) v1
      /\ v1 (+) v2 (+) x3 (+) x4 (+) v4 = x3 (+) (x4 (+) v4) (+) v1 (+) v2
      /\ x1 (+) v1 (+) v2 (+) v3 (+) x4 = x4 (+) (x1 (+) v1) (+) v2 (+) v3
  BY <1>1, <1>4, MixedTerms
<1> QED
  BY <1>2, <1>3, <1>4, <1>5

(***************************************************************************)
(* The operations of the RTL on blocks are those of the standard on their  *)
(* words.                                                                  *)
(***************************************************************************)
LEMMA BlockOperations ==
  ASSUME NEW s \in WordList(4), NEW z \in WordList(4)
  PROVE  /\ XorBlock(InBlock(s), InBlock(z)) = InBlock(AddKey(s, z))
         /\ SubShiftBlock(InBlock(s)) = InBlock(SubShiftColumns(s))
         /\ MixColumnsBlock(InBlock(s)) = InBlock(MixColumns(s))
<1> DEFINE b == InBlock(s)
<1>1. \A c \in 1 .. 4 : c = 1 \/ c = 2 \/ c = 3 \/ c = 4
  OBVIOUS
<1>2. \A n \in 0 .. 15 : /\ Row(n) \in 0 .. 3 /\ Col(n) \in 0 .. 3
                         /\ Row(n) + 1 \in 1 .. 4 /\ Col(n) + 1 \in 1 .. 4
                         /\ (Col(n) + 1) - 1 = Col(n)
  BY Places
<1>3. ASSUME NEW c \in 0 .. 3, NEW r \in 0 .. 3
      PROVE  b[4 * c + r] = s[c + 1][r + 1]
  <2> DEFINE n == 4 * c + r
  <2>1. n \in 0 .. 15 /\ Row(n) = r /\ Col(n) = c
    BY Places
  <2> HIDE DEF n
  <2>2. b[n] = s[c + 1][r + 1]
    BY <2>1 DEF InBlock
  <2> QED
    BY <2>2 DEF n
<1>4. b \in ByteBlock
  BY BlocksAreWords
<1>5. XorBlock(b, InBlock(z)) = InBlock(AddKey(s, z))
  <2>1. \A c, r \in 1 .. 4 : AddKey(s, z)[c][r] = s[c][r] (+) z[c][r]
    <3>1. \A c \in 1 .. 4 : AddKey(s, z)[c] = WordAdd(s[c], z[c])
      BY <1>1 DEF AddKey, Columns
    <3>2. \A x, y : \A r \in 1 .. 4 : WordAdd(x, y)[r] = x[r] (+) y[r]
      BY <1>1 DEF WordAdd
    <3> QED
      BY <3>1, <3>2
  <2>2. \A n \in 0 .. 15 : b[n] (+) InBlock(z)[n] = AddKey(s, z)[Col(n) + 1][Row(n) + 1]
    BY <1>2, <2>1 DEF InBlock
  <2>3. XorBlock(b, InBlock(z)) = [n \in 0 .. 15 |-> b[n] (+) InBlock(z)[n]]
    BY DEF XorBlock
  <2>4. InBlock(AddKey(s, z)) = [n \in 0 .. 15 |-> AddKey(s, z)[Col(n) + 1][Row(n) + 1]]
    BY DEF InBlock
  <2> QED
    BY <2>2, <2>3, <2>4
<1> HIDE DEF b
<1>6. SubShiftBlock(b) = InBlock(SubShiftColumns(s))
  <2>1. ASSUME NEW n \in 0 .. 15
        PROVE  SubShiftBlock(b)[n] = SubShiftColumns(s)[Col(n) + 1][Row(n) + 1]
    <3> DEFINE c == Col(n)
               r == Row(n)
               d == (c + r) % 4
    <3>1. c \in 0 .. 3 /\ r \in 0 .. 3 /\ d \in 0 .. 3 /\ c + 1 \in 1 .. 4 /\ r + 1 \in 1 .. 4
      <4>1. c \in 0 .. 3 /\ r \in 0 .. 3
        BY <1>2
      <4> HIDE DEF c, r
      <4> QED
        BY <4>1
    <3>2. SubShiftBlock(b)[n] = Sbox(b[4 * d + r])
      BY <1>4, ShiftSubUndone
    <3> HIDE DEF c, r
    <3>3. d + 1 = (((c + 1) + (r + 1) - 2) % 4) + 1
      <4>1. (c + 1) + (r + 1) - 2 = c + r
        BY <3>1
      <4> QED
        BY <4>1
    <3> HIDE DEF d
    <3>4. SubShiftBlock(b)[n] = Sbox(s[d + 1][r + 1])
      BY <1>3, <3>1, <3>2
    <3>5. \A t : \A e, f \in 1 .. 4 :
            SubShiftColumns(t)[e][f] = Sbox(t[((e + f - 2) % 4) + 1][f])
      <4> TAKE t
      <4> DEFINE from(e, f) == Sbox(t[((e + f - 2) % 4) + 1][f])
                 col(e) == <<from(e, 1), from(e, 2), from(e, 3), from(e, 4)>>
      <4>1. SubShiftColumns(t) = <<col(1), col(2), col(3), col(4)>>
        BY DEF SubShiftColumns, Columns
      <4> HIDE DEF from
      <4>2. \A e, f \in 1 .. 4 : SubShiftColumns(t)[e][f] = from(e, f)
        BY <1>1, <4>1
      <4> QED
        BY <4>2 DEF from
    <3>6. SubShiftColumns(s)[c + 1][r + 1] = Sbox(s[(((c + 1) + (r + 1) - 2) % 4) + 1][r + 1])
      BY <3>1, <3>5
    <3> QED
      BY <3>3, <3>4, <3>6 DEF c, r
  <2>2. SubShiftBlock(b) = [n \in 0 .. 15 |-> SubShiftBlock(b)[n]]
    BY DEF SubShiftBlock
  <2>3. InBlock(SubShiftColumns(s)) = [n \in 0 .. 15 |-> SubShiftColumns(s)[Col(n) + 1][Row(n) + 1]]
    BY DEF InBlock
  <2> QED
    BY <2>1, <2>2, <2>3
<1>7. MixColumnsBlock(b) = InBlock(MixColumns(s))
  <2> DEFINE col(c) == <<b[4 * c], b[4 * c + 1], b[4 * c + 2], b[4 * c + 3]>>
  <2>1. \A c \in 0 .. 3 : s[c + 1] \in Word /\ col(c) = s[c + 1]
    <3> TAKE c \in 0 .. 3
    <3>1. s[c + 1] \in Word
      BY DEF WordList
    <3>2. /\ b[4 * c + 0] = s[c + 1][0 + 1] /\ b[4 * c + 1] = s[c + 1][1 + 1]
          /\ b[4 * c + 2] = s[c + 1][2 + 1] /\ b[4 * c + 3] = s[c + 1][3 + 1]
      BY <1>3
    <3>3. 4 * c + 0 = 4 * c /\ 0 + 1 = 1 /\ 1 + 1 = 2 /\ 2 + 1 = 3 /\ 3 + 1 = 4
      OBVIOUS
    <3>4. s[c + 1] = <<s[c + 1][1], s[c + 1][2], s[c + 1][3], s[c + 1][4]>>
      BY <3>1, WordBytes
    <3> QED
      BY <3>1, <3>2, <3>3, <3>4
  <2>2. MixColumnsBlock(b) = [n \in 0 .. 15 |-> mix_col(col(Col(n)))[Row(n) + 1]]
    BY <1>2 DEF MixColumnsBlock, ByColumn
  <2> HIDE DEF col
  <2>3. \A c \in 0 .. 3 : mix_col(col(c)) = Mixed(s[c + 1])
    BY <2>1, MixColIsMixed
  <2>4. \A c \in 1 .. 4 : MixColumns(s)[c] = Mixed(s[c])
    <3> DEFINE row(v, r) == Times2[v[r]] (+) Times3[v[(r % 4) + 1]]
                              (+) v[((r + 1) % 4) + 1] (+) v[((r + 2) % 4) + 1]
               mixed(d) == <<row(s[d], 1), row(s[d], 2), row(s[d], 3), row(s[d], 4)>>
    <3>1. MixColumns(s) = <<mixed(1), mixed(2), mixed(3), mixed(4)>>
      BY DEF MixColumns, Columns
    <3>2. /\ (1 % 4) + 1 = 2 /\ (2 % 4) + 1 = 3 /\ (3 % 4) + 1 = 4 /\ (4 % 4) + 1 = 1
          /\ ((1 + 1) % 4) + 1 = 3 /\ ((2 + 1) % 4) + 1 = 4 /\ ((3 + 1) % 4) + 1 = 1 /\ ((4 + 1) % 4) + 1 = 2
          /\ ((1 + 2) % 4) + 1 = 4 /\ ((2 + 2) % 4) + 1 = 1 /\ ((3 + 2) % 4) + 1 = 2 /\ ((4 + 2) % 4) + 1 = 3
      OBVIOUS
    <3>3. \A d \in 1 .. 4 : mixed(d) = Mixed(s[d])
      BY <3>2 DEF Mixed
    <3> HIDE DEF mixed
    <3> QED
      BY <1>1, <3>1, <3>3
  <2>5. \A n \in 0 .. 15 : mix_col(col(Col(n))) = MixColumns(s)[Col(n) + 1]
    BY <1>2, <2>3, <2>4
  <2>6. InBlock(MixColumns(s)) = [n \in 0 .. 15 |-> MixColumns(s)[Col(n) + 1][Row(n) + 1]]
    BY DEF InBlock
  <2> QED
    BY <2>2, <2>5, <2>6
<1> QED
  BY <1>5, <1>6, <1>7 DEF b

(***************************************************************************)
(* The exclusive or of three bytes.                                        *)
(***************************************************************************)
LEMMA XorAssociates ==
  ASSUME NEW x, NEW y, NEW u, x \in BYTE, y \in BYTE, u \in BYTE
  PROVE  (x (+) y) (+) u = x (+) (y (+) u)
<1> DEFINE t1 == x (+) y t2 == y (+) u s1 == t1 (+) u s2 == x (+) t2
           In(v, j) == j \in Bits(v)
<1>1. /\ t1 \in BYTE /\ \A j \in 0 .. 7 : In(t1, j) <=> ~ (In(x, j) <=> In(y, j))
  BY XorIsDifference
<1>2. /\ t2 \in BYTE /\ \A j \in 0 .. 7 : In(t2, j) <=> ~ (In(y, j) <=> In(u, j))
  BY XorIsDifference
<1> HIDE DEF t1, t2
<1>3. /\ s1 \in BYTE /\ \A j \in 0 .. 7 : In(s1, j) <=> ~ (In(t1, j) <=> In(u, j))
  BY <1>1, XorIsDifference
<1>4. /\ s2 \in BYTE /\ \A j \in 0 .. 7 : In(s2, j) <=> ~ (In(x, j) <=> In(t2, j))
  BY <1>2, XorIsDifference
<1> HIDE DEF s1, s2
<1>5. \A j \in 0 .. 7 : In(s1, j) <=> In(s2, j)
  BY <1>1, <1>2, <1>3, <1>4
<1>6. s1 = s2
  BY <1>3, <1>4, <1>5, SameBits
<1> QED
  BY <1>6 DEF s1, s2, t1, t2

(***************************************************************************)
(* aes_key_expand_128 makes of a round key of the standard the next.       *)
(***************************************************************************)
LEMMA ExpandKeyIsSchedule ==
  ASSUME NEW key, NEW V \in Schedules(key, 4, 40), NEW r \in 1 .. 10
  PROVE  /\ ExpandKeyBlock(InBlock(RoundKey(V, r - 1)), RoundConstant[r]) = InBlock(RoundKey(V, r))
         /\ RoundKey(V, r - 1) \in WordList(4)
<1> DEFINE k0 == InBlock(RoundKey(V, r - 1))
           rc == RoundConstant[r]
           e == ExpandKeyBlock(k0, rc)
<1>1. /\ V \in [1 .. 44 -> Word]
      /\ \A n \in 4 .. 43 : V[n + 1] = WordAdd(V[n - 4 + 1], Temp(V[n], n, 4))
  <2>1. 4 + 40 = 44 /\ 4 + 40 - 1 = 43
    OBVIOUS
  <2> QED
    BY <2>1 DEF Schedules
<1>2. \A m \in 0 .. 10 : /\ RoundKey(V, m) \in WordList(4)
                         /\ RoundKey(V, m) = [c \in 1 .. 4 |-> V[4 * m + c]]
  <2> DEFINE Nk == 4
  <2>1. Nk \in KeySizes /\ 3 * Nk + 28 = 40 /\ Nk + 6 = 10
    BY DEF KeySizes
  <2>2. V \in Schedules(key, Nk, 40)
    OBVIOUS
  <2> HIDE DEF Nk
  <2>3. \A m \in 0 .. Nk + 6 : /\ RoundKey(V, m) \in WordList(4)
                               /\ RoundKey(V, m) = [c \in 1 .. 4 |-> V[4 * m + c]]
    BY <2>1, <2>2, RoundKeys
  <2> QED
    BY <2>1, <2>3
<1>3. rc \in BYTE /\ r - 1 \in 0 .. 10 /\ r \in 0 .. 10
  BY RoundConstants
<1>4. k0 \in ByteBlock
  BY <1>2, <1>3, BlocksAreWords
<1>5. ASSUME NEW m \in 0 .. 10, NEW n \in 0 .. 15
      PROVE  InBlock(RoundKey(V, m))[n] = V[4 * m + (Col(n) + 1)][Row(n) + 1]
  <2>1. Col(n) + 1 \in 1 .. 4
    BY Places
  <2> QED
    BY <1>2, <2>1 DEF InBlock
<1>6. ASSUME NEW c \in 0 .. 3, NEW j \in 0 .. 3
      PROVE  k0[4 * c + j] = V[4 * r + c - 3][j + 1]
  <2> DEFINE n == 4 * c + j
  <2>1. n \in 0 .. 15 /\ Row(n) = j /\ Col(n) = c
    BY Places
  <2>2. 4 * (r - 1) + (c + 1) = 4 * r + c - 3
    OBVIOUS
  <2> HIDE DEF n
  <2>3. k0[n] = V[4 * r + c - 3][j + 1]
    BY <1>3, <1>5, <2>1, <2>2
  <2> QED
    BY <2>3 DEF n
<1> HIDE DEF k0
<1>7. /\ \A n \in 0 .. 3 : e[n] = (k0[n] (+) Sbox(k0[12 + ((n + 1) % 4)])) (+) (IF n = 0 THEN rc ELSE 0)
      /\ \A n \in 4 .. 15 : e[n] = k0[n] (+) e[n - 4]
      /\ e \in ByteBlock
  BY <1>3, <1>4, ExpandKeyWords
<1> HIDE DEF e, rc
<1>8. \A m \in 1 .. 44 : \A j \in 1 .. 4 : V[m][j] \in BYTE
  BY <1>1, WordBytes
<1>9. ASSUME NEW j \in 0 .. 3
      PROVE  e[4 * 0 + j] = V[4 * r + 0 + 1][j + 1]
  <2> DEFINE x == V[4 * r - 3]
             y == V[4 * r]
  <2>1. V[4 * r + 1] = WordAdd(x, WordAdd(SubWord(RotWord(y)), <<rc, 0, 0, 0>>))
    <3>1. /\ 4 * r \in 4 .. 43 /\ 4 * r - 4 + 1 = 4 * r - 3
          /\ (4 * r) % 4 = 0 /\ (4 * r) \div 4 = r
      OBVIOUS
    <3>2. Temp(y, 4 * r, 4) = WordAdd(SubWord(RotWord(y)), <<rc, 0, 0, 0>>)
      BY <3>1 DEF Temp, rc
    <3> QED
      BY <1>1, <3>1, <3>2
  <2>2. /\ \A m \in 1 .. 4 : x[m] \in BYTE /\ y[m] \in BYTE
        /\ k0[0] = x[1] /\ k0[1] = x[2] /\ k0[2] = x[3] /\ k0[3] = x[4]
        /\ k0[12] = y[1] /\ k0[13] = y[2] /\ k0[14] = y[3] /\ k0[15] = y[4]
    <3>1. 4 * r - 3 \in 1 .. 44 /\ 4 * r \in 1 .. 44
      OBVIOUS
    <3>2. \A m \in 0 .. 3 : k0[4 * 0 + m] = V[4 * r + 0 - 3][m + 1] /\ k0[4 * 3 + m] = V[4 * r + 3 - 3][m + 1]
      BY <1>6
    <3>3. /\ 4 * r + 0 - 3 = 4 * r - 3 /\ 4 * r + 3 - 3 = 4 * r
          /\ 4 * 0 + 0 = 0 /\ 4 * 0 + 1 = 1 /\ 4 * 0 + 2 = 2 /\ 4 * 0 + 3 = 3
          /\ 4 * 3 + 0 = 12 /\ 4 * 3 + 1 = 13 /\ 4 * 3 + 2 = 14 /\ 4 * 3 + 3 = 15
          /\ 0 + 1 = 1 /\ 1 + 1 = 2 /\ 2 + 1 = 3 /\ 3 + 1 = 4
      OBVIOUS
    <3> HIDE DEF x, y
    <3>4. /\ k0[0] = x[1] /\ k0[1] = x[2] /\ k0[2] = x[3] /\ k0[3] = x[4]
          /\ k0[12] = y[1] /\ k0[13] = y[2] /\ k0[14] = y[3] /\ k0[15] = y[4]
      BY <3>2, <3>3 DEF x, y
    <3> QED
      BY <1>8, <3>1, <3>4 DEF x, y
  <2> HIDE DEF x, y
  <2>3. V[4 * r + 1] = <<x[1] (+) (Sbox(y[2]) (+) rc), x[2] (+) (Sbox(y[3]) (+) 0),
                         x[3] (+) (Sbox(y[4]) (+) 0), x[4] (+) (Sbox(y[1]) (+) 0)>>
    BY <2>1 DEF WordAdd, SubWord, RotWord
  <2>4. /\ e[0] = (x[1] (+) Sbox(y[2])) (+) rc /\ e[1] = (x[2] (+) Sbox(y[3])) (+) 0
        /\ e[2] = (x[3] (+) Sbox(y[4])) (+) 0 /\ e[3] = (x[4] (+) Sbox(y[1])) (+) 0
    <3>1. /\ 12 + ((0 + 1) % 4) = 13 /\ 12 + ((1 + 1) % 4) = 14
          /\ 12 + ((2 + 1) % 4) = 15 /\ 12 + ((3 + 1) % 4) = 12
      OBVIOUS
    <3> QED
      BY <1>7, <2>2, <3>1
  <2>5. /\ x[1] \in BYTE /\ x[2] \in BYTE /\ x[3] \in BYTE /\ x[4] \in BYTE
        /\ Sbox(y[1]) \in BYTE /\ Sbox(y[2]) \in BYTE /\ Sbox(y[3]) \in BYTE /\ Sbox(y[4]) \in BYTE
        /\ rc \in BYTE /\ 0 \in BYTE
    BY <1>3, <2>2, TableWords, ZeroHasNoBits DEF rc
  <2>6. /\ e[0] = x[1] (+) (Sbox(y[2]) (+) rc) /\ e[1] = x[2] (+) (Sbox(y[3]) (+) 0)
        /\ e[2] = x[3] (+) (Sbox(y[4]) (+) 0) /\ e[3] = x[4] (+) (Sbox(y[1]) (+) 0)
    BY <2>4, <2>5, XorAssociates
  <2>7. /\ e[0] = V[4 * r + 1][1] /\ e[1] = V[4 * r + 1][2]
        /\ e[2] = V[4 * r + 1][3] /\ e[3] = V[4 * r + 1][4]
    BY <2>3, <2>6
  <2>8. j \in {0, 1, 2, 3} /\ 4 * 0 + j = j /\ 4 * r + 0 + 1 = 4 * r + 1
    OBVIOUS
  <2> QED
    BY <2>7, <2>8
<1>10. ASSUME NEW c \in 1 .. 3, \A j \in 0 .. 3 : e[4 * (c - 1) + j] = V[4 * r + (c - 1) + 1][j + 1]
       PROVE  \A j \in 0 .. 3 : e[4 * c + j] = V[4 * r + c + 1][j + 1]
  <2> TAKE j \in 0 .. 3
  <2>1. V[4 * r + c + 1] = WordAdd(V[4 * r + c - 3], V[4 * r + c])
    <3> DEFINE n == 4 * r + c
    <3>1. n \in 4 .. 43 /\ n - 4 + 1 = n - 3 /\ n % 4 # 0 /\ ~ (4 > 6)
      OBVIOUS
    <3> HIDE DEF n
    <3>2. Temp(V[n], n, 4) = V[n]
      BY <3>1 DEF Temp
    <3>3. V[n + 1] = WordAdd(V[n - 3], V[n])
      BY <1>1, <3>1, <3>2
    <3> QED
      BY <3>3 DEF n
  <2>2. 4 * c + j \in 4 .. 15 /\ (4 * c + j) - 4 = 4 * (c - 1) + j /\ 4 * r + (c - 1) + 1 = 4 * r + c
    OBVIOUS
  <2>3. e[4 * c + j] = V[4 * r + c - 3][j + 1] (+) V[4 * r + c][j + 1]
    <3>1. c \in 0 .. 3
      OBVIOUS
    <3>2. k0[4 * c + j] = V[4 * r + c - 3][j + 1]
      BY <1>6, <3>1
    <3>3. e[4 * (c - 1) + j] = V[4 * r + c][j + 1]
      BY <1>10, <2>2
    <3>4. e[4 * c + j] = k0[4 * c + j] (+) e[(4 * c + j) - 4]
      BY <1>7, <2>2
    <3> QED
      BY <2>2, <3>2, <3>3, <3>4
  <2>4. \A x, y : WordAdd(x, y)[j + 1] = x[j + 1] (+) y[j + 1]
    <3>1. j + 1 \in {1, 2, 3, 4}
      OBVIOUS
    <3> QED
      BY <3>1 DEF WordAdd
  <2> QED
    BY <2>1, <2>3, <2>4
<1>11. \A c \in 0 .. 3 : \A j \in 0 .. 3 : e[4 * c + j] = V[4 * r + c + 1][j + 1]
  <2> DEFINE T == {c \in 0 .. 3 : \A j \in 0 .. 3 : e[4 * c + j] = V[4 * r + c + 1][j + 1]}
  <2>1. 0 \in T
    BY <1>9
  <2>2. \A c \in 1 .. 3 : c - 1 \in T => c \in T
    BY <1>10
  <2> HIDE DEF T
  <2>3. \A c \in 0 .. 3 : c \in T
    BY <2>1, <2>2, UpTo
  <2> QED
    BY <2>3 DEF T
<1>12. \A n \in 0 .. 15 : e[n] = InBlock(RoundKey(V, r))[n]
  <2> TAKE n \in 0 .. 15
  <2>1. /\ Row(n) \in 0 .. 3 /\ Col(n) \in 0 .. 3 /\ n = 4 * Col(n) + Row(n)
        /\ 4 * r + (Col(n) + 1) = 4 * r + Col(n) + 1
    BY Places
  <2>2. e[n] = V[4 * r + Col(n) + 1][Row(n) + 1]
    BY <1>11, <2>1
  <2> QED
    BY <1>3, <1>5, <2>1, <2>2
<1>13. e = [n \in 0 .. 15 |-> e[n]]
  BY <1>7 DEF ByteBlock
<1>14. InBlock(RoundKey(V, r)) = [n \in 0 .. 15 |-> InBlock(RoundKey(V, r))[n]]
  BY DEF InBlock
<1>15. e = InBlock(RoundKey(V, r))
  BY <1>12, <1>13, <1>14
<1> QED
  BY <1>2, <1>3, <1>15 DEF e, k0, rc

(***************************************************************************)
(* The round keys and the rounds of Aes, with the operations of the RTL,   *)
(* are those of the standard.                                              *)
(***************************************************************************)
LEMMA CoreRounds ==
  ASSUME NEW key \in WordList(4), NEW text \in WordList(4)
  PROVE  LET K == A!KeySchedule(InBlock(key))
             R == A!CipherRounds(InBlock(key), InBlock(text))
             V == KeyWords(key)
             s == CipherStates(key, text)
         IN  /\ \A r \in 0 .. 10 : K[r] = InBlock(RoundKey(V, r))
             /\ \A r \in 0 .. 9 : R[r] = InBlock(s[r])
             /\ \A r \in 0 .. 10 : RoundKey(V, r) \in WordList(4) /\ s[r] \in WordList(4)
             /\ s[10] = AddKey(SubShiftColumns(s[9]), RoundKey(V, 10))
<1> DEFINE K == A!KeySchedule(InBlock(key))
           R == A!CipherRounds(InBlock(key), InBlock(text))
           V == KeyWords(key)
           s == CipherStates(key, text)
           Nk == 4
<1>1. Nk \in KeySizes /\ 3 * Nk + 28 = 40 /\ Nk + 6 = 10 /\ key \in WordList(Nk)
  BY DEF KeySizes
<1>2. A!Nr = 10 /\ A!Nr - 1 = 9 /\ \A r \in 1 .. 10 : A!Rcon[r] = RoundConstant[r]
  <2>1. A!Nr = 10 /\ A!Rcon = Constants
    BY DEF A!Nr, A!Rcon, Constants
  <2> QED
    BY <2>1, RoundConstants
<1>3. /\ K[0] = InBlock(key)
      /\ \A r \in 1 .. 10 : K[r] = ExpandKeyBlock(K[r - 1], RoundConstant[r])
  <2>1. /\ K[0] = InBlock(key)
        /\ \A r \in 1 .. A!Nr : K[r] = ExpandKeyBlock(K[r - 1], A!Rcon[r])
    BY A!KeyScheduleEquation, ClosureOfTheBytes, InversesOfTheBytes
  <2> HIDE DEF K
  <2> QED
    BY <1>2, <2>1
<1>4. /\ R[0] = XorBlock(InBlock(text), K[0])
      /\ \A r \in 1 .. 9 : R[r] = XorBlock(MixColumnsBlock(SubShiftBlock(R[r - 1])), K[r])
  <2>1. /\ R[0] = XorBlock(InBlock(text), K[0])
        /\ \A r \in 1 .. A!Nr - 1 : R[r] = A!CipherRound(R[r - 1], K[r])
    BY A!CipherEquation, ClosureOfTheBytes, InversesOfTheBytes
  <2> HIDE DEF K, R
  <2> QED
    BY <1>2, <2>1 DEF A!CipherRound
<1> HIDE DEF K, R
<1>5. /\ s[0] = AddKey(text, RoundKey(V, 0))
      /\ \A r \in 1 .. 10 : s[r] = CipherRoundOf(s[r - 1], V, r, 10)
      /\ \A r \in 0 .. 10 : s[r] \in WordList(4)
  <2> HIDE DEF Nk, V, s
  <2>1. /\ s[0] = AddKey(text, RoundKey(V, 0))
        /\ \A r \in 1 .. Nk + 6 : s[r] = CipherRoundOf(s[r - 1], V, r, Nk + 6)
        /\ \A r \in 0 .. Nk + 6 : s[r] \in WordList(4)
    BY <1>1, CipherStatesByRound DEF V, s
  <2> QED
    BY <1>1, <2>1
<1> HIDE DEF s
<1>6. V \in Schedules(key, 4, 40)
  <2> HIDE DEF Nk
  <2>1. V \in Schedules(key, Nk, 40)
    BY <1>1, KeyWordsAreSchedule
  <2> QED
    BY <2>1 DEF Nk
<1> HIDE DEF V
<1>7. \A r \in 0 .. 10 : RoundKey(V, r) \in WordList(4)
  <2> HIDE DEF Nk
  <2>1. V \in Schedules(key, Nk, 3 * Nk + 28)
    BY <1>1, <1>6 DEF Nk
  <2>2. \A r \in 0 .. Nk + 6 : RoundKey(V, r) \in WordList(4)
    BY <1>1, <2>1, RoundKeys
  <2> QED
    BY <1>1, <2>2
<1>8. RoundKey(V, 0) = key
  <2>1. \A j \in 1 .. 4 : V[j] = key[j]
    BY <1>6 DEF Schedules
  <2>2. RoundKey(V, 0) = <<V[4 * 0 + 1], V[4 * 0 + 2], V[4 * 0 + 3], V[4 * 0 + 4]>>
    BY DEF RoundKey, Columns
  <2>3. 4 * 0 + 1 = 1 /\ 4 * 0 + 2 = 2 /\ 4 * 0 + 3 = 3 /\ 4 * 0 + 4 = 4
    OBVIOUS
  <2>4. key = <<key[1], key[2], key[3], key[4]>>
    BY FourWords
  <2> QED
    BY <2>1, <2>2, <2>3, <2>4
<1>9. \A r \in 0 .. 10 : K[r] = InBlock(RoundKey(V, r))
  <2> DEFINE T == {r \in 0 .. 10 : K[r] = InBlock(RoundKey(V, r))}
  <2>1. 0 \in T
    BY <1>3, <1>8
  <2>2. ASSUME NEW r \in 1 .. 10, r - 1 \in T
        PROVE  r \in T
    BY <1>3, <1>6, <2>2, ExpandKeyIsSchedule
  <2> HIDE DEF T
  <2>3. \A r \in 0 .. 10 : r \in T
    BY <2>1, <2>2, UpTo
  <2> QED
    BY <2>3 DEF T
<1>10. \A r \in 0 .. 9 : R[r] = InBlock(s[r])
  <2> DEFINE T == {r \in 0 .. 9 : R[r] = InBlock(s[r])}
  <2>1. 0 \in T
    <3>1. XorBlock(InBlock(text), InBlock(RoundKey(V, 0))) = InBlock(AddKey(text, RoundKey(V, 0)))
      BY <1>7, BlockOperations
    <3> QED
      BY <1>4, <1>5, <1>9, <3>1
  <2>2. ASSUME NEW r \in 1 .. 9, r - 1 \in T
        PROVE  r \in T
    <3> DEFINE u == SubShiftColumns(s[r - 1])
               z == RoundKey(V, r)
    <3>1. r - 1 \in 0 .. 10 /\ r \in 0 .. 10 /\ r \in 1 .. 10 /\ r < 10
      OBVIOUS
    <3>2. s[r - 1] \in WordList(4) /\ z \in WordList(4)
      BY <1>5, <1>7, <3>1
    <3>3. u \in WordList(4)
      BY <3>2, StateOperations
    <3>4. MixColumns(u) \in WordList(4)
      BY <3>3, StateOperations
    <3>5. SubShiftBlock(InBlock(s[r - 1])) = InBlock(u)
      BY <3>2, BlockOperations
    <3> HIDE DEF u, z
    <3>6. MixColumnsBlock(InBlock(u)) = InBlock(MixColumns(u))
      BY <3>3, BlockOperations
    <3>7. XorBlock(InBlock(MixColumns(u)), InBlock(z)) = InBlock(AddKey(MixColumns(u), z))
      BY <3>2, <3>4, BlockOperations
    <3>8. s[r] = AddKey(MixColumns(u), z)
      BY <1>5, <3>1 DEF CipherRoundOf, u, z
    <3>9. R[r - 1] = InBlock(s[r - 1]) /\ K[r] = InBlock(z)
      BY <1>9, <2>2, <3>1 DEF z
    <3>10. R[r] = InBlock(s[r])
      BY <1>4, <3>5, <3>6, <3>7, <3>8, <3>9
    <3> QED
      BY <3>10
  <2> HIDE DEF T
  <2>3. \A r \in 0 .. 9 : r \in T
    BY <2>1, <2>2, UpTo
  <2> QED
    BY <2>3 DEF T
<1>11. s[10] = AddKey(SubShiftColumns(s[9]), RoundKey(V, 10))
  <2>1. 10 \in 1 .. 10 /\ 10 - 1 = 9 /\ ~ (10 < 10)
    OBVIOUS
  <2> QED
    BY <1>5, <2>1 DEF CipherRoundOf
<1> QED
  BY <1>5, <1>7, <1>9, <1>10, <1>11 DEF K, R, V, s

(***************************************************************************)
(* The encryption the core is proved to compute, with the operations of    *)
(* the RTL, is that of FIPS-197 on every 128-bit key and every text, and   *)
(* the decryption gets the text back.                                      *)
(***************************************************************************)
THEOREM CoreIsTheStandard ==
  ASSUME NEW key \in ByteBlock, NEW text \in ByteBlock
  PROVE  LET cipher == A!Encrypt(key, text)
         IN  /\ cipher = InBlock(CipherStates(InColumns(key), InColumns(text))[10])
             /\ A!Decrypt(key, cipher) = text
<1> DEFINE kc == InColumns(key)
           tc == InColumns(text)
           s == CipherStates(kc, tc)
           V == KeyWords(kc)
<1>1. kc \in WordList(4) /\ tc \in WordList(4) /\ InBlock(kc) = key /\ InBlock(tc) = text
  BY BlocksAreWords
<1> HIDE DEF kc, tc
<1>2. /\ A!KeySchedule(key)[10] = InBlock(RoundKey(V, 10))
      /\ A!CipherRounds(key, text)[9] = InBlock(s[9])
      /\ RoundKey(V, 10) \in WordList(4) /\ s[9] \in WordList(4)
      /\ s[10] = AddKey(SubShiftColumns(s[9]), RoundKey(V, 10))
  <2>1. 10 \in 0 .. 10 /\ 9 \in 0 .. 9 /\ 9 \in 0 .. 10
    OBVIOUS
  <2> QED
    BY <1>1, <2>1, CoreRounds
<1> DEFINE z == RoundKey(V, 10)
           u == SubShiftColumns(s[9])
<1>3. SubShiftBlock(InBlock(s[9])) = InBlock(u) /\ u \in WordList(4)
  BY <1>2, BlockOperations, StateOperations
<1>4. XorBlock(InBlock(u), InBlock(z)) = InBlock(AddKey(u, z))
  <2> HIDE DEF u, z
  <2> QED
    BY <1>2, <1>3, BlockOperations DEF z
<1>5. A!Encrypt(key, text) = XorBlock(SubShiftBlock(A!CipherRounds(key, text)[9]), A!KeySchedule(key)[10])
  <2>1. A!Nr = 10 /\ A!Nr - 1 = 9
    BY DEF A!Nr
  <2> QED
    BY <2>1 DEF A!Encrypt
<1>6. A!Encrypt(key, text) = InBlock(s[10])
  BY <1>2, <1>3, <1>4, <1>5
<1>7. A!Decrypt(key, A!Encrypt(key, text)) = text
  BY A!DecryptInverts, ClosureOfTheBytes, InversesOfTheBytes
<1> QED
  BY <1>6, <1>7 DEF s, kc, tc
=============================================================================
