------------------------------ MODULE KeyProofs ------------------------------
(***************************************************************************)
(* The keys and values of the archive's tables, with bytes of any size and *)
(* fields of any width: the store's order of the keys is the order of what *)
(* they stand for, ranges hold the keys that are meant, and what is        *)
(* written is read back.  It rests on three facts: a number of a field is  *)
(* the number of its bytes, byte strings of one length are in the order of *)
(* their numbers, and a string of two parts is ordered by its first part   *)
(* and then by its second.                                                 *)
(***************************************************************************)
EXTENDS Questions, SequenceTheorems, WellFoundedInduction, TLAPS

-----------------------------------------------------------------------------
(* Induction, and functions defined by it *)

\* A nonempty set of naturals has a least element.
LEMMA LeastOf ==
  ASSUME NEW T, T \subseteq Nat, T # {}
  PROVE  \E x \in T : \A y \in T : x <= y
<1> DEFINE R == OpToRel(<, Nat)
<1>1. IsWellFoundedOn(R, Nat) BY NatLessThanWellFounded
<1>2. ASSUME NEW x \in Nat, NEW y \in Nat, x < y PROVE <<x, y>> \in R BY <1>2 DEF OpToRel
<1> HIDE DEF R
<1>3. PICK x \in T : \A y \in T : ~ (<<y, x>> \in R) BY <1>1, WFMin
<1>4. ASSUME NEW y \in T PROVE x <= y
  <2>1. ~ (y < x) BY <1>2, <1>3
  <2> QED BY <2>1
<1> QED BY <1>4

\* A set of naturals up to n that has 0, and the next of each it has, has them all.
LEMMA AllUpTo ==
  ASSUME NEW n \in Nat, NEW T, 0 \in T, \A i \in 1 .. n : i - 1 \in T => i \in T
  PROVE  \A i \in 0 .. n : i \in T
<1> DEFINE Wrong == {i \in 0 .. n : i \notin T}
<1>1. ASSUME Wrong # {} PROVE FALSE
  <2>1. Wrong \subseteq Nat OBVIOUS
  <2>2. \A i \in Wrong : i \in 0 .. n /\ i \notin T OBVIOUS
  <2>3. \A i \in 0 .. n : i \notin Wrong => i \in T OBVIOUS
  <2> HIDE DEF Wrong
  <2>4. PICK i \in Wrong : \A k \in Wrong : i <= k BY <1>1, <2>1, LeastOf
  <2>5. i \in 0 .. n /\ i \notin T BY <2>2
  <2>6. i # 0 BY <2>5
  <2>7. i \in 1 .. n /\ i - 1 \in 0 .. n BY <2>5, <2>6
  <2>8. i - 1 \notin Wrong
    <3> SUFFICES ASSUME i - 1 \in Wrong PROVE FALSE OBVIOUS
    <3>1. i <= i - 1 BY <2>4
    <3> QED BY <2>7, <3>1
  <2>9. i - 1 \in T BY <2>3, <2>7, <2>8
  <2> QED BY <2>5, <2>7, <2>9
<1> QED BY <1>1

\* A function is defined up to n by its first value and a step for each next one.
StepsFrom(a, n, step, f) == f = [i \in 0 .. n |-> IF i = 0 THEN a ELSE step[i][f[i - 1]]]

LEMMA StepsGoOn ==
  ASSUME NEW S, NEW a \in S, NEW n \in Nat, NEW step \in [1 .. n -> [S -> S]]
  PROVE  \E f \in [0 .. n -> S] : StepsFrom(a, n, step, f)
<1> DEFINE Runs(f, m) == f[0] = a /\ \A i \in 1 .. m : f[i] = step[i][f[i - 1]]
           Right == {m \in 0 .. n : \E f \in [0 .. m -> S] : Runs(f, m)}
<1>1. 0 \in Right
  <2> DEFINE f == [i \in 0 .. 0 |-> a]
  <2>1. f \in [0 .. 0 -> S] /\ Runs(f, 0) OBVIOUS
  <2> HIDE DEF f, Runs
  <2> QED BY <2>1
<1>2. ASSUME NEW m \in 1 .. n, m - 1 \in Right PROVE m \in Right
  <2>1. PICK f \in [0 .. m - 1 -> S] : Runs(f, m - 1) BY <1>2
  <2> DEFINE g == [i \in 0 .. m |-> IF i = m THEN step[m][f[m - 1]] ELSE f[i]]
  <2>2. m - 1 \in 0 .. m - 1 /\ m \in 0 .. n /\ \A i \in 0 .. m : i # m => i \in 0 .. m - 1 OBVIOUS
  <2>3. step[m] \in [S -> S] /\ f[m - 1] \in S BY <2>2
  <2>4. g \in [0 .. m -> S] BY <2>2, <2>3
  <2>5. g[m] = step[m][f[m - 1]] /\ \A i \in 0 .. m - 1 : g[i] = f[i] OBVIOUS
  <2> HIDE DEF g
  <2>6. Runs(g, m)
    <3>1. 0 \in 0 .. m - 1 OBVIOUS
    <3>2. g[0] = a BY <2>1, <2>5, <3>1
    <3>3. ASSUME NEW i \in 1 .. m PROVE g[i] = step[i][g[i - 1]]
      <4>1. i - 1 \in 0 .. m - 1 OBVIOUS
      <4>2. g[i - 1] = f[i - 1] BY <2>5, <4>1
      <4>3. CASE i = m BY <2>5, <4>2, <4>3
      <4>4. CASE i # m
        <5>1. i \in 1 .. m - 1 /\ i \in 0 .. m - 1 BY <4>4
        <5>2. f[i] = step[i][f[i - 1]] BY <2>1, <5>1
        <5> QED BY <2>5, <4>2, <5>1, <5>2
      <4> QED BY <4>3, <4>4
    <3> QED BY <3>2, <3>3
  <2> HIDE DEF Runs
  <2> QED BY <2>2, <2>4, <2>6
<1> HIDE DEF Right, Runs
<1>3. n \in Right
  <2>1. \A i \in 0 .. n : i \in Right BY <1>1, <1>2, AllUpTo
  <2> QED BY <2>1
<1>4. PICK f \in [0 .. n -> S] : Runs(f, n) BY <1>3 DEF Right
<1>5. ASSUME NEW i \in 0 .. n PROVE f[i] = IF i = 0 THEN a ELSE step[i][f[i - 1]]
  <2>1. CASE i = 0 BY <1>4, <2>1 DEF Runs
  <2>2. CASE i # 0
    <3>1. i \in 1 .. n BY <2>2
    <3> QED BY <1>4, <2>2, <3>1 DEF Runs
  <2> QED BY <2>1, <2>2
<1>6. f = [i \in 0 .. n |-> f[i]] OBVIOUS
<1>7. [i \in 0 .. n |-> f[i]] = [i \in 0 .. n |-> IF i = 0 THEN a ELSE step[i][f[i - 1]]]
  BY <1>5
<1> QED BY <1>6, <1>7 DEF StepsFrom

-----------------------------------------------------------------------------
(* Numbers and bytes *)

\* What a digit leaves of a number, and what it takes.
LEMMA DigitOf ==
  ASSUME NEW base \in Nat \ {0}, NEW x \in Nat, NEW c \in 0 .. base - 1
  PROVE  /\ (x * base + c) \div base = x
         /\ (x * base + c) % base = c
<1>1. x * base \in Nat /\ x * base + c \in Nat OBVIOUS
<1> QED BY <1>1, SMTT(30)

\* Numbers with a digit more are in the order of what they were, then of the digit.
LEMMA DigitOrder ==
  ASSUME NEW base \in Nat \ {0}, NEW x \in Nat, NEW y \in Nat,
         NEW c \in 0 .. base - 1, NEW d \in 0 .. base - 1
  PROVE  /\ x < y => x * base + c < y * base + d
         /\ x = y /\ c < d => x * base + c < y * base + d
<1>1. ASSUME x < y PROVE x * base + c < y * base + d
  <2>1. (x + 1) * base <= y * base BY <1>1, SMTT(30)
  <2>2. (x + 1) * base = x * base + base BY SMTT(30)
  <2>3. x * base \in Nat /\ y * base \in Nat OBVIOUS
  <2> QED BY <2>1, <2>2, <2>3
<1>2. ASSUME x = y, c < d PROVE x * base + c < y * base + d
  <2>1. x * base \in Nat OBVIOUS
  <2> QED BY <1>2, <2>1
<1> QED BY <1>1, <1>2

Bytes(n) == [1 .. n -> 0 .. Byte]
Base == Byte + 1

\* The function FromBe is defined by: the number of the first i bytes.
Numbers(bytes, val) ==
  val = [i \in 0 .. Len(bytes) |-> IF i = 0 THEN 0 ELSE val[i - 1] * (Byte + 1) + bytes[i]]

LEMMA FunctionsAreSeqs ==
  ASSUME NEW S, NEW n \in Nat, NEW w \in [1 .. n -> S]
  PROVE  w \in Seq(S) /\ Len(w) = n
  OBVIOUS

LEMMA BytesAreSeqs ==
  ASSUME NEW n \in Nat, NEW w \in Bytes(n)
  PROVE  /\ w \in Seq(0 .. Byte) /\ w \in Seq(Nat) /\ Len(w) = n
         /\ \A i \in 1 .. n : w[i] \in 0 .. Byte /\ w[i] \in Nat
<1>1. 0 .. Byte \subseteq Nat BY KeysAssumption
<1>2. w \in [1 .. n -> 0 .. Byte] BY DEF Bytes
<1>3. w \in Seq(0 .. Byte) /\ Len(w) = n BY <1>2, FunctionsAreSeqs
<1>4. w \in Seq(Nat)
  <2>1. w \in [1 .. n -> Nat] BY <1>1, <1>2
  <2> QED BY <2>1, FunctionsAreSeqs
<1>5. \A i \in 1 .. n : w[i] \in 0 .. Byte BY <1>2
<1> QED BY <1>1, <1>3, <1>4, <1>5

LEMMA ValueOf ==
  ASSUME NEW n \in Nat, NEW w \in Bytes(n)
  PROVE  \E val \in [0 .. n -> Nat] :
           /\ FromBe(w) = val[n] /\ val[0] = 0
           /\ \A i \in 1 .. n : val[i] = val[i - 1] * Base + w[i]
<1> DEFINE step == [i \in 1 .. n |-> [x \in Nat |-> x * Base + w[i]]]
<1>1. Len(w) = n /\ \A i \in 1 .. n : w[i] \in Nat BY BytesAreSeqs
<1>2. Base \in Nat BY KeysAssumption DEF Base
<1>3. \A i \in 1 .. n, x \in Nat : x * Base + w[i] \in Nat BY <1>1, <1>2
<1>4. step \in [1 .. n -> [Nat -> Nat]] BY <1>3
<1>5. \A i \in 1 .. n, x \in Nat : step[i][x] = x * Base + w[i] OBVIOUS
<1> HIDE DEF step
<1>6. PICK f \in [0 .. n -> Nat] : StepsFrom(0, n, step, f)
  <2>1. 0 \in Nat OBVIOUS
  <2> QED BY <1>4, <2>1, StepsGoOn, Zenon
<1>7. ASSUME NEW i \in 0 .. n
      PROVE  (IF i = 0 THEN 0 ELSE step[i][f[i - 1]])
               = (IF i = 0 THEN 0 ELSE f[i - 1] * Base + w[i])
  <2>1. CASE i = 0 BY <2>1
  <2>2. CASE i # 0
    <3>1. i \in 1 .. n /\ i - 1 \in 0 .. n BY <2>2
    <3>2. f[i - 1] \in Nat BY <3>1
    <3> QED BY <1>5, <3>1, <3>2
  <2> QED BY <2>1, <2>2
<1>8. Numbers(w, f)
  <2>1. [i \in 0 .. n |-> IF i = 0 THEN 0 ELSE step[i][f[i - 1]]]
          = [i \in 0 .. n |-> IF i = 0 THEN 0 ELSE f[i - 1] * Base + w[i]]
    BY <1>7
  <2> QED BY <1>1, <1>6, <2>1 DEF Numbers, Base, StepsFrom
<1> DEFINE val == CHOOSE g : Numbers(w, g)
<1>9. Numbers(w, val) BY <1>8
<1>10. FromBe(w) = val[n] BY <1>1 DEF FromBe, Numbers
<1> HIDE DEF val
<1>11. \A i \in 0 .. n : val[i] = IF i = 0 THEN 0 ELSE val[i - 1] * Base + w[i]
  BY <1>1, <1>9 DEF Numbers, Base
<1>12. val[0] = 0 /\ \A i \in 1 .. n : val[i] = val[i - 1] * Base + w[i]
  <2>1. 0 \in 0 .. n /\ \A i \in 1 .. n : i \in 0 .. n /\ i # 0 OBVIOUS
  <2> QED BY <1>11, <2>1
<1>13. \A i \in 0 .. n : val[i] \in Nat
  <2> DEFINE T == {i \in 0 .. n : val[i] \in Nat}
  <2>1. 0 \in T BY <1>12
  <2>2. ASSUME NEW i \in 1 .. n, i - 1 \in T PROVE i \in T
    <3>1. val[i] = val[i - 1] * Base + w[i] /\ val[i - 1] \in Nat BY <1>12, <2>2
    <3>2. val[i] \in Nat BY <1>3, <3>1
    <3> QED BY <3>2
  <2>3. \A i \in T : val[i] \in Nat OBVIOUS
  <2> HIDE DEF T
  <2>4. \A i \in 0 .. n : i \in T BY <2>1, <2>2, AllUpTo
  <2> QED BY <2>3, <2>4
<1>14. val = [i \in 0 .. n |-> val[i]]
  <2>1. val = [i \in 0 .. n |-> IF i = 0 THEN 0 ELSE val[i - 1] * (Byte + 1) + w[i]]
    BY <1>1, <1>9 DEF Numbers
  <2> QED BY <2>1
<1>15. val \in [0 .. n -> Nat] BY <1>13, <1>14
<1> QED BY <1>10, <1>12, <1>15

\* The function Be is defined by: what the last i bytes leave of n.
RestsOf(n, len, rest) ==
  rest = [i \in 0 .. len |-> IF i = 0 THEN n ELSE rest[i - 1] \div (Byte + 1)]

LEMMA RestsGoOn ==
  ASSUME NEW n \in Nat, NEW len \in Nat
  PROVE  \E rest : RestsOf(n, len, rest)
<1> DEFINE step == [i \in 1 .. len |-> [x \in Nat |-> x \div Base]]
<1>1. Base \in Nat \ {0} BY KeysAssumption DEF Base
<1>2. \A x \in Nat : x \div Base \in Nat BY <1>1
<1>3. step \in [1 .. len -> [Nat -> Nat]] BY <1>2
<1>4. \A i \in 1 .. len, x \in Nat : step[i][x] = x \div Base OBVIOUS
<1> HIDE DEF step
<1>5. PICK f \in [0 .. len -> Nat] : StepsFrom(n, len, step, f) BY <1>3, StepsGoOn, Zenon
<1>6. ASSUME NEW i \in 0 .. len
      PROVE  (IF i = 0 THEN n ELSE step[i][f[i - 1]]) = (IF i = 0 THEN n ELSE f[i - 1] \div Base)
  <2>1. CASE i = 0 BY <2>1
  <2>2. CASE i # 0
    <3>1. i \in 1 .. len /\ i - 1 \in 0 .. len BY <2>2
    <3>2. f[i - 1] \in Nat BY <3>1
    <3> QED BY <1>4, <3>1, <3>2
  <2> QED BY <2>1, <2>2
<1>7. [i \in 0 .. len |-> IF i = 0 THEN n ELSE step[i][f[i - 1]]]
        = [i \in 0 .. len |-> IF i = 0 THEN n ELSE f[i - 1] \div Base]
  BY <1>6
<1> QED BY <1>5, <1>7 DEF RestsOf, Base, StepsFrom

\* A number is taken apart into the bytes it was put together from.
LEMMA BeOfFromBe ==
  ASSUME NEW n \in Nat, NEW w \in Bytes(n)
  PROVE  Be(FromBe(w), n) = w /\ FromBe(w) \in Nat
<1>1. PICK val \in [0 .. n -> Nat] :
        /\ FromBe(w) = val[n] /\ val[0] = 0
        /\ \A i \in 1 .. n : val[i] = val[i - 1] * Base + w[i]
  BY ValueOf
<1>2. FromBe(w) \in Nat BY <1>1
<1> DEFINE x == FromBe(w)
           rest == CHOOSE f : RestsOf(x, n, f)
<1> HIDE DEF x
<1>3. RestsOf(x, n, rest) BY <1>2, RestsGoOn DEF x
<1>4. Be(x, n) = [i \in 1 .. n |-> rest[n - i] % (Byte + 1)] BY DEF Be, RestsOf
<1> HIDE DEF rest
<1>5. \A i \in 0 .. n : rest[i] = IF i = 0 THEN x ELSE rest[i - 1] \div Base
  BY <1>3 DEF RestsOf, Base
<1>6. rest[0] = x /\ \A i \in 1 .. n : rest[i] = rest[i - 1] \div Base
  <2>1. 0 \in 0 .. n /\ \A i \in 1 .. n : i \in 0 .. n /\ i # 0 OBVIOUS
  <2> QED BY <1>5, <2>1
<1>7. Base \in Nat \ {0} /\ \A i \in 1 .. n : w[i] \in 0 .. Base - 1
  BY KeysAssumption DEF Base, Bytes
<1>8. ASSUME NEW i \in 1 .. n
      PROVE  val[i] \div Base = val[i - 1] /\ val[i] % Base = w[i]
  <2>1. i - 1 \in 0 .. n OBVIOUS
  <2>2. val[i - 1] \in Nat BY <2>1
  <2>3. val[i] = val[i - 1] * Base + w[i] /\ w[i] \in 0 .. Base - 1 BY <1>1, <1>7
  <2>4. /\ (val[i - 1] * Base + w[i]) \div Base = val[i - 1]
        /\ (val[i - 1] * Base + w[i]) % Base = w[i]
    BY <1>7, <2>2, <2>3, DigitOf
  <2> QED BY <2>3, <2>4
<1>9. \A i \in 0 .. n : rest[i] = val[n - i]
  <2> DEFINE T == {i \in 0 .. n : rest[i] = val[n - i]}
  <2>1. 0 \in T BY <1>1, <1>6 DEF x
  <2>2. ASSUME NEW i \in 1 .. n, i - 1 \in T PROVE i \in T
    <3>1. rest[i - 1] = val[n - (i - 1)] BY <2>2
    <3>2. n - (i - 1) \in 1 .. n /\ (n - (i - 1)) - 1 = n - i OBVIOUS
    <3>3. val[n - (i - 1)] \div Base = val[n - i] BY <1>8, <3>2
    <3>4. rest[i] = val[n - i] BY <1>6, <3>1, <3>3
    <3> QED BY <3>4
  <2>3. \A i \in T : rest[i] = val[n - i] OBVIOUS
  <2> HIDE DEF T
  <2>4. \A i \in 0 .. n : i \in T BY <2>1, <2>2, AllUpTo
  <2> QED BY <2>3, <2>4
<1>10. \A i \in 1 .. n : rest[n - i] % Base = w[i]
  <2> TAKE i \in 1 .. n
  <2>1. n - i \in 0 .. n /\ n - (n - i) = i OBVIOUS
  <2>2. rest[n - i] = val[i] BY <1>9, <2>1
  <2> QED BY <1>8, <2>2
<1>11. [i \in 1 .. n |-> rest[n - i] % Base] = w
  <2>1. w = [i \in 1 .. n |-> w[i]] BY DEF Bytes
  <2> QED BY <1>10, <2>1
<1> QED BY <1>2, <1>4, <1>11 DEF x, Base

-----------------------------------------------------------------------------
(* The order of byte strings *)

\* Two byte strings of one length: the first byte where they differ decides.
LessAt(j, k, n) == j[n] < k[n] /\ \A m \in 1 .. n - 1 : j[m] = k[m]

LEMMA PrefixAgrees ==
  ASSUME NEW S, NEW p \in Seq(S), NEW k \in Seq(S)
  PROVE  IsPrefix(p, k) <=> Len(p) <= Len(k) /\ \A i \in 1 .. Len(p) : p[i] = k[i]
<1>1. Len(p) \in Nat /\ Len(k) \in Nat OBVIOUS
<1>2. SubSeq(p, 1, Len(p)) = p BY SubSeqFull
<1>3. ASSUME Len(p) <= Len(k)
      PROVE  p = SubSeq(k, 1, Len(p)) <=> \A i \in 1 .. Len(p) : p[i] = k[i]
  <2> DEFINE q == SubSeq(k, 1, Len(p))
  <2>1. \A i \in 1 .. Len(p) : k[i] \in S BY <1>1, <1>3
  <2>2. q \in Seq(S) /\ Len(q) = Len(p) /\ \A i \in 1 .. Len(p) : q[i] = k[i]
    <3>1. /\ q \in Seq(S)
          /\ Len(q) = IF 1 <= Len(p) THEN Len(p) - 1 + 1 ELSE 0
          /\ \A i \in 1 .. Len(p) - 1 + 1 : q[i] = k[1 + i - 1]
      BY <1>1, <2>1, SubSeqProperties
    <3> HIDE DEF q
    <3>2. Len(q) = Len(p) BY <1>1, <3>1
    <3>3. \A i \in 1 .. Len(p) : i \in 1 .. Len(p) - 1 + 1 /\ 1 + i - 1 = i BY <1>1
    <3> QED BY <3>1, <3>2, <3>3
  <2> HIDE DEF q
  <2>3. (\A i \in 1 .. Len(p) : p[i] = q[i]) => p = q BY <2>2, SeqEqual
  <2>4. p = q <=> \A i \in 1 .. Len(p) : p[i] = k[i] BY <2>2, <2>3
  <2> QED BY <2>4 DEF q
<1> QED BY <1>2, <1>3 DEF IsPrefix

LEMMA LessIsLessAt ==
  ASSUME NEW S, NEW j \in Seq(S), NEW k \in Seq(S), Len(k) <= Len(j)
  PROVE  KeyLess(j, k) <=> \E n \in 1 .. Len(k) : LessAt(j, k, n)
<1>1. Len(j) \in Nat /\ Len(k) \in Nat OBVIOUS
<1>2. ~ IsStrictPrefix(j, k)
  <2> SUFFICES ASSUME IsPrefix(j, k), j # k PROVE FALSE BY DEF IsStrictPrefix
  <2>1. Len(j) <= Len(k) /\ \A i \in 1 .. Len(j) : j[i] = k[i] BY PrefixAgrees
  <2>2. Len(j) = Len(k) BY <1>1, <2>1
  <2> QED BY <2>1, <2>2, SeqEqual
<1>3. \A n : n \in 1 .. Len(j) /\ n <= Len(k) <=> n \in 1 .. Len(k) BY <1>1
<1> QED BY <1>2, <1>3 DEF KeyLess, LessAt

\* Two byte strings agree as far as m, or there is a first byte where they do not.
LEMMA FirstDifference ==
  ASSUME NEW m \in Nat, NEW j, NEW k
  PROVE  \/ \A i \in 1 .. m : j[i] = k[i]
         \/ \E n \in 1 .. m : j[n] # k[n] /\ \A i \in 1 .. n - 1 : j[i] = k[i]
<1> DEFINE Apart == {i \in 1 .. m : j[i] # k[i]}
<1>1. \A i \in 1 .. m : i \notin Apart => j[i] = k[i] OBVIOUS
<1>2. \A i \in Apart : i \in 1 .. m /\ j[i] # k[i] OBVIOUS
<1>3. Apart \subseteq Nat OBVIOUS
<1> HIDE DEF Apart
<1>4. CASE Apart = {} BY <1>1, <1>4
<1>5. CASE Apart # {}
  <2>1. PICK n \in Apart : \A i \in Apart : n <= i BY <1>3, <1>5, LeastOf
  <2>2. n \in 1 .. m /\ j[n] # k[n] BY <1>2, <2>1
  <2>3. ASSUME NEW i \in 1 .. n - 1 PROVE j[i] = k[i]
    <3>1. i \in 1 .. m /\ ~ (n <= i) BY <2>2
    <3>2. i \notin Apart BY <2>1, <3>1
    <3> QED BY <1>1, <3>1, <3>2
  <2> QED BY <2>2, <2>3
<1> QED BY <1>4, <1>5

\* Byte strings of one length are in one order or the other, or the same.
LEMMA BytesCompare ==
  ASSUME NEW n \in Nat, NEW w \in Bytes(n), NEW v \in Bytes(n)
  PROVE  /\ KeyLess(w, v) <=> \E m \in 1 .. n : LessAt(w, v, m)
         /\ w = v \/ KeyLess(w, v) \/ KeyLess(v, w)
<1>1. w \in Seq(Nat) /\ v \in Seq(Nat) /\ Len(w) = n /\ Len(v) = n BY BytesAreSeqs
<1>2. KeyLess(w, v) <=> \E m \in 1 .. n : LessAt(w, v, m) BY <1>1, LessIsLessAt
<1>3. KeyLess(v, w) <=> \E m \in 1 .. n : LessAt(v, w, m) BY <1>1, LessIsLessAt
<1>4. CASE \A i \in 1 .. n : w[i] = v[i]
  <2>1. w = v BY <1>1, <1>4, SeqEqual
  <2> QED BY <1>2, <2>1
<1>5. CASE \E m \in 1 .. n : w[m] # v[m] /\ \A i \in 1 .. m - 1 : w[i] = v[i]
  <2>1. PICK m \in 1 .. n : w[m] # v[m] /\ \A i \in 1 .. m - 1 : w[i] = v[i] BY <1>5
  <2>2. w[m] \in Nat /\ v[m] \in Nat BY BytesAreSeqs
  <2>3. w[m] < v[m] \/ v[m] < w[m] BY <2>1, <2>2
  <2> QED BY <1>2, <1>3, <2>1, <2>3 DEF LessAt
<1>6. \/ \A i \in 1 .. n : w[i] = v[i]
      \/ \E m \in 1 .. n : w[m] # v[m] /\ \A i \in 1 .. m - 1 : w[i] = v[i]
  <2> SUFFICES ASSUME ~ \A i \in 1 .. n : w[i] = v[i]
               PROVE  \E m \in 1 .. n : w[m] # v[m] /\ \A i \in 1 .. m - 1 : w[i] = v[i]
    OBVIOUS
  <2>1. PICK m \in 1 .. n : w[m] # v[m] /\ \A i \in 1 .. m - 1 : w[i] = v[i]
    BY FirstDifference
  <2> QED BY <2>1
<1> QED BY <1>4, <1>5, <1>6

\* What comes first as a byte string is the smaller number.
LEMMA LessIsSmaller ==
  ASSUME NEW n \in Nat, NEW w \in Bytes(n), NEW v \in Bytes(n), KeyLess(w, v)
  PROVE  FromBe(w) < FromBe(v)
<1>1. PICK m \in 1 .. n : LessAt(w, v, m) BY BytesCompare
<1>2. PICK wval \in [0 .. n -> Nat] :
        /\ FromBe(w) = wval[n] /\ wval[0] = 0
        /\ \A i \in 1 .. n : wval[i] = wval[i - 1] * Base + w[i]
  BY ValueOf
<1>3. PICK vval \in [0 .. n -> Nat] :
        /\ FromBe(v) = vval[n] /\ vval[0] = 0
        /\ \A i \in 1 .. n : vval[i] = vval[i - 1] * Base + v[i]
  BY ValueOf
<1>4. Base \in Nat \ {0} BY KeysAssumption DEF Base
<1>5. \A i \in 1 .. n : w[i] \in 0 .. Base - 1 /\ v[i] \in 0 .. Base - 1
  BY KeysAssumption DEF Base, Bytes
\* As far as they agree the numbers agree; from m on one is the smaller.
<1> DEFINE T == {i \in 0 .. n : IF i < m THEN wval[i] = vval[i] ELSE wval[i] < vval[i]}
<1>6. 0 \in T BY <1>2, <1>3
<1>7. ASSUME NEW i \in 1 .. n, i - 1 \in T PROVE i \in T
  <2>1. i - 1 \in 0 .. n /\ i \in 0 .. n OBVIOUS
  <2>2. wval[i - 1] \in Nat /\ vval[i - 1] \in Nat BY <2>1
  <2>3. wval[i] = wval[i - 1] * Base + w[i] /\ vval[i] = vval[i - 1] * Base + v[i]
    BY <1>2, <1>3
  <2>4. CASE i < m
    <3>1. i \in 1 .. m - 1 /\ i - 1 < m BY <2>4
    <3>2. wval[i - 1] = vval[i - 1] /\ w[i] = v[i] BY <1>1, <1>7, <3>1 DEF LessAt
    <3>3. wval[i] = vval[i] BY <2>3, <3>2
    <3> QED BY <2>1, <2>4, <3>3
  <2>5. CASE i = m
    <3>1. i - 1 < m BY <2>5
    <3>2. wval[i - 1] = vval[i - 1] BY <1>7, <3>1
    <3>3. w[i] < v[i] BY <1>1, <2>5 DEF LessAt
    <3>4. wval[i] < vval[i] BY <1>4, <1>5, <2>2, <2>3, <3>2, <3>3, DigitOrder
    <3> QED BY <2>1, <2>5, <3>4
  <2>6. CASE i > m
    <3>1. ~ (i - 1 < m) /\ ~ (i < m) BY <2>6
    <3>2. wval[i - 1] < vval[i - 1] BY <1>7, <3>1
    <3>3. wval[i] < vval[i] BY <1>4, <1>5, <2>2, <2>3, <3>2, DigitOrder
    <3> QED BY <2>1, <3>1, <3>3
  <2> QED BY <2>4, <2>5, <2>6
<1>8. \A i \in T : ~ (i < m) => wval[i] < vval[i] OBVIOUS
<1> HIDE DEF T
<1>9. n \in T /\ ~ (n < m)
  <2>1. \A i \in 0 .. n : i \in T BY <1>6, <1>7, AllUpTo
  <2> QED BY <2>1
<1> QED BY <1>2, <1>3, <1>8, <1>9

LEMMA OrderOfNumbers ==
  ASSUME NEW n \in Nat, NEW w \in Bytes(n), NEW v \in Bytes(n)
  PROVE  KeyLess(w, v) <=> FromBe(w) < FromBe(v)
<1>1. KeyLess(w, v) => FromBe(w) < FromBe(v) BY LessIsSmaller
<1>2. ASSUME FromBe(w) < FromBe(v) PROVE KeyLess(w, v)
  <2>1. FromBe(w) \in Nat /\ FromBe(v) \in Nat BY BeOfFromBe
  <2>2. w # v BY <1>2, <2>1
  <2>3. ~ KeyLess(v, w)
    <3> SUFFICES ASSUME KeyLess(v, w) PROVE FALSE OBVIOUS
    <3>1. FromBe(v) < FromBe(w) BY LessIsSmaller
    <3> QED BY <1>2, <2>1, <3>1
  <2> QED BY <2>2, <2>3, BytesCompare
<1> QED BY <1>1, <1>2

\* Two fields one after the other.
LEMMA Joined ==
  ASSUME NEW m \in Nat, NEW l \in Nat, NEW u \in Bytes(m), NEW v \in Bytes(l)
  PROVE  /\ u \o v \in Bytes(m + l)
         /\ \A i \in 1 .. m : (u \o v)[i] = u[i]
         /\ \A i \in 1 .. l : (u \o v)[m + i] = v[i]
<1>1. /\ u \in Seq(0 .. Byte) /\ v \in Seq(0 .. Byte) /\ Len(u) = m /\ Len(v) = l
  BY BytesAreSeqs
<1> DEFINE w == u \o v
<1>2. /\ w \in Seq(0 .. Byte) /\ Len(w) = m + l
      /\ \A i \in 1 .. m + l : w[i] = IF i <= m THEN u[i] ELSE v[i - m]
  BY <1>1, ConcatProperties
<1> HIDE DEF w
<1>3. w \in Bytes(m + l) BY <1>2, LenProperties DEF Bytes
<1>4. \A i \in 1 .. m : i \in 1 .. m + l /\ i <= m OBVIOUS
<1>5. \A i \in 1 .. l : m + i \in 1 .. m + l /\ ~ (m + i <= m) /\ (m + i) - m = i OBVIOUS
<1> QED BY <1>2, <1>3, <1>4, <1>5 DEF w

LEMMA JoinedEqual ==
  ASSUME NEW m \in Nat, NEW l \in Nat, NEW u \in Bytes(m), NEW u2 \in Bytes(m),
         NEW v \in Bytes(l), NEW v2 \in Bytes(l), u \o v = u2 \o v2
  PROVE  u = u2 /\ v = v2
<1> DEFINE j == u \o v
           k == u2 \o v2
<1>1. (\A i \in 1 .. m : j[i] = u[i]) /\ (\A i \in 1 .. l : j[m + i] = v[i]) BY Joined
<1>2. (\A i \in 1 .. m : k[i] = u2[i]) /\ (\A i \in 1 .. l : k[m + i] = v2[i]) BY Joined
<1>3. j = k OBVIOUS
<1> HIDE DEF j, k
<1>4. \A i \in 1 .. m : u[i] = u2[i] BY <1>1, <1>2, <1>3
<1>5. \A i \in 1 .. l : v[i] = v2[i] BY <1>1, <1>2, <1>3
<1>6. u = u2 BY <1>4 DEF Bytes
<1>7. v = v2 BY <1>5 DEF Bytes
<1> QED BY <1>6, <1>7

LEMMA JoinedLess ==
  ASSUME NEW m \in Nat, NEW l \in Nat, NEW u \in Bytes(m), NEW u2 \in Bytes(m),
         NEW v \in Bytes(l), NEW v2 \in Bytes(l)
  PROVE  KeyLess(u \o v, u2 \o v2) <=> KeyLess(u, u2) \/ (u = u2 /\ KeyLess(v, v2))
<1> DEFINE j == u \o v
           k == u2 \o v2
<1>1. /\ j \in Bytes(m + l) /\ k \in Bytes(m + l) /\ m + l \in Nat
      /\ \A i \in 1 .. m : j[i] = u[i] /\ k[i] = u2[i]
      /\ \A i \in 1 .. l : j[m + i] = v[i] /\ k[m + i] = v2[i]
  <2>1. /\ j \in Bytes(m + l) /\ \A i \in 1 .. m : j[i] = u[i]
        /\ \A i \in 1 .. l : j[m + i] = v[i]
    BY Joined
  <2>2. /\ k \in Bytes(m + l) /\ \A i \in 1 .. m : k[i] = u2[i]
        /\ \A i \in 1 .. l : k[m + i] = v2[i]
    BY Joined
  <2> HIDE DEF j, k
  <2> QED BY <2>1, <2>2
<1> HIDE DEF j, k
<1>2. KeyLess(j, k) <=> \E n \in 1 .. m + l : LessAt(j, k, n) BY <1>1, BytesCompare
<1>3. KeyLess(u, u2) <=> \E n \in 1 .. m : LessAt(u, u2, n) BY BytesCompare
<1>4. KeyLess(v, v2) <=> \E n \in 1 .. l : LessAt(v, v2, n) BY BytesCompare
<1>5. \A n \in 1 .. m : LessAt(j, k, n) <=> LessAt(u, u2, n)
  <2> TAKE n \in 1 .. m
  <2>1. \A i \in 1 .. n - 1 : i \in 1 .. m OBVIOUS
  <2> QED BY <1>1, <2>1 DEF LessAt
<1>6. \A n \in 1 .. l : LessAt(j, k, m + n) <=> u = u2 /\ LessAt(v, v2, n)
  <2> TAKE n \in 1 .. l
  <2>1. j[m + n] = v[n] /\ k[m + n] = v2[n] BY <1>1
  <2>2. ASSUME LessAt(j, k, m + n) PROVE u = u2 /\ LessAt(v, v2, n)
    <3>1. \A i \in 1 .. m : i \in 1 .. (m + n) - 1 OBVIOUS
    <3>2. \A i \in 1 .. m : u[i] = u2[i] BY <1>1, <2>2, <3>1 DEF LessAt
    <3>3. u = u2 BY <3>2 DEF Bytes
    <3>4. \A i \in 1 .. n - 1 : m + i \in 1 .. (m + n) - 1 /\ i \in 1 .. l OBVIOUS
    <3>5. \A i \in 1 .. n - 1 : v[i] = v2[i] BY <1>1, <2>2, <3>4 DEF LessAt
    <3> QED BY <2>1, <2>2, <3>3, <3>5 DEF LessAt
  <2>3. ASSUME u = u2, LessAt(v, v2, n) PROVE LessAt(j, k, m + n)
    <3>1. ASSUME NEW i \in 1 .. (m + n) - 1 PROVE j[i] = k[i]
      <4>1. CASE i <= m
        <5>1. i \in 1 .. m BY <4>1
        <5> QED BY <1>1, <2>3, <5>1
      <4>2. CASE ~ (i <= m)
        <5>1. i - m \in 1 .. n - 1 /\ i - m \in 1 .. l /\ m + (i - m) = i BY <4>2
        <5>2. v[i - m] = v2[i - m] BY <2>3, <5>1 DEF LessAt
        <5>3. j[m + (i - m)] = v[i - m] /\ k[m + (i - m)] = v2[i - m] BY <1>1, <5>1
        <5> QED BY <5>1, <5>2, <5>3
      <4> QED BY <4>1, <4>2
    <3> QED BY <2>1, <2>3, <3>1 DEF LessAt
  <2> QED BY <2>2, <2>3
<1>7. ASSUME KeyLess(j, k) PROVE KeyLess(u, u2) \/ (u = u2 /\ KeyLess(v, v2))
  <2>1. PICK n \in 1 .. m + l : LessAt(j, k, n) BY <1>2, <1>7
  <2>2. CASE n <= m
    <3>1. n \in 1 .. m BY <2>2
    <3> QED BY <1>3, <1>5, <2>1, <3>1
  <2>3. CASE ~ (n <= m)
    <3>1. n - m \in 1 .. l /\ m + (n - m) = n BY <2>3
    <3>2. u = u2 /\ LessAt(v, v2, n - m) BY <1>6, <2>1, <3>1
    <3> QED BY <1>4, <3>1, <3>2
  <2> QED BY <2>2, <2>3
<1>8. ASSUME KeyLess(u, u2) PROVE KeyLess(j, k)
  <2>1. PICK n \in 1 .. m : LessAt(u, u2, n) BY <1>3, <1>8
  <2>2. n \in 1 .. m + l /\ LessAt(j, k, n) BY <1>5, <2>1
  <2> QED BY <1>2, <2>2
<1>9. ASSUME u = u2, KeyLess(v, v2) PROVE KeyLess(j, k)
  <2>1. PICK n \in 1 .. l : LessAt(v, v2, n) BY <1>4, <1>9
  <2>2. LessAt(j, k, m + n) BY <1>6, <1>9, <2>1
  <2>3. m + n \in 1 .. m + l OBVIOUS
  <2> QED BY <1>2, <2>2, <2>3
<1> QED BY <1>7, <1>8, <1>9 DEF j, k

-----------------------------------------------------------------------------
(* Ranges *)

\* The end of a prefix: its last byte that can be raised, raised.
LEMMA PrefixEndIs ==
  ASSUME NEW m \in Nat, NEW p \in Bytes(m)
  PROVE  \/ PrefixEnd(p) = None /\ \A i \in 1 .. m : p[i] = Byte
         \/ \E n \in 1 .. m :
              /\ p[n] # Byte /\ \A i \in n + 1 .. m : p[i] = Byte
              /\ PrefixEnd(p) \in Seq(Nat) /\ Len(PrefixEnd(p)) = n
              /\ PrefixEnd(p)[n] = p[n] + 1
              /\ \A i \in 1 .. n - 1 : PrefixEnd(p)[i] = p[i]
<1>1. p \in Seq(Nat) /\ Len(p) = m /\ \A i \in 1 .. m : p[i] \in Nat BY BytesAreSeqs
<1> DEFINE below == {n \in 1 .. Len(p) : p[n] # Byte}
           last == CHOOSE n \in below : \A i \in below : i <= n
<1>2. PrefixEnd(p) = IF below = {} THEN None ELSE [SubSeq(p, 1, last) EXCEPT ![last] = @ + 1]
  BY DEF PrefixEnd
<1>3. CASE below = {} BY <1>1, <1>2, <1>3
<1>4. CASE below # {}
  <2> DEFINE T == {m - i : i \in below}
  <2>1. T \subseteq Nat /\ T # {} BY <1>1, <1>4
  <2>2. \A i \in below : i \in 1 .. m /\ p[i] # Byte BY <1>1
  <2>3. \A i \in below : m - i \in T OBVIOUS
  <2>4. \A x \in T : \E i \in below : x = m - i OBVIOUS
  <2> HIDE DEF T, below
  <2>5. PICK x \in T : \A y \in T : x <= y BY <2>1, LeastOf
  <2>6. PICK n \in below : x = m - n BY <2>4
  <2>7. \A i \in below : i <= n
    <3> TAKE i \in below
    <3>1. m - n <= m - i BY <2>3, <2>5, <2>6
    <3>2. i \in 1 .. m /\ n \in 1 .. m BY <2>2
    <3> QED BY <3>1, <3>2
  <2>8. last \in below BY <2>6, <2>7
  <2> DEFINE q == SubSeq(p, 1, last)
  <2> HIDE DEF last
  <2>9. last \in 1 .. m /\ p[last] # Byte BY <2>2, <2>8
  <2>10. q \in Seq(Nat) /\ Len(q) = last /\ \A i \in 1 .. last : q[i] = p[i]
    <3>1. \A i \in 1 .. last : p[i] \in Nat BY <1>1, <2>9
    <3>2. /\ q \in Seq(Nat) /\ Len(q) = IF 1 <= last THEN last - 1 + 1 ELSE 0
          /\ \A i \in 1 .. last - 1 + 1 : q[i] = p[1 + i - 1]
      BY <2>9, <3>1, SubSeqProperties
    <3> HIDE DEF q
    <3>3. \A i \in 1 .. last : i \in 1 .. last - 1 + 1 /\ 1 + i - 1 = i BY <2>9
    <3>4. Len(q) = last BY <2>9, <3>2
    <3> QED BY <3>2, <3>3, <3>4
  <2> DEFINE end == [q EXCEPT ![last] = @ + 1]
  <2>11. PrefixEnd(p) = end BY <1>2, <1>4
  <2> HIDE DEF q
  <2>12. end = [q EXCEPT ![last] = q[last] + 1] OBVIOUS
  <2>13. last \in 1 .. Len(q) /\ q[last] + 1 \in Nat /\ q[last] = p[last] BY <1>1, <2>9, <2>10
  <2> HIDE DEF end
  <2>14. /\ end \in Seq(Nat) /\ Len(end) = Len(q)
         /\ \A i \in 1 .. Len(q) : end[i] = IF i = last THEN q[last] + 1 ELSE q[i]
    BY <2>10, <2>12, <2>13, ExceptSeq
  <2>15. end[last] = p[last] + 1 BY <2>13, <2>14
  <2>16. \A i \in 1 .. last - 1 : end[i] = p[i]
    <3> TAKE i \in 1 .. last - 1
    <3>1. i \in 1 .. last /\ i # last BY <2>9
    <3> QED BY <2>10, <2>14, <3>1
  <2>17. \A i \in last + 1 .. m : p[i] = Byte
    <3> SUFFICES ASSUME NEW i \in last + 1 .. m, p[i] # Byte PROVE FALSE OBVIOUS
    <3>1. i \in 1 .. m /\ ~ (i <= last) BY <2>9
    <3>2. i \in below BY <1>1, <3>1 DEF below
    <3>3. i <= last BY <2>6, <2>7, <3>2 DEF last
    <3> QED BY <3>1, <3>3
  <2> QED BY <2>9, <2>10, <2>11, <2>14, <2>15, <2>16, <2>17
<1> QED BY <1>3, <1>4

\* The scan of a prefix meets the keys that begin with it, and no other.
LEMMA RangeIsPrefix ==
  ASSUME NEW m \in Nat, NEW l \in Nat, m <= l, NEW p \in Bytes(m), NEW k \in Bytes(l)
  PROVE  InPrefixRange(p, k) <=> \A i \in 1 .. m : k[i] = p[i]
<1>1. /\ p \in Seq(Nat) /\ Len(p) = m /\ k \in Seq(Nat) /\ Len(k) = l
      /\ \A i \in 1 .. m : p[i] \in 0 .. Byte /\ p[i] \in Nat
      /\ \A i \in 1 .. l : k[i] \in 0 .. Byte /\ k[i] \in Nat
  BY BytesAreSeqs
<1>2. KeyLess(k, p) <=> \E n \in 1 .. m : LessAt(k, p, n) BY <1>1, LessIsLessAt
<1>3. \A i \in 1 .. m : i \in 1 .. l OBVIOUS
<1> DEFINE end == PrefixEnd(p)
<1>4. ASSUME NEW n \in 1 .. m, end \in Seq(Nat), Len(end) = n
      PROVE  /\ KeyLess(k, end) <=> \E i \in 1 .. n : LessAt(k, end, i)
             /\ end # None
  <2>1. Len(end) <= Len(k) BY <1>1, <1>4
  <2> HIDE DEF end
  <2>2. KeyLess(k, end) <=> \E i \in 1 .. n : LessAt(k, end, i) BY <1>1, <1>4, <2>1, LessIsLessAt
  <2>3. end # None
    <3>1. end[1] \in Nat BY <1>4
    <3>2. None[1] = -1 BY DEF None
    <3> QED BY <3>1, <3>2
  <2> QED BY <2>2, <2>3
<1>5. ASSUME \A i \in 1 .. m : k[i] = p[i] PROVE InPrefixRange(p, k)
  <2>1. ~ KeyLess(k, p)
    <3>1. ASSUME NEW n \in 1 .. m, LessAt(k, p, n) PROVE FALSE BY <1>1, <1>5, <3>1 DEF LessAt
    <3> QED BY <1>1, <1>2, <3>1
  <2>2. ASSUME NEW n \in 1 .. m, end \in Seq(Nat), Len(end) = n, end[n] = p[n] + 1,
               \A i \in 1 .. n - 1 : end[i] = p[i]
        PROVE  KeyLess(k, end)
    <3> HIDE DEF end
    <3>1. \A i \in 1 .. n - 1 : i \in 1 .. m OBVIOUS
    <3>2. \A i \in 1 .. n - 1 : k[i] = end[i] BY <1>5, <2>2, <3>1
    <3>3. k[n] < end[n] BY <1>1, <1>5, <2>2
    <3>4. LessAt(k, end, n) BY <3>2, <3>3 DEF LessAt
    <3>5. n \in 1 .. n OBVIOUS
    <3> QED BY <1>4, <2>2, <3>4, <3>5
  <2> QED BY <2>1, <2>2, PrefixEndIs DEF InPrefixRange
<1>6. ASSUME InPrefixRange(p, k), ~ \A i \in 1 .. m : k[i] = p[i] PROVE FALSE
  <2>1. PICK n \in 1 .. m : k[n] # p[n] /\ \A i \in 1 .. n - 1 : k[i] = p[i]
    BY <1>6, FirstDifference
  <2>2. k[n] \in 0 .. Byte /\ p[n] \in 0 .. Byte /\ k[n] \in Nat /\ p[n] \in Nat BY <1>1, <1>3
  <2>3. ~ (k[n] < p[n]) BY <1>2, <1>6, <2>1 DEF LessAt, InPrefixRange
  <2>4. p[n] < k[n] /\ p[n] # Byte BY KeysAssumption, <2>1, <2>2, <2>3
  <2>5. PICK last \in 1 .. m :
          /\ p[last] # Byte /\ \A i \in last + 1 .. m : p[i] = Byte
          /\ end \in Seq(Nat) /\ Len(end) = last /\ end[last] = p[last] + 1
          /\ \A i \in 1 .. last - 1 : end[i] = p[i]
    BY <2>4, PrefixEndIs
  <2> HIDE DEF end
  <2>6. n <= last
    <3> SUFFICES ASSUME ~ (n <= last) PROVE FALSE OBVIOUS
    <3>1. n \in last + 1 .. m OBVIOUS
    <3>2. p[n] = Byte BY <2>5, <3>1
    <3> QED BY <2>4, <3>2
  <2>7. KeyLess(k, end) /\ end # None
    <3>1. end # None BY <1>4, <2>5
    <3> QED BY <1>6, <3>1 DEF InPrefixRange, end
  <2>8. PICK i \in 1 .. last : LessAt(k, end, i) BY <1>4, <2>5, <2>7
  <2>9. CASE i < n
    <3>1. i \in 1 .. n - 1 /\ i \in 1 .. last - 1 /\ i \in 1 .. m BY <2>6, <2>9
    <3>2. k[i] = end[i] /\ k[i] \in Nat BY <1>1, <1>3, <2>1, <2>5, <3>1
    <3> QED BY <2>8, <3>2 DEF LessAt
  <2>10. CASE i = n
    <3>1. CASE n = last
      <4>1. end[n] = p[n] + 1 /\ k[n] < end[n] BY <2>5, <2>8, <2>10, <3>1 DEF LessAt
      <4> QED BY <2>2, <2>4, <4>1
    <3>2. CASE n # last
      <4>1. n \in 1 .. last - 1 BY <2>6, <3>2
      <4>2. end[n] = p[n] /\ k[n] < end[n] BY <2>5, <2>8, <2>10, <4>1 DEF LessAt
      <4> QED BY <2>2, <2>4, <4>2
    <3> QED BY <3>1, <3>2
  <2>11. CASE i > n
    <3>1. n \in 1 .. i - 1 /\ n \in 1 .. last - 1 BY <2>11
    <3>2. k[n] = end[n] /\ end[n] = p[n] BY <2>5, <2>8, <3>1 DEF LessAt
    <3> QED BY <2>1, <3>2
  <2> QED BY <2>9, <2>10, <2>11
<1> QED BY <1>5, <1>6

\* A key that begins with a part: which prefixes it is in the range of, or before.
LEMMA RangeOfPart ==
  ASSUME NEW m \in Nat, NEW l \in Nat, NEW p \in Bytes(m), NEW u \in Bytes(m), NEW v \in Bytes(l)
  PROVE  /\ InPrefixRange(p, u \o v) <=> p = u
         /\ KeyLess(u \o v, p) <=> KeyLess(u, p)
<1> DEFINE k == u \o v
<1>1. k \in Bytes(m + l) /\ \A i \in 1 .. m : k[i] = u[i] BY Joined
<1>2. m + l \in Nat /\ m <= m + l OBVIOUS
<1> HIDE DEF k
<1>3. InPrefixRange(p, k) <=> \A i \in 1 .. m : k[i] = p[i] BY <1>1, <1>2, RangeIsPrefix
<1>4. (\A i \in 1 .. m : u[i] = p[i]) => u = p BY DEF Bytes
<1>5. p \in Seq(Nat) /\ k \in Seq(Nat) /\ Len(p) = m /\ Len(k) = m + l BY <1>1, <1>2, BytesAreSeqs
<1>6. KeyLess(k, p) <=> \E n \in 1 .. m : LessAt(k, p, n) BY <1>2, <1>5, LessIsLessAt
<1>7. KeyLess(u, p) <=> \E n \in 1 .. m : LessAt(u, p, n) BY BytesCompare
<1>8. \A n \in 1 .. m : LessAt(k, p, n) <=> LessAt(u, p, n)
  <2> TAKE n \in 1 .. m
  <2>1. \A i \in 1 .. n - 1 : i \in 1 .. m OBVIOUS
  <2> QED BY <1>1, <2>1 DEF LessAt
<1> QED BY <1>1, <1>3, <1>4, <1>6, <1>7, <1>8 DEF k

\* What is taken out of two fields.
LEMMA PartsOf ==
  ASSUME NEW m \in Nat \ {0}, NEW l \in Nat \ {0}, NEW u \in Bytes(m), NEW v \in Bytes(l)
  PROVE  /\ SubSeq(u \o v, 1, m) = u
         /\ SubSeq(u \o v, m + 1, m + l) = v
<1>1. u \in Seq(Nat) /\ v \in Seq(Nat) /\ Len(u) = m /\ Len(v) = l BY BytesAreSeqs
<1>2. SubSeq(u \o v, 1, m) = SubSeq(u, 1, m)
  <2>1. 1 \in 1 .. Len(u) /\ m \in 1 .. Len(u) BY <1>1
  <2> QED BY <1>1, <2>1, SubSeqOfConcat1
<1>3. SubSeq(u \o v, m + 1, m + l) = SubSeq(v, 1, l)
  <2>1. m + 1 \in Len(u) + 1 .. Len(u) + Len(v) /\ m + l \in Len(u) + 1 .. Len(u) + Len(v) BY <1>1
  <2>2. (m + 1) - Len(u) = 1 /\ (m + l) - Len(u) = l BY <1>1
  <2>3. SubSeq(u \o v, m + 1, m + l) = SubSeq(v, (m + 1) - Len(u), (m + l) - Len(u))
    <3>1. \A s, w \in Seq(Nat) : \A i, j \in Len(s) + 1 .. Len(s) + Len(w) :
            SubSeq(s \o w, i, j) = SubSeq(w, i - Len(s), j - Len(s))
      BY SubSeqOfConcat2
    <3> QED BY <1>1, <2>1, <3>1
  <2> QED BY <2>2, <2>3
<1> QED BY <1>1, <1>2, <1>3, SubSeqFull

-----------------------------------------------------------------------------
(* Keys *)

\* A number of a field and its bytes.
LEMMA FieldBytes ==
  ASSUME NEW len \in Nat, NEW x \in Field(len)
  PROVE  Be(x, len) \in Bytes(len) /\ FromBe(Be(x, len)) = x /\ x \in Nat
<1>1. PICK w \in Bytes(len) : x = FromBe(w) BY DEF Field, Bytes
<1> QED BY <1>1, BeOfFromBe

LEMMA FieldOrder ==
  ASSUME NEW len \in Nat, NEW x \in Field(len), NEW y \in Field(len)
  PROVE  /\ KeyLess(Be(x, len), Be(y, len)) <=> x < y
         /\ Be(x, len) = Be(y, len) <=> x = y
<1>1. Be(x, len) \in Bytes(len) /\ FromBe(Be(x, len)) = x BY FieldBytes
<1>2. Be(y, len) \in Bytes(len) /\ FromBe(Be(y, len)) = y BY FieldBytes
<1>3. KeyLess(Be(x, len), Be(y, len)) <=> FromBe(Be(x, len)) < FromBe(Be(y, len))
  BY <1>1, <1>2, OrderOfNumbers
<1> QED BY <1>1, <1>2, <1>3

LEMMA Widths ==
  /\ AddrLen \in Nat \ {0} /\ WordLen \in Nat \ {0} /\ BlockLen \in Nat \ {0}
  /\ IndexLen \in Nat \ {0} /\ Byte \in Nat \ {0} /\ WordLen > 1
  BY KeysAssumption

\* The parts of a key.
LEMMA KeyParts ==
  ASSUME NEW a \in Field(AddrLen), NEW s \in Words, NEW b \in BlockNumbers,
         NEW i \in Field(IndexLen)
  PROVE  /\ SlotPrefix(a, s) = Be(a, AddrLen) \o Be(s, WordLen)
         /\ SlotPrefix(a, s) \in Bytes(AddrLen + WordLen)
         /\ SlotPrefix(a, s) \o Be(b, BlockLen) \in Bytes(AddrLen + WordLen + BlockLen)
         /\ Be(s, WordLen) \o (Be(b, BlockLen) \o Be(i, IndexLen))
              \in Bytes(WordLen + (BlockLen + IndexLen))
         /\ Be(b, BlockLen) \o Be(i, IndexLen) \in Bytes(BlockLen + IndexLen)
         /\ SlotKey(a, s, b, i) = (SlotPrefix(a, s) \o Be(b, BlockLen)) \o Be(i, IndexLen)
         /\ SlotKey(a, s, b, i) = SlotPrefix(a, s) \o (Be(b, BlockLen) \o Be(i, IndexLen))
         /\ SlotKey(a, s, b, i)
              = Be(a, AddrLen) \o (Be(s, WordLen) \o (Be(b, BlockLen) \o Be(i, IndexLen)))
         /\ SlotKey(a, s, b, i) \in Bytes(AddrLen + WordLen + BlockLen + IndexLen)
<1> DEFINE A == Be(a, AddrLen)
           S == Be(s, WordLen)
           B == Be(b, BlockLen)
           I == Be(i, IndexLen)
<1>1. A \in Bytes(AddrLen) /\ S \in Bytes(WordLen) /\ B \in Bytes(BlockLen) /\ I \in Bytes(IndexLen)
  BY FieldBytes, Widths DEF Words, BlockNumbers
<1>2. SlotPrefix(a, s) = A \o S /\ SlotKey(a, s, b, i) = ((A \o S) \o B) \o I
  BY DEF SlotPrefix, SlotKey
<1> HIDE DEF A, S, B, I
<1>3. A \o S \in Bytes(AddrLen + WordLen) BY <1>1, Widths, Joined
<1>4. (A \o S) \o B \in Bytes((AddrLen + WordLen) + BlockLen) BY <1>1, <1>3, Widths, Joined
<1>5. ((A \o S) \o B) \o I \in Bytes(((AddrLen + WordLen) + BlockLen) + IndexLen)
  BY <1>1, <1>4, Widths, Joined
<1>6. B \o I \in Bytes(BlockLen + IndexLen) BY <1>1, Widths, Joined
<1>7. S \o (B \o I) \in Bytes(WordLen + (BlockLen + IndexLen)) BY <1>1, <1>6, Widths, Joined
<1>8. A \in Seq(Nat) /\ S \in Seq(Nat) /\ B \in Seq(Nat) /\ I \in Seq(Nat)
  BY <1>1, Widths, BytesAreSeqs
<1>9. A \o S \in Seq(Nat) /\ B \o I \in Seq(Nat) BY <1>8, ConcatProperties
<1>10. ((A \o S) \o B) \o I = (A \o S) \o (B \o I) BY <1>8, <1>9, ConcatAssociative
<1>11. (A \o S) \o (B \o I) = A \o (S \o (B \o I))
  <2>1. \A p, q, r \in Seq(Nat) : (p \o q) \o r = p \o (q \o r)
    BY ConcatAssociative, SMTT(30)
  <2> QED BY <1>8, <1>9, <2>1
<1> QED BY <1>2, <1>3, <1>4, <1>5, <1>6, <1>7, <1>10, <1>11 DEF A, S, B, I

\* The order of the fields, the first first.
LEMMA SlotKeyLess ==
  ASSUME NEW a \in Field(AddrLen), NEW s \in Words, NEW b \in BlockNumbers,
         NEW i \in Field(IndexLen),
         NEW a2 \in Field(AddrLen), NEW s2 \in Words, NEW b2 \in BlockNumbers,
         NEW i2 \in Field(IndexLen)
  PROVE  /\ KeyLess(SlotPrefix(a, s), SlotPrefix(a2, s2)) <=> a < a2 \/ (a = a2 /\ s < s2)
         /\ SlotPrefix(a, s) = SlotPrefix(a2, s2) <=> a = a2 /\ s = s2
         /\ KeyLess(SlotKey(a, s, b, i), SlotKey(a2, s2, b2, i2)) <=>
              a < a2 \/ (a = a2 /\ (s < s2 \/ (s = s2 /\ (b < b2 \/ (b = b2 /\ i < i2)))))
<1> DEFINE A == Be(a, AddrLen)
           S == Be(s, WordLen)
           B == Be(b, BlockLen)
           I == Be(i, IndexLen)
           A2 == Be(a2, AddrLen)
           S2 == Be(s2, WordLen)
           B2 == Be(b2, BlockLen)
           I2 == Be(i2, IndexLen)
<1>1. A \in Bytes(AddrLen) /\ S \in Bytes(WordLen) /\ B \in Bytes(BlockLen) /\ I \in Bytes(IndexLen)
  BY FieldBytes, Widths DEF Words, BlockNumbers
<1>2. /\ A2 \in Bytes(AddrLen) /\ S2 \in Bytes(WordLen)
      /\ B2 \in Bytes(BlockLen) /\ I2 \in Bytes(IndexLen)
  BY FieldBytes, Widths DEF Words, BlockNumbers
<1>3. (KeyLess(A, A2) <=> a < a2) /\ (A = A2 <=> a = a2) BY FieldOrder, Widths
<1>4. (KeyLess(S, S2) <=> s < s2) /\ (S = S2 <=> s = s2) BY FieldOrder, Widths DEF Words
<1>5. (KeyLess(B, B2) <=> b < b2) /\ (B = B2 <=> b = b2) BY FieldOrder, Widths DEF BlockNumbers
<1>6. KeyLess(I, I2) <=> i < i2 BY FieldOrder, Widths
<1>7. /\ SlotPrefix(a, s) = A \o S /\ SlotKey(a, s, b, i) = ((A \o S) \o B) \o I
      /\ SlotPrefix(a2, s2) = A2 \o S2 /\ SlotKey(a2, s2, b2, i2) = ((A2 \o S2) \o B2) \o I2
  BY DEF SlotPrefix, SlotKey
<1>8. /\ SlotPrefix(a, s) \in Bytes(AddrLen + WordLen)
      /\ SlotPrefix(a, s) \o B \in Bytes(AddrLen + WordLen + BlockLen)
      /\ SlotPrefix(a2, s2) \in Bytes(AddrLen + WordLen)
      /\ SlotPrefix(a2, s2) \o B2 \in Bytes(AddrLen + WordLen + BlockLen)
  BY KeyParts
<1> HIDE DEF A, S, B, I, A2, S2, B2, I2
<1> DEFINE P == A \o S
           P2 == A2 \o S2
<1>9. P \in Bytes(AddrLen + WordLen) /\ P2 \in Bytes(AddrLen + WordLen) BY <1>7, <1>8
<1>10. /\ P \o B \in Bytes(AddrLen + WordLen + BlockLen)
       /\ P2 \o B2 \in Bytes(AddrLen + WordLen + BlockLen)
  BY <1>7, <1>8
<1>11. KeyLess(P, P2) <=> KeyLess(A, A2) \/ (A = A2 /\ KeyLess(S, S2))
  BY <1>1, <1>2, Widths, JoinedLess
<1>12. P = P2 <=> A = A2 /\ S = S2
  <2>1. \A u, u2 \in Bytes(AddrLen), v, v2 \in Bytes(WordLen) :
          u \o v = u2 \o v2 => u = u2 /\ v = v2
    BY Widths, JoinedEqual
  <2> QED BY <1>1, <1>2, <2>1
<1> HIDE DEF P, P2
<1>13. AddrLen + WordLen \in Nat /\ AddrLen + WordLen + BlockLen \in Nat BY Widths
<1>14. KeyLess(P \o B, P2 \o B2) <=> KeyLess(P, P2) \/ (P = P2 /\ KeyLess(B, B2))
  BY <1>1, <1>2, <1>9, <1>13, Widths, JoinedLess
<1>15. P \o B = P2 \o B2 <=> P = P2 /\ B = B2
  <2>1. \A u, u2 \in Bytes(AddrLen + WordLen), v, v2 \in Bytes(BlockLen) :
          u \o v = u2 \o v2 => u = u2 /\ v = v2
    BY <1>13, Widths, JoinedEqual
  <2> QED BY <1>1, <1>2, <1>9, <2>1
<1>16. KeyLess((P \o B) \o I, (P2 \o B2) \o I2)
         <=> KeyLess(P \o B, P2 \o B2) \/ (P \o B = P2 \o B2 /\ KeyLess(I, I2))
  <2> DEFINE Q == P \o B
             Q2 == P2 \o B2
  <2>1. /\ Q \in Bytes(AddrLen + WordLen + BlockLen) /\ Q2 \in Bytes(AddrLen + WordLen + BlockLen)
        /\ I \in Bytes(IndexLen) /\ I2 \in Bytes(IndexLen)
    BY <1>1, <1>2, <1>10
  <2>2. AddrLen + WordLen + BlockLen \in Nat /\ IndexLen \in Nat BY <1>13, Widths
  <2> HIDE DEF Q, Q2
  <2>3. KeyLess(Q \o I, Q2 \o I2) <=> KeyLess(Q, Q2) \/ (Q = Q2 /\ KeyLess(I, I2))
    BY <2>1, <2>2, JoinedLess
  <2> QED BY <2>3 DEF Q, Q2
<1>17. /\ SlotPrefix(a, s) = P /\ SlotKey(a, s, b, i) = (P \o B) \o I
       /\ SlotPrefix(a2, s2) = P2 /\ SlotKey(a2, s2, b2, i2) = (P2 \o B2) \o I2
  BY <1>7 DEF P, P2
<1> QED BY <1>3, <1>4, <1>5, <1>6, <1>11, <1>12, <1>14, <1>15, <1>16, <1>17

\* No index of a block is behind the last one.
LEMMA LastIsLast ==
  /\ LastIndex \in Field(IndexLen)
  /\ \A i \in Field(IndexLen) : i <= LastIndex
<1> DEFINE last == [n \in 1 .. IndexLen |-> Byte]
<1>1. last \in Bytes(IndexLen) /\ LastIndex = FromBe(last)
  BY Widths DEF Bytes, LastIndex
<1>2. LastIndex \in Field(IndexLen) BY <1>1 DEF Field, Bytes
<1>3. \A n \in 1 .. IndexLen : last[n] = Byte OBVIOUS
<1> HIDE DEF last
<1>4. ASSUME NEW i \in Field(IndexLen) PROVE i <= LastIndex
  <2>1. Be(i, IndexLen) \in Bytes(IndexLen) /\ FromBe(Be(i, IndexLen)) = i /\ i \in Nat
    BY Widths, FieldBytes
  <2> DEFINE w == Be(i, IndexLen)
  <2> HIDE DEF w
  <2>2. w \in Bytes(IndexLen) /\ FromBe(w) = i BY <2>1 DEF w
  <2>3. ~ KeyLess(last, w)
    <3> SUFFICES ASSUME KeyLess(last, w) PROVE FALSE OBVIOUS
    <3>1. PICK n \in 1 .. IndexLen : LessAt(last, w, n) BY <1>1, <2>2, Widths, BytesCompare
    <3>2. Byte < w[n] BY <1>3, <3>1 DEF LessAt
    <3>3. w[n] \in 0 .. Byte BY <2>2 DEF Bytes
    <3> QED BY <3>2, <3>3, Widths
  <2>4. ~ (LastIndex < i) BY <1>1, <2>2, <2>3, Widths, OrderOfNumbers
  <2>5. LastIndex \in Nat BY <1>2, Widths, FieldBytes
  <2> QED BY <2>1, <2>4, <2>5
<1> QED BY <1>2, <1>4

\* The scan of an address, of a slot, and the seek of a read.
LEMMA SlotKeyRanges ==
  ASSUME NEW a \in Field(AddrLen), NEW s \in Words, NEW b \in BlockNumbers,
         NEW a2 \in Field(AddrLen), NEW s2 \in Words, NEW b2 \in BlockNumbers,
         NEW i2 \in Field(IndexLen)
  PROVE  LET k == SlotKey(a2, s2, b2, i2) IN
         /\ InPrefixRange(SlotPrefix(a, s), k) <=> a = a2 /\ s = s2
         /\ InPrefixRange(Be(a, AddrLen), k) <=> a = a2
         /\ InSeekRange(a, s, b, k) <=> a = a2 /\ s = s2 /\ b2 <= b
<1> DEFINE k == SlotKey(a2, s2, b2, i2)
           P == SlotPrefix(a, s)
           P2 == SlotPrefix(a2, s2)
           BI == Be(b2, BlockLen) \o Be(i2, IndexLen)
           SBI == Be(s2, WordLen) \o BI
           A == Be(a, AddrLen)
           A2 == Be(a2, AddrLen)
<1>1. /\ P2 \in Bytes(AddrLen + WordLen) /\ BI \in Bytes(BlockLen + IndexLen)
      /\ SBI \in Bytes(WordLen + (BlockLen + IndexLen)) /\ k = P2 \o BI /\ k = A2 \o SBI
  BY KeyParts
<1>2. P \in Bytes(AddrLen + WordLen) BY LastIsLast, KeyParts
<1>3. A \in Bytes(AddrLen) /\ A2 \in Bytes(AddrLen) /\ (A = A2 <=> a = a2)
  BY FieldBytes, FieldOrder, Widths
<1>4. /\ AddrLen + WordLen \in Nat /\ BlockLen + IndexLen \in Nat
      /\ WordLen + (BlockLen + IndexLen) \in Nat
  BY Widths
<1>5. /\ KeyLess(P2, P) <=> a2 < a \/ (a2 = a /\ s2 < s)
      /\ P2 = P <=> a2 = a /\ s2 = s
  BY LastIsLast, SlotKeyLess
<1>6. KeyLess(SlotKey(a, s, b, LastIndex), k) <=>
        a < a2 \/ (a = a2 /\ (s < s2 \/ (s = s2 /\ (b < b2 \/ (b = b2 /\ LastIndex < i2)))))
  BY LastIsLast, SlotKeyLess
<1> HIDE DEF k, P, P2, BI, SBI, A, A2
<1>7. InPrefixRange(P, k) <=> a = a2 /\ s = s2
  <2>1. InPrefixRange(P, P2 \o BI) <=> P = P2
    <3>1. \A p, u \in Bytes(AddrLen + WordLen), v \in Bytes(BlockLen + IndexLen) :
            InPrefixRange(p, u \o v) <=> p = u
      BY <1>4, RangeOfPart
    <3> QED BY <1>1, <1>2, <3>1
  <2> QED BY <1>1, <1>5, <2>1
<1>8. InPrefixRange(A, k) <=> a = a2
  <2>1. InPrefixRange(A, A2 \o SBI) <=> A = A2 BY <1>1, <1>3, <1>4, Widths, RangeOfPart
  <2> QED BY <1>1, <1>3, <2>1
<1>9. InSeekRange(a, s, b, k) <=> a = a2 /\ s = s2 /\ b2 <= b
  <2>1. KeyLess(P2 \o BI, P) <=> KeyLess(P2, P)
    <3>1. \A p, u \in Bytes(AddrLen + WordLen), v \in Bytes(BlockLen + IndexLen) :
            KeyLess(u \o v, p) <=> KeyLess(u, p)
      BY <1>4, RangeOfPart
    <3> QED BY <1>1, <1>2, <3>1
  <2>2. InSeekRange(a, s, b, k) <=> ~ KeyLess(P2, P) /\ ~ KeyLess(SlotKey(a, s, b, LastIndex), k)
    BY <1>1, <2>1 DEF InSeekRange, P
  <2>3. ~ (LastIndex < i2)
    <3>1. i2 <= LastIndex BY LastIsLast
    <3>2. i2 \in Nat /\ LastIndex \in Nat BY LastIsLast, Widths, FieldBytes
    <3> QED BY <3>1, <3>2
  <2>4. a \in Nat /\ a2 \in Nat BY Widths, FieldBytes
  <2>5. s \in Nat /\ s2 \in Nat BY Widths, FieldBytes DEF Words
  <2>6. b \in Nat /\ b2 \in Nat BY Widths, FieldBytes DEF BlockNumbers
  <2> QED BY <1>5, <1>6, <2>2, <2>3, <2>4, <2>5, <2>6
<1> QED BY <1>7, <1>8, <1>9 DEF k, P, A

LEMMA SlotKeyReadsBack ==
  ASSUME NEW a \in Field(AddrLen), NEW s \in Words, NEW b \in BlockNumbers,
         NEW i \in Field(IndexLen)
  PROVE  ParseSlotKey(SlotKey(a, s, b, i)) = <<a, s, b, i>>
<1> DEFINE A == Be(a, AddrLen)
           S == Be(s, WordLen)
           B == Be(b, BlockLen)
           I == Be(i, IndexLen)
           P == SlotPrefix(a, s)
           k == SlotKey(a, s, b, i)
<1>1. A \in Bytes(AddrLen) /\ S \in Bytes(WordLen) /\ B \in Bytes(BlockLen) /\ I \in Bytes(IndexLen)
  BY FieldBytes, Widths DEF Words, BlockNumbers
<1>2. FromBe(A) = a /\ FromBe(S) = s /\ FromBe(B) = b /\ FromBe(I) = i
  BY FieldBytes, Widths DEF Words, BlockNumbers
<1>3. /\ P = A \o S /\ P \in Bytes(AddrLen + WordLen)
      /\ P \o B \in Bytes(AddrLen + WordLen + BlockLen)
      /\ S \o (B \o I) \in Bytes(WordLen + (BlockLen + IndexLen))
      /\ B \o I \in Bytes(BlockLen + IndexLen)
      /\ k = (P \o B) \o I /\ k = P \o (B \o I) /\ k = A \o (S \o (B \o I))
      /\ k \in Bytes(AddrLen + WordLen + BlockLen + IndexLen)
  BY KeyParts
<1>4. Len(k) = AddrLen + WordLen + BlockLen + IndexLen
  <2>1. AddrLen + WordLen + BlockLen + IndexLen \in Nat BY Widths
  <2> QED BY <1>3, <2>1, BytesAreSeqs
<1>5. ParseSlotKey(k) =
        <<FromBe(SubSeq(k, 0 + 1, 0 + AddrLen)),
          FromBe(SubSeq(k, AddrLen + 1, AddrLen + WordLen)),
          FromBe(SubSeq(k, AddrLen + WordLen + 1, AddrLen + WordLen + BlockLen)),
          FromBe(SubSeq(k, AddrLen + WordLen + BlockLen + 1,
                           AddrLen + WordLen + BlockLen + IndexLen))>>
  BY <1>4 DEF ParseSlotKey
<1> HIDE DEF A, S, B, I, P, k
<1>6. /\ AddrLen + WordLen \in Nat \ {0} /\ AddrLen + WordLen + BlockLen \in Nat \ {0}
      /\ WordLen + (BlockLen + IndexLen) \in Nat \ {0} /\ BlockLen + IndexLen \in Nat \ {0}
      /\ 0 + 1 = 1 /\ 0 + AddrLen = AddrLen
  BY Widths
<1>7. SubSeq(k, 1, AddrLen) = A
  <2>1. SubSeq(A \o (S \o (B \o I)), 1, AddrLen) = A BY <1>1, <1>3, <1>6, Widths, PartsOf
  <2> QED BY <1>3, <2>1
<1>8. SubSeq(k, AddrLen + 1, AddrLen + WordLen) = S
  <2>1. /\ P \in Seq(Nat) /\ B \o I \in Seq(Nat) /\ Len(P) = AddrLen + WordLen
    BY <1>3, <1>6, BytesAreSeqs
  <2>2. AddrLen + 1 \in 1 .. Len(P) /\ AddrLen + WordLen \in 1 .. Len(P) BY <2>1, Widths
  <2>3. SubSeq(P \o (B \o I), AddrLen + 1, AddrLen + WordLen)
          = SubSeq(P, AddrLen + 1, AddrLen + WordLen)
    BY <2>1, <2>2, SubSeqOfConcat1
  <2>4. SubSeq(A \o S, AddrLen + 1, AddrLen + WordLen) = S BY <1>1, Widths, PartsOf
  <2> QED BY <1>3, <2>3, <2>4
<1>9. SubSeq(k, AddrLen + WordLen + 1, AddrLen + WordLen + BlockLen) = B
  <2> DEFINE Q == P \o B
  <2>1. Q \in Bytes(AddrLen + WordLen + BlockLen) /\ k = Q \o I BY <1>3
  <2>2. SubSeq(Q, AddrLen + WordLen + 1, AddrLen + WordLen + BlockLen) = B
    <3>1. \A u \in Bytes(AddrLen + WordLen), v \in Bytes(BlockLen) :
            SubSeq(u \o v, AddrLen + WordLen + 1, AddrLen + WordLen + BlockLen) = v
      BY <1>6, Widths, PartsOf
    <3> QED BY <1>1, <1>3, <3>1
  <2> HIDE DEF Q
  <2>3. Q \in Seq(Nat) /\ I \in Seq(Nat) /\ Len(Q) = AddrLen + WordLen + BlockLen
    BY <1>1, <1>6, <2>1, Widths, BytesAreSeqs
  <2>4. /\ AddrLen + WordLen + 1 \in 1 .. Len(Q)
        /\ AddrLen + WordLen + BlockLen \in 1 .. Len(Q)
    BY <2>3, Widths
  <2>5. SubSeq(Q \o I, AddrLen + WordLen + 1, AddrLen + WordLen + BlockLen)
          = SubSeq(Q, AddrLen + WordLen + 1, AddrLen + WordLen + BlockLen)
    BY <2>3, <2>4, SubSeqOfConcat1
  <2> QED BY <2>1, <2>2, <2>5
<1>10. SubSeq(k, AddrLen + WordLen + BlockLen + 1, AddrLen + WordLen + BlockLen + IndexLen) = I
  <2> DEFINE Q == P \o B
  <2>1. Q \in Bytes(AddrLen + WordLen + BlockLen) /\ k = Q \o I BY <1>3
  <2> HIDE DEF Q
  <2>2. SubSeq(Q \o I, AddrLen + WordLen + BlockLen + 1, AddrLen + WordLen + BlockLen + IndexLen) = I
    <3>1. \A u \in Bytes(AddrLen + WordLen + BlockLen), v \in Bytes(IndexLen) :
            SubSeq(u \o v, AddrLen + WordLen + BlockLen + 1,
                            AddrLen + WordLen + BlockLen + IndexLen) = v
      BY <1>6, Widths, PartsOf
    <3> QED BY <1>1, <2>1, <3>1
  <2> QED BY <2>1, <2>2
<1> QED BY <1>2, <1>5, <1>6, <1>7, <1>8, <1>9, <1>10 DEF k

LEMMA BlockIdxKeys ==
  ASSUME NEW a \in Field(AddrLen), NEW b \in BlockNumbers,
         NEW a2 \in Field(AddrLen), NEW b2 \in BlockNumbers
  PROVE  /\ KeyLess(BlockIdxKey(a, b), BlockIdxKey(a2, b2)) <=> a < a2 \/ (a = a2 /\ b < b2)
         /\ ParseBlockIdxKey(BlockIdxKey(a, b)) = <<a, b>>
<1> DEFINE A == Be(a, AddrLen)
           B == Be(b, BlockLen)
           A2 == Be(a2, AddrLen)
           B2 == Be(b2, BlockLen)
           k == A \o B
<1>1. A \in Bytes(AddrLen) /\ B \in Bytes(BlockLen) /\ FromBe(A) = a /\ FromBe(B) = b
  BY FieldBytes, Widths DEF BlockNumbers
<1>2. A2 \in Bytes(AddrLen) /\ B2 \in Bytes(BlockLen) BY FieldBytes, Widths DEF BlockNumbers
<1>3. (KeyLess(A, A2) <=> a < a2) /\ (A = A2 <=> a = a2) BY FieldOrder, Widths
<1>4. KeyLess(B, B2) <=> b < b2 BY FieldOrder, Widths DEF BlockNumbers
<1>5. BlockIdxKey(a, b) = A \o B /\ BlockIdxKey(a2, b2) = A2 \o B2 BY DEF BlockIdxKey
<1> HIDE DEF A, B, A2, B2
<1>6. KeyLess(A \o B, A2 \o B2) <=> KeyLess(A, A2) \/ (A = A2 /\ KeyLess(B, B2))
  BY <1>1, <1>2, Widths, JoinedLess
<1>7. SubSeq(k, 1, AddrLen) = A /\ SubSeq(k, AddrLen + 1, AddrLen + BlockLen) = B
  BY <1>1, Widths, PartsOf
<1>8. Len(k) = AddrLen + BlockLen
  <2>1. k \in Bytes(AddrLen + BlockLen) /\ AddrLen + BlockLen \in Nat BY <1>1, Widths, Joined
  <2> HIDE DEF k
  <2> QED BY <2>1, BytesAreSeqs
<1> HIDE DEF k
<1>9. ParseBlockIdxKey(k) = <<a, b>> BY <1>1, <1>7, <1>8 DEF ParseBlockIdxKey
<1> QED BY <1>3, <1>4, <1>5, <1>6, <1>9 DEF k

\* keys.rs: with bytes and fields of any size, the order, the ranges and the seeks of the
\* store are those of the records, and a key that is read is the key that was written.
THEOREM KeysStayInOrder == input \in KeyQuestions => KeysKeepOrder
<1> SUFFICES ASSUME input \in KeyQuestions PROVE KeysKeepOrder OBVIOUS
<1> DEFINE j == input.j
           k == input.k
<1>1. j \in KeyFields /\ k \in KeyFields BY DEF KeyQuestions
<1> HIDE DEF j, k
<1>2. /\ j[1] \in Field(AddrLen) /\ j[2] \in Words /\ j[3] \in BlockNumbers /\ j[4] \in Field(IndexLen)
      /\ k[1] \in Field(AddrLen) /\ k[2] \in Words /\ k[3] \in BlockNumbers /\ k[4] \in Field(IndexLen)
      /\ k = <<k[1], k[2], k[3], k[4]>>
  BY <1>1 DEF KeyFields
<1>3. Before(j, k) <=>
        j[1] < k[1] \/ (j[1] = k[1] /\ (j[2] < k[2] \/ (j[2] = k[2]
          /\ (j[3] < k[3] \/ (j[3] = k[3] /\ j[4] < k[4])))))
  <2>1. \A n \in 1 .. 4 : n = 1 \/ n = 2 \/ n = 3 \/ n = 4 OBVIOUS
  <2>2. 1 .. 1 - 1 = {} /\ 1 .. 2 - 1 = {1} /\ 1 .. 3 - 1 = {1, 2} /\ 1 .. 4 - 1 = {1, 2, 3} OBVIOUS
  <2>3. 1 \in 1 .. 4 /\ 2 \in 1 .. 4 /\ 3 \in 1 .. 4 /\ 4 \in 1 .. 4 OBVIOUS
  <2> DEFINE At(n) == j[n] < k[n] /\ \A m \in 1 .. n - 1 : j[m] = k[m]
  <2>4. Before(j, k) <=> At(1) \/ At(2) \/ At(3) \/ At(4)
    <3> HIDE DEF At
    <3>1. Before(j, k) <=> \E n \in 1 .. 4 : At(n) BY DEF Before, At
    <3> QED BY <2>1, <2>3, <3>1
  <2>5. At(1) <=> j[1] < k[1] BY <2>2
  <2>6. At(2) <=> j[2] < k[2] /\ j[1] = k[1] BY <2>2
  <2>7. At(3) <=> j[3] < k[3] /\ j[1] = k[1] /\ j[2] = k[2] BY <2>2
  <2>8. At(4) <=> j[4] < k[4] /\ j[1] = k[1] /\ j[2] = k[2] /\ j[3] = k[3] BY <2>2
  <2> HIDE DEF At
  <2> QED BY <2>4, <2>5, <2>6, <2>7, <2>8
<1> DEFINE key == SlotKey(k[1], k[2], k[3], k[4])
<1>4. KeyLess(SlotKey(j[1], j[2], j[3], j[4]), key) <=> Before(j, k) BY <1>2, <1>3, SlotKeyLess
<1>5. /\ InPrefixRange(SlotPrefix(j[1], j[2]), key) <=> j[1] = k[1] /\ j[2] = k[2]
      /\ InPrefixRange(Be(j[1], AddrLen), key) <=> j[1] = k[1]
      /\ InSeekRange(j[1], j[2], j[3], key) <=> j[1] = k[1] /\ j[2] = k[2] /\ k[3] <= j[3]
  BY <1>2, SlotKeyRanges
<1>6. /\ KeyLess(BlockIdxKey(j[1], j[3]), BlockIdxKey(k[1], k[3]))
           <=> j[1] < k[1] \/ (j[1] = k[1] /\ j[3] < k[3])
      /\ ParseBlockIdxKey(BlockIdxKey(k[1], k[3])) = <<k[1], k[3]>>
  BY <1>2, BlockIdxKeys
<1>7. ParseSlotKey(key) = k BY <1>2, SlotKeyReadsBack
<1> QED BY <1>4, <1>5, <1>6, <1>7 DEF KeysKeepOrder, j, k

-----------------------------------------------------------------------------
(* Values *)

\* Zeros in front do not change a number.
LEMMA ZerosInFront ==
  ASSUME NEW n \in Nat, NEW w \in Bytes(n), NEW first \in 1 .. n + 1,
         \A m \in 1 .. first - 1 : w[m] = 0
  PROVE  /\ SubSeq(w, first, n) \in Bytes(n + 1 - first)
         /\ FromBe(SubSeq(w, first, n)) = FromBe(w)
<1> DEFINE body == SubSeq(w, first, n)
           l == n + 1 - first
<1>1. l \in 0 .. n /\ l \in Nat OBVIOUS
<1>2. body \in Bytes(l) /\ \A i \in 1 .. l : body[i] = w[first - 1 + i]
  <2>1. \A i \in first .. n : w[i] \in 0 .. Byte BY DEF Bytes
  <2>2. /\ body \in Seq(0 .. Byte) /\ Len(body) = IF first <= n THEN n - first + 1 ELSE 0
        /\ \A i \in 1 .. n - first + 1 : body[i] = w[first + i - 1]
    BY <2>1, SubSeqProperties
  <2> HIDE DEF body
  <2>3. Len(body) = l BY <2>2
  <2>4. body \in Bytes(l) BY <2>2, <2>3, LenProperties DEF Bytes
  <2>5. \A i \in 1 .. l : i \in 1 .. n - first + 1 /\ first + i - 1 = first - 1 + i OBVIOUS
  <2> QED BY <2>2, <2>4, <2>5
<1> HIDE DEF body
<1>3. PICK wval \in [0 .. n -> Nat] :
        /\ FromBe(w) = wval[n] /\ wval[0] = 0
        /\ \A i \in 1 .. n : wval[i] = wval[i - 1] * Base + w[i]
  BY ValueOf
<1>4. PICK bval \in [0 .. l -> Nat] :
        /\ FromBe(body) = bval[l] /\ bval[0] = 0
        /\ \A i \in 1 .. l : bval[i] = bval[i - 1] * Base + body[i]
  <2> HIDE DEF l
  <2> QED BY <1>1, <1>2, ValueOf
<1>5. Base \in Nat BY KeysAssumption DEF Base
<1>6. wval[first - 1] = 0
  <2> DEFINE T == {i \in 0 .. first - 1 : wval[i] = 0}
  <2>1. 0 \in T BY <1>3
  <2>2. ASSUME NEW i \in 1 .. first - 1, i - 1 \in T PROVE i \in T
    <3>1. i \in 1 .. n /\ i \in 0 .. first - 1 OBVIOUS
    <3>2. wval[i] = 0 * Base + 0 BY <1>3, <2>2, <3>1
    <3>3. wval[i] = 0 BY <1>5, <3>2
    <3> QED BY <3>1, <3>3
  <2>3. \A i \in T : wval[i] = 0 OBVIOUS
  <2> HIDE DEF T
  <2>4. first - 1 \in Nat /\ first - 1 \in 0 .. first - 1 OBVIOUS
  <2>5. \A i \in 0 .. first - 1 : i \in T BY <2>1, <2>2, <2>4, AllUpTo
  <2> QED BY <2>3, <2>4, <2>5
<1>7. bval[l] = wval[first - 1 + l]
  <2> DEFINE T == {i \in 0 .. l : bval[i] = wval[first - 1 + i]}
  <2>1. 0 \in T
    <3>1. first - 1 + 0 = first - 1 /\ 0 \in 0 .. l BY <1>1
    <3> QED BY <1>4, <1>6, <3>1
  <2>2. ASSUME NEW i \in 1 .. l, i - 1 \in T PROVE i \in T
    <3>1. /\ first - 1 + i \in 1 .. n /\ (first - 1 + i) - 1 = first - 1 + (i - 1)
          /\ i \in 0 .. l
      BY <1>1
    <3>2. bval[i - 1] = wval[first - 1 + (i - 1)] BY <2>2
    <3>3. bval[i] = bval[i - 1] * Base + body[i] /\ body[i] = w[first - 1 + i]
      <4> HIDE DEF l
      <4> QED BY <1>2, <1>4
    <3>4. wval[first - 1 + i] = wval[first - 1 + (i - 1)] * Base + w[first - 1 + i]
      BY <1>3, <3>1
    <3>5. bval[i] = wval[first - 1 + i] BY <3>2, <3>3, <3>4
    <3> QED BY <3>1, <3>5
  <2>3. \A i \in T : bval[i] = wval[first - 1 + i] OBVIOUS
  <2> HIDE DEF T
  <2>4. l \in 0 .. l BY <1>1
  <2> HIDE DEF l
  <2>5. \A i \in 0 .. l : i \in T BY <1>1, <2>1, <2>2, AllUpTo
  <2> QED BY <2>3, <2>4, <2>5
<1>8. first - 1 + l = n OBVIOUS
<1> QED BY <1>2, <1>3, <1>4, <1>7, <1>8 DEF body

\* A tag and bytes.
LEMMA Tagged ==
  ASSUME NEW tag \in Nat, NEW l \in Nat, NEW body \in Bytes(l)
  PROVE  /\ <<tag>> \o body # <<>> /\ Len(<<tag>> \o body) = l + 1
         /\ (<<tag>> \o body)[1] = tag /\ Tail(<<tag>> \o body) = body
<1>1. body \in Seq(Nat) /\ Len(body) = l BY BytesAreSeqs
<1> DEFINE e == <<tag>> \o body
<1>2. <<tag>> \in Seq(Nat) /\ Len(<<tag>>) = 1 /\ <<tag>>[1] = tag OBVIOUS
<1>3. /\ e \in Seq(Nat) /\ Len(e) = 1 + l
      /\ \A i \in 1 .. 1 + l : e[i] = IF i <= 1 THEN <<tag>>[i] ELSE body[i - 1]
  BY <1>1, <1>2, ConcatProperties
<1> HIDE DEF e
<1>4. 1 \in 1 .. 1 + l /\ 1 <= 1 OBVIOUS
<1>5. e[1] = tag BY <1>2, <1>3, <1>4
<1>6. e # <<>> BY <1>3
<1>7. Tail(e) \in Seq(Nat) /\ Len(Tail(e)) = l /\ \A i \in 1 .. l : Tail(e)[i] = e[i + 1]
  <2>1. Len(e) - 1 = l BY <1>3
  <2> QED BY <1>3, <1>6, <2>1, HeadTailProperties
<1>8. \A i \in 1 .. l : Tail(e)[i] = body[i]
  <2> TAKE i \in 1 .. l
  <2>1. i + 1 \in 1 .. 1 + l /\ ~ (i + 1 <= 1) /\ (i + 1) - 1 = i OBVIOUS
  <2> QED BY <1>3, <1>7, <2>1
<1>9. Tail(e) = body BY <1>1, <1>7, <1>8, SeqEqual
<1> QED BY <1>3, <1>5, <1>6, <1>9 DEF e

\* A record is read back from any form of its value that is no longer than a word.
LEMMA ValueReadsBack ==
  ASSUME NEW tag \in Nat, NEW l \in 0 .. WordLen, NEW body \in Bytes(l)
  PROVE  DecodeValue(<<tag>> \o body) = IF tag \in Tags THEN <<tag, FromBe(body)>> ELSE None
<1>1. l \in Nat /\ ~ (l + 1 > WordLen + 1) BY Widths
<1> DEFINE e == <<tag>> \o body
<1>2. e # <<>> /\ Len(e) = l + 1 /\ e[1] = tag /\ Tail(e) = body BY <1>1, Tagged
<1> HIDE DEF e
<1>3. DecodeValue(e) = IF tag \in Tags THEN <<tag, FromBe(body)>> ELSE None
  BY <1>1, <1>2 DEF DecodeValue, Provenance
<1> QED BY <1>3 DEF e

LEMMA ShortestReadsBack ==
  ASSUME NEW tag \in Nat, NEW v \in Words
  PROVE  DecodeValue(EncodeValue(tag, v)) = IF tag \in Tags THEN <<tag, v>> ELSE None
<1> DEFINE word == Be(v, WordLen)
           Begins(n) == /\ n <= WordLen => word[n] # 0
                        /\ \A m \in 1 .. n - 1 : word[m] = 0
           first == CHOOSE n \in 1 .. WordLen + 1 : Begins(n)
<1>1. word \in Bytes(WordLen) /\ FromBe(word) = v BY FieldBytes, Widths DEF Words
<1>2. EncodeValue(tag, v) = <<tag>> \o SubSeq(word, first, WordLen) BY DEF EncodeValue
<1> HIDE DEF word
<1>3. \E n \in 1 .. WordLen + 1 : Begins(n)
  <2> DEFINE zeros == [i \in 1 .. WordLen |-> 0]
  <2>1. \A i \in 1 .. WordLen : zeros[i] = 0 OBVIOUS
  <2> HIDE DEF zeros
  <2>2. CASE \A i \in 1 .. WordLen : word[i] = zeros[i]
    <3>1. WordLen + 1 \in 1 .. WordLen + 1 /\ ~ (WordLen + 1 <= WordLen) /\ (WordLen + 1) - 1 = WordLen
      BY Widths
    <3>2. Begins(WordLen + 1) BY <2>1, <2>2, <3>1
    <3> QED BY <3>1, <3>2
  <2>3. CASE \E n \in 1 .. WordLen : word[n] # zeros[n] /\ \A i \in 1 .. n - 1 : word[i] = zeros[i]
    <3>1. PICK n \in 1 .. WordLen : word[n] # zeros[n] /\ \A i \in 1 .. n - 1 : word[i] = zeros[i]
      BY <2>3
    <3>2. \A i \in 1 .. n - 1 : i \in 1 .. WordLen BY Widths
    <3>3. Begins(n) /\ n \in 1 .. WordLen + 1 BY <2>1, <3>1, <3>2, Widths
    <3> QED BY <3>3
  <2>4. \/ \A i \in 1 .. WordLen : word[i] = zeros[i]
        \/ \E n \in 1 .. WordLen : word[n] # zeros[n] /\ \A i \in 1 .. n - 1 : word[i] = zeros[i]
    <3> SUFFICES ASSUME ~ \A i \in 1 .. WordLen : word[i] = zeros[i]
                 PROVE  \E n \in 1 .. WordLen :
                          word[n] # zeros[n] /\ \A i \in 1 .. n - 1 : word[i] = zeros[i]
      OBVIOUS
    <3>1. WordLen \in Nat BY Widths
    <3>2. PICK n \in 1 .. WordLen : word[n] # zeros[n] /\ \A i \in 1 .. n - 1 : word[i] = zeros[i]
      BY <3>1, FirstDifference
    <3> QED BY <3>2
  <2> QED BY <2>2, <2>3, <2>4
<1>4. first \in 1 .. WordLen + 1 /\ Begins(first) BY <1>3
<1> HIDE DEF first
<1> DEFINE body == SubSeq(word, first, WordLen)
<1>5. body \in Bytes(WordLen + 1 - first) /\ FromBe(body) = v
  <2>1. \A m \in 1 .. first - 1 : word[m] = 0 BY <1>4
  <2> QED BY <1>1, <1>4, <2>1, Widths, ZerosInFront
<1>6. WordLen + 1 - first \in 0 .. WordLen BY <1>4, Widths
<1> HIDE DEF body
<1>7. DecodeValue(<<tag>> \o body) = IF tag \in Tags THEN <<tag, FromBe(body)>> ELSE None
  BY <1>5, <1>6, ValueReadsBack
<1> QED BY <1>2, <1>5, <1>7 DEF body

-----------------------------------------------------------------------------
(* The entries of the block index *)

\* What follows the words before it.
LEMMA WordAt ==
  ASSUME NEW n \in Nat, NEW r \in 0 .. WordLen - 1
  PROVE  (n * WordLen + r) \div WordLen = n /\ (n * WordLen + r) % WordLen = r
  BY DigitOf, Widths

LEMMA SlotsReadBack ==
  ASSUME NEW slots \in Seq(Words)
  PROVE  LET list == EncodeSlots(slots) IN
         /\ DecodeSlots(list) = slots
         /\ list # <<>> => DecodeSlots(Tail(list)) = None
<1> DEFINE n == Len(slots)
           list == EncodeSlots(slots)
           Word(q) == Be(slots[q], WordLen)
<1>1. n \in Nat /\ \A q \in 1 .. n : slots[q] \in Words OBVIOUS
<1>2. \A q \in 1 .. n : Word(q) \in Bytes(WordLen) /\ FromBe(Word(q)) = slots[q]
  BY <1>1, FieldBytes, Widths DEF Words
<1>3. list = [i \in 1 .. n * WordLen |-> Word(((i - 1) \div WordLen) + 1)[((i - 1) % WordLen) + 1]]
  BY DEF EncodeSlots
<1>4. slots = [q \in 1 .. n |-> slots[q]] OBVIOUS
<1> HIDE DEF n, list, Word
<1>5. n * WordLen \in Nat BY <1>1, Widths
<1>6. ASSUME NEW q \in 1 .. n, NEW m \in 1 .. WordLen
      PROVE  /\ (q - 1) * WordLen + m \in 1 .. n * WordLen
             /\ list[(q - 1) * WordLen + m] = Word(q)[m]
  <2>1. q - 1 \in Nat /\ m - 1 \in 0 .. WordLen - 1 /\ (q - 1) * WordLen \in Nat BY Widths
  <2>2. /\ ((q - 1) * WordLen + (m - 1)) \div WordLen = q - 1
        /\ ((q - 1) * WordLen + (m - 1)) % WordLen = m - 1
    BY <2>1, WordAt
  <2>3. (q - 1) * WordLen + m \in 1 .. n * WordLen
    <3>1. q * WordLen <= n * WordLen BY <1>1, Widths, SMTT(30)
    <3>2. q * WordLen = (q - 1) * WordLen + WordLen BY Widths, SMTT(30)
    <3>3. q * WordLen \in Nat BY Widths
    <3> QED BY <1>5, <2>1, <3>1, <3>2, <3>3, Widths
  <2>4. ((q - 1) * WordLen + m) - 1 = (q - 1) * WordLen + (m - 1) BY <2>1
  <2>5. (q - 1) + 1 = q /\ (m - 1) + 1 = m OBVIOUS
  <2>6. list[(q - 1) * WordLen + m]
          = Word(((((q - 1) * WordLen + m) - 1) \div WordLen) + 1)
              [((((q - 1) * WordLen + m) - 1) % WordLen) + 1]
    BY <1>3, <2>3
  <2> QED BY <2>2, <2>3, <2>4, <2>5, <2>6
<1>7. list \in [1 .. n * WordLen -> Nat]
  <2> SUFFICES ASSUME NEW i \in 1 .. n * WordLen
               PROVE  Word(((i - 1) \div WordLen) + 1)[((i - 1) % WordLen) + 1] \in Nat
    BY <1>3
  <2> DEFINE q == (i - 1) \div WordLen
             r == (i - 1) % WordLen
  <2>1. i - 1 \in Nat /\ i - 1 < n * WordLen BY <1>5
  <2>2. q \in Nat /\ r \in 0 .. WordLen - 1 /\ i - 1 = q * WordLen + r
    BY <2>1, Widths, SMTT(30)
  <2> HIDE DEF q, r
  <2>3. q < n
    <3> SUFFICES ASSUME n <= q PROVE FALSE BY <1>1, <2>2
    <3>1. n * WordLen <= q * WordLen BY <1>1, <2>2, Widths, SMTT(30)
    <3>2. q * WordLen \in Nat BY <2>2, Widths
    <3> QED BY <1>5, <2>1, <2>2, <3>1, <3>2
  <2>4. q + 1 \in 1 .. n /\ r + 1 \in 1 .. WordLen BY <1>1, <2>2, <2>3, Widths
  <2>5. Word(q + 1)[r + 1] \in Nat BY <1>2, <2>4, Widths DEF Bytes
  <2> QED BY <2>5 DEF q, r
<1>8. list \in Seq(Nat) /\ Len(list) = n * WordLen BY <1>5, <1>7, FunctionsAreSeqs
<1>9. ASSUME NEW q \in 1 .. n
      PROVE  FromBe(SubSeq(list, (q - 1) * WordLen + 1, q * WordLen)) = slots[q]
  <2> DEFINE from == (q - 1) * WordLen
             part == SubSeq(list, from + 1, q * WordLen)
  <2>1. from \in Nat /\ q * WordLen = from + WordLen
    <3>1. q * WordLen = (q - 1) * WordLen + WordLen BY Widths, SMTT(30)
    <3>2. q - 1 \in Nat OBVIOUS
    <3> QED BY <3>1, <3>2, Widths
  <2>2. \A m \in 1 .. WordLen : from + m \in 1 .. n * WordLen /\ list[from + m] = Word(q)[m]
    BY <1>6
  <2> HIDE DEF from
  <2>3. Word(q) \in Seq(Nat) /\ Len(Word(q)) = WordLen BY <1>2, Widths, BytesAreSeqs
  <2>4. \A i \in from + 1 .. q * WordLen : list[i] \in Nat
    <3> TAKE i \in from + 1 .. q * WordLen
    <3>1. i - from \in 1 .. WordLen /\ from + (i - from) = i BY <2>1, Widths
    <3>2. i \in 1 .. n * WordLen BY <2>2, <3>1
    <3> QED BY <1>7, <3>2
  <2>5. from + 1 \in Int /\ q * WordLen \in Int BY <2>1, Widths
  <2>6. /\ part \in Seq(Nat)
        /\ Len(part) = IF from + 1 <= q * WordLen THEN q * WordLen - (from + 1) + 1 ELSE 0
        /\ \A i \in 1 .. q * WordLen - (from + 1) + 1 : part[i] = list[from + 1 + i - 1]
    BY <2>4, <2>5, SubSeqProperties
  <2> HIDE DEF part
  <2>7. Len(part) = WordLen BY <2>1, <2>6, Widths
  <2>8. \A i \in 1 .. WordLen : part[i] = Word(q)[i]
    <3> TAKE i \in 1 .. WordLen
    <3>1. i \in 1 .. q * WordLen - (from + 1) + 1 /\ from + 1 + i - 1 = from + i BY <2>1, Widths
    <3> QED BY <2>2, <2>6, <3>1
  <2>9. part = Word(q) BY <2>3, <2>6, <2>7, <2>8, SeqEqual
  <2> QED BY <1>2, <2>9 DEF part, from
<1>10. (n * WordLen) % WordLen = 0 /\ (n * WordLen) \div WordLen = n
  <2>1. n * WordLen + 0 = n * WordLen /\ 0 \in 0 .. WordLen - 1 BY <1>5, Widths
  <2>2. (n * WordLen + 0) \div WordLen = n /\ (n * WordLen + 0) % WordLen = 0
    BY <1>1, <2>1, WordAt
  <2> QED BY <2>1, <2>2
<1>11. DecodeSlots(list) = slots
  <2>1. DecodeSlots(list)
          = [q \in 1 .. n |-> FromBe(SubSeq(list, (q - 1) * WordLen + 1, q * WordLen))]
    BY <1>8, <1>10 DEF DecodeSlots
  <2> QED BY <1>4, <1>9, <2>1
<1>12. ASSUME list # <<>> PROVE DecodeSlots(Tail(list)) = None
  <2>1. n # 0
    <3> SUFFICES ASSUME n = 0 PROVE FALSE OBVIOUS
    <3>1. Len(list) = 0 BY <1>8, Widths
    <3> QED BY <1>8, <1>12, <3>1, EmptySeq
  <2>2. n - 1 \in Nat /\ WordLen - 1 \in 0 .. WordLen - 1 /\ WordLen - 1 # 0 BY <1>1, <2>1, Widths
  <2>3. ((n - 1) * WordLen + (WordLen - 1)) % WordLen = WordLen - 1 BY <2>2, WordAt
  <2>4. (n - 1) * WordLen + (WordLen - 1) = n * WordLen - 1
    <3>1. n * WordLen = (n - 1) * WordLen + WordLen BY <1>1, Widths, SMTT(30)
    <3>2. (n - 1) * WordLen \in Nat BY <2>2, Widths
    <3> QED BY <3>1, <3>2, Widths
  <2>5. Len(Tail(list)) = n * WordLen - 1 BY <1>8, <1>12, HeadTailProperties
  <2>6. Len(Tail(list)) % WordLen # 0 BY <2>2, <2>3, <2>4, <2>5
  <2> QED BY <2>6 DEF DecodeSlots
<1> QED BY <1>11, <1>12 DEF list

-----------------------------------------------------------------------------
(* Bootstrap states *)

LEMMA BootReadsBack ==
  ASSUME NEW tag \in {"done", "pending", "lost"}, NEW seen \in BlockNumbers
  PROVE  /\ DecodeBoot(EncodeBoot(tag, seen)) = <<tag, IF tag = "done" THEN 0 ELSE seen>>
         /\ DecodeBoot(Tail(EncodeBoot(tag, seen))) = None
<1> DEFINE block == IF tag = "done" THEN 0 ELSE seen
           body == Be(block, BlockLen)
           n == CHOOSE m \in 1 .. 3 : BootTags[m] = tag
<1>1. block \in BlockNumbers
  <2> DEFINE zeros == [i \in 1 .. BlockLen |-> 0]
  <2>1. zeros \in Bytes(BlockLen) /\ \A m \in 1 .. BlockLen : zeros[m] = 0 BY Widths DEF Bytes
  <2> HIDE DEF zeros
  <2>2. FromBe(zeros) = 0
    <3>1. PICK val \in [0 .. BlockLen -> Nat] :
            /\ FromBe(zeros) = val[BlockLen] /\ val[0] = 0
            /\ \A i \in 1 .. BlockLen : val[i] = val[i - 1] * Base + zeros[i]
      BY <2>1, Widths, ValueOf
    <3> DEFINE T == {i \in 0 .. BlockLen : val[i] = 0}
    <3>2. 0 \in T BY <3>1, Widths
    <3>3. ASSUME NEW i \in 1 .. BlockLen, i - 1 \in T PROVE i \in T
      <4>1. val[i] = 0 * Base + 0 BY <2>1, <3>1, <3>3
      <4>2. val[i] = 0 BY <4>1, Widths DEF Base
      <4> QED BY <4>2
    <3>4. \A i \in T : val[i] = 0 OBVIOUS
    <3> HIDE DEF T
    <3>5. \A i \in 0 .. BlockLen : i \in T BY <3>2, <3>3, Widths, AllUpTo
    <3>6. BlockLen \in 0 .. BlockLen BY Widths
    <3> QED BY <3>1, <3>4, <3>5, <3>6
  <2>3. 0 \in BlockNumbers BY <2>1, <2>2 DEF BlockNumbers, Field, Bytes
  <2> QED BY <2>3
<1> HIDE DEF block
<1>2. body \in Bytes(BlockLen) /\ FromBe(body) = block BY <1>1, FieldBytes, Widths DEF BlockNumbers
<1>3. EncodeBoot(tag, seen) = <<n - 1>> \o body BY DEF EncodeBoot, block
<1>4. n \in 1 .. 3 /\ BootTags[n] = tag
  <2>1. \E m \in 1 .. 3 : BootTags[m] = tag
    <3>1. BootTags[1] = "done" /\ BootTags[2] = "pending" /\ BootTags[3] = "lost" BY DEF BootTags
    <3>2. 1 \in 1 .. 3 /\ 2 \in 1 .. 3 /\ 3 \in 1 .. 3 OBVIOUS
    <3> QED BY <3>1, <3>2
  <2> QED BY <2>1
<1> HIDE DEF n, body
<1>5. (n = 1 /\ tag = "done") \/ (n = 2 /\ tag = "pending") \/ (n = 3 /\ tag = "lost")
  BY <1>4 DEF BootTags
<1> DEFINE e == <<n - 1>> \o body
<1>6. e # <<>> /\ Len(e) = BlockLen + 1 /\ e[1] = n - 1 /\ Tail(e) = body
  <2>1. n - 1 \in Nat BY <1>4
  <2> QED BY <1>2, <2>1, Widths, Tagged
<1> HIDE DEF e
<1>7. DecodeBoot(e) = <<tag, block>>
  <2>1. CASE n = 1 BY <1>5, <1>6, <2>1 DEF DecodeBoot, block
  <2>2. CASE n = 2 \/ n = 3
    <3>1. e[1] \in {1, 2} /\ e[1] # 0 /\ e[1] + 1 = n BY <1>6, <2>2
    <3>2. DecodeBoot(e) = <<BootTags[e[1] + 1], FromBe(Tail(e))>> BY <1>6, <3>1 DEF DecodeBoot
    <3> QED BY <1>2, <1>4, <1>6, <3>1, <3>2
  <2> QED BY <1>5, <2>1, <2>2
<1>8. DecodeBoot(Tail(e)) = None
  <2>1. Len(body) = BlockLen /\ BlockLen # BlockLen + 1 BY <1>2, Widths, BytesAreSeqs
  <2> QED BY <1>6, <2>1 DEF DecodeBoot
<1> QED BY <1>3, <1>7, <1>8 DEF e, block

\* keys.rs:131-210, of words and blocks of any size: what is written is read back, with or
\* without its leading zeros, and what nobody wrote, or what was cut short, is refused.
THEOREM EncodingsAreReadBack == input \in StoredQuestions => EncodingsReadBack
<1> SUFFICES ASSUME input \in StoredQuestions PROVE EncodingsReadBack OBVIOUS
<1> DEFINE tag == input.tag
           v == input.value
           slots == input.slots
           seen == input.seen
<1>1. tag \in Nat /\ v \in Words /\ slots \in Seq(Words) /\ seen \in BlockNumbers
  <2>1. 0 .. Byte \subseteq Nat BY Widths
  <2> QED BY <2>1 DEF StoredQuestions
<1> HIDE DEF tag, v, slots, seen
<1>2. DecodeValue(EncodeValue(tag, v)) = IF tag \in Tags THEN <<tag, v>> ELSE None
  BY <1>1, ShortestReadsBack
<1>3. DecodeValue(<<tag>> \o Be(v, WordLen)) = IF tag \in Tags THEN <<tag, v>> ELSE None
  <2> DEFINE word == Be(v, WordLen)
  <2>1. word \in Bytes(WordLen) /\ FromBe(word) = v BY <1>1, FieldBytes, Widths DEF Words
  <2> HIDE DEF word
  <2>2. WordLen \in 0 .. WordLen BY Widths
  <2>3. DecodeValue(<<tag>> \o word) = IF tag \in Tags THEN <<tag, FromBe(word)>> ELSE None
    BY <1>1, <2>1, <2>2, ValueReadsBack
  <2> QED BY <2>1, <2>3 DEF word
<1>4. /\ DecodeSlots(EncodeSlots(slots)) = slots
      /\ EncodeSlots(slots) # <<>> => DecodeSlots(Tail(EncodeSlots(slots))) = None
  BY <1>1, SlotsReadBack
<1>5. \A b \in {"pending", "lost"} : DecodeBoot(EncodeBoot(b, seen)) = <<b, seen>>
  <2> TAKE b \in {"pending", "lost"}
  <2>1. b \in {"done", "pending", "lost"} /\ b # "done" OBVIOUS
  <2> QED BY <1>1, <2>1, BootReadsBack
<1>6. DecodeBoot(EncodeBoot("done", seen)) = <<"done", 0>>
  <2>1. "done" \in {"done", "pending", "lost"} OBVIOUS
  <2> QED BY <1>1, <2>1, BootReadsBack
<1>7. \A b \in {"done", "pending", "lost"} : DecodeBoot(Tail(EncodeBoot(b, seen))) = None
  BY <1>1, BootReadsBack
<1> QED BY <1>2, <1>3, <1>4, <1>5, <1>6, <1>7 DEF EncodingsReadBack, tag, v, slots, seen
=============================================================================
