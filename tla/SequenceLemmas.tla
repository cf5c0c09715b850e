--------------------------- MODULE SequenceLemmas ---------------------------
(***************************************************************************)
(* What the proofs of the other modules use about numbers, recursive       *)
(* functions on 0 .. n and sequences, stated about sets and functions so   *)
(* that the provers can instantiate it.                                    *)
(***************************************************************************)
EXTENDS Integers, SequencesExt, FiniteSetTheorems, TLAPS

\* A set of numbers that is not empty has a least one.
LEMMA LeastNumber ==
  ASSUME NEW T \in SUBSET Nat, T # {}
  PROVE  \E x \in T : \A y \in T : x <= y
<1>1. PICK x \in T : \A y \in T : ~(<<y, x>> \in OpToRel(<, Nat))
  BY NatLessThanWellFounded, WFMin
<1>2. \A y \in T : ~(y < x) BY <1>1 DEF OpToRel
<1> QED BY <1>2

\* One with an upper bound has a greatest.
LEMMA GreatestNumber ==
  ASSUME NEW T \in SUBSET Int, T # {}, NEW n \in Int, \A y \in T : y <= n
  PROVE  \E x \in T : \A y \in T : y <= x
<1> DEFINE gaps == {n - y : y \in T}
<1>1. gaps \in SUBSET Nat /\ gaps # {} OBVIOUS
<1> HIDE DEF gaps
<1>2. PICK g \in gaps : \A h \in gaps : g <= h BY <1>1, LeastNumber
<1>3. PICK x \in T : g = n - x BY DEF gaps
<1>4. ASSUME NEW y \in T PROVE y <= x
  <2>1. n - y \in gaps BY DEF gaps
  <2> QED BY <1>2, <1>3, <2>1
<1> QED BY <1>4

LEMMA MinInSet ==
  ASSUME NEW T \in SUBSET Nat, T # {}
  PROVE  Min(T) \in T /\ \A y \in T : Min(T) <= y
BY LeastNumber DEF Min

LEMMA MaxInSet ==
  ASSUME NEW T \in SUBSET Int, T # {}, NEW n \in Int, \A y \in T : y <= n
  PROVE  Max(T) \in T /\ \A y \in T : Max(T) >= y
<1>1. \E x \in T : \A y \in T : x >= y
  <2>1. PICK x \in T : \A y \in T : y <= x BY GreatestNumber
  <2> QED BY <2>1
<1> QED BY <1>1 DEF Max

\* Induction over 0 .. n.
LEMMA UpToInduction ==
  ASSUME NEW n \in Nat, NEW T, 0 \in T,
         \A i \in 1 .. n : i - 1 \in T => i \in T
  PROVE  0 .. n \subseteq T
<1> DEFINE bad == 0 .. n \ T
<1> SUFFICES ASSUME bad # {} PROVE FALSE OBVIOUS
<1>1. bad \in SUBSET Nat OBVIOUS
<1> HIDE DEF bad
<1>2. PICK x \in bad : \A y \in bad : x <= y BY <1>1, LeastNumber
<1>3. x \in 1 .. n /\ x \notin T BY DEF bad
<1>4. x - 1 \in T BY <1>2, <1>3 DEF bad
<1> QED BY <1>3, <1>4

\* Functions that start at base and go on by steps; stated with names, which
\* the provers match.
Steps(n, S) == [1 .. n -> [S -> S]]
GoesBy(f, n, base, step) == f[0] = base /\ \A i \in 1 .. n : f[i] = step[i][f[i - 1]]

LEMMA RecursionExists ==
  ASSUME NEW n \in Nat, NEW S, NEW base \in S, NEW step \in Steps(n, S)
  PROVE  \E f \in [0 .. n -> S] : GoesBy(f, n, base, step)
<1> USE DEF Steps
<1> DEFINE IsUpTo(f, m) == f[0] = base /\ \A i \in 1 .. m : f[i] = step[i][f[i - 1]]
           T == {m \in 0 .. n : \E f \in [0 .. m -> S] : IsUpTo(f, m)}
<1>1. 0 \in T
  <2> DEFINE f == [i \in 0 .. 0 |-> base]
  <2>1. f \in [0 .. 0 -> S] /\ f[0] = base /\ 0 \in 0 .. n OBVIOUS
  <2>2. IsUpTo(f, 0) BY <2>1
  <2> HIDE DEF f, IsUpTo
  <2> QED BY <2>1, <2>2
<1>2. ASSUME NEW m \in 1 .. n, m - 1 \in T PROVE m \in T
  <2>1. PICK f \in [0 .. m - 1 -> S] : IsUpTo(f, m - 1) BY <1>2
  <2> DEFINE g == [i \in 0 .. m |-> IF i = m THEN step[m][f[m - 1]] ELSE f[i]]
  <2>2. f[m - 1] \in S BY <2>1
  <2>3. step[m][f[m - 1]] \in S BY <2>2
  <2>4. g \in [0 .. m -> S] BY <2>3
  <2>5. g[0] = base BY <2>1
  <2>6. ASSUME NEW i \in 1 .. m PROVE g[i] = step[i][g[i - 1]]
    <3>1. CASE i = m BY <3>1
    <3>2. CASE i # m BY <2>1, <3>2
    <3> QED BY <3>1, <3>2
  <2> HIDE DEF g
  <2>7. IsUpTo(g, m) /\ m \in 0 .. n BY <2>5, <2>6
  <2> HIDE DEF IsUpTo
  <2> QED BY <2>4, <2>7
<1> HIDE DEF T
<1>3. 0 .. n \subseteq T
  <2>1. \A m \in 1 .. n : m - 1 \in T => m \in T BY <1>2
  <2> QED BY <1>1, <2>1, UpToInduction
<1>4. n \in T BY <1>3
<1> QED BY <1>4 DEF T, GoesBy

-----------------------------------------------------------------------------
\* The members of a longer list.
LEMMA AppendAdds ==
  ASSUME NEW S, NEW s \in Seq(S), NEW x \in S
  PROVE  /\ Append(s, x) \in Seq(S)
         /\ ToSet(Append(s, x)) = ToSet(s) \union {x}
         /\ IsInjective(s) /\ x \notin ToSet(s) => IsInjective(Append(s, x))
<1> DEFINE t == Append(s, x)
           n == Len(s)
<1>1. /\ t \in Seq(S) /\ n \in Nat /\ Len(t) = n + 1 /\ t[n + 1] = x
      /\ \A i \in 1 .. n : t[i] = s[i]
  OBVIOUS
<1>2. DOMAIN s = 1 .. n /\ DOMAIN t = 1 .. n + 1 BY <1>1
<1> HIDE DEF t, n
<1>3. ToSet(t) = ToSet(s) \union {x} BY <1>1, <1>2 DEF ToSet
<1>4. ASSUME IsInjective(s), x \notin ToSet(s) PROVE IsInjective(t)
  BY <1>1, <1>2, <1>4 DEF IsInjective, ToSet
<1> QED BY <1>1, <1>3, <1>4 DEF t

\* The members of two sequences, one after the other.
LEMMA ConcatAdds ==
  ASSUME NEW S, NEW s \in Seq(S), NEW t \in Seq(S)
  PROVE  s \o t \in Seq(S) /\ ToSet(s \o t) = ToSet(s) \union ToSet(t)
<1> DEFINE u == s \o t
           n == Len(s)
           m == Len(t)
<1>1. /\ u \in Seq(S) /\ n \in Nat /\ m \in Nat /\ Len(u) = n + m
      /\ \A i \in 1 .. n : u[i] = s[i]
      /\ \A i \in 1 .. m : u[n + i] = t[i]
  OBVIOUS
<1>2. DOMAIN s = 1 .. n /\ DOMAIN t = 1 .. m /\ DOMAIN u = 1 .. n + m BY <1>1
<1> HIDE DEF u, n, m
<1>3. ASSUME NEW x \in ToSet(u) PROVE x \in ToSet(s) \union ToSet(t)
  <2>1. PICK i \in 1 .. n + m : x = u[i] BY <1>2 DEF ToSet
  <2>2. CASE i <= n BY <1>1, <1>2, <2>1, <2>2 DEF ToSet
  <2>3. CASE i > n
    <3>1. i - n \in 1 .. m /\ u[n + (i - n)] = t[i - n] /\ n + (i - n) = i BY <1>1, <2>3
    <3> QED BY <1>2, <2>1, <3>1 DEF ToSet
  <2> QED BY <1>1, <2>2, <2>3
<1>4. ASSUME NEW x \in ToSet(s) PROVE x \in ToSet(u)
  <2>1. PICK i \in 1 .. n : x = s[i] BY <1>2 DEF ToSet
  <2> QED BY <1>1, <1>2, <2>1 DEF ToSet
<1>5. ASSUME NEW x \in ToSet(t) PROVE x \in ToSet(u)
  <2>1. PICK i \in 1 .. m : x = t[i] BY <1>2 DEF ToSet
  <2>2. n + i \in 1 .. n + m BY <1>1
  <2> QED BY <1>1, <1>2, <2>1, <2>2 DEF ToSet
<1> QED BY <1>1, <1>3, <1>4, <1>5 DEF u

\* The members of a sequence are its first and those of its tail.
LEMMA TailLeaves ==
  ASSUME NEW S, NEW s \in Seq(S), s # <<>>
  PROVE  /\ Tail(s) \in Seq(S) /\ Head(s) \in S
         /\ ToSet(s) = {Head(s)} \union ToSet(Tail(s))
<1> DEFINE t == Tail(s)
           n == Len(s)
<1>1. /\ t \in Seq(S) /\ n \in Nat \ {0} /\ Len(t) = n - 1
      /\ \A i \in 1 .. n - 1 : t[i] = s[i + 1]
      /\ Head(s) = s[1] /\ s[1] \in S
  OBVIOUS
<1>2. DOMAIN s = 1 .. n /\ DOMAIN t = 1 .. n - 1 BY <1>1
<1> HIDE DEF t, n
<1>3. ASSUME NEW x \in ToSet(s) PROVE x = s[1] \/ x \in ToSet(t)
  <2>1. PICK i \in 1 .. n : x = s[i] BY <1>2 DEF ToSet
  <2>2. CASE i = 1 BY <2>1, <2>2
  <2>3. CASE i # 1
    <3>1. i - 1 \in 1 .. n - 1 /\ t[i - 1] = s[i] BY <1>1, <2>3
    <3> QED BY <1>2, <2>1, <3>1 DEF ToSet
  <2> QED BY <2>2, <2>3
<1>4. ASSUME NEW x \in ToSet(t) PROVE x \in ToSet(s)
  <2>1. PICK i \in 1 .. n - 1 : x = t[i] BY <1>2 DEF ToSet
  <2>2. i + 1 \in 1 .. n BY <1>1
  <2> QED BY <1>1, <1>2, <2>1, <2>2 DEF ToSet
<1>5. s[1] \in ToSet(s) BY <1>1, <1>2 DEF ToSet
<1> QED BY <1>1, <1>3, <1>4, <1>5 DEF t

\* The entries of two sequences, one after the other.
LEMMA ConcatEntries ==
  ASSUME NEW S, NEW s \in Seq(S), NEW t \in Seq(S)
  PROVE  /\ s \o t \in Seq(S) /\ Len(s \o t) = Len(s) + Len(t)
         /\ \A i \in 1 .. Len(s) + Len(t) :
              (s \o t)[i] = IF i <= Len(s) THEN s[i] ELSE t[i - Len(s)]
OBVIOUS

\* A sequence with one entry more, and with one entry less.
LEMMA InsertAtIs ==
  ASSUME NEW S, NEW s \in Seq(S), NEW e \in S, NEW i \in 1 .. Len(s) + 1
  PROVE  /\ InsertAt(s, i, e) \in Seq(S) /\ Len(InsertAt(s, i, e)) = Len(s) + 1
         /\ \A k \in 1 .. Len(s) + 1 :
              InsertAt(s, i, e)[k] = IF k < i THEN s[k] ELSE IF k = i THEN e ELSE s[k - 1]
<1> DEFINE before == SubSeq(s, 1, i - 1)
           one == <<e>>
           after == SubSeq(s, i, Len(s))
           left == before \o one
<1>1. InsertAt(s, i, e) = left \o after BY DEF InsertAt
<1>2. /\ before \in Seq(S) /\ Len(before) = i - 1
      /\ \A k \in 1 .. i - 1 : before[k] = s[k]
  OBVIOUS
<1>3. one \in Seq(S) /\ Len(one) = 1 /\ one[1] = e OBVIOUS
<1>4. /\ after \in Seq(S) /\ Len(after) = Len(s) - i + 1
      /\ \A k \in 1 .. Len(s) - i + 1 : after[k] = s[i + k - 1]
  OBVIOUS
<1> HIDE DEF before, one, after
<1>5. /\ left \in Seq(S) /\ Len(left) = i
      /\ \A k \in 1 .. i : left[k] = IF k < i THEN s[k] ELSE e
  <2>1. /\ left \in Seq(S) /\ Len(left) = i
        /\ \A k \in 1 .. i : left[k] = IF k <= i - 1 THEN before[k] ELSE one[k - (i - 1)]
    <3>1. i = (i - 1) + 1 OBVIOUS
    <3>2. /\ left \in Seq(S) /\ Len(left) = Len(before) + Len(one)
          /\ \A k \in 1 .. Len(before) + Len(one) :
               left[k] = IF k <= Len(before) THEN before[k] ELSE one[k - Len(before)]
      BY <1>2, <1>3, ConcatEntries
    <3> HIDE DEF left
    <3> QED BY <1>2, <1>3, <3>1, <3>2
  <2> HIDE DEF left
  <2> QED BY <1>2, <1>3, <2>1
<1> HIDE DEF left
<1>6. left \o after \in Seq(S) /\ Len(left \o after) = Len(s) + 1 BY <1>4, <1>5
<1>7. ASSUME NEW k \in 1 .. Len(s) + 1
      PROVE  (left \o after)[k] = IF k < i THEN s[k] ELSE IF k = i THEN e ELSE s[k - 1]
  <2>1. (left \o after)[k] = IF k <= i THEN left[k] ELSE after[k - i]
    BY <1>4, <1>5, ConcatEntries
  <2>2. k > i => k - i \in 1 .. Len(s) - i + 1 /\ i + (k - i) - 1 = k - 1 BY <1>5
  <2> QED BY <1>4, <1>5, <2>1, <2>2
<1> QED BY <1>1, <1>6, <1>7

LEMMA RemoveAtIs ==
  ASSUME NEW S, NEW s \in Seq(S), NEW i \in 1 .. Len(s)
  PROVE  /\ RemoveAt(s, i) \in Seq(S) /\ Len(RemoveAt(s, i)) = Len(s) - 1
         /\ \A k \in 1 .. Len(s) - 1 : RemoveAt(s, i)[k] = IF k < i THEN s[k] ELSE s[k + 1]
<1> DEFINE before == SubSeq(s, 1, i - 1)
           after == SubSeq(s, i + 1, Len(s))
<1>1. RemoveAt(s, i) = before \o after BY DEF RemoveAt
<1>2. /\ before \in Seq(S) /\ Len(before) = i - 1
      /\ \A k \in 1 .. i - 1 : before[k] = s[k]
  OBVIOUS
<1>3. /\ after \in Seq(S) /\ Len(after) = Len(s) - i
      /\ \A k \in 1 .. Len(s) - i : after[k] = s[i + k]
  OBVIOUS
<1> HIDE DEF before, after
<1>4. before \o after \in Seq(S) /\ Len(before \o after) = Len(s) - 1 BY <1>2, <1>3
<1>5. ASSUME NEW k \in 1 .. Len(s) - 1
      PROVE  (before \o after)[k] = IF k < i THEN s[k] ELSE s[k + 1]
  <2>1. (before \o after)[k] = IF k <= i - 1 THEN before[k] ELSE after[k - (i - 1)]
    BY <1>2, <1>3, ConcatEntries
  <2>2. k >= i => k - (i - 1) \in 1 .. Len(s) - i /\ i + (k - (i - 1)) = k + 1 BY <1>2
  <2> QED BY <1>2, <1>3, <2>1, <2>2
<1> QED BY <1>1, <1>4, <1>5

\* Finitely many numbers have a bound.
LEMMA EntriesBounded ==
  ASSUME NEW n \in Nat, NEW f \in [1 .. n -> Int]
  PROVE  \E b \in Int : \A i \in 1 .. n : f[i] <= b
<1> DEFINE Bound(m, b) == \A i \in 1 .. m : f[i] <= b
           T == {m \in 0 .. n : \E b \in Int : Bound(m, b)}
<1>1. 0 \in T
  <2>1. Bound(0, 0) OBVIOUS
  <2> HIDE DEF Bound
  <2> QED BY <2>1
<1>2. ASSUME NEW m \in 1 .. n, m - 1 \in T PROVE m \in T
  <2>1. PICK b \in Int : Bound(m - 1, b) BY <1>2
  <2> DEFINE c == IF f[m] > b THEN f[m] ELSE b
  <2>2. c \in Int /\ b <= c /\ f[m] <= c OBVIOUS
  <2> HIDE DEF c
  <2>3. Bound(m, c)
    <3> SUFFICES ASSUME NEW i \in 1 .. m PROVE f[i] <= c OBVIOUS
    <3>1. CASE i = m BY <2>2, <3>1
    <3>2. CASE i # m
      <4>1. i \in 1 .. m - 1 /\ f[i] \in Int BY <3>2
      <4>2. f[i] <= b BY <2>1, <4>1
      <4> QED BY <2>2, <4>1, <4>2
    <3> QED BY <3>1, <3>2
  <2> HIDE DEF Bound
  <2> QED BY <2>2, <2>3
<1> HIDE DEF Bound
<1>3. 0 .. n \subseteq T
  <2> HIDE DEF T
  <2>1. \A m \in 1 .. n : m - 1 \in T => m \in T BY <1>2
  <2> QED BY <1>1, <2>1, UpToInduction
<1>4. n \in T BY <1>3
<1> QED BY <1>4 DEF Bound

\* A finite set as a sequence.
LEMMA SetToSeqHas ==
  ASSUME NEW T, NEW S \in SUBSET T, IsFiniteSet(S)
  PROVE  SetToSeq(S) \in Seq(T) /\ ToSet(SetToSeq(S)) = S
<1> DEFINE n == Cardinality(S)
           f == SetToSeq(S)
<1>1. n \in Nat /\ ExistsBijection(1 .. n, S) BY FS_CardinalityType
<1>2. \E g \in [1 .. n -> S] : IsInjective(g)
  BY <1>1 DEF ExistsBijection, Bijection, Injection
<1>3. f \in [1 .. n -> S] /\ IsInjective(f) BY <1>2 DEF SetToSeq
<1> HIDE DEF f
<1>4. f \in Injection(1 .. n, S) BY <1>3 DEF Injection
<1>5. Cardinality(1 .. n) = n
  <2>1. n \in Nat BY <1>1
  <2> HIDE DEF n
  <2>2. 1 .. n = {} \/ n > 0 BY <2>1
  <2>3. Cardinality(1 .. n) = IF 1 > n THEN 0 ELSE n - 1 + 1 BY <2>1, FS_Interval
  <2> QED BY <2>1, <2>3
<1>6. f \in Surjection(1 .. n, S) BY <1>4, <1>5, FS_Injection
<1>7. DOMAIN f = 1 .. n BY <1>3
<1>8. ToSet(f) = S
  <2>1. \A x \in S : \E i \in 1 .. n : f[i] = x BY <1>6 DEF Surjection
  <2>2. \A i \in 1 .. n : f[i] \in S BY <1>3
  <2> QED BY <1>7, <2>1, <2>2 DEF ToSet
<1>9. f \in Seq(T)
  <2> HIDE DEF n
  <2>1. f \in [1 .. n -> T] BY <1>3
  <2> QED BY <1>1, <2>1
<1> QED BY <1>8, <1>9 DEF f

\* A sequence in two parts.
LEMMA SplitAt ==
  ASSUME NEW S, NEW s \in Seq(S), NEW n \in 0 .. Len(s)
  PROVE  /\ SubSeq(s, 1, n) \in Seq(S) /\ SubSeq(s, n + 1, Len(s)) \in Seq(S)
         /\ ToSet(s) = ToSet(SubSeq(s, 1, n)) \cup ToSet(SubSeq(s, n + 1, Len(s)))
<1> DEFINE a == SubSeq(s, 1, n)
           b == SubSeq(s, n + 1, Len(s))
<1>1. Len(s) \in Nat /\ n \in Nat /\ n <= Len(s) OBVIOUS
<1>2. a \in Seq(S) /\ Len(a) = n /\ \A i \in 1 .. n : a[i] = s[i] BY <1>1
<1>3. b \in Seq(S) /\ Len(b) = Len(s) - n /\ \A i \in 1 .. Len(s) - n : b[i] = s[n + i]
  BY <1>1
<1>4. DOMAIN a = 1 .. n /\ DOMAIN b = 1 .. Len(s) - n /\ DOMAIN s = 1 .. Len(s)
  BY <1>2, <1>3
<1> HIDE DEF a, b
<1>5. ASSUME NEW x \in ToSet(s) PROVE x \in ToSet(a) \cup ToSet(b)
  <2>1. PICK i \in 1 .. Len(s) : x = s[i] BY <1>4 DEF ToSet
  <2>2. CASE i <= n BY <1>1, <1>2, <1>4, <2>1, <2>2 DEF ToSet
  <2>3. CASE i > n
    <3>1. i - n \in 1 .. Len(s) - n /\ n + (i - n) = i BY <1>1, <2>3
    <3>2. x = b[i - n] BY <1>3, <2>1, <3>1
    <3> QED BY <1>4, <3>1, <3>2 DEF ToSet
  <2> QED BY <1>1, <2>2, <2>3
<1>6. ASSUME NEW x \in ToSet(a) \cup ToSet(b) PROVE x \in ToSet(s)
  <2>1. CASE x \in ToSet(a)
    <3>1. PICK i \in 1 .. n : x = a[i] BY <1>4, <2>1 DEF ToSet
    <3> QED BY <1>1, <1>2, <1>4, <3>1 DEF ToSet
  <2>2. CASE x \in ToSet(b)
    <3>1. PICK i \in 1 .. Len(s) - n : x = b[i] BY <1>4, <2>2 DEF ToSet
    <3>2. x = s[n + i] /\ n + i \in 1 .. Len(s) BY <1>1, <1>3, <3>1
    <3> QED BY <1>4, <3>2 DEF ToSet
  <2> QED BY <2>1, <2>2
<1> QED BY <1>2, <1>3, <1>5, <1>6 DEF a, b
=============================================================================
