-------------------------- MODULE PanelWidget_proofs --------------------------
(***************************************************************************)
(* The theorems about PanelWidget, for any applets, panels and bounds.     *)
(***************************************************************************)
EXTENDS PanelWidget, SequenceLemmas, FiniteSetTheorems

AnyPosition == [type : Int, index : Int]

\* Lists as they are on panels, and positions of what is listed.
IsList(list) == list \in Seq(Applets) /\ IsInjective(list)
HasPositions(list, pos) ==
  /\ pos \in [Applets -> AnyPosition \union {None}]
  /\ \A a \in ToSet(list) : pos[a] \in AnyPosition
InPacks(list, pos) == \A a \in ToSet(list) : pos[a].type \in PackTypes

LEMMA NoneIsNoPosition == None \notin AnyPosition /\ None \notin Positions /\ None \notin Places
<1>1. Positions \subseteq [type : Int, index : Int] /\ Places \subseteq [panel : PanelSet, type : Int, index : Int]
  BY BoundAssumption DEF Positions, Places, PackTypes, START, END
<1> QED BY <1>1, SentinelAssumption DEF AnyPosition

-----------------------------------------------------------------------------
(***************************************************************************)
(* Lists.                                                                  *)
(***************************************************************************)
LEMMA IndexInIs ==
  ASSUME NEW list, IsList(list), NEW a \in ToSet(list)
  PROVE  /\ IndexIn(list, a) \in 1 .. Len(list) /\ list[IndexIn(list, a)] = a
         /\ \A i \in 1 .. Len(list) : list[i] = a => i = IndexIn(list, a)
BY DEF IndexIn, IsList, ToSet, IsInjective

LEMMA ContainsIs ==
  ASSUME NEW list, IsList(list), NEW a
  PROVE  Contains(list, a) <=> a \in ToSet(list)
BY DEF Contains, IsList, ToSet

LEMMA RemovedIs ==
  ASSUME NEW list, IsList(list), NEW a \in ToSet(list)
  PROVE  /\ IsList(Removed(list, a)) /\ ToSet(Removed(list, a)) = ToSet(list) \ {a}
         /\ \A i, j \in DOMAIN Removed(list, a) : i < j =>
              \E k, l \in DOMAIN list : /\ k < l
                                        /\ list[k] = Removed(list, a)[i]
                                        /\ list[l] = Removed(list, a)[j]
<1> DEFINE n == Len(list)
           at == IndexIn(list, a)
           new == Removed(list, a)
           Old(k) == IF k < at THEN k ELSE k + 1
<1>1. /\ list \in Seq(Applets) /\ n \in Nat /\ DOMAIN list = 1 .. n
      /\ \A i, j \in 1 .. n : list[i] = list[j] => i = j
  BY DEF IsList, IsInjective
<1>2. at \in 1 .. n /\ list[at] = a BY IndexInIs
<1>3. /\ new \in Seq(Applets) /\ Len(new) = n - 1
      /\ \A k \in 1 .. n - 1 : new[k] = IF k < at THEN list[k] ELSE list[k + 1]
  BY <1>1, <1>2, RemoveAtIs DEF Removed
<1> HIDE DEF n, at, new
<1>4. DOMAIN new = 1 .. n - 1 BY <1>1, <1>3
<1>5. \A k \in 1 .. n - 1 : Old(k) \in 1 .. n /\ Old(k) # at /\ new[k] = list[Old(k)]
  BY <1>1, <1>2, <1>3
<1>6. \A i, j \in 1 .. n - 1 : i < j => Old(i) < Old(j) BY <1>1, <1>2
<1> HIDE DEF Old
<1>7. IsInjective(new)
  <2> SUFFICES ASSUME NEW i \in 1 .. n - 1, NEW j \in 1 .. n - 1, i < j PROVE new[i] # new[j]
    BY <1>1, <1>4 DEF IsInjective
  <2>1. Old(i) \in 1 .. n /\ Old(j) \in 1 .. n /\ Old(i) # Old(j) BY <1>5, <1>6
  <2> QED BY <1>1, <1>5, <2>1
<1>8. \A x \in ToSet(new) : x \in ToSet(list) \ {a}
  <2> SUFFICES ASSUME NEW k \in 1 .. n - 1 PROVE new[k] \in ToSet(list) \ {a}
    BY <1>4 DEF ToSet
  <2> QED BY <1>1, <1>2, <1>5 DEF ToSet
<1>9. \A x \in ToSet(list) \ {a} : x \in ToSet(new)
  <2> SUFFICES ASSUME NEW i \in 1 .. n, list[i] # a PROVE \E k \in 1 .. n - 1 : new[k] = list[i]
    BY <1>1, <1>4 DEF ToSet
  <2>1. CASE i < at
    <3>1. i \in 1 .. n - 1 BY <1>1, <1>2, <2>1
    <3> QED BY <1>3, <2>1, <3>1
  <2>2. CASE i > at
    <3>1. i - 1 \in 1 .. n - 1 /\ ~(i - 1 < at) /\ (i - 1) + 1 = i BY <1>1, <1>2, <2>2
    <3> QED BY <1>3, <3>1
  <2> QED BY <1>1, <1>2, <2>1, <2>2
<1>10. ASSUME NEW i \in DOMAIN new, NEW j \in DOMAIN new, i < j
       PROVE  \E k, l \in DOMAIN list : k < l /\ list[k] = new[i] /\ list[l] = new[j]
  <2>1. Old(i) \in DOMAIN list /\ Old(j) \in DOMAIN list /\ Old(i) < Old(j)
    BY <1>1, <1>4, <1>5, <1>6, <1>10
  <2> QED BY <1>4, <1>5, <1>10, <2>1
<1> QED BY <1>3, <1>7, <1>8, <1>9, <1>10 DEF new, IsList

\* Where an applet is inserted: all entries before it are earlier, and the entry
\* it is put before is not.
LEMMA InsertSortedIs ==
  ASSUME NEW list, IsList(list), NEW pos, NEW a \in Applets, a \notin ToSet(list)
  PROVE  /\ IsList(InsertSorted(list, pos, a))
         /\ ToSet(InsertSorted(list, pos, a)) = ToSet(list) \union {a}
         /\ \E m \in 1 .. Len(list) + 1 :
              /\ \A k \in 1 .. Len(list) + 1 :
                   InsertSorted(list, pos, a)[k] =
                     IF k < m THEN list[k] ELSE IF k = m THEN a ELSE list[k - 1]
              /\ DOMAIN InsertSorted(list, pos, a) = 1 .. Len(list) + 1
              /\ \A i \in 1 .. m - 1 : ~(Compare(pos[a], pos[list[i]]) <= 0)
              /\ m <= Len(list) => Compare(pos[a], pos[list[m]]) <= 0
<1> DEFINE n == Len(list)
           later == {i \in DOMAIN list : Compare(pos[a], pos[list[i]]) <= 0}
           m == IF later = {} THEN n + 1 ELSE Min(later)
           new == InsertSorted(list, pos, a)
<1>1. /\ list \in Seq(Applets) /\ n \in Nat /\ DOMAIN list = 1 .. n
      /\ \A i, j \in 1 .. n : list[i] = list[j] => i = j
      /\ \A i \in 1 .. n : list[i] # a
  BY DEF IsList, IsInjective, ToSet
<1>2. new = InsertAt(list, m, a) BY DEF InsertSorted
<1>3. /\ m \in 1 .. n + 1
      /\ \A i \in 1 .. m - 1 : ~(Compare(pos[a], pos[list[i]]) <= 0)
      /\ m <= n => Compare(pos[a], pos[list[m]]) <= 0
  <2>1. CASE later = {} BY <1>1, <2>1
  <2>2. CASE later # {}
    <3>1. later \in SUBSET Nat BY <1>1
    <3>2. Min(later) \in later /\ \A i \in later : Min(later) <= i
      <4> HIDE DEF later
      <4> QED BY <2>2, <3>1, MinInSet
    <3>3. m = Min(later) BY <2>2
    <3> HIDE DEF m
    <3>4. m \in 1 .. n /\ Compare(pos[a], pos[list[m]]) <= 0 BY <1>1, <3>2, <3>3
    <3>5. ASSUME NEW i \in 1 .. m - 1 PROVE ~(Compare(pos[a], pos[list[i]]) <= 0)
      <4>1. i \in 1 .. n /\ ~(m <= i) BY <1>1, <3>4
      <4> QED BY <1>1, <3>2, <3>3, <4>1
    <3> QED BY <1>1, <3>4, <3>5
  <2> QED BY <2>1, <2>2
<1> HIDE DEF n, m, new
<1>4. /\ new \in Seq(Applets) /\ Len(new) = n + 1 /\ DOMAIN new = 1 .. n + 1
      /\ \A k \in 1 .. n + 1 : new[k] = IF k < m THEN list[k] ELSE IF k = m THEN a ELSE list[k - 1]
  BY <1>1, <1>2, <1>3, InsertAtIs DEF n
<1>5. IsInjective(new)
  <2> SUFFICES ASSUME NEW i \in 1 .. n + 1, NEW j \in 1 .. n + 1, i # j PROVE new[i] # new[j]
    BY <1>4 DEF IsInjective
  <2> DEFINE Old(k) == IF k < m THEN k ELSE k - 1
  <2>1. \A k \in 1 .. n + 1 : k # m => Old(k) \in 1 .. n /\ new[k] = list[Old(k)] BY <1>1, <1>3, <1>4
  <2>2. i # m /\ j # m => Old(i) # Old(j) BY <1>1, <1>3
  <2> HIDE DEF Old
  <2> QED BY <1>1, <1>3, <1>4, <2>1, <2>2
<1>6. \A x \in ToSet(new) : x \in ToSet(list) \union {a}
  <2> SUFFICES ASSUME NEW k \in 1 .. n + 1 PROVE new[k] \in ToSet(list) \union {a}
    BY <1>4 DEF ToSet
  <2>1. k < m => k \in 1 .. n BY <1>1, <1>3
  <2>2. k > m => k - 1 \in 1 .. n BY <1>1, <1>3
  <2>3. \A i \in 1 .. n : list[i] \in ToSet(list) BY <1>1 DEF ToSet
  <2>4. new[k] = IF k < m THEN list[k] ELSE IF k = m THEN a ELSE list[k - 1] BY <1>4
  <2>5. k < m \/ k = m \/ k > m BY <1>1, <1>3
  <2> QED BY <2>1, <2>2, <2>3, <2>4, <2>5
<1>7. \A x \in ToSet(list) \union {a} : x \in ToSet(new)
  <2>1. new[m] = a BY <1>1, <1>3, <1>4
  <2>2. ASSUME NEW i \in 1 .. n PROVE \E k \in 1 .. n + 1 : new[k] = list[i]
    <3>1. CASE i < m BY <1>1, <1>4, <3>1
    <3>2. CASE i >= m
      <4>1. i + 1 \in 1 .. n + 1 /\ ~(i + 1 < m) /\ i + 1 # m /\ (i + 1) - 1 = i BY <1>1, <1>3, <3>2
      <4> QED BY <1>4, <4>1
    <3> QED BY <1>3, <3>1, <3>2
  <2>3. m \in DOMAIN new BY <1>3, <1>4
  <2>4. \A x \in ToSet(list) : \E k \in DOMAIN new : new[k] = x
    <3> SUFFICES ASSUME NEW i \in 1 .. n PROVE \E k \in DOMAIN new : new[k] = list[i]
      BY <1>1 DEF ToSet
    <3> QED BY <1>4, <2>2
  <2> QED BY <2>1, <2>3, <2>4 DEF ToSet
<1> QED BY <1>3, <1>4, <1>5, <1>6, <1>7 DEF new, n, IsList

LEMMA SwappedIs ==
  ASSUME NEW list, IsList(list), NEW i \in DOMAIN list, NEW j \in DOMAIN list
  PROVE  LET new == [list EXCEPT ![i] = list[j], ![j] = list[i]]
         IN  /\ IsList(new) /\ ToSet(new) = ToSet(list) /\ DOMAIN new = DOMAIN list
             /\ \A k \in DOMAIN list :
                  new[k] = IF k = j THEN list[i] ELSE IF k = i THEN list[j] ELSE list[k]
<1> DEFINE new == [list EXCEPT ![i] = list[j], ![j] = list[i]]
           Old(k) == IF k = j THEN i ELSE IF k = i THEN j ELSE k
<1>1. /\ list \in Seq(Applets) /\ DOMAIN list = 1 .. Len(list) /\ Len(list) \in Nat
      /\ \A k, l \in DOMAIN list : list[k] = list[l] => k = l
  BY DEF IsList, IsInjective
<1>2. DOMAIN new = DOMAIN list OBVIOUS
<1>3. \A k \in DOMAIN list : Old(k) \in DOMAIN list /\ new[k] = list[Old(k)] OBVIOUS
<1>4. \A k, l \in DOMAIN list : Old(k) = Old(l) => k = l OBVIOUS
<1>5. \A k \in DOMAIN list : Old(Old(k)) = k OBVIOUS
<1>6. \A k \in DOMAIN list :
        new[k] = IF k = j THEN list[i] ELSE IF k = i THEN list[j] ELSE list[k]
  BY <1>3
<1>7. new \in Seq(Applets) BY <1>1, <1>2
<1> HIDE DEF new, Old
<1>8. IsInjective(new) BY <1>1, <1>2, <1>3, <1>4 DEF IsInjective
<1>9. ToSet(new) = ToSet(list) BY <1>2, <1>3, <1>5 DEF ToSet
<1> QED BY <1>2, <1>6, <1>7, <1>8, <1>9 DEF new, IsList

\* No list is longer than there are applets, so counting its entries stays
\* within the bound on indexes.
LEMMA ListsAreShort ==
  ASSUME NEW list, IsList(list)
  PROVE  Len(list) \in Nat /\ Len(list) <= MaxIndex + 1
<1> DEFINE n == Len(list)
<1>1. n \in Nat /\ list \in [1 .. n -> Applets] BY DEF IsList
<1>2. list \in Injection(1 .. n, Applets) BY <1>1 DEF IsList, IsInjective, Injection
<1>3. IsFiniteSet(1 .. n) /\ Cardinality(1 .. n) = n
  <2>1. Cardinality(1 .. n) = (IF 1 > n THEN 0 ELSE n - 1 + 1) /\ IsFiniteSet(1 .. n)
    BY <1>1, FS_Interval
  <2> QED BY <1>1, <2>1
<1>4. Cardinality(1 .. n) <= Cardinality(Applets) /\ Cardinality(Applets) \in Nat
  BY <1>2, FS_Injection, FS_CardinalityType, BoundAssumption
<1> QED BY <1>1, <1>3, <1>4, BoundAssumption

-----------------------------------------------------------------------------
(***************************************************************************)
(* Packs, and indexes counted again.                                       *)
(***************************************************************************)
SortedBy(list, pos) ==
  \A i, j \in DOMAIN list : i < j => Compare(pos[list[i]], pos[list[j]]) <= 0

\* In terms of numbers: by type, then by index, from the other end at the end.
LEMMA CompareIs ==
  ASSUME NEW x \in AnyPosition, NEW y \in AnyPosition
  PROVE  Compare(x, y) <= 0 <=>
           \/ x.type < y.type
           \/ x.type = y.type /\ x.type # END /\ x.index <= y.index
           \/ x.type = y.type /\ x.type = END /\ y.index <= x.index
<1>1. x.type \in Int /\ y.type \in Int /\ x.index \in Int /\ y.index \in Int BY DEF AnyPosition
<1>2. CASE x.type # y.type
  <2>1. Compare(x, y) = x.type - y.type BY <1>2 DEF Compare
  <2> QED BY <1>1, <1>2, <2>1
<1>3. CASE x.type = y.type /\ x.type # END
  <2>1. Compare(x, y) = x.index - y.index BY <1>3 DEF Compare
  <2> QED BY <1>1, <1>3, <2>1
<1>4. CASE x.type = y.type /\ x.type = END
  <2>1. Compare(x, y) = y.index - x.index BY <1>4 DEF Compare
  <2> QED BY <1>1, <1>4, <2>1
<1> QED BY <1>2, <1>3, <1>4

IsPiece(run, list, m) ==
  \A k \in 1 .. Len(run) : m + k \in DOMAIN list /\ run[k] = list[m + k]

\* A pack is a piece of the list, all of the type; of a sorted list it is all
\* that have the type.
LEMMA PackIs ==
  ASSUME NEW list, IsList(list), NEW pos, HasPositions(list, pos), NEW t \in PackTypes
  PROVE  LET run == Pack(list, pos, t)
         IN  /\ run \in Seq(Applets) /\ Len(run) \in Nat /\ Len(run) <= Len(list)
             /\ \E m \in Nat : IsPiece(run, list, m)
             /\ \A k \in 1 .. Len(run) : pos[run[k]].type = t
             /\ SortedBy(list, pos) =>
                  \A i \in DOMAIN list : pos[list[i]].type = t => list[i] \in ToSet(run)
<1> DEFINE n == Len(list)
           Has(i) == pos[list[i]].type = t
           from == {i \in DOMAIN list : Has(i)}
           runTo(i) == Max({j \in i .. Len(list) : \A k \in i .. j : Has(k)})
           run == Pack(list, pos, t)
<1>1. list \in Seq(Applets) /\ n \in Nat /\ DOMAIN list = 1 .. n BY DEF IsList
<1>2. CASE from = {}
  <2>1. run = <<>> BY <1>2 DEF Pack
  <2>2. \A i \in DOMAIN list : ~Has(i) BY <1>2
  <2> HIDE DEF Has, from, run
  <2>3. run \in Seq(Applets) /\ Len(run) = 0 BY <2>1
  <2>4. IsPiece(run, list, 0) BY <2>3 DEF IsPiece
  <2> QED BY <1>1, <2>2, <2>3, <2>4 DEF Has, run
<1>3. CASE from # {}
  <2> DEFINE first == Min(from)
             runs == {j \in first .. Len(list) : \A k \in first .. j : Has(k)}
             last == Max(runs)
  <2>1. run = SubSeq(list, first, last) BY <1>3 DEF Pack
  <2>2. first \in 1 .. n /\ Has(first) /\ \A i \in 1 .. n : Has(i) => first <= i
    <3>1. from \in SUBSET Nat BY <1>1
    <3> HIDE DEF from
    <3>2. first \in from /\ \A i \in from : first <= i BY <1>3, <3>1, MinInSet
    <3> QED BY <1>1, <3>2 DEF from
  <2> HIDE DEF first
  <2>3. /\ last \in first .. n /\ \A k \in first .. last : Has(k)
        /\ \A j \in first .. n : (\A k \in first .. j : Has(k)) => j <= last
    <3>1. first \in runs
      <4>1. \A k \in first .. first : k = first BY <2>2
      <4> QED BY <1>1, <2>2, <4>1
    <3>2. runs \in SUBSET Int /\ runs # {} /\ n \in Int /\ \A j \in runs : j <= n
      BY <1>1, <2>2, <3>1
    <3> HIDE DEF runs, n
    <3>3. last \in runs /\ \A j \in runs : last >= j BY <3>2, MaxInSet
    <3> HIDE DEF last
    <3> USE DEF n
    <3> QED BY <3>3 DEF runs
  <2> HIDE DEF last, run
  <2> DEFINE m == first - 1
  <2>4. /\ run \in Seq(Applets) /\ Len(run) = last - m /\ m \in Nat
        /\ \A k \in 1 .. last - m : run[k] = list[m + k]
    BY <1>1, <2>1, <2>2, <2>3
  <2>5. ASSUME NEW k \in 1 .. Len(run)
        PROVE  m + k \in DOMAIN list /\ run[k] = list[m + k] /\ pos[run[k]].type = t
    <3>1. m + k \in first .. last BY <2>2, <2>3, <2>4
    <3> QED BY <1>1, <2>2, <2>3, <2>4, <3>1
  <2>6. ASSUME SortedBy(list, pos), NEW i \in DOMAIN list, Has(i)
        PROVE  list[i] \in ToSet(run)
    <3>1. i \in first .. n BY <1>1, <2>2, <2>6
    <3>2. ASSUME NEW k \in first .. i PROVE Has(k)
      <4>1. /\ pos[list[first]] \in AnyPosition /\ pos[list[k]] \in AnyPosition
            /\ pos[list[i]] \in AnyPosition
        BY <1>1, <2>2, <2>6, <3>1 DEF HasPositions, ToSet
      <4>2. k = first \/ Compare(pos[list[first]], pos[list[k]]) <= 0
        BY <1>1, <2>2, <2>6, <3>1 DEF SortedBy
      <4>3. k = i \/ Compare(pos[list[k]], pos[list[i]]) <= 0
        BY <1>1, <2>2, <2>6, <3>1 DEF SortedBy
      <4>4. pos[list[first]].type = t /\ pos[list[i]].type = t BY <2>2, <2>6
      <4> HIDE DEF Has
      <4>5. pos[list[first]].type <= pos[list[k]].type /\ pos[list[k]].type <= pos[list[i]].type
        BY <4>1, <4>2, <4>3, CompareIs DEF AnyPosition
      <4>6. pos[list[k]].type = t BY <4>1, <4>4, <4>5 DEF AnyPosition
      <4> QED BY <4>6 DEF Has
    <3>3. i <= last BY <2>3, <3>1, <3>2
    <3>4. i - m \in DOMAIN run /\ run[i - m] = list[i]
      <4>1. i - m \in 1 .. last - m /\ m + (i - m) = i BY <1>1, <2>2, <2>3, <3>1, <3>3
      <4> QED BY <2>4, <4>1
    <3> QED BY <3>4 DEF ToSet
  <2>7. Len(run) \in Nat /\ Len(run) <= Len(list) BY <1>1, <2>2, <2>3, <2>4
  <2> HIDE DEF m
  <2>8. \E x \in Nat : IsPiece(run, list, x) BY <2>4, <2>5 DEF IsPiece
  <2> QED BY <2>4, <2>5, <2>6, <2>7, <2>8 DEF run
<1> QED BY <1>2, <1>3

\* A pack has no applet twice.
LEMMA PackIsList ==
  ASSUME NEW list, IsList(list), NEW pos, HasPositions(list, pos), NEW t \in PackTypes
  PROVE  /\ IsList(Pack(list, pos, t)) /\ ToSet(Pack(list, pos, t)) \subseteq ToSet(list)
         /\ \A a \in ToSet(Pack(list, pos, t)) : pos[a].type = t
<1> DEFINE run == Pack(list, pos, t)
<1>0. (\E m \in Nat : IsPiece(run, list, m)) /\ \A k \in 1 .. Len(run) : pos[run[k]].type = t
  BY PackIs
<1>1. PICK m \in Nat : IsPiece(run, list, m) BY <1>0
<1>2. run \in Seq(Applets) /\ Len(run) \in Nat /\ DOMAIN run = 1 .. Len(run) BY PackIs
<1> HIDE DEF run
<1>3. IsInjective(run)
  <2> SUFFICES ASSUME NEW k \in 1 .. Len(run), NEW l \in 1 .. Len(run), run[k] = run[l]
               PROVE  k = l
    BY <1>2 DEF IsInjective
  <2>1. m + k = m + l BY <1>1 DEF IsList, IsInjective, IsPiece
  <2> QED BY <1>2, <2>1
<1>4. \A a \in ToSet(run) : a \in ToSet(list) /\ pos[a].type = t
  <2> SUFFICES ASSUME NEW k \in 1 .. Len(run) PROVE run[k] \in ToSet(list) /\ pos[run[k]].type = t
    BY <1>2 DEF ToSet
  <2> QED BY <1>0, <1>1 DEF ToSet, IsPiece
<1> QED BY <1>2, <1>3, <1>4 DEF run, IsList

\* Where Compressed puts the k-th of n applets of a pack.
Counted(t, n, k) == IF t = END THEN n - k ELSE k - 1

LEMMA CompressedIs ==
  ASSUME NEW list, IsList(list), NEW pos, HasPositions(list, pos)
  PROVE  LET new == Compressed(list, pos)
         IN  /\ new \in [Applets -> AnyPosition \union {None}]
             /\ \A a \in Applets \ ToSet(list) : new[a] = pos[a]
             /\ \A a \in ToSet(list) : new[a] \in AnyPosition /\ new[a].type = pos[a].type
             /\ \A t \in PackTypes : \A k \in 1 .. Len(Pack(list, pos, t)) :
                  new[Pack(list, pos, t)[k]] =
                    [type |-> t, index |-> Counted(t, Len(Pack(list, pos, t)), k)]
             /\ pos \in [Applets -> Positions \union {None}] =>
                  new \in [Applets -> Positions \union {None}]
<1> DEFINE new == Compressed(list, pos)
           run == [t \in PackTypes |-> Pack(list, pos, t)]
           InRun(a) == \E t \in PackTypes : Contains(run[t], a)
           At(a, r) == CHOOSE i \in DOMAIN r : r[i] = a
           To(a) == [pos[a] EXCEPT !.index =
                       Counted(pos[a].type, Len(run[pos[a].type]), At(a, run[pos[a].type]))]
<1>1. new = [a \in Applets |-> IF InRun(a) THEN To(a) ELSE pos[a]]
  BY DEF Compressed, Counted
<1>2. pos \in [Applets -> AnyPosition \union {None}] /\ \A a \in ToSet(list) : pos[a] \in AnyPosition
  BY DEF HasPositions
<1>3. ToSet(list) \subseteq Applets BY DEF IsList, ToSet
<1>4. ASSUME NEW t \in PackTypes
      PROVE  /\ IsList(run[t]) /\ ToSet(run[t]) \subseteq ToSet(list) /\ run[t] = Pack(list, pos, t)
             /\ \A a \in ToSet(run[t]) : pos[a].type = t
             /\ Len(run[t]) \in Nat /\ Len(run[t]) <= MaxIndex + 1
  <2>1. run[t] = Pack(list, pos, t) OBVIOUS
  <2> HIDE DEF run
  <2>2. IsList(run[t]) BY <2>1, PackIsList
  <2> QED BY <2>1, <2>2, PackIsList, ListsAreShort
<1> HIDE DEF new, run, At
<1>5. ASSUME NEW t \in PackTypes, NEW k \in 1 .. Len(run[t])
      PROVE  /\ run[t][k] \in ToSet(list) /\ InRun(run[t][k])
             /\ To(run[t][k]) = [type |-> t, index |-> Counted(t, Len(run[t]), k)]
             /\ Counted(t, Len(run[t]), k) \in 0 .. MaxIndex
  <2> DEFINE a == run[t][k]
  <2>1. /\ DOMAIN run[t] = 1 .. Len(run[t]) /\ run[t] \in Seq(Applets)
        /\ \A i, j \in DOMAIN run[t] : run[t][i] = run[t][j] => i = j
    BY <1>4 DEF IsList, IsInjective
  <2>2. a \in ToSet(run[t]) BY <2>1 DEF ToSet
  <2>3. a \in ToSet(list) /\ pos[a].type = t BY <1>4, <2>2
  <2>4. Contains(run[t], a) BY <1>4, <2>2, ContainsIs
  <2>5. At(a, run[t]) = k
    <3>1. \E i \in DOMAIN run[t] : run[t][i] = a BY <2>1
    <3>2. At(a, run[t]) \in DOMAIN run[t] /\ run[t][At(a, run[t])] = a BY <3>1 DEF At
    <3> QED BY <2>1, <3>2
  <2>6. pos[a] \in AnyPosition BY <1>2, <2>3
  <2> HIDE DEF a
  <2>7. To(a) = [type |-> t, index |-> Counted(t, Len(run[t]), k)]
    <3>1. To(a) = [pos[a] EXCEPT !.index = Counted(t, Len(run[t]), k)] BY <2>3, <2>5
    <3> HIDE DEF To
    <3> QED BY <2>3, <2>6, <3>1 DEF AnyPosition
  <2>8. Counted(t, Len(run[t]), k) \in 0 .. MaxIndex BY <1>4, BoundAssumption DEF Counted
  <2> QED BY <2>3, <2>4, <2>7, <2>8 DEF a
<1>6. ASSUME NEW a \in Applets, InRun(a)
      PROVE  \E t \in PackTypes : \E k \in 1 .. Len(run[t]) : a = run[t][k]
  <2>1. PICK t \in PackTypes : Contains(run[t], a) BY <1>6
  <2>2. a \in ToSet(run[t]) /\ DOMAIN run[t] = 1 .. Len(run[t])
    BY <1>4, <2>1, ContainsIs DEF IsList
  <2> QED BY <2>2 DEF ToSet
<1> HIDE DEF InRun, To
<1>7. ASSUME NEW a \in Applets, ~InRun(a) PROVE new[a] = pos[a] BY <1>1, <1>7
<1>8. ASSUME NEW a \in Applets, InRun(a)
      PROVE  /\ a \in ToSet(list) /\ new[a] \in Positions /\ new[a] \in AnyPosition
             /\ new[a].type = pos[a].type
  <2>0. PICK t \in PackTypes : \E k \in 1 .. Len(run[t]) : a = run[t][k] BY <1>6, <1>8
  <2>1. PICK k \in 1 .. Len(run[t]) : a = run[t][k] BY <2>0
  <2>2. new[a] = To(a) BY <1>1, <1>8
  <2>3. /\ a \in ToSet(list) /\ new[a] = [type |-> t, index |-> Counted(t, Len(run[t]), k)]
        /\ Counted(t, Len(run[t]), k) \in 0 .. MaxIndex
    BY <1>5, <2>1, <2>2
  <2>4. pos[a].type = t
    <3>1. run[t][k] \in ToSet(run[t])
      <4>1. k \in DOMAIN run[t] BY <1>4 DEF IsList
      <4> QED BY <4>1 DEF ToSet
    <3> QED BY <1>4, <2>1, <3>1
  <2>5. t \in Int /\ MaxIndex \in Int BY BoundAssumption DEF PackTypes, START, END
  <2> QED BY <2>3, <2>4, <2>5 DEF Positions, AnyPosition
<1>9. new \in [Applets -> AnyPosition \union {None}]
  <2>1. \A a \in Applets : new[a] \in AnyPosition \union {None} BY <1>2, <1>7, <1>8
  <2>2. new = [a \in Applets |-> new[a]] BY <1>1
  <2> QED BY <2>1, <2>2
<1>10. ASSUME pos \in [Applets -> Positions \union {None}]
       PROVE  new \in [Applets -> Positions \union {None}]
  <2>1. \A a \in Applets : new[a] \in Positions \union {None} BY <1>7, <1>8, <1>10
  <2>2. new = [a \in Applets |-> new[a]] BY <1>1
  <2> QED BY <2>1, <2>2
<1>11. ASSUME NEW t \in PackTypes, NEW k \in 1 .. Len(Pack(list, pos, t))
       PROVE  new[Pack(list, pos, t)[k]] =
                [type |-> t, index |-> Counted(t, Len(Pack(list, pos, t)), k)]
  <2>1. run[t] = Pack(list, pos, t) BY <1>4
  <2>2. run[t][k] \in Applets BY <1>3, <1>5, <2>1
  <2>3. new[run[t][k]] = To(run[t][k]) BY <1>1, <1>5, <2>1, <2>2
  <2>4. To(run[t][k]) = [type |-> t, index |-> Counted(t, Len(run[t]), k)] BY <1>5, <2>1
  <2> QED BY <2>1, <2>3, <2>4
<1>12. \A a \in Applets \ ToSet(list) : new[a] = pos[a] BY <1>7, <1>8
<1>13. \A a \in ToSet(list) : new[a] \in AnyPosition /\ new[a].type = pos[a].type
  BY <1>2, <1>3, <1>7, <1>8
<1> QED BY <1>9, <1>10, <1>11, <1>12, <1>13 DEF new

LEMMA CompressedSorted ==
  ASSUME NEW list, IsList(list), NEW pos, HasPositions(list, pos), InPacks(list, pos),
         SortedBy(list, pos)
  PROVE  SortedBy(list, Compressed(list, pos))
<1> DEFINE new == Compressed(list, pos)
<1> SUFFICES ASSUME NEW i \in DOMAIN list, NEW j \in DOMAIN list, i < j
             PROVE  Compare(new[list[i]], new[list[j]]) <= 0
  BY DEF SortedBy
<1>1. list[i] \in ToSet(list) /\ list[j] \in ToSet(list) BY DEF ToSet
<1>2. /\ pos[list[i]] \in AnyPosition /\ pos[list[j]] \in AnyPosition
      /\ pos[list[i]].type \in PackTypes /\ pos[list[j]].type \in PackTypes
  BY <1>1 DEF HasPositions, InPacks
<1>3. /\ new[list[i]] \in AnyPosition /\ new[list[i]].type = pos[list[i]].type
      /\ new[list[j]] \in AnyPosition /\ new[list[j]].type = pos[list[j]].type
  BY <1>1, CompressedIs
<1>4. Compare(pos[list[i]], pos[list[j]]) <= 0 BY DEF SortedBy
<1> DEFINE t == pos[list[i]].type
           run == Pack(list, pos, t)
<1>5. CASE pos[list[j]].type = t
  <2>1. /\ list[i] \in ToSet(run) /\ list[j] \in ToSet(run)
        /\ DOMAIN run = 1 .. Len(run) /\ Len(run) \in Nat
    BY <1>2, <1>5, PackIs
  <2>2. PICK m \in Nat : IsPiece(run, list, m) BY <1>2, PackIs
  <2>3. PICK k \in 1 .. Len(run), l \in 1 .. Len(run) : list[i] = run[k] /\ list[j] = run[l]
    BY <2>1 DEF ToSet
  <2>4. new[run[k]] = [type |-> t, index |-> Counted(t, Len(run), k)]
    BY <1>2, <2>3, CompressedIs
  <2>5. new[run[l]] = [type |-> t, index |-> Counted(t, Len(run), l)]
    BY <1>2, <2>3, CompressedIs
  <2> HIDE DEF run, new, t
  <2>6. i = m + k /\ j = m + l BY <2>2, <2>3 DEF IsList, IsInjective, IsPiece
  <2>7. k < l BY <2>1, <2>6
  <2>8. /\ new[list[i]].index = Counted(t, Len(run), k) /\ new[list[j]].index = Counted(t, Len(run), l)
        /\ new[list[i]].type = t /\ new[list[j]].type = t
    BY <2>3, <2>4, <2>5
  <2>9. IF t = END THEN Counted(t, Len(run), k) >= Counted(t, Len(run), l)
        ELSE Counted(t, Len(run), k) <= Counted(t, Len(run), l)
    BY <2>1, <2>7 DEF Counted
  <2> QED BY <1>3, <2>8, <2>9, CompareIs
<1>6. CASE pos[list[j]].type # t
  <2>1. t < pos[list[j]].type BY <1>2, <1>4, <1>6, CompareIs
  <2> HIDE DEF new
  <2> QED BY <1>3, <2>1, CompareIs
<1> QED BY <1>5, <1>6

-----------------------------------------------------------------------------
(***************************************************************************)
(* Moves to a pack.                                                        *)
(***************************************************************************)
\* The index after the highest of a pack.
LEMMA NewPackIndexIs ==
  ASSUME NEW list, IsList(list), NEW pos, HasPositions(list, pos), NEW t
  PROVE  LET n == NewPackIndex(list, pos, t)
         IN  /\ n \in Nat
             /\ \A a \in ToSet(list) : pos[a].type = t => pos[a].index < n
             /\ n = 0 \/ \E a \in ToSet(list) : pos[a].type = t /\ pos[a].index = n - 1
<1> DEFINE used == {-1} \union {pos[a].index : a \in {b \in ToSet(list) : pos[b].type = t}}
           n == Len(list)
           f == [i \in 1 .. n |-> pos[list[i]].index]
<1>1. n \in Nat /\ DOMAIN list = 1 .. n /\ ToSet(list) = {list[i] : i \in 1 .. n}
  BY DEF IsList, ToSet
<1>2. \A a \in ToSet(list) : pos[a].index \in Int BY DEF HasPositions, AnyPosition
<1>3. f \in [1 .. n -> Int] BY <1>1, <1>2
<1> HIDE DEF n
<1>4. PICK b \in Int : \A i \in 1 .. n : f[i] <= b
  <2> HIDE DEF f
  <2> QED BY <1>1, <1>3, EntriesBounded
<1>5. \A a \in ToSet(list) : pos[a].index <= b BY <1>1, <1>4
<1> DEFINE c == IF b < -1 THEN -1 ELSE b
<1>6. used \in SUBSET Int /\ used # {} /\ c \in Int /\ \A y \in used : y <= c
  BY <1>2, <1>5
<1>7. NewPackIndex(list, pos, t) = Max(used) + 1 BY DEF NewPackIndex
<1>8. /\ -1 \in used /\ \A a \in ToSet(list) : pos[a].type = t => pos[a].index \in used
      /\ \A y \in used : y = -1 \/ \E a \in ToSet(list) : pos[a].type = t /\ pos[a].index = y
  OBVIOUS
<1> HIDE DEF used, c
<1>9. Max(used) \in used /\ \A y \in used : Max(used) >= y BY <1>6, MaxInSet
<1>10. Max(used) \in Int /\ Max(used) >= -1 BY <1>6, <1>8, <1>9
<1>11. \A a \in ToSet(list) : pos[a].type = t => pos[a].index <= Max(used) BY <1>2, <1>8, <1>9, <1>10
<1> QED BY <1>2, <1>7, <1>8, <1>9, <1>10, <1>11

\* The newcomer gets the place, and those that are shifted go up by one.
HasMoved(new, list, pos, a, t, index) ==
  /\ new[a] = [type |-> t,
               index |-> IF index < 0 THEN NewPackIndex(list, pos, t) ELSE index]
  /\ new[a] \in AnyPosition
  /\ \A b \in Applets \ {a} :
       IF b \in Shifted(list, pos, t, index)
       THEN new[b] = [type |-> t, index |-> pos[b].index + 1]
       ELSE new[b] = pos[b]

LEMMA MoveToPackIs ==
  ASSUME NEW list, IsList(list), NEW pos, HasPositions(list, pos), NEW a \in Applets,
         NEW t \in Int, NEW index \in Int
  PROVE  /\ HasPositions(list, MoveToPack(list, pos, a, t, index))
         /\ HasMoved(MoveToPack(list, pos, a, t, index), list, pos, a, t, index)
<1> DEFINE new == MoveToPack(list, pos, a, t, index)
           shifted == Shifted(list, pos, t, index)
           to == IF index < 0 THEN NewPackIndex(list, pos, t) ELSE index
<1>1. new = [b \in Applets |->
               CASE b = a -> [type |-> t, index |-> to]
                 [] b # a /\ b \in shifted -> [pos[b] EXCEPT !.index = @ + 1]
                 [] OTHER -> pos[b]]
  BY DEF MoveToPack
<1>2. to \in Int BY NewPackIndexIs
<1>3. \A b \in shifted : b \in ToSet(list) /\ pos[b].type = t BY DEF Shifted
<1>4. pos \in [Applets -> AnyPosition \union {None}] /\ \A b \in ToSet(list) : pos[b] \in AnyPosition
  BY DEF HasPositions
<1> HIDE DEF new, shifted, to
<1>5. new[a] = [type |-> t, index |-> to] BY <1>1
<1>6. [type |-> t, index |-> to] \in AnyPosition BY <1>2 DEF AnyPosition
<1>7. ASSUME NEW b \in Applets \ {a}, b \in shifted
      PROVE  new[b] = [type |-> t, index |-> pos[b].index + 1] /\ new[b] \in AnyPosition
  <2>1. new[b] = [pos[b] EXCEPT !.index = @ + 1] BY <1>1, <1>7
  <2>2. pos[b] \in AnyPosition /\ pos[b].type = t BY <1>3, <1>4, <1>7
  <2> QED BY <2>1, <2>2 DEF AnyPosition
<1>8. ASSUME NEW b \in Applets \ {a}, b \notin shifted PROVE new[b] = pos[b]
  BY <1>1, <1>8
<1>9. HasPositions(list, new)
  <2>1. new = [b \in Applets |-> new[b]] BY <1>1
  <2>2. \A b \in Applets : new[b] \in AnyPosition \union {None} BY <1>4, <1>5, <1>6, <1>7, <1>8
  <2>3. ToSet(list) \subseteq Applets BY DEF IsList, ToSet
  <2>4. \A b \in ToSet(list) : new[b] \in AnyPosition BY <1>4, <1>5, <1>6, <1>7, <1>8, <2>3
  <2>5. new \in [Applets -> AnyPosition \union {None}] BY <2>1, <2>2
  <2> QED BY <2>4, <2>5 DEF HasPositions
<1> QED BY <1>5, <1>6, <1>7, <1>8, <1>9 DEF new, to, shifted, HasMoved

\* What an insertion shifts besides does not change the order of the list.
LEMMA AddedIs ==
  ASSUME NEW p, NEW list, IsList(list), NEW pos, HasPositions(list, pos)
  PROVE  /\ HasPositions(list, Added(p, list, pos))
         /\ \A a \in Applets \ ToSet(list) : Added(p, list, pos)[a] = pos[a]
         /\ \A a \in ToSet(list) : Added(p, list, pos)[a].type = pos[a].type
         /\ AddEmits(p, list, pos) \subseteq ToSet(list)
         /\ \A a \in Applets \ AddEmits(p, list, pos) : Added(p, list, pos)[a] = pos[a]
         /\ SortedBy(list, pos) => SortedBy(list, Added(p, list, pos))
<1> DEFINE new == Added(p, list, pos)
           emits == AddEmits(p, list, pos)
<1>1. new = [b \in Applets |-> IF b \in emits THEN [pos[b] EXCEPT !.index = @ + 1] ELSE pos[b]]
  BY DEF Added
<1>2. END \in PackTypes BY DEF PackTypes, START, END
<1>3. emits \subseteq ToSet(list) /\ \A a \in emits : pos[a].type = END
  BY <1>2, PackIsList DEF AddEmits
<1>4. /\ pos \in [Applets -> AnyPosition \union {None}] /\ \A b \in ToSet(list) : pos[b] \in AnyPosition
      /\ ToSet(list) \subseteq Applets
  BY DEF HasPositions, IsList, ToSet
<1> HIDE DEF new
<1>5. ASSUME NEW b \in Applets, b \in emits
      PROVE  /\ new[b] \in AnyPosition /\ new[b].type = pos[b].type
             /\ new[b].index = pos[b].index + 1
  <2>1. pos[b] \in AnyPosition BY <1>3, <1>4, <1>5
  <2>2. new[b] = [pos[b] EXCEPT !.index = @ + 1] BY <1>1, <1>5
  <2> QED BY <2>1, <2>2 DEF AnyPosition
<1>6. ASSUME NEW b \in Applets, b \notin emits PROVE new[b] = pos[b]
  BY <1>1, <1>6
<1>7. HasPositions(list, new)
  <2>1. new = [b \in Applets |-> new[b]] BY <1>1
  <2>2. \A b \in Applets : new[b] \in AnyPosition \union {None} BY <1>4, <1>5, <1>6
  <2>3. \A b \in ToSet(list) : new[b] \in AnyPosition BY <1>4, <1>5, <1>6
  <2>4. new \in [Applets -> AnyPosition \union {None}] BY <2>1, <2>2
  <2> QED BY <2>3, <2>4 DEF HasPositions
<1>8. \A a \in ToSet(list) : new[a].type = pos[a].type BY <1>4, <1>5, <1>6
<1>9. ASSUME SortedBy(list, pos), NEW i \in DOMAIN list, NEW j \in DOMAIN list, i < j
      PROVE  Compare(new[list[i]], new[list[j]]) <= 0
  <2> DEFINE x == list[i]
             y == list[j]
  <2>1. x \in ToSet(list) /\ y \in ToSet(list) BY DEF ToSet
  <2>2. /\ pos[x] \in AnyPosition /\ pos[y] \in AnyPosition
        /\ new[x] \in AnyPosition /\ new[y] \in AnyPosition
        /\ new[x].type = pos[x].type /\ new[y].type = pos[y].type
    BY <1>4, <1>5, <1>6, <2>1
  <2>3. Compare(pos[x], pos[y]) <= 0 BY <1>9 DEF SortedBy
  <2> HIDE DEF emits
  <2>4. pos[x].type = END /\ pos[y].type = END => (x \in emits <=> y \in emits)
    <3>1. CASE p \in Packed
      <4>1. emits = ToSet(Pack(list, pos, END)) BY <3>1 DEF emits, AddEmits
      <4> QED BY <1>2, <1>9, <4>1, PackIs
    <3>2. CASE p \notin Packed BY <3>2 DEF emits, AddEmits
    <3> QED BY <3>1, <3>2
  <2>5. /\ x \in emits => pos[x].type = END /\ new[x].index = pos[x].index + 1
        /\ y \in emits => pos[y].type = END /\ new[y].index = pos[y].index + 1
        /\ x \notin emits => new[x] = pos[x]
        /\ y \notin emits => new[y] = pos[y]
    BY <1>3, <1>4, <1>5, <1>6, <2>1
  <2> HIDE DEF x, y
  <2>6. /\ pos[x].type \in Int /\ pos[y].type \in Int /\ pos[x].index \in Int /\ pos[y].index \in Int
    BY <2>2 DEF AnyPosition
  <2>7. \/ pos[x].type < pos[y].type
        \/ pos[x].type = pos[y].type /\ pos[x].type # END /\ pos[x].index <= pos[y].index
        \/ pos[x].type = pos[y].type /\ pos[x].type = END /\ pos[y].index <= pos[x].index
    BY <2>2, <2>3, CompareIs
  <2>8. \/ new[x].type < new[y].type
        \/ new[x].type = new[y].type /\ new[x].type # END /\ new[x].index <= new[y].index
        \/ new[x].type = new[y].type /\ new[x].type = END /\ new[y].index <= new[x].index
    BY <2>2, <2>4, <2>5, <2>6, <2>7
  <2>9. Compare(new[x], new[y]) <= 0 BY <2>2, <2>8, CompareIs
  <2> QED BY <2>9 DEF x, y
<1>10. SortedBy(list, pos) => SortedBy(list, new) BY <1>9 DEF SortedBy
<1>11. \A a \in Applets \ ToSet(list) : new[a] = pos[a] BY <1>3, <1>6
<1> QED BY <1>3, <1>6, <1>7, <1>8, <1>10, <1>11 DEF new

\* A block that goes to another pack: where its applets come to be, and by how
\* much those of the pack are shifted.
MovedPlace(k, n, j, t, first) == [type |-> t, index |-> IF first THEN n - j ELSE k + j - 1]

LEMMA BlockMovedIs ==
  ASSUME NEW p, IsList(appletList[p]), HasPositions(appletList[p], position),
         NEW block \in Seq(Applets), IsInjective(block), ToSet(block) \subseteq ToSet(appletList[p]),
         NEW t \in Int,
         \A a \in ToSet(appletList[p]) : position[a].index >= 0,
         \A a \in ToSet(block) : position[a].type # t
  PROVE  LET new == BlockMoved(p, block, t)
             n == Len(block)
             k == NewPackIndex(appletList[p], position, t)
             first == BlockIndex(block, t) = 0
         IN  /\ HasPositions(appletList[p], new)
             /\ \A j \in 1 .. n : new[block[j]] = MovedPlace(k, n, j, t, first)
             /\ \A b \in Applets \ ToSet(block) :
                  IF first /\ b \in ToSet(appletList[p]) /\ position[b].type = t
                  THEN new[b] = [type |-> t, index |-> position[b].index + n]
                  ELSE new[b] = position[b]
<1> DEFINE list == appletList[p]
           pos == position
           n == Len(block)
           index == BlockIndex(block, t)
           k == NewPackIndex(list, pos, t)
           first == index = 0
           Body(g) == [i \in 0 .. n |->
             IF i = 0 THEN pos ELSE MoveToPack(list, g[i - 1], block[i], t, index)]
           f == CHOOSE g : g = Body(g)
<1>1. BlockMoved(p, block, t) = f[n] BY DEF BlockMoved
<1>2. n \in Nat /\ block \in [1 .. n -> Applets] /\ DOMAIN block = 1 .. n OBVIOUS
<1>3. index \in Int /\ (index = 0 \/ index < 0) BY DEF BlockIndex
<1>4. /\ IsList(list) /\ HasPositions(list, pos) /\ pos = position
      /\ ToSet(block) \subseteq ToSet(list)
      /\ \A a \in ToSet(list) : pos[a].index >= 0
      /\ \A a \in ToSet(block) : pos[a].type # t
      /\ ToSet(list) \subseteq Applets
      /\ list = appletList[p]
  BY DEF IsList, ToSet
<1>5. \A i, j \in 1 .. n : block[i] = block[j] => i = j BY <1>2 DEF IsInjective
<1>6. \A j \in 1 .. n : block[j] \in ToSet(block) BY <1>2 DEF ToSet
<1>7. \A b \in ToSet(block) : \E j \in 1 .. n : b = block[j] BY <1>2 DEF ToSet
<1> HIDE DEF list, pos, n, index, f
<1>8. \E g : g = Body(g)
  <2> DEFINE places == {q \in [Applets -> AnyPosition \union {None}] : HasPositions(list, q)}
             step == [i \in 1 .. n |-> [q \in places |-> MoveToPack(list, q, block[i], t, index)]]
  <2>1. pos \in places BY <1>4 DEF HasPositions
  <2>2. ASSUME NEW i \in 1 .. n, NEW q \in places
        PROVE  MoveToPack(list, q, block[i], t, index) \in places
    <3>1. HasPositions(list, MoveToPack(list, q, block[i], t, index))
      BY <1>2, <1>3, <1>4, MoveToPackIs
    <3> QED BY <3>1 DEF HasPositions
  <2> HIDE DEF places
  <2>3. step \in [1 .. n -> [places -> places]] BY <2>2
  <2>4. ASSUME NEW i \in 1 .. n, NEW q \in places
        PROVE  step[i][q] = MoveToPack(list, q, block[i], t, index)
    OBVIOUS
  <2> HIDE DEF step
  <2>5. PICK g \in [0 .. n -> places] : GoesBy(g, n, pos, step)
    BY <1>2, <2>1, <2>3, RecursionExists DEF Steps
  <2>6. g[0] = pos /\ \A i \in 1 .. n : g[i] = step[i][g[i - 1]] BY <2>5 DEF GoesBy
  <2>7. ASSUME NEW i \in 1 .. n
        PROVE  g[i] = MoveToPack(list, g[i - 1], block[i], t, index)
    <3>1. g[i - 1] \in places BY <1>2
    <3> QED BY <2>4, <2>6, <3>1
  <2>8. ASSUME NEW i \in 0 .. n
        PROVE  g[i] = IF i = 0 THEN pos ELSE MoveToPack(list, g[i - 1], block[i], t, index)
    <3>1. CASE i = 0 BY <2>6, <3>1
    <3>2. CASE i \in 1 .. n
      <4>1. i # 0 BY <1>2, <3>2
      <4>2. g[i] = MoveToPack(list, g[i - 1], block[i], t, index) BY <2>7, <3>2
      <4> QED BY <4>1, <4>2, Zenon
    <3> QED BY <1>2, <3>1, <3>2
  <2>9. g = Body(g) BY <2>8
  <2> HIDE DEF Body
  <2> QED BY <2>9
<1>9. f = Body(f)
  <2> HIDE DEF Body
  <2> QED BY <1>8 DEF f
<1>10. f[0] = pos BY <1>2, <1>9
<1>11. ASSUME NEW i \in 1 .. n
       PROVE  f[i] = MoveToPack(list, f[i - 1], block[i], t, index)
  <2>1. f[i] = Body(f)[i] BY <1>9
  <2> QED BY <1>2, <2>1
<1> HIDE DEF Body
<1>12. k \in Nat /\ \A b \in ToSet(list) : pos[b].type = t => pos[b].index < k
  BY <1>4, NewPackIndexIs
<1> HIDE DEF k, first
<1> DEFINE Place(i, j) == MovedPlace(k, i, j, t, first)
           Rest(b, i) == IF first /\ b \in ToSet(list) /\ pos[b].type = t
                         THEN f[i][b] = [type |-> t, index |-> pos[b].index + i]
                         ELSE f[i][b] = pos[b]
           Ok(i) == /\ HasPositions(list, f[i])
                    /\ \A j \in 1 .. i : f[i][block[j]] = Place(i, j)
                    /\ \A b \in Applets : (\A j \in 1 .. i : b # block[j]) => Rest(b, i)
           T == {i \in 0 .. n : Ok(i)}
<1>13. 0 \in T
  <2>1. ASSUME NEW b \in Applets PROVE Rest(b, 0)
    <3>1. b \in ToSet(list) => pos[b] \in AnyPosition BY <1>4 DEF HasPositions
    <3> QED BY <1>10, <3>1 DEF AnyPosition
  <2> HIDE DEF Rest, Place
  <2>2. Ok(0) BY <1>4, <1>10, <2>1
  <2> HIDE DEF Ok
  <2> QED BY <1>2, <2>2
<1>14. ASSUME NEW i \in 1 .. n, i - 1 \in T PROVE i \in T
  <2> DEFINE old == f[i - 1]
             new == f[i]
             a == block[i]
             shifted == Shifted(list, old, t, index)
  <2>1. Ok(i - 1) BY <1>14
  <2>2. HasPositions(list, old) BY <2>1
  <2>3. ASSUME NEW j \in 1 .. i - 1 PROVE old[block[j]] = Place(i - 1, j) BY <2>1
  <2>4. ASSUME NEW b \in Applets, \A j \in 1 .. i - 1 : b # block[j] PROVE Rest(b, i - 1)
    BY <2>1, <2>4
  <2>5. a \in Applets /\ i - 1 \in 0 .. n - 1 BY <1>2
  <2>6. new = MoveToPack(list, old, a, t, index) BY <1>11
  <2> HIDE DEF Ok, Rest, T
  <2>7. /\ HasPositions(list, new)
        /\ new[a] = [type |-> t,
                     index |-> IF index < 0 THEN NewPackIndex(list, old, t) ELSE index]
        /\ \A b \in Applets \ {a} :
             IF b \in shifted THEN new[b] = [type |-> t, index |-> old[b].index + 1]
             ELSE new[b] = old[b]
    <3>1. IsList(list) /\ index \in Int BY <1>3, <1>4
    <3> HIDE DEF old, a, new
    <3>2. HasPositions(list, new) /\ HasMoved(new, list, old, a, t, index)
      BY <2>2, <2>5, <2>6, <3>1, MoveToPackIs
    <3> QED BY <3>2 DEF shifted, HasMoved
  <2>8. \A b \in shifted : b \in ToSet(list) /\ old[b].type = t /\ index = 0
    BY <1>3 DEF Shifted
  <2>9. first => \A b \in ToSet(list) : old[b].type = t /\ old[b].index >= 0 => b \in shifted
    BY <1>3 DEF Shifted, first
  <2>10. first <=> index = 0 BY DEF first
  <2> HIDE DEF shifted
  <2>11. new[a] = Place(i, i)
    <3>1. CASE first BY <1>2, <1>3, <2>7, <2>10, <3>1 DEF MovedPlace
    <3>2. CASE ~first
      <4> DEFINE N == NewPackIndex(list, old, t)
      <4>1. /\ N \in Nat /\ \A b \in ToSet(list) : old[b].type = t => old[b].index < N
            /\ N = 0 \/ \E b \in ToSet(list) : old[b].type = t /\ old[b].index = N - 1
        <5> HIDE DEF old
        <5> QED BY <1>4, <2>2, NewPackIndexIs
      <4>1a. new[a] = [type |-> t, index |-> N] BY <1>3, <2>7, <2>10, <3>2
      <4> HIDE DEF N
      <4>2. CASE i = 1
        <5>1. old = pos BY <1>10, <4>2
        <5>2. N = k BY <5>1 DEF N, k
        <5> QED BY <3>2, <4>1a, <4>2, <5>2, <1>12 DEF MovedPlace
      <4>3. CASE i # 1
        <5>1. i - 1 \in 1 .. i - 1 /\ i - 1 \in 1 .. n /\ i \in Int BY <1>2, <4>3
        <5>2. old[block[i - 1]] = [type |-> t, index |-> k + (i - 1) - 1]
          BY <2>3, <3>2, <5>1 DEF MovedPlace
        <5>3. block[i - 1] \in ToSet(list) BY <1>4, <1>6, <5>1
        <5>4. k + (i - 1) - 1 < N BY <4>1, <5>2, <5>3
        <5>5. ASSUME NEW b \in ToSet(list), old[b].type = t, old[b].index = N - 1
              PROVE  N - 1 <= k + i - 2
          <6>1. CASE \E j \in 1 .. i - 1 : b = block[j]
            <7>1. PICK j \in 1 .. i - 1 : b = block[j] BY <6>1
            <7>3. old[block[j]] = [type |-> t, index |-> k + j - 1] BY <2>3, <3>2 DEF MovedPlace
            <7>2. old[b].index = k + j - 1
              <8> HIDE DEF old
              <8> QED BY <7>1, <7>3
            <7> QED BY <1>12, <5>1, <5>5, <7>2
          <6>2. CASE \A j \in 1 .. i - 1 : b # block[j]
            <7>1. old[b] = pos[b] BY <1>4, <2>4, <3>2, <6>2 DEF Rest
            <7>2. pos[b].index < k BY <1>12, <5>5, <7>1
            <7> QED BY <1>12, <4>1, <5>1, <5>5, <7>1, <7>2
          <6> QED BY <6>1, <6>2
        <5>6. N = k + i - 1 BY <1>12, <4>1, <5>1, <5>4, <5>5
        <5> QED BY <3>2, <4>1a, <5>6 DEF MovedPlace
      <4> QED BY <4>2, <4>3
    <3> QED BY <3>1, <3>2
  <2>12. ASSUME NEW j \in 1 .. i - 1 PROVE new[block[j]] = Place(i, j)
    <3>1. block[j] \in Applets /\ block[j] # a /\ block[j] \in ToSet(list)
      <4>1. j \in 1 .. n /\ j # i BY <1>2
      <4> QED BY <1>2, <1>4, <1>5, <1>6, <4>1
    <3>2. old[block[j]] = MovedPlace(k, i - 1, j, t, first) BY <2>3
    <3>3. CASE first
      <4>1. old[block[j]] = [type |-> t, index |-> i - 1 - j] BY <3>2, <3>3 DEF MovedPlace
      <4>2. block[j] \in shifted BY <1>2, <2>9, <3>1, <3>3, <4>1
      <4>3. new[block[j]] = [type |-> t, index |-> old[block[j]].index + 1] BY <2>7, <3>1, <4>2
      <4>4. (i - 1 - j) + 1 = i - j BY <1>2
      <4> QED BY <3>3, <4>1, <4>3, <4>4 DEF MovedPlace
    <3>4. CASE ~first
      <4>1. block[j] \notin shifted BY <2>8, <2>10, <3>4
      <4>2. new[block[j]] = old[block[j]] BY <2>7, <3>1, <4>1
      <4> QED BY <3>2, <3>4, <4>2 DEF MovedPlace
    <3> QED BY <3>3, <3>4
  <2>13. ASSUME NEW b \in Applets, \A j \in 1 .. i : b # block[j] PROVE Rest(b, i)
    <3>1. b # a /\ Rest(b, i - 1)
      <4>1. \A j \in 1 .. i - 1 : j \in 1 .. i BY <1>2
      <4>2. i \in 1 .. i BY <1>2
      <4> QED BY <2>4, <2>13, <4>1, <4>2
    <3>2. CASE first /\ b \in ToSet(list) /\ pos[b].type = t
      <4>1. old[b] = [type |-> t, index |-> pos[b].index + (i - 1)] BY <3>1, <3>2 DEF Rest
      <4>2. pos[b].index >= 0 /\ pos[b].index \in Int
        BY <1>4, <3>2 DEF HasPositions, AnyPosition
      <4>3. b \in shifted BY <1>2, <2>9, <3>2, <4>1, <4>2
      <4>4. new[b] = [type |-> t, index |-> old[b].index + 1] BY <2>7, <3>1, <4>3
      <4>5. pos[b].index + (i - 1) + 1 = pos[b].index + i BY <1>2, <4>2
      <4> QED BY <3>2, <4>1, <4>4, <4>5 DEF Rest
    <3>3. CASE ~(first /\ b \in ToSet(list) /\ pos[b].type = t)
      <4>1. old[b] = pos[b] BY <3>1, <3>3 DEF Rest
      <4>2. b \notin shifted BY <2>8, <2>10, <3>3, <4>1
      <4>3. new[b] = old[b] BY <2>7, <3>1, <4>2
      <4> QED BY <3>3, <4>1, <4>3 DEF Rest
    <3> QED BY <3>2, <3>3
  <2>14. \A j \in 1 .. i : new[block[j]] = Place(i, j)
    <3>1. \A j \in 1 .. i : j = i \/ j \in 1 .. i - 1 BY <1>2
    <3> QED BY <2>11, <2>12, <3>1
  <2>15. Ok(i) BY <2>7, <2>13, <2>14 DEF Ok
  <2> QED BY <1>2, <2>15 DEF T
<1>15. n \in T
  <2> HIDE DEF T
  <2>1. \A i \in 1 .. n : i - 1 \in T => i \in T BY <1>14
  <2>2. 0 .. n \subseteq T BY <1>2, <1>13, <2>1, UpToInduction
  <2> QED BY <1>2, <2>2
<1>16. Ok(n) BY <1>15
<1> HIDE DEF T
<1>17. ASSUME NEW b \in Applets \ ToSet(block)
       PROVE  IF first /\ b \in ToSet(list) /\ pos[b].type = t
              THEN f[n][b] = [type |-> t, index |-> pos[b].index + n]
              ELSE f[n][b] = pos[b]
  <2>1. \A j \in 1 .. n : b # block[j] BY <1>6
  <2> QED BY <1>16, <2>1
<1>18. HasPositions(list, f[n]) /\ \A j \in 1 .. n : f[n][block[j]] = MovedPlace(k, n, j, t, first)
  BY <1>16
<1> HIDE DEF Ok
<1> QED BY <1>1, <1>17, <1>18 DEF list, pos, n, index, k, first

-----------------------------------------------------------------------------
(***************************************************************************)
(* What stays sorted.                                                      *)
(***************************************************************************)
LEMMA CompareTotal ==
  ASSUME NEW x \in AnyPosition, NEW y \in AnyPosition
  PROVE  Compare(x, y) <= 0 \/ Compare(y, x) <= 0
BY CompareIs DEF AnyPosition

LEMMA CompareTransitive ==
  ASSUME NEW x \in AnyPosition, NEW y \in AnyPosition, NEW z \in AnyPosition,
         Compare(x, y) <= 0, Compare(y, z) <= 0
  PROVE  Compare(x, z) <= 0
BY CompareIs DEF AnyPosition

LEMMA SortedRemoved ==
  ASSUME NEW list, IsList(list), NEW a \in ToSet(list), NEW pos, SortedBy(list, pos)
  PROVE  SortedBy(Removed(list, a), pos)
<1> DEFINE new == Removed(list, a)
<1> SUFFICES ASSUME NEW i \in DOMAIN new, NEW j \in DOMAIN new, i < j
             PROVE  Compare(pos[new[i]], pos[new[j]]) <= 0
  BY DEF SortedBy
<1>1. \E k, l \in DOMAIN list : k < l /\ list[k] = new[i] /\ list[l] = new[j]
  BY RemovedIs
<1> QED BY <1>1 DEF SortedBy

LEMMA SortedInserted ==
  ASSUME NEW list, IsList(list), NEW pos, HasPositions(list, pos), SortedBy(list, pos),
         NEW a \in Applets, a \notin ToSet(list), pos[a] \in AnyPosition
  PROVE  SortedBy(InsertSorted(list, pos, a), pos)
<1> DEFINE n == Len(list)
           new == InsertSorted(list, pos, a)
<1>1. PICK m \in 1 .. n + 1 :
        /\ \A k \in 1 .. n + 1 :
             new[k] = IF k < m THEN list[k] ELSE IF k = m THEN a ELSE list[k - 1]
        /\ DOMAIN new = 1 .. n + 1
        /\ \A i \in 1 .. m - 1 : ~(Compare(pos[a], pos[list[i]]) <= 0)
        /\ m <= n => Compare(pos[a], pos[list[m]]) <= 0
  BY InsertSortedIs
<1>2. /\ n \in Nat /\ DOMAIN list = 1 .. n
      /\ \A i \in 1 .. n : pos[list[i]] \in AnyPosition
      /\ \A i, j \in 1 .. n : i < j => Compare(pos[list[i]], pos[list[j]]) <= 0
  BY DEF IsList, HasPositions, ToSet, SortedBy
<1> HIDE DEF n, new
<1>3. ASSUME NEW i \in 1 .. m - 1 PROVE i \in 1 .. n /\ Compare(pos[list[i]], pos[a]) <= 0
  <2>1. i \in 1 .. n BY <1>1, <1>2
  <2>2. ~(Compare(pos[a], pos[list[i]]) <= 0) BY <1>1
  <2> QED BY <1>2, <2>1, <2>2, CompareTotal
<1>4. ASSUME NEW i \in m .. n PROVE i \in 1 .. n /\ Compare(pos[a], pos[list[i]]) <= 0
  <2>1. i \in 1 .. n /\ m \in 1 .. n BY <1>1, <1>2
  <2>2. Compare(pos[a], pos[list[m]]) <= 0 BY <1>1, <2>1
  <2>3. i = m \/ Compare(pos[list[m]], pos[list[i]]) <= 0 BY <1>2, <2>1
  <2>4. pos[list[m]] \in AnyPosition /\ pos[list[i]] \in AnyPosition BY <1>2, <2>1
  <2> QED BY <2>1, <2>2, <2>3, <2>4, CompareTransitive
<1>5. ASSUME NEW i \in 1 .. n + 1, NEW j \in 1 .. n + 1, i < j
      PROVE  Compare(pos[new[i]], pos[new[j]]) <= 0
  <2>1. CASE j < m
    <3>1. i < m /\ i \in 1 .. n /\ j \in 1 .. n BY <1>1, <1>2, <1>5, <2>1
    <3>2. new[i] = list[i] /\ new[j] = list[j] BY <1>1, <2>1, <3>1
    <3> QED BY <1>2, <1>5, <3>1, <3>2
  <2>2. CASE j = m
    <3>1. i < m /\ i \in 1 .. m - 1 BY <1>1, <1>2, <1>5, <2>2
    <3>2. new[i] = list[i] /\ new[j] = a BY <1>1, <2>2, <3>1
    <3> QED BY <1>3, <3>1, <3>2
  <2>3. CASE j > m /\ i < m
    <3>1. i \in 1 .. n /\ j - 1 \in 1 .. n BY <1>1, <1>2, <2>3
    <3>2. new[i] = list[i] /\ new[j] = list[j - 1] BY <1>1, <2>3
    <3>3. i < j - 1 BY <1>1, <1>2, <2>3
    <3> QED BY <1>2, <3>1, <3>2, <3>3
  <2>4. CASE j > m /\ i = m
    <3>1. j - 1 \in m .. n BY <1>1, <1>2, <2>4
    <3>2. new[i] = a /\ new[j] = list[j - 1] BY <1>1, <2>4
    <3> QED BY <1>4, <3>1, <3>2
  <2>5. CASE j > m /\ i > m
    <3>1. i - 1 \in 1 .. n /\ j - 1 \in 1 .. n /\ i - 1 < j - 1 BY <1>1, <1>2, <1>5, <2>5
    <3>2. new[i] = list[i - 1] /\ new[j] = list[j - 1] BY <1>1, <2>5
    <3> QED BY <1>2, <3>1, <3>2
  <2> QED BY <1>1, <1>2, <1>5, <2>1, <2>2, <2>3, <2>4, <2>5
<1> QED BY <1>1, <1>5 DEF SortedBy, new

\* A block at the border of its pack that goes to the neighbouring pack: to the
\* right turned around, to the left as it is.
AtBorder(list, pos, block, lo, hi, t) ==
  /\ lo \in DOMAIN list /\ hi \in DOMAIN list /\ lo <= hi
  /\ block \in Seq(Applets) /\ Len(block) = hi - lo + 1
  /\ \A k \in lo .. hi : pos[list[k]].type = pos[list[lo]].type
  /\ \/ /\ t = pos[list[lo]].type + 1
        /\ hi + 1 \in DOMAIN list => pos[list[hi + 1]].type # pos[list[lo]].type
        /\ \A j \in 1 .. hi - lo + 1 : block[j] = list[hi + 1 - j]
     \/ /\ t = pos[list[lo]].type - 1
        /\ lo - 1 \in DOMAIN list => pos[list[lo - 1]].type # pos[list[lo]].type
        /\ \A j \in 1 .. hi - lo + 1 : block[j] = list[lo - 1 + j]

LEMMA BlockIsList ==
  ASSUME NEW list, IsList(list), NEW pos, HasPositions(list, pos), NEW block, NEW lo, NEW hi,
         NEW t, AtBorder(list, pos, block, lo, hi, t)
  PROVE  /\ block \in Seq(Applets) /\ IsInjective(block) /\ block # <<>>
         /\ ToSet(block) = {list[k] : k \in lo .. hi}
         /\ t \in Int /\ \A a \in ToSet(block) : pos[a].type # t
<1> DEFINE n == hi - lo + 1
<1>1. /\ list \in Seq(Applets) /\ DOMAIN list = 1 .. Len(list) /\ Len(list) \in Nat
      /\ \A i, j \in DOMAIN list : list[i] = list[j] => i = j
  BY DEF IsList, IsInjective
<1>2. /\ lo \in 1 .. Len(list) /\ hi \in 1 .. Len(list) /\ lo <= hi
      /\ n \in Nat \ {0} /\ block \in Seq(Applets) /\ Len(block) = n /\ DOMAIN block = 1 .. n
      /\ \A k \in lo .. hi : k \in DOMAIN list /\ pos[list[k]].type = pos[list[lo]].type
  BY <1>1 DEF AtBorder
<1>3. pos[list[lo]] \in AnyPosition BY <1>1, <1>2 DEF HasPositions, ToSet
<1>4. t \in Int /\ t # pos[list[lo]].type
  BY <1>3 DEF AtBorder, AnyPosition
<1>5. \/ \A j \in 1 .. n : block[j] = list[hi + 1 - j]
      \/ \A j \in 1 .. n : block[j] = list[lo - 1 + j]
  BY DEF AtBorder
<1> HIDE DEF n
<1>6. /\ \A j \in 1 .. n : hi + 1 - j \in lo .. hi /\ lo - 1 + j \in lo .. hi
      /\ \A k \in lo .. hi : /\ hi + 1 - k \in 1 .. n /\ hi + 1 - (hi + 1 - k) = k
                             /\ k - (lo - 1) \in 1 .. n /\ lo - 1 + (k - (lo - 1)) = k
  BY <1>2 DEF n
<1>7. IsInjective(block)
  <2> SUFFICES ASSUME NEW i \in 1 .. n, NEW j \in 1 .. n, block[i] = block[j] PROVE i = j
    BY <1>2 DEF IsInjective
  <2>1. \/ list[hi + 1 - i] = list[hi + 1 - j]
        \/ list[lo - 1 + i] = list[lo - 1 + j]
    BY <1>5
  <2>2. hi + 1 - i = hi + 1 - j \/ lo - 1 + i = lo - 1 + j BY <1>1, <1>2, <1>6, <2>1
  <2> QED BY <1>2, <2>2
<1>8. \A j \in 1 .. n : \E k \in lo .. hi : block[j] = list[k] BY <1>5, <1>6
<1>9. \A k \in lo .. hi : \E j \in 1 .. n : block[j] = list[k]
  <2> TAKE k \in lo .. hi
  <2>1. CASE \A j \in 1 .. n : block[j] = list[hi + 1 - j]
    <3>1. block[hi + 1 - k] = list[k] BY <1>6, <2>1
    <3> QED BY <1>6, <3>1
  <2>2. CASE \A j \in 1 .. n : block[j] = list[lo - 1 + j]
    <3>1. block[k - (lo - 1)] = list[k] BY <1>6, <2>2
    <3> QED BY <1>6, <3>1
  <2> QED BY <1>5, <2>1, <2>2
<1>10. ToSet(block) = {list[k] : k \in lo .. hi}
  <2>1. ToSet(block) = {block[j] : j \in 1 .. n} BY <1>2 DEF ToSet
  <2> QED BY <1>8, <1>9, <2>1
<1>11. \A a \in ToSet(block) : pos[a].type # t BY <1>2, <1>4, <1>10
<1>12. block # <<>> BY <1>2
<1> QED BY <1>2, <1>4, <1>7, <1>10, <1>11, <1>12

LEMMA BlockMovedSorted ==
  ASSUME NEW p, IsList(appletList[p]), HasPositions(appletList[p], position),
         InPacks(appletList[p], position), SortedBy(appletList[p], position),
         \A a \in ToSet(appletList[p]) : position[a].index >= 0,
         NEW block, NEW lo, NEW hi, NEW t \in PackTypes,
         AtBorder(appletList[p], position, block, lo, hi, t)
  PROVE  SortedBy(appletList[p], BlockMoved(p, block, t))
<1> DEFINE list == appletList[p]
           pos == position
           new == BlockMoved(p, block, t)
           n == Len(block)
           k == NewPackIndex(list, pos, t)
           s == pos[list[lo]].type
           first == BlockIndex(block, t) = 0
           Ordered(x, y) == \/ x.type < y.type
                            \/ x.type = y.type /\ x.type # END /\ x.index <= y.index
                            \/ x.type = y.type /\ x.type = END /\ y.index <= x.index
<1>1. /\ block \in Seq(Applets) /\ IsInjective(block) /\ ToSet(block) = {list[i] : i \in lo .. hi}
      /\ t \in Int /\ \A a \in ToSet(block) : pos[a].type # t
  BY BlockIsList
<1>2. /\ DOMAIN list = 1 .. Len(list) /\ Len(list) \in Nat /\ ToSet(list) \subseteq Applets
      /\ \A i, j \in DOMAIN list : list[i] = list[j] => i = j
      /\ \A i \in DOMAIN list : list[i] \in ToSet(list)
  BY DEF IsList, IsInjective, ToSet
<1>3. /\ lo \in DOMAIN list /\ hi \in DOMAIN list /\ lo <= hi /\ n = hi - lo + 1
      /\ \A i \in lo .. hi : i \in DOMAIN list /\ pos[list[i]].type = s
  <2>1. /\ lo \in DOMAIN list /\ hi \in DOMAIN list /\ lo <= hi /\ n = hi - lo + 1
        /\ \A i \in lo .. hi : pos[list[i]].type = s
    BY DEF AtBorder
  <2> QED BY <1>2, <2>1
<1>4. ToSet(block) \subseteq ToSet(list) BY <1>1, <1>2, <1>3
<1>5. /\ HasPositions(list, new)
      /\ \A j \in 1 .. n : new[block[j]] = MovedPlace(k, n, j, t, first)
      /\ \A b \in Applets \ ToSet(block) :
           IF first /\ b \in ToSet(list) /\ pos[b].type = t
           THEN new[b] = [type |-> t, index |-> pos[b].index + n]
           ELSE new[b] = pos[b]
  BY <1>1, <1>4, BlockMovedIs
<1>6. k \in Nat /\ \A b \in ToSet(list) : pos[b].type = t => pos[b].index < k
  BY NewPackIndexIs
<1>7. \A i \in DOMAIN list : /\ pos[list[i]] \in AnyPosition /\ new[list[i]] \in AnyPosition
                             /\ pos[list[i]].type \in PackTypes /\ pos[list[i]].index >= 0
                             /\ pos[list[i]].index \in Int
  BY <1>2, <1>5 DEF HasPositions, InPacks, AnyPosition
<1>8. \A i, j \in DOMAIN list : i < j => Ordered(pos[list[i]], pos[list[j]])
  <2> SUFFICES ASSUME NEW i \in DOMAIN list, NEW j \in DOMAIN list, i < j
               PROVE  Ordered(pos[list[i]], pos[list[j]])
    OBVIOUS
  <2>1. Compare(pos[list[i]], pos[list[j]]) <= 0 BY DEF SortedBy
  <2> QED BY <1>7, <2>1, CompareIs
<1>9. block[1] \in ToSet(block)
  <2>1. DOMAIN block = 1 .. n /\ 1 \in 1 .. n BY <1>1, <1>2, <1>3
  <2> QED BY <2>1 DEF ToSet
<1>10. first <=> t = CENTER /\ s = START
  <2>1. pos[block[1]].type = s BY <1>1, <1>3, <1>9
  <2>2. first <=> t = CENTER /\ pos[block[1]].type = START BY DEF BlockIndex
  <2> QED BY <2>1, <2>2
<1>11. \/ /\ t = s + 1
          /\ hi + 1 \in DOMAIN list => pos[list[hi + 1]].type # s
          /\ \A j \in 1 .. n : block[j] = list[hi + 1 - j]
       \/ /\ t = s - 1
          /\ lo - 1 \in DOMAIN list => pos[list[lo - 1]].type # s
          /\ \A j \in 1 .. n : block[j] = list[lo - 1 + j]
  BY <1>3 DEF AtBorder
<1>12. s \in PackTypes /\ PackTypes = {0, 1, 2} /\ START = 0 /\ CENTER = 1 /\ END = 2
  BY <1>3, <1>7 DEF PackTypes, START, CENTER, END
<1> HIDE DEF list, pos, new, n, k, s, first
<1>13. \A i \in DOMAIN list : i < lo => pos[list[i]].type <= s /\ (t = s - 1 => pos[list[i]].type < s)
  <2> SUFFICES ASSUME NEW i \in DOMAIN list, i < lo
               PROVE  pos[list[i]].type <= s /\ (t = s - 1 => pos[list[i]].type < s)
    OBVIOUS
  <2>1. pos[list[lo]].type = s /\ Ordered(pos[list[i]], pos[list[lo]])
    BY <1>2, <1>3, <1>8
  <2>2. pos[list[i]].type <= s BY <1>7, <1>12, <2>1
  <2>3. ASSUME t = s - 1 PROVE pos[list[i]].type < s
    <3>1. lo - 1 \in DOMAIN list BY <1>2, <1>3
    <3>2. pos[list[lo - 1]].type # s BY <1>11, <1>12, <2>3, <3>1
    <3>3. Ordered(pos[list[lo - 1]], pos[list[lo]]) BY <1>2, <1>3, <1>8, <3>1
    <3>4. pos[list[lo - 1]].type < s BY <1>7, <1>12, <2>1, <3>1, <3>2, <3>3
    <3>5. i = lo - 1 \/ Ordered(pos[list[i]], pos[list[lo - 1]]) BY <1>2, <1>3, <1>8, <3>1
    <3> QED BY <1>7, <1>12, <3>1, <3>4, <3>5
  <2> QED BY <2>2, <2>3
<1>14. \A i \in DOMAIN list : i > hi => pos[list[i]].type >= s /\ (t = s + 1 => pos[list[i]].type > s)
  <2> SUFFICES ASSUME NEW i \in DOMAIN list, i > hi
               PROVE  pos[list[i]].type >= s /\ (t = s + 1 => pos[list[i]].type > s)
    OBVIOUS
  <2>1. pos[list[hi]].type = s /\ Ordered(pos[list[hi]], pos[list[i]])
    BY <1>2, <1>3, <1>8
  <2>2. pos[list[i]].type >= s BY <1>7, <1>12, <2>1
  <2>3. ASSUME t = s + 1 PROVE pos[list[i]].type > s
    <3>1. hi + 1 \in DOMAIN list BY <1>2, <1>3
    <3>2. pos[list[hi + 1]].type # s BY <1>11, <1>12, <2>3, <3>1
    <3>3. Ordered(pos[list[hi]], pos[list[hi + 1]]) BY <1>2, <1>3, <1>8, <3>1
    <3>4. pos[list[hi + 1]].type > s BY <1>7, <1>12, <2>1, <3>1, <3>2, <3>3
    <3>5. i = hi + 1 \/ Ordered(pos[list[hi + 1]], pos[list[i]]) BY <1>2, <1>3, <1>8, <3>1
    <3> QED BY <1>7, <1>12, <3>1, <3>4, <3>5
  <2> QED BY <2>2, <2>3
\* Where the applets of the block are now.
<1> DEFINE At(i) == IF t = s + 1 THEN hi + 1 - i ELSE i - lo + 1
<1>15. \A i \in lo .. hi :
         /\ At(i) \in 1 .. n /\ new[list[i]].type = t
         /\ t = 1 /\ s = 0 => new[list[i]].index = n - At(i)
         /\ ~(t = 1 /\ s = 0) => new[list[i]].index = k + At(i) - 1
  <2> TAKE i \in lo .. hi
  <2>1. At(i) \in 1 .. n BY <1>2, <1>3
  <2>2. block[At(i)] = list[i]
    <3>1. CASE t = s + 1
      <4>1. At(i) = hi + 1 - i /\ hi + 1 - (hi + 1 - i) = i BY <1>2, <1>3, <3>1
      <4> HIDE DEF At
      <4>2. block[At(i)] = list[hi + 1 - At(i)] BY <1>11, <1>12, <2>1, <3>1
      <4> QED BY <4>1, <4>2
    <3>2. CASE t # s + 1
      <4>1. At(i) = i - lo + 1 /\ lo - 1 + (i - lo + 1) = i BY <1>2, <1>3, <3>2
      <4> HIDE DEF At
      <4>2. block[At(i)] = list[lo - 1 + At(i)] BY <1>11, <2>1, <3>2
      <4> QED BY <4>1, <4>2
    <3> QED BY <3>1, <3>2
  <2> HIDE DEF At
  <2>3. new[list[i]] = MovedPlace(k, n, At(i), t, first) BY <1>5, <2>1, <2>2
  <2>4. CASE first
    <3>1. new[list[i]] = [type |-> t, index |-> n - At(i)] BY <2>3, <2>4 DEF MovedPlace
    <3> QED BY <1>10, <1>12, <2>1, <2>4, <3>1
  <2>5. CASE ~first
    <3>1. new[list[i]] = [type |-> t, index |-> k + At(i) - 1] BY <2>3, <2>5 DEF MovedPlace
    <3> QED BY <1>10, <1>12, <2>1, <2>5, <3>1
  <2> QED BY <2>4, <2>5
\* Where the others are.
<1>16. \A i \in DOMAIN list : i < lo \/ i > hi =>
         /\ new[list[i]].type = pos[list[i]].type
         /\ t = 1 /\ s = 0 /\ pos[list[i]].type = t => new[list[i]].index = pos[list[i]].index + n
         /\ ~(t = 1 /\ s = 0 /\ pos[list[i]].type = t) => new[list[i]].index = pos[list[i]].index
  <2> SUFFICES ASSUME NEW i \in DOMAIN list, i < lo \/ i > hi
               PROVE  /\ new[list[i]].type = pos[list[i]].type
                      /\ t = 1 /\ s = 0 /\ pos[list[i]].type = t =>
                           new[list[i]].index = pos[list[i]].index + n
                      /\ ~(t = 1 /\ s = 0 /\ pos[list[i]].type = t) =>
                           new[list[i]].index = pos[list[i]].index
    OBVIOUS
  <2>1. list[i] \notin ToSet(block)
    <3>1. \A j \in lo .. hi : j \in DOMAIN list /\ j # i BY <1>2, <1>3
    <3> QED BY <1>1, <1>2, <3>1
  <2>2. list[i] \in ToSet(list) /\ list[i] \in Applets BY <1>2
  <2>3. CASE first /\ pos[list[i]].type = t
    <3>1. new[list[i]] = [type |-> t, index |-> pos[list[i]].index + n] BY <1>5, <2>1, <2>2, <2>3
    <3> QED BY <1>10, <1>12, <2>3, <3>1
  <2>4. CASE ~(first /\ pos[list[i]].type = t)
    <3>1. new[list[i]] = pos[list[i]] BY <1>5, <2>1, <2>2, <2>4
    <3> QED BY <1>10, <1>12, <2>4, <3>1
  <2> QED BY <2>3, <2>4
<1>17. n \in Nat /\ n > 0 /\ lo \in Int /\ hi \in Int BY <1>2, <1>3
<1>18. ASSUME NEW i \in DOMAIN list, NEW j \in DOMAIN list, i < j
       PROVE  Ordered(new[list[i]], new[list[j]])
  <2> DEFINE x == pos[list[i]]
             y == pos[list[j]]
             x1 == new[list[i]]
             y1 == new[list[j]]
  <2>1. /\ x.type \in PackTypes /\ y.type \in PackTypes /\ x.index \in Int /\ y.index \in Int
        /\ x.index >= 0 /\ y.index >= 0 /\ Ordered(x, y)
        /\ x.type = t => x.index < k
        /\ y.type = t => y.index < k
        /\ i \in Int /\ j \in Int
    BY <1>2, <1>6, <1>7, <1>8, <1>18
  <2>2. i \in lo .. hi => /\ At(i) \in 1 .. n /\ x1.type = t
                          /\ t = 1 /\ s = 0 => x1.index = n - At(i)
                          /\ ~(t = 1 /\ s = 0) => x1.index = k + At(i) - 1
    BY <1>15
  <2>3. j \in lo .. hi => /\ At(j) \in 1 .. n /\ y1.type = t
                          /\ t = 1 /\ s = 0 => y1.index = n - At(j)
                          /\ ~(t = 1 /\ s = 0) => y1.index = k + At(j) - 1
    BY <1>15
  <2>4. i < lo \/ i > hi => /\ x1.type = x.type
                            /\ t = 1 /\ s = 0 /\ x.type = t => x1.index = x.index + n
                            /\ ~(t = 1 /\ s = 0 /\ x.type = t) => x1.index = x.index
    BY <1>16
  <2>5. j < lo \/ j > hi => /\ y1.type = y.type
                            /\ t = 1 /\ s = 0 /\ y.type = t => y1.index = y.index + n
                            /\ ~(t = 1 /\ s = 0 /\ y.type = t) => y1.index = y.index
    BY <1>16
  <2>6. /\ i < lo => x.type <= s /\ (t = s - 1 => x.type < s)
        /\ j > hi => y.type >= s /\ (t = s + 1 => y.type > s)
    BY <1>13, <1>14
  <2>7. t = s + 1 \/ t = s - 1 BY <1>11
  <2>8. t \in {0, 1, 2} /\ s \in {0, 1, 2} BY <1>12
  <2>9. x.type \in {0, 1, 2} /\ y.type \in {0, 1, 2} BY <1>12, <2>1
  <2> HIDE DEF x, y, x1, y1
  <2> SUFFICES Ordered(x1, y1) BY DEF x1, y1
  <2>10. CASE (i < lo \/ i > hi) /\ (j < lo \/ j > hi)
    <3>1. /\ x1.type = x.type /\ y1.type = y.type
          /\ t = 1 /\ s = 0 /\ x.type = t => x1.index = x.index + n
          /\ ~(t = 1 /\ s = 0 /\ x.type = t) => x1.index = x.index
          /\ t = 1 /\ s = 0 /\ y.type = t => y1.index = y.index + n
          /\ ~(t = 1 /\ s = 0 /\ y.type = t) => y1.index = y.index
      BY <2>4, <2>5, <2>10
    <3>2. CASE x.type = y.type
      <4>1. x.index <= y.index => x1.index <= y1.index BY <1>17, <2>1, <3>1, <3>2
      <4>2. y.index <= x.index => y1.index <= x1.index BY <1>17, <2>1, <3>1, <3>2
      <4> QED BY <1>12, <2>1, <3>1, <3>2, <4>1, <4>2
    <3>3. CASE x.type # y.type BY <2>1, <2>9, <3>1, <3>3
    <3> QED BY <3>2, <3>3
  <2>11. CASE i \in lo .. hi /\ j \in lo .. hi
    <3>1. IF t = s + 1 THEN At(j) < At(i) ELSE At(i) < At(j) BY <1>17, <1>18, <2>1
    <3> HIDE DEF At
    <3> QED BY <1>6, <1>12, <1>17, <2>2, <2>3, <2>7, <2>8, <2>11, <3>1
  <2>12. CASE i < lo /\ j \in lo .. hi
    <3> HIDE DEF At
    <3> QED BY <1>6, <1>12, <1>17, <2>1, <2>3, <2>4, <2>6, <2>7, <2>8, <2>9, <2>12
  <2>13. CASE i \in lo .. hi /\ j > hi
    <3> HIDE DEF At
    <3> QED BY <1>6, <1>12, <1>17, <2>1, <2>2, <2>5, <2>6, <2>7, <2>8, <2>9, <2>13
  <2> HIDE DEF Ordered
  <2> QED BY <1>3, <1>17, <1>18, <2>1, <2>10, <2>11, <2>12, <2>13
<1>19. ASSUME NEW i \in DOMAIN list, NEW j \in DOMAIN list, i < j
       PROVE  Compare(new[list[i]], new[list[j]]) <= 0
  BY <1>7, <1>18, <1>19, CompareIs
<1>20. SortedBy(list, new) BY <1>19 DEF SortedBy
<1> QED BY <1>20 DEF list, new

-----------------------------------------------------------------------------
(***************************************************************************)
(* The inductive invariant.                                                *)
(***************************************************************************)
\* An applet is on one panel, once.
ListsAre(lists) ==
  /\ lists \in [PanelSet -> Seq(Applets)]
  /\ \A p \in PanelSet : IsList(lists[p])
  /\ \A p, q \in PanelSet : p # q => ToSet(lists[p]) \intersect ToSet(lists[q]) = {}

\* Whom a panel drags is on it, and only one panel drags.
DragsAre(drags, flag, lists) ==
  /\ \A p \in PanelSet : drags[p] # None => drags[p] \in ToSet(lists[p])
  /\ flag <=> \E p \in PanelSet : drags[p] # None
  /\ \A p, q \in PanelSet : drags[p] # None /\ drags[q] # None => p = q

Inv == TypeOK /\ ListsAre(appletList) /\ StoredAsShown /\ DragIsOfShown

\* All that is shown has a position, and nothing else.
Placed(pos) ==
  /\ pos \in [Applets -> AnyPosition \union {None}]
  /\ \A a \in Applets : (pos[a] \in AnyPosition) <=> (a \in Shown)

PanelIn(lists, a) == CHOOSE p \in PanelSet : Contains(lists[p], a)

LEMMA PanelInIs ==
  ASSUME NEW lists, ListsAre(lists), NEW p \in PanelSet, NEW a \in ToSet(lists[p])
  PROVE  PanelIn(lists, a) = p
<1>1. \A q \in PanelSet : Contains(lists[q], a) <=> a \in ToSet(lists[q])
  BY ContainsIs DEF ListsAre
<1>2. \A q \in PanelSet : Contains(lists[q], a) <=> q = p BY <1>1 DEF ListsAre
<1> QED BY <1>2 DEF PanelIn

LEMMA InvFacts ==
  ASSUME Inv
  PROVE  /\ Placed(position)
         /\ \A a \in Shown : position[a] \in Positions /\ position[a].type \in PackTypes
                             /\ position[a].index \in Nat /\ a \in Applets
         /\ \A p \in PanelSet : ToSet(appletList[p]) \subseteq Shown
         /\ \A a \in Shown : /\ PanelOf(a) \in PanelSet /\ a \in ToSet(appletList[PanelOf(a)])
                             /\ \A p \in PanelSet : a \in ToSet(appletList[p]) => p = PanelOf(a)
         /\ DragsAre(dragged, inDrag, appletList)
<1>1. \A p \in PanelSet : ToSet(appletList[p]) \subseteq Shown BY DEF Shown
<1>2. \A a \in Shown : a \in Applets /\ \E p \in PanelSet : a \in ToSet(appletList[p])
  BY DEF Shown, Inv, ListsAre, IsList, ToSet
<1>3. /\ position \in [Applets -> Positions \union {None}]
      /\ \A a \in Applets : (position[a] # None) <=> (a \in Shown)
  BY DEF Inv, TypeOK
<1>4. Positions \subseteq AnyPosition
  BY BoundAssumption DEF Positions, AnyPosition, PackTypes, START, END
<1>5. \A a \in Shown : position[a] \in Positions BY <1>2, <1>3
<1>6. Placed(position)
  <2>1. position \in [Applets -> AnyPosition \union {None}] BY <1>3, <1>4
  <2>2. \A a \in Applets : (position[a] \in AnyPosition) <=> (a \in Shown)
    BY <1>2, <1>3, <1>4, <1>5, NoneIsNoPosition
  <2> QED BY <2>1, <2>2 DEF Placed
<1>7. \A x \in Positions : x.type \in PackTypes /\ x.index \in Nat BY BoundAssumption DEF Positions
<1>8. \A a \in Shown : PanelOf(a) = PanelIn(appletList, a) BY DEF PanelOf, PanelIn
<1>9. \A a \in Shown : \A p \in PanelSet : a \in ToSet(appletList[p]) => p = PanelOf(a)
  BY <1>8, PanelInIs DEF Inv
<1>10. \A a \in Shown : PanelOf(a) \in PanelSet /\ a \in ToSet(appletList[PanelOf(a)])
  BY <1>2, <1>9
<1>11. \A p \in PanelSet : Contains(appletList[p], dragged[p]) <=> dragged[p] \in ToSet(appletList[p])
  BY ContainsIs DEF Inv, ListsAre
<1>12. DragsAre(dragged, inDrag, appletList) BY <1>11 DEF Inv, DragIsOfShown, DragsAre
<1> QED BY <1>1, <1>2, <1>5, <1>6, <1>7, <1>9, <1>10, <1>12

LEMMA PlacedIs ==
  ASSUME Inv, NEW p \in PanelSet, NEW pos, Placed(pos)
  PROVE  IsList(appletList[p]) /\ HasPositions(appletList[p], pos)
BY InvFacts DEF Placed, HasPositions, Inv, ListsAre

\* What keeps the invariant.
LEMMA InvKept ==
  ASSUME ListsAre(appletList'),
         position' \in [Applets -> Positions \union {None}],
         \A a \in Applets : (position'[a] # None) <=> (a \in Shown'),
         dragged' \in [PanelSet -> Applets \union {None}], inDrag' \in BOOLEAN,
         DragsAre(dragged', inDrag', appletList'),
         queued' \subseteq Shown',
         stored' \in [Applets -> Places \union {None}], edits' \in 0 .. MaxEdits,
         \A p \in PanelSet : \A a \in ToSet(appletList'[p]) \ queued' :
           stored'[a] = [panel |-> p, type |-> position'[a].type, index |-> position'[a].index]
  PROVE  Inv'
<1>1. TypeOK' BY DEF TypeOK, ListsAre
<1>2. ASSUME NEW a \in Shown' \ queued'
      PROVE  stored'[a] = [panel |-> PanelOf(a)', type |-> position'[a].type,
                           index |-> position'[a].index]
  <2>1. PICK p \in PanelSet : a \in ToSet(appletList'[p]) BY DEF Shown
  <2>2. PanelIn(appletList', a) = p BY <2>1, PanelInIs
  <2>3. PanelOf(a)' = p BY <2>2 DEF PanelOf, PanelIn
  <2> QED BY <2>1, <2>3
<1>3. StoredAsShown' BY <1>2 DEF StoredAsShown
<1>4. \A p \in PanelSet : Contains(appletList'[p], dragged'[p]) <=> dragged'[p] \in ToSet(appletList'[p])
  BY ContainsIs DEF ListsAre
<1>5. DragIsOfShown' BY <1>4 DEF DragIsOfShown, DragsAre
<1> QED BY <1>1, <1>3, <1>5 DEF Inv

\* Steps after which every panel shows the same applets.
LEMMA SameShownKept ==
  ASSUME Inv, ListsAre(appletList'),
         \A p \in PanelSet : ToSet(appletList'[p]) = ToSet(appletList[p]),
         position' \in [Applets -> Positions \union {None}], Placed(position'),
         dragged' \in [PanelSet -> Applets \union {None}], inDrag' \in BOOLEAN,
         DragsAre(dragged', inDrag', appletList),
         queued \subseteq queued', queued' \subseteq Shown,
         \A a \in Shown \ queued' : position'[a] = position[a],
         UNCHANGED stored, edits' \in 0 .. MaxEdits
  PROVE  Inv'
<1>1. Shown' = Shown BY DEF Shown
<1>2. \A a \in Applets : (position'[a] # None) <=> (a \in Shown')
  BY <1>1, NoneIsNoPosition DEF Placed
<1>3. DragsAre(dragged', inDrag', appletList') BY DEF DragsAre
<1>4. stored' \in [Applets -> Places \union {None}] BY DEF Inv, TypeOK
<1>5. ASSUME NEW p \in PanelSet, NEW a \in ToSet(appletList'[p]) \ queued'
      PROVE  stored'[a] = [panel |-> p, type |-> position'[a].type, index |-> position'[a].index]
  <2>1. a \in Shown \ queued /\ p = PanelOf(a) /\ position'[a] = position[a] BY InvFacts
  <2> QED BY <2>1 DEF Inv, StoredAsShown
<1> QED BY <1>1, <1>2, <1>3, <1>4, <1>5, InvKept

\* Counting a panel's indexes again.
LEMMA PlacedCompressed ==
  ASSUME Inv, NEW p \in PanelSet, NEW pos, Placed(pos)
  PROVE  LET new == Compressed(appletList[p], pos)
             emits == CompressEmits(appletList[p], pos)
         IN  /\ Placed(new) /\ emits \subseteq ToSet(appletList[p])
             /\ \A a \in Applets \ emits : new[a] = pos[a]
             /\ \A a \in Applets : new[a] # None => new[a].type = pos[a].type
<1> DEFINE new == Compressed(appletList[p], pos)
           emits == CompressEmits(appletList[p], pos)
<1>1. /\ new \in [Applets -> AnyPosition \union {None}]
      /\ \A a \in Applets \ ToSet(appletList[p]) : new[a] = pos[a]
      /\ \A a \in ToSet(appletList[p]) : new[a] \in AnyPosition /\ new[a].type = pos[a].type
  BY PlacedIs, CompressedIs
<1>2. emits = {a \in Applets : new[a] # pos[a]} BY DEF CompressEmits
<1>3. ToSet(appletList[p]) \subseteq Shown BY InvFacts
<1> HIDE DEF new, emits
<1>4. Placed(new) BY <1>1, <1>3 DEF Placed
<1> QED BY <1>1, <1>2, <1>4 DEF new, emits

LEMMA CompressedPositions ==
  ASSUME Inv, NEW p \in PanelSet
  PROVE  /\ Compressed(appletList[p], position) \in [Applets -> Positions \union {None}]
         /\ Placed(Compressed(appletList[p], position))
         /\ CompressEmits(appletList[p], position) \subseteq Shown
         /\ \A a \in Applets \ CompressEmits(appletList[p], position) :
              Compressed(appletList[p], position)[a] = position[a]
<1>1. Placed(position) /\ ToSet(appletList[p]) \subseteq Shown BY InvFacts
<1>2. position \in [Applets -> Positions \union {None}] BY DEF Inv, TypeOK
<1>3. Compressed(appletList[p], position) \in [Applets -> Positions \union {None}]
  BY <1>1, <1>2, PlacedIs, CompressedIs
<1> QED BY <1>1, <1>3, PlacedCompressed

LEMMA SameLists ==
  ASSUME Inv, UNCHANGED appletList
  PROVE  ListsAre(appletList') /\ \A p \in PanelSet : ToSet(appletList'[p]) = ToSet(appletList[p])
BY DEF Inv

LEMMA EditsCount ==
  ASSUME Inv, Edit
  PROVE  edits' \in 0 .. MaxEdits /\ position' \in [Applets -> Positions \union {None}]
<1>1. edits \in 0 .. MaxEdits BY DEF Inv, TypeOK
<1>2. edits < MaxEdits /\ edits' = edits + 1 BY DEF Edit
<1>3. position' \in [Applets -> Positions \union {None}] BY DEF Edit
<1> QED BY <1>1, <1>2, <1>3, BoundAssumption

LEMMA CreateInv ==
  ASSUME Inv, NEW a \in Applets, NEW p \in PanelSet, NEW t \in {START, END}, Create(a, p, t)
  PROVE  Inv'
<1> DEFINE index == NewPackIndex(appletList[p], position, t)
<1>1. /\ stored[a] = None /\ a \notin Shown /\ index <= MaxIndex
      /\ stored' = [stored EXCEPT ![a] = [panel |-> p, type |-> t, index |-> index]]
      /\ UNCHANGED <<appletList, position, dragged, inDrag, queued>>
  BY DEF Create
<1>1a. Edit BY DEF Create
<1>2. index \in Nat BY InvFacts, PlacedIs, NewPackIndexIs
<1> HIDE DEF index
<1>3. /\ stored \in [Applets -> Places \union {None}] /\ queued \subseteq Shown
      /\ dragged \in [PanelSet -> Applets \union {None}] /\ inDrag \in BOOLEAN
      /\ \A b \in Applets : (position[b] # None) <=> (b \in Shown)
  BY DEF Inv, TypeOK
<1>4. stored' \in [Applets -> Places \union {None}]
  <2>1. t \in PackTypes BY DEF PackTypes, START, END
  <2>2. index \in 0 .. MaxIndex BY <1>1, <1>2, BoundAssumption
  <2>3. [panel |-> p, type |-> t, index |-> index] \in Places BY <2>1, <2>2 DEF Places
  <2> QED BY <1>1, <1>3, <2>3
<1>5. Shown' = Shown BY <1>1 DEF Shown
<1>6. ASSUME NEW q \in PanelSet, NEW b \in ToSet(appletList'[q]) \ queued'
      PROVE  stored'[b] = [panel |-> q, type |-> position'[b].type, index |-> position'[b].index]
  <2>1. b \in Shown \ queued /\ q = PanelOf(b) /\ b # a BY <1>1, <1>3, InvFacts
  <2>2. stored'[b] = stored[b] BY <1>1, <1>3, <2>1
  <2> QED BY <1>1, <2>1, <2>2 DEF Inv, StoredAsShown
<1>7. ListsAre(appletList') /\ DragsAre(dragged', inDrag', appletList')
  BY <1>1, InvFacts DEF Inv
<1> QED BY <1>1, <1>1a, <1>3, <1>4, <1>5, <1>6, <1>7, EditsCount, InvKept

LEMMA DragStartInv ==
  ASSUME Inv, NEW p \in PanelSet, NEW a \in Applets, NEW grabbed \in BOOLEAN, DragStart(p, a, grabbed)
  PROVE  Inv'
<1>1. /\ Idle /\ Contains(appletList[p], a) /\ UNCHANGED <<appletList, stored>>
  BY DEF DragStart
<1>2. Edit BY DEF DragStart
<1>3. a \in ToSet(appletList[p]) BY <1>1, ContainsIs DEF Inv, ListsAre
<1>4. /\ queued \subseteq Shown /\ dragged \in [PanelSet -> Applets \union {None}]
      /\ inDrag \in BOOLEAN
  BY DEF Inv, TypeOK
<1>5. Placed(position) /\ DragsAre(dragged, inDrag, appletList) BY InvFacts
<1>6. CASE grabbed
  <2>1. /\ dragged' = [dragged EXCEPT ![p] = a] /\ inDrag' = TRUE
        /\ UNCHANGED <<position, queued>>
    BY <1>6 DEF DragStart
  <2>2. \A q \in PanelSet : dragged[q] = None BY <1>1, <1>5 DEF Idle, DragsAre
  <2>3. \A q \in PanelSet : dragged'[q] # None <=> q = p
    BY <1>4, <2>1, <2>2, SentinelAssumption
  <2>4. DragsAre(dragged', inDrag', appletList) BY <1>3, <1>4, <2>1, <2>3 DEF DragsAre
  <2>5. dragged' \in [PanelSet -> Applets \union {None}] BY <1>4, <2>1
  <2> QED BY <1>1, <1>2, <1>4, <1>5, <2>1, <2>4, <2>5, EditsCount, SameLists, SameShownKept
<1>7. CASE ~grabbed
  <2>1. /\ position' = Compressed(appletList[p], position)
        /\ queued' = queued \union CompressEmits(appletList[p], position)
        /\ UNCHANGED <<dragged, inDrag>>
    BY <1>7 DEF DragStart
  <2>2. /\ position' \in [Applets -> Positions \union {None}] /\ Placed(position')
        /\ CompressEmits(appletList[p], position) \subseteq Shown
        /\ \A b \in Applets \ queued' : position'[b] = position[b]
    BY <2>1, CompressedPositions
  <2>3. \A b \in Shown : b \in Applets BY InvFacts
  <2>4. dragged' = dragged /\ inDrag' = inDrag /\ queued \subseteq queued' /\ queued' \subseteq Shown
    BY <1>4, <2>1, <2>2
  <2> QED BY <1>1, <1>2, <1>4, <1>5, <2>2, <2>3, <2>4, EditsCount, SameLists, SameShownKept
<1> QED BY <1>6, <1>7

LEMMA DragEndInv ==
  ASSUME Inv, NEW p \in PanelSet, DragEnd(p)
  PROVE  Inv'
<1>1. /\ dragged[p] # None /\ dragged' = [dragged EXCEPT ![p] = None] /\ inDrag' = FALSE
      /\ position' = Compressed(appletList[p], position)
      /\ queued' = queued \union CompressEmits(appletList[p], position)
      /\ UNCHANGED <<appletList, stored, edits>>
  BY DEF DragEnd
<1>2. /\ queued \subseteq Shown /\ dragged \in [PanelSet -> Applets \union {None}]
      /\ inDrag \in BOOLEAN /\ edits \in 0 .. MaxEdits
  BY DEF Inv, TypeOK
<1>3. /\ position' \in [Applets -> Positions \union {None}] /\ Placed(position')
      /\ CompressEmits(appletList[p], position) \subseteq Shown
      /\ \A b \in Applets \ queued' : position'[b] = position[b]
  BY <1>1, CompressedPositions
<1>4. \A b \in Shown : b \in Applets BY InvFacts
<1>5. DragsAre(dragged, inDrag, appletList) BY InvFacts
<1>6. \A q \in PanelSet : dragged'[q] = None BY <1>1, <1>2, <1>5 DEF DragsAre
<1>7. DragsAre(dragged', inDrag', appletList) BY <1>1, <1>6 DEF DragsAre
<1>8. dragged' \in [PanelSet -> Applets \union {None}] /\ edits' \in 0 .. MaxEdits BY <1>1, <1>2
<1>9. queued \subseteq queued' /\ queued' \subseteq Shown BY <1>1, <1>2, <1>3
<1> QED BY <1>1, <1>3, <1>4, <1>7, <1>8, <1>9, SameLists, SameShownKept

LEMMA CrossRefusedInv ==
  ASSUME Inv, NEW p \in PanelSet, CrossRefused(p)
  PROVE  Inv'
<1>1. /\ position' = Compressed(appletList[p], position)
      /\ queued' = queued \union CompressEmits(appletList[p], position)
      /\ UNCHANGED <<appletList, dragged, inDrag, stored, edits>>
  BY DEF CrossRefused
<1>2. /\ queued \subseteq Shown /\ dragged \in [PanelSet -> Applets \union {None}]
      /\ inDrag \in BOOLEAN /\ edits \in 0 .. MaxEdits
  BY DEF Inv, TypeOK
<1>3. /\ position' \in [Applets -> Positions \union {None}] /\ Placed(position')
      /\ CompressEmits(appletList[p], position) \subseteq Shown
      /\ \A b \in Applets \ queued' : position'[b] = position[b]
  BY <1>1, CompressedPositions
<1>4. \A b \in Shown : b \in Applets BY InvFacts
<1>5. DragsAre(dragged', inDrag', appletList) BY <1>1, InvFacts
<1>6. queued \subseteq queued' /\ queued' \subseteq Shown BY <1>1, <1>2, <1>3
<1> QED BY <1>1, <1>2, <1>3, <1>4, <1>5, <1>6, SameLists, SameShownKept

-----------------------------------------------------------------------------
(***************************************************************************)
(* The steps of a drag on one panel: two neighbours of a pack change       *)
(* places, or a block at the border of its pack leaves it.                 *)
(***************************************************************************)
Swapping(p) ==
  \E i, j \in DOMAIN appletList[p] : SamePack(appletList[p], i, j) /\ Swap(p, i, j)

Leaving(p) ==
  \E block, lo, hi, t :
    AtBorder(appletList[p], position, block, lo, hi, t) /\ MoveBlock(p, block, t)

LEMMA DraggedIs ==
  ASSUME Inv, NEW p \in PanelSet, dragged[p] # None
  PROVE  LET list == appletList[p]
             i == IndexIn(list, dragged[p])
         IN  /\ i \in 1 .. Len(list) /\ list[i] = dragged[p]
             /\ DOMAIN list = 1 .. Len(list) /\ Len(list) \in Nat
             /\ list \in Seq(Applets)
             /\ \A j \in DOMAIN list : /\ position[list[j]].type \in PackTypes
                                       /\ position[list[j]].type \in Int
<1>1. IsList(appletList[p]) BY DEF Inv, ListsAre
<1>2. dragged[p] \in ToSet(appletList[p]) BY InvFacts DEF DragsAre
<1>3. \A j \in DOMAIN appletList[p] : appletList[p][j] \in Shown
  BY InvFacts DEF ToSet
<1>4. \A x \in PackTypes : x \in Int BY DEF PackTypes, START, END
<1>5. /\ DOMAIN appletList[p] = 1 .. Len(appletList[p]) /\ Len(appletList[p]) \in Nat
      /\ appletList[p] \in Seq(Applets)
  BY <1>1 DEF IsList
<1>6. \A j \in DOMAIN appletList[p] : position[appletList[p][j]].type \in PackTypes
  BY <1>3, InvFacts
<1> QED BY <1>1, <1>2, <1>4, <1>5, <1>6, IndexInIs

LEMMA SingleAtBorder ==
  ASSUME Inv, NEW p \in PanelSet, NEW i \in DOMAIN appletList[p], NEW t,
         \/ /\ t = position[appletList[p][i]].type + 1
            /\ ~SamePack(appletList[p], i, i + 1)
         \/ /\ t = position[appletList[p][i]].type - 1
            /\ ~SamePack(appletList[p], i, i - 1)
  PROVE  AtBorder(appletList[p], position, <<appletList[p][i]>>, i, i, t)
<1> DEFINE list == appletList[p]
           block == <<list[i]>>
<1>1. i \in Nat /\ list[i] \in Applets BY DEF Inv, ListsAre, IsList
<1>2. block \in Seq(Applets) /\ Len(block) = 1 /\ block[1] = list[i] BY <1>1
<1>3. \A k \in i .. i : k = i BY <1>1
<1>4. \A j \in 1 .. i - i + 1 : j = 1 BY <1>1
<1>5. i - i + 1 = 1 /\ i + 1 - 1 = i /\ i - 1 + 1 = i /\ i <= i BY <1>1
<1> HIDE DEF list, block
<1>6. /\ i + 1 \in DOMAIN list /\ position[list[i + 1]].type = position[list[i]].type =>
           SamePack(list, i, i + 1)
      /\ i - 1 \in DOMAIN list /\ position[list[i - 1]].type = position[list[i]].type =>
           SamePack(list, i, i - 1)
  BY DEF SamePack
<1>7. \A j \in 1 .. i - i + 1 : block[j] = list[i + 1 - j] /\ block[j] = list[i - 1 + j]
  BY <1>2, <1>4, <1>5
<1> QED BY <1>2, <1>3, <1>5, <1>6, <1>7 DEF AtBorder, list, block

LEMMA ReversedIs ==
  ASSUME NEW S, NEW s \in Seq(S)
  PROVE  /\ Reverse(s) \in Seq(S) /\ Len(Reverse(s)) = Len(s)
         /\ \A j \in 1 .. Len(s) : Reverse(s)[j] = s[Len(s) - j + 1]
<1> DEFINE n == Len(s)
           r == [i \in 1 .. n |-> s[n - i + 1]]
<1>1. Reverse(s) = r BY DEF Reverse
<1>2. n \in Nat /\ \A i \in 1 .. n : n - i + 1 \in 1 .. n OBVIOUS
<1>3. r \in Seq(S) /\ Len(r) = n BY <1>2
<1> QED BY <1>1, <1>2, <1>3

LEMMA PushRightBlock ==
  ASSUME Inv, NEW p \in PanelSet, NEW i \in DOMAIN appletList[p]
  PROVE  LET list == appletList[p]
             last == Max({j \in i .. Len(list) : \A k \in i .. j : SamePack(list, i, k)})
         IN  AtBorder(list, position, Reverse(SubSeq(list, i, last)), i, last,
                      position[list[i]].type + 1)
<1> DEFINE list == appletList[p]
           runs == {j \in i .. Len(list) : \A k \in i .. j : SamePack(list, i, k)}
           last == Max(runs)
           piece == SubSeq(list, i, last)
           block == Reverse(piece)
           s == position[list[i]].type
<1>1. list \in Seq(Applets) /\ DOMAIN list = 1 .. Len(list) /\ Len(list) \in Nat
  BY DEF Inv, ListsAre, IsList
<1>2. \A k : SamePack(list, i, k) <=> k \in DOMAIN list /\ position[list[k]].type = s
  BY DEF SamePack
<1>3. last \in runs /\ \A j \in runs : last >= j
  <2>1. i \in runs
    <3>1. \A k \in i .. i : k = i BY <1>1
    <3>2. SamePack(list, i, i) BY <1>2
    <3> QED BY <1>1, <3>1, <3>2
  <2>2. runs \in SUBSET Int /\ runs # {} /\ Len(list) \in Int /\ \A j \in runs : j <= Len(list)
    BY <1>1, <2>1
  <2> HIDE DEF runs, list
  <2> QED BY <2>2, MaxInSet
<1>4. /\ last \in i .. Len(list) /\ \A k \in i .. last : SamePack(list, i, k)
      /\ \A j \in i .. Len(list) : (\A k \in i .. j : SamePack(list, i, k)) => j <= last
  <2> HIDE DEF last
  <2> QED BY <1>3, <1>1
<1>4a. i \in 1 .. Len(list) BY <1>1
<1> HIDE DEF list, runs, last, s
<1>5. last + 1 \in DOMAIN list => position[list[last + 1]].type # s
  <2> SUFFICES ASSUME last + 1 \in DOMAIN list, position[list[last + 1]].type = s PROVE FALSE
    OBVIOUS
  <2>1. last + 1 \in i .. Len(list) BY <1>1, <1>4, <1>4a
  <2>2. \A k \in i .. last + 1 : k \in i .. last \/ k = last + 1 BY <1>1, <1>4, <1>4a
  <2>3. \A k \in i .. last + 1 : SamePack(list, i, k) BY <1>2, <1>4, <2>2
  <2> QED BY <1>1, <1>4, <2>1, <2>3
<1>6. i \in 1 .. Len(list) /\ last \in 1 .. Len(list) /\ i <= last BY <1>1, <1>4 DEF list
<1>7. /\ piece \in Seq(Applets) /\ Len(piece) = last - i + 1
      /\ \A j \in 1 .. last - i + 1 : piece[j] = list[i + j - 1]
  BY <1>1, <1>6
<1> HIDE DEF piece
<1>8. /\ block \in Seq(Applets) /\ Len(block) = last - i + 1
      /\ \A j \in 1 .. last - i + 1 : block[j] = piece[(last - i + 1) - j + 1]
  <2>1. /\ block \in Seq(Applets) /\ Len(block) = Len(piece)
        /\ \A j \in 1 .. Len(piece) : block[j] = piece[Len(piece) - j + 1]
    BY <1>7, ReversedIs
  <2>2. Len(piece) = last - i + 1 BY <1>7
  <2> QED BY <2>1, <2>2, Zenon
<1> HIDE DEF block
<1>9. ASSUME NEW j \in 1 .. last - i + 1 PROVE block[j] = list[last + 1 - j]
  <2>1. (last - i + 1) - j + 1 \in 1 .. last - i + 1 BY <1>6
  <2>2. i + ((last - i + 1) - j + 1) - 1 = last + 1 - j BY <1>6
  <2> QED BY <1>7, <1>8, <2>1, <2>2
<1>10. \A k \in i .. last : position[list[k]].type = s BY <1>2, <1>4
<1>11. AtBorder(list, position, block, i, last, s + 1)
  BY <1>1, <1>5, <1>6, <1>8, <1>9, <1>10 DEF AtBorder, s
<1> QED BY <1>11 DEF list, runs, last, piece, block, s

LEMMA PushLeftBlock ==
  ASSUME Inv, NEW p \in PanelSet, NEW i \in DOMAIN appletList[p]
  PROVE  LET list == appletList[p]
             first == Min({j \in 1 .. i : \A k \in j .. i : SamePack(list, i, k)})
         IN  AtBorder(list, position, SubSeq(list, first, i), first, i,
                      position[list[i]].type - 1)
<1> DEFINE list == appletList[p]
           runs == {j \in 1 .. i : \A k \in j .. i : SamePack(list, i, k)}
           first == Min(runs)
           block == SubSeq(list, first, i)
           s == position[list[i]].type
<1>1. list \in Seq(Applets) /\ DOMAIN list = 1 .. Len(list) /\ Len(list) \in Nat
  BY DEF Inv, ListsAre, IsList
<1>2. \A k : SamePack(list, i, k) <=> k \in DOMAIN list /\ position[list[k]].type = s
  BY DEF SamePack
<1>3. first \in runs /\ \A j \in runs : first <= j
  <2>1. i \in runs
    <3>1. \A k \in i .. i : k = i BY <1>1
    <3>2. SamePack(list, i, i) BY <1>2
    <3> QED BY <1>1, <3>1, <3>2
  <2>2. runs \in SUBSET Nat /\ runs # {} BY <1>1, <2>1
  <2> HIDE DEF runs, list
  <2> QED BY <2>2, MinInSet
<1>4. /\ first \in 1 .. i /\ \A k \in first .. i : SamePack(list, i, k)
      /\ \A j \in 1 .. i : (\A k \in j .. i : SamePack(list, i, k)) => first <= j
  <2> HIDE DEF first
  <2> QED BY <1>3, <1>1
<1> HIDE DEF list, runs, first, s
<1>5. i \in 1 .. Len(list) /\ first \in 1 .. Len(list) /\ first <= i BY <1>1, <1>4 DEF list
<1>6. first - 1 \in DOMAIN list => position[list[first - 1]].type # s
  <2> SUFFICES ASSUME first - 1 \in DOMAIN list, position[list[first - 1]].type = s PROVE FALSE
    OBVIOUS
  <2>1. first - 1 \in 1 .. i BY <1>1, <1>5
  <2>2. \A k \in first - 1 .. i : k \in first .. i \/ k = first - 1 BY <1>5
  <2>3. \A k \in first - 1 .. i : SamePack(list, i, k) BY <1>2, <1>4, <2>2
  <2> QED BY <1>4, <1>5, <2>1, <2>3
<1>7. /\ block \in Seq(Applets) /\ Len(block) = i - first + 1
      /\ \A j \in 1 .. i - first + 1 : block[j] = list[first + j - 1]
  BY <1>1, <1>5
<1> HIDE DEF block
<1>8. ASSUME NEW j \in 1 .. i - first + 1 PROVE block[j] = list[first - 1 + j]
  <2>1. first - 1 + j = first + j - 1 BY <1>5
  <2> QED BY <1>7, <2>1
<1>9. \A k \in first .. i : position[list[k]].type = s BY <1>2, <1>4
<1>9a. first \in first .. i BY <1>5
<1>9b. position[list[first]].type = s BY <1>9, <1>9a
<1>10. AtBorder(list, position, block, first, i, s - 1)
  BY <1>1, <1>5, <1>6, <1>7, <1>8, <1>9, <1>9b DEF AtBorder
<1> QED BY <1>10 DEF list, runs, first, block, s

\* Every step of a drag is one of the two.
LEMMA DragStepIs ==
  ASSUME Inv, NEW p \in PanelSet,
         SwitchRight(p) \/ SwitchLeft(p) \/ PushRight(p) \/ PushLeft(p)
  PROVE  DragStep(p) /\ (Swapping(p) \/ Leaving(p))
<1> DEFINE list == appletList[p]
           i == IndexIn(list, dragged[p])
<1>1. dragged[p] # None /\ DragStep(p) BY DEF SwitchRight, SwitchLeft, PushRight, PushLeft
<1>2. /\ i \in 1 .. Len(list) /\ list[i] = dragged[p]
      /\ DOMAIN list = 1 .. Len(list) /\ Len(list) \in Nat
  BY <1>1, DraggedIs
<1> HIDE DEF i
<1>3. \A j : SamePack(list, i, j) => j \in DOMAIN list BY DEF SamePack
<1>4. CASE SwitchRight(p)
  <2>1. \/ SamePack(list, i, i + 1) /\ Swap(p, i, i + 1)
        \/ ~SamePack(list, i, i + 1) /\ MoveBlock(p, <<list[i]>>, position[list[i]].type + 1)
    BY <1>2, <1>4 DEF SwitchRight, i
  <2>2. CASE SamePack(list, i, i + 1) /\ Swap(p, i, i + 1) BY <1>1, <1>2, <1>3, <2>2 DEF Swapping
  <2>3. CASE ~SamePack(list, i, i + 1) /\ MoveBlock(p, <<list[i]>>, position[list[i]].type + 1)
    <3>1. AtBorder(list, position, <<list[i]>>, i, i, position[list[i]].type + 1)
      BY <1>2, <2>3, SingleAtBorder
    <3> QED BY <1>1, <2>3, <3>1 DEF Leaving
  <2> QED BY <2>1, <2>2, <2>3
<1>5. CASE SwitchLeft(p)
  <2>1. \/ SamePack(list, i, i - 1) /\ Swap(p, i, i - 1)
        \/ ~SamePack(list, i, i - 1) /\ MoveBlock(p, <<list[i]>>, position[list[i]].type - 1)
    BY <1>2, <1>5 DEF SwitchLeft, i
  <2>2. CASE SamePack(list, i, i - 1) /\ Swap(p, i, i - 1) BY <1>1, <1>2, <1>3, <2>2 DEF Swapping
  <2>3. CASE ~SamePack(list, i, i - 1) /\ MoveBlock(p, <<list[i]>>, position[list[i]].type - 1)
    <3>1. AtBorder(list, position, <<list[i]>>, i, i, position[list[i]].type - 1)
      BY <1>2, <2>3, SingleAtBorder
    <3> QED BY <1>1, <2>3, <3>1 DEF Leaving
  <2> QED BY <2>1, <2>2, <2>3
<1>6. CASE PushRight(p)
  <2> DEFINE last == Max({j \in i .. Len(list) : \A k \in i .. j : SamePack(list, i, k)})
             block == Reverse(SubSeq(list, i, last))
  <2>1. MoveBlock(p, block, position[list[i]].type + 1) BY <1>2, <1>6 DEF PushRight, i
  <2>2. AtBorder(list, position, block, i, last, position[list[i]].type + 1)
    BY <1>2, PushRightBlock
  <2> HIDE DEF block, last
  <2> QED BY <1>1, <2>1, <2>2 DEF Leaving
<1>7. CASE PushLeft(p)
  <2> DEFINE first == Min({j \in 1 .. i : \A k \in j .. i : SamePack(list, i, k)})
             block == SubSeq(list, first, i)
  <2>1. MoveBlock(p, block, position[list[i]].type - 1) BY <1>2, <1>7 DEF PushLeft, i
  <2>2. AtBorder(list, position, block, first, i, position[list[i]].type - 1)
    BY <1>2, PushLeftBlock
  <2> HIDE DEF block, first
  <2> QED BY <1>1, <2>1, <2>2 DEF Leaving
<1> QED BY <1>4, <1>5, <1>6, <1>7

\* What Swap does to the list and to positions.
LEMMA SwapIs ==
  ASSUME Inv, NEW p \in PanelSet, NEW i \in DOMAIN appletList[p], NEW j \in DOMAIN appletList[p],
         SamePack(appletList[p], i, j), Swap(p, i, j)
  PROVE  /\ ListsAre(appletList') /\ \A q \in PanelSet : ToSet(appletList'[q]) = ToSet(appletList[q])
         /\ Placed(position')
         /\ queued' = queued \union {appletList[p][i], appletList[p][j]}
         /\ \A a \in Applets \ queued' : position'[a] = position[a]
         /\ \A q \in PanelSet \ {p} : appletList'[q] = appletList[q]
         /\ DOMAIN appletList'[p] = DOMAIN appletList[p]
         /\ \A k \in DOMAIN appletList[p] : position'[appletList'[p][k]] = position[appletList[p][k]]
<1> DEFINE list == appletList[p]
           a == list[i]
           b == list[j]
           new == [list EXCEPT ![i] = b, ![j] = a]
<1>1. /\ position' = [position EXCEPT ![a].index = position[b].index,
                                      ![b].index = position[a].index]
      /\ appletList' = [appletList EXCEPT ![p] = new]
      /\ queued' = queued \union {a, b}
  BY DEF Swap
<1>2. /\ appletList \in [PanelSet -> Seq(Applets)] /\ IsList(list)
      /\ \A k \in DOMAIN list : list[k] \in ToSet(list) /\ list[k] \in Shown /\ list[k] \in Applets
      /\ \A k, l \in DOMAIN list : list[k] = list[l] => k = l
  <2>1. appletList \in [PanelSet -> Seq(Applets)] /\ IsList(list) BY DEF Inv, ListsAre
  <2>2. ToSet(list) \subseteq Shown /\ \A c \in Shown : c \in Applets BY InvFacts
  <2>3. \A k \in DOMAIN list : list[k] \in ToSet(list) BY DEF ToSet
  <2>4. \A k, l \in DOMAIN list : list[k] = list[l] => k = l BY <2>1 DEF IsList, IsInjective
  <2> HIDE DEF list
  <2> QED BY <2>1, <2>2, <2>3, <2>4
<1>2a. a \in Shown /\ b \in Shown /\ a \in Applets /\ b \in Applets BY <1>2
<1>3. /\ IsList(new) /\ ToSet(new) = ToSet(list) /\ DOMAIN new = DOMAIN list
      /\ \A k \in DOMAIN list :
           new[k] = IF k = j THEN list[i] ELSE IF k = i THEN list[j] ELSE list[k]
  BY <1>2, SwappedIs
<1> HIDE DEF new
<1>4. appletList'[p] = new /\ \A q \in PanelSet \ {p} : appletList'[q] = appletList[q]
  BY <1>1, <1>2
<1>5. \A q \in PanelSet : ToSet(appletList'[q]) = ToSet(appletList[q]) BY <1>3, <1>4
<1>6. ListsAre(appletList')
  <2>1. appletList' \in [PanelSet -> Seq(Applets)]
    BY <1>1, <1>2, <1>3 DEF IsList
  <2>2. \A q \in PanelSet : IsList(appletList'[q]) BY <1>3, <1>4 DEF Inv, ListsAre
  <2> QED BY <1>5, <2>1, <2>2 DEF Inv, ListsAre
<1>7. Placed(position) BY InvFacts
<1>8. position[a] \in AnyPosition /\ position[b] \in AnyPosition /\ position[a].type = position[b].type
  BY <1>2, <1>7 DEF Placed, SamePack
<1> HIDE DEF list
<1>9. /\ position'[a] = position[b] /\ position'[b] = position[a]
      /\ \A c \in Applets \ {a, b} : position'[c] = position[c]
      /\ DOMAIN position' = Applets
  <2>1. position \in [Applets -> AnyPosition \union {None}] /\ a \in Applets /\ b \in Applets
    BY <1>2a, <1>7 DEF Placed
  <2> HIDE DEF a, b
  <2>2. /\ position[a] = [type |-> position[a].type, index |-> position[a].index]
        /\ position[b] = [type |-> position[a].type, index |-> position[b].index]
    BY <1>8 DEF AnyPosition
  <2>3. DOMAIN position' = Applets /\ \A c \in Applets \ {a, b} : position'[c] = position[c]
    BY <1>1, <2>1
  <2>4. CASE a = b
    <3>1. position'[a] = [position[a] EXCEPT !.index = position[a].index] BY <1>1, <2>1, <2>4
    <3> QED BY <2>2, <2>3, <2>4, <3>1
  <2>5. CASE a # b
    <3>1. /\ position'[a] = [position[a] EXCEPT !.index = position[b].index]
          /\ position'[b] = [position[b] EXCEPT !.index = position[a].index]
      BY <1>1, <2>1, <2>5
    <3> QED BY <2>2, <2>3, <3>1
  <2> QED BY <2>4, <2>5
<1>10. Placed(position')
  <2>1. position \in [Applets -> AnyPosition \union {None}]
        /\ \A c \in Applets : (position[c] \in AnyPosition) <=> (c \in Shown)
    BY <1>7 DEF Placed
  <2>2. a \in Shown /\ b \in Shown BY <1>2a
  <2> HIDE DEF a, b
  <2>3. \A c \in Applets : /\ position'[c] \in AnyPosition \union {None}
                           /\ (position'[c] \in AnyPosition) <=> (c \in Shown)
    BY <1>8, <1>9, <2>1, <2>2
  <2>4. position' = [c \in Applets |-> position'[c]]
    <3>1. position' = [c \in DOMAIN position' |-> position'[c]] BY <1>1, <2>1
    <3> QED BY <1>9, <3>1
  <2>5. position' \in [Applets -> AnyPosition \union {None}] BY <2>3, <2>4
  <2> QED BY <2>3, <2>5 DEF Placed
<1>11. ASSUME NEW k \in DOMAIN list PROVE position'[new[k]] = position[list[k]]
  <2>1. CASE k = j BY <1>3, <1>9, <2>1
  <2>2. CASE k # j /\ k = i BY <1>3, <1>9, <2>2
  <2>3. CASE k # j /\ k # i
    <3>1. new[k] = list[k] /\ list[k] \in Applets \ {a, b}
      <4>1. i \in DOMAIN list /\ j \in DOMAIN list BY DEF list
      <4> QED BY <1>2, <1>3, <2>3, <4>1
    <3> QED BY <1>9, <3>1
  <2> QED BY <2>1, <2>2, <2>3
<1> QED BY <1>1, <1>3, <1>4, <1>5, <1>6, <1>9, <1>10, <1>11 DEF list

\* What leaving a pack does to positions.
LEMMA LeavingIs ==
  ASSUME Inv, NEW p \in PanelSet, NEW block, NEW lo, NEW hi, NEW t,
         AtBorder(appletList[p], position, block, lo, hi, t), MoveBlock(p, block, t)
  PROVE  /\ UNCHANGED appletList
         /\ Placed(position') /\ queued \subseteq queued' /\ queued' \subseteq Shown
         /\ \A a \in Applets \ queued' : position'[a] = position[a]
         /\ \A q \in PanelSet \ {p} : \A a \in ToSet(appletList[q]) : position'[a] = position[a]
<1> DEFINE list == appletList[p]
           index == BlockIndex(block, t)
           shifted == Shifted(list, position, t, index)
           new == BlockMoved(p, block, t)
<1>1. /\ new = position' /\ queued' = queued \union ToSet(block) \union shifted
      /\ UNCHANGED appletList
  BY DEF MoveBlock
<1>2. /\ IsList(list) /\ HasPositions(list, position) /\ Placed(position)
      /\ ToSet(list) \subseteq Shown /\ queued \subseteq Shown
      /\ \A a \in ToSet(list) : position[a].index >= 0
  BY InvFacts, PlacedIs DEF Inv, TypeOK
<1>3. lo \in DOMAIN list /\ hi \in DOMAIN list /\ lo \in Nat /\ hi \in Nat /\ DOMAIN list = 1 .. Len(list)
      /\ Len(list) \in Nat
  <2>1. lo \in DOMAIN list /\ hi \in DOMAIN list BY DEF AtBorder
  <2> QED BY <1>2, <2>1 DEF IsList
<1>4. /\ block \in Seq(Applets) /\ IsInjective(block) /\ ToSet(block) \subseteq ToSet(list)
      /\ t \in Int /\ \A a \in ToSet(block) : position[a].type # t
  <2>1. \A k \in lo .. hi : k \in DOMAIN list BY <1>3
  <2>2. ToSet(block) = {list[k] : k \in lo .. hi} BY <1>2, BlockIsList
  <2>3. ToSet(block) \subseteq ToSet(list) BY <2>1, <2>2 DEF ToSet
  <2> QED BY <1>2, <2>3, BlockIsList
<1>5. /\ HasPositions(list, new)
      /\ \A b \in Applets \ ToSet(block) :
           IF index = 0 /\ b \in ToSet(list) /\ position[b].type = t
           THEN new[b] = [type |-> t, index |-> position[b].index + Len(block)]
           ELSE new[b] = position[b]
  BY <1>2, <1>4, BlockMovedIs
<1>6. shifted \subseteq ToSet(list) BY DEF Shifted
<1>7. index = 0 => \A b \in ToSet(list) : position[b].type = t => b \in shifted
  <2> SUFFICES ASSUME index = 0, NEW b \in ToSet(list), position[b].type = t PROVE b \in shifted
    OBVIOUS
  <2>1. ~(index < 0) /\ position[b].index >= index BY <1>2
  <2> QED BY <2>1 DEF Shifted
<1> HIDE DEF list, index, shifted, new
<1>8. \A b \in Applets \ (ToSet(block) \union shifted) : new[b] = position[b] BY <1>5, <1>7
<1>9. \A b \in Applets \ ToSet(list) : new[b] = position[b] BY <1>4, <1>6, <1>8
<1>10. Placed(new)
  <2>1. new \in [Applets -> AnyPosition \union {None}] /\ \A b \in ToSet(list) : new[b] \in AnyPosition
    BY <1>5 DEF HasPositions
  <2> QED BY <1>2, <1>9, <2>1 DEF Placed
<1>11. \A q \in PanelSet \ {p} : \A a \in ToSet(appletList[q]) : a \in Applets \ ToSet(list)
  <2>1. \A q \in PanelSet \ {p} : ToSet(appletList[q]) \intersect ToSet(appletList[p]) = {}
    BY DEF Inv, ListsAre
  <2>2. \A q \in PanelSet : \A a \in ToSet(appletList[q]) : a \in Applets BY InvFacts
  <2> QED BY <2>1, <2>2 DEF list
<1> QED BY <1>1, <1>2, <1>4, <1>6, <1>8, <1>9, <1>10, <1>11

LEMMA DragStepInv ==
  ASSUME Inv, NEW p \in PanelSet,
         SwitchRight(p) \/ SwitchLeft(p) \/ PushRight(p) \/ PushLeft(p)
  PROVE  Inv'
<1>1. Swapping(p) \/ Leaving(p) BY DragStepIs
<1>2. Edit /\ UNCHANGED <<dragged, inDrag, stored>>
  <2>1. DragStep(p) BY DragStepIs
  <2> QED BY <2>1 DEF DragStep
<1>3. /\ queued \subseteq Shown /\ dragged \in [PanelSet -> Applets \union {None}]
      /\ inDrag \in BOOLEAN
  BY DEF Inv, TypeOK
<1>4. DragsAre(dragged', inDrag', appletList) BY <1>2, InvFacts
<1>5. \A a \in Shown : a \in Applets BY InvFacts
<1>6. CASE Swapping(p)
  <2>1. PICK i \in DOMAIN appletList[p], j \in DOMAIN appletList[p] :
          SamePack(appletList[p], i, j) /\ Swap(p, i, j)
    BY <1>6 DEF Swapping
  <2>2. appletList[p][i] \in Shown /\ appletList[p][j] \in Shown BY InvFacts DEF ToSet
  <2>3. /\ ListsAre(appletList') /\ \A q \in PanelSet : ToSet(appletList'[q]) = ToSet(appletList[q])
        /\ Placed(position')
        /\ queued' = queued \union {appletList[p][i], appletList[p][j]}
        /\ \A a \in Applets \ queued' : position'[a] = position[a]
    BY <2>1, SwapIs
  <2>4. queued \subseteq queued' /\ queued' \subseteq Shown BY <1>3, <2>2, <2>3
  <2> QED BY <1>2, <1>3, <1>4, <1>5, <2>3, <2>4, EditsCount, SameShownKept
<1>7. CASE Leaving(p)
  <2>1. PICK block, lo, hi, t :
          AtBorder(appletList[p], position, block, lo, hi, t) /\ MoveBlock(p, block, t)
    BY <1>7 DEF Leaving
  <2>2. /\ UNCHANGED appletList
        /\ Placed(position') /\ queued \subseteq queued' /\ queued' \subseteq Shown
        /\ \A a \in Applets \ queued' : position'[a] = position[a]
    BY <2>1, LeavingIs
  <2> QED BY <1>2, <1>3, <1>4, <1>5, <2>2, EditsCount, SameLists, SameShownKept
<1> QED BY <1>1, <1>6, <1>7

LEMMA SaveTimeoutInv ==
  ASSUME Inv, SaveTimeout
  PROVE  Inv'
<1>1. /\ stored' = [a \in Applets |->
                      IF a \in queued
                      THEN [panel |-> PanelOf(a), type |-> position[a].type, index |-> position[a].index]
                      ELSE stored[a]]
      /\ queued' = {} /\ UNCHANGED <<appletList, position, dragged, inDrag, edits>>
  BY DEF SaveTimeout
<1>2. /\ stored \in [Applets -> Places \union {None}] /\ queued \subseteq Shown
      /\ position \in [Applets -> Positions \union {None}]
      /\ dragged \in [PanelSet -> Applets \union {None}] /\ inDrag \in BOOLEAN
      /\ edits \in 0 .. MaxEdits
      /\ \A b \in Applets : (position[b] # None) <=> (b \in Shown)
  BY DEF Inv, TypeOK
<1>3. \A a \in queued : [panel |-> PanelOf(a), type |-> position[a].type, index |-> position[a].index]
                          \in Places
  <2> SUFFICES ASSUME NEW a \in queued
               PROVE  [panel |-> PanelOf(a), type |-> position[a].type, index |-> position[a].index]
                        \in Places
    OBVIOUS
  <2>1. PanelOf(a) \in PanelSet /\ position[a] \in Positions BY <1>2, InvFacts
  <2> QED BY <2>1 DEF Positions, Places
<1>4. stored' \in [Applets -> Places \union {None}] BY <1>1, <1>2, <1>3
<1>5. Shown' = Shown BY <1>1 DEF Shown
<1>6. ASSUME NEW p \in PanelSet, NEW a \in ToSet(appletList'[p]) \ queued'
      PROVE  stored'[a] = [panel |-> p, type |-> position'[a].type, index |-> position'[a].index]
  <2>1. a \in Shown /\ a \in Applets /\ p = PanelOf(a) BY <1>1, InvFacts
  <2>2. CASE a \in queued BY <1>1, <2>1, <2>2
  <2>3. CASE a \notin queued
    <3>1. stored'[a] = stored[a] BY <1>1, <2>1, <2>3
    <3> QED BY <1>1, <2>1, <2>3, <3>1 DEF Inv, StoredAsShown
  <2> QED BY <2>2, <2>3
<1>7. ListsAre(appletList') /\ DragsAre(dragged', inDrag', appletList')
  BY <1>1, InvFacts DEF Inv
<1> QED BY <1>1, <1>2, <1>4, <1>5, <1>6, <1>7, InvKept

LEMMA RestartInv ==
  ASSUME Inv, Restart
  PROVE  Inv'
<1>1. /\ appletList' = [p \in PanelSet |-> <<>>]
      /\ position' = [a \in Applets |-> None]
      /\ dragged' = [p \in PanelSet |-> None]
      /\ inDrag' = FALSE /\ queued' = {} /\ UNCHANGED stored
  BY DEF Restart
<1>2. Edit BY DEF Restart
<1>3. \A p \in PanelSet : appletList'[p] = <<>> /\ ToSet(appletList'[p]) = {}
  BY <1>1 DEF ToSet
<1>4. ListsAre(appletList')
  <2>1. IsList(<<>>) BY DEF IsList, IsInjective
  <2>2. appletList' \in [PanelSet -> Seq(Applets)] BY <1>1
  <2> QED BY <1>3, <2>1, <2>2 DEF ListsAre
<1>5. Shown' = {} BY <1>3 DEF Shown
<1>6. \A a \in Applets : position'[a] = None BY <1>1
<1>7. \A p \in PanelSet : dragged'[p] = None BY <1>1
<1>8. DragsAre(dragged', inDrag', appletList') BY <1>1, <1>7 DEF DragsAre
<1>9. stored' \in [Applets -> Places \union {None}] BY <1>1 DEF Inv, TypeOK
<1>10. dragged' \in [PanelSet -> Applets \union {None}] BY <1>1
<1> QED BY <1>1, <1>2, <1>3, <1>4, <1>5, <1>6, <1>8, <1>9, <1>10, EditsCount, InvKept

-----------------------------------------------------------------------------
(***************************************************************************)
(* Applets come to a panel and leave it.                                   *)
(***************************************************************************)
\* Named, so that the provers match it.
Takes(new, lists, p, list) == new = [lists EXCEPT ![p] = list]

LEMMA ListsWithout ==
  ASSUME NEW lists, ListsAre(lists), NEW p \in PanelSet, NEW a \in ToSet(lists[p]),
         NEW new, Takes(new, lists, p, Removed(lists[p], a))
  PROVE  /\ ListsAre(new) /\ ToSet(new[p]) = ToSet(lists[p]) \ {a}
         /\ new[p] = Removed(lists[p], a)
         /\ \A q \in PanelSet \ {p} : new[q] = lists[q]
<1>1. IsList(Removed(lists[p], a)) /\ ToSet(Removed(lists[p], a)) = ToSet(lists[p]) \ {a}
  BY RemovedIs DEF ListsAre
<1>2. lists \in [PanelSet -> Seq(Applets)] BY DEF ListsAre
<1>3. new[p] = Removed(lists[p], a) /\ \A q \in PanelSet \ {p} : new[q] = lists[q]
  BY <1>2 DEF Takes
<1>4. new \in [PanelSet -> Seq(Applets)] BY <1>1, <1>2 DEF IsList, Takes
<1>5. \A q \in PanelSet : IsList(new[q]) /\ ToSet(new[q]) \subseteq ToSet(lists[q])
  BY <1>1, <1>3 DEF ListsAre
<1>6. \A q, r \in PanelSet : q # r => ToSet(new[q]) \intersect ToSet(new[r]) = {}
  BY <1>5 DEF ListsAre
<1> QED BY <1>1, <1>3, <1>4, <1>5, <1>6 DEF ListsAre

OneMoreOn(new, lists, p, a) ==
  /\ ToSet(new[p]) = ToSet(lists[p]) \union {a}
  /\ \A q \in PanelSet \ {p} : new[q] = lists[q]

LEMMA ListsWith ==
  ASSUME NEW lists, ListsAre(lists), NEW p \in PanelSet, NEW a \in Applets,
         \A q \in PanelSet : a \notin ToSet(lists[q]), NEW pos,
         NEW new, Takes(new, lists, p, InsertSorted(lists[p], pos, a))
  PROVE  ListsAre(new) /\ OneMoreOn(new, lists, p, a) /\ new[p] = InsertSorted(lists[p], pos, a)
<1>1. /\ IsList(InsertSorted(lists[p], pos, a))
      /\ ToSet(InsertSorted(lists[p], pos, a)) = ToSet(lists[p]) \union {a}
  BY InsertSortedIs DEF ListsAre
<1>2. lists \in [PanelSet -> Seq(Applets)] BY DEF ListsAre
<1>3. new[p] = InsertSorted(lists[p], pos, a) /\ \A q \in PanelSet \ {p} : new[q] = lists[q]
  BY <1>2 DEF Takes
<1>4. new \in [PanelSet -> Seq(Applets)] BY <1>1, <1>2 DEF IsList, Takes
<1>5. \A q \in PanelSet : IsList(new[q])
  BY <1>1, <1>3 DEF ListsAre
<1>6. ASSUME NEW q \in PanelSet, NEW r \in PanelSet, q # r
      PROVE  ToSet(new[q]) \intersect ToSet(new[r]) = {}
  <2>1. ToSet(lists[q]) \intersect ToSet(lists[r]) = {} BY <1>6 DEF ListsAre
  <2>2. CASE q = p BY <1>1, <1>3, <1>6, <2>1, <2>2
  <2>3. CASE r = p BY <1>1, <1>3, <1>6, <2>1, <2>3
  <2>4. CASE q # p /\ r # p BY <1>3, <2>1, <2>4
  <2> QED BY <2>2, <2>3, <2>4
<1> QED BY <1>1, <1>3, <1>4, <1>5, <1>6 DEF ListsAre, OneMoreOn

LEMMA RegisterInv ==
  ASSUME Inv, NEW a \in Applets, Register(a)
  PROVE  Inv'
<1> DEFINE p == stored[a].panel
<1>1. /\ stored[a] # None /\ a \notin Shown
      /\ position' = [position EXCEPT ![a] = [type |-> stored[a].type, index |-> stored[a].index]]
      /\ appletList' = [appletList EXCEPT ![p] = InsertSorted(appletList[p], position', a)]
      /\ UNCHANGED <<dragged, inDrag, queued, stored, edits>>
  BY DEF Register
<1>2. /\ stored \in [Applets -> Places \union {None}] /\ queued \subseteq Shown
      /\ position \in [Applets -> Positions \union {None}]
      /\ dragged \in [PanelSet -> Applets \union {None}] /\ inDrag \in BOOLEAN
      /\ edits \in 0 .. MaxEdits
      /\ \A b \in Applets : (position[b] # None) <=> (b \in Shown)
  BY DEF Inv, TypeOK
<1>3. stored[a] \in Places BY <1>1, <1>2
<1>4. /\ p \in PanelSet /\ [type |-> stored[a].type, index |-> stored[a].index] \in Positions
      /\ stored[a] = [panel |-> p, type |-> stored[a].type, index |-> stored[a].index]
  BY <1>3 DEF Places, Positions
<1>5. \A q \in PanelSet : a \notin ToSet(appletList[q]) BY <1>1, InvFacts
<1> HIDE DEF p
<1>6. /\ ListsAre(appletList') /\ ToSet(appletList'[p]) = ToSet(appletList[p]) \union {a}
      /\ \A q \in PanelSet \ {p} : appletList'[q] = appletList[q]
  <2>1. ListsAre(appletList) BY DEF Inv
  <2>2. Takes(appletList', appletList, p, InsertSorted(appletList[p], position', a))
    BY <1>1 DEF Takes
  <2>3. ListsAre(appletList') /\ OneMoreOn(appletList', appletList, p, a)
    BY <1>4, <1>5, <2>1, <2>2, ListsWith
  <2> QED BY <2>3 DEF OneMoreOn
<1>7. Shown' = Shown \union {a}
  <2>1. Shown' = UNION {ToSet(appletList'[q]) : q \in PanelSet} BY DEF Shown
  <2>2. ASSUME NEW b \in Shown' PROVE b \in Shown \union {a}
    <3>1. PICK q \in PanelSet : b \in ToSet(appletList'[q]) BY <2>1
    <3>2. b \in ToSet(appletList[q]) \union {a} BY <1>6, <3>1
    <3> QED BY <3>2, InvFacts
  <2>3. ASSUME NEW b \in Shown \union {a} PROVE b \in Shown'
    <3>1. CASE b = a BY <1>4, <1>6, <2>1, <3>1
    <3>2. CASE b \in Shown
      <4>1. PICK q \in PanelSet : b \in ToSet(appletList[q]) BY <3>2 DEF Shown
      <4>2. b \in ToSet(appletList'[q]) BY <1>6, <4>1
      <4> QED BY <2>1, <4>2
    <3> QED BY <2>3, <3>1, <3>2
  <2> QED BY <2>2, <2>3
<1>8. position' \in [Applets -> Positions \union {None}] BY <1>1, <1>2, <1>4
<1>9. \A b \in Applets : (position'[b] # None) <=> (b \in Shown')
  BY <1>1, <1>2, <1>4, <1>7, NoneIsNoPosition
<1>10. DragsAre(dragged', inDrag', appletList')
  <2>1. \A q \in PanelSet : ToSet(appletList[q]) \subseteq ToSet(appletList'[q]) BY <1>6
  <2>2. DragsAre(dragged, inDrag, appletList) BY InvFacts
  <2> QED BY <1>1, <2>1, <2>2 DEF DragsAre
<1>11. ASSUME NEW q \in PanelSet, NEW b \in ToSet(appletList'[q]) \ queued'
       PROVE  stored'[b] = [panel |-> q, type |-> position'[b].type, index |-> position'[b].index]
  <2>1. CASE b = a
    <3>1. q = p BY <1>5, <1>6, <2>1
    <3>2. position'[a] = [type |-> stored[a].type, index |-> stored[a].index] BY <1>1, <1>2
    <3> QED BY <1>1, <1>4, <2>1, <3>1, <3>2
  <2>2. CASE b # a
    <3>1. b \in ToSet(appletList[q]) BY <1>6, <2>2
    <3>2. b \in Shown /\ b \in Applets /\ q = PanelOf(b) BY <3>1, InvFacts
    <3>3. position'[b] = position[b] BY <1>1, <1>2, <2>2, <3>2
    <3> QED BY <1>1, <3>2, <3>3 DEF Inv, StoredAsShown
  <2> QED BY <2>1, <2>2
<1> QED BY <1>1, <1>2, <1>6, <1>7, <1>8, <1>9, <1>10, <1>11, InvKept

\* What Destroyed does to the lists.
LEMMA UnlistedIs ==
  ASSUME Inv, NEW a \in Applets, NEW deleted \in BOOLEAN, Unlisted(a, deleted)
  PROVE  /\ PanelOf(a) \in PanelSet /\ a \in ToSet(appletList[PanelOf(a)])
         /\ ListsAre(appletList')
         /\ appletList'[PanelOf(a)] = Removed(appletList[PanelOf(a)], a)
         /\ \A q \in PanelSet \ {PanelOf(a)} : appletList'[q] = appletList[q]
         /\ \A q \in PanelSet : ToSet(appletList'[q]) = ToSet(appletList[q]) \ {a}
         /\ Shown' = Shown \ {a}
<1> DEFINE p == PanelOf(a)
<1>1. a \in Shown /\ appletList' = [appletList EXCEPT ![p] = Removed(appletList[p], a)]
  BY DEF Unlisted
<1>2. p \in PanelSet /\ a \in ToSet(appletList[p]) BY <1>1, InvFacts
<1>2a. \A q \in PanelSet \ {p} : a \notin ToSet(appletList[q]) BY <1>1, InvFacts
<1>2b. ListsAre(appletList) BY DEF Inv
<1> HIDE DEF p
<1>3. /\ ListsAre(appletList') /\ ToSet(appletList'[p]) = ToSet(appletList[p]) \ {a}
      /\ appletList'[p] = Removed(appletList[p], a)
      /\ \A q \in PanelSet \ {p} : appletList'[q] = appletList[q]
  <2>1. Takes(appletList', appletList, p, Removed(appletList[p], a)) BY <1>1 DEF Takes
  <2> QED BY <1>2, <1>2b, <2>1, ListsWithout
<1>4. \A q \in PanelSet : ToSet(appletList'[q]) = ToSet(appletList[q]) \ {a}
  BY <1>2a, <1>3
<1>5. Shown' = Shown \ {a}
  <2>1. Shown' = UNION {ToSet(appletList'[q]) : q \in PanelSet} BY DEF Shown
  <2>2. Shown = UNION {ToSet(appletList[q]) : q \in PanelSet} BY DEF Shown
  <2> QED BY <1>4, <2>1, <2>2
<1> QED BY <1>2, <1>3, <1>4, <1>5 DEF p

LEMMA DestroyedInv ==
  ASSUME Inv, NEW a \in Applets, NEW deleted \in BOOLEAN, Destroyed(a, deleted)
  PROVE  Inv'
<1> DEFINE p == PanelOf(a)
           list == appletList[p]
           dropped == dragged[p] = a
           pos == IF dropped THEN Compressed(list, position) ELSE position
           emits == IF dropped THEN CompressEmits(list, position) ELSE {}
<1>1. /\ Unlisted(a, deleted)
      /\ position' = [pos EXCEPT ![a] = None]
      /\ dragged' = IF dropped THEN [dragged EXCEPT ![p] = None] ELSE dragged
      /\ inDrag' = (inDrag /\ ~dropped)
      /\ queued' = (queued \union emits) \ {a}
  BY DEF Destroyed
<1>2. Edit BY DEF Destroyed
<1>3. stored' = IF deleted THEN [stored EXCEPT ![a] = None] ELSE stored BY <1>1 DEF Unlisted
<1>4. /\ p \in PanelSet /\ a \in ToSet(list) /\ ListsAre(appletList')
      /\ \A q \in PanelSet : ToSet(appletList'[q]) = ToSet(appletList[q]) \ {a}
      /\ Shown' = Shown \ {a}
  BY <1>1, UnlistedIs
<1>5. /\ stored \in [Applets -> Places \union {None}] /\ queued \subseteq Shown
      /\ dragged \in [PanelSet -> Applets \union {None}] /\ inDrag \in BOOLEAN
  BY DEF Inv, TypeOK
<1>6. /\ Placed(pos) /\ emits \subseteq Shown
      /\ \A b \in Applets \ emits : pos[b] = position[b]
  BY <1>4, InvFacts, CompressedPositions
<1> HIDE DEF pos, emits
<1>7. \A b \in Applets : position'[b] = IF b = a THEN None ELSE pos[b]
  BY <1>1, <1>6 DEF Placed
<1>8. \A b \in Applets : (position'[b] # None) <=> (b \in Shown')
  BY <1>4, <1>6, <1>7, NoneIsNoPosition DEF Placed
<1>9. stored' \in [Applets -> Places \union {None}] /\ \A b \in Applets \ {a} : stored'[b] = stored[b]
  BY <1>3, <1>5
<1>10. DragsAre(dragged, inDrag, appletList) BY InvFacts
<1>11. /\ dragged' \in [PanelSet -> Applets \union {None}] /\ inDrag' \in BOOLEAN
       /\ DragsAre(dragged', inDrag', appletList')
  <2>1. CASE dropped
    <3>1. dragged' = [dragged EXCEPT ![p] = None] /\ inDrag' = FALSE BY <1>1, <2>1
    <3>2. \A q \in PanelSet : dragged'[q] = None
      BY <1>4, <1>5, <1>10, <2>1, <3>1, SentinelAssumption DEF DragsAre
    <3> QED BY <1>5, <3>1, <3>2 DEF DragsAre
  <2>2. CASE ~dropped
    <3>1. dragged' = dragged /\ inDrag' = inDrag BY <1>1, <1>5, <2>2
    <3>2. \A q \in PanelSet : dragged[q] # None => dragged[q] # a
      <4> SUFFICES ASSUME NEW q \in PanelSet, dragged[q] = a PROVE FALSE BY SentinelAssumption
      <4>1. a \in ToSet(appletList[q]) BY <1>10, SentinelAssumption DEF DragsAre
      <4>2. q = p BY <4>1, InvFacts
      <4> QED BY <2>2, <4>2
    <3> QED BY <1>4, <1>5, <1>10, <3>1, <3>2 DEF DragsAre
  <2> QED BY <2>1, <2>2
<1> HIDE DEF p, list, dropped
<1>12. queued' \subseteq Shown' BY <1>1, <1>4, <1>5, <1>6
<1>13. ASSUME NEW q \in PanelSet, NEW b \in ToSet(appletList'[q]) \ queued'
       PROVE  stored'[b] = [panel |-> q, type |-> position'[b].type, index |-> position'[b].index]
  <2>1. b \in ToSet(appletList[q]) /\ b # a BY <1>4
  <2>2. b \in Shown /\ b \in Applets /\ q = PanelOf(b) BY <2>1, InvFacts
  <2>3. b \notin queued /\ b \notin emits BY <1>1, <2>1
  <2>4. position'[b] = position[b] /\ stored'[b] = stored[b] BY <1>6, <1>7, <1>9, <2>1, <2>2, <2>3
  <2> QED BY <2>2, <2>3, <2>4 DEF Inv, StoredAsShown
<1> QED BY <1>2, <1>4, <1>8, <1>9, <1>11, <1>12, <1>13, EditsCount, InvKept

\* Positions after a move to a pack of a panel.
LEMMA PlacedMoved ==
  ASSUME Inv, NEW q \in PanelSet, NEW pos, Placed(pos), NEW a \in Shown,
         NEW t \in Int, NEW index \in Int
  PROVE  LET new == MoveToPack(appletList[q], pos, a, t, index)
             shifted == Shifted(appletList[q], pos, t, index)
         IN  /\ Placed(new) /\ shifted \subseteq ToSet(appletList[q])
             /\ \A b \in Applets \ (shifted \union {a}) : new[b] = pos[b]
<1> DEFINE list == appletList[q]
           new == MoveToPack(list, pos, a, t, index)
           shifted == Shifted(list, pos, t, index)
<1>1. a \in Applets /\ ToSet(list) \subseteq Shown BY InvFacts
<1>2. HasPositions(list, new) /\ HasMoved(new, list, pos, a, t, index)
  BY <1>1, PlacedIs, MoveToPackIs
<1>3. shifted \subseteq ToSet(list) BY DEF Shifted
<1> HIDE DEF list, new
<1>4. \A b \in Applets \ (shifted \union {a}) : new[b] = pos[b] BY <1>2 DEF HasMoved
<1>5. new[a] \in AnyPosition BY <1>2 DEF HasMoved
<1>6. Placed(new)
  <2>1. new \in [Applets -> AnyPosition \union {None}] /\ \A b \in ToSet(list) : new[b] \in AnyPosition
    BY <1>2 DEF HasPositions
  <2> HIDE DEF shifted
  <2>2. \A b \in Applets : (new[b] \in AnyPosition) <=> (b \in Shown)
    BY <1>1, <1>3, <1>4, <1>5, <2>1 DEF Placed
  <2> QED BY <2>1, <2>2 DEF Placed
<1> QED BY <1>3, <1>4, <1>6 DEF list, new

LEMMA PlacedAdded ==
  ASSUME Inv, NEW q \in PanelSet, NEW pos, Placed(pos)
  PROVE  LET new == Added(q, appletList[q], pos)
             emits == AddEmits(q, appletList[q], pos)
         IN  /\ Placed(new) /\ emits \subseteq ToSet(appletList[q])
             /\ \A b \in Applets \ emits : new[b] = pos[b]
<1> DEFINE list == appletList[q]
           new == Added(q, list, pos)
           emits == AddEmits(q, list, pos)
<1>1. ToSet(list) \subseteq Shown BY InvFacts
<1>2. /\ HasPositions(list, new) /\ emits \subseteq ToSet(list)
      /\ \A a \in Applets \ emits : new[a] = pos[a]
  <2>1. IsList(list) /\ HasPositions(list, pos) BY PlacedIs
  <2>2. HasPositions(list, new) BY <2>1, AddedIs
  <2>3. emits \subseteq ToSet(list) BY <2>1, AddedIs
  <2>4. \A a \in Applets \ emits : new[a] = pos[a] BY <2>1, AddedIs
  <2> QED BY <2>2, <2>3, <2>4
<1> HIDE DEF list, new, emits
<1>3. new \in [Applets -> AnyPosition \union {None}] /\ \A b \in ToSet(list) : new[b] \in AnyPosition
  BY <1>2 DEF HasPositions
<1>4. Placed(new) BY <1>1, <1>2, <1>3 DEF Placed
<1> QED BY <1>2, <1>4 DEF list, new, emits

LEMMA ReparentIs ==
  ASSUME Inv, NEW p \in PanelSet, NEW q \in PanelSet, NEW a \in ToSet(appletList[p]),
         NEW t \in Int, NEW index \in Int, NEW pos, Placed(pos),
         NEW emits \in SUBSET Shown, \A b \in Applets \ emits : pos[b] = position[b],
         NEW dragging \in BOOLEAN, Reparent(p, q, a, t, index, pos, emits, dragging)
  PROVE  /\ ListsAre(appletList') /\ Shown' = Shown
         /\ a \in ToSet(appletList'[q])
         /\ \A r \in PanelSet : \A b \in Shown \ {a} :
              b \in ToSet(appletList'[r]) <=> b \in ToSet(appletList[r])
         /\ Placed(position') /\ queued \subseteq queued' /\ queued' \subseteq Shown /\ a \in queued'
         /\ \A b \in Applets \ queued' : position'[b] = position[b]
<1> DEFINE shifted == Shifted(appletList[q], pos, t, index)
           moved == MoveToPack(appletList[q], pos, a, t, index)
           left == IF dragging THEN Compressed(appletList[p], moved) ELSE moved
           leftEmits == IF dragging THEN CompressEmits(appletList[p], moved) ELSE {}
           added == Added(q, appletList[q], left)
           addEmits == AddEmits(q, appletList[q], left)
<1>1. /\ a \in Shown /\ a \in Applets /\ \A r \in PanelSet : ToSet(appletList[r]) \subseteq Shown
      /\ queued \subseteq Shown
  BY InvFacts DEF Inv, TypeOK
<1>2. /\ Placed(moved) /\ shifted \subseteq Shown
      /\ \A b \in Applets \ (shifted \union {a}) : moved[b] = pos[b]
  <2>1. Placed(moved) BY <1>1, PlacedMoved
  <2>2. shifted \subseteq ToSet(appletList[q]) BY <1>1, PlacedMoved
  <2>3. \A b \in Applets \ (shifted \union {a}) : moved[b] = pos[b] BY <1>1, PlacedMoved
  <2> HIDE DEF moved, shifted
  <2> QED BY <1>1, <2>1, <2>2, <2>3
<1> HIDE DEF moved, shifted
<1>3. /\ Placed(left) /\ leftEmits \subseteq Shown
      /\ \A b \in Applets \ leftEmits : left[b] = moved[b]
  <2>1. CASE dragging
    <3> DEFINE compressed == Compressed(appletList[p], moved)
               compressEmits == CompressEmits(appletList[p], moved)
    <3>1. left = compressed /\ leftEmits = compressEmits BY <2>1
    <3>2. Placed(compressed) BY <1>2, PlacedCompressed
    <3>3. compressEmits \subseteq ToSet(appletList[p]) BY <1>2, PlacedCompressed
    <3>4. \A b \in Applets \ compressEmits : compressed[b] = moved[b] BY <1>2, PlacedCompressed
    <3> HIDE DEF left, leftEmits, compressed, compressEmits
    <3> QED BY <1>1, <3>1, <3>2, <3>3, <3>4
  <2>2. CASE ~dragging BY <1>2, <2>2
  <2> QED BY <2>1, <2>2
<1> HIDE DEF left, leftEmits
<1>4. /\ Placed(added) /\ addEmits \subseteq Shown
      /\ \A b \in Applets \ addEmits : added[b] = left[b]
  <2>1. /\ Placed(added) /\ addEmits \subseteq ToSet(appletList[q])
        /\ \A b \in Applets \ addEmits : added[b] = left[b]
    BY <1>3, PlacedAdded
  <2> HIDE DEF added, addEmits
  <2> QED BY <1>1, <2>1
<1> HIDE DEF added, addEmits
<1>5. CASE p = q
  <2>1. /\ position' = moved /\ queued' = queued \union emits \union shifted \union {a}
        /\ UNCHANGED appletList
    BY <1>5 DEF Reparent, moved, shifted
  <2>2. Shown' = Shown BY <2>1 DEF Shown
  <2>3. ListsAre(appletList') BY <2>1 DEF Inv
  <2>4. \A b \in Applets \ queued' : position'[b] = position[b] BY <1>2, <2>1
  <2> QED BY <1>1, <1>2, <1>5, <2>1, <2>2, <2>3, <2>4
<1>6. CASE p # q
  <2>1. /\ position' = added
        /\ appletList' = [appletList EXCEPT ![p] = Removed(appletList[p], a),
                                            ![q] = InsertSorted(appletList[q], added, a)]
        /\ queued' = queued \union emits \union shifted \union leftEmits \union addEmits \union {a}
    BY <1>6 DEF Reparent, moved, shifted, left, leftEmits, added, addEmits
  <2>2. appletList \in [PanelSet -> Seq(Applets)] /\ ListsAre(appletList) BY DEF Inv, ListsAre
  <2> DEFINE between == [appletList EXCEPT ![p] = Removed(appletList[p], a)]
  <2>3. /\ ListsAre(between) /\ ToSet(between[p]) = ToSet(appletList[p]) \ {a}
        /\ \A r \in PanelSet \ {p} : between[r] = appletList[r]
    <3>1. Takes(between, appletList, p, Removed(appletList[p], a)) BY DEF Takes
    <3> HIDE DEF between
    <3>2. ListsAre(appletList) /\ a \in ToSet(appletList[p]) BY <2>2
    <3> QED BY <3>1, <3>2, ListsWithout
  <2>4. \A r \in PanelSet : a \notin ToSet(between[r])
    <3>1. \A r \in PanelSet \ {p} : a \notin ToSet(appletList[r]) BY <1>1, InvFacts
    <3> QED BY <2>3, <3>1
  <2>5. Takes(appletList', between, q, InsertSorted(between[q], added, a))
    <3>1. between[q] = appletList[q] BY <1>6, <2>3
    <3>2. appletList' = [between EXCEPT ![q] = InsertSorted(appletList[q], added, a)]
      BY <2>1, <2>2
    <3> HIDE DEF between
    <3> QED BY <3>1, <3>2 DEF Takes
  <2> HIDE DEF between
  <2>6. /\ ListsAre(appletList') /\ ToSet(appletList'[q]) = ToSet(between[q]) \union {a}
        /\ \A r \in PanelSet \ {q} : appletList'[r] = between[r]
    <3>1. ListsAre(between) /\ a \in Applets BY <1>1, <2>3
    <3>2. ListsAre(appletList') /\ OneMoreOn(appletList', between, q, a)
      BY <2>4, <2>5, <3>1, ListsWith
    <3> QED BY <3>2 DEF OneMoreOn
  <2>7. \A r \in PanelSet : \A b \in Shown \ {a} :
          b \in ToSet(appletList'[r]) <=> b \in ToSet(appletList[r])
    BY <2>3, <2>6
  <2>8. Shown' = Shown
    <3>1. Shown' = UNION {ToSet(appletList'[r]) : r \in PanelSet} BY DEF Shown
    <3>2. \A r \in PanelSet : \A b \in ToSet(appletList'[r]) : b = a \/ b \in ToSet(appletList[r])
      BY <2>3, <2>6
    <3>3. a \in ToSet(appletList'[q]) BY <2>6
    <3>4. ASSUME NEW b \in Shown' PROVE b \in Shown
      <4>1. PICK r \in PanelSet : b \in ToSet(appletList'[r]) BY <3>1
      <4> QED BY <1>1, <3>2, <4>1
    <3>5. ASSUME NEW b \in Shown PROVE b \in Shown'
      <4>1. CASE b = a BY <3>1, <3>3, <4>1
      <4>2. CASE b # a
        <5>1. PICK r \in PanelSet : b \in ToSet(appletList[r]) BY DEF Shown
        <5>2. b \in ToSet(appletList'[r]) BY <2>7, <4>2, <5>1
        <5> QED BY <3>1, <5>2
      <4> QED BY <4>1, <4>2
    <3> QED BY <3>4, <3>5
  <2>9. \A b \in Applets \ queued' : position'[b] = position[b] BY <1>2, <1>3, <1>4, <2>1
  <2>10. queued \subseteq queued' /\ queued' \subseteq Shown /\ a \in queued'
    BY <1>1, <1>2, <1>3, <1>4, <2>1
  <2>11. Placed(position') BY <1>4, <2>1
  <2>12. a \in ToSet(appletList'[q]) BY <2>6
  <2> QED BY <2>6, <2>7, <2>8, <2>9, <2>10, <2>11, <2>12
<1> QED BY <1>5, <1>6

LEMMA ReparentKept ==
  ASSUME Inv, NEW p \in PanelSet, NEW q \in PanelSet, NEW a \in ToSet(appletList[p]),
         NEW t \in Int, NEW index \in Int, NEW pos, Placed(pos),
         NEW emits \in SUBSET Shown, \A b \in Applets \ emits : pos[b] = position[b],
         NEW dragging \in BOOLEAN, Reparent(p, q, a, t, index, pos, emits, dragging),
         Edit, UNCHANGED stored,
         dragged' \in [PanelSet -> Applets \union {None}], inDrag' \in BOOLEAN,
         DragsAre(dragged', inDrag', appletList')
  PROVE  Inv'
<1>1. /\ ListsAre(appletList') /\ Shown' = Shown
      /\ \A r \in PanelSet : \A b \in Shown \ {a} :
           b \in ToSet(appletList'[r]) <=> b \in ToSet(appletList[r])
      /\ Placed(position') /\ queued \subseteq queued' /\ queued' \subseteq Shown /\ a \in queued'
      /\ \A b \in Applets \ queued' : position'[b] = position[b]
  BY ReparentIs
<1>2. position' \in [Applets -> Positions \union {None}] /\ edits' \in 0 .. MaxEdits BY EditsCount
<1>3. \A b \in Applets : (position'[b] # None) <=> (b \in Shown')
  BY <1>1, NoneIsNoPosition DEF Placed
<1>4. stored' \in [Applets -> Places \union {None}] BY DEF Inv, TypeOK
<1>5. ASSUME NEW r \in PanelSet, NEW b \in ToSet(appletList'[r]) \ queued'
      PROVE  stored'[b] = [panel |-> r, type |-> position'[b].type, index |-> position'[b].index]
  <2>1. b \in Shown'
    <3>1. Shown' = UNION {ToSet(appletList'[x]) : x \in PanelSet} BY DEF Shown
    <3> QED BY <3>1
  <2>2. b \in Shown /\ b # a /\ b \notin queued BY <1>1, <2>1
  <2>3. b \in ToSet(appletList[r]) BY <1>1, <2>2
  <2>4. b \in Applets /\ r = PanelOf(b) BY <2>2, <2>3, InvFacts
  <2>5. position'[b] = position[b] BY <1>1, <2>4
  <2> QED BY <2>2, <2>4, <2>5 DEF Inv, StoredAsShown
<1> QED BY <1>1, <1>2, <1>3, <1>4, <1>5, InvKept

LEMMA CrossToInv ==
  ASSUME Inv, NEW p \in PanelSet, NEW q \in PanelSet, NEW t \in {START, END},
         NEW started \in BOOLEAN, CrossTo(p, q, t, started)
  PROVE  Inv'
<1> DEFINE a == dragged[p]
           index == NewPackIndex(appletList[q], position, t)
           pos == Compressed(appletList[p], position)
           emits == CompressEmits(appletList[p], position)
<1>1. /\ a # None /\ p # q
      /\ Reparent(p, q, a, t, index, pos, emits, FALSE)
      /\ dragged' = [dragged EXCEPT ![p] = None, ![q] = IF started THEN a ELSE None]
      /\ inDrag' = started /\ UNCHANGED stored
  BY DEF CrossTo
<1>2. Edit BY DEF CrossTo
<1>3. DragsAre(dragged, inDrag, appletList) /\ dragged \in [PanelSet -> Applets \union {None}]
  BY InvFacts DEF Inv, TypeOK
<1>4. a \in ToSet(appletList[p]) BY <1>1, <1>3 DEF DragsAre
<1>5. index \in Int
  <2>1. index \in Nat BY InvFacts, PlacedIs, NewPackIndexIs
  <2> HIDE DEF index
  <2> QED BY <2>1
<1>6. Placed(pos) /\ emits \in SUBSET Shown /\ \A b \in Applets \ emits : pos[b] = position[b]
  BY CompressedPositions
<1>7. t \in Int BY DEF START, END
<1> HIDE DEF a, index, pos, emits
<1>8. a \in ToSet(appletList'[q])
  BY <1>1, <1>4, <1>5, <1>6, <1>7, ReparentIs
<1>9. \A r \in PanelSet : dragged'[r] = IF started /\ r = q THEN a ELSE None
  <2>1. \A r \in PanelSet \ {p} : dragged[r] = None BY <1>1, <1>3 DEF DragsAre, a
  <2> QED BY <1>1, <1>3, <2>1
<1>10. DragsAre(dragged', inDrag', appletList')
  <2>1. CASE started
    <3>1. \A r \in PanelSet : dragged'[r] # None <=> r = q BY <1>1, <1>9, <2>1
    <3>2. dragged'[q] = a /\ inDrag' = TRUE BY <1>1, <1>9, <2>1
    <3> QED BY <1>8, <3>1, <3>2 DEF DragsAre
  <2>2. CASE ~started
    <3>1. inDrag' = FALSE /\ \A r \in PanelSet : dragged'[r] = None BY <1>1, <1>9, <2>2
    <3> QED BY <3>1 DEF DragsAre
  <2> QED BY <2>1, <2>2
<1>11. dragged' \in [PanelSet -> Applets \union {None}]
  <2>1. a \in Applets \union {None} BY <1>3 DEF a
  <2> QED BY <1>1, <1>3, <2>1
<1>12. inDrag' \in BOOLEAN BY <1>1
<1> QED BY <1>1, <1>2, <1>4, <1>5, <1>6, <1>7, <1>10, <1>11, <1>12, ReparentKept

LEMMA TabMoveInv ==
  ASSUME Inv, NEW p \in PanelSet, NEW q \in PanelSet, TabMove(p, q)
  PROVE  Inv'
<1> DEFINE a == dragged[p]
<1>1. /\ a # None
      /\ Reparent(p, q, a, START, 0, position, {}, TRUE)
      /\ dragged' = [dragged EXCEPT ![p] = None]
      /\ inDrag' = FALSE /\ UNCHANGED stored
  BY DEF TabMove
<1>2. Edit BY DEF TabMove
<1>3. /\ DragsAre(dragged, inDrag, appletList) /\ dragged \in [PanelSet -> Applets \union {None}]
      /\ Placed(position)
  BY InvFacts DEF Inv, TypeOK
<1>4. a \in ToSet(appletList[p]) BY <1>1, <1>3 DEF DragsAre
<1>5. START \in Int /\ 0 \in Int BY DEF START
<1>6. {} \in SUBSET Shown /\ \A b \in Applets \ {} : position[b] = position[b] OBVIOUS
<1>7. \A r \in PanelSet : dragged'[r] = None BY <1>1, <1>3 DEF DragsAre
<1>8. /\ DragsAre(dragged', inDrag', appletList') /\ inDrag' \in BOOLEAN
      /\ dragged' \in [PanelSet -> Applets \union {None}]
  BY <1>1, <1>3, <1>7 DEF DragsAre
<1> HIDE DEF a
<1> QED BY <1>1, <1>2, <1>3, <1>4, <1>5, <1>6, <1>8, ReparentKept

LEMMA MoveAppletInv ==
  ASSUME Inv, NEW a \in Applets, NEW q \in PanelSet, NEW t \in {START, END}, MoveApplet(a, q, t)
  PROVE  Inv'
<1> DEFINE p == PanelOf(a)
           index == NewPackIndex(appletList[q], position, t)
<1>1. /\ ~inDrag /\ a \in Shown
      /\ Reparent(p, q, a, t, index, position, {}, FALSE)
      /\ UNCHANGED <<dragged, inDrag, stored>>
  BY DEF MoveApplet, Idle
<1>2. Edit BY DEF MoveApplet
<1>3. /\ DragsAre(dragged, inDrag, appletList) /\ dragged \in [PanelSet -> Applets \union {None}]
      /\ inDrag \in BOOLEAN /\ Placed(position)
  BY InvFacts DEF Inv, TypeOK
<1>4. p \in PanelSet /\ a \in ToSet(appletList[p]) BY <1>1, InvFacts
<1>5. index \in Int
  <2>1. index \in Nat BY InvFacts, PlacedIs, NewPackIndexIs
  <2> HIDE DEF index
  <2> QED BY <2>1
<1>6. {} \in SUBSET Shown /\ \A b \in Applets \ {} : position[b] = position[b] OBVIOUS
<1>7. t \in Int BY DEF START, END
<1>8. /\ DragsAre(dragged', inDrag', appletList') /\ inDrag' \in BOOLEAN
      /\ dragged' \in [PanelSet -> Applets \union {None}]
  BY <1>1, <1>3 DEF DragsAre
<1> HIDE DEF p, index
<1> QED BY <1>1, <1>2, <1>3, <1>4, <1>5, <1>6, <1>7, <1>8, ReparentKept

-----------------------------------------------------------------------------
(***************************************************************************)
(* The invariant holds.                                                    *)
(***************************************************************************)
LEMMA InitInv ==
  ASSUME Init
  PROVE  Inv
<1>1. /\ stored \in [Applets -> Places \union {None}]
      /\ position = [a \in Applets |->
                       IF stored[a] = None THEN None
                       ELSE [type |-> stored[a].type, index |-> stored[a].index]]
      /\ appletList \in [PanelSet -> UNION {SetToSeqs(shown) : shown \in SUBSET Applets}]
      /\ \A p \in PanelSet :
           ToSet(appletList[p]) = {a \in Applets : stored[a] # None /\ stored[a].panel = p}
      /\ dragged = [p \in PanelSet |-> None] /\ inDrag = FALSE /\ queued = {} /\ edits = 0
  BY DEF Init
<1>2. ASSUME NEW shown \in SUBSET Applets, NEW list \in SetToSeqs(shown) PROVE IsList(list)
  <2>1. IsFiniteSet(shown) BY BoundAssumption, FS_Subset
  <2>2. Cardinality(shown) \in Nat BY <2>1, FS_CardinalityType
  <2> DEFINE n == Cardinality(shown)
  <2>3. list \in [1 .. n -> shown] /\ \A i, j \in 1 .. n : i # j => list[i] # list[j]
    BY DEF SetToSeqs
  <2> HIDE DEF n
  <2>4. n \in Nat BY <2>2 DEF n
  <2>5. list \in Seq(Applets) BY <2>3, <2>4
  <2>6. IsInjective(list) BY <2>3 DEF IsInjective
  <2> QED BY <2>5, <2>6 DEF IsList
<1>3. ASSUME NEW p \in PanelSet PROVE IsList(appletList[p])
  <2>1. PICK shown \in SUBSET Applets : appletList[p] \in SetToSeqs(shown) BY <1>1
  <2> QED BY <1>2, <2>1
<1>4. \A a \in Applets : stored[a] # None =>
        /\ stored[a].panel \in PanelSet
        /\ [type |-> stored[a].type, index |-> stored[a].index] \in Positions
        /\ stored[a] = [panel |-> stored[a].panel, type |-> stored[a].type, index |-> stored[a].index]
  <2> SUFFICES ASSUME NEW a \in Applets, stored[a] # None
               PROVE  /\ stored[a].panel \in PanelSet
                      /\ [type |-> stored[a].type, index |-> stored[a].index] \in Positions
                      /\ stored[a] = [panel |-> stored[a].panel, type |-> stored[a].type,
                                      index |-> stored[a].index]
    OBVIOUS
  <2>1. stored[a] \in Places BY <1>1
  <2> QED BY <2>1 DEF Places, Positions
<1>5. ListsAre(appletList)
  <2>1. appletList \in [PanelSet -> Seq(Applets)]
    <3>1. appletList = [p \in PanelSet |-> appletList[p]] BY <1>1
    <3> QED BY <1>3, <3>1 DEF IsList
  <2>2. \A p, q \in PanelSet : p # q => ToSet(appletList[p]) \intersect ToSet(appletList[q]) = {}
    BY <1>1
  <2> QED BY <1>3, <2>1, <2>2 DEF ListsAre
<1>6. Shown = {a \in Applets : stored[a] # None} BY <1>1, <1>4 DEF Shown
<1>7. position \in [Applets -> Positions \union {None}] BY <1>1, <1>4
<1>8. \A a \in Applets : (position[a] # None) <=> (a \in Shown)
  BY <1>1, <1>4, <1>6, NoneIsNoPosition
<1>9. ASSUME NEW p \in PanelSet, NEW a \in ToSet(appletList[p])
      PROVE  stored[a] = [panel |-> p, type |-> position[a].type, index |-> position[a].index]
  <2>1. a \in Applets /\ stored[a] # None /\ stored[a].panel = p BY <1>1
  <2>2. position[a] = [type |-> stored[a].type, index |-> stored[a].index] BY <1>1, <2>1
  <2> QED BY <1>4, <2>1, <2>2
<1>10. TypeOK
  <2>1. /\ dragged \in [PanelSet -> Applets \union {None}] /\ inDrag \in BOOLEAN
        /\ queued \subseteq Shown /\ edits \in 0 .. MaxEdits
    <3>1. dragged \in [PanelSet -> Applets \union {None}] BY <1>1
    <3>2. inDrag \in BOOLEAN /\ queued \subseteq Shown BY <1>1
    <3>3. edits \in 0 .. MaxEdits BY <1>1, BoundAssumption
    <3> QED BY <3>1, <3>2, <3>3
  <2> QED BY <1>1, <1>5, <1>7, <1>8, <2>1 DEF TypeOK, ListsAre
<1>11. StoredAsShown
  <2> SUFFICES ASSUME NEW a \in Shown
               PROVE  stored[a] = [panel |-> PanelOf(a), type |-> position[a].type,
                                   index |-> position[a].index]
    BY DEF StoredAsShown
  <2>1. PICK p \in PanelSet : a \in ToSet(appletList[p]) BY DEF Shown
  <2>2. PanelIn(appletList, a) = p BY <1>5, <2>1, PanelInIs
  <2>3. PanelOf(a) = p BY <2>2 DEF PanelOf, PanelIn
  <2> QED BY <1>9, <2>1, <2>3
<1>12. DragIsOfShown BY <1>1 DEF DragIsOfShown
<1> QED BY <1>5, <1>10, <1>11, <1>12 DEF Inv

LEMMA NextInv ==
  ASSUME Inv, [Next]_vars
  PROVE  Inv'
<1>1. CASE Next
  <2>1. ASSUME NEW a \in Applets, Register(a) PROVE Inv' BY <2>1, RegisterInv
  <2>2. ASSUME NEW a \in Applets, NEW p \in PanelSet, NEW t \in {START, END}, Create(a, p, t)
        PROVE  Inv'
    BY <2>2, CreateInv
  <2>3. ASSUME NEW a \in Applets, NEW p \in PanelSet, NEW t \in {START, END}, MoveApplet(a, p, t)
        PROVE  Inv'
    BY <2>3, MoveAppletInv
  <2>4. ASSUME NEW a \in Applets, NEW p \in PanelSet, NEW grabbed \in BOOLEAN,
               DragStart(p, a, grabbed)
        PROVE  Inv'
    BY <2>4, DragStartInv
  <2>5. ASSUME NEW a \in Applets, NEW deleted \in BOOLEAN, Destroyed(a, deleted) PROVE Inv'
    BY <2>5, DestroyedInv
  <2>6. ASSUME NEW p \in PanelSet, DragEnd(p) PROVE Inv' BY <2>6, DragEndInv
  <2>7. ASSUME NEW p \in PanelSet, SwitchRight(p) \/ SwitchLeft(p) \/ PushRight(p) \/ PushLeft(p)
        PROVE  Inv'
    BY <2>7, DragStepInv
  <2>8. ASSUME NEW p \in PanelSet, CrossRefused(p) PROVE Inv' BY <2>8, CrossRefusedInv
  <2>9. ASSUME NEW p \in PanelSet, NEW q \in PanelSet, NEW t \in {START, END},
               NEW started \in BOOLEAN, CrossTo(p, q, t, started)
        PROVE  Inv'
    BY <2>9, CrossToInv
  <2>10. ASSUME NEW p \in PanelSet, NEW q \in PanelSet, TabMove(p, q) PROVE Inv'
    BY <2>10, TabMoveInv
  <2>11. CASE SaveTimeout BY <2>11, SaveTimeoutInv
  <2>12. CASE Restart BY <2>12, RestartInv
  <2> QED
    BY <1>1, <2>1, <2>2, <2>3, <2>4, <2>5, <2>6, <2>7, <2>8, <2>9, <2>10, <2>11, <2>12 DEF Next
<1>2. CASE UNCHANGED vars
  BY <1>2 DEF vars, Inv, TypeOK, ListsAre, StoredAsShown, DragIsOfShown, Shown, PanelOf
<1> QED BY <1>1, <1>2

LEMMA InvHolds == Spec => []Inv
BY InitInv, NextInv, PTL DEF Spec

\* Every variable has its type, and an applet has a position exactly while a
\* panel shows it (AppletData of panel-widget.c).
THEOREM TypeCorrect == Spec => []TypeOK
<1>1. Inv => TypeOK BY DEF Inv
<1> QED BY <1>1, InvHolds, PTL

\* Whatever moves an applet, or makes room for one that moves, queues its
\* position to be saved (emit_applet_moved of panel-widget.c): no applet that is
\* not queued is shown elsewhere than where GSettings has it.
THEOREM MovesAreSaved == Spec => []StoredAsShown
<1>1. Inv => StoredAsShown BY DEF Inv
<1> QED BY <1>1, InvHolds, PTL

\* currently_dragged_applet is on the panel that drags it, on one panel at most,
\* and panel_applet_in_drag says whether there is one.
THEOREM OneDragOfShown == Spec => []DragIsOfShown
<1>1. Inv => DragIsOfShown BY DEF Inv
<1> QED BY <1>1, InvHolds, PTL

-----------------------------------------------------------------------------
(***************************************************************************)
(* Lists stay sorted.                                                      *)
(***************************************************************************)
LEMMA SortedSame ==
  ASSUME NEW list, NEW pos, NEW new, SortedBy(list, pos),
         \A a \in ToSet(list) : new[a] = pos[a]
  PROVE  SortedBy(list, new)
BY DEF SortedBy, ToSet

LEMMA MovedSorted ==
  ASSUME NEW list, IsList(list), NEW pos, HasPositions(list, pos), SortedBy(list, pos),
         NEW a \in Applets, a \notin ToSet(list), NEW t \in Int, NEW index \in Int
  PROVE  SortedBy(list, MoveToPack(list, pos, a, t, index))
<1> DEFINE new == MoveToPack(list, pos, a, t, index)
           shifted == Shifted(list, pos, t, index)
<1>1. HasPositions(list, new) /\ HasMoved(new, list, pos, a, t, index) BY MoveToPackIs
<1> HIDE DEF new
<1> SUFFICES ASSUME NEW i \in DOMAIN list, NEW j \in DOMAIN list, i < j
             PROVE  Compare(new[list[i]], new[list[j]]) <= 0
  BY DEF SortedBy, new
<1> DEFINE x == list[i]
           y == list[j]
<1>2. x \in ToSet(list) /\ y \in ToSet(list) BY DEF ToSet
<1>3. x \in Applets \ {a} /\ y \in Applets \ {a}
  <2>1. ToSet(list) \subseteq Applets BY DEF IsList, ToSet
  <2> QED BY <1>2, <2>1
<1>4. /\ pos[x] \in AnyPosition /\ pos[y] \in AnyPosition
      /\ new[x] \in AnyPosition /\ new[y] \in AnyPosition
  BY <1>1, <1>2 DEF HasPositions
<1>5. Compare(pos[x], pos[y]) <= 0 BY DEF SortedBy
<1> HIDE DEF x, y
<1> SUFFICES Compare(new[x], new[y]) <= 0 BY DEF x, y
<1>6. /\ x \in shifted <=> ~(index < 0) /\ pos[x].type = t /\ pos[x].index >= index
      /\ y \in shifted <=> ~(index < 0) /\ pos[y].type = t /\ pos[y].index >= index
  BY <1>2 DEF Shifted
<1> HIDE DEF shifted
<1>7. /\ x \in shifted => new[x].type = pos[x].type /\ new[x].index = pos[x].index + 1
      /\ x \notin shifted => new[x] = pos[x]
  <2>1. x \in shifted => new[x] = [type |-> t, index |-> pos[x].index + 1] BY <1>1, <1>3 DEF HasMoved, shifted
  <2>2. x \notin shifted => new[x] = pos[x] BY <1>1, <1>3 DEF HasMoved, shifted
  <2> QED BY <1>6, <2>1, <2>2
<1>8. /\ y \in shifted => new[y].type = pos[y].type /\ new[y].index = pos[y].index + 1
      /\ y \notin shifted => new[y] = pos[y]
  <2>1. y \in shifted => new[y] = [type |-> t, index |-> pos[y].index + 1] BY <1>1, <1>3 DEF HasMoved, shifted
  <2>2. y \notin shifted => new[y] = pos[y] BY <1>1, <1>3 DEF HasMoved, shifted
  <2> QED BY <1>6, <2>1, <2>2
<1>9. /\ pos[x].type \in Int /\ pos[y].type \in Int /\ pos[x].index \in Int /\ pos[y].index \in Int
  BY <1>4 DEF AnyPosition
<1>10. \/ pos[x].type < pos[y].type
       \/ pos[x].type = pos[y].type /\ pos[x].type # END /\ pos[x].index <= pos[y].index
       \/ pos[x].type = pos[y].type /\ pos[x].type = END /\ pos[y].index <= pos[x].index
  BY <1>4, <1>5, CompareIs
<1>11. \/ new[x].type < new[y].type
       \/ new[x].type = new[y].type /\ new[x].type # END /\ new[x].index <= new[y].index
       \/ new[x].type = new[y].type /\ new[x].type = END /\ new[y].index <= new[x].index
  BY <1>6, <1>7, <1>8, <1>9, <1>10
<1> QED BY <1>4, <1>11, CompareIs

\* A move from p to q: q stays sorted, and p if its indexes are not counted
\* again with the applet that leaves.
LEMMA ReparentSorted ==
  ASSUME Inv, NEW p \in PanelSet, NEW q \in PanelSet, p # q, NEW a \in ToSet(appletList[p]),
         NEW t \in Int, NEW index \in Int, NEW pos, Placed(pos), NEW emits,
         NEW dragging \in BOOLEAN, Reparent(p, q, a, t, index, pos, emits, dragging),
         NEW r \in PanelSet, SortedBy(appletList[r], pos), r # p \/ ~dragging
  PROVE  SortedOn(r)'
<1> DEFINE moved == MoveToPack(appletList[q], pos, a, t, index)
           left == IF dragging THEN Compressed(appletList[p], moved) ELSE moved
           added == Added(q, appletList[q], left)
           shifted == Shifted(appletList[q], pos, t, index)
<1>1. /\ a \in Shown /\ a \in Applets /\ ListsAre(appletList)
      /\ \A x \in PanelSet : ToSet(appletList[x]) \subseteq Applets
      /\ \A x \in PanelSet \ {p} : a \notin ToSet(appletList[x])
      /\ \A x \in PanelSet \ {q} : ToSet(appletList[x]) \intersect ToSet(appletList[q]) = {}
      /\ \A x \in PanelSet \ {p} : ToSet(appletList[x]) \intersect ToSet(appletList[p]) = {}
  <2>1. a \in Shown /\ a \in Applets /\ \A x \in PanelSet : ToSet(appletList[x]) \subseteq Applets
    BY InvFacts
  <2>2. ListsAre(appletList) BY DEF Inv
  <2> QED BY <2>1, <2>2 DEF ListsAre
<1>2. /\ position' = added
      /\ appletList' = [appletList EXCEPT ![p] = Removed(appletList[p], a),
                                          ![q] = InsertSorted(appletList[q], added, a)]
  BY DEF Reparent
<1>3. Placed(moved) BY <1>1, PlacedMoved
<1>4. \A b \in Applets \ (shifted \union {a}) : moved[b] = pos[b] BY <1>1, PlacedMoved
<1>5. shifted \subseteq ToSet(appletList[q]) BY <1>1, PlacedMoved
<1>6. r = q => SortedBy(appletList[q], moved)
  <2>1. IsList(appletList[q]) /\ HasPositions(appletList[q], pos) BY PlacedIs
  <2> QED BY <1>1, <2>1, MovedSorted
<1>7. \A b \in Applets \ (ToSet(appletList[q]) \union {a}) : moved[b] = pos[b] BY <1>4, <1>5
<1> HIDE DEF moved, shifted
<1>8. Placed(left)
  <2>1. dragging => Placed(Compressed(appletList[p], moved)) BY <1>3, PlacedCompressed
  <2> QED BY <1>3, <2>1
<1>9. \A b \in Applets \ ToSet(appletList[p]) : left[b] = moved[b]
  <2>1. IsList(appletList[p]) /\ HasPositions(appletList[p], moved) BY <1>3, PlacedIs
  <2>2. \A b \in Applets \ ToSet(appletList[p]) : Compressed(appletList[p], moved)[b] = moved[b]
    BY <2>1, CompressedIs
  <2> QED BY <2>2
<1>10. ~dragging => left = moved OBVIOUS
<1> HIDE DEF left
<1>11. IsList(appletList[q]) /\ HasPositions(appletList[q], left) BY <1>8, PlacedIs
<1>12. \A b \in Applets \ ToSet(appletList[q]) : added[b] = left[b] BY <1>11, AddedIs
<1>13. SortedBy(appletList[q], left) => SortedBy(appletList[q], added) BY <1>11, AddedIs
<1>14. Placed(added) BY <1>8, PlacedAdded
<1> HIDE DEF added
<1>15. SortedOn(r)' = SortedBy(appletList'[r], position') BY DEF SortedOn, SortedBy
<1>16. appletList \in [PanelSet -> Seq(Applets)] BY <1>1 DEF ListsAre
<1>17. CASE r = q
  <2>1. appletList'[r] = InsertSorted(appletList[q], added, a) BY <1>2, <1>16, <1>17
  <2>2. \A b \in ToSet(appletList[q]) : left[b] = moved[b] BY <1>1, <1>9
  <2>3. SortedBy(appletList[q], left) BY <1>6, <1>17, <2>2, SortedSame
  <2>4. SortedBy(appletList[q], added) BY <1>13, <2>3
  <2>5. HasPositions(appletList[q], added) BY <1>14, PlacedIs
  <2>6. added[a] \in AnyPosition BY <1>1, <1>14 DEF Placed
  <2>7. a \notin ToSet(appletList[q]) BY <1>1
  <2>8. SortedBy(InsertSorted(appletList[q], added, a), added)
    BY <1>1, <1>11, <2>4, <2>5, <2>6, <2>7, SortedInserted
  <2> QED BY <1>2, <1>15, <2>1, <2>8
<1>18. CASE r = p
  <2>1. appletList'[r] = Removed(appletList[p], a) BY <1>2, <1>16, <1>18
  <2>2. SortedBy(Removed(appletList[p], a), pos) BY <1>1, <1>18, SortedRemoved DEF ListsAre
  <2>3. ToSet(Removed(appletList[p], a)) = ToSet(appletList[p]) \ {a} BY <1>1, RemovedIs DEF ListsAre
  <2>4. \A b \in ToSet(Removed(appletList[p], a)) : added[b] = pos[b]
    <3>1. ASSUME NEW b \in ToSet(appletList[p]) \ {a} PROVE added[b] = pos[b]
      <4>1. b \in Applets /\ b \notin ToSet(appletList[q]) /\ b # a BY <1>1
      <4>2. left[b] = moved[b] BY <1>10, <1>18
      <4> QED BY <1>7, <1>12, <4>1, <4>2
    <3> QED BY <2>3, <3>1
  <2>5. SortedBy(Removed(appletList[p], a), added) BY <2>2, <2>4, SortedSame
  <2> QED BY <1>2, <1>15, <2>1, <2>5
<1>19. CASE r # p /\ r # q
  <2>1. appletList'[r] = appletList[r] BY <1>2, <1>16, <1>19
  <2>2. ASSUME NEW b \in ToSet(appletList[r]) PROVE added[b] = pos[b]
    <3>1. b \in Applets /\ b \notin ToSet(appletList[q]) /\ b \notin ToSet(appletList[p]) /\ b # a
      BY <1>1, <1>19
    <3> QED BY <1>7, <1>9, <1>12, <3>1
  <2>3. SortedBy(appletList[r], added) BY <2>2, SortedSame
  <2> QED BY <1>2, <1>15, <2>1, <2>3
<1> QED BY <1>17, <1>18, <1>19

LEMMA SortedFacts ==
  ASSUME Inv, NEW r \in PanelSet, SortedOn(r)
  PROVE  /\ SortedBy(appletList[r], position)
         /\ IsList(appletList[r]) /\ HasPositions(appletList[r], position)
         /\ InPacks(appletList[r], position)
         /\ \A a \in ToSet(appletList[r]) : position[a].index >= 0 /\ a \in Applets
<1>1. SortedBy(appletList[r], position) BY DEF SortedOn, SortedBy
<1>2. Placed(position) /\ \A a \in ToSet(appletList[r]) :
        position[a].type \in PackTypes /\ position[a].index \in Nat /\ a \in Applets
  BY InvFacts
<1> QED BY <1>1, <1>2, PlacedIs DEF InPacks

\* Steps that leave the list, and the positions of what is on it, as they are.
LEMMA SortedUntouched ==
  ASSUME NEW r \in PanelSet, SortedOn(r), appletList'[r] = appletList[r],
         \A a \in ToSet(appletList[r]) : position'[a] = position[a]
  PROVE  SortedOn(r)'
<1>1. SortedBy(appletList[r], position) BY DEF SortedOn, SortedBy
<1>2. SortedBy(appletList[r], position') BY <1>1, SortedSame
<1> QED BY <1>2 DEF SortedOn, SortedBy

\* Steps that count the indexes of p again.
LEMMA CompressedStaysSorted ==
  ASSUME Inv, NEW p \in PanelSet, UNCHANGED appletList,
         position' = Compressed(appletList[p], position), NEW r \in PanelSet, SortedOn(r)
  PROVE  SortedOn(r)'
<1>1. /\ SortedBy(appletList[r], position)
      /\ IsList(appletList[r]) /\ HasPositions(appletList[r], position)
      /\ InPacks(appletList[r], position) /\ \A a \in ToSet(appletList[r]) : a \in Applets
  BY SortedFacts
<1>2. CASE r = p
  <2>1. SortedBy(appletList[r], Compressed(appletList[r], position)) BY <1>1, CompressedSorted
  <2> QED BY <1>2, <2>1 DEF SortedOn, SortedBy
<1>3. CASE r # p
  <2>1. IsList(appletList[p]) /\ HasPositions(appletList[p], position) BY InvFacts, PlacedIs
  <2>2. \A a \in Applets \ ToSet(appletList[p]) : position'[a] = position[a] BY <2>1, CompressedIs
  <2>3. ToSet(appletList[r]) \intersect ToSet(appletList[p]) = {} BY <1>3 DEF Inv, ListsAre
  <2> QED BY <1>1, <2>2, <2>3, SortedUntouched
<1> QED BY <1>2, <1>3

LEMMA RegisterSorted ==
  ASSUME Inv, NEW a \in Applets, Register(a), NEW r \in PanelSet, SortedOn(r)
  PROVE  SortedOn(r)'
<1> DEFINE p == stored[a].panel
<1>1. /\ stored[a] # None /\ a \notin Shown
      /\ position' = [position EXCEPT ![a] = [type |-> stored[a].type, index |-> stored[a].index]]
      /\ appletList' = [appletList EXCEPT ![p] = InsertSorted(appletList[p], position', a)]
  BY DEF Register
<1>2. /\ stored[a] \in Places /\ position \in [Applets -> Positions \union {None}]
      /\ appletList \in [PanelSet -> Seq(Applets)]
  BY <1>1 DEF Inv, TypeOK
<1>3. p \in PanelSet /\ [type |-> stored[a].type, index |-> stored[a].index] \in AnyPosition
  <2>1. stored[a].type \in Int /\ stored[a].index \in Int
    BY <1>2, BoundAssumption DEF Places, PackTypes, START, END
  <2> QED BY <1>2, <2>1 DEF Places, AnyPosition
<1> HIDE DEF p
<1>4. a \notin ToSet(appletList[r]) BY <1>1, InvFacts
<1>5. /\ SortedBy(appletList[r], position)
      /\ IsList(appletList[r]) /\ HasPositions(appletList[r], position)
      /\ \A b \in ToSet(appletList[r]) : b \in Applets
  BY SortedFacts
<1>6. \A b \in ToSet(appletList[r]) : position'[b] = position[b] BY <1>1, <1>2, <1>4, <1>5
<1>7. CASE r = p
  <2>1. position'[a] \in AnyPosition BY <1>1, <1>2, <1>3
  <2>2. SortedBy(appletList[r], position') BY <1>5, <1>6, SortedSame
  <2>3. HasPositions(appletList[r], position')
    <3>1. position' \in [Applets -> AnyPosition \union {None}]
      <4>1. position \in [Applets -> AnyPosition \union {None}] BY <1>5 DEF HasPositions
      <4> QED BY <1>1, <1>3, <4>1
    <3> QED BY <1>5, <1>6, <3>1 DEF HasPositions
  <2>4. SortedBy(InsertSorted(appletList[r], position', a), position')
    BY <1>4, <1>5, <2>1, <2>2, <2>3, SortedInserted
  <2>5. appletList'[r] = InsertSorted(appletList[r], position', a) BY <1>1, <1>2, <1>7
  <2> QED BY <2>4, <2>5 DEF SortedOn, SortedBy
<1>8. CASE r # p
  <2>1. appletList'[r] = appletList[r] BY <1>1, <1>2, <1>8
  <2> QED BY <1>6, <2>1, SortedUntouched
<1> QED BY <1>7, <1>8

LEMMA DestroyedSorted ==
  ASSUME Inv, NEW a \in Applets, NEW deleted \in BOOLEAN, Destroyed(a, deleted),
         NEW r \in PanelSet, SortedOn(r)
  PROVE  SortedOn(r)'
<1> DEFINE p == PanelOf(a)
           pos == IF dragged[p] = a THEN Compressed(appletList[p], position) ELSE position
<1>1. Unlisted(a, deleted) /\ position' = [pos EXCEPT ![a] = None] BY DEF Destroyed
<1>2. /\ p \in PanelSet /\ a \in ToSet(appletList[p])
      /\ appletList'[p] = Removed(appletList[p], a)
      /\ \A q \in PanelSet \ {p} : appletList'[q] = appletList[q]
      /\ \A q \in PanelSet : ToSet(appletList'[q]) = ToSet(appletList[q]) \ {a}
  BY <1>1, UnlistedIs
<1>3. /\ SortedBy(appletList[r], position)
      /\ IsList(appletList[r]) /\ HasPositions(appletList[r], position)
      /\ InPacks(appletList[r], position) /\ \A b \in ToSet(appletList[r]) : b \in Applets
  BY SortedFacts
<1>4. /\ Placed(pos) /\ \A b \in Applets \ ToSet(appletList[p]) : pos[b] = position[b]
      /\ r = p => SortedBy(appletList[r], pos)
  <2>1. IsList(appletList[p]) /\ HasPositions(appletList[p], position) /\ Placed(position)
    BY <1>2, InvFacts, PlacedIs
  <2>2. \A b \in Applets \ ToSet(appletList[p]) : Compressed(appletList[p], position)[b] = position[b]
    BY <2>1, CompressedIs
  <2>3. Placed(Compressed(appletList[p], position)) BY <1>2, CompressedPositions
  <2>4. SortedBy(appletList[r], Compressed(appletList[r], position)) BY <1>3, CompressedSorted
  <2> QED BY <1>3, <2>1, <2>2, <2>3, <2>4
<1> HIDE DEF pos, p
<1>5. \A b \in Applets \ {a} : position'[b] = pos[b] BY <1>1, <1>4 DEF Placed
<1>6. CASE r = p
  <2>1. SortedBy(Removed(appletList[r], a), pos) BY <1>2, <1>3, <1>4, <1>6, SortedRemoved
  <2>2. appletList'[r] = Removed(appletList[r], a) /\ ToSet(appletList'[r]) = ToSet(appletList[r]) \ {a}
    BY <1>2, <1>6
  <2>3. \A b \in ToSet(appletList'[r]) : position'[b] = pos[b] BY <1>3, <1>5, <2>2
  <2>4. SortedBy(appletList'[r], pos) BY <2>1, <2>2
  <2>5. SortedBy(appletList'[r], position') BY <2>3, <2>4, SortedSame
  <2> QED BY <2>5 DEF SortedOn, SortedBy
<1>7. CASE r # p
  <2>1. ToSet(appletList[r]) \intersect ToSet(appletList[p]) = {} BY <1>2, <1>7 DEF Inv, ListsAre
  <2>2. \A b \in ToSet(appletList[r]) : position'[b] = position[b] BY <1>2, <1>3, <1>4, <1>5, <2>1
  <2> QED BY <1>2, <1>7, <2>2, SortedUntouched
<1> QED BY <1>6, <1>7

LEMMA DragStepSorted ==
  ASSUME Inv, NEW p \in PanelSet,
         SwitchRight(p) \/ SwitchLeft(p) \/ PushRight(p) \/ PushLeft(p),
         NEW r \in PanelSet, SortedOn(r)
  PROVE  SortedOn(r)'
<1>1. Swapping(p) \/ Leaving(p) BY DragStepIs
<1>2. position' \in [Applets -> Positions \union {None}]
  <2>1. DragStep(p) BY DragStepIs
  <2>2. Edit BY <2>1 DEF DragStep
  <2> QED BY <2>2, EditsCount
<1>3. /\ SortedBy(appletList[r], position)
      /\ IsList(appletList[r]) /\ HasPositions(appletList[r], position)
      /\ InPacks(appletList[r], position)
      /\ \A b \in ToSet(appletList[r]) : b \in Applets /\ position[b].index >= 0
  BY SortedFacts
<1>4. CASE Swapping(p)
  <2>1. PICK i \in DOMAIN appletList[p], j \in DOMAIN appletList[p] :
          SamePack(appletList[p], i, j) /\ Swap(p, i, j)
    BY <1>4 DEF Swapping
  <2>2. /\ queued' = queued \union {appletList[p][i], appletList[p][j]}
        /\ \A q \in PanelSet \ {p} : appletList'[q] = appletList[q]
        /\ DOMAIN appletList'[p] = DOMAIN appletList[p]
        /\ \A k \in DOMAIN appletList[p] : position'[appletList'[p][k]] = position[appletList[p][k]]
    BY <2>1, SwapIs
  <2>3. CASE r = p
    <3>1. SortedBy(appletList'[r], position') BY <1>3, <2>2, <2>3 DEF SortedBy
    <3> QED BY <3>1 DEF SortedOn, SortedBy
  <2>4. CASE r # p
    <3>1. \A b \in ToSet(appletList[r]) : position'[b] = position[b]
      <4>1. appletList[p][i] \in ToSet(appletList[p]) /\ appletList[p][j] \in ToSet(appletList[p])
        BY DEF ToSet
      <4>2. ToSet(appletList[r]) \intersect ToSet(appletList[p]) = {} BY <2>4 DEF Inv, ListsAre
      <4>3. DOMAIN position = Applets BY DEF Inv, TypeOK
      <4>4. position' = [position EXCEPT ![appletList[p][i]].index = position[appletList[p][j]].index,
                                         ![appletList[p][j]].index = position[appletList[p][i]].index]
        BY <2>1 DEF Swap
      <4>5. \A b \in Applets : b # appletList[p][i] /\ b # appletList[p][j] =>
              position'[b] = position[b]
        BY <4>3, <4>4
      <4> QED BY <1>3, <4>1, <4>2, <4>5
    <3> QED BY <2>2, <2>4, <3>1, SortedUntouched
  <2> QED BY <2>3, <2>4
<1>5. CASE Leaving(p)
  <2>1. PICK block, lo, hi, t :
          AtBorder(appletList[p], position, block, lo, hi, t) /\ MoveBlock(p, block, t)
    BY <1>5 DEF Leaving
  <2>2. /\ UNCHANGED appletList
        /\ \A q \in PanelSet \ {p} : \A b \in ToSet(appletList[q]) : position'[b] = position[b]
    BY <2>1, LeavingIs
  <2>3. position' = BlockMoved(p, block, t) BY <2>1 DEF MoveBlock
  <2>4. CASE r = p
    <3>1. t \in PackTypes
      <4>1. /\ block \in Seq(Applets) /\ IsInjective(block) /\ block # <<>>
            /\ ToSet(block) = {appletList[r][k] : k \in lo .. hi}
            /\ t \in Int /\ \A b \in ToSet(block) : position[b].type # t
        BY <1>3, <2>1, <2>4, BlockIsList
      <4>2. ToSet(block) \subseteq ToSet(appletList[r])
        <5>1. lo \in DOMAIN appletList[r] /\ hi \in DOMAIN appletList[r] BY <2>1, <2>4 DEF AtBorder
        <5>2. DOMAIN appletList[r] = 1 .. Len(appletList[r]) /\ Len(appletList[r]) \in Nat
          BY <1>3 DEF IsList
        <5>3. \A k \in lo .. hi : k \in DOMAIN appletList[r] BY <5>1, <5>2
        <5> QED BY <4>1, <5>3 DEF ToSet
      <4> DEFINE n == Len(block)
                 m == NewPackIndex(appletList[r], position, t)
                 first == BlockIndex(block, t) = 0
      <4>3. \A j \in 1 .. n : position'[block[j]] = MovedPlace(m, n, j, t, first)
        BY <1>3, <2>3, <2>4, <4>1, <4>2, BlockMovedIs
      <4>4. 1 \in 1 .. n /\ block[1] \in Applets BY <4>1
      <4>5. HasPositions(appletList[r], position')
        BY <1>3, <2>3, <2>4, <4>1, <4>2, BlockMovedIs
      <4> HIDE DEF n, m, first
      <4>6. position'[block[1]].type = t
        <5>1. position'[block[1]] = MovedPlace(m, n, 1, t, first) BY <4>3, <4>4
        <5> QED BY <5>1 DEF MovedPlace
      <4>7. block[1] \in ToSet(block) BY <4>1 DEF ToSet
      <4>8. position'[block[1]] \in AnyPosition BY <4>2, <4>5, <4>7 DEF HasPositions
      <4>9. position'[block[1]] \in Positions BY <1>2, <4>4, <4>8, NoneIsNoPosition
      <4> QED BY <4>6, <4>9 DEF Positions
    <3>2. SortedBy(appletList[r], BlockMoved(r, block, t))
      BY <1>3, <2>1, <2>4, <3>1, BlockMovedSorted
    <3> QED BY <2>2, <2>3, <2>4, <3>2 DEF SortedOn, SortedBy
  <2>5. CASE r # p BY <2>2, <2>5, SortedUntouched
  <2> QED BY <2>4, <2>5
<1> QED BY <1>1, <1>4, <1>5

LEMMA CrossToSorted ==
  ASSUME Inv, NEW p \in PanelSet, NEW q \in PanelSet, NEW t \in {START, END},
         NEW started \in BOOLEAN, CrossTo(p, q, t, started), NEW r \in PanelSet, SortedOn(r)
  PROVE  SortedOn(r)'
<1> DEFINE a == dragged[p]
           index == NewPackIndex(appletList[q], position, t)
           pos == Compressed(appletList[p], position)
           emits == CompressEmits(appletList[p], position)
<1>1. a # None /\ p # q /\ Reparent(p, q, a, t, index, pos, emits, FALSE) BY DEF CrossTo
<1>2. a \in ToSet(appletList[p]) BY <1>1, InvFacts DEF DragsAre
<1>3. index \in Int
  <2>1. index \in Nat BY InvFacts, PlacedIs, NewPackIndexIs
  <2> HIDE DEF index
  <2> QED BY <2>1
<1>4. Placed(pos) BY CompressedPositions
<1>5. t \in Int BY DEF START, END
<1>6. SortedBy(appletList[r], pos)
  <2>1. /\ SortedBy(appletList[r], position)
        /\ IsList(appletList[r]) /\ HasPositions(appletList[r], position)
        /\ InPacks(appletList[r], position) /\ \A b \in ToSet(appletList[r]) : b \in Applets
    BY SortedFacts
  <2>2. CASE r = p BY <2>1, <2>2, CompressedSorted
  <2>3. CASE r # p
    <3>1. IsList(appletList[p]) /\ HasPositions(appletList[p], position) BY InvFacts, PlacedIs
    <3>2. \A b \in Applets \ ToSet(appletList[p]) : pos[b] = position[b] BY <3>1, CompressedIs
    <3>3. ToSet(appletList[r]) \intersect ToSet(appletList[p]) = {} BY <2>3 DEF Inv, ListsAre
    <3> HIDE DEF pos
    <3> QED BY <2>1, <3>2, <3>3, SortedSame
  <2> QED BY <2>2, <2>3
<1> HIDE DEF a, index, pos, emits
<1> QED BY <1>1, <1>2, <1>3, <1>4, <1>5, <1>6, ReparentSorted

LEMMA TabMoveSorted ==
  ASSUME Inv, NEW p \in PanelSet, NEW q \in PanelSet, TabMove(p, q),
         NEW r \in PanelSet \ {p}, SortedOn(r)
  PROVE  SortedOn(r)'
<1> DEFINE a == dragged[p]
<1>1. a # None /\ p # q /\ Reparent(p, q, a, START, 0, position, {}, TRUE) BY DEF TabMove
<1>2. a \in ToSet(appletList[p]) /\ Placed(position) BY <1>1, InvFacts DEF DragsAre
<1>3. START \in Int /\ 0 \in Int BY DEF START
<1>4. SortedBy(appletList[r], position) BY SortedFacts
<1> HIDE DEF a
<1> QED BY <1>1, <1>2, <1>3, <1>4, ReparentSorted

LEMMA MoveAppletSorted ==
  ASSUME Inv, ~DropsOnOwnPanel, NEW a \in Applets, NEW q \in PanelSet, NEW t \in {START, END},
         MoveApplet(a, q, t), NEW r \in PanelSet, SortedOn(r)
  PROVE  SortedOn(r)'
<1> DEFINE p == PanelOf(a)
           index == NewPackIndex(appletList[q], position, t)
<1>1. a \in Shown /\ p # q /\ Reparent(p, q, a, t, index, position, {}, FALSE)
  BY DEF MoveApplet
<1>2. p \in PanelSet /\ a \in ToSet(appletList[p]) /\ Placed(position) BY <1>1, InvFacts
<1>3. index \in Int
  <2>1. index \in Nat BY InvFacts, PlacedIs, NewPackIndexIs
  <2> HIDE DEF index
  <2> QED BY <2>1
<1>4. t \in Int BY DEF START, END
<1>5. SortedBy(appletList[r], position) BY SortedFacts
<1> HIDE DEF p, index
<1> QED BY <1>1, <1>2, <1>3, <1>4, <1>5, ReparentSorted

LEMMA DragStartSorted ==
  ASSUME Inv, NEW p \in PanelSet, NEW a \in Applets, NEW grabbed \in BOOLEAN,
         DragStart(p, a, grabbed), NEW r \in PanelSet, SortedOn(r)
  PROVE  SortedOn(r)'
<1>1. UNCHANGED appletList BY DEF DragStart
<1>2. CASE grabbed
  <2>1. UNCHANGED position BY <1>2 DEF DragStart
  <2> QED BY <1>1, <2>1, SortedUntouched
<1>3. CASE ~grabbed
  <2>1. position' = Compressed(appletList[p], position) BY <1>3 DEF DragStart
  <2> QED BY <1>1, <2>1, CompressedStaysSorted
<1> QED BY <1>2, <1>3

LEMMA StepSorted ==
  ASSUME Inv, ~DropsOnOwnPanel, [Next]_vars, NEW r \in PanelSet, SortedOn(r),
         ~\E q \in PanelSet : TabMove(r, q)
  PROVE  SortedOn(r)'
<1>1. CASE Next
  <2>1. ASSUME NEW a \in Applets, Register(a) PROVE SortedOn(r)' BY <2>1, RegisterSorted
  <2>2. ASSUME NEW a \in Applets, NEW p \in PanelSet, NEW t \in {START, END}, Create(a, p, t)
        PROVE  SortedOn(r)'
    <3>1. UNCHANGED <<appletList, position>> BY <2>2 DEF Create
    <3> QED BY <3>1, SortedUntouched
  <2>3. ASSUME NEW a \in Applets, NEW p \in PanelSet, NEW t \in {START, END}, MoveApplet(a, p, t)
        PROVE  SortedOn(r)'
    BY <2>3, MoveAppletSorted
  <2>4. ASSUME NEW a \in Applets, NEW p \in PanelSet, NEW grabbed \in BOOLEAN,
               DragStart(p, a, grabbed)
        PROVE  SortedOn(r)'
    BY <2>4, DragStartSorted
  <2>5. ASSUME NEW a \in Applets, NEW deleted \in BOOLEAN, Destroyed(a, deleted)
        PROVE  SortedOn(r)'
    BY <2>5, DestroyedSorted
  <2>6. ASSUME NEW p \in PanelSet, DragEnd(p) \/ CrossRefused(p) PROVE SortedOn(r)'
    <3>1. UNCHANGED appletList /\ position' = Compressed(appletList[p], position)
      BY <2>6 DEF DragEnd, CrossRefused
    <3> QED BY <3>1, CompressedStaysSorted
  <2>7. ASSUME NEW p \in PanelSet, SwitchRight(p) \/ SwitchLeft(p) \/ PushRight(p) \/ PushLeft(p)
        PROVE  SortedOn(r)'
    BY <2>7, DragStepSorted
  <2>8. ASSUME NEW p \in PanelSet, NEW q \in PanelSet, NEW t \in {START, END},
               NEW started \in BOOLEAN, CrossTo(p, q, t, started)
        PROVE  SortedOn(r)'
    BY <2>8, CrossToSorted
  <2>9. ASSUME NEW p \in PanelSet, NEW q \in PanelSet, TabMove(p, q) PROVE SortedOn(r)'
    <3>1. r # p BY <2>9
    <3> QED BY <2>9, <3>1, TabMoveSorted
  <2>10. CASE SaveTimeout
    <3>1. UNCHANGED <<appletList, position>> BY <2>10 DEF SaveTimeout
    <3> QED BY <3>1, SortedUntouched
  <2>11. CASE Restart
    <3>1. appletList'[r] = <<>> BY <2>11 DEF Restart
    <3> QED BY <3>1 DEF SortedOn
  <2> QED BY <1>1, <2>1, <2>2, <2>3, <2>4, <2>5, <2>6, <2>7, <2>8, <2>9, <2>10, <2>11 DEF Next
<1>2. CASE UNCHANGED vars
  <2>1. UNCHANGED <<appletList, position>> BY <1>2 DEF vars
  <2> QED BY <2>1, SortedUntouched
<1> QED BY <1>1, <1>2

\* No edit turns a sorted list into one that is not (panel_widget_switch_move,
\* panel_widget_push_move, panel_widget_reparent), but for a Tab, as long as no
\* menu button is dropped on the panel it is on: panel_widget_reparent does not
\* sort the list again when the applet stays on its panel.
THEOREM ListsStaySorted == ~DropsOnOwnPanel => (Spec => StaysSorted)
<1>1. ASSUME ~DropsOnOwnPanel, Inv, [Next]_vars
      PROVE  \A p \in PanelSet : SortedOn(p) => SortedOn(p)' \/ \E q \in PanelSet : TabMove(p, q)
  BY <1>1, StepSorted
<1>2. CASE ~DropsOnOwnPanel
  <2>1. Inv /\ [Next]_vars =>
          [\A p \in PanelSet : SortedOn(p) => SortedOn(p)' \/ \E q \in PanelSet : TabMove(p, q)]_vars
    BY <1>1, <1>2
  <2> QED BY <2>1, InvHolds, PTL DEF Spec, StaysSorted
<1> QED BY <1>2

-----------------------------------------------------------------------------
(***************************************************************************)
(* The end of a drag counts every pack from zero.                          *)
(***************************************************************************)
LEMMA ListCounts ==
  ASSUME NEW run, IsList(run)
  PROVE  Cardinality(ToSet(run)) = Len(run)
<1> DEFINE n == Len(run)
<1>1. n \in Nat /\ DOMAIN run = 1 .. n /\ run \in [1 .. n -> Applets] BY DEF IsList
<1>2. \A i, j \in 1 .. n : run[i] = run[j] => i = j BY <1>1 DEF IsList, IsInjective
<1>3. IsFiniteSet(1 .. n) /\ Cardinality(1 .. n) = n
  <2>1. Cardinality(1 .. n) = (IF 1 > n THEN 0 ELSE n - 1 + 1) /\ IsFiniteSet(1 .. n)
    BY <1>1, FS_Interval
  <2> QED BY <1>1, <2>1
<1> HIDE DEF n
<1>4. run \in Bijection(1 .. n, ToSet(run))
  <2>1. \A i \in 1 .. n : run[i] \in ToSet(run) BY <1>1 DEF ToSet
  <2>2. \A a \in ToSet(run) : \E i \in 1 .. n : run[i] = a BY <1>1 DEF ToSet
  <2>3. run \in [1 .. n -> ToSet(run)] BY <1>1, <2>1
  <2> QED BY <1>1, <1>2, <2>2, <2>3 DEF Bijection, Injection, Surjection, IsInjective
<1>5. ExistsBijection(1 .. n, ToSet(run)) BY <1>4 DEF ExistsBijection
<1> QED BY <1>3, <1>5, FS_Bijection DEF n

LEMMA CompressedCounts ==
  ASSUME NEW list, IsList(list), NEW pos, HasPositions(list, pos), SortedBy(list, pos),
         NEW t \in PackTypes, NEW new, new = Compressed(list, pos)
  PROVE  LET pack == {a \in ToSet(list) : new[a].type = t}
         IN {new[a].index : a \in pack} = 0 .. Cardinality(pack) - 1
<1> DEFINE run == Pack(list, pos, t)
           n == Len(run)
           pack == {a \in ToSet(list) : new[a].type = t}
<1>1. /\ IsList(run) /\ ToSet(run) \subseteq ToSet(list)
      /\ \A a \in ToSet(run) : pos[a].type = t
  BY PackIsList
<1>2. \A i \in DOMAIN list : pos[list[i]].type = t => list[i] \in ToSet(run) BY PackIs
<1>3. \A a \in ToSet(list) : new[a].type = pos[a].type BY CompressedIs
<1>4. \A k \in 1 .. n : new[run[k]] = [type |-> t, index |-> Counted(t, n, k)] BY CompressedIs
<1> HIDE DEF run, n
<1>5. n \in Nat /\ DOMAIN run = 1 .. n /\ Cardinality(ToSet(run)) = n
  <2>1. Len(run) \in Nat /\ DOMAIN run = 1 .. Len(run) BY <1>1 DEF IsList
  <2> QED BY <1>1, <2>1, ListCounts DEF n
<1>6. pack = ToSet(run)
  <2>1. \A a \in ToSet(list) : pos[a].type = t => a \in ToSet(run) BY <1>2 DEF ToSet
  <2> QED BY <1>1, <1>3, <2>1
<1> HIDE DEF pack
<1>7. \A a \in pack : new[a].index \in 0 .. n - 1
  <2> SUFFICES ASSUME NEW k \in 1 .. n PROVE new[run[k]].index \in 0 .. n - 1
    BY <1>5, <1>6 DEF ToSet
  <2>1. Counted(t, n, k) \in 0 .. n - 1 BY <1>5 DEF Counted
  <2>2. new[run[k]] = [type |-> t, index |-> Counted(t, n, k)] BY <1>4
  <2>3. new[run[k]].index = Counted(t, n, k) BY <2>2
  <2> QED BY <2>1, <2>3
<1>8. \A i \in 0 .. n - 1 : \E a \in pack : new[a].index = i
  <2> TAKE i \in 0 .. n - 1
  <2> DEFINE k == IF t = END THEN n - i ELSE i + 1
  <2>1. k \in 1 .. n /\ Counted(t, n, k) = i BY <1>5 DEF Counted
  <2> HIDE DEF k
  <2>2. run[k] \in pack BY <1>5, <1>6, <2>1 DEF ToSet
  <2>3. new[run[k]] = [type |-> t, index |-> Counted(t, n, k)] BY <1>4, <2>1
  <2>4. new[run[k]].index = i BY <2>1, <2>3
  <2> QED BY <2>2, <2>4
<1>9. Cardinality(pack) = n BY <1>5, <1>6
<1>10. {new[a].index : a \in pack} = 0 .. Cardinality(pack) - 1 BY <1>7, <1>8, <1>9
<1> QED BY <1>10 DEF pack

\* A drag that ends while the list stays as it is ends in its handler.
LEMMA DragEndsIn ==
  ASSUME Inv, [Next]_vars, NEW p \in PanelSet, dragged[p] # None, dragged'[p] = None,
         appletList'[p] = appletList[p]
  PROVE  position' = Compressed(appletList[p], position)
<1>1. /\ inDrag /\ dragged[p] \in ToSet(appletList[p])
      /\ \A q \in PanelSet : dragged[q] # None => q = p
  BY InvFacts DEF DragsAre
<1>2. dragged \in [PanelSet -> Applets \union {None}] /\ ListsAre(appletList) BY DEF Inv, TypeOK
<1>3. ListsAre(appletList') BY NextInv DEF Inv
<1>4. CASE Next
  <2>1. ASSUME NEW a \in Applets, Register(a) PROVE FALSE BY <2>1 DEF Register
  <2>2. ASSUME NEW a \in Applets, NEW x \in PanelSet, NEW t \in {START, END},
               Create(a, x, t) \/ MoveApplet(a, x, t)
        PROVE  FALSE
    BY <1>1, <2>2 DEF Create, MoveApplet, Idle
  <2>3. ASSUME NEW a \in Applets, NEW x \in PanelSet, NEW grabbed \in BOOLEAN,
               DragStart(x, a, grabbed)
        PROVE  FALSE
    BY <1>1, <2>3 DEF DragStart, Idle
  <2>4. ASSUME NEW a \in Applets, NEW deleted \in BOOLEAN, Destroyed(a, deleted) PROVE FALSE
    <3>1. dragged[PanelOf(a)] = a /\ PanelOf(a) = p
      <4>1. dragged[PanelOf(a)] = a BY <2>4 DEF Destroyed
      <4>2. a # None BY SentinelAssumption
      <4>3. PanelOf(a) \in PanelSet
        <5>1. Unlisted(a, deleted) BY <2>4 DEF Destroyed
        <5> QED BY <5>1, UnlistedIs
      <4> QED BY <1>1, <4>1, <4>2, <4>3
    <3>2. ToSet(appletList'[p]) = ToSet(appletList[p]) \ {a}
      <4>1. Unlisted(a, deleted) BY <2>4 DEF Destroyed
      <4> QED BY <4>1, UnlistedIs
    <3> QED BY <1>1, <3>1, <3>2
  <2>5. ASSUME NEW x \in PanelSet, DragEnd(x)
        PROVE  position' = Compressed(appletList[p], position)
    <3>1. x = p BY <1>1, <2>5 DEF DragEnd
    <3> QED BY <2>5, <3>1 DEF DragEnd
  <2>6. ASSUME NEW x \in PanelSet, SwitchRight(x) \/ SwitchLeft(x) \/ PushRight(x) \/ PushLeft(x)
        PROVE  FALSE
    BY <2>6 DEF SwitchRight, SwitchLeft, PushRight, PushLeft, DragStep
  <2>7. ASSUME NEW x \in PanelSet, CrossRefused(x) PROVE FALSE BY <2>7 DEF CrossRefused
  <2>8. ASSUME NEW x \in PanelSet, NEW q \in PanelSet, NEW t \in {START, END},
               NEW started \in BOOLEAN, CrossTo(x, q, t, started)
        PROVE  FALSE
    <3> DEFINE a == dragged[x]
               index == NewPackIndex(appletList[q], position, t)
               pos == Compressed(appletList[x], position)
               emits == CompressEmits(appletList[x], position)
    <3>1. a # None /\ x # q /\ Reparent(x, q, a, t, index, pos, emits, FALSE)
      BY <2>8 DEF CrossTo
    <3>2. x = p /\ a \in ToSet(appletList[p]) BY <1>1, <3>1
    <3>3. index \in Int
      <4>1. index \in Nat BY InvFacts, PlacedIs, NewPackIndexIs
      <4> HIDE DEF index
      <4> QED BY <4>1
    <3>4. Placed(pos) /\ emits \in SUBSET Shown /\ \A b \in Applets \ emits : pos[b] = position[b]
      BY CompressedPositions
    <3>5. t \in Int BY DEF START, END
    <3> HIDE DEF a, index, pos, emits
    <3>6. a \in ToSet(appletList'[q]) BY <3>1, <3>2, <3>3, <3>4, <3>5, ReparentIs
    <3> QED BY <1>3, <3>1, <3>2, <3>6 DEF ListsAre
  <2>9. ASSUME NEW x \in PanelSet, NEW q \in PanelSet, TabMove(x, q) PROVE FALSE
    <3> DEFINE a == dragged[x]
    <3>1. a # None /\ x # q /\ Reparent(x, q, a, START, 0, position, {}, TRUE)
      BY <2>9 DEF TabMove
    <3>2. x = p /\ a \in ToSet(appletList[p]) BY <1>1, <3>1
    <3>3. /\ START \in Int /\ 0 \in Int /\ Placed(position)
          /\ {} \in SUBSET Shown /\ \A b \in Applets \ {} : position[b] = position[b]
      BY InvFacts DEF START
    <3> HIDE DEF a
    <3>4. a \in ToSet(appletList'[q]) BY <3>1, <3>2, <3>3, ReparentIs
    <3> QED BY <1>3, <3>1, <3>2, <3>4 DEF ListsAre
  <2>10. CASE SaveTimeout BY <2>10 DEF SaveTimeout
  <2>11. CASE Restart
    <3>1. appletList'[p] = <<>> BY <2>11 DEF Restart
    <3>2. ToSet(<<>>) = {} BY DEF ToSet
    <3> QED BY <1>1, <3>1, <3>2
  <2> QED BY <1>4, <2>1, <2>2, <2>3, <2>4, <2>5, <2>6, <2>7, <2>8, <2>9, <2>10, <2>11 DEF Next
<1>5. CASE UNCHANGED vars BY <1>5 DEF vars
<1> QED BY <1>4, <1>5

\* When the button is released (panel_widget_applet_drag_end), the applets of
\* every pack are left at 0, 1, 2, ... of their pack, as
\* panel_widget_compress_indexes promises: no gap, no applet at another's index.
THEOREM DragEndCounts == Spec => DragEndCompresses
<1>1. ASSUME Inv, [Next]_vars, NEW p \in PanelSet, SortedOn(p), dragged[p] # None,
             dragged'[p] = None, appletList'[p] = appletList[p], NEW t \in PackTypes
      PROVE  LET pack == {a \in ToSet(appletList[p]) : position'[a].type = t}
             IN {position'[a].index : a \in pack} = 0 .. Cardinality(pack) - 1
  <2>1. position' = Compressed(appletList[p], position) BY <1>1, DragEndsIn
  <2>2. /\ IsList(appletList[p]) /\ HasPositions(appletList[p], position)
        /\ SortedBy(appletList[p], position)
    BY <1>1, SortedFacts
  <2> QED BY <2>1, <2>2, CompressedCounts
<1> DEFINE Ends ==
      \A p \in PanelSet :
        SortedOn(p) /\ dragged[p] # None /\ dragged'[p] = None /\ appletList'[p] = appletList[p] =>
          \A t \in PackTypes :
            LET pack == {a \in ToSet(appletList[p]) : position'[a].type = t}
            IN {position'[a].index : a \in pack} = 0 .. Cardinality(pack) - 1
<1>2. Inv /\ [Next]_vars => [Ends]_vars BY <1>1
<1>3. DragEndCompresses <=> [][Ends]_vars BY DEF DragEndCompresses
<1> HIDE DEF Ends
<1> QED BY <1>2, <1>3, InvHolds, PTL DEF Spec
=============================================================================
