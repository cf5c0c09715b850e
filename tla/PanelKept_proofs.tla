-------------------------- MODULE PanelKept_proofs --------------------------
(***************************************************************************)
(* What the panel keeps for the user, for any files, launchers, monitors   *)
(* and objects, and any bounds: the layout file that an edit leaves, the   *)
(* launcher and the place of a panel that the next session shows, and what *)
(* Revert, Escape and a drop give.  One part for LayoutFile and one for    *)
(* each module of PanelKept: its inductive invariant, that each step keeps *)
(* it, and what it says.                                                   *)
(***************************************************************************)
EXTENDS LayoutFile, PanelKept, SequenceLemmas

-----------------------------------------------------------------------------
(*****************************************************************************)
(* The layout file.                                                          *)
(*****************************************************************************)
(***************************************************************************)
(* Lists of ids.                                                           *)
(***************************************************************************)
KeptUpTo(list, ids) ==
  CHOOSE kept : kept = [n \in 0 .. Len(list) |->
    IF n = 0 THEN <<>>
    ELSE IF list[n] \in ids THEN kept[n - 1] ELSE Append(kept[n - 1], list[n])]

\* Without keeps the order and the number of what is not in ids.
LEMMA WithoutKeeps ==
  ASSUME NEW S, NEW list \in Seq(S), NEW ids
  PROVE  /\ Without(list, ids) \in Seq(S)
         /\ ToSet(Without(list, ids)) = ToSet(list) \ ids
         /\ IsInjective(list) => IsInjective(Without(list, ids))
<1> DEFINE n == Len(list)
           f == KeptUpTo(list, ids)
           Body(g) == [i \in 0 .. n |->
             IF i = 0 THEN <<>>
             ELSE IF list[i] \in ids THEN g[i - 1] ELSE Append(g[i - 1], list[i])]
<1>1. n \in Nat /\ list \in [1 .. n -> S] OBVIOUS
<1>2a. Without(list, ids) = f[n] BY DEF Without, KeptUpTo
<1>2b. f = CHOOSE g : g = Body(g) BY DEF KeptUpTo
<1>2c. ToSet(list) = {list[j] : j \in 1 .. n} BY DEF ToSet
<1> HIDE DEF f, n
<1>2. \E g : g = Body(g)
  <2> DEFINE lists == Seq(S)
             base == <<>>
             step == [i \in 1 .. n |-> [s \in lists |->
                        IF list[i] \in ids THEN s ELSE Append(s, list[i])]]
  <2>1. base \in lists OBVIOUS
  <2>2. step \in [1 .. n -> [lists -> lists]]
    <3>1. ASSUME NEW i \in 1 .. n, NEW s \in lists
          PROVE  (IF list[i] \in ids THEN s ELSE Append(s, list[i])) \in lists
      BY <1>1
    <3> HIDE DEF lists
    <3> QED BY <3>1
  <2>3. ASSUME NEW i \in 1 .. n, NEW s \in lists
        PROVE  step[i][s] = IF list[i] \in ids THEN s ELSE Append(s, list[i])
    OBVIOUS
  <2> HIDE DEF base, step, lists
  <2>4a. PICK g \in [0 .. n -> lists] : GoesBy(g, n, base, step)
    BY <1>1, <2>1, <2>2, RecursionExists DEF Steps
  <2>4. g[0] = base /\ \A i \in 1 .. n : g[i] = step[i][g[i - 1]] BY <2>4a DEF GoesBy
  <2>5. ASSUME NEW i \in 1 .. n
        PROVE  g[i] = IF list[i] \in ids THEN g[i - 1] ELSE Append(g[i - 1], list[i])
    <3>1. g[i - 1] \in lists BY <1>1
    <3> QED BY <2>3, <2>4, <3>1
  <2>6. ASSUME NEW i \in 0 .. n
        PROVE  g[i] = IF i = 0 THEN <<>>
                      ELSE IF list[i] \in ids THEN g[i - 1] ELSE Append(g[i - 1], list[i])
    <3>1. CASE i = 0 BY <2>4, <3>1 DEF base
    <3>2. CASE i \in 1 .. n
      <4>1. i # 0 BY <1>1, <3>2
      <4>2. g[i] = IF list[i] \in ids THEN g[i - 1] ELSE Append(g[i - 1], list[i])
        BY <2>5, <3>2
      <4> QED BY <4>1, <4>2, Zenon
    <3> QED BY <1>1, <3>1, <3>2
  <2>7. g = Body(g) BY <2>4, <2>6
  <2> HIDE DEF Body
  <2> QED BY <2>7
<1>3. f = Body(f)
  <2> HIDE DEF Body
  <2> QED BY <1>2, <1>2b
<1>5. /\ f[0] = <<>>
      /\ \A i \in 1 .. n : f[i] = IF list[i] \in ids THEN f[i - 1] ELSE Append(f[i - 1], list[i])
  <2>1. f[0] = <<>> BY <1>1, <1>3
  <2>2. ASSUME NEW i \in 1 .. n
        PROVE  f[i] = IF list[i] \in ids THEN f[i - 1] ELSE Append(f[i - 1], list[i])
    <3>1. f[i] = Body(f)[i] BY <1>3
    <3> QED BY <1>1, <3>1
  <2> QED BY <2>1, <2>2
<1> DEFINE Ok(i) == /\ f[i] \in Seq(S)
                    /\ ToSet(f[i]) = {list[j] : j \in 1 .. i} \ ids
                    /\ IsInjective(list) => IsInjective(f[i])
           T == {i \in 0 .. n : Ok(i)}
<1>6. 0 \in T
  <2>1. f[0] \in Seq(S) /\ ToSet(f[0]) = {} /\ IsInjective(f[0]) BY <1>5 DEF ToSet, IsInjective
  <2>2. {list[j] : j \in 1 .. 0} = {} OBVIOUS
  <2>3. Ok(0) BY <2>1, <2>2
  <2> HIDE DEF Ok
  <2> QED BY <1>1, <2>3
<1>7. ASSUME NEW i \in 1 .. n, i - 1 \in T PROVE i \in T
  <2>1. Ok(i - 1) BY <1>7
  <2>2. {list[j] : j \in 1 .. i} = {list[j] : j \in 1 .. i - 1} \union {list[i]} BY <1>1
  <2>3. CASE list[i] \in ids
    <3>1. f[i] = f[i - 1] BY <1>5, <2>3
    <3> QED BY <2>1, <2>2, <2>3, <3>1
  <2>4. CASE list[i] \notin ids
    <3> DEFINE s == f[i - 1]
               x == list[i]
    <3>1. f[i] = Append(s, x) /\ x \in S BY <1>1, <1>5, <2>4
    <3>2. s \in Seq(S) /\ ToSet(s) = {list[j] : j \in 1 .. i - 1} \ ids BY <2>1
    <3>3. Append(s, x) \in Seq(S) /\ ToSet(Append(s, x)) = ToSet(s) \union {x}
      BY <3>1, <3>2, AppendAdds
    <3>4. ASSUME IsInjective(list) PROVE IsInjective(f[i])
      <4>1. x \notin ToSet(s) BY <1>1, <3>2, <3>4 DEF IsInjective
      <4> QED BY <2>1, <3>1, <3>2, <3>4, <4>1, AppendAdds
    <3>5. ToSet(f[i]) = {list[j] : j \in 1 .. i} \ ids
      <4> HIDE DEF s
      <4> QED BY <2>2, <2>4, <3>1, <3>2, <3>3
    <3>6. Ok(i) BY <3>1, <3>3, <3>4, <3>5
    <3> HIDE DEF Ok
    <3> QED BY <1>1, <3>6
  <2> QED BY <2>3, <2>4
<1>8. n \in T
  <2> HIDE DEF T
  <2>1. \A i \in 1 .. n : i - 1 \in T => i \in T BY <1>7
  <2>2. 0 .. n \subseteq T BY <1>1, <1>6, <2>1, UpToInduction
  <2> QED BY <1>1, <2>2
<1> QED BY <1>2a, <1>2c, <1>8

-----------------------------------------------------------------------------
(***************************************************************************)
(* The inductive invariant.                                                *)
(***************************************************************************)
AllGroups == UNION {ToSet(f) : f \in Files}
Entries == [group : AllGroups, screen : Int]
Names == {group.name : group \in AllGroups} \union Kinds
FileIds == [name : Names, screen : Int, number : -1 .. MaxNumber]

StoreOK ==
  /\ listed \in [Kinds -> Seq(FileIds)] /\ keys \in [Kinds -> SUBSET FileIds]
  /\ \A kind \in Kinds : Listed(kind) \subseteq keys[kind]
  /\ DOMAIN screenOf = keys["toplevel"] /\ DOMAIN onOf = keys["object"]

SessionOK ==
  /\ file \in Files \union {<<>>} /\ nScreens \in Nat /\ edits \in 0 .. MaxEdits
  /\ phase \in {"stopped", "initial", "ensure", "running"}
  /\ todo \in Seq(Entries)
  /\ phase \in {"stopped", "running"} => todo = <<>>
  /\ todo = <<>> => current = NoId

\* A panel that is there, on its way, or known to be missing.
ToplevelsOf(entries) == {e \in entries : e.group.kind = "toplevel"}
Coming == {Wanted(e.group.name, e.screen) : e \in ToplevelsOf(ToSet(todo))}
Housed(on) == on \in Listed("toplevel") \union missing \union Coming \/ on.name = Invalid

\* Between the two writes of a group.
CurrentOK ==
  current # NoId =>
    LET group == Head(todo).group
        screen == Head(todo).screen
    IN /\ current \in keys[group.kind] \ Listed(group.kind)
       /\ group.kind = "toplevel" =>
            /\ Wanted(group.name, screen) \in missing \union {current}
            /\ screen # -1 => screenOf[current] = screen
       /\ group.kind = "object" => Housed(onOf[current])

ObjectsHoused ==
  /\ \A x \in Listed("object") : Housed(onOf[x])
  /\ \A e \in ToSet(todo) : e.group.kind = "object" => Housed(PanelOf(e.group, e.screen))

ScreensCovered ==
  phase = "ensure" /\ FileHasPanel =>
    screens \subseteq {screenOf[id] : id \in Listed("toplevel")}
                        \union {e.screen : e \in ToplevelsOf(ToSet(todo))}

Inv == StoreOK /\ SessionOK /\ NoIdTwice /\ CurrentOK /\ ObjectsHoused /\ ScreensCovered

-----------------------------------------------------------------------------
(***************************************************************************)
(* The groups of a file.                                                   *)
(***************************************************************************)
LEMMA FileGroups ==
  ASSUME NEW f \in Files \union {<<>>}
  PROVE  /\ f \in Seq(AllGroups) /\ DOMAIN f = 1 .. Len(f)
         /\ \A i \in DOMAIN f : f[i] \in AllGroups /\ IsGroupOf(f[i], f)
<1>1. CASE f = <<>> BY <1>1
<1>2. CASE f \in Files
  <2>1. f \in Seq(ToSet(f)) /\ \A i \in DOMAIN f : IsGroupOf(f[i], f)
    BY <1>2, FilesAssumption
  <2>2. ToSet(f) \subseteq AllGroups BY <1>2 DEF AllGroups
  <2> HIDE DEF AllGroups
  <2>3. f \in Seq(AllGroups) BY <2>1, <2>2
  <2> QED BY <2>1, <2>3
<1> QED BY <1>1, <1>2

LEMMA KindsOfGroups ==
  ASSUME NEW group \in AllGroups
  PROVE  group.kind \in Kinds /\ group.name \in Names
<1>1. PICK f \in Files : group \in ToSet(f) BY DEF AllGroups
<1>2. PICK i \in DOMAIN f : group = f[i] BY <1>1 DEF ToSet
<1> QED BY <1>2, FilesAssumption DEF IsGroupOf, Names

\* The entries that appending a file makes: the others among them name panels
\* among them.
LEMMA GroupsEntries ==
  ASSUME NEW f \in Files \union {<<>>}, NEW k \in Int
  PROVE  /\ Groups(f, k) \in Seq(Entries)
         /\ \A e \in ToSet(Groups(f, k)) :
              /\ e.screen = k
              /\ e.group.kind = "object" =>
                   \/ e.group.on = Invalid
                   \/ \E d \in ToplevelsOf(ToSet(Groups(f, k))) :
                        PanelOf(e.group, k) = Wanted(d.group.name, d.screen)
         /\ Validated(f) /\ (\E i \in DOMAIN f : f[i].kind = "toplevel") =>
              \E e \in ToplevelsOf(ToSet(Groups(f, k))) : e.screen = k
<1> DEFINE Entry(i) == [group |-> f[i], screen |-> k]
<1>1. /\ DOMAIN f = 1 .. Len(f) /\ Len(f) \in Nat
      /\ \A i \in DOMAIN f : f[i] \in AllGroups /\ IsGroupOf(f[i], f)
  BY FileGroups
<1>2. CASE ~Validated(f)
  <2>1. Groups(f, k) = <<>> BY <1>2 DEF Groups
  <2> QED BY <1>2, <2>1 DEF ToSet
<1>3. CASE Validated(f)
  <2>1. Groups(f, k) = [i \in 1 .. Len(f) |-> Entry(i)] BY <1>1, <1>3 DEF Groups
  <2>2. \A i \in 1 .. Len(f) : Entry(i) \in Entries BY <1>1 DEF Entries
  <2>3. Groups(f, k) \in Seq(Entries) BY <1>1, <2>1, <2>2
  <2>4. ToSet(Groups(f, k)) = {Entry(i) : i \in DOMAIN f} BY <1>1, <2>1 DEF ToSet
  <2>5. ASSUME NEW i \in DOMAIN f, f[i].kind = "object", f[i].on # Invalid
        PROVE  \E d \in ToplevelsOf(ToSet(Groups(f, k))) :
                 PanelOf(f[i], k) = Wanted(d.group.name, d.screen)
    <3>1. PICK j \in DOMAIN f : f[j].kind = "toplevel" /\ f[j].name = f[i].on
      BY <1>1, <2>5 DEF IsGroupOf
    <3>2. Entry(j) \in ToplevelsOf(ToSet(Groups(f, k))) BY <2>4, <3>1 DEF ToplevelsOf
    <3> QED BY <3>1, <3>2 DEF PanelOf
  <2>6. ASSUME NEW j \in DOMAIN f, f[j].kind = "toplevel"
        PROVE  Entry(j) \in ToplevelsOf(ToSet(Groups(f, k)))
    BY <2>4, <2>6 DEF ToplevelsOf
  <2>7. ASSUME NEW e \in ToSet(Groups(f, k))
        PROVE  \E i \in DOMAIN f : e.group = f[i] /\ e.screen = k
    BY <2>4
  <2>8. \A i \in DOMAIN f : Entry(i).screen = k OBVIOUS
  <2> HIDE DEF Entry
  <2>9. ASSUME NEW e \in ToSet(Groups(f, k)), e.group.kind = "object", e.group.on # Invalid
        PROVE  \E d \in ToplevelsOf(ToSet(Groups(f, k))) :
                 PanelOf(e.group, k) = Wanted(d.group.name, d.screen)
    BY <2>5, <2>7, <2>9
  <2> QED BY <2>3, <2>6, <2>7, <2>8, <2>9
<1> QED BY <1>2, <1>3

AppendedUpTo ==
  CHOOSE upTo : upTo = [n \in 0 .. nScreens |->
    IF n = 0 THEN <<>>
    ELSE (IF n - 1 \in EmptyScreens THEN Groups(file, n - 1) ELSE <<>>) \o upTo[n - 1]]

\* Every empty screen gets the file, and no other screen does.
LEMMA OncePerEmptyScreenAppends ==
  ASSUME nScreens \in Nat, file \in Files \union {<<>>}
  PROVE  /\ OncePerEmptyScreen \in Seq(Entries)
         /\ ToSet(OncePerEmptyScreen) = UNION {ToSet(Groups(file, k)) : k \in EmptyScreens}
<1> DEFINE n == nScreens
           f == AppendedUpTo
           lists == Seq(Entries)
           Part(i) == IF i - 1 \in EmptyScreens THEN Groups(file, i - 1) ELSE <<>>
           Body(g) == [i \in 0 .. n |-> IF i = 0 THEN <<>> ELSE Part(i) \o g[i - 1]]
<1>1. n \in Nat OBVIOUS
<1>2. OncePerEmptyScreen = f[n] BY DEF OncePerEmptyScreen, AppendedUpTo
<1>3. f = CHOOSE g : g = Body(g) BY DEF AppendedUpTo
<1>4. \A i \in 1 .. n : Part(i) \in lists
  <2>1. \A k \in Int : Groups(file, k) \in Seq(Entries) BY GroupsEntries
  <2> QED BY <2>1
<1>5. EmptyScreens \subseteq 0 .. n - 1 BY DEF EmptyScreens, screens
<1> HIDE DEF n, f, Part
<1>6. \E g : g = Body(g)
  <2> DEFINE base == <<>>
             step == [i \in 1 .. n |-> [s \in lists |-> Part(i) \o s]]
  <2>1. base \in lists OBVIOUS
  <2>2. \A i \in 1 .. n, s \in lists : Part(i) \o s \in lists BY <1>4
  <2> HIDE DEF lists
  <2>3. step \in Steps(n, lists) BY <2>2 DEF Steps
  <2>4. \A i \in 1 .. n, s \in lists : step[i][s] = Part(i) \o s OBVIOUS
  <2> HIDE DEF base, step
  <2>5. PICK g \in [0 .. n -> lists] : GoesBy(g, n, base, step)
    BY <1>1, <2>1, <2>3, RecursionExists
  <2>6. ASSUME NEW i \in 1 .. n PROVE g[i] = Part(i) \o g[i - 1]
    <3>1. g[i - 1] \in lists BY <1>1
    <3> QED BY <2>4, <2>5, <3>1 DEF GoesBy
  <2>7. \A i \in 0 .. n : g[i] = IF i = 0 THEN <<>> ELSE Part(i) \o g[i - 1]
    <3>1. \A i \in 0 .. n : i = 0 \/ i \in 1 .. n BY <1>1
    <3>2. g[0] = <<>> BY <2>5 DEF GoesBy, base
    <3> QED BY <1>1, <2>6, <3>1, <3>2
  <2>8. g = Body(g) BY <2>7
  <2> HIDE DEF Body
  <2> QED BY <2>8
<1>7. f = Body(f)
  <2> HIDE DEF Body
  <2> QED BY <1>3, <1>6
<1>8. f[0] = <<>> /\ \A i \in 1 .. n : f[i] = Part(i) \o f[i - 1]
  <2>1. f[0] = <<>> BY <1>1, <1>7
  <2>2. ASSUME NEW i \in 1 .. n PROVE f[i] = Part(i) \o f[i - 1]
    <3>1. f[i] = Body(f)[i] BY <1>7
    <3> QED BY <1>1, <3>1
  <2> QED BY <2>1, <2>2
<1> HIDE DEF Body
<1> DEFINE Some(i) == UNION {ToSet(Groups(file, k)) : k \in EmptyScreens \cap 0 .. i - 1}
           Ok(i) == f[i] \in Seq(Entries) /\ ToSet(f[i]) = Some(i)
           T == {i \in 0 .. n : Ok(i)}
<1>9. 0 \in T
  <2>1. f[0] \in Seq(Entries) /\ ToSet(f[0]) = {} BY <1>8 DEF ToSet
  <2>2. Some(0) = {} BY <1>5
  <2>3. Ok(0) BY <2>1, <2>2
  <2> HIDE DEF Ok
  <2> QED BY <1>1, <2>3
<1>10. ASSUME NEW i \in 1 .. n, i - 1 \in T PROVE i \in T
  <2>1. f[i - 1] \in Seq(Entries) /\ ToSet(f[i - 1]) = Some(i - 1) BY <1>10
  <2>2. Part(i) \in Seq(Entries) BY <1>4
  <2>3. f[i] \in Seq(Entries) /\ ToSet(f[i]) = ToSet(Part(i)) \union ToSet(f[i - 1])
    <3>1. f[i] = Part(i) \o f[i - 1] BY <1>8
    <3>2. /\ Part(i) \o f[i - 1] \in Seq(Entries)
          /\ ToSet(Part(i) \o f[i - 1]) = ToSet(Part(i)) \union ToSet(f[i - 1])
      BY <2>1, <2>2, ConcatAdds
    <3> QED BY <3>1, <3>2
  <2>4. 0 .. i - 1 = 0 .. (i - 1) - 1 \union {i - 1} BY <1>1
  <2>5. Some(i) = ToSet(Part(i)) \union Some(i - 1)
    <3>1. CASE i - 1 \in EmptyScreens
      <4>1. EmptyScreens \cap 0 .. i - 1 = (EmptyScreens \cap 0 .. (i - 1) - 1) \union {i - 1}
        BY <2>4, <3>1
      <4>2. Part(i) = Groups(file, i - 1) BY <3>1 DEF Part
      <4> QED BY <4>1, <4>2
    <3>2. CASE i - 1 \notin EmptyScreens
      <4>1. EmptyScreens \cap 0 .. i - 1 = EmptyScreens \cap 0 .. (i - 1) - 1 BY <2>4, <3>2
      <4>2. ToSet(Part(i)) = {} BY <3>2 DEF Part, ToSet
      <4> QED BY <4>1, <4>2
    <3> QED BY <3>1, <3>2
  <2>6. Ok(i) BY <2>1, <2>3, <2>5
  <2> HIDE DEF Ok
  <2> QED BY <1>1, <2>6
<1>11. Ok(n)
  <2> HIDE DEF Ok
  <2>1. \A i \in 1 .. n : i - 1 \in T => i \in T BY <1>10
  <2> HIDE DEF T
  <2>2. 0 .. n \subseteq T BY <1>1, <1>9, <2>1, UpToInduction
  <2> QED BY <1>1, <2>2 DEF T
<1>12. EmptyScreens \cap 0 .. n - 1 = EmptyScreens BY <1>5
<1> QED BY <1>2, <1>11, <1>12

-----------------------------------------------------------------------------
(***************************************************************************)
(* FileIds given out are free.                                                 *)
(***************************************************************************)
LEMMA NumberedFree ==
  ASSUME StoreOK, NEW kind \in Kinds, NEW name \in Names, NEW screen \in Int,
         Numbered(kind, name, screen).number <= MaxNumber
  PROVE  /\ Numbered(kind, name, screen) \in FileIds
         /\ Numbered(kind, name, screen) \notin Listed(kind) \union keys[kind]
<1> DEFINE Free(n) == Id(name, Suffix(screen), n) \notin Listed(kind) \union keys[kind]
           T == {n \in 0 .. MaxNumber + 1 : Free(n)}
<1>1. Numbered(kind, name, screen) = Id(name, Suffix(screen), Min(T)) BY DEF Numbered
<1>2. Free(MaxNumber + 1)
  <2>1. \A id \in Listed(kind) \union keys[kind] : id.number <= MaxNumber
    BY BoundAssumption DEF StoreOK, FileIds
  <2> QED BY <2>1, BoundAssumption DEF Id
<1>3. T \in SUBSET Nat /\ T # {} BY <1>2, BoundAssumption
<1> HIDE DEF T
<1>4. Min(T) \in T BY <1>3, MinInSet
<1>5. Min(T) \in 0 .. MaxNumber /\ Free(Min(T))
  <2>1. Min(T) <= MaxNumber BY <1>1 DEF Id
  <2> QED BY <1>4, <2>1 DEF T
<1> QED BY <1>1, <1>5 DEF Id, FileIds, Suffix

LEMMA FreeIdsFree ==
  ASSUME StoreOK, NEW kind \in Kinds, NEW name \in Names, NEW screen \in Int,
         NEW id \in FreeIds(kind, name, screen), id.number <= MaxNumber
  PROVE  id \in FileIds /\ id \notin Listed(kind)
<1> DEFINE wanted == Wanted(name, screen)
<1>1. CASE name = NoName
  <2>1. id = Numbered(kind, kind, screen) BY <1>1 DEF FreeIds
  <2>2. kind \in Names BY DEF Names
  <2> QED BY <2>1, <2>2, NumberedFree
<1>2. CASE name # NoName /\ id # wanted
  <2>1. id = Numbered(kind, name, screen) BY <1>2 DEF FreeIds
  <2> QED BY <2>1, NumberedFree
<1>3. CASE name # NoName /\ id = wanted
  <2>1. id \notin Listed(kind) BY <1>3 DEF FreeIds
  <2>2. wanted \in FileIds BY BoundAssumption DEF Wanted, Id, Suffix, Unnumbered, FileIds
  <2> QED BY <1>3, <2>1, <2>2
<1> QED BY <1>1, <1>2, <1>3

-----------------------------------------------------------------------------
(***************************************************************************)
(* The invariant holds initially, and no step disturbs it.                 *)
(***************************************************************************)
LEMMA InitInv == Init => Inv
<1> SUFFICES ASSUME Init PROVE Inv OBVIOUS
<1> USE DEF Init
<1>1. ToSet(<<>>) = {} BY DEF ToSet
<1>2. \A kind \in Kinds : listed[kind] = <<>> /\ keys[kind] = {} /\ Listed(kind) = {}
  BY <1>1 DEF Listed
<1>3. StoreOK BY <1>2 DEF StoreOK, Kinds
<1>4. SessionOK BY BoundAssumption DEF SessionOK
<1>5. NoIdTwice BY <1>2 DEF NoIdTwice, IsInjective
<1>6. CurrentOK BY DEF CurrentOK
<1>7. ObjectsHoused
  <2>1. "object" \in Kinds BY DEF Kinds
  <2> QED BY <1>1, <1>2, <2>1 DEF ObjectsHoused
<1>8. ScreensCovered BY DEF ScreensCovered
<1> QED BY <1>3, <1>4, <1>5, <1>6, <1>7, <1>8 DEF Inv

\* Start fills an empty layout from the file.
LEMMA StartInv ==
  ASSUME Inv, NEW f \in Files, NEW n \in Displays, Start(f, n)
  PROVE  Inv'
<1>1. /\ phase = "stopped" /\ phase' = "initial" /\ file' = f /\ nScreens' = n
      /\ edits' = edits + 1 /\ edits < MaxEdits /\ todo = <<>> /\ current = NoId
      /\ UNCHANGED <<listed, keys, screenOf, onOf, current, missing>>
      /\ todo' = IF listed["toplevel"] = <<>> THEN Groups(f, -1) ELSE <<>>
  BY DEF Start, Inv, SessionOK, store
<1>2. todo' \in Seq(Entries)
  <2>1. Groups(f, -1) \in Seq(Entries) BY GroupsEntries
  <2> QED BY <1>1, <2>1
<1>3. StoreOK' BY <1>1 DEF Inv, StoreOK, Listed
<1>4. SessionOK'
  <2>1. n \in Nat BY BoundAssumption
  <2> QED BY <1>1, <1>2, <2>1, BoundAssumption DEF Inv, SessionOK
<1>5. NoIdTwice' BY <1>1 DEF Inv, NoIdTwice
<1>6. CurrentOK' BY <1>1 DEF CurrentOK
<1>7. ObjectsHoused'
  <2>1. Listed("toplevel")' = Listed("toplevel") /\ Listed("object")' = Listed("object")
        /\ missing' = missing /\ onOf' = onOf
    BY <1>1 DEF Listed
  <2>2. Coming = {} BY <1>1 DEF Coming, ToplevelsOf, ToSet
  <2>3. ASSUME NEW x \in Listed("object")' PROVE Housed(onOf[x])'
    <3>1. Housed(onOf[x]) BY <2>1 DEF Inv, ObjectsHoused
    <3> QED BY <2>1, <2>2, <3>1 DEF Housed
  <2>4. ASSUME NEW e \in ToSet(todo'), e.group.kind = "object"
        PROVE  Housed(PanelOf(e.group, e.screen))'
    <3>1. CASE todo' = Groups(f, -1)
      <4>1. e.screen = -1 BY <2>4, <3>1, GroupsEntries
      <4>2. CASE e.group.on = Invalid BY <4>2 DEF Housed, PanelOf, Wanted, Id
      <4>3. CASE e.group.on # Invalid
        <5>1. PICK d \in ToplevelsOf(ToSet(Groups(f, -1))) :
                PanelOf(e.group, -1) = Wanted(d.group.name, d.screen)
          BY <2>4, <3>1, <4>3, GroupsEntries
        <5>2. PanelOf(e.group, e.screen) \in Coming' BY <3>1, <4>1, <5>1 DEF Coming
        <5> QED BY <5>2 DEF Housed
      <4> QED BY <4>2, <4>3
    <3>2. CASE todo' = <<>> BY <2>4, <3>2 DEF ToSet
    <3> QED BY <1>1, <3>1, <3>2
  <2> QED BY <2>3, <2>4 DEF ObjectsHoused
<1>8. ScreensCovered' BY <1>1 DEF ScreensCovered
<1> QED BY <1>3, <1>4, <1>5, <1>6, <1>7, <1>8 DEF Inv

\* The file is appended for every empty screen.
LEMMA EnsureInv ==
  ASSUME Inv, Ensure
  PROVE  Inv'
<1>1. /\ phase = "initial" /\ todo = <<>> /\ current = NoId
      /\ UNCHANGED <<listed, keys, screenOf, onOf, current, file, nScreens, edits, missing>>
      /\ \/ phase' = "stopped" /\ todo' = <<>>
         \/ phase' = "ensure" /\ todo' = OncePerEmptyScreen
  BY DEF Ensure, Inv, SessionOK, store, session
<1>2. nScreens \in Nat /\ file \in Files \union {<<>>} BY DEF Inv, SessionOK
<1>3. StoreOK' BY <1>1 DEF Inv, StoreOK, Listed
<1>4. SessionOK'
  <2>1. OncePerEmptyScreen \in Seq(Entries) BY <1>2, OncePerEmptyScreenAppends
  <2> QED BY <1>1, <2>1 DEF Inv, SessionOK
<1>5. NoIdTwice' BY <1>1 DEF Inv, NoIdTwice
<1>6. CurrentOK' BY <1>1 DEF CurrentOK
<1>7. Listed("toplevel")' = Listed("toplevel") /\ Listed("object")' = Listed("object")
  BY <1>1 DEF Listed
<1>8. \A k \in EmptyScreens : k \in Int BY <1>2 DEF EmptyScreens, screens
<1>9. ObjectsHoused'
  <2>1. Coming = {} BY <1>1 DEF Coming, ToplevelsOf, ToSet
  <2>2. ASSUME NEW x \in Listed("object")' PROVE Housed(onOf[x])'
    <3>1. Housed(onOf[x]) BY <1>7 DEF Inv, ObjectsHoused
    <3> QED BY <1>1, <1>7, <2>1, <3>1 DEF Housed
  <2>3. ASSUME NEW e \in ToSet(todo'), e.group.kind = "object"
        PROVE  Housed(PanelOf(e.group, e.screen))'
    <3>1. CASE todo' = OncePerEmptyScreen
      <4>1. PICK k \in EmptyScreens : e \in ToSet(Groups(file, k))
        BY <1>2, <2>3, <3>1, OncePerEmptyScreenAppends
      <4>2. k \in Int BY <1>8
      <4>3. e.screen = k BY <1>2, <4>1, <4>2, GroupsEntries
      <4>4. CASE e.group.on = Invalid BY <4>4 DEF Housed, PanelOf, Wanted, Id
      <4>5. CASE e.group.on # Invalid
        <5>1. PICK d \in ToplevelsOf(ToSet(Groups(file, k))) :
                PanelOf(e.group, k) = Wanted(d.group.name, d.screen)
          <6>1. \A b \in ToSet(Groups(file, k)) :
                  b.group.kind = "object" =>
                    \/ b.group.on = Invalid
                    \/ \E d \in ToplevelsOf(ToSet(Groups(file, k))) :
                         PanelOf(b.group, k) = Wanted(d.group.name, d.screen)
            BY <1>2, <4>2, GroupsEntries
          <6> QED BY <2>3, <4>1, <4>5, <6>1
        <5>2. d \in ToplevelsOf(ToSet(todo'))
          BY <1>2, <3>1, <4>1, <5>1, OncePerEmptyScreenAppends DEF ToplevelsOf
        <5>3. PanelOf(e.group, e.screen) \in Coming' BY <4>3, <5>1, <5>2 DEF Coming
        <5> QED BY <5>3 DEF Housed
      <4> QED BY <4>4, <4>5
    <3>2. CASE todo' = <<>> BY <2>3, <3>2 DEF ToSet
    <3> QED BY <1>1, <3>1, <3>2
  <2> QED BY <2>2, <2>3 DEF ObjectsHoused
<1>10. ScreensCovered'
  <2> SUFFICES ASSUME phase' = "ensure", FileHasPanel', NEW s \in screens'
               PROVE  \/ s \in {screenOf[id] : id \in Listed("toplevel")}'
                      \/ \E e \in ToplevelsOf(ToSet(todo')) : e.screen = s
    BY DEF ScreensCovered
  <2>1. todo' = OncePerEmptyScreen /\ FileHasPanel /\ s \in screens
    BY <1>1 DEF FileHasPanel, screens
  <2>2. CASE s \notin EmptyScreens BY <1>1, <1>7, <2>1, <2>2 DEF EmptyScreens
  <2>3. CASE s \in EmptyScreens
    <3>1. PICK e \in ToplevelsOf(ToSet(Groups(file, s))) : e.screen = s
      BY <1>2, <1>8, <2>1, <2>3, GroupsEntries DEF FileHasPanel
    <3>2. e \in ToplevelsOf(ToSet(todo'))
      BY <1>2, <2>1, <2>3, <3>1, OncePerEmptyScreenAppends DEF ToplevelsOf
    <3> QED BY <3>1, <3>2
  <2> QED BY <2>2, <2>3
<1> QED BY <1>3, <1>4, <1>5, <1>6, <1>9, <1>10 DEF Inv

\* Loading is done, or the process ends: what was to come is missing then.
LEMMA EndInv ==
  ASSUME Inv, Loaded \/ Crash
  PROVE  Inv'
<1>1. /\ todo' = <<>> /\ current' = NoId
      /\ phase' \in {"stopped", "running"}
      /\ UNCHANGED <<listed, keys, screenOf, onOf, file, nScreens, edits>>
  BY DEF Loaded, Crash, Inv, SessionOK, store, session
<1>2. missing \union Coming \subseteq missing'
  <2>1. CASE Loaded
    <3>1. todo = <<>> /\ missing' = missing BY <2>1 DEF Loaded
    <3> QED BY <3>1 DEF Coming, ToplevelsOf, ToSet
  <2>2. CASE Crash
    BY <2>2 DEF Crash, Coming, ToplevelsOf, ToSet
  <2> QED BY <2>1, <2>2
<1>3. StoreOK' BY <1>1 DEF Inv, StoreOK, Listed
<1>4. SessionOK' BY <1>1 DEF Inv, SessionOK
<1>5. NoIdTwice' BY <1>1 DEF Inv, NoIdTwice
<1>6. CurrentOK' BY <1>1 DEF CurrentOK
<1>7. ObjectsHoused'
  <2>1. Listed("toplevel")' = Listed("toplevel") /\ Listed("object")' = Listed("object")
    BY <1>1 DEF Listed
  <2>2. ASSUME NEW x \in Listed("object")' PROVE Housed(onOf[x])'
    <3>1. Housed(onOf[x]) BY <2>1 DEF Inv, ObjectsHoused
    <3> QED BY <1>1, <1>2, <2>1, <3>1 DEF Housed
  <2>3. ToSet(todo') = {} BY <1>1 DEF ToSet
  <2> QED BY <2>2, <2>3 DEF ObjectsHoused
<1>8. ScreensCovered' BY <1>1 DEF ScreensCovered
<1> QED BY <1>3, <1>4, <1>5, <1>6, <1>7, <1>8 DEF Inv

\* The keys of a group are written.
LEMMA WriteKeysInv ==
  ASSUME Inv, WriteKeys
  PROVE  Inv'
<1> DEFINE group == Head(todo).group
           screen == Head(todo).screen
<1>1. /\ todo # <<>> /\ current = NoId
      /\ UNCHANGED <<listed, phase, todo, file, nScreens, edits>>
  BY DEF WriteKeys, session
<1>2. PICK id \in FreeIds(group.kind, group.name, screen) :
        /\ id.number <= MaxNumber
        /\ current' = id
        /\ keys' = [keys EXCEPT ![group.kind] = @ \union {id}]
        /\ IF group.kind = "toplevel"
           THEN /\ screenOf' = With(screenOf, id, IF screen # -1 THEN screen
                                   ELSE IF id \in keys["toplevel"] THEN screenOf[id] ELSE 0)
                /\ missing' = missing \union ({Wanted(group.name, screen)} \ {id})
                /\ UNCHANGED onOf
           ELSE /\ onOf' = With(onOf, id, PanelOf(group, screen))
                /\ UNCHANGED <<screenOf, missing>>
  BY DEF WriteKeys
<1>3. Head(todo) \in Entries /\ Head(todo) \in ToSet(todo)
  <2>1. todo \in Seq(Entries) BY DEF Inv, SessionOK
  <2> QED BY <1>1, <2>1, TailLeaves
<1>4. /\ group \in AllGroups /\ screen \in Int
      /\ UNCHANGED <<group, screen>>
  BY <1>1, <1>3 DEF Entries
<1>5. group.kind \in Kinds /\ group.name \in Names BY <1>4, KindsOfGroups
<1> HIDE DEF group, screen
<1>6. id \in FileIds /\ id \notin Listed(group.kind)
  BY <1>2, <1>4, <1>5, FreeIdsFree DEF Inv
<1>7. \A kind \in Kinds : Listed(kind)' = Listed(kind) BY <1>1 DEF Listed
<1>8. "toplevel" \in Kinds /\ "object" \in Kinds BY DEF Kinds
<1>9. /\ DOMAIN screenOf = keys["toplevel"] /\ DOMAIN onOf = keys["object"]
      /\ keys \in [Kinds -> SUBSET FileIds]
      /\ \A kind \in Kinds : Listed(kind) \subseteq keys[kind]
  BY DEF Inv, StoreOK
<1> DEFINE value == IF screen # -1 THEN screen
                    ELSE IF id \in keys["toplevel"] THEN screenOf[id] ELSE 0
<1>2a. ASSUME group.kind = "toplevel"
       PROVE  /\ UNCHANGED onOf
              /\ DOMAIN screenOf' = DOMAIN screenOf \union {id}
              /\ screen # -1 => screenOf'[id] = screen
              /\ \A x \in DOMAIN screenOf : x # id => screenOf'[x] = screenOf[x]
  <2>1. screenOf' = With(screenOf, id, value) /\ UNCHANGED onOf BY <1>2, <1>2a
  <2>2. screen # -1 => value = screen OBVIOUS
  <2> HIDE DEF value
  <2>3. /\ DOMAIN With(screenOf, id, value) = DOMAIN screenOf \union {id}
        /\ With(screenOf, id, value)[id] = value
        /\ \A x \in DOMAIN screenOf : x # id => With(screenOf, id, value)[x] = screenOf[x]
    BY DEF With
  <2> QED BY <2>1, <2>2, <2>3
<1>2b. ASSUME group.kind = "object"
       PROVE  /\ UNCHANGED screenOf
              /\ DOMAIN onOf' = DOMAIN onOf \union {id}
              /\ onOf'[id] = PanelOf(group, screen)
              /\ \A x \in DOMAIN onOf : x # id => onOf'[x] = onOf[x]
  <2>1. onOf' = With(onOf, id, PanelOf(group, screen)) /\ UNCHANGED screenOf BY <1>2, <1>2b
  <2> DEFINE panel == PanelOf(group, screen)
  <2> HIDE DEF panel
  <2>2. /\ DOMAIN With(onOf, id, panel) = DOMAIN onOf \union {id}
        /\ With(onOf, id, panel)[id] = panel
        /\ \A x \in DOMAIN onOf : x # id => With(onOf, id, panel)[x] = onOf[x]
    BY DEF With
  <2> QED BY <2>1, <2>2 DEF panel
<1>2c. /\ current' = id /\ keys' = [keys EXCEPT ![group.kind] = keys[group.kind] \union {id}]
       /\ group.kind = "toplevel" => Wanted(group.name, screen) \in missing' \union {id}
  BY <1>2
<1>10. /\ \A x \in Listed("toplevel") : screenOf'[x] = screenOf[x]
       /\ \A x \in Listed("object") : onOf'[x] = onOf[x]
  <2>1. CASE group.kind = "toplevel"
    <3>1. \A x \in Listed("toplevel") : x \in DOMAIN screenOf /\ x # id BY <1>6, <1>8, <1>9, <2>1
    <3> QED BY <1>2a, <2>1, <3>1
  <2>2. CASE group.kind # "toplevel"
    <3>1. group.kind = "object" BY <1>5, <2>2 DEF Kinds
    <3>2. \A x \in Listed("object") : x \in DOMAIN onOf /\ x # id BY <1>6, <1>8, <1>9, <3>1
    <3> QED BY <1>2b, <3>1, <3>2
  <2> QED BY <2>1, <2>2
<1>11. missing \subseteq missing' /\ Coming' = Coming BY <1>1, <1>2 DEF Coming, ToplevelsOf
<1>12. ASSUME NEW on, Housed(on) PROVE Housed(on)'
  BY <1>7, <1>8, <1>11, <1>12 DEF Housed
<1>13. StoreOK'
  <2>1. listed' \in [Kinds -> Seq(FileIds)] BY <1>1 DEF Inv, StoreOK
  <2>2. keys' \in [Kinds -> SUBSET FileIds] BY <1>2, <1>5, <1>6, <1>9
  <2>3. \A kind \in Kinds : keys[kind] \subseteq keys'[kind] BY <1>2, <1>5, <1>9
  <2>4. DOMAIN screenOf' = keys'["toplevel"] /\ DOMAIN onOf' = keys'["object"]
    <3>1. CASE group.kind = "toplevel"
      BY <1>2a, <1>2c, <1>8, <1>9, <3>1
    <3>2. CASE group.kind = "object"
      BY <1>2b, <1>2c, <1>8, <1>9, <3>2
    <3> QED BY <1>5, <3>1, <3>2 DEF Kinds
  <2> QED BY <1>7, <1>9, <2>1, <2>2, <2>3, <2>4 DEF StoreOK
<1>14. SessionOK' BY <1>1 DEF Inv, SessionOK
<1>15. NoIdTwice' BY <1>1 DEF Inv, NoIdTwice
<1>16. CurrentOK'
  <2>2. current' \in keys'[group.kind] \ Listed(group.kind)'
    <3>1. keys'[group.kind] = keys[group.kind] \union {id} BY <1>2c, <1>5, <1>9
    <3> QED BY <1>2c, <1>4, <1>5, <1>6, <1>7, <3>1
  <2>3. ASSUME group.kind = "toplevel"
        PROVE  /\ Wanted(group.name, screen) \in missing' \union {current'}
               /\ screen # -1 => screenOf'[current'] = screen
    BY <1>2a, <1>2c, <2>3
  <2>4. ASSUME group.kind = "object" PROVE Housed(onOf[current])'
    <3>1. onOf'[current'] = PanelOf(group, screen) BY <1>2b, <1>2c, <2>4
    <3>2. Housed(PanelOf(group, screen)) BY <1>3, <2>4 DEF Inv, ObjectsHoused, group, screen
    <3> QED BY <1>12, <3>1, <3>2
  <2> QED BY <1>4, <2>2, <2>3, <2>4 DEF CurrentOK, group, screen
<1>17. ObjectsHoused'
  <2>1. ASSUME NEW x \in Listed("object")' PROVE Housed(onOf[x])'
    BY <1>7, <1>8, <1>10, <1>12 DEF Inv, ObjectsHoused
  <2>2. ASSUME NEW e \in ToSet(todo'), e.group.kind = "object"
        PROVE  Housed(PanelOf(e.group, e.screen))'
    BY <1>1, <1>12, <2>2 DEF Inv, ObjectsHoused
  <2> QED BY <2>1, <2>2 DEF ObjectsHoused
<1>18. ScreensCovered'
  <2>1. Listed("toplevel")' = Listed("toplevel") BY <1>7, <1>8
  <2>2. {screenOf[id_1] : id_1 \in Listed("toplevel")}'
          = {screenOf[id_1] : id_1 \in Listed("toplevel")}
    BY <1>10, <2>1
  <2> QED BY <1>1, <2>2 DEF Inv, ScreensCovered, FileHasPanel, screens
<1> QED BY <1>13, <1>14, <1>15, <1>16, <1>17, <1>18 DEF Inv

\* The id goes to the list.
LEMMA WriteListInv ==
  ASSUME Inv, WriteList
  PROVE  Inv'
<1> DEFINE group == Head(todo).group
           screen == Head(todo).screen
<1>1. /\ current # NoId /\ current' = NoId /\ todo' = Tail(todo)
      /\ listed' = [listed EXCEPT ![group.kind] = Append(@, current)]
      /\ UNCHANGED <<keys, screenOf, onOf, phase, file, nScreens, edits, missing>>
  BY DEF WriteList, session
<1>2. todo # <<>> /\ todo \in Seq(Entries) BY <1>1 DEF Inv, SessionOK
<1>3. /\ Head(todo) \in Entries /\ todo' \in Seq(Entries)
      /\ ToSet(todo) = {Head(todo)} \union ToSet(todo')
  BY <1>1, <1>2, TailLeaves
<1>4. group.kind \in Kinds
  <2>1. group \in AllGroups BY <1>3 DEF Entries
  <2> QED BY <2>1, KindsOfGroups
<1>5. /\ current \in keys[group.kind] \ Listed(group.kind)
      /\ group.kind = "toplevel" =>
           /\ Wanted(group.name, screen) \in missing \union {current}
           /\ screen # -1 => screenOf[current] = screen
      /\ group.kind = "object" => Housed(onOf[current])
  BY <1>1 DEF Inv, CurrentOK
<1>6. Head(todo).group = group /\ Head(todo).screen = screen OBVIOUS
<1> HIDE DEF group, screen
<1>7. /\ listed \in [Kinds -> Seq(FileIds)] /\ keys \in [Kinds -> SUBSET FileIds]
      /\ \A kind \in Kinds : Listed(kind) \subseteq keys[kind]
  BY DEF Inv, StoreOK
<1>8. current \in FileIds BY <1>4, <1>5, <1>7
<1>9. \A kind \in Kinds : listed'[kind] = IF kind = group.kind THEN Append(listed[kind], current)
                                                                ELSE listed[kind]
  BY <1>1, <1>4, <1>7
<1>10. ASSUME NEW kind \in Kinds
       PROVE  /\ listed'[kind] \in Seq(FileIds)
              /\ Listed(kind)' = Listed(kind) \union (IF kind = group.kind THEN {current} ELSE {})
              /\ IsInjective(listed'[kind])
  <2>1. listed[kind] \in Seq(FileIds) /\ IsInjective(listed[kind]) BY <1>7 DEF Inv, NoIdTwice
  <2>2. CASE kind = group.kind
    <3>1. listed'[kind] = Append(listed[kind], current) /\ current \notin ToSet(listed[kind])
      BY <1>5, <1>9, <2>2 DEF Listed
    <3> QED BY <1>8, <2>1, <2>2, <3>1, AppendAdds DEF Listed
  <2>3. CASE kind # group.kind
    BY <1>9, <2>1, <2>3 DEF Listed
  <2> QED BY <2>2, <2>3
<1>11. "toplevel" \in Kinds /\ "object" \in Kinds BY DEF Kinds
<1>12. ASSUME NEW on, Housed(on) PROVE Housed(on)'
  <2>1. Listed("toplevel") \subseteq Listed("toplevel")' /\ missing' = missing BY <1>1, <1>10, <1>11
  <2>2. ASSUME on \in Coming PROVE on \in Listed("toplevel")' \union missing' \union Coming'
    <3>1. PICK e \in ToplevelsOf(ToSet(todo)) : on = Wanted(e.group.name, e.screen)
      BY <2>2 DEF Coming
    <3>2. CASE e = Head(todo)
      <4>1. group.kind = "toplevel" /\ on = Wanted(group.name, screen)
        BY <1>6, <3>1, <3>2 DEF ToplevelsOf
      <4>2. current \in Listed("toplevel")' BY <1>10, <1>11, <4>1
      <4> QED BY <1>5, <2>1, <4>1, <4>2
    <3>3. CASE e # Head(todo)
      <4>1. e \in ToplevelsOf(ToSet(todo')) BY <1>3, <3>1, <3>3 DEF ToplevelsOf
      <4> QED BY <3>1, <4>1 DEF Coming
    <3> QED BY <3>2, <3>3
  <2> QED BY <1>12, <2>1, <2>2 DEF Housed
<1>13. StoreOK'
  <2>1. listed' \in [Kinds -> Seq(FileIds)] BY <1>1, <1>7, <1>10
  <2>2. \A kind \in Kinds : Listed(kind)' \subseteq keys'[kind] BY <1>1, <1>5, <1>7, <1>10
  <2> QED BY <1>1, <2>1, <2>2 DEF Inv, StoreOK
<1>14. SessionOK' BY <1>1, <1>2, <1>3 DEF Inv, SessionOK
<1>15. NoIdTwice' BY <1>10 DEF NoIdTwice
<1>16. CurrentOK' BY <1>1 DEF CurrentOK
<1>17. ObjectsHoused'
  <2>1. ASSUME NEW x \in Listed("object")' PROVE Housed(onOf[x])'
    <3>1. Housed(onOf[x])
      <4>1. CASE x \in Listed("object") BY <4>1 DEF Inv, ObjectsHoused
      <4>2. CASE x \notin Listed("object")
        <5>1. group.kind = "object" /\ x = current BY <1>10, <1>11, <2>1, <4>2
        <5> QED BY <1>5, <5>1
      <4> QED BY <4>1, <4>2
    <3> QED BY <1>1, <1>12, <3>1
  <2>2. ASSUME NEW e \in ToSet(todo'), e.group.kind = "object"
        PROVE  Housed(PanelOf(e.group, e.screen))'
    BY <1>3, <1>12, <2>2 DEF Inv, ObjectsHoused
  <2> QED BY <2>1, <2>2 DEF ObjectsHoused
<1>18. ScreensCovered'
  <2> SUFFICES ASSUME phase' = "ensure", FileHasPanel', NEW s \in screens'
               PROVE  \/ \E id \in Listed("toplevel")' : screenOf'[id] = s
                      \/ \E e \in ToplevelsOf(ToSet(todo')) : e.screen = s
    BY DEF ScreensCovered
  <2>1. phase = "ensure" /\ FileHasPanel /\ s \in screens
    BY <1>1 DEF FileHasPanel, screens
  <2>2. \/ \E id \in Listed("toplevel") : screenOf[id] = s
        \/ \E e \in ToplevelsOf(ToSet(todo)) : e.screen = s
    BY <2>1 DEF Inv, ScreensCovered
  <2>3. CASE \E id \in Listed("toplevel") : screenOf[id] = s
    BY <1>1, <1>10, <1>11, <2>3
  <2>4. ASSUME NEW e \in ToplevelsOf(ToSet(todo)), e.screen = s
        PROVE  \/ \E id \in Listed("toplevel")' : screenOf'[id] = s
               \/ \E d \in ToplevelsOf(ToSet(todo')) : d.screen = s
    <3>1. CASE e = Head(todo)
      <4>1. group.kind = "toplevel" /\ screen = s BY <1>6, <2>4, <3>1 DEF ToplevelsOf
      <4>2. s # -1 BY <2>1 DEF screens, Inv, SessionOK
      <4>3. current \in Listed("toplevel")' /\ screenOf'[current] = s
        BY <1>1, <1>5, <1>10, <1>11, <4>1, <4>2
      <4> QED BY <4>3
    <3>2. CASE e # Head(todo)
      <4>1. e \in ToplevelsOf(ToSet(todo')) BY <1>3, <2>4, <3>2 DEF ToplevelsOf
      <4> QED BY <2>4, <4>1
    <3> QED BY <3>1, <3>2
  <2> QED BY <2>2, <2>3, <2>4
<1> QED BY <1>13, <1>14, <1>15, <1>16, <1>17, <1>18 DEF Inv

\* An edit of the running panel leaves the session alone.
LEMMA EditInv ==
  ASSUME Inv, NEW whole \in BOOLEAN, Edit(whole), StoreOK', NoIdTwice',
         \A x \in Listed("object")' : Housed(onOf[x])'
  PROVE  Inv'
<1>1. /\ todo' = <<>> /\ current' = NoId /\ file' = file /\ nScreens' = nScreens
      /\ phase' \in {"running", "stopped"} /\ edits' = edits + 1 /\ edits < MaxEdits
  BY DEF Edit, session, Inv, SessionOK
<1>2. SessionOK' BY <1>1, BoundAssumption DEF Inv, SessionOK
<1>3. CurrentOK' BY <1>1 DEF CurrentOK
<1>4. ObjectsHoused'
  <2>1. ToSet(todo') = {} BY <1>1 DEF ToSet
  <2> QED BY <2>1 DEF ObjectsHoused
<1>5. ScreensCovered' BY <1>1 DEF ScreensCovered
<1> QED BY <1>2, <1>3, <1>4, <1>5 DEF Inv

\* A new toplevel or object: its keys, then its place in the list.
LEMMA CreateInv ==
  ASSUME Inv, NEW whole \in BOOLEAN,
         \/ \E screen \in screens : CreateToplevel(screen, whole)
         \/ \E name \in ObjectNames, on \in PanelsThere : CreateObject(name, on, whole)
  PROVE  Inv'
<1>1. /\ listed \in [Kinds -> Seq(FileIds)] /\ keys \in [Kinds -> SUBSET FileIds]
      /\ \A kind \in Kinds : Listed(kind) \subseteq keys[kind]
      /\ DOMAIN screenOf = keys["toplevel"] /\ DOMAIN onOf = keys["object"]
  BY DEF Inv, StoreOK
<1>2. "toplevel" \in Kinds /\ "object" \in Kinds BY DEF Kinds
<1>3. ASSUME NEW kind \in Kinds, NEW id \in FileIds, id \notin Listed(kind), Edit(whole),
             keys' = [keys EXCEPT ![kind] = keys[kind] \union {id}],
             listed' = IF whole THEN [listed EXCEPT ![kind] = Append(listed[kind], id)] ELSE listed,
             missing' = missing,
             DOMAIN screenOf' = keys'["toplevel"], DOMAIN onOf' = keys'["object"],
             \A x \in Listed("object") : x # id \/ kind = "toplevel" => onOf'[x] = onOf[x],
             kind = "object" => onOf'[id] \in Listed("toplevel")
      PROVE  Inv'
  <2>1. keys' \in [Kinds -> SUBSET FileIds] /\ id \in keys'[kind]
        /\ \A k \in Kinds : keys[k] \subseteq keys'[k]
    BY <1>1, <1>3
  <2>2. ASSUME NEW k \in Kinds
        PROVE  /\ listed'[k] \in Seq(FileIds) /\ IsInjective(listed'[k])
               /\ Listed(k) \subseteq Listed(k)'
               /\ Listed(k)' \subseteq Listed(k) \union (IF k = kind THEN {id} ELSE {})
    <3>1. listed[k] \in Seq(FileIds) /\ IsInjective(listed[k]) BY <1>1 DEF Inv, NoIdTwice
    <3>2. CASE whole /\ k = kind
      <4>1. listed'[k] = Append(listed[k], id) /\ id \notin ToSet(listed[k])
        BY <1>1, <1>3, <3>2 DEF Listed
      <4> QED BY <1>3, <3>1, <3>2, <4>1, AppendAdds DEF Listed
    <3>3. CASE ~(whole /\ k = kind)
      <4>1. listed'[k] = listed[k] BY <1>1, <1>3, <3>3
      <4> QED BY <3>1, <4>1 DEF Listed
    <3> QED BY <3>2, <3>3
  <2>3. StoreOK'
    <3>1. listed' \in [Kinds -> Seq(FileIds)] BY <1>1, <1>3, <2>2
    <3>2. \A k \in Kinds : Listed(k)' \subseteq keys'[k] BY <1>1, <2>1, <2>2
    <3> QED BY <1>3, <2>1, <3>1, <3>2 DEF StoreOK
  <2>4. NoIdTwice' BY <2>2 DEF NoIdTwice
  <2>5. ASSUME NEW x \in Listed("object")' PROVE Housed(onOf[x])'
    <3>1. CASE kind = "object" /\ x = id
      <4>1. onOf'[x] \in Listed("toplevel")' BY <1>2, <1>3, <2>2, <3>1
      <4> QED BY <4>1 DEF Housed
    <3>2. CASE ~(kind = "object" /\ x = id)
      <4>1. x \in Listed("object") /\ onOf'[x] = onOf[x]
        BY <1>2, <1>3, <2>2, <2>5, <3>2 DEF Kinds
      <4>2. Housed(onOf[x]) BY <4>1 DEF Inv, ObjectsHoused
      <4>3. todo' = todo /\ Listed("toplevel") \subseteq Listed("toplevel")'
        BY <1>2, <1>3, <2>2 DEF Edit
      <4>4. Coming' = Coming BY <4>3 DEF Coming, ToplevelsOf
      <4> QED BY <1>3, <4>1, <4>2, <4>3, <4>4 DEF Housed
    <3> QED BY <3>1, <3>2
  <2> QED BY <1>3, <2>3, <2>4, <2>5, EditInv
<1>4. ASSUME NEW screen \in screens, CreateToplevel(screen, whole) PROVE Inv'
  <2> DEFINE id == Numbered("toplevel", "toplevel", -1)
  <2>1. /\ id.number <= MaxNumber /\ Edit(whole)
        /\ keys' = [keys EXCEPT !["toplevel"] = keys["toplevel"] \union {id}]
        /\ listed' = IF whole THEN [listed EXCEPT !["toplevel"] = Append(listed["toplevel"], id)]
                     ELSE listed
        /\ onOf' = onOf /\ missing' = missing
        /\ screenOf' = With(screenOf, id, screen)
    BY <1>4 DEF CreateToplevel
  <2>2. id \in FileIds /\ id \notin Listed("toplevel")
    <3>1. "toplevel" \in Names BY <1>2 DEF Names
    <3> QED BY <1>2, <2>1, <3>1, NumberedFree DEF Inv
  <2> HIDE DEF id
  <2>3. DOMAIN screenOf' = keys'["toplevel"] BY <1>1, <1>2, <2>1 DEF With
  <2>4. DOMAIN onOf' = keys'["object"] BY <1>1, <1>2, <2>1
  <2> QED BY <1>2, <1>3, <2>1, <2>2, <2>3, <2>4
<1>5. ASSUME NEW name \in ObjectNames, NEW on \in PanelsThere, CreateObject(name, on, whole)
      PROVE  Inv'
  <2>1. PICK id \in FreeIds("object", name, -1) :
          /\ id.number <= MaxNumber /\ Edit(whole)
          /\ keys' = [keys EXCEPT !["object"] = keys["object"] \union {id}]
          /\ onOf' = With(onOf, id, on)
          /\ listed' = IF whole THEN [listed EXCEPT !["object"] = Append(listed["object"], id)]
                       ELSE listed
          /\ screenOf' = screenOf /\ missing' = missing
    BY <1>5 DEF CreateObject
  <2>2. name \in Names BY DEF ObjectNames, ObjectGroups, Names, AllGroups
  <2>3. id \in FileIds /\ id \notin Listed("object") BY <1>2, <2>1, <2>2, FreeIdsFree DEF Inv
  <2>4. DOMAIN onOf' = keys'["object"] BY <1>1, <1>2, <2>1 DEF With
  <2>5. DOMAIN screenOf' = keys'["toplevel"] BY <1>1, <1>2, <2>1
  <2>6. \A x \in Listed("object") : onOf'[x] = onOf[x] BY <1>1, <1>2, <2>1, <2>3 DEF With
  <2>7. onOf'[id] \in Listed("toplevel") BY <2>1 DEF With, PanelsThere
  <2> QED BY <1>2, <1>3, <2>1, <2>3, <2>4, <2>5, <2>6, <2>7
<1> QED BY <1>4, <1>5

\* An object, or a panel with some of the others on it, goes.  What stays on a
\* panel that goes is known to have lost it.
LEMMA DeletedInv ==
  ASSUME Inv, NEW whole \in BOOLEAN, Edit(whole),
         NEW gone, NEW lost,
         listed' \in [Kinds -> Seq(FileIds)], NoIdTwice',
         Listed("toplevel")' = Listed("toplevel") \ gone,
         Listed("object")' = Listed("object") \ lost,
         keys' \in [Kinds -> SUBSET FileIds],
         keys["toplevel"] \ gone \subseteq keys'["toplevel"],
         keys["object"] \ lost \subseteq keys'["object"],
         DOMAIN screenOf' = keys'["toplevel"], DOMAIN onOf' = keys'["object"],
         \A x \in keys'["object"] : onOf'[x] = onOf[x],
         missing \subseteq missing',
         \A x \in Listed("object") \ lost : onOf[x] \in gone => onOf[x] \in missing'
  PROVE  Inv'
<1>1. /\ listed \in [Kinds -> Seq(FileIds)]
      /\ \A kind \in Kinds : Listed(kind) \subseteq keys[kind]
  BY DEF Inv, StoreOK
<1>2. "toplevel" \in Kinds /\ "object" \in Kinds /\ "toplevel" # "object" BY DEF Kinds
<1>5. StoreOK'
  <2>1. \A kind \in Kinds : Listed(kind)' \subseteq keys'[kind] BY <1>1, <1>2 DEF Kinds
  <2> QED BY <2>1 DEF StoreOK
<1>7. ASSUME NEW x \in Listed("object")' PROVE Housed(onOf[x])'
  <2>1. x \in Listed("object") \ lost /\ x \in keys'["object"] BY <1>1, <1>2, <1>7
  <2>2. Housed(onOf[x]) /\ onOf'[x] = onOf[x] BY <2>1 DEF Inv, ObjectsHoused
  <2>3. todo' = todo BY DEF Edit
  <2>4. Coming' = Coming BY <2>3 DEF Coming, ToplevelsOf
  <2> QED BY <2>1, <2>2, <2>4 DEF Housed
<1> QED BY <1>5, <1>7, EditInv

LEMMA DeleteObjectInv ==
  ASSUME Inv, NEW whole \in BOOLEAN, NEW id, DeleteObject(id, whole)
  PROVE  Inv'
<1> DEFINE left == IF whole THEN keys["object"] \ {id} ELSE keys["object"]
<1>1. /\ Edit(whole) /\ missing' = missing /\ screenOf' = screenOf
      /\ listed' = [listed EXCEPT !["object"] = Without(listed["object"], {id})]
      /\ keys' = [keys EXCEPT !["object"] = left]
      /\ onOf' = Restrict(onOf, left)
  BY DEF DeleteObject
<1>2. /\ listed \in [Kinds -> Seq(FileIds)] /\ keys \in [Kinds -> SUBSET FileIds]
      /\ DOMAIN screenOf = keys["toplevel"] /\ DOMAIN onOf = keys["object"]
      /\ \A kind \in Kinds : IsInjective(listed[kind])
  BY DEF Inv, StoreOK, NoIdTwice
<1>3. "toplevel" \in Kinds /\ "object" \in Kinds /\ "toplevel" # "object" BY DEF Kinds
<1>4. left \in SUBSET FileIds /\ keys["object"] \ {id} \subseteq left BY <1>2, <1>3
<1> HIDE DEF left
<1>5. /\ keys' \in [Kinds -> SUBSET FileIds] /\ keys'["object"] = left
      /\ keys'["toplevel"] = keys["toplevel"]
  BY <1>1, <1>2, <1>3, <1>4
<1>6. DOMAIN onOf' = left /\ \A x \in left : onOf'[x] = onOf[x] BY <1>1 DEF Restrict
<1>7. /\ listed'["toplevel"] = listed["toplevel"]
      /\ listed'["object"] = Without(listed["object"], {id})
  BY <1>1, <1>2, <1>3
<1>8. /\ listed'["object"] \in Seq(FileIds) /\ IsInjective(listed'["object"])
      /\ Listed("object")' = Listed("object") \ {id}
  <2>1. listed["object"] \in Seq(FileIds) /\ IsInjective(listed["object"]) BY <1>2, <1>3
  <2> QED BY <1>7, <2>1, WithoutKeeps DEF Listed
<1>9. listed' \in [Kinds -> Seq(FileIds)] /\ NoIdTwice'
  <2>1. \A kind \in Kinds : listed'[kind] \in Seq(FileIds) /\ IsInjective(listed'[kind])
    BY <1>2, <1>3, <1>7, <1>8 DEF Kinds
  <2> QED BY <1>1, <1>2, <2>1 DEF NoIdTwice
<1>10. Listed("toplevel")' = Listed("toplevel") \ {} BY <1>7 DEF Listed
<1> QED BY <1>1, <1>2, <1>4, <1>5, <1>6, <1>8, <1>9, <1>10, DeletedInv

LEMMA DeleteToplevelInv ==
  ASSUME Inv, NEW id, DeleteToplevel(id)
  PROVE  Inv'
<1>1. PICK gone \in SUBSET ObjectsOn(id), whole \in BOOLEAN :
        DeleteToplevelAnd(id, gone, whole) /\ (whole => gone = ObjectsOn(id))
  BY DEF DeleteToplevel
<1> DEFINE others == Without(listed["object"], gone)
           panels == Without(listed["toplevel"], {id})
<1>2. /\ Edit(whole)
      /\ listed' = [listed EXCEPT !["toplevel"] = panels, !["object"] = others]
      /\ keys' = [keys EXCEPT !["toplevel"] = keys["toplevel"] \ {id},
                              !["object"] = keys["object"] \ gone]
      /\ screenOf' = Restrict(screenOf, keys'["toplevel"])
      /\ onOf' = Restrict(onOf, keys'["object"])
      /\ missing' = IF whole THEN missing ELSE missing \union {id}
  BY <1>1 DEF DeleteToplevelAnd
<1>3. /\ listed \in [Kinds -> Seq(FileIds)] /\ keys \in [Kinds -> SUBSET FileIds]
      /\ DOMAIN screenOf = keys["toplevel"] /\ DOMAIN onOf = keys["object"]
      /\ \A kind \in Kinds : IsInjective(listed[kind])
      /\ \A kind \in Kinds : Listed(kind) \subseteq keys[kind]
  BY DEF Inv, StoreOK, NoIdTwice
<1>4. "toplevel" \in Kinds /\ "object" \in Kinds /\ "toplevel" # "object" BY DEF Kinds
<1>5. /\ keys' \in [Kinds -> SUBSET FileIds]
      /\ keys'["toplevel"] = keys["toplevel"] \ {id}
      /\ keys'["object"] = keys["object"] \ gone
  BY <1>2, <1>3, <1>4
<1>6. /\ DOMAIN screenOf' = keys'["toplevel"] /\ DOMAIN onOf' = keys'["object"]
      /\ \A x \in keys'["object"] : onOf'[x] = onOf[x]
  BY <1>2 DEF Restrict
<1>7. /\ panels \in Seq(FileIds) /\ IsInjective(panels) /\ ToSet(panels) = Listed("toplevel") \ {id}
  <2>1. listed["toplevel"] \in Seq(FileIds) /\ IsInjective(listed["toplevel"]) BY <1>3, <1>4
  <2> QED BY <2>1, WithoutKeeps DEF Listed
<1>8. /\ others \in Seq(FileIds) /\ IsInjective(others)
      /\ ToSet(others) = Listed("object") \ gone
  <2>1. listed["object"] \in Seq(FileIds) /\ IsInjective(listed["object"]) BY <1>3, <1>4
  <2> QED BY <2>1, WithoutKeeps DEF Listed
<1> HIDE DEF panels, others
<1>9. listed'["toplevel"] = panels /\ listed'["object"] = others BY <1>2, <1>3, <1>4
<1>10. listed' \in [Kinds -> Seq(FileIds)] /\ NoIdTwice'
  <2>1. \A kind \in Kinds : listed'[kind] \in Seq(FileIds) /\ IsInjective(listed'[kind])
    BY <1>7, <1>8, <1>9 DEF Kinds
  <2> QED BY <1>2, <1>3, <2>1 DEF NoIdTwice
<1>11. /\ Listed("toplevel")' = Listed("toplevel") \ {id}
       /\ Listed("object")' = Listed("object") \ gone
  BY <1>7, <1>8, <1>9 DEF Listed
<1>12. ASSUME NEW x \in Listed("object") \ gone, onOf[x] \in {id} PROVE onOf[x] \in missing'
  <2>1. x \in ObjectsOn(id) BY <1>12 DEF ObjectsOn
  <2> QED BY <1>1, <1>2, <1>12, <2>1
<1>13. missing \subseteq missing' BY <1>2
<1> QED BY <1>2, <1>5, <1>6, <1>10, <1>11, <1>12, <1>13, DeletedInv

LEMMA StepInv == Inv /\ [Next]_vars => Inv'
<1> SUFFICES ASSUME Inv, [Next]_vars PROVE Inv' OBVIOUS
<1>1. CASE UNCHANGED vars
  <2>1. \A kind \in Kinds : Listed(kind)' = Listed(kind) BY <1>1 DEF vars, Listed
  <2>2. UNCHANGED <<Coming, screens, FileHasPanel>>
    BY <1>1 DEF vars, Coming, ToplevelsOf, screens, FileHasPanel
  <2>3. "toplevel" \in Kinds /\ "object" \in Kinds BY DEF Kinds
  <2>4. StoreOK' /\ SessionOK' /\ NoIdTwice'
    BY <1>1, <2>1 DEF vars, Inv, StoreOK, SessionOK, NoIdTwice
  <2>5. CurrentOK' /\ ObjectsHoused'
    BY <1>1, <2>1, <2>2, <2>3 DEF vars, Inv, CurrentOK, ObjectsHoused, Housed, Listed
  <2>6. ScreensCovered' BY <1>1, <2>1, <2>2, <2>3 DEF vars, Inv, ScreensCovered
  <2> QED BY <2>4, <2>5, <2>6 DEF Inv
<1>2. CASE \E f \in Files, n \in Displays : Start(f, n) BY <1>2, StartInv
<1>3. CASE WriteKeys BY <1>3, WriteKeysInv
<1>4. CASE WriteList BY <1>4, WriteListInv
<1>5. CASE Ensure BY <1>5, EnsureInv
<1>6. CASE Loaded \/ Crash BY <1>6, EndInv
<1>7. CASE \E whole \in BOOLEAN : UserStep(whole)
  BY <1>7, CreateInv, DeleteObjectInv DEF UserStep
<1>8. CASE \E id \in PanelsThere : DeleteToplevel(id) BY <1>8, DeleteToplevelInv
<1> QED BY <1>1, <1>2, <1>3, <1>4, <1>5, <1>6, <1>7, <1>8 DEF Next

LEMMA Invariance == Spec => []Inv
BY InitInv, StepInv, PTL DEF Spec

-----------------------------------------------------------------------------
\* The lists, the keys and what is still to be appended have their types, and
\* what is listed has keys (panel_layout_append_group_helper).
THEOREM TypeCorrect == Spec => []TypeOK
<1>1. Inv => TypeOK BY DEF Inv, StoreOK, SessionOK, TypeOK
<1> QED BY <1>1, Invariance, PTL

\* No list ever holds an id twice: the id that panel_layout_find_free_id gives
\* out is in no list, and stays so until it is written there.
THEOREM IdsAreFree == Spec => []NoIdTwice
<1>1. Inv => NoIdTwice BY DEF Inv
<1> QED BY <1>1, Invariance, PTL

\* Every object of a loaded layout is on a panel of it, for any well-formed files,
\* and whenever processes end (panel_layout_append_group_helper,
\* panel_layout_delete_toplevel).
THEOREM NoObjectWithoutPanel == Spec => []ObjectsOnPanels
<1>1. Inv => ObjectsOnPanels
  <2> SUFFICES ASSUME Inv, phase = "running", NEW id \in Listed("object")
               PROVE  onOf[id] \in Listed("toplevel") \union missing \/ onOf[id].name = Invalid
    BY DEF ObjectsOnPanels
  <2>1. Housed(onOf[id]) BY DEF Inv, ObjectsHoused
  <2>2. Coming = {} BY DEF Inv, SessionOK, Coming, ToplevelsOf, ToSet
  <2> QED BY <2>1, <2>2 DEF Housed
<1> QED BY <1>1, Invariance, PTL

\* Once loading is done no screen is without a panel
\* (panel_layout_ensure_toplevel_per_screen).
THEOREM NoScreenWithoutPanel == Spec => PanelOnEveryScreen
<1>1. Inv /\ [Next]_vars =>
        [Loaded /\ FileHasPanel => screens \subseteq {screenOf[id] : id \in Listed("toplevel")}]_vars
  <2> SUFFICES ASSUME Inv, Loaded, FileHasPanel
               PROVE  screens \subseteq {screenOf[id] : id \in Listed("toplevel")}
    OBVIOUS
  <2>1. phase = "ensure" /\ todo = <<>> BY DEF Loaded
  <2>2. ToplevelsOf(ToSet(todo)) = {} BY <2>1 DEF ToplevelsOf, ToSet
  <2> QED BY <2>1, <2>2 DEF Inv, ScreensCovered
<1> QED BY <1>1, Invariance, PTL DEF Spec, PanelOnEveryScreen

-----------------------------------------------------------------------------
(*****************************************************************************)
(* The launcher and its dialog.                                              *)
(*****************************************************************************)
Owns == UNION {[D -> KeyFiles] : D \in SUBSET OwnFiles}
Launchers ==
  [alive : BOOLEAN, location : {Nothing, System} \cup OwnFiles, own : Owns, failed : BOOLEAN,
   key : KeyFiles, open : BOOLEAN, new : BOOLEAN, name : LauncherNames \cup {Nothing},
   type : ItemTypes, command : Commands \cup {Nothing}, icon : Icons \cup {Nothing},
   timer : BOOLEAN, dirty : BOOLEAN, reverting : BOOLEAN, canRevert : BOOLEAN,
   revert : KeyFiles]

\* What the handlers of the entries leave alone, ...
SameFile(l, m) ==
  /\ m.alive = l.alive /\ m.location = l.location /\ m.own = l.own /\ m.failed = l.failed
  /\ m.open = l.open /\ m.new = l.new /\ m.reverting = l.reverting /\ m.revert = l.revert
  /\ l.new => m.canRevert = l.canRevert
\* ... and what they set.
Marked(l, m) == m.dirty /\ (m.timer <=> l.timer \/ ~l.new)
\* m follows from l by handlers of entries.
Edited(l, m) == m \in Launchers /\ SameFile(l, m) /\ (m = l \/ Marked(l, m))

\* Two key files of which the dialog shows the same.
SameShown(k, j) ==
  /\ NameShown(k) = NameShown(j) /\ CommandShown(k) = CommandShown(j)
  /\ IconShown(k) = IconShown(j) /\ k.type = j.type /\ k.notify = j.notify

\* Handlers that run one after the other.
LEMMA EditedTwice ==
  ASSUME NEW l, NEW m, NEW n, Edited(l, m), Edited(m, n)
  PROVE  Edited(l, n)
BY DEF Edited, SameFile, Marked

\* panel_ditem_editor_changed leaves the texts alone.
LEMMA TouchedIs ==
  ASSUME NEW l \in Launchers, NEW m, m = Touched(l)
  PROVE  /\ Edited(l, m) /\ Marked(l, m)
         /\ m.key = l.key /\ m.name = l.name /\ m.type = l.type
         /\ m.command = l.command /\ m.icon = l.icon
<1>1. m = [l EXCEPT !.timer = l.timer \/ ~l.new, !.canRevert = l.canRevert \/ ~l.new,
                    !.dirty = TRUE]
  BY DEF Touched
<1>2. (l.timer \/ ~l.new) \in BOOLEAN /\ (l.canRevert \/ ~l.new) \in BOOLEAN OBVIOUS
<1>3. m \in Launchers BY <1>1, <1>2 DEF Launchers
<1>4. SameFile(l, m) BY <1>1 DEF Launchers, SameFile
<1>5. m.dirty = TRUE /\ m.timer = (l.timer \/ ~l.new) BY <1>1 DEF Launchers
<1>6. /\ m.key = l.key /\ m.name = l.name /\ m.type = l.type
      /\ m.command = l.command /\ m.icon = l.icon
  BY <1>1 DEF Launchers
<1> QED BY <1>3, <1>4, <1>5, <1>6 DEF Edited, Marked

\* What is chosen is shown, and in the key file unless it was shown before.
LEMMA ChosenIconIs ==
  ASSUME NEW l \in Launchers, NEW i \in Icons \cup {Nothing}, NEW m, m = WithChosenIcon(l, i)
  PROVE  /\ Edited(l, m)
         /\ m.name = l.name /\ m.type = l.type /\ m.command = l.command /\ m.icon = i
         /\ m.key.type = l.key.type /\ m.key.exec = l.key.exec /\ m.key.url = l.key.url
         /\ m.key.name = l.key.name /\ m.key.full = l.key.full /\ m.key.notify = l.key.notify
         /\ m.key.icon = IF l.icon = i THEN l.key.icon ELSE i
         /\ l.icon = i => m = l
<1>1. CASE l.icon = i BY <1>1 DEF WithChosenIcon, Edited, SameFile
<1>2. CASE l.icon # i
  <2> DEFINE k == [l.key EXCEPT !.icon = i]
             c == [l EXCEPT !.icon = i, !.key = k]
  <2>1. m = Touched(c) BY <1>2 DEF WithChosenIcon
  <2>2. /\ k \in KeyFiles /\ k.type = l.key.type /\ k.exec = l.key.exec /\ k.url = l.key.url
        /\ k.name = l.key.name /\ k.full = l.key.full /\ k.notify = l.key.notify
        /\ k.icon = i
    <3>1. l.key \in KeyFiles BY DEF Launchers
    <3> QED BY <3>1 DEF KeyFiles
  <2> HIDE DEF k
  <2>3. c \in Launchers BY <2>2 DEF Launchers
  <2>4. SameFile(l, c) BY DEF SameFile, Launchers
  <2>5. /\ c.name = l.name /\ c.type = l.type /\ c.command = l.command /\ c.icon = i
        /\ c.key = k
    BY DEF Launchers
  <2>6. c.timer = l.timer BY DEF Launchers
  <2> HIDE DEF c
  <2>7. /\ Edited(c, m) /\ Marked(c, m) /\ m.key = c.key /\ m.name = c.name
        /\ m.type = c.type /\ m.command = c.command /\ m.icon = c.icon
    BY <2>1, <2>3, TouchedIs
  <2>8. Edited(l, m) BY <2>4, <2>6, <2>7 DEF Edited, SameFile, Marked
  <2> QED BY <1>2, <2>2, <2>5, <2>7, <2>8
<1> QED BY <1>1, <1>2

\* The name reaches the key file but while the dialog reverts.
LEMMA NameIs ==
  ASSUME NEW l \in Launchers, NEW n \in LauncherNames \cup {Nothing}, NEW m, m = WithName(l, n)
  PROVE  /\ Edited(l, m)
         /\ m.name = n /\ m.type = l.type /\ m.command = l.command /\ m.icon = l.icon
         /\ m.key.type = l.key.type /\ m.key.exec = l.key.exec /\ m.key.url = l.key.url
         /\ m.key.notify = l.key.notify /\ m.key.icon = l.key.icon
         /\ l.reverting => m.key.name = l.key.name /\ m.key.full = l.key.full
         /\ ~l.reverting /\ l.name # n => m.key.name = n /\ m.key.full = Nothing
         /\ l.name = n => m = l
<1>1. CASE l.name = n BY <1>1 DEF WithName, Edited, SameFile
<1>2. CASE l.name # n
  <2> DEFINE k == IF l.reverting THEN l.key ELSE [l.key EXCEPT !.name = n, !.full = Nothing]
             c == [l EXCEPT !.name = n, !.key = k]
  <2>1. m = Touched(c) BY <1>2 DEF WithName
  <2>2. /\ k \in KeyFiles /\ k.type = l.key.type /\ k.exec = l.key.exec /\ k.url = l.key.url
        /\ k.notify = l.key.notify /\ k.icon = l.key.icon
        /\ l.reverting => k.name = l.key.name /\ k.full = l.key.full
        /\ ~l.reverting => k.name = n /\ k.full = Nothing
    <3>1. l.key \in KeyFiles /\ l.reverting \in BOOLEAN BY DEF Launchers
    <3> QED BY <3>1 DEF KeyFiles
  <2> HIDE DEF k
  <2>3. c \in Launchers BY <2>2 DEF Launchers
  <2>4. SameFile(l, c) BY DEF SameFile, Launchers
  <2>5. /\ c.name = n /\ c.type = l.type /\ c.command = l.command /\ c.icon = l.icon
        /\ c.key = k
    BY DEF Launchers
  <2>6. c.timer = l.timer BY DEF Launchers
  <2> HIDE DEF c
  <2>7. /\ Edited(c, m) /\ Marked(c, m) /\ m.key = c.key /\ m.name = c.name
        /\ m.type = c.type /\ m.command = c.command /\ m.icon = c.icon
    BY <2>1, <2>3, TouchedIs
  <2>8. Edited(l, m) BY <2>4, <2>6, <2>7 DEF Edited, SameFile, Marked
  <2> QED BY <1>2, <2>2, <2>5, <2>7, <2>8
<1> QED BY <1>1, <1>2

\* The type reaches the key file.
LEMMA TypeIs ==
  ASSUME NEW l \in Launchers, NEW t \in ItemTypes, NEW m, m = WithType(l, t)
  PROVE  /\ Edited(l, m)
         /\ m.name = l.name /\ m.type = t /\ m.command = l.command /\ m.icon = l.icon
         /\ m.key.name = l.key.name /\ m.key.full = l.key.full /\ m.key.exec = l.key.exec
         /\ m.key.url = l.key.url /\ m.key.notify = l.key.notify /\ m.key.icon = l.key.icon
         /\ l.type # t => m.key.type = t
         /\ l.type = t => m = l
<1>1. CASE l.type = t BY <1>1 DEF WithType, Edited, SameFile
<1>2. CASE l.type # t
  <2> DEFINE k == [l.key EXCEPT !.type = t]
             c == [l EXCEPT !.type = t, !.key = k]
  <2>1. m = Touched(c) BY <1>2 DEF WithType
  <2>2. /\ k \in KeyFiles /\ k.type = t /\ k.exec = l.key.exec /\ k.url = l.key.url
        /\ k.name = l.key.name /\ k.full = l.key.full /\ k.notify = l.key.notify
        /\ k.icon = l.key.icon
    <3>1. l.key \in KeyFiles BY DEF Launchers
    <3> QED BY <3>1 DEF KeyFiles
  <2> HIDE DEF k
  <2>3. c \in Launchers BY <2>2 DEF Launchers
  <2>4. SameFile(l, c) BY DEF SameFile, Launchers
  <2>5. /\ c.name = l.name /\ c.type = t /\ c.command = l.command /\ c.icon = l.icon
        /\ c.key = k
    BY DEF Launchers
  <2>6. c.timer = l.timer BY DEF Launchers
  <2> HIDE DEF c
  <2>7. /\ Edited(c, m) /\ Marked(c, m) /\ m.key = c.key /\ m.name = c.name
        /\ m.type = c.type /\ m.command = c.command /\ m.icon = c.icon
    BY <2>1, <2>3, TouchedIs
  <2>8. Edited(l, m) BY <2>4, <2>6, <2>7 DEF Edited, SameFile, Marked
  <2> QED BY <1>2, <2>2, <2>5, <2>7, <2>8
<1> QED BY <1>1, <1>2

\* A command that is new is not told of startup notification.
LEMMA NotifyIs ==
  ASSUME NEW l \in Launchers, NEW m, m = NotifyKept(l)
  PROVE  /\ m \in Launchers /\ SameFile(l, m)
         /\ m.name = l.name /\ m.type = l.type /\ m.command = l.command /\ m.icon = l.icon
         /\ m.key.name = l.key.name /\ m.key.full = l.key.full /\ m.key.exec = l.key.exec
         /\ m.key.url = l.key.url /\ m.key.type = l.key.type /\ m.key.icon = l.key.icon
         /\ m.timer = l.timer
<1>1. CASE m = l BY <1>1 DEF SameFile
<1>2. CASE m # l
  <2> DEFINE k == [l.key EXCEPT !.notify = FALSE]
  <2>1. m = [l EXCEPT !.key = k] BY <1>2 DEF NotifyKept
  <2>2. /\ k \in KeyFiles /\ k.type = l.key.type /\ k.exec = l.key.exec /\ k.url = l.key.url
        /\ k.name = l.key.name /\ k.full = l.key.full /\ k.icon = l.key.icon
    <3>1. l.key \in KeyFiles BY DEF Launchers
    <3> QED BY <3>1 DEF KeyFiles
  <2> HIDE DEF k
  <2>3. m \in Launchers BY <2>1, <2>2 DEF Launchers
  <2>4. SameFile(l, m) BY <2>1 DEF SameFile, Launchers
  <2>5. /\ m.name = l.name /\ m.type = l.type /\ m.command = l.command /\ m.icon = l.icon
        /\ m.key = k
    BY <2>1 DEF Launchers
  <2>6. m.timer = l.timer BY <2>1 DEF Launchers
  <2> QED BY <2>2, <2>3, <2>4, <2>5, <2>6
<1> QED BY <1>1, <1>2

\* The command reaches the key of the type, and may bring an icon.
LEMMA CommandIs ==
  ASSUME LauncherAssumption, NEW l \in Launchers, NEW c \in Commands \cup {Nothing},
         NEW m, m = WithCommand(l, c)
  PROVE  /\ Edited(l, m)
         /\ m.name = l.name /\ m.type = l.type /\ m.command = c
         /\ m.key.name = l.key.name /\ m.key.full = l.key.full /\ m.key.type = l.key.type
         /\ l.command # c => IF l.type = "link" THEN m.key.exec = Nothing /\ m.key.url = c
                             ELSE m.key.exec = c /\ m.key.url = Nothing
         /\ \/ m.icon = l.icon /\ m.key.icon = l.key.icon
            \/ /\ l.type # "link" /\ c \in Commands
               /\ m.icon = Guess[c] /\ Guess[c] # Nothing
               /\ m.key.icon = IF l.icon = Guess[c] THEN l.key.icon ELSE Guess[c]
         /\ l.command = c => m = l
<1>1. CASE l.command = c BY <1>1 DEF WithCommand, Edited, SameFile
<1>2. CASE l.command # c
  <2> DEFINE k == [l.key EXCEPT !.exec = IF l.type = "link" THEN Nothing ELSE c,
                                !.url = IF l.type = "link" THEN c ELSE Nothing]
             s == [l EXCEPT !.command = c, !.key = k]
             guessed == l.type # "link" /\ c # Nothing /\ Guess[c] \notin {Nothing, k.icon}
             g == IF guessed THEN WithChosenIcon(s, Guess[c]) ELSE s
  <2>1. m = Touched(NotifyKept(g)) BY <1>2 DEF WithCommand
  <2>2. /\ k \in KeyFiles /\ k.type = l.key.type /\ k.name = l.key.name
        /\ k.full = l.key.full /\ k.icon = l.key.icon
        /\ k.exec = IF l.type = "link" THEN Nothing ELSE c
        /\ k.url = IF l.type = "link" THEN c ELSE Nothing
    <3>1. l.key \in KeyFiles BY DEF Launchers
    <3> QED BY <3>1 DEF KeyFiles
  <2> HIDE DEF k
  <2>3. s \in Launchers BY <2>2 DEF Launchers
  <2>4. SameFile(l, s) BY DEF SameFile, Launchers
  <2>5. /\ s.name = l.name /\ s.type = l.type /\ s.command = c /\ s.icon = l.icon
        /\ s.key = k
    BY DEF Launchers
  <2>6. s.timer = l.timer BY DEF Launchers
  <2> HIDE DEF s
  <2>7. guessed => c \in Commands /\ Guess[c] \in Icons
    BY DEF LauncherAssumption
  <2>8. /\ Edited(s, g)
        /\ g.name = s.name /\ g.type = s.type /\ g.command = s.command
        /\ g.key.type = k.type /\ g.key.exec = k.exec /\ g.key.url = k.url
        /\ g.key.name = k.name /\ g.key.full = k.full
        /\ \/ g.icon = s.icon /\ g.key.icon = k.icon
           \/ /\ guessed /\ g.icon = Guess[c]
              /\ g.key.icon = IF s.icon = Guess[c] THEN k.icon ELSE Guess[c]
    <3>1. CASE guessed
      <4>1. g = WithChosenIcon(s, Guess[c]) BY <3>1
      <4> HIDE DEF g, guessed
      <4> QED BY <2>3, <2>5, <2>7, <3>1, <4>1, ChosenIconIs
    <3>2. CASE ~guessed
      <4>1. g = s BY <3>2
      <4> HIDE DEF g
      <4> QED BY <2>3, <2>5, <4>1 DEF Edited, SameFile
    <3> QED BY <3>1, <3>2
  <2> HIDE DEF g
  <2> DEFINE h == NotifyKept(g)
  <2>9. g \in Launchers BY <2>8 DEF Edited
  <2>10. /\ h \in Launchers /\ SameFile(g, h)
         /\ h.name = g.name /\ h.type = g.type /\ h.command = g.command /\ h.icon = g.icon
         /\ h.key.name = g.key.name /\ h.key.full = g.key.full /\ h.key.exec = g.key.exec
         /\ h.key.url = g.key.url /\ h.key.type = g.key.type /\ h.key.icon = g.key.icon
         /\ h.timer = g.timer
    BY <2>9, NotifyIs
  <2> HIDE DEF h
  <2>11. /\ Edited(h, m) /\ Marked(h, m)
         /\ m.key = h.key /\ m.name = h.name /\ m.type = h.type
         /\ m.command = h.command /\ m.icon = h.icon
    BY <2>1, <2>10, TouchedIs DEF h
  <2>12. Edited(l, m)
    <3>1. SameFile(l, m) BY <2>4, <2>8, <2>10, <2>11 DEF Edited, SameFile
    <3>2. m \in Launchers BY <2>11 DEF Edited
    <3>3. g.timer <=> s.timer \/ (g # s /\ ~s.new) BY <2>8 DEF Edited, Marked
    <3>4. h.new = l.new /\ s.new = l.new BY <2>4, <2>8, <2>10 DEF Edited, SameFile
    <3>5. Marked(l, m) BY <2>6, <2>10, <2>11, <3>3, <3>4 DEF Marked
    <3> QED BY <3>1, <3>2, <3>5 DEF Edited
  <2> QED BY <1>2, <2>2, <2>5, <2>7, <2>8, <2>10, <2>11, <2>12
<1> QED BY <1>1, <1>2

\* What the entries show is what the key file has.
Shows(m) ==
  /\ m.name = NameShown(m.key) /\ m.type = m.key.type
  /\ m.command = CommandShown(m.key) /\ m.icon = IconShown(m.key)

\* Setting the entries from the key file: the handlers that run meanwhile leave
\* what the key file has, but for the icon that is guessed from the command.
LEMMA SyncedIs ==
  ASSUME LauncherAssumption, NEW l \in Launchers, NEW m, m = Synced(l)
  PROVE  /\ m \in Launchers /\ SameFile(l, m) /\ ~m.timer
         /\ l.dirty => m.dirty
         /\ ~m.dirty => m.key = l.key
         /\ l.reverting =>
              /\ Shows(m)
              /\ ~m.dirty => Shows(l)
              /\ m.key.name = l.key.name /\ m.key.full = l.key.full
              /\ m.key.type = l.key.type /\ CommandShown(m.key) = CommandShown(l.key)
              /\ \/ IconShown(m.key) = IconShown(l.key)
                 \/ l.key.exec # Nothing /\ m.key.icon = Guess[l.key.exec]
<1> DEFINE a == WithName(l, NameShown(l.key))
           b == WithType(a, a.key.type)
           c == WithCommand(b, CommandShown(b.key))
           d == WithChosenIcon(c, IconShown(c.key))
<1>1. m = [d EXCEPT !.timer = FALSE] BY DEF Synced
<1>2. /\ Edited(l, a) /\ a \in Launchers
      /\ a.name = NameShown(l.key) /\ a.type = l.type /\ a.command = l.command
      /\ a.icon = l.icon
      /\ a.key.type = l.key.type /\ a.key.exec = l.key.exec /\ a.key.url = l.key.url
      /\ a.key.notify = l.key.notify /\ a.key.icon = l.key.icon
      /\ l.reverting => a.key.name = l.key.name /\ a.key.full = l.key.full
  <2>1. l.key \in KeyFiles BY DEF Launchers
  <2>2. NameShown(l.key) \in LauncherNames \cup {Nothing} BY <2>1 DEF NameShown, KeyFiles
  <2> QED BY <2>2, NameIs DEF Edited
<1> HIDE DEF a
<1>3. /\ Edited(a, b) /\ b \in Launchers
      /\ b.name = a.name /\ b.type = a.key.type /\ b.command = a.command /\ b.icon = a.icon
      /\ b.key.name = a.key.name /\ b.key.full = a.key.full /\ b.key.exec = a.key.exec
      /\ b.key.url = a.key.url /\ b.key.notify = a.key.notify /\ b.key.icon = a.key.icon
      /\ b.key.type = a.key.type
  <2>1. a.key \in KeyFiles BY <1>2 DEF Launchers
  <2>2. a.key.type \in ItemTypes BY <2>1 DEF KeyFiles
  <2>3. /\ Edited(a, b)
        /\ b.name = a.name /\ b.type = a.key.type /\ b.command = a.command
        /\ b.icon = a.icon
        /\ b.key.name = a.key.name /\ b.key.full = a.key.full /\ b.key.exec = a.key.exec
        /\ b.key.url = a.key.url /\ b.key.notify = a.key.notify /\ b.key.icon = a.key.icon
        /\ a.type # a.key.type => b.key.type = a.key.type
        /\ a.type = a.key.type => b = a
    BY <1>2, <2>2, TypeIs
  <2> QED BY <2>3 DEF Edited
<1> HIDE DEF b
<1>4. /\ Edited(b, c) /\ c \in Launchers
      /\ c.name = b.name /\ c.type = b.type /\ c.command = CommandShown(b.key)
      /\ c.key.name = b.key.name /\ c.key.full = b.key.full /\ c.key.type = b.key.type
      /\ CommandShown(c.key) = CommandShown(b.key)
      /\ \/ c.icon = b.icon /\ c.key.icon = b.key.icon
         \/ /\ b.type # "link" /\ CommandShown(b.key) \in Commands
            /\ c.icon = Guess[b.key.exec]
            /\ c.icon # Nothing
            /\ c.key.icon = IF b.icon = c.icon THEN b.key.icon ELSE c.icon
      /\ b.type # "link" => CommandShown(b.key) = b.key.exec
  <2>1. b.key \in KeyFiles BY <1>3 DEF Launchers
  <2>2. CommandShown(b.key) \in Commands \cup {Nothing} BY <2>1 DEF CommandShown, KeyFiles
  <2>3. b.type = b.key.type BY <1>3
  <2>4. b.type # "link" => CommandShown(b.key) = b.key.exec BY <2>3 DEF CommandShown
  <2> DEFINE shown == CommandShown(b.key)
  <2>5. /\ Edited(b, c)
        /\ c.name = b.name /\ c.type = b.type /\ c.command = shown
        /\ c.key.name = b.key.name /\ c.key.full = b.key.full /\ c.key.type = b.key.type
        /\ b.command # shown => IF b.type = "link" THEN c.key.exec = Nothing /\ c.key.url = shown
                                ELSE c.key.exec = shown /\ c.key.url = Nothing
        /\ \/ c.icon = b.icon /\ c.key.icon = b.key.icon
           \/ /\ b.type # "link" /\ shown \in Commands
              /\ c.icon = Guess[shown] /\ Guess[shown] # Nothing
              /\ c.key.icon = IF b.icon = Guess[shown] THEN b.key.icon ELSE Guess[shown]
        /\ b.command = shown => c = b
    BY <1>3, <2>2, CommandIs
  <2>6. CommandShown(c.key) = shown
    <3>1. CASE b.command = shown BY <2>5, <3>1
    <3>2. CASE b.command # shown BY <2>3, <2>5, <3>2 DEF CommandShown
    <3> QED BY <3>1, <3>2
  <2> HIDE DEF shown
  <2>7. c \in Launchers BY <2>5 DEF Edited
  <2> QED BY <2>4, <2>5, <2>6, <2>7 DEF shown
<1> HIDE DEF c
<1>5. /\ Edited(c, d) /\ d \in Launchers
      /\ d.name = c.name /\ d.type = c.type /\ d.command = c.command
      /\ d.icon = IconShown(c.key)
      /\ d.key.type = c.key.type /\ d.key.exec = c.key.exec /\ d.key.url = c.key.url
      /\ d.key.name = c.key.name /\ d.key.full = c.key.full
      /\ d.key.icon = IF c.icon = IconShown(c.key) THEN c.key.icon ELSE IconShown(c.key)
      /\ IconShown(c.key) # Nothing
  <2>1. c.key \in KeyFiles BY <1>4 DEF Launchers
  <2>2. IconShown(c.key) \in Icons /\ Nothing \notin Icons
    BY <2>1 DEF IconShown, KeyFiles, LauncherAssumption
  <2> QED BY <1>4, <2>2, ChosenIconIs DEF Edited
<1> HIDE DEF d
<1>6. /\ m \in Launchers /\ m.timer = FALSE /\ m.dirty = d.dirty /\ SameFile(d, m)
      /\ m.key = d.key /\ m.name = d.name /\ m.type = d.type
      /\ m.command = d.command /\ m.icon = d.icon
  <2>1. m \in Launchers BY <1>1, <1>5 DEF Launchers
  <2>2. m.timer = FALSE /\ m.dirty = d.dirty BY <1>1, <1>5 DEF Launchers
  <2>3. SameFile(d, m) BY <1>1, <1>5 DEF Launchers, SameFile
  <2>4. /\ m.key = d.key /\ m.name = d.name /\ m.type = d.type
        /\ m.command = d.command /\ m.icon = d.icon
    BY <1>1, <1>5 DEF Launchers
  <2> QED BY <2>1, <2>2, <2>3, <2>4
<1>7. Edited(l, d) BY <1>2, <1>3, <1>4, <1>5, EditedTwice
<1>8. /\ ~m.dirty => d = l
      /\ l.dirty => m.dirty
      /\ SameFile(l, m)
  BY <1>6, <1>7 DEF Edited, SameFile, Marked
<1>9. ~m.dirty => a = l /\ b = l /\ c = l
  <2> SUFFICES ASSUME ~m.dirty PROVE a = l /\ b = l /\ c = l OBVIOUS
  <2>1. d = l /\ ~l.dirty /\ ~d.dirty BY <1>6, <1>8
  <2>2. c = d BY <1>5, <2>1 DEF Edited, Marked
  <2>3. b = c BY <1>4, <2>1, <2>2 DEF Edited, Marked
  <2>4. a = b BY <1>3, <2>1, <2>2, <2>3 DEF Edited, Marked
  <2> QED BY <2>1, <2>2, <2>3, <2>4
<1>10. ASSUME l.reverting
       PROVE  /\ m.key.name = l.key.name /\ m.key.full = l.key.full
              /\ m.key.type = l.key.type /\ CommandShown(m.key) = CommandShown(l.key)
              /\ \/ IconShown(m.key) = IconShown(l.key)
                 \/ l.key.exec # Nothing /\ m.key.icon = Guess[l.key.exec]
              /\ Shows(m)
  <2>1. m.key.name = l.key.name /\ m.key.full = l.key.full /\ m.key.type = l.key.type
    BY <1>2, <1>3, <1>4, <1>5, <1>6, <1>10
  <2>2. CommandShown(b.key) = CommandShown(l.key) BY <1>2, <1>3 DEF CommandShown
  <2>3. CommandShown(d.key) = CommandShown(c.key) BY <1>5 DEF CommandShown
  <2>4. CommandShown(m.key) = CommandShown(l.key) BY <1>4, <1>6, <2>2, <2>3
  <2>5. IconShown(d.key) = IconShown(c.key) /\ d.icon = IconShown(d.key)
    BY <1>5 DEF IconShown
  <2>6. \/ IconShown(m.key) = IconShown(l.key)
        \/ l.key.exec # Nothing /\ m.key.icon = Guess[l.key.exec]
    <3>1. CASE c.key.icon = b.key.icon BY <1>2, <1>3, <1>6, <2>5, <3>1 DEF IconShown
    <3>2. CASE c.key.icon # b.key.icon
      <4>1. /\ b.type # "link" /\ CommandShown(b.key) \in Commands
            /\ c.icon = Guess[b.key.exec] /\ c.icon # Nothing /\ c.key.icon = c.icon
            /\ CommandShown(b.key) = b.key.exec
        BY <1>4, <3>2
      <4>2. IconShown(c.key) = c.icon BY <4>1 DEF IconShown
      <4>3. d.key.icon = c.icon BY <1>5, <4>1, <4>2
      <4>4. b.key.exec = l.key.exec BY <1>2, <1>3
      <4>5. l.key.exec # Nothing BY <4>1, <4>4 DEF LauncherAssumption
      <4> QED BY <1>6, <4>1, <4>3, <4>4, <4>5
    <3> QED BY <3>1, <3>2
  <2>7. NameShown(m.key) = NameShown(l.key) BY <2>1 DEF NameShown
  <2>8. m.name = NameShown(m.key) BY <1>2, <1>3, <1>4, <1>5, <1>6, <2>7
  <2>9. m.type = m.key.type BY <1>3, <1>4, <1>5, <1>6
  <2>10. m.command = CommandShown(m.key) BY <1>4, <1>5, <1>6, <2>3
  <2>11. m.icon = IconShown(m.key) BY <1>6, <2>5
  <2> QED BY <2>1, <2>4, <2>6, <2>8, <2>9, <2>10, <2>11 DEF Shows
<1>11. ASSUME l.reverting, ~m.dirty PROVE Shows(l)
  <2>1. a = l /\ b = l /\ c = l /\ d = l BY <1>8, <1>9, <1>11
  <2> QED BY <1>2, <1>3, <1>4, <1>5, <2>1 DEF Shows
<1> QED BY <1>6, <1>8, <1>10, <1>11

\* panel_ditem_editor_revert: what the dialog was opened with is shown, and is
\* written if anything is to be.
LEMMA RevertedIs ==
  ASSUME LauncherAssumption, NEW l \in Launchers, NEW m, m = Reverted(l)
  PROVE  /\ m \in Launchers /\ m.timer /\ ~m.reverting /\ Shows(m)
         /\ m.alive = l.alive /\ m.location = l.location /\ m.own = l.own
         /\ m.failed = l.failed /\ m.open = l.open /\ m.new = l.new /\ m.revert = l.revert
         /\ ~m.canRevert
         /\ ~m.dirty => ~l.dirty /\ (Shows(l) => SameShown(m.key, l.key))
         /\ m.key.name = l.revert.name /\ m.key.full = l.revert.full
         /\ m.key.type = l.revert.type /\ CommandShown(m.key) = CommandShown(l.revert)
         /\ \/ IconShown(m.key) = IconShown(l.revert)
            \/ l.revert.exec # Nothing /\ m.key.icon = Guess[l.revert.exec]
<1> DEFINE k == [l.revert EXCEPT !.notify = l.key.notify]
           r == [l EXCEPT !.reverting = TRUE, !.key = k]
           s == Synced(r)
<1>1. m = [s EXCEPT !.reverting = FALSE, !.timer = TRUE, !.canRevert = FALSE]
  BY DEF Reverted
<1>2. /\ k \in KeyFiles /\ k.name = l.revert.name /\ k.full = l.revert.full
      /\ k.type = l.revert.type /\ k.exec = l.revert.exec /\ k.url = l.revert.url
      /\ k.icon = l.revert.icon /\ k.notify = l.key.notify
  <2>1. l.revert \in KeyFiles /\ l.key \in KeyFiles BY DEF Launchers
  <2>2. l.key.notify \in BOOLEAN BY <2>1 DEF KeyFiles
  <2> QED BY <2>1, <2>2 DEF KeyFiles
<1> HIDE DEF k
<1>3. /\ r \in Launchers /\ r.reverting = TRUE /\ r.key = k
      /\ r.name = l.name /\ r.type = l.type /\ r.command = l.command /\ r.icon = l.icon
      /\ r.alive = l.alive /\ r.location = l.location /\ r.own = l.own
      /\ r.failed = l.failed /\ r.open = l.open /\ r.new = l.new /\ r.revert = l.revert
      /\ r.dirty = l.dirty
  <2>1. r \in Launchers BY <1>2 DEF Launchers
  <2>2. /\ r.reverting = TRUE /\ r.key = k
        /\ r.name = l.name /\ r.type = l.type /\ r.command = l.command /\ r.icon = l.icon
    BY DEF Launchers
  <2>3. /\ r.alive = l.alive /\ r.location = l.location /\ r.own = l.own
        /\ r.failed = l.failed /\ r.open = l.open /\ r.new = l.new /\ r.revert = l.revert
        /\ r.dirty = l.dirty
    BY DEF Launchers
  <2> QED BY <2>1, <2>2, <2>3
<1> HIDE DEF r
<1>4. /\ s \in Launchers /\ SameFile(r, s) /\ Shows(s)
      /\ r.dirty => s.dirty
      /\ ~s.dirty => s.key = r.key /\ Shows(r)
      /\ s.key.name = r.key.name /\ s.key.full = r.key.full
      /\ s.key.type = r.key.type /\ CommandShown(s.key) = CommandShown(r.key)
      /\ \/ IconShown(s.key) = IconShown(r.key)
         \/ r.key.exec # Nothing /\ s.key.icon = Guess[r.key.exec]
  BY <1>3, SyncedIs
<1> HIDE DEF s
<1>5. m \in Launchers BY <1>1, <1>4 DEF Launchers
<1>6. /\ m.timer = TRUE /\ m.reverting = FALSE /\ m.canRevert = FALSE
      /\ m.key = s.key /\ m.name = s.name /\ m.type = s.type
      /\ m.command = s.command /\ m.icon = s.icon /\ m.dirty = s.dirty
  BY <1>1, <1>4 DEF Launchers
<1>7. /\ m.alive = s.alive /\ m.location = s.location /\ m.own = s.own
      /\ m.failed = s.failed /\ m.open = s.open /\ m.new = s.new /\ m.revert = s.revert
  BY <1>1, <1>4 DEF Launchers
<1>8. Shows(m) BY <1>4, <1>6 DEF Shows
<1>9. ~m.dirty => ~l.dirty /\ (Shows(l) => SameShown(m.key, l.key))
  <2> SUFFICES ASSUME ~m.dirty PROVE ~l.dirty /\ (Shows(l) => SameShown(m.key, l.key))
    OBVIOUS
  <2>1. ~l.dirty /\ m.key = k /\ Shows(r) BY <1>3, <1>4, <1>6
  <2>2. Shows(l) => /\ NameShown(k) = NameShown(l.key) /\ k.type = l.key.type
                    /\ CommandShown(k) = CommandShown(l.key)
                    /\ IconShown(k) = IconShown(l.key)
    BY <1>3, <2>1 DEF Shows
  <2> QED BY <1>2, <2>1, <2>2 DEF SameShown
<1>10. /\ CommandShown(k) = CommandShown(l.revert) /\ IconShown(k) = IconShown(l.revert)
  BY <1>2 DEF CommandShown, IconShown
<1>11. /\ m.alive = l.alive /\ m.location = l.location /\ m.own = l.own
       /\ m.failed = l.failed /\ m.open = l.open /\ m.new = l.new /\ m.revert = l.revert
  BY <1>3, <1>4, <1>7 DEF SameFile
<1>12. /\ m.key.name = l.revert.name /\ m.key.full = l.revert.full
       /\ m.key.type = l.revert.type /\ CommandShown(m.key) = CommandShown(l.revert)
       /\ \/ IconShown(m.key) = IconShown(l.revert)
          \/ l.revert.exec # Nothing /\ m.key.icon = Guess[l.revert.exec]
  BY <1>2, <1>3, <1>4, <1>6, <1>10
<1> QED BY <1>5, <1>6, <1>8, <1>9, <1>11, <1>12

\* There is a file for the launcher: its own, or a name that no file has.
HasFile(l) == (\E u \in OwnFiles : u \notin DOMAIN l.own) \/ l.location \in OwnFiles

\* A launcher without a file of its own gets one of the user's.
LEMMA UriIs ==
  ASSUME LauncherAssumption, NEW l \in Launchers, HasFile(l)
  PROVE  UriFor(l) \in OwnFiles
<1>1. CASE l.location \in OwnFiles BY <1>1 DEF UriFor
<1>2. CASE l.location \notin OwnFiles
  <2> DEFINE free == OwnFiles \ DOMAIN l.own
  <2>1. free # {} /\ free \subseteq Nat BY <1>2 DEF HasFile, OwnFiles
  <2>2. PICK w \in free : \A v \in free : w <= v
    <3> HIDE DEF free
    <3> QED BY <2>1, LeastNumber
  <2>3. \E u \in OwnFiles : u \notin DOMAIN l.own
                            /\ \A v \in OwnFiles \ DOMAIN l.own : u <= v
    BY <2>2
  <2>4. UniqueUri(l.own) \in OwnFiles BY <2>3 DEF UniqueUri
  <2> QED BY <1>2, <2>4 DEF UriFor
<1> QED BY <1>1, <1>2

\* A write leaves the key file in its file; without one the dialog stays dirty.
LEMMA SavedIs ==
  ASSUME LauncherAssumption, NEW l \in Launchers, HasFile(l), NEW w, NEW m, m = Saved(l, w)
  PROVE  /\ m \in Launchers /\ ~m.timer
         /\ m.key = l.key /\ m.alive = l.alive /\ m.open = l.open /\ m.new = l.new
         /\ m.name = l.name /\ m.type = l.type /\ m.command = l.command /\ m.icon = l.icon
         /\ m.reverting = l.reverting /\ m.revert = l.revert /\ m.canRevert = l.canRevert
         /\ \/ /\ ~m.dirty /\ ~m.failed
               /\ m.location \in OwnFiles /\ m.location \in DOMAIN m.own
               /\ m.own[m.location] = m.key
            \/ m.dirty /\ m.failed /\ l.dirty /\ m.location = l.location /\ m.own = l.own
            \/ /\ ~m.dirty /\ ~l.dirty /\ m.failed = l.failed
               /\ m.location = l.location /\ m.own = l.own
<1>1. CASE ~l.dirty \/ l.name = Nothing \/ l.command = Nothing \/ ~w
  <2>1. m = [l EXCEPT !.timer = FALSE, !.failed = l.failed \/ l.dirty]
    BY <1>1 DEF Saved
  <2>2. l.failed \in BOOLEAN /\ l.dirty \in BOOLEAN BY DEF Launchers
  <2>3. m \in Launchers BY <2>1, <2>2 DEF Launchers
  <2>4. /\ m.timer = FALSE /\ m.failed = (l.failed \/ l.dirty) /\ m.dirty = l.dirty
        /\ m.location = l.location /\ m.own = l.own
    BY <2>1 DEF Launchers
  <2>5. /\ m.key = l.key /\ m.alive = l.alive /\ m.open = l.open /\ m.new = l.new
        /\ m.name = l.name /\ m.type = l.type /\ m.command = l.command /\ m.icon = l.icon
    BY <2>1 DEF Launchers
  <2>6. m.reverting = l.reverting /\ m.revert = l.revert /\ m.canRevert = l.canRevert
    BY <2>1 DEF Launchers
  <2> QED BY <2>2, <2>3, <2>4, <2>5, <2>6
<1>2. CASE ~(~l.dirty \/ l.name = Nothing \/ l.command = Nothing \/ ~w)
  <2> DEFINE u == UriFor(l)
             o == Write(l.own, u, l.key)
  <2>1. m = [l EXCEPT !.timer = FALSE, !.dirty = FALSE, !.failed = FALSE,
                      !.own = o, !.location = u]
    BY <1>2 DEF Saved
  <2>2. u \in OwnFiles BY UriIs
  <2> HIDE DEF u
  <2>3. /\ o \in Owns /\ u \in DOMAIN o /\ o[u] = l.key
    <3>1. l.own \in Owns /\ l.key \in KeyFiles BY DEF Launchers
    <3>2. PICK D \in SUBSET OwnFiles : l.own \in [D -> KeyFiles] BY <3>1 DEF Owns
    <3>3. o = [v \in {u} \cup D |-> IF v = u THEN l.key ELSE l.own[v]] BY <3>2 DEF Write
    <3>4. o \in [{u} \cup D -> KeyFiles] /\ u \in DOMAIN o /\ o[u] = l.key
      BY <3>1, <3>2, <3>3
    <3>5. {u} \cup D \in SUBSET OwnFiles BY <2>2
    <3> HIDE DEF o
    <3> QED BY <3>4, <3>5 DEF Owns
  <2> HIDE DEF o
  <2>4. m \in Launchers BY <2>1, <2>2, <2>3 DEF Launchers
  <2>5. /\ m.timer = FALSE /\ m.failed = FALSE /\ m.dirty = FALSE
        /\ m.location = u /\ m.own = o
    BY <2>1 DEF Launchers
  <2>6. /\ m.key = l.key /\ m.alive = l.alive /\ m.open = l.open /\ m.new = l.new
        /\ m.name = l.name /\ m.type = l.type /\ m.command = l.command /\ m.icon = l.icon
    BY <2>1 DEF Launchers
  <2>7. m.reverting = l.reverting /\ m.revert = l.revert /\ m.canRevert = l.canRevert
    BY <2>1 DEF Launchers
  <2> QED BY <2>2, <2>3, <2>4, <2>5, <2>6, <2>7
<1> QED BY <1>1, <1>2

\* Without the dialog the launcher keeps its file and its key file.
LEMMA NoDialogIs ==
  ASSUME LauncherAssumption, NEW l \in Launchers, NEW m, m = NoDialog(l)
  PROVE  /\ m \in Launchers
         /\ m.alive = l.alive /\ m.location = l.location /\ m.own = l.own
         /\ m.failed = l.failed /\ m.key = l.key
         /\ ~m.open /\ ~m.new /\ ~m.timer /\ ~m.dirty /\ ~m.reverting /\ ~m.canRevert
<1>1. m = [l EXCEPT !.open = FALSE, !.new = FALSE, !.name = Nothing, !.type = "application",
                    !.command = Nothing, !.icon = Nothing, !.timer = FALSE, !.dirty = FALSE,
                    !.reverting = FALSE, !.canRevert = FALSE, !.revert = NewKey(Nothing)]
  BY DEF NoDialog
<1>2. NewKey(Nothing) \in KeyFiles
  BY DEF NewKey, KeyFiles, ItemTypes, LauncherAssumption
<1>3. "application" \in ItemTypes BY DEF ItemTypes
<1>4. m \in Launchers BY <1>1, <1>2, <1>3 DEF Launchers
<1>5. /\ m.alive = l.alive /\ m.location = l.location /\ m.own = l.own
      /\ m.failed = l.failed /\ m.key = l.key
  BY <1>1 DEF Launchers
<1>6. /\ m.open = FALSE /\ m.new = FALSE /\ m.timer = FALSE /\ m.dirty = FALSE
      /\ m.reverting = FALSE /\ m.canRevert = FALSE
  BY <1>1 DEF Launchers
<1> QED BY <1>4, <1>5, <1>6

\* panel_ditem_editor_dispose: what waits to be written is written, or has failed.
LEMMA DestroyedIs ==
  ASSUME LauncherAssumption, NEW l \in Launchers, l.timer => HasFile(l),
         NEW w, NEW m, m = EditorDestroyed(l, w)
  PROVE  /\ m \in Launchers
         /\ m.alive = l.alive /\ m.key = l.key
         /\ ~m.open /\ ~m.new /\ ~m.timer /\ ~m.dirty /\ ~m.reverting /\ ~m.canRevert
         /\ \/ /\ m.location \in OwnFiles /\ m.location \in DOMAIN m.own
               /\ m.own[m.location] = m.key
            \/ m.failed /\ l.dirty /\ m.location = l.location /\ m.own = l.own
            \/ /\ l.timer => ~l.dirty
               /\ m.failed = l.failed /\ m.location = l.location /\ m.own = l.own
<1> DEFINE s == IF l.timer THEN Saved(l, w) ELSE l
<1>1. m = NoDialog(s) BY DEF EditorDestroyed
<1>2. /\ s \in Launchers /\ s.alive = l.alive /\ s.key = l.key
      /\ \/ /\ s.location \in OwnFiles /\ s.location \in DOMAIN s.own
            /\ s.own[s.location] = s.key
         \/ s.failed /\ l.dirty /\ s.location = l.location /\ s.own = l.own
         \/ /\ l.timer => ~l.dirty
            /\ s.failed = l.failed /\ s.location = l.location /\ s.own = l.own
  <2>1. CASE l.timer
    <3>1. s = Saved(l, w) BY <2>1
    <3> HIDE DEF s
    <3> QED BY <2>1, <3>1, SavedIs
  <2>2. CASE ~l.timer BY <2>2
  <2> QED BY <2>1, <2>2
<1> HIDE DEF s
<1>3. /\ m \in Launchers
      /\ m.alive = s.alive /\ m.location = s.location /\ m.own = s.own
      /\ m.failed = s.failed /\ m.key = s.key
      /\ ~m.open /\ ~m.new /\ ~m.timer /\ ~m.dirty /\ ~m.reverting /\ ~m.canRevert
  BY <1>1, <1>2, NoDialogIs
<1> QED BY <1>2, <1>3

-----------------------------------------------------------------------------
(* The invariant.  While the dialog of a launcher is open, its entries show    *)
(* what the key file has: reverting sets it from the entries' old contents and *)
(* runs no handler where they agree, so only then is nothing left unsaved.     *)
LauncherFits(l) ==
  /\ l \in Launchers /\ ~l.reverting
  /\ l.alive => l.location \in {System} \cup DOMAIN l.own
  /\ l.open => HasFile(l)
  /\ ~l.open => ~l.timer /\ ~l.dirty /\ ~l.canRevert /\ ~l.new
  /\ l.new => ~l.alive /\ l.dirty /\ ~l.timer /\ ~l.canRevert
  /\ l.open /\ ~l.new => l.alive /\ Shows(l)
  /\ l.alive /\ ~l.dirty /\ ~l.failed => SameShown(l.key, Read(l))

\* A change of an entry keeps the invariant, if key file and entries still agree.
LEMMA EditFits ==
  ASSUME NEW l, NEW m, LauncherFits(l), l.open, Edited(l, m), ~l.new => Shows(m)
  PROVE  LauncherFits(m)
<1>1. CASE m = l BY <1>1
<1>2. CASE m # l
  <2>1. m \in Launchers /\ SameFile(l, m) /\ Marked(l, m) BY <1>2 DEF Edited
  <2>2. m.dirty /\ (m.timer <=> l.timer \/ ~l.new) BY <2>1 DEF Marked
  <2>3. /\ m.alive = l.alive /\ m.location = l.location /\ m.own = l.own
        /\ m.open = l.open /\ m.new = l.new /\ m.reverting = l.reverting
        /\ l.new => m.canRevert = l.canRevert
    BY <2>1 DEF SameFile
  <2> QED BY <2>1, <2>2, <2>3 DEF LauncherFits, HasFile
<1> QED BY <1>1, <1>2

\* The launcher is one that was just read from its file.
LEMMA ReadFits ==
  ASSUME NEW m \in Launchers, ~m.reverting, ~m.open, ~m.timer, ~m.dirty, ~m.canRevert, ~m.new,
         m.alive => /\ m.location \in {System} \cup DOMAIN m.own
                    /\ m.failed \/ SameShown(m.key, Read(m))
  PROVE  LauncherFits(m)
BY DEF LauncherFits

\* At the start there is neither a launcher nor a dialog.
LEMMA LauncherInitHolds ==
  ASSUME LauncherAssumption, LauncherInit
  PROVE  LauncherFits(lau)
<1> DEFINE l == [alive |-> FALSE, location |-> Nothing, own |-> <<>>, failed |-> FALSE,
                 key |-> SystemKey, open |-> FALSE, new |-> FALSE, name |-> Nothing,
                 type |-> "application", command |-> Nothing, icon |-> Nothing,
                 timer |-> FALSE, dirty |-> FALSE, reverting |-> FALSE,
                 canRevert |-> FALSE, revert |-> SystemKey]
<1>1. lau = NoDialog(l) BY DEF LauncherInit
<1>2. l \in Launchers /\ l.alive = FALSE
  <2>1. <<>> \in Owns
    <3>1. <<>> \in [{} -> KeyFiles] OBVIOUS
    <3> QED BY <3>1 DEF Owns
  <2>2. SystemKey \in KeyFiles BY DEF LauncherAssumption
  <2> QED BY <2>1, <2>2 DEF Launchers, ItemTypes
<1> HIDE DEF l
<1>3. /\ lau \in Launchers /\ lau.alive = l.alive
      /\ ~lau.open /\ ~lau.new /\ ~lau.timer /\ ~lau.dirty /\ ~lau.reverting
      /\ ~lau.canRevert
  BY <1>1, <1>2, NoDialogIs
<1> QED BY <1>2, <1>3, ReadFits

\* A file that is written has what was written.
LEMMA WrittenIs ==
  ASSUME NEW own \in Owns, NEW u \in OwnFiles, NEW k \in KeyFiles, NEW o, o = Write(own, u, k)
  PROVE  o \in Owns /\ u \in DOMAIN o /\ o[u] = k
<1>1. PICK D \in SUBSET OwnFiles : own \in [D -> KeyFiles] BY DEF Owns
<1>2. o = [v \in {u} \cup D |-> IF v = u THEN k ELSE own[v]] BY <1>1 DEF Write
<1>3. o \in [{u} \cup D -> KeyFiles] /\ u \in DOMAIN o /\ o[u] = k BY <1>1, <1>2
<1>4. {u} \cup D \in SUBSET OwnFiles BY <1>1
<1> QED BY <1>3, <1>4 DEF Owns

\* panel_launcher_create and the like
LEMMA CreateFits ==
  ASSUME LauncherAssumption, LauncherFits(lau), NEW u, NEW k \in KeyFiles,
         u \in OwnFiles \/ (u = System /\ k = SystemKey), CreateLauncher(u, k)
  PROVE  LauncherFits(lau')
<1> DEFINE o == IF u = System THEN lau.own ELSE Write(lau.own, u, k)
<1>1. lau' = [lau EXCEPT !.alive = TRUE, !.location = u, !.key = k, !.failed = FALSE, !.own = o]
  BY DEF CreateLauncher
<1>2. lau \in Launchers /\ lau.own \in Owns BY DEF LauncherFits, Launchers
<1>3. (u = System /\ k = SystemKey) \/ (u \in OwnFiles /\ u # System)
  BY DEF System, OwnFiles
<1>4. o \in Owns /\ (u # System => u \in DOMAIN o /\ o[u] = k)
  <2>1. CASE u = System BY <1>2, <2>1
  <2>2. CASE u # System
    <3>1. o = Write(lau.own, u, k) /\ u \in OwnFiles BY <1>3, <2>2
    <3> HIDE DEF o
    <3> QED BY <1>2, <3>1, WrittenIs
  <2> QED BY <2>1, <2>2
<1> HIDE DEF o
<1>5. lau' \in Launchers BY <1>1, <1>2, <1>3, <1>4 DEF Launchers
<1>6. /\ lau'.alive = TRUE /\ lau'.location = u /\ lau'.key = k /\ lau'.own = o
      /\ lau'.reverting = lau.reverting /\ lau'.open = lau.open /\ lau'.timer = lau.timer
  BY <1>1, <1>2 DEF Launchers
<1>7. lau'.dirty = lau.dirty /\ lau'.canRevert = lau.canRevert /\ lau'.new = lau.new
  BY <1>1, <1>2 DEF Launchers
<1>8. Read(lau') = k BY <1>3, <1>4, <1>6 DEF Read
<1>9. ~lau.open BY DEF CreateLauncher
<1> QED BY <1>3, <1>4, <1>5, <1>6, <1>7, <1>8, <1>9, ReadFits DEF LauncherFits, SameShown

\* ask_about_launcher
LEMMA AskNewFits ==
  ASSUME LauncherAssumption, LauncherFits(lau), NEW f \in Commands \cup {Nothing}, AskNew(f)
  PROVE  LauncherFits(lau')
<1> DEFINE up == SetUpNew(lau)
           s == [up EXCEPT !.key = NewKey(f)]
<1>1. lau' = Synced(s) /\ ~lau.alive /\ ~lau.open /\ Room BY DEF AskNew
<1>2. lau \in Launchers BY DEF LauncherFits
<1>3. up = [lau EXCEPT !.open = TRUE, !.new = TRUE, !.icon = DefaultIcon, !.dirty = TRUE]
  BY DEF SetUpNew
<1>4. /\ up \in Launchers /\ up.open = TRUE /\ up.new = TRUE /\ up.dirty = TRUE
      /\ up.alive = lau.alive /\ up.own = lau.own /\ up.reverting = lau.reverting
      /\ up.canRevert = lau.canRevert
  <2>1. DefaultIcon \in Icons BY DEF LauncherAssumption
  <2>2. up \in Launchers BY <1>2, <1>3, <2>1 DEF Launchers
  <2>3. up.open = TRUE /\ up.new = TRUE /\ up.dirty = TRUE BY <1>2, <1>3 DEF Launchers
  <2>4. /\ up.alive = lau.alive /\ up.own = lau.own /\ up.reverting = lau.reverting
        /\ up.canRevert = lau.canRevert
    BY <1>2, <1>3 DEF Launchers
  <2> QED BY <2>2, <2>3, <2>4
<1> HIDE DEF up
<1>5. NewKey(f) \in KeyFiles BY DEF NewKey, KeyFiles, ItemTypes, LauncherAssumption
<1>6. /\ s \in Launchers /\ s.open = TRUE /\ s.new = TRUE /\ s.dirty = TRUE
      /\ s.alive = lau.alive /\ s.own = lau.own /\ s.reverting = lau.reverting
      /\ s.canRevert = lau.canRevert
  <2>1. s \in Launchers BY <1>4, <1>5 DEF Launchers
  <2>2. s.open = up.open /\ s.new = up.new /\ s.dirty = up.dirty /\ s.alive = up.alive
    BY <1>4 DEF Launchers
  <2>3. s.own = up.own /\ s.reverting = up.reverting /\ s.canRevert = up.canRevert
    BY <1>4 DEF Launchers
  <2> QED BY <1>4, <2>1, <2>2, <2>3
<1> HIDE DEF s
<1>7. /\ lau' \in Launchers /\ SameFile(s, lau') /\ ~lau'.timer /\ lau'.dirty
  BY <1>1, <1>6, SyncedIs
<1>8. /\ lau'.open /\ lau'.new /\ ~lau'.alive /\ lau'.own = lau.own
      /\ lau'.reverting = lau.reverting /\ lau'.canRevert = lau.canRevert
  BY <1>1, <1>6, <1>7 DEF SameFile
<1>9. ~lau.canRevert /\ ~lau.reverting BY <1>1 DEF LauncherFits
<1>10. HasFile(lau') BY <1>1, <1>8 DEF Room, HasFile
<1> QED BY <1>7, <1>8, <1>9, <1>10 DEF LauncherFits

\* launcher_properties
LEMMA OpenFits ==
  ASSUME LauncherAssumption, LauncherFits(lau), OpenLauncher
  PROVE  LauncherFits(lau')
<1>1. lau' = KeyFileLoaded(lau) /\ lau.alive /\ ~lau.open /\ Room BY DEF OpenLauncher
<1>2. lau \in Launchers /\ lau.key \in KeyFiles BY DEF LauncherFits, Launchers
<1> DEFINE n == NameShown(lau.key)
           t == lau.key.type
           c == CommandShown(lau.key)
           i == IconShown(lau.key)
<1>3. lau' = [lau EXCEPT !.open = TRUE, !.name = n, !.type = t, !.command = c, !.icon = i,
                         !.revert = lau.key]
  BY <1>1 DEF KeyFileLoaded
<1>4. /\ n \in LauncherNames \cup {Nothing} /\ t \in ItemTypes
      /\ c \in Commands \cup {Nothing} /\ i \in Icons \cup {Nothing}
  <2>1. DefaultIcon \in Icons BY DEF LauncherAssumption
  <2> QED BY <1>2, <2>1 DEF KeyFiles, NameShown, CommandShown, IconShown
<1> HIDE DEF n, t, c, i
<1>5. lau' \in Launchers BY <1>2, <1>3, <1>4 DEF Launchers
<1>6. /\ lau'.name = n /\ lau'.type = t /\ lau'.command = c /\ lau'.icon = i
      /\ lau'.key = lau.key /\ lau'.open = TRUE
  BY <1>2, <1>3 DEF Launchers
<1>7. /\ lau'.alive = lau.alive /\ lau'.location = lau.location /\ lau'.own = lau.own
      /\ lau'.failed = lau.failed /\ lau'.new = lau.new
  BY <1>2, <1>3 DEF Launchers
<1>8. /\ lau'.timer = lau.timer /\ lau'.dirty = lau.dirty
      /\ lau'.reverting = lau.reverting /\ lau'.canRevert = lau.canRevert
  BY <1>2, <1>3 DEF Launchers
<1>9. Shows(lau') BY <1>6 DEF Shows, n, t, c, i
<1>10. HasFile(lau') BY <1>1, <1>7 DEF Room, HasFile
<1>11. Read(lau') = Read(lau) BY <1>7 DEF Read
<1> QED BY <1>1, <1>5, <1>6, <1>7, <1>8, <1>9, <1>10, <1>11 DEF LauncherFits

\* The user changes an entry.
LEMMA EditNameFits ==
  ASSUME LauncherFits(lau), NEW n \in LauncherNames \cup {Nothing}, EditName(n)
  PROVE  LauncherFits(lau')
<1>1. lau' = WithName(lau, n) /\ lau.open BY DEF EditName
<1>2. lau \in Launchers /\ ~lau.reverting BY DEF LauncherFits
<1>3. /\ Edited(lau, lau')
      /\ lau'.name = n /\ lau'.type = lau.type /\ lau'.command = lau.command
      /\ lau'.icon = lau.icon
      /\ lau'.key.type = lau.key.type /\ lau'.key.exec = lau.key.exec
      /\ lau'.key.url = lau.key.url /\ lau'.key.icon = lau.key.icon
      /\ lau.name # n => lau'.key.name = n /\ lau'.key.full = Nothing
      /\ lau.name = n => lau' = lau
  BY <1>1, <1>2, NameIs
<1>4. Shows(lau) => Shows(lau')
  <2>1. CASE lau.name = n BY <1>3, <2>1
  <2>2. CASE lau.name # n
    <3>1. NameShown(lau'.key) = n BY <1>3, <2>2 DEF NameShown
    <3> QED BY <1>3, <2>2, <3>1 DEF Shows, CommandShown, IconShown
  <2> QED BY <2>1, <2>2
<1>5. ~lau.new => Shows(lau') BY <1>1, <1>4 DEF LauncherFits
<1> QED BY <1>1, <1>3, <1>5, EditFits

\* The steps of the user in the dialog: the command, ...
LEMMA EditCommandFits ==
  ASSUME LauncherAssumption, LauncherFits(lau), NEW c \in Commands \cup {Nothing},
         EditCommand(c)
  PROVE  LauncherFits(lau')
<1>1. lau' = WithCommand(lau, c) /\ lau.open BY DEF EditCommand
<1>2. lau \in Launchers BY DEF LauncherFits
<1>3. /\ Edited(lau, lau')
      /\ lau'.name = lau.name /\ lau'.type = lau.type /\ lau'.command = c
      /\ lau'.key.name = lau.key.name /\ lau'.key.full = lau.key.full
      /\ lau'.key.type = lau.key.type
      /\ lau.command # c => IF lau.type = "link" THEN lau'.key.exec = Nothing /\ lau'.key.url = c
                            ELSE lau'.key.exec = c /\ lau'.key.url = Nothing
      /\ \/ lau'.icon = lau.icon /\ lau'.key.icon = lau.key.icon
         \/ /\ lau'.icon = Guess[c] /\ Guess[c] # Nothing
            /\ lau'.key.icon = IF lau.icon = Guess[c] THEN lau.key.icon ELSE Guess[c]
      /\ lau.command = c => lau' = lau
  BY <1>1, <1>2, CommandIs
<1>4. Shows(lau) => Shows(lau')
  <2> SUFFICES ASSUME Shows(lau) PROVE Shows(lau') OBVIOUS
  <2>1. CASE lau.command = c BY <1>3, <2>1
  <2>2. CASE lau.command # c
    <3>1. lau.type = lau.key.type BY DEF Shows
    <3>2. CommandShown(lau'.key) = c BY <1>3, <2>2, <3>1 DEF CommandShown
    <3>3. NameShown(lau'.key) = NameShown(lau.key) BY <1>3 DEF NameShown
    <3>4. lau'.icon = IconShown(lau'.key)
      <4>1. lau.icon = IconShown(lau.key) BY DEF Shows
      <4>2. CASE lau'.icon = lau.icon /\ lau'.key.icon = lau.key.icon
        BY <4>1, <4>2 DEF IconShown
      <4>3. CASE /\ lau'.icon = Guess[c] /\ Guess[c] # Nothing
                 /\ lau'.key.icon = IF lau.icon = Guess[c] THEN lau.key.icon ELSE Guess[c]
        BY <4>1, <4>3 DEF IconShown
      <4> QED BY <1>3, <4>2, <4>3
    <3> QED BY <1>3, <3>1, <3>2, <3>3, <3>4 DEF Shows
  <2> QED BY <2>1, <2>2
<1>5. ~lau.new => Shows(lau') BY <1>1, <1>4 DEF LauncherFits
<1> QED BY <1>1, <1>3, <1>5, EditFits

\* ... the icon, ...
LEMMA EditIconFits ==
  ASSUME LauncherAssumption, LauncherFits(lau), NEW i \in Icons, EditIcon(i)
  PROVE  LauncherFits(lau')
<1>1. lau' = WithChosenIcon(lau, i) /\ lau.open BY DEF EditIcon
<1>2. lau \in Launchers /\ i # Nothing BY DEF LauncherFits, LauncherAssumption
<1>3. /\ Edited(lau, lau')
      /\ lau'.name = lau.name /\ lau'.type = lau.type /\ lau'.command = lau.command
      /\ lau'.icon = i
      /\ lau'.key.type = lau.key.type /\ lau'.key.exec = lau.key.exec
      /\ lau'.key.url = lau.key.url /\ lau'.key.name = lau.key.name
      /\ lau'.key.full = lau.key.full
      /\ lau'.key.icon = IF lau.icon = i THEN lau.key.icon ELSE i
  BY <1>1, <1>2, ChosenIconIs
<1>4. Shows(lau) => Shows(lau')
  <2>1. /\ NameShown(lau'.key) = NameShown(lau.key)
        /\ CommandShown(lau'.key) = CommandShown(lau.key)
    BY <1>3 DEF NameShown, CommandShown
  <2>2. lau.icon = IconShown(lau.key) => IconShown(lau'.key) = i
    BY <1>2, <1>3 DEF IconShown
  <2> QED BY <1>3, <2>1, <2>2 DEF Shows
<1>5. ~lau.new => Shows(lau') BY <1>1, <1>4 DEF LauncherFits
<1> QED BY <1>1, <1>3, <1>5, EditFits

\* ... and the type.
LEMMA EditTypeFits ==
  ASSUME LauncherFits(lau), NEW t \in ItemTypes, EditType(t)
  PROVE  LauncherFits(lau')
<1>1. lau' = WithType(lau, t) /\ lau.open /\ (lau.new \/ "link" \notin {t, lau.type})
  BY DEF EditType
<1>2. lau \in Launchers BY DEF LauncherFits
<1>3. /\ Edited(lau, lau')
      /\ lau'.name = lau.name /\ lau'.type = t /\ lau'.command = lau.command
      /\ lau'.icon = lau.icon
      /\ lau'.key.name = lau.key.name /\ lau'.key.full = lau.key.full
      /\ lau'.key.exec = lau.key.exec
      /\ lau'.key.url = lau.key.url /\ lau'.key.icon = lau.key.icon
      /\ lau.type # t => lau'.key.type = t
      /\ lau.type = t => lau' = lau
  BY <1>1, <1>2, TypeIs
<1>4. ASSUME Shows(lau), ~lau.new PROVE Shows(lau')
  <2>1. CASE lau.type = t BY <1>3, <1>4, <2>1
  <2>2. CASE lau.type # t
    <3>1. lau.key.type # "link" /\ lau'.key.type # "link" /\ lau'.key.type = t
      BY <1>1, <1>3, <1>4, <2>2 DEF Shows
    <3>2. /\ NameShown(lau'.key) = NameShown(lau.key)
          /\ CommandShown(lau'.key) = CommandShown(lau.key)
          /\ IconShown(lau'.key) = IconShown(lau.key)
      BY <1>3, <3>1 DEF NameShown, CommandShown, IconShown
    <3> QED BY <1>3, <1>4, <3>1, <3>2 DEF Shows
  <2> QED BY <2>1, <2>2
<1>5. ~lau.new => Shows(lau') BY <1>1, <1>4 DEF LauncherFits
<1> QED BY <1>1, <1>3, <1>5, EditFits

\* What is written is what is shown, so it is the same when it is read again.
LEMMA StoredIsShown ==
  ASSUME NEW m, m.location \in OwnFiles, m.own[m.location] = m.key
  PROVE  SameShown(m.key, Read(m))
<1>1. m.location # System BY DEF OwnFiles, System
<1> QED BY <1>1 DEF Read, SameShown

\* panel_ditem_editor_save_timeout
LEMMA SaveTimeoutFits ==
  ASSUME LauncherAssumption, LauncherFits(lau), NEW w \in BOOLEAN, SaveTimeout(w)
  PROVE  LauncherFits(lau')
<1>1. lau' = Saved(lau, w) /\ lau.open /\ lau.timer BY DEF SaveTimeout
<1>2. /\ lau \in Launchers /\ HasFile(lau) /\ ~lau.new /\ lau.alive /\ Shows(lau)
      /\ ~lau.reverting
  BY <1>1 DEF LauncherFits
<1> DEFINE s == Saved(lau, w)
<1>0. s = Saved(lau, w) /\ lau \in Launchers /\ HasFile(lau) BY <1>2
<1> HIDE DEF s
<1>9. /\ s \in Launchers /\ ~s.timer
      /\ s.key = lau.key /\ s.alive = lau.alive /\ s.open = lau.open /\ s.new = lau.new
      /\ s.name = lau.name /\ s.type = lau.type /\ s.command = lau.command
      /\ s.icon = lau.icon /\ s.reverting = lau.reverting /\ s.canRevert = lau.canRevert
      /\ \/ /\ ~s.dirty /\ ~s.failed
            /\ s.location \in OwnFiles /\ s.location \in DOMAIN s.own
            /\ s.own[s.location] = s.key
         \/ /\ s.dirty /\ s.failed /\ lau.dirty
            /\ s.location = lau.location /\ s.own = lau.own
         \/ /\ ~s.dirty /\ ~lau.dirty /\ s.failed = lau.failed
            /\ s.location = lau.location /\ s.own = lau.own
  BY <1>0, SavedIs
<1>10. lau' = s BY <1>1, <1>0
<1>3. /\ lau' \in Launchers /\ ~lau'.timer
      /\ lau'.key = lau.key /\ lau'.alive = lau.alive /\ lau'.open = lau.open
      /\ lau'.new = lau.new
      /\ lau'.name = lau.name /\ lau'.type = lau.type /\ lau'.command = lau.command
      /\ lau'.icon = lau.icon /\ lau'.reverting = lau.reverting
      /\ \/ /\ ~lau'.dirty /\ ~lau'.failed
            /\ lau'.location \in OwnFiles /\ lau'.location \in DOMAIN lau'.own
            /\ lau'.own[lau'.location] = lau'.key
         \/ /\ lau'.dirty /\ lau'.failed /\ lau.dirty
            /\ lau'.location = lau.location /\ lau'.own = lau.own
         \/ /\ ~lau'.dirty /\ ~lau.dirty /\ lau'.failed = lau.failed
            /\ lau'.location = lau.location /\ lau'.own = lau.own
  BY <1>9, <1>10
<1>4. Shows(lau') BY <1>2, <1>3 DEF Shows
<1>5. HasFile(lau') BY <1>2, <1>3 DEF HasFile
<1>6. lau'.location \in {System} \cup DOMAIN lau'.own BY <1>2, <1>3 DEF LauncherFits
<1>7. ~lau'.dirty /\ ~lau'.failed => SameShown(lau'.key, Read(lau'))
  <2>1. CASE lau'.location \in OwnFiles /\ lau'.own[lau'.location] = lau'.key
    BY <2>1, StoredIsShown
  <2>2. CASE /\ ~lau'.dirty /\ ~lau.dirty /\ lau'.failed = lau.failed
             /\ lau'.location = lau.location /\ lau'.own = lau.own
    <3>1. Read(lau') = Read(lau) BY <2>2 DEF Read
    <3> QED BY <1>2, <1>3, <2>2, <3>1 DEF LauncherFits
  <2> QED BY <1>3, <2>1, <2>2
<1> QED BY <1>1, <1>2, <1>3, <1>4, <1>5, <1>6, <1>7 DEF LauncherFits

\* response_cb: GTK_RESPONSE_OK, GTK_RESPONSE_CLOSE
LEMMA CloseFits ==
  ASSUME LauncherAssumption, LauncherFits(lau), NEW w \in BOOLEAN, CloseEditor(w)
  PROVE  LauncherFits(lau')
<1> DEFINE s == Saved(lau, w)
<1>1. lau.open /\ lau' = IF s.dirty THEN s ELSE [NoDialog(s) EXCEPT !.alive = TRUE]
  BY DEF CloseEditor
<1>2. lau \in Launchers /\ HasFile(lau) /\ ~lau.reverting BY <1>1 DEF LauncherFits
<1>0. s = Saved(lau, w) OBVIOUS
<1> HIDE DEF s
<1>3. /\ s \in Launchers /\ ~s.timer
      /\ s.key = lau.key /\ s.alive = lau.alive /\ s.open = lau.open /\ s.new = lau.new
      /\ s.name = lau.name /\ s.type = lau.type /\ s.command = lau.command
      /\ s.icon = lau.icon /\ s.reverting = lau.reverting /\ s.canRevert = lau.canRevert
      /\ \/ /\ ~s.dirty /\ ~s.failed
            /\ s.location \in OwnFiles /\ s.location \in DOMAIN s.own
            /\ s.own[s.location] = s.key
         \/ /\ s.dirty /\ s.failed /\ lau.dirty
            /\ s.location = lau.location /\ s.own = lau.own
         \/ /\ ~s.dirty /\ ~lau.dirty /\ s.failed = lau.failed
            /\ s.location = lau.location /\ s.own = lau.own
  BY <1>0, <1>2, SavedIs
<1>4. CASE s.dirty
  <2>1. lau' = s BY <1>1, <1>4
  <2>2. HasFile(s) BY <1>2, <1>3, <1>4 DEF HasFile
  <2>3. s.location = lau.location /\ s.own = lau.own BY <1>3, <1>4
  <2>4. s.open /\ ~s.new => s.alive /\ Shows(s) BY <1>1, <1>3 DEF LauncherFits, Shows
  <2>5. LauncherFits(s) BY <1>1, <1>2, <1>3, <1>4, <2>2, <2>3, <2>4 DEF LauncherFits
  <2> QED BY <2>1, <2>5
<1>5. CASE ~s.dirty
  <2> DEFINE n == NoDialog(s)
  <2>1. lau' = [n EXCEPT !.alive = TRUE] BY <1>1, <1>5
  <2>2. /\ n \in Launchers /\ n.location = s.location /\ n.own = s.own
        /\ n.failed = s.failed /\ n.key = s.key
        /\ ~n.open /\ ~n.new /\ ~n.timer /\ ~n.dirty /\ ~n.reverting /\ ~n.canRevert
    BY <1>3, NoDialogIs
  <2> HIDE DEF n
  <2>3. lau' \in Launchers BY <2>1, <2>2 DEF Launchers
  <2>4. /\ lau'.alive = TRUE /\ lau'.location = n.location /\ lau'.own = n.own
        /\ lau'.failed = n.failed /\ lau'.key = n.key
    BY <2>1, <2>2 DEF Launchers
  <2>5. /\ lau'.open = n.open /\ lau'.new = n.new /\ lau'.timer = n.timer
        /\ lau'.dirty = n.dirty /\ lau'.reverting = n.reverting
        /\ lau'.canRevert = n.canRevert
    BY <2>1, <2>2 DEF Launchers
  <2>6. /\ lau'.location \in {System} \cup DOMAIN lau'.own
        /\ lau'.failed \/ SameShown(lau'.key, Read(lau'))
    <3>1. CASE s.location \in OwnFiles /\ s.location \in DOMAIN s.own
               /\ s.own[s.location] = s.key
      <4>1. lau'.location \in OwnFiles /\ lau'.own[lau'.location] = lau'.key
        BY <2>2, <2>4, <3>1
      <4> QED BY <2>2, <2>4, <3>1, <4>1, StoredIsShown
    <3>2. CASE /\ ~s.dirty /\ ~lau.dirty /\ s.failed = lau.failed
               /\ s.location = lau.location /\ s.own = lau.own
      <4>1. lau.alive BY <1>1, <3>2 DEF LauncherFits
      <4>2. Read(lau') = Read(lau) BY <2>2, <2>4, <3>2 DEF Read
      <4>3. lau'.key = lau.key /\ lau'.failed = lau.failed BY <1>3, <2>2, <2>4, <3>2
      <4>4. lau'.location = lau.location /\ lau'.own = lau.own BY <2>2, <2>4, <3>2
      <4> QED BY <3>2, <4>1, <4>2, <4>3, <4>4 DEF LauncherFits
    <3> QED BY <1>3, <1>5, <3>1, <3>2
  <2> QED BY <2>2, <2>3, <2>5, <2>6, ReadFits
<1> QED BY <1>4, <1>5

\* response_cb: REVERT_BUTTON
LEMMA RevertFits ==
  ASSUME LauncherAssumption, LauncherFits(lau), Revert
  PROVE  LauncherFits(lau')
<1>1. lau' = Reverted(lau) /\ lau.open /\ lau.canRevert BY DEF Revert
<1>2. lau \in Launchers /\ ~lau.new /\ lau.alive /\ Shows(lau) /\ HasFile(lau)
  BY <1>1 DEF LauncherFits
<1>3. /\ lau' \in Launchers /\ ~lau'.reverting /\ Shows(lau')
      /\ lau'.alive = lau.alive /\ lau'.location = lau.location /\ lau'.own = lau.own
      /\ lau'.failed = lau.failed /\ lau'.open = lau.open /\ lau'.new = lau.new
      /\ ~lau'.dirty => ~lau.dirty /\ (Shows(lau) => SameShown(lau'.key, lau.key))
  BY <1>1, <1>2, RevertedIs
<1>4. Read(lau') = Read(lau) BY <1>3 DEF Read
<1>5. ~lau'.dirty /\ ~lau'.failed => SameShown(lau'.key, Read(lau'))
  BY <1>2, <1>3, <1>4 DEF LauncherFits, SameShown
<1>6. HasFile(lau') BY <1>2, <1>3 DEF HasFile
<1> QED BY <1>1, <1>2, <1>3, <1>5, <1>6 DEF LauncherFits

\* response_cb: GTK_RESPONSE_DELETE_EVENT, GTK_RESPONSE_CANCEL
LEMMA DeleteFits ==
  ASSUME LauncherAssumption, LauncherFits(lau), NEW w \in BOOLEAN, DeleteDialog(w)
  PROVE  LauncherFits(lau')
<1> DEFINE r == IF lau.new THEN lau ELSE Reverted(lau)
<1>1. lau' = EditorDestroyed(r, w) /\ lau.open BY DEF DeleteDialog
<1>2. lau \in Launchers /\ HasFile(lau) BY <1>1 DEF LauncherFits
<1>3. /\ r \in Launchers /\ r.alive = lau.alive /\ r.location = lau.location
      /\ r.own = lau.own /\ r.failed = lau.failed
      /\ lau.new => ~r.alive
      /\ ~lau.new => /\ lau.alive /\ Shows(lau) /\ r.timer
                     /\ ~r.dirty => ~lau.dirty /\ SameShown(r.key, lau.key)
  <2>1. CASE lau.new BY <1>2, <2>1 DEF LauncherFits
  <2>2. CASE ~lau.new
    <3>1. r = Reverted(lau) BY <2>2
    <3>2. lau.alive /\ Shows(lau) BY <1>1, <2>2 DEF LauncherFits
    <3> HIDE DEF r
    <3> QED BY <1>2, <2>2, <3>1, <3>2, RevertedIs
  <2> QED BY <2>1, <2>2
<1> HIDE DEF r
<1>4. HasFile(r) BY <1>2, <1>3 DEF HasFile
<1>5. /\ lau' \in Launchers
      /\ lau'.alive = r.alive /\ lau'.key = r.key
      /\ ~lau'.open /\ ~lau'.new /\ ~lau'.timer /\ ~lau'.dirty /\ ~lau'.reverting
      /\ ~lau'.canRevert
      /\ \/ /\ lau'.location \in OwnFiles /\ lau'.location \in DOMAIN lau'.own
            /\ lau'.own[lau'.location] = lau'.key
         \/ lau'.failed /\ r.dirty /\ lau'.location = r.location /\ lau'.own = r.own
         \/ /\ r.timer => ~r.dirty
            /\ lau'.failed = r.failed /\ lau'.location = r.location /\ lau'.own = r.own
  BY <1>1, <1>3, <1>4, DestroyedIs
<1>6. ASSUME lau'.alive
      PROVE  /\ lau'.location \in {System} \cup DOMAIN lau'.own
             /\ lau'.failed \/ SameShown(lau'.key, Read(lau'))
  <2>1. ~lau.new /\ lau.alive BY <1>3, <1>5, <1>6
  <2>2. lau.location \in {System} \cup DOMAIN lau.own BY <2>1 DEF LauncherFits
  <2>3. CASE lau'.location \in OwnFiles /\ lau'.location \in DOMAIN lau'.own
             /\ lau'.own[lau'.location] = lau'.key
    BY <2>3, StoredIsShown
  <2>4. CASE lau'.failed /\ lau'.location = r.location /\ lau'.own = r.own
    BY <1>3, <2>2, <2>4
  <2>5. CASE /\ r.timer => ~r.dirty
             /\ lau'.failed = r.failed /\ lau'.location = r.location /\ lau'.own = r.own
    <3>1. ~lau.dirty /\ SameShown(r.key, lau.key) BY <1>3, <2>1, <2>5
    <3>2. Read(lau') = Read(lau) BY <1>3, <2>5 DEF Read
    <3>3. lau.failed \/ SameShown(lau.key, Read(lau)) BY <2>1, <3>1 DEF LauncherFits
    <3> QED BY <1>3, <1>5, <2>2, <2>5, <3>1, <3>2, <3>3 DEF SameShown
  <2> QED BY <1>5, <2>3, <2>4, <2>5
<1> QED BY <1>5, <1>6, ReadFits

\* panel_applet_clean
LEMMA RemoveFits ==
  ASSUME LauncherAssumption, LauncherFits(lau), NEW w \in BOOLEAN, RemoveLauncher(w)
  PROVE  LauncherFits(lau')
<1> DEFINE o == Restrict(lau.own, DOMAIN lau.own \ {lau.location})
           d == [lau EXCEPT !.own = o]
           e == EditorDestroyed(d, w)
<1>1. lau' = [e EXCEPT !.alive = FALSE, !.location = Nothing] /\ lau.alive
  BY DEF RemoveLauncher
<1>2. lau \in Launchers BY DEF LauncherFits
<1>3. o \in Owns /\ DOMAIN o \subseteq DOMAIN lau.own
  <2>1. PICK D \in SUBSET OwnFiles : lau.own \in [D -> KeyFiles] BY <1>2 DEF Launchers, Owns
  <2>2. o \in [D \ {lau.location} -> KeyFiles] BY <2>1 DEF Restrict
  <2>3. D \ {lau.location} \in SUBSET OwnFiles BY <2>1
  <2> HIDE DEF o
  <2> QED BY <2>1, <2>2, <2>3 DEF Owns
<1> HIDE DEF o
<1>4. /\ d \in Launchers /\ d.own = o /\ d.location = lau.location
      /\ d.timer = lau.timer
  <2>1. d \in Launchers BY <1>2, <1>3 DEF Launchers
  <2>2. d.own = o /\ d.location = lau.location /\ d.timer = lau.timer BY <1>2 DEF Launchers
  <2> QED BY <2>1, <2>2
<1> HIDE DEF d
<1>5. lau.timer => HasFile(lau) BY DEF LauncherFits
<1>6. d.timer => HasFile(d) BY <1>3, <1>4, <1>5 DEF HasFile
<1>7. /\ e \in Launchers
      /\ ~e.open /\ ~e.new /\ ~e.timer /\ ~e.dirty /\ ~e.reverting /\ ~e.canRevert
  BY <1>4, <1>6, DestroyedIs
<1> HIDE DEF e
<1>8. lau' \in Launchers BY <1>1, <1>7 DEF Launchers
<1>9. /\ lau'.alive = FALSE
      /\ lau'.open = e.open /\ lau'.new = e.new /\ lau'.timer = e.timer
      /\ lau'.dirty = e.dirty /\ lau'.reverting = e.reverting
      /\ lau'.canRevert = e.canRevert
  BY <1>1, <1>7 DEF Launchers
<1> QED BY <1>7, <1>8, <1>9, ReadFits

\* launcher_load
LEMMA RestartFits ==
  ASSUME LauncherAssumption, LauncherFits(lau), Restart
  PROVE  LauncherFits(lau')
<1> DEFINE n == NoDialog(lau)
           k == IF lau.alive THEN Read(lau) ELSE n.key
<1>1. lau' = [n EXCEPT !.failed = FALSE, !.key = k] BY DEF Restart
<1>2. lau \in Launchers BY DEF LauncherFits
<1>3. /\ n \in Launchers
      /\ n.alive = lau.alive /\ n.location = lau.location /\ n.own = lau.own
      /\ ~n.open /\ ~n.new /\ ~n.timer /\ ~n.dirty /\ ~n.reverting /\ ~n.canRevert
  BY <1>2, NoDialogIs
<1> HIDE DEF n
<1>4. k \in KeyFiles
  <2>1. CASE lau.alive /\ lau.location = System
    BY <2>1 DEF Read, LauncherAssumption
  <2>2. CASE lau.alive /\ lau.location # System
    <3>1. lau.location \in DOMAIN lau.own BY <2>2 DEF LauncherFits
    <3>2. lau.own[lau.location] \in KeyFiles BY <1>2, <3>1 DEF Launchers, Owns
    <3> QED BY <2>2, <3>2 DEF Read
  <2>3. CASE ~lau.alive BY <1>3, <2>3 DEF Launchers
  <2> QED BY <2>1, <2>2, <2>3
<1>5. lau.alive => k = Read(lau) OBVIOUS
<1> HIDE DEF k
<1>6. lau' \in Launchers BY <1>1, <1>3, <1>4 DEF Launchers
<1>7. /\ lau'.key = k /\ lau'.alive = n.alive /\ lau'.location = n.location
      /\ lau'.own = n.own
  BY <1>1, <1>3 DEF Launchers
<1>8. /\ lau'.open = n.open /\ lau'.new = n.new /\ lau'.timer = n.timer
      /\ lau'.dirty = n.dirty /\ lau'.reverting = n.reverting
      /\ lau'.canRevert = n.canRevert
  BY <1>1, <1>3 DEF Launchers
<1>9. Read(lau') = Read(lau) BY <1>3, <1>7 DEF Read
<1>10. lau'.alive => /\ lau'.location \in {System} \cup DOMAIN lau'.own
                     /\ lau'.failed \/ SameShown(lau'.key, Read(lau'))
  BY <1>3, <1>5, <1>7, <1>9 DEF LauncherFits, SameShown
<1> QED BY <1>3, <1>6, <1>8, <1>10, ReadFits

\* Every step keeps the invariant.
LEMMA LauncherNextKeeps ==
  ASSUME LauncherAssumption, LauncherFits(lau), [LauncherNext]_lauVars
  PROVE  LauncherFits(lau')
<1>1. ASSUME NEW u \in OwnFiles, NEW k \in KeyFiles, CreateLauncher(u, k)
      PROVE  LauncherFits(lau')
  BY <1>1, CreateFits
<1>2. SystemKey \in KeyFiles BY DEF LauncherAssumption
<1>3. ASSUME NEW c \in Commands, NEW n \in LauncherNames
      PROVE  [NewKey(Nothing) EXCEPT !.type = "link", !.url = c, !.name = n] \in KeyFiles
  <2>1. NewKey(Nothing) \in KeyFiles
    BY DEF NewKey, KeyFiles, ItemTypes, LauncherAssumption
  <2> QED BY <2>1 DEF KeyFiles, ItemTypes
<1>4. CASE CreateLauncher(System, SystemKey) BY <1>2, <1>4, CreateFits
<1>5. CASE \E u \in OwnFiles \ DOMAIN lau.own : CreateLauncher(u, SystemKey)
  BY <1>1, <1>2, <1>5
<1>6. CASE \E u \in OwnFiles \ DOMAIN lau.own, c \in Commands, n \in LauncherNames :
             CreateLauncher(u, [NewKey(Nothing) EXCEPT !.type = "link", !.url = c, !.name = n])
  BY <1>1, <1>3, <1>6
<1>7. CASE \E f \in Commands \cup {Nothing} : AskNew(f) BY <1>7, AskNewFits
<1>8. CASE OpenLauncher BY <1>8, OpenFits
<1>9. CASE Revert BY <1>9, RevertFits
<1>10. CASE Restart BY <1>10, RestartFits
<1>11. CASE \E n \in LauncherNames \cup {Nothing} : EditName(n) BY <1>11, EditNameFits
<1>12. CASE \E c \in Commands \cup {Nothing} : EditCommand(c) BY <1>12, EditCommandFits
<1>13. CASE \E i \in Icons : EditIcon(i) BY <1>13, EditIconFits
<1>14. CASE \E t \in ItemTypes : EditType(t) BY <1>14, EditTypeFits
<1>15. CASE \E w \in BOOLEAN : SaveTimeout(w) BY <1>15, SaveTimeoutFits
<1>16. CASE \E w \in BOOLEAN : CloseEditor(w) BY <1>16, CloseFits
<1>17. CASE \E w \in BOOLEAN : DeleteDialog(w) BY <1>17, DeleteFits
<1>18. CASE \E w \in BOOLEAN : RemoveLauncher(w) BY <1>18, RemoveFits
<1>19. CASE UNCHANGED lauVars BY <1>19 DEF lauVars
<1> QED
  BY <1>4, <1>5, <1>6, <1>7, <1>8, <1>9, <1>10, <1>11, <1>12, <1>13, <1>14, <1>15, <1>16,
     <1>17, <1>18, <1>19
  DEF LauncherNext

\* A launcher without a dialog is what its file says, so it is the same after the
\* next start of the panel, unless a write failed (panel_ditem_editor_dispose).
THEOREM LauncherIsKept == LauncherAssumption /\ LauncherSpec => []LauncherIsStored
<1> SUFFICES ASSUME LauncherAssumption PROVE LauncherSpec => []LauncherIsStored OBVIOUS
<1> DEFINE Fits == LauncherFits(lau)
<1>1. LauncherInit => Fits BY LauncherInitHolds
<1>2. Fits /\ [LauncherNext]_lauVars => Fits' BY LauncherNextKeeps
<1>3. Fits => LauncherIsStored BY DEF LauncherFits, LauncherIsStored, SameShown
<1> HIDE DEF Fits
<1> QED BY <1>1, <1>2, <1>3, PTL DEF LauncherSpec

\* Reverting with the button, or by closing the window, restores the texts and the
\* type of the key file, and the icon but for one guessed from the command, whatever
\* the handlers of the entries do meanwhile (panel_ditem_editor_revert).
THEOREM RevertRestores == LauncherAssumption /\ LauncherSpec => RevertUndoes
<1> SUFFICES ASSUME LauncherAssumption PROVE LauncherSpec => RevertUndoes OBVIOUS
<1> DEFINE Fits == LauncherFits(lau)
           Undone ==
             (Revert \/ (~lau.new /\ \E w \in BOOLEAN : DeleteDialog(w))) =>
               LET was == lau.revert IN
               /\ lau'.key.name = was.name /\ lau'.key.full = was.full
               /\ lau'.key.type = was.type /\ CommandShown(lau'.key) = CommandShown(was)
               /\ IconShown(lau'.key) = IconShown(was)
                  \/ (was.exec # Nothing /\ lau'.key.icon = Guess[was.exec])
<1>1. LauncherInit => Fits BY LauncherInitHolds
<1>2. Fits /\ [LauncherNext]_lauVars => Fits' BY LauncherNextKeeps
<1>3. Fits /\ [LauncherNext]_lauVars => [Undone]_lauVars
  <2> DEFINE r == Reverted(lau)
  <2> SUFFICES ASSUME Fits, Revert \/ (~lau.new /\ \E w \in BOOLEAN : DeleteDialog(w))
               PROVE  Undone
    OBVIOUS
  <2>1. lau \in Launchers /\ (lau.open => HasFile(lau)) BY DEF LauncherFits
  <2>2. /\ r \in Launchers /\ r.location = lau.location /\ r.own = lau.own
        /\ r.key.name = lau.revert.name /\ r.key.full = lau.revert.full
        /\ r.key.type = lau.revert.type
        /\ CommandShown(r.key) = CommandShown(lau.revert)
        /\ \/ IconShown(r.key) = IconShown(lau.revert)
           \/ lau.revert.exec # Nothing /\ r.key.icon = Guess[lau.revert.exec]
    BY <2>1, RevertedIs
  <2>3. lau'.key = r.key
    <3>1. CASE Revert BY <3>1 DEF Revert
    <3>2. ASSUME NEW w \in BOOLEAN, ~lau.new, DeleteDialog(w) PROVE lau'.key = r.key
      <4>1. lau' = EditorDestroyed(r, w) /\ lau.open BY <3>2 DEF DeleteDialog
      <4>2. HasFile(r) BY <2>1, <2>2, <4>1 DEF HasFile
      <4> HIDE DEF r
      <4> QED BY <2>2, <4>1, <4>2, DestroyedIs
    <3> QED BY <3>1, <3>2
  <2> HIDE DEF r
  <2> QED BY <2>2, <2>3
<1> HIDE DEF Fits, Undone
<1>4. Fits /\ [LauncherNext]_lauVars => [Undone]_lauVars BY <1>3
<1>5. LauncherSpec => [][Undone]_lauVars BY <1>1, <1>2, <1>4, PTL DEF LauncherSpec
<1> QED BY <1>5 DEF RevertUndoes, Undone

-----------------------------------------------------------------------------
(*****************************************************************************)
(* The place of a panel.                                                     *)
(*****************************************************************************)
Places ==
  [orientation : Horizontal \cup Vertical, expand : BOOLEAN, size : Nat \ {0},
   configured : 0 .. Len(MonitorRects) - 1, monitor : 0 .. Len(MonitorRects) - 1,
   key : 0 .. Len(MonitorRects) - 1, missed : BOOLEAN,
   x : Int, xRight : Int, xCentered : BOOLEAN, y : Int, yBottom : Int, yCentered : BOOLEAN,
   width : Nat, height : Nat, gx : Int, gy : Int, aroundCentre : BOOLEAN,
   grab : {"none", "move", "resize"} \cup Resizes, byKeys : BOOLEAN, dragX : Int, dragY : Int,
   resize : BOOLEAN, timer : BOOLEAN]
Settings ==
  [orientation : Horizontal \cup Vertical, expand : BOOLEAN, size : Nat \ {0},
   monitor : 0 .. Len(MonitorRects) - 1,
   x : Int, xRight : Int, xCentered : BOOLEAN, y : Int, yBottom : Int, yCentered : BOOLEAN,
   settled : BOOLEAN]

\* How many monitors there may be.
Counts == 1 .. Len(MonitorRects)

\* A monitor that is there takes a thinnest panel.
LEMMA MonitorIs ==
  ASSUME MoveAssumption, NEW n \in Counts, NEW m \in 0 .. n - 1
  PROVE  /\ Monitor(m, n) = MonitorRects[m + 1]
         /\ Monitor(m, n) \in [x : Int, y : Int, width : Nat, height : Nat]
         /\ Monitor(m, n).width >= 4 /\ Monitor(m, n).height >= 4
         /\ Thinnest \in Nat \ {0}
         /\ Thinnest <= Monitor(m, n).width /\ Thinnest <= Monitor(m, n).height
<1>1. m + 1 \in 1 .. Len(MonitorRects) /\ m < n BY DEF Counts
<1>2. Monitor(m, n) = MonitorRects[m + 1] BY <1>1 DEF Monitor
<1>3. MonitorRects[m + 1] \in [x : Int, y : Int, width : Nat, height : Nat]
  <2> DEFINE Rects == [x : Int, y : Int, width : Nat, height : Nat]
  <2>1. MonitorRects \in Seq(Rects) BY DEF MoveAssumption
  <2> HIDE DEF Rects
  <2>2. MonitorRects[m + 1] \in Rects BY <1>1, <2>1
  <2> QED BY <2>2 DEF Rects
<1>4. /\ MonitorRects[m + 1].width >= 4 /\ MonitorRects[m + 1].height >= 4
      /\ \E s \in Sizes : s <= MonitorRects[m + 1].width /\ s <= MonitorRects[m + 1].height
  <2> DEFINE i == m + 1
  <2>1. LET r == MonitorRects[i] IN
        /\ r.width >= 4 /\ r.height >= 4
        /\ \E s \in Sizes : s <= r.width /\ s <= r.height
    <3>1. i \in 1 .. Len(MonitorRects) BY <1>1
    <3> HIDE DEF i
    <3> QED BY <3>1, Zenon DEF MoveAssumption
  <2> QED BY <2>1
<1>5. Sizes \subseteq Nat \ {0} BY DEF MoveAssumption
<1>6. Thinnest \in Sizes /\ \A s \in Sizes : Thinnest <= s
  <2>1. Sizes # {} /\ Sizes \in SUBSET Nat BY <1>4, <1>5
  <2>2. \E s \in Sizes : \A t \in Sizes : s <= t BY <2>1, LeastNumber
  <2> QED BY <2>2 DEF Thinnest
<1>7. PICK s \in Sizes : s <= MonitorRects[m + 1].width /\ s <= MonitorRects[m + 1].height
  BY <1>4
<1>8. Thinnest <= s /\ s \in Nat /\ Thinnest \in Nat \ {0} BY <1>5, <1>6
<1>9. MonitorRects[m + 1].width \in Nat /\ MonitorRects[m + 1].height \in Nat BY <1>3
<1>10. Thinnest <= MonitorRects[m + 1].width /\ Thinnest <= MonitorRects[m + 1].height
  BY <1>7, <1>8, <1>9
<1> QED BY <1>2, <1>3, <1>4, <1>8, <1>10

\* Two monitors share no point.
LEMMA MonitorsApart ==
  ASSUME MoveAssumption, NEW n \in Counts, NEW m \in 0 .. n - 1, NEW o \in 0 .. n - 1, o # m
  PROVE  LET r == Monitor(m, n)
             q == Monitor(o, n)
         IN  \/ r.x + r.width <= q.x \/ q.x + q.width <= r.x
             \/ r.y + r.height <= q.y \/ q.y + q.height <= r.y
<1>1. m + 1 \in 1 .. Len(MonitorRects) /\ o + 1 \in 1 .. Len(MonitorRects) \ {m + 1} BY DEF Counts
<1>2. Monitor(m, n) = MonitorRects[m + 1] /\ Monitor(o, n) = MonitorRects[o + 1] BY MonitorIs
<1> QED BY <1>1, <1>2 DEF MoveAssumption

\* A square is nothing only for nothing.
LEMMA SquareIs ==
  ASSUME NEW i \in Nat
  PROVE  i * i \in Nat /\ (i * i = 0 <=> i = 0)
OBVIOUS

\* The distance to a stretch is nothing just within it.
LEMMA AxisDistanceIs ==
  ASSUME NEW v \in Int, NEW start \in Int, NEW length \in Nat, length >= 1
  PROVE  /\ AxisDistance(v, start, length) \in Nat
         /\ AxisDistance(v, start, length) = 0 <=> v >= start /\ v < start + length
BY DEF AxisDistance

\* How far the point is from a monitor, squared.
Apart(x, y, m, n) ==
  LET r == Monitor(m, n)
      dx == AxisDistance(x, r.x, r.width)
      dy == AxisDistance(y, r.y, r.height)
  IN  dx * dx + dy * dy

\* ... and to a monitor just on it.
LEMMA ApartIs ==
  ASSUME MoveAssumption, NEW n \in Counts, NEW m \in 0 .. n - 1, NEW x \in Int, NEW y \in Int
  PROVE  /\ Apart(x, y, m, n) \in Nat
         /\ Apart(x, y, m, n) = 0 <=>
              LET r == Monitor(m, n)
              IN  x >= r.x /\ x < r.x + r.width /\ y >= r.y /\ y < r.y + r.height
<1> DEFINE r == Monitor(m, n)
           dx == AxisDistance(x, r.x, r.width)
           dy == AxisDistance(y, r.y, r.height)
<1>1. r \in [x : Int, y : Int, width : Nat, height : Nat] /\ r.width >= 4 /\ r.height >= 4
  BY MonitorIs
<1>2. r.x \in Int /\ r.y \in Int /\ r.width \in Nat /\ r.height \in Nat
      /\ r.width >= 1 /\ r.height >= 1
  BY <1>1
<1>3. Apart(x, y, m, n) = dx * dx + dy * dy BY DEF Apart
<1> HIDE DEF r
<1>4. dx \in Nat /\ (dx = 0 <=> x >= r.x /\ x < r.x + r.width) BY <1>2, AxisDistanceIs
<1>5. dy \in Nat /\ (dy = 0 <=> y >= r.y /\ y < r.y + r.height) BY <1>2, AxisDistanceIs
<1> HIDE DEF dx, dy
<1>6. dx * dx \in Nat /\ (dx * dx = 0 <=> dx = 0) BY <1>4, SquareIs
<1>7. dy * dy \in Nat /\ (dy * dy = 0 <=> dy = 0) BY <1>5, SquareIs
<1> DEFINE u == dx * dx
           w == dy * dy
<1> HIDE DEF u, w
<1>8. u \in Nat /\ (u = 0 <=> dx = 0) BY <1>6 DEF u
<1>9. w \in Nat /\ (w = 0 <=> dy = 0) BY <1>7 DEF w
<1>10. Apart(x, y, m, n) = u + w BY <1>3 DEF u, w
<1>11. Apart(x, y, m, n) \in Nat /\ (Apart(x, y, m, n) = 0 <=> u = 0 /\ w = 0)
  BY <1>8, <1>9, <1>10
<1> QED BY <1>4, <1>5, <1>8, <1>9, <1>11 DEF r

\* A point has a closest monitor, which is the one that it is on.
LEMMA MonitorAtIs ==
  ASSUME MoveAssumption, NEW n \in Counts, NEW x \in Int, NEW y \in Int
  PROVE  /\ MonitorAt(x, y, n) \in 0 .. n - 1
         /\ \A m \in 0 .. n - 1 : Apart(x, y, m, n) = 0 => MonitorAt(x, y, n) = m
<1> DEFINE Closest(m) ==
             \A o \in 0 .. n - 1 : \/ Apart(x, y, m, n) < Apart(x, y, o, n)
                                   \/ Apart(x, y, m, n) = Apart(x, y, o, n) /\ m <= o
<1>1. MonitorAt(x, y, n) = CHOOSE m \in 0 .. n - 1 : Closest(m) BY DEF MonitorAt, Apart
<1>2. \A m \in 0 .. n - 1 : Apart(x, y, m, n) \in Nat BY ApartIs
<1>3. n \in Nat /\ n >= 1 BY DEF Counts
<1>4. \E m \in 0 .. n - 1 : Closest(m)
  <2> DEFINE D == {Apart(x, y, m, n) : m \in 0 .. n - 1}
  <2>1. D \in SUBSET Nat /\ D # {} BY <1>2, <1>3
  <2>2. PICK d \in D : \A e \in D : d <= e BY <2>1, LeastNumber
  <2> DEFINE T == {m \in 0 .. n - 1 : Apart(x, y, m, n) = d}
  <2>3. T \in SUBSET Nat /\ T # {} BY <2>2
  <2>4. PICK m \in T : \A o \in T : m <= o BY <2>3, LeastNumber
  <2>5. m \in 0 .. n - 1 /\ Apart(x, y, m, n) = d BY <2>4
  <2>6. ASSUME NEW o \in 0 .. n - 1
        PROVE  \/ Apart(x, y, m, n) < Apart(x, y, o, n)
               \/ Apart(x, y, m, n) = Apart(x, y, o, n) /\ m <= o
    <3>1. d <= Apart(x, y, o, n) BY <2>2
    <3>2. CASE d = Apart(x, y, o, n) BY <3>2, <2>4, <2>5
    <3>3. CASE d # Apart(x, y, o, n)
      BY <3>1, <3>3, <2>5, <1>2
    <3> QED BY <3>2, <3>3
  <2> QED BY <2>5, <2>6
<1>5. MonitorAt(x, y, n) \in 0 .. n - 1 /\ Closest(MonitorAt(x, y, n)) BY <1>1, <1>4
<1>6. ASSUME NEW m \in 0 .. n - 1, Apart(x, y, m, n) = 0
      PROVE  MonitorAt(x, y, n) = m
  <2> DEFINE a == MonitorAt(x, y, n)
  <2>1. a \in 0 .. n - 1 /\ Apart(x, y, a, n) \in Nat BY <1>2, <1>5
  <2>2. Apart(x, y, a, n) < Apart(x, y, m, n) \/ Apart(x, y, a, n) = Apart(x, y, m, n)
    BY <1>5
  <2> HIDE DEF a
  <2>3. Apart(x, y, a, n) = 0 BY <2>1, <2>2, <1>6
  <2> SUFFICES ASSUME a # m PROVE FALSE BY DEF a
  <2>4. LET r == Monitor(m, n)
            q == Monitor(a, n)
        IN  \/ r.x + r.width <= q.x \/ q.x + q.width <= r.x
            \/ r.y + r.height <= q.y \/ q.y + q.height <= r.y
    BY <2>1, MonitorsApart
  <2>5. LET r == Monitor(m, n)
        IN  x >= r.x /\ x < r.x + r.width /\ y >= r.y /\ y < r.y + r.height
    BY <1>6, ApartIs
  <2>6. LET r == Monitor(a, n)
        IN  x >= r.x /\ x < r.x + r.width /\ y >= r.y /\ y < r.y + r.height
    BY <2>1, <2>3, ApartIs
  <2>7. /\ Monitor(m, n) \in [x : Int, y : Int, width : Nat, height : Nat]
        /\ Monitor(a, n) \in [x : Int, y : Int, width : Nat, height : Nat]
    BY <2>1, MonitorIs
  <2> QED BY <2>4, <2>5, <2>6, <2>7
<1> QED BY <1>5, <1>6

-----------------------------------------------------------------------------
(* What a resize makes of a place.                                          *)

MonitorOf(p, n) ==
  IF p.configured < n THEN p.configured ELSE IF p.monitor >= n THEN 0 ELSE p.monitor

Across(size, room) == Clamp(size, Thinnest, room \div 4)
Along(expand, room) == IF expand THEN room ELSE Clamp(Length, 0, room)
WidthOf(o, e, s, r) == IF o \in Horizontal THEN Along(e, r.width) ELSE Across(s, r.width)
HeightOf(o, e, s, r) == IF o \in Horizontal THEN Across(s, r.height) ELSE Along(e, r.height)

\* The setters of the settings, the grab and the timer are not the resize's.
KeepsSettings(p, q) ==
  /\ q.orientation = p.orientation /\ q.expand = p.expand /\ q.size = p.size
  /\ q.configured = p.configured /\ q.xCentered = p.xCentered /\ q.yCentered = p.yCentered
  /\ q.key = p.key /\ q.missed = p.missed
  /\ q.grab = p.grab /\ q.timer = p.timer
SameCorner(p, q) ==
  q.x = p.x /\ q.xRight = p.xRight /\ q.y = p.y /\ q.yBottom = p.yBottom

\* A resize first finds the monitor: nothing else of the place changes.
LEMMA OnMonitorIs ==
  ASSUME MoveAssumption, NEW n \in Counts, NEW p \in Places, NEW q, q = OnMonitor(p, n)
  PROVE  /\ q \in Places /\ KeepsSettings(p, q) /\ SameCorner(p, q)
         /\ q.aroundCentre = p.aroundCentre
         /\ q.monitor = MonitorOf(p, n) /\ q.monitor \in 0 .. n - 1
<1>1. p.configured \in Nat /\ p.monitor \in Nat /\ n \in Nat /\ n >= 1 BY DEF Places, Counts
<1> DEFINE m == MonitorOf(p, n)
<1>2. q = [p EXCEPT !.monitor = m] BY <1>1 DEF OnMonitor, MonitorOf
<1>3. m \in 0 .. n - 1 /\ m \in 0 .. Len(MonitorRects) - 1 BY <1>1 DEF MonitorOf, Counts
<1> HIDE DEF m
<1>4. q \in Places BY <1>2, <1>3 DEF Places
<1>5. q.monitor = m BY <1>2 DEF Places
<1>6. KeepsSettings(p, q) /\ SameCorner(p, q) /\ q.aroundCentre = p.aroundCentre
  BY <1>2 DEF Places, KeepsSettings, SameCorner
<1> QED BY <1>3, <1>4, <1>5, <1>6 DEF m

\* The thickness of a panel is that of a line at least and of the monitor at most.
LEMMA AcrossIs ==
  ASSUME MoveAssumption, NEW n \in Counts, NEW m \in 0 .. n - 1, NEW s \in Nat \ {0}
  PROVE  LET r == Monitor(m, n)
         IN  Across(s, r.width) \in 1 .. r.width /\ Across(s, r.height) \in 1 .. r.height
<1> DEFINE r == Monitor(m, n)
<1>1. /\ r \in [x : Int, y : Int, width : Nat, height : Nat] /\ r.width >= 4 /\ r.height >= 4
      /\ Thinnest \in Nat \ {0} /\ Thinnest <= r.width /\ Thinnest <= r.height
  BY MonitorIs
<1>2. ASSUME NEW room \in Nat, room >= 4, Thinnest <= room
      PROVE  Across(s, room) \in 1 .. room
  BY <1>1, <1>2 DEF Across, Clamp
<1> HIDE DEF r
<1>3. r.width \in Nat /\ r.height \in Nat BY <1>1
<1>4. Across(s, r.width) \in 1 .. r.width /\ Across(s, r.height) \in 1 .. r.height
  BY <1>1, <1>2, <1>3
<1> QED BY <1>4 DEF r

\* Its length is within the monitor.
LEMMA AlongIs ==
  ASSUME MoveAssumption, NEW e \in BOOLEAN, NEW room \in Nat
  PROVE  Along(e, room) \in 0 .. room
BY DEF Along, Clamp, MoveAssumption

\* The width and the height that a resize computes are within the monitor.
LEMMA SizedIs ==
  ASSUME MoveAssumption, NEW n \in Counts, NEW p \in Places, p.monitor \in 0 .. n - 1,
         NEW q, q = Sized(p, n), NEW r, r = Monitor(p.monitor, n)
  PROVE  /\ q \in Places /\ KeepsSettings(p, q) /\ SameCorner(p, q)
         /\ q.aroundCentre = p.aroundCentre /\ q.monitor = p.monitor
         /\ q.width = WidthOf(p.orientation, p.expand, p.size, r)
         /\ q.height = HeightOf(p.orientation, p.expand, p.size, r)
         /\ q.width \in 0 .. r.width /\ q.height \in 0 .. r.height
         /\ p.orientation \in Horizontal => q.height >= 1
         /\ p.orientation \notin Horizontal => q.width >= 1
<1> DEFINE w == WidthOf(p.orientation, p.expand, p.size, r)
           h == HeightOf(p.orientation, p.expand, p.size, r)
<1>1. q = [p EXCEPT !.width = w, !.height = h]
  BY DEF Sized, WidthOf, HeightOf, Across, Along
<1>2. /\ r \in [x : Int, y : Int, width : Nat, height : Nat]
  BY MonitorIs
<1>3. p.size \in Nat \ {0} /\ p.expand \in BOOLEAN BY DEF Places
<1>4. /\ Across(p.size, r.width) \in 1 .. r.width /\ Across(p.size, r.height) \in 1 .. r.height
  BY <1>3, AcrossIs
<1>5. /\ Along(p.expand, r.width) \in 0 .. r.width /\ Along(p.expand, r.height) \in 0 .. r.height
  BY <1>2, <1>3, AlongIs
<1>6. r.width \in Nat /\ r.height \in Nat BY <1>2
<1>7. CASE p.orientation \in Horizontal
  <2>1. w \in 0 .. r.width /\ h \in 1 .. r.height BY <1>4, <1>5, <1>7 DEF WidthOf, HeightOf
  <2> HIDE DEF w, h
  <2>2. w \in Nat /\ h \in Nat /\ h >= 1 BY <1>6, <2>1
  <2>3. q \in Places BY <1>1, <2>2 DEF Places
  <2>4. q.width = w /\ q.height = h /\ q.monitor = p.monitor BY <1>1 DEF Places
  <2>5. KeepsSettings(p, q) /\ SameCorner(p, q) /\ q.aroundCentre = p.aroundCentre
    BY <1>1 DEF Places, KeepsSettings, SameCorner
  <2>6. h \in 0 .. r.height BY <1>6, <2>1
  <2> QED BY <1>7, <2>1, <2>2, <2>3, <2>4, <2>5, <2>6 DEF w, h
<1>8. CASE p.orientation \notin Horizontal
  <2>1. h \in 0 .. r.height /\ w \in 1 .. r.width BY <1>4, <1>5, <1>8 DEF WidthOf, HeightOf
  <2> HIDE DEF w, h
  <2>2. w \in Nat /\ h \in Nat /\ w >= 1 BY <1>6, <2>1
  <2>3. q \in Places BY <1>1, <2>2 DEF Places
  <2>4. q.width = w /\ q.height = h /\ q.monitor = p.monitor BY <1>1 DEF Places
  <2>5. KeepsSettings(p, q) /\ SameCorner(p, q) /\ q.aroundCentre = p.aroundCentre
    BY <1>1 DEF Places, KeepsSettings, SameCorner
  <2>6. w \in 0 .. r.width BY <1>6, <2>1
  <2> QED BY <1>8, <2>1, <2>2, <2>3, <2>4, <2>5, <2>6 DEF w, h
<1> QED BY <1>7, <1>8

\* A distance from the far edge is a number.
LEMMA FromFarIs ==
  ASSUME NEW v \in Int, NEW length \in Int, NEW room \in Int
  PROVE  FromFar(v, length, room) \in Int
BY DEF FromFar

\* A panel turned around its centre keeps its size and gets a corner.
LEMMA CorneredIs ==
  ASSUME MoveAssumption, NEW n \in Counts, NEW p \in Places, p.monitor \in 0 .. n - 1,
         NEW q, q = Cornered(p, n)
  PROVE  /\ q \in Places /\ KeepsSettings(p, q) /\ ~q.aroundCentre
         /\ q.monitor = p.monitor /\ q.width = p.width /\ q.height = p.height
         /\ ~p.aroundCentre => SameCorner(p, q)
<1> DEFINE r == Monitor(p.monitor, n)
           x == p.x - p.width \div 2
           y == p.y - p.height \div 2
           right == FromFar(x, p.width, r.width)
           bottom == FromFar(y, p.height, r.height)
           h == IF p.xCentered THEN p ELSE [p EXCEPT !.x = x, !.xRight = right]
<1>0. r \in [x : Int, y : Int, width : Nat, height : Nat] BY MonitorIs
<1>1. r.width \in Int /\ r.height \in Int BY <1>0
<1>2. p.x \in Int /\ p.y \in Int /\ p.width \in Nat /\ p.height \in Nat BY DEF Places
<1>3. x \in Int /\ y \in Int BY <1>2
<1>4. q = IF ~p.aroundCentre THEN p
          ELSE IF p.yCentered THEN [h EXCEPT !.aroundCentre = FALSE]
          ELSE [h EXCEPT !.aroundCentre = FALSE, !.y = y, !.yBottom = bottom]
  BY DEF Cornered
<1> HIDE DEF r, x, y
<1>5. right \in Int /\ bottom \in Int
  <2>1. p.width \in Int /\ p.height \in Int BY <1>2
  <2>2. right \in Int BY <1>1, <1>3, <2>1, FromFarIs
  <2>3. bottom \in Int BY <1>1, <1>3, <2>1, FromFarIs
  <2> QED BY <2>2, <2>3
<1> HIDE DEF right, bottom
<1>6. /\ h \in Places /\ KeepsSettings(p, h)
      /\ h.monitor = p.monitor /\ h.width = p.width /\ h.height = p.height
  <2>1. CASE p.xCentered BY <2>1 DEF KeepsSettings
  <2>2. CASE ~p.xCentered
    <3>1. h = [p EXCEPT !.x = x, !.xRight = right] BY <2>2
    <3> HIDE DEF h
    <3>2. h \in Places BY <3>1, <1>3, <1>5 DEF Places
    <3>3. KeepsSettings(p, h) BY <3>1 DEF KeepsSettings, Places
    <3>4. h.monitor = p.monitor /\ h.width = p.width /\ h.height = p.height
      BY <3>1 DEF Places
    <3> QED BY <3>2, <3>3, <3>4
  <2> QED BY <2>1, <2>2
<1> HIDE DEF h
<1>7. CASE ~p.aroundCentre
  BY <1>4, <1>7 DEF KeepsSettings, SameCorner
<1>8. CASE p.aroundCentre /\ p.yCentered
  <2>1. q = [h EXCEPT !.aroundCentre = FALSE] BY <1>4, <1>8
  <2>2. q \in Places BY <1>6, <2>1 DEF Places
  <2>3. KeepsSettings(h, q) BY <1>6, <2>1 DEF KeepsSettings, Places
  <2>4. q.monitor = h.monitor /\ q.width = h.width /\ q.height = h.height /\ ~q.aroundCentre
    BY <1>6, <2>1 DEF Places
  <2> QED BY <1>6, <1>8, <2>2, <2>3, <2>4 DEF KeepsSettings
<1>9. CASE p.aroundCentre /\ ~p.yCentered
  <2>1. q = [h EXCEPT !.aroundCentre = FALSE, !.y = y, !.yBottom = bottom] BY <1>4, <1>9
  <2>2. q \in Places BY <1>3, <1>5, <1>6, <2>1 DEF Places
  <2>3. KeepsSettings(h, q) BY <1>6, <2>1 DEF KeepsSettings, Places
  <2>4. q.monitor = h.monitor /\ q.width = h.width /\ q.height = h.height /\ ~q.aroundCentre
    BY <1>6, <2>1 DEF Places
  <2> QED BY <1>6, <1>9, <2>2, <2>3, <2>4 DEF KeepsSettings
<1> QED BY <1>7, <1>8, <1>9

\* Where a panel along a whole edge is.
AlongEdge(q, r) ==
  /\ q.xRight = IF q.orientation = "right" THEN 0 ELSE -1
  /\ q.yBottom = IF q.orientation = "bottom" THEN 0 ELSE -1
  /\ q.x = IF q.orientation = "right" THEN r.width - q.width ELSE 0
  /\ q.y = IF q.orientation = "bottom" THEN r.height - q.height ELSE 0

\* An expanded panel is put along its edge, whatever its corner was.
LEMMA ExpandedIs ==
  ASSUME MoveAssumption, NEW n \in Counts, NEW p \in Places, p.monitor \in 0 .. n - 1,
         NEW r, r = Monitor(p.monitor, n),
         p.width \in 0 .. r.width, p.height \in 0 .. r.height,
         p.orientation \in Horizontal => p.height >= 1,
         p.orientation \notin Horizontal => p.width >= 1,
         NEW q, q = Expanded(p, n)
  PROVE  /\ q \in Places /\ KeepsSettings(p, q) /\ q.aroundCentre = p.aroundCentre
         /\ q.monitor = p.monitor /\ q.width = p.width /\ q.height = p.height
         /\ IF p.expand THEN AlongEdge(q, r) ELSE SameCorner(p, q)
<1>1. r \in [x : Int, y : Int, width : Nat, height : Nat] /\ r.width >= 4 /\ r.height >= 4
  BY MonitorIs
<1>2. r.x \in Int /\ r.y \in Int /\ r.width \in Nat /\ r.height \in Nat BY <1>1
<1>3. p.width \in Nat /\ p.height \in Nat BY DEF Places
<1>4. CASE ~p.expand
  <2>1. q = p BY <1>4 DEF Expanded
  <2> QED BY <1>4, <2>1 DEF KeepsSettings, SameCorner
<1>5. CASE p.expand
  <2> DEFINE dx == IF p.orientation = "right" THEN r.width - p.width ELSE 0
             dy == IF p.orientation = "bottom" THEN r.height - p.height ELSE 0
             x == r.x + dx
             y == r.y + dy
             m == MonitorAt(x, y, n)
             right == IF p.orientation = "right" THEN 0 ELSE -1
             bottom == IF p.orientation = "bottom" THEN 0 ELSE -1
  <2>1. q = [p EXCEPT !.monitor = m, !.x = x - Monitor(m, n).x, !.y = y - Monitor(m, n).y,
                      !.xRight = right, !.yBottom = bottom]
    BY <1>5 DEF Expanded
  <2>2. dx \in Int /\ dx >= 0 /\ dx < r.width
    BY <1>1, <1>2, <1>3 DEF Horizontal
  <2>3. dy \in Int /\ dy >= 0 /\ dy < r.height
    BY <1>1, <1>2, <1>3 DEF Horizontal
  <2>4. right \in Int /\ bottom \in Int OBVIOUS
  <2> HIDE DEF dx, dy, right, bottom
  <2>5. /\ x \in Int /\ y \in Int
        /\ x >= r.x /\ x < r.x + r.width /\ y >= r.y /\ y < r.y + r.height
        /\ x - r.x = dx /\ y - r.y = dy
    BY <1>2, <2>2, <2>3
  <2> HIDE DEF x, y
  <2>6. Apart(x, y, p.monitor, n) = 0 BY <2>5, ApartIs
  <2>7. m = p.monitor BY <2>5, <2>6, MonitorAtIs
  <2>8. q = [p EXCEPT !.monitor = p.monitor, !.x = dx, !.y = dy,
                      !.xRight = right, !.yBottom = bottom]
    BY <2>1, <2>5, <2>7
  <2>9. q \in Places BY <2>2, <2>3, <2>4, <2>8 DEF Places
  <2>10. KeepsSettings(p, q) BY <2>8 DEF KeepsSettings, Places
  <2>11. /\ q.monitor = p.monitor /\ q.width = p.width /\ q.height = p.height
         /\ q.aroundCentre = p.aroundCentre
    BY <2>8 DEF Places
  <2>12. q.x = dx /\ q.y = dy /\ q.xRight = right /\ q.yBottom = bottom
    BY <2>8 DEF Places
  <2>13. AlongEdge(q, r)
    BY <2>10, <2>11, <2>12 DEF AlongEdge, KeepsSettings, dx, dy, right, bottom
  <2> QED BY <1>5, <2>9, <2>10, <2>11, <2>13
<1> QED BY <1>4, <1>5

\* A position is within the room that is left.
LEMMA PositionIs ==
  ASSUME MoveAssumption, NEW v \in Int, NEW far \in Int, NEW centered \in BOOLEAN,
         NEW room \in Nat, NEW length \in 0 .. room, NEW e \in BOOLEAN
  PROVE  Position(v, far, centered, length, room, e) \in 0 .. room - length
<1>1. room - length \in Nat /\ Snap \in Nat /\ length \in Nat BY DEF MoveAssumption
<1> DEFINE at == IF centered /\ ~e THEN (room - length) \div 2
                 ELSE IF far = -1 THEN v ELSE room - (far + length)
<1>2. at \in Int BY <1>1
<1>3. Clamp(at, 0, room - length) \in 0 .. room - length
  <2> HIDE DEF at
  <2> QED BY <1>1, <1>2 DEF Clamp
<1>4. \/ Position(v, far, centered, length, room, e) = 0
      \/ Position(v, far, centered, length, room, e) = room - length
      \/ Position(v, far, centered, length, room, e) = Clamp(at, 0, room - length)
  BY DEF Position
<1> QED BY <1>1, <1>3, <1>4

\* Where the coordinates put the panel on its monitor r.
PlacedOn(q, r) ==
  /\ q.gx = r.x + Position(q.x, q.xRight, q.xCentered, q.width, r.width, q.expand)
  /\ q.gy = r.y + Position(q.y, q.yBottom, q.yCentered, q.height, r.height, q.expand)
Within(q, r) ==
  /\ r.x <= q.gx /\ q.gx + q.width <= r.x + r.width
  /\ r.y <= q.gy /\ q.gy + q.height <= r.y + r.height

\* A panel that was laid is on the monitor that it is configured with or, without
\* that one, stays where it is if it can.
LEMMA LaidIs ==
  ASSUME MoveAssumption, NEW n \in Counts, NEW p \in Places, NEW q, q = Laid(p, n),
         NEW r, r = Monitor(MonitorOf(p, n), n)
  PROVE  /\ q \in Places /\ KeepsSettings(p, q) /\ ~q.aroundCentre /\ ~q.resize
         /\ q.monitor = MonitorOf(p, n) /\ q.monitor \in 0 .. n - 1
         /\ q.width = WidthOf(p.orientation, p.expand, p.size, r)
         /\ q.height = HeightOf(p.orientation, p.expand, p.size, r)
         /\ p.expand => AlongEdge(q, r)
         /\ ~p.expand /\ ~p.aroundCentre => SameCorner(p, q)
         /\ PlacedOn(q, r) /\ Within(q, r)
<1> DEFINE a == OnMonitor(p, n)
           b == Sized(a, n)
           c == Cornered(b, n)
           d == Expanded(c, n)
<1>1. /\ a \in Places /\ KeepsSettings(p, a) /\ SameCorner(p, a)
      /\ a.aroundCentre = p.aroundCentre
      /\ a.monitor = MonitorOf(p, n) /\ a.monitor \in 0 .. n - 1
  BY OnMonitorIs
<1> DEFINE rd == Monitor(d.monitor, n)
           gx == rd.x + Position(d.x, d.xRight, d.xCentered, d.width, rd.width, d.expand)
           gy == rd.y + Position(d.y, d.yBottom, d.yCentered, d.height, rd.height, d.expand)
<1>2. q = [d EXCEPT !.resize = FALSE, !.gx = gx, !.gy = gy] BY DEF Laid
<1> HIDE DEF a
<1>3. r = Monitor(a.monitor, n) BY <1>1
<1>4. /\ b \in Places /\ KeepsSettings(a, b) /\ SameCorner(a, b)
      /\ b.aroundCentre = a.aroundCentre /\ b.monitor = a.monitor
      /\ b.width = WidthOf(a.orientation, a.expand, a.size, r)
      /\ b.height = HeightOf(a.orientation, a.expand, a.size, r)
      /\ b.width \in 0 .. r.width /\ b.height \in 0 .. r.height
      /\ a.orientation \in Horizontal => b.height >= 1
      /\ a.orientation \notin Horizontal => b.width >= 1
  BY <1>1, <1>3, SizedIs
<1> HIDE DEF b
<1>5. /\ c \in Places /\ KeepsSettings(b, c) /\ ~c.aroundCentre
      /\ c.monitor = b.monitor /\ c.width = b.width /\ c.height = b.height
      /\ ~b.aroundCentre => SameCorner(b, c)
  BY <1>1, <1>4, CorneredIs
<1> HIDE DEF c
<1>6. /\ c.monitor \in 0 .. n - 1 /\ r = Monitor(c.monitor, n)
      /\ c.width \in 0 .. r.width /\ c.height \in 0 .. r.height
      /\ c.orientation \in Horizontal => c.height >= 1
      /\ c.orientation \notin Horizontal => c.width >= 1
  BY <1>1, <1>3, <1>4, <1>5 DEF KeepsSettings
<1>7. /\ d \in Places /\ KeepsSettings(c, d) /\ d.aroundCentre = c.aroundCentre
      /\ d.monitor = c.monitor /\ d.width = c.width /\ d.height = c.height
      /\ IF c.expand THEN AlongEdge(d, r) ELSE SameCorner(c, d)
  BY <1>5, <1>6, ExpandedIs
<1> HIDE DEF d
<1>8. rd = r BY <1>6, <1>7
<1>9. r \in [x : Int, y : Int, width : Nat, height : Nat] BY <1>1, <1>3, MonitorIs
<1>10. r.x \in Int /\ r.y \in Int /\ r.width \in Nat /\ r.height \in Nat BY <1>9
<1>11. /\ d.x \in Int /\ d.xRight \in Int /\ d.xCentered \in BOOLEAN
       /\ d.y \in Int /\ d.yBottom \in Int /\ d.yCentered \in BOOLEAN /\ d.expand \in BOOLEAN
  BY <1>7 DEF Places
<1>12. d.width \in 0 .. r.width /\ d.height \in 0 .. r.height BY <1>6, <1>7
<1> DEFINE px == Position(d.x, d.xRight, d.xCentered, d.width, r.width, d.expand)
           py == Position(d.y, d.yBottom, d.yCentered, d.height, r.height, d.expand)
<1>13. px \in 0 .. r.width - d.width BY <1>10, <1>11, <1>12, PositionIs
<1>14. py \in 0 .. r.height - d.height BY <1>10, <1>11, <1>12, PositionIs
<1>15. gx = r.x + px /\ gy = r.y + py BY <1>8
<1> HIDE DEF gx, gy, rd
<1>16. gx \in Int /\ gy \in Int
       /\ r.x <= gx /\ gx + d.width <= r.x + r.width
       /\ r.y <= gy /\ gy + d.height <= r.y + r.height
  <2> HIDE DEF px, py
  <2> QED BY <1>10, <1>12, <1>13, <1>14, <1>15
<1>17. q \in Places BY <1>2, <1>7, <1>16 DEF Places
<1>18. KeepsSettings(d, q) BY <1>2, <1>7 DEF KeepsSettings, Places
<1>19. SameCorner(d, q) BY <1>2, <1>7 DEF SameCorner, Places
<1>20. /\ ~q.resize /\ q.aroundCentre = d.aroundCentre /\ q.monitor = d.monitor
       /\ q.width = d.width /\ q.height = d.height /\ q.gx = gx /\ q.gy = gy
  BY <1>2, <1>7 DEF Places
<1>21. KeepsSettings(p, q) BY <1>1, <1>4, <1>5, <1>7, <1>18 DEF KeepsSettings
<1>22. ~q.aroundCentre BY <1>5, <1>7, <1>20
<1>23. q.monitor = MonitorOf(p, n) BY <1>1, <1>4, <1>5, <1>7, <1>20
<1>24. /\ q.width = WidthOf(p.orientation, p.expand, p.size, r)
       /\ q.height = HeightOf(p.orientation, p.expand, p.size, r)
  BY <1>1, <1>4, <1>5, <1>7, <1>20 DEF KeepsSettings
<1>25. p.expand => AlongEdge(q, r)
  <2> SUFFICES ASSUME p.expand PROVE AlongEdge(q, r) OBVIOUS
  <2>1. c.expand BY <1>1, <1>4, <1>5 DEF KeepsSettings
  <2>2. AlongEdge(d, r) BY <1>7, <2>1
  <2>3. q.width = d.width /\ q.height = d.height BY <1>20
  <2> QED BY <2>2, <2>3, <1>18, <1>19 DEF AlongEdge, KeepsSettings, SameCorner
<1>26. ~p.expand /\ ~p.aroundCentre => SameCorner(p, q)
  <2> SUFFICES ASSUME ~p.expand, ~p.aroundCentre PROVE SameCorner(p, q) OBVIOUS
  <2>1. ~c.expand /\ ~b.aroundCentre BY <1>1, <1>4, <1>5 DEF KeepsSettings
  <2>2. SameCorner(c, d) /\ SameCorner(b, c) BY <1>5, <1>7, <2>1
  <2> QED BY <1>1, <1>4, <1>19, <2>2 DEF SameCorner
<1>27. PlacedOn(q, r)
  BY <1>15, <1>18, <1>19, <1>20 DEF PlacedOn, KeepsSettings, SameCorner
<1>28. Within(q, r) BY <1>16, <1>20 DEF Within
<1> QED BY <1>1, <1>17, <1>20, <1>21, <1>22, <1>23, <1>24, <1>25, <1>26, <1>27, <1>28

-----------------------------------------------------------------------------
(* Places that are the same, and a panel that rests.                         *)

\* Two coordinates from both sides that mean the same.
Agrees(v, far, centered, w, wfar, wcentered) ==
  /\ centered = wcentered
  /\ ~centered => far = wfar /\ (far = -1 => v = w)
AgreesX(p, q) == Agrees(p.x, p.xRight, p.xCentered, q.x, q.xRight, q.xCentered)
AgreesY(p, q) == Agrees(p.y, p.yBottom, p.yCentered, q.y, q.yBottom, q.yCentered)

\* p and q are the same once they are laid on the same monitor.
SamePlace(p, q) ==
  /\ p.orientation = q.orientation /\ p.expand = q.expand /\ p.size = q.size
  /\ p.xCentered = q.xCentered /\ p.yCentered = q.yCentered
  /\ ~p.expand => ~p.aroundCentre /\ ~q.aroundCentre /\ AgreesX(p, q) /\ AgreesY(p, q)

\* Coordinates that agree give one position.
LEMMA AgreesIs ==
  ASSUME NEW v, NEW far, NEW centered \in BOOLEAN, NEW w, NEW wfar, NEW wcentered \in BOOLEAN,
         NEW length, NEW room, NEW e \in BOOLEAN, ~e,
         Agrees(v, far, centered, w, wfar, wcentered)
  PROVE  Position(v, far, centered, length, room, e) = Position(w, wfar, wcentered, length, room, e)
<1>1. CASE centered
  <2>1. wcentered BY <1>1 DEF Agrees
  <2> QED BY <1>1, <2>1 DEF Position
<1>2. CASE ~centered
  <2>1. ~wcentered /\ far = wfar /\ (far = -1 => v = w) BY <1>2 DEF Agrees
  <2>2. CASE far = -1 BY <1>2, <2>1, <2>2 DEF Position
  <2>3. CASE far # -1 BY <1>2, <2>1, <2>3 DEF Position
  <2> QED BY <2>2, <2>3
<1> QED BY <1>1, <1>2

\* Two places that are the same are drawn the same.
LEMMA SameGeometry ==
  ASSUME MoveAssumption, NEW n \in Counts, NEW p \in Places, NEW q \in Places,
         SamePlace(p, q), MonitorOf(p, n) = MonitorOf(q, n)
  PROVE  Geometry(Laid(p, n)) = Geometry(Laid(q, n))
<1> DEFINE a == Laid(p, n)
           b == Laid(q, n)
           r == Monitor(MonitorOf(p, n), n)
<1>1. /\ a \in Places /\ KeepsSettings(p, a)
      /\ a.width = WidthOf(p.orientation, p.expand, p.size, r)
      /\ a.height = HeightOf(p.orientation, p.expand, p.size, r)
      /\ p.expand => AlongEdge(a, r)
      /\ ~p.expand /\ ~p.aroundCentre => SameCorner(p, a)
      /\ PlacedOn(a, r)
  BY LaidIs
<1>2. r = Monitor(MonitorOf(q, n), n) OBVIOUS
<1>3. /\ b \in Places /\ KeepsSettings(q, b)
      /\ b.width = WidthOf(q.orientation, q.expand, q.size, r)
      /\ b.height = HeightOf(q.orientation, q.expand, q.size, r)
      /\ q.expand => AlongEdge(b, r)
      /\ ~q.expand /\ ~q.aroundCentre => SameCorner(q, b)
      /\ PlacedOn(b, r)
  BY <1>2, LaidIs
<1> HIDE DEF a, b, r
<1>4. /\ a.orientation = b.orientation /\ a.expand = b.expand
      /\ a.xCentered = b.xCentered /\ a.yCentered = b.yCentered
      /\ a.width = b.width /\ a.height = b.height
  BY <1>1, <1>3 DEF SamePlace, KeepsSettings
<1>5. CASE p.expand
  <2>1. AlongEdge(a, r) /\ AlongEdge(b, r) BY <1>1, <1>3, <1>5 DEF SamePlace
  <2>2. a.x = b.x /\ a.y = b.y /\ a.xRight = b.xRight /\ a.yBottom = b.yBottom
    BY <1>4, <2>1 DEF AlongEdge
  <2> QED BY <1>1, <1>3, <1>4, <2>2 DEF PlacedOn, Geometry, a, b
<1>6. CASE ~p.expand
  <2>1. ~p.aroundCentre /\ ~q.expand /\ ~q.aroundCentre /\ AgreesX(p, q) /\ AgreesY(p, q)
    BY <1>6 DEF SamePlace
  <2>2. SameCorner(p, a) /\ SameCorner(q, b) BY <1>1, <1>3, <1>6, <2>1
  <2>3. AgreesX(a, b) /\ AgreesY(a, b)
    BY <1>1, <1>3, <2>1, <2>2 DEF AgreesX, AgreesY, SameCorner, KeepsSettings
  <2>4. a.xCentered \in BOOLEAN /\ b.xCentered \in BOOLEAN
        /\ a.yCentered \in BOOLEAN /\ b.yCentered \in BOOLEAN
        /\ a.expand \in BOOLEAN /\ ~a.expand /\ b.expand = a.expand
    BY <1>1, <1>3, <1>6, <2>1 DEF Places, KeepsSettings
  <2>5. Position(a.x, a.xRight, a.xCentered, a.width, r.width, a.expand)
          = Position(b.x, b.xRight, b.xCentered, a.width, r.width, a.expand)
    <3>1. Agrees(a.x, a.xRight, a.xCentered, b.x, b.xRight, b.xCentered) BY <2>3 DEF AgreesX
    <3>2. a.xCentered \in BOOLEAN /\ b.xCentered \in BOOLEAN
          /\ a.expand \in BOOLEAN /\ ~a.expand
      BY <2>4
    <3> QED BY <3>1, <3>2, AgreesIs
  <2>6. Position(a.y, a.yBottom, a.yCentered, a.height, r.height, a.expand)
          = Position(b.y, b.yBottom, b.yCentered, a.height, r.height, a.expand)
    <3>1. Agrees(a.y, a.yBottom, a.yCentered, b.y, b.yBottom, b.yCentered) BY <2>3 DEF AgreesY
    <3>2. a.yCentered \in BOOLEAN /\ b.yCentered \in BOOLEAN
          /\ a.expand \in BOOLEAN /\ ~a.expand
      BY <2>4
    <3> QED BY <3>1, <3>2, AgreesIs
  <2>7. a.gx = b.gx /\ a.gy = b.gy BY <1>1, <1>3, <1>4, <2>4, <2>5, <2>6 DEF PlacedOn
  <2> QED BY <1>4, <2>7 DEF Geometry, a, b
<1> QED BY <1>5, <1>6

\* What the coordinates of a panel along a whole edge are on every monitor.
EdgeForm(p) ==
  /\ p.xRight = IF p.orientation = "right" THEN 0 ELSE -1
  /\ p.yBottom = IF p.orientation = "bottom" THEN 0 ELSE -1
  /\ p.orientation # "right" => p.x = 0
  /\ p.orientation # "bottom" => p.y = 0

\* The panel that has no resize queued rests: laying it again does not move it.
PlaceFits(p, n) ==
  /\ p \in Places
  /\ ~p.resize =>
       /\ ~p.aroundCentre /\ p.monitor < n
       /\ p.configured < n => p.monitor = p.configured
       /\ p.expand => EdgeForm(p)
       /\ Geometry(Laid(p, n)) = Geometry(p)

\* After its resize the panel fits, and another would change nothing.
LEMMA LaidRests ==
  ASSUME MoveAssumption, NEW n \in Counts, NEW p \in Places
  PROVE  PlaceFits(Laid(p, n), n)
<1> DEFINE q == Laid(p, n)
           r == Monitor(MonitorOf(p, n), n)
           a == Laid(q, n)
<1>1. /\ q \in Places /\ KeepsSettings(p, q) /\ ~q.aroundCentre /\ ~q.resize
      /\ q.monitor = MonitorOf(p, n) /\ q.monitor \in 0 .. n - 1
      /\ q.width = WidthOf(p.orientation, p.expand, p.size, r)
      /\ q.height = HeightOf(p.orientation, p.expand, p.size, r)
      /\ p.expand => AlongEdge(q, r)
      /\ PlacedOn(q, r)
  BY LaidIs
<1> HIDE DEF q
<1>2. n \in Nat /\ q.configured \in Nat /\ p.configured \in Nat /\ p.monitor \in Nat
  BY <1>1 DEF Counts, Places
<1>3. q.monitor < n BY <1>1, <1>2
<1>4. p.configured = q.configured BY <1>1 DEF KeepsSettings
<1>5. q.configured < n => q.monitor = q.configured
  BY <1>1, <1>4 DEF MonitorOf
<1>6. MonitorOf(q, n) = q.monitor
  <2>1. ~(q.monitor >= n) BY <1>1, <1>2
  <2> QED BY <1>5, <2>1 DEF MonitorOf
<1>7. r = Monitor(MonitorOf(q, n), n) BY <1>1, <1>6
<1> HIDE DEF r
<1>8. /\ a \in Places /\ KeepsSettings(q, a)
      /\ a.width = WidthOf(q.orientation, q.expand, q.size, r)
      /\ a.height = HeightOf(q.orientation, q.expand, q.size, r)
      /\ q.expand => AlongEdge(a, r)
      /\ ~q.expand /\ ~q.aroundCentre => SameCorner(q, a)
      /\ PlacedOn(a, r)
  BY <1>1, <1>7, LaidIs
<1> HIDE DEF a
<1>9. /\ a.orientation = q.orientation /\ a.expand = q.expand
      /\ a.xCentered = q.xCentered /\ a.yCentered = q.yCentered
      /\ a.width = q.width /\ a.height = q.height
  BY <1>1, <1>8 DEF KeepsSettings
<1>10. a.x = q.x /\ a.y = q.y /\ a.xRight = q.xRight /\ a.yBottom = q.yBottom
  <2>1. CASE q.expand
    <3>1. AlongEdge(a, r) /\ AlongEdge(q, r) BY <1>1, <1>8, <2>1 DEF KeepsSettings
    <3> QED BY <1>9, <3>1 DEF AlongEdge
  <2>2. CASE ~q.expand BY <1>1, <1>8, <2>2 DEF SameCorner
  <2> QED BY <2>1, <2>2
<1>11. Geometry(a) = Geometry(q)
  BY <1>1, <1>8, <1>9, <1>10 DEF PlacedOn, Geometry
<1>12. q.expand => EdgeForm(q) BY <1>1 DEF AlongEdge, EdgeForm, KeepsSettings
<1> QED BY <1>1, <1>3, <1>5, <1>11, <1>12 DEF PlaceFits, a, q

-----------------------------------------------------------------------------
(* What the setters do to the place.                                         *)

\* The settings were told of the monitor that was asked for, when it was there.
Told(p) == ~p.missed => p.key = p.configured

\* What of a place the settings have.
SameConfig(p, m) ==
  /\ m.orientation = p.orientation /\ m.size = p.size /\ m.configured = p.configured
  /\ m.key = p.key /\ m.missed = p.missed
  /\ m.xCentered = p.xCentered /\ m.yCentered = p.yCentered /\ SameCorner(p, m)
  /\ m.aroundCentre = p.aroundCentre

\* What is set is written later, and laid again unless only the number of the
\* monitor changed.
Follows(p, m, n) ==
  /\ m \in Places /\ m.expand = p.expand /\ m.grab = p.grab
  /\ Told(p) => Told(m)
  /\ p.timer => m.timer
  /\ p.resize => m.resize
  /\ ~m.timer => SameConfig(p, m)
  /\ ~m.resize =>
       /\ m.orientation = p.orientation /\ m.size = p.size /\ m.monitor = p.monitor
       /\ m.xCentered = p.xCentered /\ m.yCentered = p.yCentered /\ SameCorner(p, m)
       /\ m.aroundCentre = p.aroundCentre /\ Geometry(m) = Geometry(p)
       /\ m.configured \in {p.configured, m.monitor} \/ m.configured >= n

\* Setters: none, ...
LEMMA FollowsItself ==
  ASSUME NEW n, NEW p \in Places
  PROVE  Follows(p, p, n)
BY DEF Follows, SameConfig, SameCorner

\* ... one after the other, ...
LEMMA FollowsTwice ==
  ASSUME NEW n, NEW p \in Places, NEW m, NEW l, Follows(p, m, n), Follows(m, l, n)
  PROVE  Follows(p, l, n)
<1>1. ~l.timer => ~m.timer BY DEF Follows
<1>2. ~l.timer => SameConfig(p, l) BY <1>1 DEF Follows, SameConfig, SameCorner
<1>3. ~l.resize => ~m.resize BY DEF Follows
<1>4. ~l.resize =>
        /\ l.orientation = p.orientation /\ l.size = p.size /\ l.monitor = p.monitor
        /\ l.xCentered = p.xCentered /\ l.yCentered = p.yCentered /\ SameCorner(p, l)
        /\ l.aroundCentre = p.aroundCentre /\ Geometry(l) = Geometry(p)
  BY <1>3 DEF Follows, SameCorner
<1>5. ~l.resize => l.configured \in {p.configured, l.monitor} \/ l.configured >= n
  BY <1>3 DEF Follows
<1> QED BY <1>2, <1>4, <1>5 DEF Follows

\* ... and what they leave fits, for they queue a resize.
LEMMA FollowsFits ==
  ASSUME MoveAssumption, NEW n \in Counts, NEW p, PlaceFits(p, n), NEW m, Follows(p, m, n)
  PROVE  PlaceFits(m, n)
<1>1. m \in Places /\ p \in Places BY DEF Follows, PlaceFits
<1> SUFFICES ASSUME ~m.resize
             PROVE  /\ ~m.aroundCentre /\ m.monitor < n
                    /\ m.configured < n => m.monitor = m.configured
                    /\ m.expand => EdgeForm(m)
                    /\ Geometry(Laid(m, n)) = Geometry(m)
  BY <1>1 DEF PlaceFits
<1>2. /\ m.orientation = p.orientation /\ m.size = p.size /\ m.monitor = p.monitor
      /\ m.xCentered = p.xCentered /\ m.yCentered = p.yCentered /\ SameCorner(p, m)
      /\ m.aroundCentre = p.aroundCentre /\ Geometry(m) = Geometry(p)
      /\ m.configured \in {p.configured, m.monitor} \/ m.configured >= n
      /\ ~p.resize /\ m.expand = p.expand
  BY DEF Follows
<1>3. /\ ~p.aroundCentre /\ p.monitor < n
      /\ p.configured < n => p.monitor = p.configured
      /\ p.expand => EdgeForm(p)
      /\ Geometry(Laid(p, n)) = Geometry(p)
  BY <1>2 DEF PlaceFits
<1>4. n \in Nat /\ m.configured \in Nat /\ m.monitor \in Nat /\ p.monitor \in Nat
      /\ p.configured \in Nat
  BY <1>1 DEF Counts, Places
<1>5. m.configured < n => m.monitor = m.configured BY <1>2, <1>3, <1>4
<1>6. MonitorOf(m, n) = m.monitor
  <2>1. ~(m.monitor >= n) BY <1>2, <1>3, <1>4
  <2> QED BY <1>5, <2>1 DEF MonitorOf
<1>7. MonitorOf(p, n) = p.monitor
  <2>1. ~(p.monitor >= n) BY <1>3, <1>4
  <2> QED BY <1>3, <2>1 DEF MonitorOf
<1>8. SamePlace(p, m) BY <1>2, <1>3 DEF SamePlace, AgreesX, AgreesY, Agrees, SameCorner
<1>9. MonitorOf(p, n) = MonitorOf(m, n) BY <1>2, <1>6, <1>7
<1>10. Geometry(Laid(p, n)) = Geometry(Laid(m, n)) BY <1>1, <1>8, <1>9, SameGeometry
<1>11. m.expand => EdgeForm(m) BY <1>2, <1>3 DEF EdgeForm, SameCorner
<1> QED BY <1>2, <1>3, <1>5, <1>10, <1>11

Sides == Horizontal \cup Vertical

\* Queueing a resize changes no setting.
LEMMA QueueIs ==
  ASSUME NEW p \in Places, NEW m, m = Queue(p)
  PROVE  /\ m \in Places /\ m.resize /\ m.timer /\ SameConfig(p, m)
         /\ m.expand = p.expand /\ m.grab = p.grab /\ m.monitor = p.monitor
<1>1. m = [p EXCEPT !.resize = TRUE, !.timer = TRUE] BY DEF Queue
<1>2. m \in Places BY <1>1 DEF Places
<1>3. m.resize /\ m.timer BY <1>1 DEF Places
<1>4. SameConfig(p, m) BY <1>1 DEF Places, SameConfig, SameCorner
<1> QED BY <1>1, <1>2, <1>3, <1>4 DEF Places

\* panel_toplevel_set_x changes x and nothing else.
LEMMA SetXIs ==
  ASSUME NEW n, NEW p \in Places, NEW x \in Int, NEW right \in Int, NEW centered \in BOOLEAN,
         NEW m, m = SetX(p, x, right, centered)
  PROVE  /\ Follows(p, m, n)
         /\ m.x = x /\ m.xRight = right /\ m.xCentered = centered
         /\ m.y = p.y /\ m.yBottom = p.yBottom /\ m.yCentered = p.yCentered
         /\ m.orientation = p.orientation /\ m.size = p.size /\ m.aroundCentre = p.aroundCentre
         /\ m.configured = p.configured /\ m.monitor = p.monitor
<1>1. CASE <<p.x, p.xRight, p.xCentered>> = <<x, right, centered>>
  <2>1. m = p BY <1>1 DEF SetX
  <2>2. p.x = x /\ p.xRight = right /\ p.xCentered = centered BY <1>1
  <2> QED BY <2>1, <2>2, FollowsItself
<1>2. CASE <<p.x, p.xRight, p.xCentered>> # <<x, right, centered>>
  <2> DEFINE q == [p EXCEPT !.x = x, !.xRight = right, !.xCentered = centered]
  <2>1. m = Queue(q) BY <1>2 DEF SetX
  <2>2. q \in Places BY DEF Places
  <2>3. /\ q.x = x /\ q.xRight = right /\ q.xCentered = centered
        /\ q.y = p.y /\ q.yBottom = p.yBottom /\ q.yCentered = p.yCentered
    BY DEF Places
  <2>4. /\ q.orientation = p.orientation /\ q.size = p.size /\ q.aroundCentre = p.aroundCentre
        /\ q.configured = p.configured /\ q.monitor = p.monitor
        /\ q.key = p.key /\ q.missed = p.missed
        /\ q.expand = p.expand /\ q.grab = p.grab
    BY DEF Places
  <2> HIDE DEF q
  <2>5. /\ m \in Places /\ m.resize /\ m.timer /\ SameConfig(q, m)
        /\ m.expand = q.expand /\ m.grab = q.grab /\ m.monitor = q.monitor
    BY <2>1, <2>2, QueueIs
  <2>6. Follows(p, m, n) BY <2>4, <2>5 DEF Follows, SameConfig, Told
  <2> QED BY <2>3, <2>4, <2>5, <2>6 DEF SameConfig, SameCorner
<1> QED BY <1>1, <1>2

\* m has other coordinates y than p, and is like p in the rest.
OnlyY(p, m, y, bottom, centered) ==
  /\ m.y = y /\ m.yBottom = bottom /\ m.yCentered = centered
  /\ m.x = p.x /\ m.xRight = p.xRight /\ m.xCentered = p.xCentered
  /\ m.orientation = p.orientation /\ m.size = p.size /\ m.aroundCentre = p.aroundCentre
  /\ m.configured = p.configured /\ m.monitor = p.monitor

\* panel_toplevel_set_y changes y and nothing else.
LEMMA SetYIs ==
  ASSUME NEW n, NEW p \in Places, NEW y \in Int, NEW bottom \in Int, NEW centered \in BOOLEAN,
         NEW m, m = SetY(p, y, bottom, centered)
  PROVE  Follows(p, m, n) /\ OnlyY(p, m, y, bottom, centered)
<1>1. CASE <<p.y, p.yBottom, p.yCentered>> = <<y, bottom, centered>>
  <2>1. m = p BY <1>1 DEF SetY
  <2>2. p.y = y /\ p.yBottom = bottom /\ p.yCentered = centered BY <1>1
  <2> QED BY <2>1, <2>2, FollowsItself DEF OnlyY
<1>2. CASE <<p.y, p.yBottom, p.yCentered>> # <<y, bottom, centered>>
  <2> DEFINE q == [p EXCEPT !.y = y, !.yBottom = bottom, !.yCentered = centered]
  <2>1. m = Queue(q) BY <1>2 DEF SetY
  <2>2. q \in Places BY DEF Places
  <2>3. /\ q.y = y /\ q.yBottom = bottom /\ q.yCentered = centered
        /\ q.x = p.x /\ q.xRight = p.xRight /\ q.xCentered = p.xCentered
    BY DEF Places
  <2>4. /\ q.orientation = p.orientation /\ q.size = p.size /\ q.aroundCentre = p.aroundCentre
        /\ q.configured = p.configured /\ q.monitor = p.monitor
        /\ q.key = p.key /\ q.missed = p.missed
        /\ q.expand = p.expand /\ q.grab = p.grab
    BY DEF Places
  <2> HIDE DEF q
  <2>5. /\ m \in Places /\ m.resize /\ m.timer /\ SameConfig(q, m)
        /\ m.expand = q.expand /\ m.grab = q.grab /\ m.monitor = q.monitor
    BY <2>1, <2>2, QueueIs
  <2>6. Follows(p, m, n) BY <2>4, <2>5 DEF Follows, SameConfig, Told
  <2> QED BY <2>3, <2>4, <2>5, <2>6 DEF SameConfig, SameCorner, OnlyY
<1> QED BY <1>1, <1>2

\* panel_toplevel_set_size changes the size and nothing else.
LEMMA SetSizeIs ==
  ASSUME NEW n, NEW p \in Places, NEW s \in Nat \ {0}, NEW m, m = SetSize(p, s)
  PROVE  /\ Follows(p, m, n) /\ m.size = s /\ SameCorner(p, m)
         /\ m.xCentered = p.xCentered /\ m.yCentered = p.yCentered
         /\ m.orientation = p.orientation /\ m.aroundCentre = p.aroundCentre
         /\ m.configured = p.configured /\ m.monitor = p.monitor
<1>1. CASE p.size = s
  <2>1. m = p BY <1>1 DEF SetSize
  <2> QED BY <1>1, <2>1, FollowsItself DEF SameCorner
<1>2. CASE p.size # s
  <2> DEFINE q == [p EXCEPT !.size = s]
  <2>1. m = Queue(q) BY <1>2 DEF SetSize
  <2>2. q \in Places BY DEF Places
  <2>3. /\ q.size = s /\ SameCorner(p, q)
        /\ q.xCentered = p.xCentered /\ q.yCentered = p.yCentered
    BY DEF Places, SameCorner
  <2>4. /\ q.orientation = p.orientation /\ q.aroundCentre = p.aroundCentre
        /\ q.configured = p.configured /\ q.monitor = p.monitor
        /\ q.key = p.key /\ q.missed = p.missed
        /\ q.expand = p.expand /\ q.grab = p.grab
    BY DEF Places
  <2> HIDE DEF q
  <2>5. /\ m \in Places /\ m.resize /\ m.timer /\ SameConfig(q, m)
        /\ m.expand = q.expand /\ m.grab = q.grab /\ m.monitor = q.monitor
    BY <2>1, <2>2, QueueIs
  <2>6. Follows(p, m, n) BY <2>4, <2>5 DEF Follows, SameConfig, Told
  <2> QED BY <2>3, <2>4, <2>5, <2>6 DEF SameConfig, SameCorner
<1> QED BY <1>1, <1>2

\* A monitor that is not there is only remembered.
LEMMA SetMonitorIs ==
  ASSUME NEW n \in Counts, NEW p \in Places, NEW k \in 0 .. Len(MonitorRects) - 1,
         NEW m, m = SetMonitor(p, k, n)
  PROVE  /\ Follows(p, m, n) /\ m.configured = k /\ SameCorner(p, m)
         /\ m.size = p.size /\ m.xCentered = p.xCentered /\ m.yCentered = p.yCentered
         /\ m.orientation = p.orientation /\ m.aroundCentre = p.aroundCentre
         /\ k >= n => m.monitor = p.monitor
<1>1. CASE p.configured = k
  <2>1. m = p BY <1>1 DEF SetMonitor
  <2> QED BY <1>1, <2>1, FollowsItself DEF SameCorner
<1>2. CASE p.configured # k
  <2> DEFINE on == IF k < n THEN k ELSE p.monitor
             r == p.resize \/ p.monitor # on
             gone == k >= n
  <2>1. m = [p EXCEPT !.configured = k, !.timer = TRUE, !.missed = gone,
                      !.monitor = on, !.key = on, !.resize = r]
    BY <1>2 DEF SetMonitor
  <2>2. on \in 0 .. Len(MonitorRects) - 1 /\ r \in BOOLEAN /\ gone \in BOOLEAN BY DEF Places
  <2>3. k \in Nat /\ n \in Nat BY DEF Counts
  <2>4. (k < n => on = k) /\ (~(k < n) => on = p.monitor) OBVIOUS
  <2>5. (~r => ~p.resize /\ on = p.monitor) /\ (~gone => on = k)
    BY <2>3
  <2> HIDE DEF on, r, gone
  <2>6. m \in Places BY <2>1, <2>2 DEF Places
  <2>7. m.configured = k /\ m.timer /\ m.monitor = on /\ m.resize = r
        /\ Told(m)
    BY <2>1, <2>5 DEF Places, Told
  <2>8. /\ m.size = p.size /\ m.xCentered = p.xCentered /\ m.yCentered = p.yCentered
        /\ m.orientation = p.orientation /\ m.aroundCentre = p.aroundCentre
        /\ m.expand = p.expand /\ m.grab = p.grab
    BY <2>1 DEF Places
  <2>9. SameCorner(p, m) /\ Geometry(m) = Geometry(p) BY <2>1 DEF Places, SameCorner, Geometry
  <2>10. m.configured = m.monitor \/ m.configured >= n BY <2>3, <2>4, <2>7
  <2>11. Follows(p, m, n) BY <2>5, <2>6, <2>7, <2>8, <2>9, <2>10 DEF Follows
  <2>12. k >= n => m.monitor = p.monitor BY <2>3, <2>4, <2>7
  <2> QED BY <2>7, <2>8, <2>9, <2>11, <2>12
<1> QED BY <1>1, <1>2

\* The size of a monitor, which is nothing for one that is not there.
LEMMA AnyMonitorIs ==
  ASSUME MoveAssumption, NEW n \in Counts, NEW m \in Nat
  PROVE  Monitor(m, n) \in [x : Int, y : Int, width : Nat, height : Nat]
<1>1. CASE m < n
  <2>1. m \in 0 .. n - 1 BY <1>1 DEF Counts
  <2> QED BY <2>1, MonitorIs
<1>2. CASE ~(m < n)
  <2>1. Monitor(m, n) = [x |-> 0, y |-> 0, width |-> 0, height |-> 0] BY <1>2 DEF Monitor
  <2> QED BY <2>1
<1> QED BY <1>1, <1>2

\* What was centered along an edge is so no longer, and stays where it is.
LEMMA UncenteredIs ==
  ASSUME MoveAssumption, NEW n \in Counts, NEW p \in Places, NEW o \in Sides,
         NEW q, q = Uncentered(p, o, n)
  PROVE  /\ q \in Places /\ q.size = p.size /\ q.aroundCentre = p.aroundCentre
         /\ q.configured = p.configured /\ q.monitor = p.monitor
         /\ q.key = p.key /\ q.missed = p.missed
         /\ q.expand = p.expand /\ q.grab = p.grab
<1> DEFINE none == -1
           r == Monitor(p.monitor, n)
           x == (r.width - p.width) \div 2
           h == IF p.xCentered /\ o \in Vertical
                THEN [p EXCEPT !.xCentered = FALSE, !.x = x, !.xRight = none] ELSE p
           y == (r.height - h.height) \div 2
<1>1. q = IF h.yCentered /\ o \in Horizontal
          THEN [h EXCEPT !.yCentered = FALSE, !.y = y, !.yBottom = none] ELSE h
  BY DEF Uncentered
<1>2. r \in [x : Int, y : Int, width : Nat, height : Nat] BY AnyMonitorIs DEF Places
<1> HIDE DEF r
<1>3. r.width \in Int /\ r.height \in Int /\ none \in Int BY <1>2
<1>8. x \in Int
  <2>1. p.width \in Int BY DEF Places
  <2> QED BY <1>3, <2>1
<1> HIDE DEF x, none
<1>4. /\ h \in Places /\ h.size = p.size /\ h.aroundCentre = p.aroundCentre
      /\ h.configured = p.configured /\ h.monitor = p.monitor
      /\ h.key = p.key /\ h.missed = p.missed
      /\ h.expand = p.expand /\ h.grab = p.grab
  <2>1. CASE p.xCentered /\ o \in Vertical
    <3>1. h = [p EXCEPT !.xCentered = FALSE, !.x = x, !.xRight = none] BY <2>1
    <3> HIDE DEF h
    <3>2. h \in Places BY <1>3, <1>8, <3>1 DEF Places
    <3> QED BY <3>1, <3>2 DEF Places
  <2>2. CASE ~(p.xCentered /\ o \in Vertical) BY <2>2
  <2> QED BY <2>1, <2>2
<1> HIDE DEF h
<1>5. y \in Int
  <2>1. h.height \in Int BY <1>4 DEF Places
  <2> QED BY <1>3, <2>1
<1> HIDE DEF y
<1>6. CASE h.yCentered /\ o \in Horizontal
  <2>1. q = [h EXCEPT !.yCentered = FALSE, !.y = y, !.yBottom = none] BY <1>1, <1>6
  <2>2. q \in Places BY <1>3, <1>4, <1>5, <2>1 DEF Places
  <2>3. /\ q.size = h.size /\ q.aroundCentre = h.aroundCentre
        /\ q.configured = h.configured /\ q.monitor = h.monitor
        /\ q.key = h.key /\ q.missed = h.missed
        /\ q.expand = h.expand /\ q.grab = h.grab
    BY <1>4, <2>1 DEF Places
  <2> QED BY <1>4, <2>2, <2>3
<1>7. CASE ~(h.yCentered /\ o \in Horizontal) BY <1>1, <1>4, <1>7
<1> QED BY <1>6, <1>7

\* Only a panel that is not expanded, and turned by a quarter, is turned around
\* its centre.
LEMMA SetOrientationIs ==
  ASSUME MoveAssumption, NEW n \in Counts, NEW p \in Places, NEW o \in Sides,
         NEW m, m = SetOrientation(p, o, n)
  PROVE  /\ Follows(p, m, n) /\ m.orientation = o /\ m.size = p.size
         /\ m.configured = p.configured /\ m.monitor = p.monitor
         /\ p.expand \/ (o \in Horizontal) = (p.orientation \in Horizontal) =>
              m.aroundCentre = p.aroundCentre
<1>1. CASE p.orientation = o
  <2>1. m = p BY <1>1 DEF SetOrientation
  <2> QED BY <1>1, <2>1, FollowsItself
<1>2. CASE p.orientation # o
  <2> DEFINE q == Uncentered(p, o, n)
             turned == (o \in Horizontal) # (p.orientation \in Horizontal)
             centre == turned /\ ~q.aroundCentre /\ ~q.expand
             x == IF centre /\ ~q.xCentered THEN q.x + q.width \div 2 ELSE q.x
             y == IF centre /\ ~q.yCentered THEN q.y + q.height \div 2 ELSE q.y
             a == q.aroundCentre \/ centre
             h == [q EXCEPT !.orientation = o, !.aroundCentre = a, !.x = x, !.y = y]
  <2>1. m = Queue(h) BY <1>2 DEF SetOrientation
  <2>2. /\ q \in Places /\ q.size = p.size /\ q.aroundCentre = p.aroundCentre
        /\ q.configured = p.configured /\ q.monitor = p.monitor
        /\ q.key = p.key /\ q.missed = p.missed
        /\ q.expand = p.expand /\ q.grab = p.grab
    BY UncenteredIs
  <2>3. p.expand \/ (o \in Horizontal) = (p.orientation \in Horizontal) => a = p.aroundCentre
    BY <2>2 DEF Places
  <2> HIDE DEF q
  <2>4. x \in Int /\ y \in Int
    <3> HIDE DEF centre
    <3>1. q.x \in Int /\ q.y \in Int /\ q.width \in Nat /\ q.height \in Nat BY <2>2 DEF Places
    <3> QED BY <3>1
  <2>5. a \in BOOLEAN BY <2>2 DEF Places
  <2> HIDE DEF a, x, y
  <2>6. h \in Places BY <2>2, <2>4, <2>5 DEF Places, Sides
  <2>7. /\ h.orientation = o /\ h.aroundCentre = a /\ h.size = q.size
        /\ h.configured = q.configured /\ h.monitor = q.monitor
        /\ h.key = q.key /\ h.missed = q.missed
        /\ h.expand = q.expand /\ h.grab = q.grab
    BY <2>2 DEF Places
  <2> HIDE DEF h
  <2>8. /\ m \in Places /\ m.resize /\ m.timer /\ SameConfig(h, m)
        /\ m.expand = h.expand /\ m.grab = h.grab /\ m.monitor = h.monitor
    BY <2>1, <2>6, QueueIs
  <2>9. Follows(p, m, n) BY <2>2, <2>7, <2>8 DEF Follows, SameConfig, Told
  <2> QED BY <2>2, <2>3, <2>7, <2>8, <2>9 DEF SameConfig
<1> QED BY <1>1, <1>2

-----------------------------------------------------------------------------
(* What follows the pointer, and what Escape does.                          *)

\* Points and bounds are numbers.
LEMMA PointIs ==
  ASSUME MoveAssumption, NEW pt \in Points
  PROVE  pt[1] \in Int /\ pt[2] \in Int
<1>1. pt \in Int \X Int BY DEF MoveAssumption
<1> QED BY <1>1

\* What is clamped is a number, and none below nothing between such bounds.
LEMMA ClampIs ==
  ASSUME NEW v \in Int, NEW lo \in Int, NEW hi \in Int
  PROVE  /\ Clamp(v, lo, hi) \in Int
         /\ 0 <= lo /\ 0 <= hi => Clamp(v, lo, hi) \in Nat
BY DEF Clamp

\* What the fields of a place are.
LEMMA PlaceTypes ==
  ASSUME NEW p \in Places
  PROVE  /\ p.x \in Int /\ p.y \in Int /\ p.xRight \in Int /\ p.yBottom \in Int
         /\ p.width \in Nat /\ p.height \in Nat /\ p.gx \in Int /\ p.gy \in Int
         /\ p.dragX \in Int /\ p.dragY \in Int /\ p.size \in Nat \ {0}
         /\ p.monitor \in Nat /\ p.configured \in Nat
         /\ p.xCentered \in BOOLEAN /\ p.yCentered \in BOOLEAN /\ p.expand \in BOOLEAN
         /\ p.orientation \in Sides
BY DEF Places, Sides

\* Resizing with the pointer runs only setters, ...
LEMMA ResizedToIs ==
  ASSUME MoveAssumption, NEW n \in Counts, NEW p \in Places, p.grab \in Resizes,
         NEW pt \in Points
  PROVE  Follows(p, ResizedTo(p, pt, n), n)
<1> DEFINE r == Monitor(p.monitor, n)
           upright == p.grab \in {"up", "down"}
           room == IF upright THEN r.height ELSE r.width
           raw == CASE p.grab = "up" -> p.dragY - pt[2]
                    [] p.grab = "down" -> pt[2] - p.dragY
                    [] p.grab = "left" -> p.dragX - pt[1]
                    [] p.grab = "right" -> pt[1] - p.dragX
           s == Clamp(raw, 0, room \div 4)
           at(v) == IF p.grab \in {"up", "left"} THEN v - (s - p.size) ELSE v
           far(v, centered) == IF centered THEN -1 ELSE FromFar(v, s, room)
           byY == SetY(p, at(p.y), far(at(p.y), p.yCentered), p.yCentered)
           byX == SetX(p, at(p.x), far(at(p.x), p.xCentered), p.xCentered)
           moved == IF upright THEN byY ELSE byX
<1>1. ResizedTo(p, pt, n) = IF s = 0 THEN p ELSE SetSize(moved, s) BY DEF ResizedTo
<1>2. r \in [x : Int, y : Int, width : Nat, height : Nat] BY AnyMonitorIs, PlaceTypes
<1>3. room \in Nat BY <1>2
<1>4. raw \in Int
  <2>1. /\ pt[1] \in Int /\ pt[2] \in Int /\ p.dragX \in Int /\ p.dragY \in Int
    BY PointIs, PlaceTypes
  <2>2. CASE p.grab = "up" BY <2>1, <2>2
  <2>3. CASE p.grab = "down" BY <2>1, <2>3
  <2>4. CASE p.grab = "left" BY <2>1, <2>4
  <2>5. CASE p.grab = "right" BY <2>1, <2>5
  <2> QED BY <2>2, <2>3, <2>4, <2>5 DEF Resizes
<1> HIDE DEF r, room, raw
<1>5. s \in Nat
  <2> DEFINE q == room \div 4
  <2>1. q \in Int /\ 0 <= q BY <1>3
  <2> HIDE DEF q
  <2>2. Clamp(raw, 0, q) \in Nat BY <1>4, <2>1, ClampIs
  <2> QED BY <2>2 DEF q
<1> HIDE DEF s
<1>6. /\ p.x \in Int /\ p.y \in Int /\ p.size \in Nat
      /\ p.xCentered \in BOOLEAN /\ p.yCentered \in BOOLEAN
  BY PlaceTypes
<1>7. at(p.x) \in Int /\ at(p.y) \in Int BY <1>5, <1>6
<1>8. \A v \in Int : FromFar(v, s, room) \in Int BY <1>3, <1>5, FromFarIs
<1> HIDE DEF at
<1>9. far(at(p.x), p.xCentered) \in Int /\ far(at(p.y), p.yCentered) \in Int BY <1>7, <1>8
<1> HIDE DEF far
<1>10. Follows(p, byY, n) BY <1>6, <1>7, <1>9, SetYIs
<1>11. Follows(p, byX, n) BY <1>6, <1>7, <1>9, SetXIs
<1> HIDE DEF byX, byY
<1>12. Follows(p, moved, n) BY <1>10, <1>11
<1> HIDE DEF moved
<1>13. CASE s = 0 BY <1>1, <1>13, FollowsItself
<1>14. CASE s # 0
  <2>1. moved \in Places BY <1>12 DEF Follows
  <2>2. s \in Nat \ {0} BY <1>5, <1>14
  <2>3. Follows(moved, SetSize(moved, s), n) BY <2>1, <2>2, SetSizeIs
  <2> QED BY <1>1, <1>12, <1>14, <2>3, FollowsTwice
<1> QED BY <1>13, <1>14

\* ... for the edge that an expanded panel is dragged to is an edge, ...
LEMMA EdgeAtIs ==
  ASSUME NEW p \in Places, NEW pt, NEW n
  PROVE  EdgeAt(p, pt, n) \in Sides
<1>1. p.orientation \in {"top", "bottom", "left", "right"} BY DEF Places, Horizontal, Vertical
<1> DEFINE r == Monitor(MonitorAt(pt[1], pt[2], n), n)
           border == (3 * (IF p.height < p.width THEN p.height ELSE p.width)) \div 2
           x == pt[1] - r.x
           y == pt[2] - r.y
           low == y > r.height - border
           high == y < border
           right == x > r.width - border
           left == x < border
           sideways == IF right THEN "right" ELSE IF left THEN "left" ELSE p.orientation
           upways == IF low THEN "bottom" ELSE IF high THEN "top" ELSE p.orientation
           beyondTop == y > border
           beyondBottom == y < r.height - border
           beyondLeft == x > border
           beyondRight == x < r.width - border
<1>2. EdgeAt(p, pt, n) =
        CASE p.orientation = "top" -> IF low THEN "bottom" ELSE IF beyondTop THEN sideways ELSE "top"
          [] p.orientation = "bottom" ->
               IF high THEN "top" ELSE IF beyondBottom THEN sideways ELSE "bottom"
          [] p.orientation = "left" -> IF right THEN "right" ELSE IF beyondLeft THEN upways ELSE "left"
          [] p.orientation = "right" ->
               IF left THEN "left" ELSE IF beyondRight THEN upways ELSE "right"
  BY DEF EdgeAt
<1> HIDE DEF low, high, right, left, beyondTop, beyondBottom, beyondLeft, beyondRight
<1>3. sideways \in Sides /\ upways \in Sides BY <1>1 DEF Sides, Horizontal, Vertical
<1> HIDE DEF sideways, upways
<1>4. CASE p.orientation = "top" BY <1>2, <1>3, <1>4 DEF Sides, Horizontal, Vertical
<1>5. CASE p.orientation = "bottom" BY <1>2, <1>3, <1>5 DEF Sides, Horizontal, Vertical
<1>6. CASE p.orientation = "left" BY <1>2, <1>3, <1>6 DEF Sides, Horizontal, Vertical
<1>7. CASE p.orientation = "right" BY <1>2, <1>3, <1>7 DEF Sides, Horizontal, Vertical
<1> QED BY <1>1, <1>4, <1>5, <1>6, <1>7

\* ... and so is the side of the pointer, ...
LEMMA SideOfIs ==
  ASSUME NEW p \in Places, NEW pt
  PROVE  SideOf(p, pt) \in Sides
<1>1. p.orientation \in Sides BY PlaceTypes
<1>2. SideOf(p, pt) \in {"right", "bottom", "left", "top", p.orientation} BY DEF SideOf
<1> QED BY <1>1, <1>2 DEF Sides, Horizontal, Vertical

\* ... and so does moving.
LEMMA MovedToIs ==
  ASSUME MoveAssumption, NEW n \in Counts, NEW p \in Places, NEW pt \in Points
  PROVE  Follows(p, MovedTo(p, pt, n), n)
<1> DEFINE x == Clamp(pt[1] - p.dragX, 0, ScreenSize.width - p.width)
           y == Clamp(pt[2] - p.dragY, 0, ScreenSize.height - p.height)
           atX == x <= Snap \/ x + p.width >= ScreenSize.width - Snap
           atY == y <= Snap \/ y + p.height >= ScreenSize.height - Snap
           level == p.orientation \in Horizontal
           o == IF level THEN (IF y <= Snap THEN "top" ELSE IF atY THEN "bottom" ELSE p.orientation)
                ELSE (IF x <= Snap THEN "left" ELSE IF atX THEN "right" ELSE p.orientation)
           m == MonitorAt(x, y, n)
           r == Monitor(p.monitor, n)
           inX == x - Monitor(m, n).x
           inY == y - Monitor(m, n).y
           midX == (r.width - p.width) \div 2
           midY == (r.height - p.height) \div 2
           centeredX == level /\ atY /\ Abs(inX - midX) <= Snap
           centeredY == ~level /\ atX /\ Abs(inY - midY) <= Snap
           newX == IF centeredX THEN midX ELSE inX
           newY == IF centeredY THEN midY ELSE inY
           farX == IF centeredX THEN -1 ELSE FromFar(newX, p.width, r.width)
           farY == IF centeredY THEN -1 ELSE FromFar(newY, p.height, r.height)
           there == SetMonitor(p, m, n)
           turned == SetOrientation(there, o, n)
           byX == SetX(turned, newX, farX, centeredX)
<1>1. MovedTo(p, pt, n) = SetY(byX, newY, farY, centeredY) BY DEF MovedTo
<1>2. /\ p.width \in Int /\ p.height \in Int /\ p.dragX \in Int /\ p.dragY \in Int
      /\ p.orientation \in Sides /\ p.monitor \in Nat
  BY PlaceTypes
<1>3. pt[1] \in Int /\ pt[2] \in Int BY PointIs
<1>4. ScreenSize.width \in Int /\ ScreenSize.height \in Int BY DEF MoveAssumption
<1>5. x \in Int
  <2>1. pt[1] - p.dragX \in Int /\ ScreenSize.width - p.width \in Int BY <1>2, <1>3, <1>4
  <2> QED BY <2>1, ClampIs
<1>6. y \in Int
  <2>1. pt[2] - p.dragY \in Int /\ ScreenSize.height - p.height \in Int BY <1>2, <1>3, <1>4
  <2> QED BY <2>1, ClampIs
<1> HIDE DEF x, y
<1>7. o \in Sides
  <2> HIDE DEF atX, atY
  <2> QED BY <1>2 DEF Sides, Horizontal, Vertical
<1> HIDE DEF o
<1>8. m \in 0 .. n - 1 BY <1>5, <1>6, MonitorAtIs
<1> HIDE DEF m
<1>9. inX \in Int /\ inY \in Int
  <2>1. Monitor(m, n) \in [x : Int, y : Int, width : Nat, height : Nat] BY <1>8, MonitorIs
  <2>2. Monitor(m, n).x \in Int /\ Monitor(m, n).y \in Int BY <2>1
  <2> QED BY <1>5, <1>6, <2>2
<1>10. r.width \in Int /\ r.height \in Int
  <2>1. r \in [x : Int, y : Int, width : Nat, height : Nat] BY <1>2, AnyMonitorIs
  <2> QED BY <2>1
<1> HIDE DEF r, inX, inY
<1>11. midX \in Int /\ midY \in Int BY <1>2, <1>10
<1> HIDE DEF midX, midY
<1>12. centeredX \in BOOLEAN /\ centeredY \in BOOLEAN BY DEF centeredX, centeredY
<1> HIDE DEF centeredX, centeredY
<1>13. newX \in Int /\ newY \in Int BY <1>9, <1>11
<1> HIDE DEF newX, newY
<1>14. farX \in Int
  <2>1. FromFar(newX, p.width, r.width) \in Int BY <1>2, <1>10, <1>13, FromFarIs
  <2> QED BY <2>1
<1>15. farY \in Int
  <2>1. FromFar(newY, p.height, r.height) \in Int BY <1>2, <1>10, <1>13, FromFarIs
  <2> QED BY <2>1
<1> HIDE DEF farX, farY
<1>16. m \in 0 .. Len(MonitorRects) - 1 BY <1>8 DEF Counts
<1>17. Follows(p, there, n) BY <1>16, SetMonitorIs
<1>18. there \in Places BY <1>17 DEF Follows
<1> HIDE DEF there
<1>19. Follows(there, turned, n) BY <1>7, <1>18, SetOrientationIs
<1>20. turned \in Places BY <1>19 DEF Follows
<1> HIDE DEF turned
<1>21. Follows(turned, byX, n) BY <1>12, <1>13, <1>14, <1>20, SetXIs
<1>22. byX \in Places BY <1>21 DEF Follows
<1> HIDE DEF byX
<1>23. Follows(byX, MovedTo(p, pt, n), n) BY <1>1, <1>12, <1>13, <1>15, <1>22, SetYIs
<1>24. Follows(p, turned, n) BY <1>17, <1>19, FollowsTwice
<1>25. Follows(p, byX, n) BY <1>21, <1>24, FollowsTwice
<1> QED BY <1>23, <1>25, FollowsTwice

\* Escape sets all that the grab began with, but the monitor only if it is there.
LEMMA CancelledIs ==
  ASSUME MoveAssumption, NEW n \in Counts, NEW p \in Places, NEW was \in Settings,
         NEW m, m = Cancelled(p, was, n)
  PROVE  /\ Follows(p, m, n)
         /\ m.orientation = was.orientation /\ m.size = was.size /\ m.configured = was.monitor
         /\ m.x = was.x /\ m.xRight = was.xRight /\ m.xCentered = was.xCentered
         /\ m.y = was.y /\ m.yBottom = was.yBottom /\ m.yCentered = was.yCentered
         /\ was.monitor >= n => m.monitor = p.monitor
         /\ p.expand \/ (was.orientation \in Horizontal) = (p.orientation \in Horizontal) =>
              m.aroundCentre = p.aroundCentre
<1> DEFINE turned == SetOrientation(p, was.orientation, n)
           there == SetMonitor(turned, was.monitor, n)
           sized == SetSize(there, was.size)
           byX == SetX(sized, was.x, was.xRight, was.xCentered)
<1>1. m = SetY(byX, was.y, was.yBottom, was.yCentered) BY DEF Cancelled
<1>2. /\ was.orientation \in Sides /\ was.monitor \in 0 .. Len(MonitorRects) - 1
      /\ was.size \in Nat \ {0}
      /\ was.x \in Int /\ was.xRight \in Int /\ was.xCentered \in BOOLEAN
      /\ was.y \in Int /\ was.yBottom \in Int /\ was.yCentered \in BOOLEAN
  BY DEF Settings, Sides
<1>3. /\ Follows(p, turned, n) /\ turned.orientation = was.orientation
      /\ turned.monitor = p.monitor
      /\ p.expand \/ (was.orientation \in Horizontal) = (p.orientation \in Horizontal) =>
           turned.aroundCentre = p.aroundCentre
  BY <1>2, SetOrientationIs
<1>4. turned \in Places BY <1>3 DEF Follows
<1> HIDE DEF turned
<1>5. /\ Follows(turned, there, n) /\ there.configured = was.monitor
      /\ there.orientation = turned.orientation /\ there.aroundCentre = turned.aroundCentre
      /\ was.monitor >= n => there.monitor = turned.monitor
  BY <1>2, <1>4, SetMonitorIs
<1>6. there \in Places BY <1>5 DEF Follows
<1> HIDE DEF there
<1>27. sized = SetSize(there, was.size) OBVIOUS
<1> HIDE DEF sized
<1>30. was.size \in Nat \ {0} BY <1>2
<1>7. /\ Follows(there, sized, n) /\ sized.size = was.size
      /\ sized.orientation = there.orientation /\ sized.aroundCentre = there.aroundCentre
      /\ sized.configured = there.configured /\ sized.monitor = there.monitor
  BY <1>27, <1>30, <1>6, SetSizeIs
<1>8. sized \in Places BY <1>7 DEF Follows
<1> HIDE DEF sized
<1>29. byX = SetX(sized, was.x, was.xRight, was.xCentered) OBVIOUS
<1> HIDE DEF byX
<1>9. /\ Follows(sized, byX, n)
      /\ byX.x = was.x /\ byX.xRight = was.xRight /\ byX.xCentered = was.xCentered
      /\ byX.orientation = sized.orientation /\ byX.size = sized.size
      /\ byX.aroundCentre = sized.aroundCentre
      /\ byX.configured = sized.configured /\ byX.monitor = sized.monitor
  BY <1>29, <1>2, <1>8, SetXIs
<1>10. byX \in Places BY <1>9 DEF Follows
<1> HIDE DEF byX
<1>31. was.y \in Int /\ was.yBottom \in Int /\ was.yCentered \in BOOLEAN BY <1>2
<1>11. /\ Follows(byX, m, n)
       /\ m.y = was.y /\ m.yBottom = was.yBottom /\ m.yCentered = was.yCentered
       /\ m.x = byX.x /\ m.xRight = byX.xRight /\ m.xCentered = byX.xCentered
       /\ m.orientation = byX.orientation /\ m.size = byX.size
       /\ m.aroundCentre = byX.aroundCentre
       /\ m.configured = byX.configured /\ m.monitor = byX.monitor
  <2>1. Follows(byX, m, n) /\ OnlyY(byX, m, was.y, was.yBottom, was.yCentered)
    BY <1>1, <1>31, <1>10, SetYIs
  <2> QED BY <2>1 DEF OnlyY
<1>12. Follows(p, there, n) BY <1>3, <1>5, FollowsTwice
<1>13. Follows(p, sized, n) BY <1>7, <1>12, FollowsTwice
<1>14. Follows(p, byX, n) BY <1>9, <1>13, FollowsTwice
<1>15. Follows(p, m, n) BY <1>11, <1>14, FollowsTwice
<1>16. /\ m.orientation = was.orientation /\ m.size = was.size /\ m.configured = was.monitor
       /\ m.x = was.x /\ m.xRight = was.xRight /\ m.xCentered = was.xCentered
       /\ m.y = was.y /\ m.yBottom = was.yBottom /\ m.yCentered = was.yCentered
  BY <1>3, <1>5, <1>7, <1>9, <1>11
<1>17. was.monitor >= n => m.monitor = p.monitor BY <1>3, <1>5, <1>7, <1>9, <1>11
<1>18. m.aroundCentre = turned.aroundCentre BY <1>5, <1>7, <1>9, <1>11
<1> QED BY <1>3, <1>15, <1>16, <1>17, <1>18

-----------------------------------------------------------------------------
(* The settings and the place.                                              *)

\* The next session makes of s what p is.
Stored(s, p) ==
  /\ ~p.aroundCentre
  /\ s.orientation = p.orientation /\ s.size = p.size /\ s.monitor = p.key
  /\ AgreesX(s, p) /\ AgreesY(s, p)

SavedFits(s, p) ==
  /\ s \in Settings /\ s.expand = p.expand /\ Told(p)
  /\ s.settled /\ s.expand => EdgeForm(s)
  /\ s.settled /\ ~p.timer => Stored(s, p)

\* A grab does not change whether the panel is expanded.
StartFits(a, p) == a \in Settings /\ (p.grab # "none" => a.expand = p.expand)

\* The inductive invariant.
MoveFits ==
  /\ nMonitors \in Counts /\ PlaceFits(place, nMonitors)
  /\ SavedFits(saved, place) /\ StartFits(atStart, place)

\* The setters leave the settings to the timer, ...
LEMMA FollowsSaved ==
  ASSUME NEW n, NEW p, NEW m, Follows(p, m, n), NEW s, SavedFits(s, p)
  PROVE  SavedFits(s, m)
<1>1. s.expand = m.expand /\ Told(m) BY DEF Follows, SavedFits
<1>2. ASSUME s.settled, ~m.timer PROVE Stored(s, m)
  <2>1. ~p.timer /\ SameConfig(p, m) BY <1>2 DEF Follows
  <2>2. Stored(s, p) BY <1>2, <2>1 DEF SavedFits
  <2> QED BY <2>1, <2>2 DEF Stored, SameConfig, SameCorner, AgreesX, AgreesY
<1> QED BY <1>1, <1>2 DEF SavedFits

\* ... and a resize writes nothing.
LEMMA LaidSaved ==
  ASSUME MoveAssumption, NEW n \in Counts, NEW p \in Places, NEW s, SavedFits(s, p)
  PROVE  SavedFits(s, Laid(p, n))
<1> DEFINE q == Laid(p, n)
           r == Monitor(MonitorOf(p, n), n)
<1>1. /\ q \in Places /\ KeepsSettings(p, q) /\ ~q.aroundCentre
      /\ p.expand => AlongEdge(q, r)
      /\ ~p.expand /\ ~p.aroundCentre => SameCorner(p, q)
  BY LaidIs
<1> HIDE DEF q, r
<1>2. s \in Settings /\ s.expand = q.expand /\ Told(q)
  BY <1>1 DEF SavedFits, KeepsSettings, Told
<1>3. ASSUME s.settled, ~q.timer PROVE Stored(s, q)
  <2>1. ~p.timer BY <1>1, <1>3 DEF KeepsSettings
  <2>2. Stored(s, p) BY <1>3, <2>1 DEF SavedFits
  <2>3. s.orientation = q.orientation /\ s.size = q.size /\ s.monitor = q.key
        /\ s.xCentered = q.xCentered /\ s.yCentered = q.yCentered
    BY <1>1, <2>2 DEF Stored, KeepsSettings, AgreesX, AgreesY, Agrees
  <2>4. CASE p.expand
    <3>1. EdgeForm(s) BY <1>3, <2>4 DEF SavedFits
    <3>2. EdgeForm(q) BY <1>1, <2>4 DEF AlongEdge, EdgeForm
    <3>3. s.xRight = q.xRight /\ s.yBottom = q.yBottom BY <2>3, <3>1, <3>2 DEF EdgeForm
    <3>4. s.xRight = -1 => s.x = q.x
      <4>1. s.xRight = -1 => s.orientation # "right" BY <3>1 DEF EdgeForm
      <4> QED BY <2>3, <3>1, <3>2, <4>1 DEF EdgeForm
    <3>5. s.yBottom = -1 => s.y = q.y
      <4>1. s.yBottom = -1 => s.orientation # "bottom" BY <3>1 DEF EdgeForm
      <4> QED BY <2>3, <3>1, <3>2, <4>1 DEF EdgeForm
    <3>6. AgreesX(s, q) BY <2>3, <3>3, <3>4 DEF AgreesX, Agrees
    <3>7. AgreesY(s, q) BY <2>3, <3>3, <3>5 DEF AgreesY, Agrees
    <3> QED BY <1>1, <2>3, <3>6, <3>7 DEF Stored
  <2>5. CASE ~p.expand
    <3>1. SameCorner(p, q) BY <1>1, <2>2, <2>5 DEF Stored
    <3>2. AgreesX(s, q) BY <1>1, <2>2, <3>1 DEF Stored, AgreesX, Agrees, SameCorner, KeepsSettings
    <3>3. AgreesY(s, q) BY <1>1, <2>2, <3>1 DEF Stored, AgreesY, Agrees, SameCorner, KeepsSettings
    <3> QED BY <1>1, <2>3, <3>2, <3>3 DEF Stored
  <2> QED BY <2>4, <2>5
<1>4. s.settled /\ s.expand => EdgeForm(s) BY DEF SavedFits
<1> QED BY <1>2, <1>3, <1>4 DEF SavedFits, q

\* The panel before its first resize.
Raw(c, n) ==
  [orientation |-> c.orientation, expand |-> c.expand, size |-> c.size,
   configured |-> c.monitor, monitor |-> IF c.monitor < n THEN c.monitor ELSE 0,
   key |-> c.monitor, missed |-> FALSE,
   x |-> c.x, xRight |-> c.xRight, xCentered |-> c.xCentered,
   y |-> c.y, yBottom |-> c.yBottom, yCentered |-> c.yCentered,
   width |-> 0, height |-> 0, gx |-> 0, gy |-> 0, aroundCentre |-> FALSE,
   grab |-> "none", byKeys |-> FALSE, dragX |-> 0, dragY |-> 0,
   resize |-> FALSE, timer |-> FALSE]

\* What is read from the settings before the first resize.
LEMMA RawIs ==
  ASSUME MoveAssumption, NEW n \in Counts, NEW c \in Settings, NEW p, p = Raw(c, n)
  PROVE  /\ p \in Places /\ Made(c, n) = Laid(p, n)
         /\ p.orientation = c.orientation /\ p.expand = c.expand /\ p.size = c.size
         /\ p.configured = c.monitor /\ MonitorOf(p, n) = IF c.monitor < n THEN c.monitor ELSE 0
         /\ p.x = c.x /\ p.xRight = c.xRight /\ p.xCentered = c.xCentered
         /\ p.y = c.y /\ p.yBottom = c.yBottom /\ p.yCentered = c.yCentered
         /\ ~p.aroundCentre /\ p.grab = "none" /\ ~p.timer
         /\ p.key = c.monitor /\ ~p.missed
<1>1. Made(c, n) = Laid(p, n) BY DEF Made, Raw
<1> DEFINE m == IF c.monitor < n THEN c.monitor ELSE 0
<1>2. n \in Nat /\ n >= 1 /\ c.monitor \in Nat BY DEF Counts, Settings
<1>3. m \in 0 .. Len(MonitorRects) - 1
  <2>1. c.monitor \in 0 .. Len(MonitorRects) - 1 BY DEF Settings
  <2>2. 0 \in 0 .. Len(MonitorRects) - 1 BY DEF Counts
  <2> QED BY <2>1, <2>2
<1>4. p = [orientation |-> c.orientation, expand |-> c.expand, size |-> c.size,
           configured |-> c.monitor, monitor |-> m, key |-> c.monitor, missed |-> FALSE,
           x |-> c.x, xRight |-> c.xRight, xCentered |-> c.xCentered,
           y |-> c.y, yBottom |-> c.yBottom, yCentered |-> c.yCentered,
           width |-> 0, height |-> 0, gx |-> 0, gy |-> 0, aroundCentre |-> FALSE,
           grab |-> "none", byKeys |-> FALSE, dragX |-> 0, dragY |-> 0,
           resize |-> FALSE, timer |-> FALSE]
  BY DEF Raw
<1> HIDE DEF m
<1>5. /\ c.orientation \in Horizontal \cup Vertical /\ c.expand \in BOOLEAN
      /\ c.size \in Nat \ {0} /\ c.monitor \in 0 .. Len(MonitorRects) - 1
      /\ c.x \in Int /\ c.xRight \in Int /\ c.xCentered \in BOOLEAN
      /\ c.y \in Int /\ c.yBottom \in Int /\ c.yCentered \in BOOLEAN
  BY DEF Settings
<1>6. p \in Places BY <1>3, <1>4, <1>5 DEF Places
<1>7. /\ p.orientation = c.orientation /\ p.expand = c.expand /\ p.size = c.size
      /\ p.configured = c.monitor /\ p.monitor = m
      /\ p.x = c.x /\ p.xRight = c.xRight /\ p.xCentered = c.xCentered
      /\ p.y = c.y /\ p.yBottom = c.yBottom /\ p.yCentered = c.yCentered
      /\ ~p.aroundCentre /\ p.grab = "none" /\ ~p.timer
      /\ p.key = c.monitor /\ ~p.missed
  BY <1>4
<1>8. MonitorOf(p, n) = m
  <2>1. CASE c.monitor < n
    <3>1. p.configured < n BY <2>1, <1>7
    <3> QED BY <3>1, <2>1, <1>7 DEF MonitorOf, m
  <2>2. CASE ~(c.monitor < n)
    <3>1. ~(p.configured < n) BY <2>2, <1>7
    <3>2. m = 0 /\ p.monitor = 0 BY <2>2, <1>7 DEF m
    <3> QED BY <3>1, <3>2 DEF MonitorOf
  <2> QED BY <2>1, <2>2
<1> QED BY <1>1, <1>6, <1>7, <1>8 DEF m

\* A panel made of its settings is as they say.
LEMMA MadeFits ==
  ASSUME MoveAssumption, NEW n \in Counts, NEW c \in Settings,
         c.settled /\ c.expand => EdgeForm(c), NEW q, q = Made(c, n)
  PROVE  PlaceFits(q, n) /\ SavedFits(c, q) /\ q.grab = "none"
<1> DEFINE p == Raw(c, n)
<1>1. /\ p \in Places /\ Made(c, n) = Laid(p, n)
      /\ p.orientation = c.orientation /\ p.expand = c.expand /\ p.size = c.size
      /\ p.configured = c.monitor /\ p.key = c.monitor
      /\ p.x = c.x /\ p.xRight = c.xRight /\ p.xCentered = c.xCentered
      /\ p.y = c.y /\ p.yBottom = c.yBottom /\ p.yCentered = c.yCentered
      /\ ~p.aroundCentre /\ p.grab = "none" /\ ~p.timer
  BY RawIs
<1> HIDE DEF p
<1>2. Stored(c, p) BY <1>1 DEF Stored, AgreesX, AgreesY, Agrees
<1>3. SavedFits(c, p) BY <1>1, <1>2 DEF SavedFits, Told
<1>4. SavedFits(c, q) BY <1>1, <1>3, LaidSaved
<1>5. PlaceFits(q, n) BY <1>1, LaidRests
<1>6. KeepsSettings(p, q) BY <1>1, LaidIs
<1> QED BY <1>1, <1>4, <1>5, <1>6 DEF KeepsSettings

\* What is written of a place.
LEMMA ConfigurationIs ==
  ASSUME NEW p \in Places, NEW b \in BOOLEAN, NEW c, c = Configuration(p, b)
  PROVE  /\ c \in Settings /\ c.expand = p.expand /\ c.settled = b
         /\ c.orientation = p.orientation /\ c.size = p.size /\ c.monitor = p.key
         /\ c.x = p.x /\ c.xRight = p.xRight /\ c.xCentered = p.xCentered
         /\ c.y = p.y /\ c.yBottom = p.yBottom /\ c.yCentered = p.yCentered
<1>1. c \in Settings BY DEF Configuration, Settings, Places
<1> QED BY <1>1 DEF Configuration

\* Expanding writes itself at once, and queues a resize.
LEMMA SetExpandIs ==
  ASSUME NEW p \in Places, NEW e \in BOOLEAN, NEW m, m = SetExpand(p, e)
  PROVE  /\ m \in Places /\ m.resize /\ m.expand = e /\ m.grab = p.grab
         /\ p.timer => m.timer
         /\ Told(p) => Told(m)
         /\ ~m.timer => SameConfig(p, m)
<1> DEFINE q == [p EXCEPT !.expand = e, !.resize = TRUE]
           far == -1
           near == 0
           on == TRUE
<1>1. m = IF e THEN q
          ELSE CASE p.orientation = "top" -> SetX(q, near, far, on)
                 [] p.orientation = "bottom" -> SetX(q, near, near, on)
                 [] p.orientation = "left" -> SetY(q, near, far, on)
                 [] p.orientation = "right" -> SetY(q, near, near, on)
  BY DEF SetExpand
<1>2. /\ q \in Places /\ q.resize /\ q.expand = e /\ q.grab = p.grab /\ q.timer = p.timer
  BY DEF Places
<1>3. SameConfig(p, q) BY DEF Places, SameConfig, SameCorner
<1>4. far \in Int /\ near \in Int /\ on \in BOOLEAN OBVIOUS
<1> HIDE DEF q, far, near, on
<1>5. p.orientation \in {"top", "bottom", "left", "right"} BY DEF Places, Horizontal, Vertical
<1>6. Follows(q, m, 0)
  <2>1. Follows(q, q, 0) BY <1>2, FollowsItself
  <2>2. Follows(q, SetX(q, near, far, on), 0) BY <1>2, <1>4, SetXIs
  <2>3. Follows(q, SetX(q, near, near, on), 0) BY <1>2, <1>4, SetXIs
  <2>4. Follows(q, SetY(q, near, far, on), 0) BY <1>2, <1>4, SetYIs
  <2>5. Follows(q, SetY(q, near, near, on), 0) BY <1>2, <1>4, SetYIs
  <2>6. CASE e BY <1>1, <2>1, <2>6
  <2>7. CASE ~e /\ p.orientation = "top" BY <1>1, <2>2, <2>7
  <2>8. CASE ~e /\ p.orientation = "bottom" BY <1>1, <2>3, <2>8
  <2>9. CASE ~e /\ p.orientation = "left" BY <1>1, <2>4, <2>9
  <2>10. CASE ~e /\ p.orientation = "right" BY <1>1, <2>5, <2>10
  <2> QED BY <1>5, <2>6, <2>7, <2>8, <2>9, <2>10
<1>7. ~m.timer => SameConfig(q, m) BY <1>6 DEF Follows
<1> QED BY <1>2, <1>3, <1>6, <1>7 DEF Follows, SameConfig, SameCorner, Told

-----------------------------------------------------------------------------
(* The steps.                                                               *)

\* Fields that only a grab looks at may change: the place still fits, ...
LEMMA RegrabbedFits ==
  ASSUME MoveAssumption, NEW n \in Counts, NEW p, PlaceFits(p, n), NEW m \in Places,
         SameConfig(p, m), m.expand = p.expand, m.monitor = p.monitor, m.resize = p.resize,
         Geometry(m) = Geometry(p)
  PROVE  PlaceFits(m, n)
<1> SUFFICES ASSUME ~m.resize
             PROVE  /\ ~m.aroundCentre /\ m.monitor < n
                    /\ m.configured < n => m.monitor = m.configured
                    /\ m.expand => EdgeForm(m)
                    /\ Geometry(Laid(m, n)) = Geometry(m)
  BY DEF PlaceFits
<1>1. /\ p \in Places /\ ~p.aroundCentre /\ p.monitor < n
      /\ p.configured < n => p.monitor = p.configured
      /\ p.expand => EdgeForm(p)
      /\ Geometry(Laid(p, n)) = Geometry(p)
  BY DEF PlaceFits
<1>2. m.configured = p.configured /\ ~m.aroundCentre BY <1>1 DEF SameConfig
<1>3. MonitorOf(p, n) = MonitorOf(m, n) BY <1>2 DEF MonitorOf
<1>4. SamePlace(p, m)
  BY <1>1 DEF SamePlace, AgreesX, AgreesY, Agrees, SameConfig, SameCorner
<1>5. Geometry(Laid(p, n)) = Geometry(Laid(m, n)) BY <1>1, <1>3, <1>4, SameGeometry
<1>6. m.expand => EdgeForm(m) BY <1>1 DEF EdgeForm, SameConfig, SameCorner
<1> QED BY <1>1, <1>2, <1>5, <1>6

\* ... and the settings as well.
LEMMA RegrabbedSaved ==
  ASSUME NEW p, NEW m, SameConfig(p, m), m.expand = p.expand, m.timer = p.timer,
         NEW s, SavedFits(s, p)
  PROVE  SavedFits(s, m)
BY DEF SavedFits, Stored, SameConfig, SameCorner, AgreesX, AgreesY, Told

\* A panel that was made from its settings fits.
LEMMA MoveInitHolds ==
  ASSUME MoveAssumption, MoveInit
  PROVE  MoveFits
<1>1. PICK k \in 0 .. Len(MonitorRects) - 1 :
        /\ nMonitors = Len(MonitorRects) /\ saved = FirstSettings(k)
        /\ place = Made(saved, nMonitors) /\ atStart = Configuration(place, TRUE)
  BY DEF MoveInit
<1>2. Len(MonitorRects) \in Nat /\ Len(MonitorRects) >= 1
  <2> DEFINE Rects == [x : Int, y : Int, width : Nat, height : Nat]
  <2>1. MonitorRects \in Seq(Rects) /\ MonitorRects # <<>> BY DEF MoveAssumption
  <2> HIDE DEF Rects
  <2> QED BY <2>1
<1>3. nMonitors \in Counts BY <1>1, <1>2 DEF Counts
<1>4. FirstSettings(k) \in Settings
  <2> DEFINE none == -1
  <2>1. k \in 0 .. Len(MonitorRects) - 1 /\ none \in Int /\ 1 \in Nat \ {0} OBVIOUS
  <2>2. FirstSettings(k) = [orientation |-> "top", expand |-> TRUE, size |-> 1, monitor |-> k,
                         x |-> 0, xRight |-> none, xCentered |-> FALSE,
                         y |-> 0, yBottom |-> none, yCentered |-> FALSE, settled |-> TRUE]
    BY DEF FirstSettings
  <2> HIDE DEF none
  <2> QED BY <2>1, <2>2 DEF Settings, Horizontal
<1>5. EdgeForm(FirstSettings(k)) BY DEF EdgeForm, FirstSettings
<1>6. PlaceFits(place, nMonitors) /\ SavedFits(saved, place) BY <1>1, <1>3, <1>4, <1>5, MadeFits
<1>7. place \in Places BY <1>6 DEF PlaceFits
<1>8. StartFits(atStart, place) BY <1>1, <1>7, ConfigurationIs DEF StartFits
<1> QED BY <1>3, <1>6, <1>8 DEF MoveFits

\* Steps that run only setters.
LEMMA FollowsKeeps ==
  ASSUME MoveAssumption, MoveFits, Follows(place, place', nMonitors),
         UNCHANGED <<atStart, saved, nMonitors>>
  PROVE  MoveFits'
<1>1. nMonitors \in Counts /\ PlaceFits(place, nMonitors)
      /\ SavedFits(saved, place) /\ StartFits(atStart, place)
  BY DEF MoveFits
<1>2. PlaceFits(place', nMonitors) BY <1>1, FollowsFits
<1>3. SavedFits(saved, place') BY <1>1, FollowsSaved
<1>4. StartFits(atStart, place') BY <1>1 DEF StartFits, Follows
<1> QED BY <1>1, <1>2, <1>3, <1>4 DEF MoveFits

\* A grab remembers what it began with.
LEMMA BeganFits ==
  ASSUME MoveAssumption, MoveFits, NEW op \in {"move", "resize"} \cup Resizes,
         NEW byArrows \in BOOLEAN, Began(op, byArrows)
  PROVE  MoveFits'
<1> DEFINE dragX == IF op \in {"move", "resize"} THEN (IF byArrows THEN place.width \div 2 ELSE 0)
                    ELSE IF op = "right" THEN place.gx
                    ELSE IF op = "left" THEN place.gx + place.width ELSE 0
           dragY == IF op \in {"move", "resize"} THEN (IF byArrows THEN place.height \div 2 ELSE 0)
                    ELSE IF op = "down" THEN place.gy
                    ELSE IF op = "up" THEN place.gy + place.height ELSE 0
           b == ~place.resize /\ place.monitor = place.configured
           c == Configuration(place, b)
<1>1. place' = [place EXCEPT !.grab = op, !.byKeys = byArrows, !.dragX = dragX, !.dragY = dragY]
  BY DEF Began, Grabbed
<1>2. atStart' = [c EXCEPT !.monitor = place.monitor] BY DEF Began
<1>3. saved' = saved /\ nMonitors' = nMonitors BY DEF Began
<1>4. nMonitors \in Counts /\ PlaceFits(place, nMonitors) /\ SavedFits(saved, place)
  BY DEF MoveFits
<1>5. place \in Places BY <1>4 DEF PlaceFits
<1>6. dragX \in Int /\ dragY \in Int
  <2>1. /\ place.width \in Nat /\ place.height \in Nat /\ place.gx \in Int /\ place.gy \in Int
    BY <1>5, PlaceTypes
  <2> QED BY <2>1
<1> HIDE DEF dragX, dragY
<1>7. place' \in Places BY <1>1, <1>5, <1>6 DEF Places
<1>8. /\ place'.expand = place.expand /\ place'.monitor = place.monitor
      /\ place'.resize = place.resize /\ place'.timer = place.timer
  BY <1>1, <1>5 DEF Places
<1>9. SameConfig(place, place') BY <1>1, <1>5 DEF Places, SameConfig, SameCorner
<1>10. Geometry(place') = Geometry(place) BY <1>1, <1>5 DEF Places, Geometry
<1>11. PlaceFits(place', nMonitors) BY <1>4, <1>7, <1>8, <1>9, <1>10, RegrabbedFits
<1>12. SavedFits(saved, place') BY <1>4, <1>8, <1>9, RegrabbedSaved
<1>13. StartFits(atStart', place')
  <2>1. b \in BOOLEAN OBVIOUS
  <2> HIDE DEF b
  <2>2. c \in Settings /\ c.expand = place.expand BY <1>5, <2>1, ConfigurationIs
  <2> HIDE DEF c
  <2>3. place.monitor \in 0 .. Len(MonitorRects) - 1 BY <1>5 DEF Places
  <2>4. atStart' \in Settings /\ atStart'.expand = place.expand
    BY <1>2, <2>2, <2>3 DEF Settings
  <2> QED BY <1>8, <2>4 DEF StartFits
<1> QED BY <1>3, <1>4, <1>11, <1>12, <1>13 DEF MoveFits

\* The pointer moves, ...
LEMMA MotionFits ==
  ASSUME MoveAssumption, MoveFits, NEW pt \in Points, NEW control \in BOOLEAN,
         Motion(pt, control)
  PROVE  MoveFits'
<1>1. nMonitors \in Counts /\ place \in Places BY DEF MoveFits, PlaceFits
<1>2. UNCHANGED <<atStart, saved, nMonitors>> BY DEF Motion
<1>3. Follows(place, place', nMonitors)
  <2>1. CASE place.grab \in Resizes
    <3>1. place' = ResizedTo(place, pt, nMonitors) BY <2>1 DEF Motion
    <3> QED BY <1>1, <2>1, <3>1, ResizedToIs
  <2>2. CASE place.grab \notin Resizes /\ place.expand
    <3> DEFINE m == MonitorAt(pt[1], pt[2], nMonitors)
               there == SetMonitor(place, m, nMonitors)
               o == EdgeAt(place, pt, nMonitors)
    <3>1. place' = SetOrientation(there, o, nMonitors) BY <2>2 DEF Motion
    <3>2. o \in Sides BY <1>1, EdgeAtIs
    <3>3. m \in 0 .. nMonitors - 1 BY <1>1, PointIs, MonitorAtIs
    <3>4. m \in 0 .. Len(MonitorRects) - 1 BY <1>1, <3>3 DEF Counts
    <3> HIDE DEF m, o
    <3>5. Follows(place, there, nMonitors) BY <1>1, <3>4, SetMonitorIs
    <3>6. there \in Places BY <3>5 DEF Follows
    <3> HIDE DEF there
    <3>7. Follows(there, place', nMonitors) BY <1>1, <3>1, <3>2, <3>6, SetOrientationIs
    <3> QED BY <1>1, <3>5, <3>7, FollowsTwice
  <2>3. CASE place.grab \notin Resizes /\ ~place.expand /\ control
    <3>1. place' = SetOrientation(place, SideOf(place, pt), nMonitors) BY <2>3 DEF Motion
    <3>2. SideOf(place, pt) \in Sides BY <1>1, SideOfIs
    <3> QED BY <1>1, <3>1, <3>2, SetOrientationIs
  <2>4. CASE place.grab \notin Resizes /\ ~place.expand /\ ~control
    <3>1. place' = MovedTo(place, pt, nMonitors) BY <2>4 DEF Motion
    <3> QED BY <1>1, <3>1, MovedToIs
  <2> QED BY <2>1, <2>2, <2>3, <2>4
<1> QED BY <1>2, <1>3, FollowsKeeps

\* ... or an arrow key does.
LEMMA ArrowKeyFits ==
  ASSUME MoveAssumption, MoveFits, NEW d \in Sides, ArrowKey(d)
  PROVE  MoveFits'
<1>1. nMonitors \in Counts /\ place \in Places BY DEF MoveFits, PlaceFits
<1>2. place' = SetOrientation(place, d, nMonitors) /\ UNCHANGED <<atStart, saved, nMonitors>>
  BY DEF ArrowKey
<1>3. Follows(place, place', nMonitors) BY <1>1, <1>2, SetOrientationIs
<1> QED BY <1>2, <1>3, FollowsKeeps

\* The grab ends at p.
LEMMA ReleasedFits ==
  ASSUME MoveAssumption, MoveFits, NEW p, Follows(place, p, nMonitors),
         place' = [p EXCEPT !.grab = "none", !.byKeys = FALSE],
         UNCHANGED <<atStart, saved, nMonitors>>
  PROVE  MoveFits'
<1>1. nMonitors \in Counts /\ PlaceFits(place, nMonitors) /\ SavedFits(saved, place)
      /\ atStart \in Settings
  BY DEF MoveFits, StartFits
<1>2. PlaceFits(p, nMonitors) BY <1>1, FollowsFits
<1>3. SavedFits(saved, p) BY <1>1, FollowsSaved
<1>4. p \in Places BY <1>2 DEF PlaceFits
<1>5. place' \in Places BY <1>4 DEF Places
<1>6. /\ place'.expand = p.expand /\ place'.monitor = p.monitor
      /\ place'.resize = p.resize /\ place'.timer = p.timer /\ place'.grab = "none"
  BY <1>4 DEF Places
<1>7. SameConfig(p, place') BY <1>4 DEF Places, SameConfig, SameCorner
<1>8. Geometry(place') = Geometry(p) BY <1>4 DEF Places, Geometry
<1>9. PlaceFits(place', nMonitors) BY <1>1, <1>2, <1>5, <1>6, <1>7, <1>8, RegrabbedFits
<1>10. SavedFits(saved, place') BY <1>3, <1>6, <1>7, RegrabbedSaved
<1> QED BY <1>1, <1>6, <1>9, <1>10 DEF MoveFits, StartFits

\* Escape, ...
LEMMA CancelGrabFits ==
  ASSUME MoveAssumption, MoveFits, CancelGrab
  PROVE  MoveFits'
<1> DEFINE p == Cancelled(place, atStart, nMonitors)
<1>1. nMonitors \in Counts /\ place \in Places /\ atStart \in Settings
  BY DEF MoveFits, PlaceFits, StartFits
<1>2. Follows(place, p, nMonitors) BY <1>1, CancelledIs
<1>3. /\ place' = [p EXCEPT !.grab = "none", !.byKeys = FALSE]
      /\ UNCHANGED <<atStart, saved, nMonitors>>
  BY DEF CancelGrab
<1> HIDE DEF p
<1> QED BY <1>2, <1>3, ReleasedFits

\* ... and the button or the Return key.
LEMMA EndGrabFits ==
  ASSUME MoveAssumption, MoveFits, EndGrab
  PROVE  MoveFits'
<1>1. place \in Places BY DEF MoveFits, PlaceFits
<1>2. Follows(place, place, nMonitors) BY <1>1, FollowsItself
<1>3. /\ place' = [place EXCEPT !.grab = "none", !.byKeys = FALSE]
      /\ UNCHANGED <<atStart, saved, nMonitors>>
  BY DEF EndGrab
<1> QED BY <1>2, <1>3, ReleasedFits

\* Turning; an expanded panel is written only when it is along its edge again.
LEMMA ChangeOrientationFits ==
  ASSUME MoveAssumption, MoveFits, NEW o \in Sides, ChangeOrientation(o)
  PROVE  MoveFits'
<1>1. nMonitors \in Counts /\ PlaceFits(place, nMonitors) /\ SavedFits(saved, place)
      /\ StartFits(atStart, place) /\ place \in Places /\ saved \in Settings
  BY DEF MoveFits, PlaceFits, SavedFits
<1> DEFINE b == saved.settled /\ (saved.expand => o = saved.orientation)
<1>2. /\ place' = SetOrientation(place, o, nMonitors)
      /\ saved' = [saved EXCEPT !.orientation = o, !.settled = b]
      /\ atStart' = atStart /\ nMonitors' = nMonitors
  BY DEF ChangeOrientation
<1>3. Follows(place, place', nMonitors) /\ place'.orientation = o
  BY <1>1, <1>2, SetOrientationIs
<1>4. PlaceFits(place', nMonitors) BY <1>1, <1>3, FollowsFits
<1>5. StartFits(atStart, place') BY <1>1, <1>3 DEF StartFits, Follows
<1>6. SavedFits(saved, place') BY <1>1, <1>3, FollowsSaved
<1>7. b => saved.settled /\ (saved.expand => o = saved.orientation) OBVIOUS
<1>8. b \in BOOLEAN OBVIOUS
<1> HIDE DEF b
<1>9. saved' \in Settings BY <1>1, <1>2, <1>8 DEF Settings, Sides
<1>10. /\ saved'.settled = b /\ saved'.orientation = o /\ saved'.expand = saved.expand
       /\ saved'.size = saved.size /\ saved'.monitor = saved.monitor
       /\ saved'.xCentered = saved.xCentered /\ saved'.yCentered = saved.yCentered
       /\ SameCorner(saved, saved')
  BY <1>1, <1>2 DEF Settings, SameCorner
<1>11. ASSUME saved'.settled, saved'.expand PROVE EdgeForm(saved')
  <2>1. EdgeForm(saved) /\ o = saved.orientation BY <1>6, <1>7, <1>10, <1>11 DEF SavedFits
  <2> QED BY <1>10, <2>1 DEF EdgeForm, SameCorner
<1>12. ASSUME saved'.settled, ~place'.timer PROVE Stored(saved', place')
  <2>1. Stored(saved, place') BY <1>6, <1>7, <1>10, <1>12 DEF SavedFits
  <2> QED BY <1>3, <1>10, <2>1 DEF Stored, AgreesX, AgreesY, SameCorner
<1>13. saved'.expand = place'.expand BY <1>6, <1>10 DEF SavedFits
<1>14. SavedFits(saved', place') BY <1>6, <1>9, <1>11, <1>12, <1>13 DEF SavedFits
<1> QED BY <1>1, <1>2, <1>4, <1>5, <1>14 DEF MoveFits

\* The size changes, ...
LEMMA ChangeSizeFits ==
  ASSUME MoveAssumption, MoveFits, NEW s \in Sizes, ChangeSize(s)
  PROVE  MoveFits'
<1>1. nMonitors \in Counts /\ PlaceFits(place, nMonitors) /\ SavedFits(saved, place)
      /\ StartFits(atStart, place) /\ place \in Places /\ saved \in Settings
  BY DEF MoveFits, PlaceFits, SavedFits
<1>2. /\ place' = SetSize(place, s) /\ saved' = [saved EXCEPT !.size = s]
      /\ atStart' = atStart /\ nMonitors' = nMonitors
  BY DEF ChangeSize
<1>0. s \in Nat \ {0} BY DEF MoveAssumption
<1>3. Follows(place, place', nMonitors) /\ place'.size = s
  BY <1>0, <1>1, <1>2, SetSizeIs
<1>4. PlaceFits(place', nMonitors) BY <1>1, <1>3, FollowsFits
<1>5. StartFits(atStart, place') BY <1>1, <1>3 DEF StartFits, Follows
<1>6. SavedFits(saved, place') BY <1>1, <1>3, FollowsSaved
<1>9. saved' \in Settings BY <1>0, <1>1, <1>2 DEF Settings
<1>10. /\ saved'.settled = saved.settled /\ saved'.orientation = saved.orientation
       /\ saved'.expand = saved.expand /\ saved'.size = s /\ saved'.monitor = saved.monitor
       /\ saved'.xCentered = saved.xCentered /\ saved'.yCentered = saved.yCentered
       /\ SameCorner(saved, saved')
  BY <1>1, <1>2 DEF Settings, SameCorner
<1>11. ASSUME saved'.settled, saved'.expand PROVE EdgeForm(saved')
  BY <1>6, <1>10, <1>11 DEF SavedFits, EdgeForm, SameCorner
<1>12. ASSUME saved'.settled, ~place'.timer PROVE Stored(saved', place')
  <2>1. Stored(saved, place') BY <1>6, <1>10, <1>12 DEF SavedFits
  <2> QED BY <1>3, <1>10, <2>1 DEF Stored, AgreesX, AgreesY, SameCorner
<1>13. saved'.expand = place'.expand BY <1>6, <1>10 DEF SavedFits
<1>14. SavedFits(saved', place') BY <1>6, <1>9, <1>11, <1>12, <1>13 DEF SavedFits
<1> QED BY <1>1, <1>2, <1>4, <1>5, <1>14 DEF MoveFits

\* ... whether it is expanded, ...
LEMMA ChangeExpandFits ==
  ASSUME MoveAssumption, MoveFits, ChangeExpand
  PROVE  MoveFits'
<1>1. nMonitors \in Counts /\ SavedFits(saved, place)
      /\ StartFits(atStart, place) /\ place \in Places /\ saved \in Settings
  BY DEF MoveFits, PlaceFits, SavedFits
<1> DEFINE e == ~place.expand
           b == place.expand /\ saved.settled
<1>2. /\ place' = SetExpand(place, e)
      /\ saved' = [saved EXCEPT !.expand = e, !.settled = b]
      /\ atStart' = atStart /\ nMonitors' = nMonitors
      /\ place.grab = "none"
  BY DEF ChangeExpand
<1>3. e \in BOOLEAN /\ b \in BOOLEAN OBVIOUS
<1>4. (e <=> ~place.expand) /\ (b => saved.settled /\ ~e) OBVIOUS
<1> HIDE DEF e, b
<1>5. /\ place' \in Places /\ place'.resize /\ place'.expand = e /\ place'.grab = place.grab
      /\ place.timer => place'.timer
      /\ Told(place) => Told(place')
      /\ ~place'.timer => SameConfig(place, place')
  BY <1>1, <1>2, <1>3, SetExpandIs
<1>6. PlaceFits(place', nMonitors) BY <1>5 DEF PlaceFits
<1>7. StartFits(atStart, place') BY <1>1, <1>2, <1>5 DEF StartFits
<1>8. saved' \in Settings BY <1>1, <1>2, <1>3 DEF Settings
<1>9. /\ saved'.settled = b /\ saved'.orientation = saved.orientation
      /\ saved'.expand = e /\ saved'.size = saved.size /\ saved'.monitor = saved.monitor
      /\ saved'.xCentered = saved.xCentered /\ saved'.yCentered = saved.yCentered
      /\ SameCorner(saved, saved')
  BY <1>1, <1>2 DEF Settings, SameCorner
<1>10. ~(saved'.settled /\ saved'.expand) BY <1>4, <1>9
<1>11. ASSUME saved'.settled, ~place'.timer PROVE Stored(saved', place')
  <2>1. Stored(saved, place) BY <1>1, <1>4, <1>5, <1>9, <1>11 DEF SavedFits
  <2>2. SameConfig(place, place') BY <1>5, <1>11
  <2> QED BY <1>9, <2>1, <2>2 DEF Stored, AgreesX, AgreesY, SameCorner, SameConfig
<1>12. SavedFits(saved', place') BY <1>1, <1>5, <1>8, <1>9, <1>10, <1>11 DEF SavedFits
<1> QED BY <1>1, <1>2, <1>6, <1>7, <1>12 DEF MoveFits

\* ... and the monitors.
LEMMA ChangeMonitorsFits ==
  ASSUME MoveAssumption, MoveFits, NEW n \in Counts, ChangeMonitors(n)
  PROVE  MoveFits'
<1>1. SavedFits(saved, place) /\ StartFits(atStart, place) /\ place \in Places
  BY DEF MoveFits, PlaceFits
<1>2. /\ place' = [place EXCEPT !.resize = TRUE] /\ nMonitors' = n
      /\ saved' = saved /\ atStart' = atStart
  BY DEF ChangeMonitors
<1>3. place' \in Places BY <1>1, <1>2 DEF Places
<1>4. /\ place'.resize /\ place'.expand = place.expand /\ place'.timer = place.timer
      /\ place'.grab = place.grab
  BY <1>1, <1>2 DEF Places
<1>5. SameConfig(place, place') BY <1>1, <1>2 DEF Places, SameConfig, SameCorner
<1>6. SavedFits(saved, place') BY <1>1, <1>4, <1>5, RegrabbedSaved
<1> QED BY <1>1, <1>2, <1>3, <1>4, <1>6 DEF MoveFits, PlaceFits, StartFits

\* The resize that was queued.
LEMMA ResizeFits ==
  ASSUME MoveAssumption, MoveFits, Resize
  PROVE  MoveFits'
<1>1. nMonitors \in Counts /\ SavedFits(saved, place) /\ StartFits(atStart, place)
      /\ place \in Places
  BY DEF MoveFits, PlaceFits
<1>2. /\ place' = Laid(place, nMonitors)
      /\ saved' = saved /\ atStart' = atStart /\ nMonitors' = nMonitors
  BY DEF Resize
<1>3. PlaceFits(place', nMonitors) BY <1>1, <1>2, LaidRests
<1>4. SavedFits(saved, place') BY <1>1, <1>2, LaidSaved
<1>5. KeepsSettings(place, place') BY <1>1, <1>2, LaidIs
<1> QED BY <1>1, <1>2, <1>3, <1>4, <1>5 DEF MoveFits, StartFits, KeepsSettings

\* The timer writes the settings.
LEMMA ApplyFits ==
  ASSUME MoveAssumption, MoveFits, Apply
  PROVE  MoveFits'
<1>1. nMonitors \in Counts /\ PlaceFits(place, nMonitors) /\ StartFits(atStart, place)
      /\ place \in Places /\ Told(place)
  BY DEF MoveFits, PlaceFits, SavedFits
<1> DEFINE b == ~place.resize
<1>2. /\ saved' = Configuration(place, b) /\ place' = [place EXCEPT !.timer = FALSE]
      /\ atStart' = atStart /\ nMonitors' = nMonitors
  BY DEF Apply
<1>3. b \in BOOLEAN /\ (b <=> ~place.resize) OBVIOUS
<1> HIDE DEF b
<1>4. place' \in Places BY <1>1, <1>2 DEF Places
<1>5. /\ place'.resize = place.resize /\ place'.expand = place.expand
      /\ place'.monitor = place.monitor /\ place'.grab = place.grab
  BY <1>1, <1>2 DEF Places
<1>6. SameConfig(place, place') BY <1>1, <1>2 DEF Places, SameConfig, SameCorner
<1>7. Geometry(place') = Geometry(place) BY <1>1, <1>2 DEF Places, Geometry
<1>8. PlaceFits(place', nMonitors) BY <1>1, <1>4, <1>5, <1>6, <1>7, RegrabbedFits
<1>9. /\ saved' \in Settings /\ saved'.expand = place.expand /\ saved'.settled = b
      /\ saved'.orientation = place.orientation /\ saved'.size = place.size
      /\ saved'.monitor = place.key
      /\ saved'.x = place.x /\ saved'.xRight = place.xRight /\ saved'.xCentered = place.xCentered
      /\ saved'.y = place.y /\ saved'.yBottom = place.yBottom /\ saved'.yCentered = place.yCentered
  BY <1>1, <1>2, <1>3, ConfigurationIs
<1>10. ASSUME saved'.settled, saved'.expand PROVE EdgeForm(saved')
  <2>1. EdgeForm(place) BY <1>1, <1>3, <1>9, <1>10 DEF PlaceFits
  <2> QED BY <1>9, <2>1 DEF EdgeForm
<1>11. ASSUME saved'.settled PROVE Stored(saved', place')
  <2>1. ~place.aroundCentre BY <1>1, <1>3, <1>9, <1>11 DEF PlaceFits
  <2> QED BY <1>6, <1>9, <2>1 DEF Stored, AgreesX, AgreesY, Agrees, SameConfig, SameCorner
<1>12. Told(place') BY <1>1, <1>6 DEF Told, SameConfig
<1>13. SavedFits(saved', place') BY <1>5, <1>9, <1>10, <1>11, <1>12 DEF SavedFits
<1> QED BY <1>1, <1>2, <1>5, <1>8, <1>13 DEF MoveFits, StartFits

\* The panel starts again from its settings.
LEMMA RestartPanelFits ==
  ASSUME MoveAssumption, MoveFits, RestartPanel
  PROVE  MoveFits'
<1>1. nMonitors \in Counts /\ saved \in Settings
      /\ (saved.settled /\ saved.expand => EdgeForm(saved)) /\ atStart \in Settings
  BY DEF MoveFits, SavedFits, StartFits
<1>2. /\ place' = Made(saved, nMonitors)
      /\ saved' = saved /\ atStart' = atStart /\ nMonitors' = nMonitors
  BY DEF RestartPanel
<1>3. PlaceFits(place', nMonitors) /\ SavedFits(saved, place') /\ place'.grab = "none"
  BY <1>1, <1>2, MadeFits
<1> QED BY <1>1, <1>2, <1>3 DEF MoveFits, StartFits

\* Every step keeps the invariant.
LEMMA MoveNextKeeps == MoveAssumption /\ MoveFits /\ [MoveNext]_moveVars => MoveFits'
<1> SUFFICES ASSUME MoveAssumption, MoveFits, [MoveNext]_moveVars PROVE MoveFits' OBVIOUS
<1>1. CASE UNCHANGED moveVars BY <1>1 DEF moveVars, MoveFits
<1>2. ASSUME NEW op \in {"move", "resize"}, NEW k \in BOOLEAN, BeginGrab(op, k) PROVE MoveFits'
  BY <1>2, BeganFits DEF BeginGrab
<1>3. ASSUME NEW d \in Resizes, ChooseEdge(d) PROVE MoveFits'
  BY <1>3, BeganFits DEF ChooseEdge
<1>4. ASSUME NEW pt \in Points, NEW c \in BOOLEAN, Motion(pt, c) PROVE MoveFits'
  BY <1>4, MotionFits
<1>5. ASSUME NEW o \in Horizontal \cup Vertical, ArrowKey(o) PROVE MoveFits'
  BY <1>5, ArrowKeyFits DEF Sides
<1>6. ASSUME NEW o \in Horizontal \cup Vertical, ChangeOrientation(o) PROVE MoveFits'
  BY <1>6, ChangeOrientationFits DEF Sides
<1>7. ASSUME NEW s \in Sizes, ChangeSize(s) PROVE MoveFits'
  BY <1>7, ChangeSizeFits
<1>8. ASSUME NEW n \in 1 .. Len(MonitorRects), ChangeMonitors(n) PROVE MoveFits'
  BY <1>8, ChangeMonitorsFits DEF Counts
<1> QED BY <1>1, <1>2, <1>3, <1>4, <1>5, <1>6, <1>7, <1>8, EndGrabFits, CancelGrabFits,
           ChangeExpandFits, ResizeFits, ApplyFits, RestartPanelFits DEF MoveNext

-----------------------------------------------------------------------------

\* A panel that rests lies within one monitor that is there
\* (panel_toplevel_update_normal_position), and once its settings are written it lies
\* where the next session will put it (panel_toplevel_apply_delayed_settings).
THEOREM PanelOnOneMonitor == MoveAssumption /\ MoveSpec => [](OnOneMonitor /\ PlaceIsSaved)
<1> SUFFICES ASSUME MoveAssumption PROVE MoveSpec => [](OnOneMonitor /\ PlaceIsSaved) OBVIOUS
<1>1. MoveInit => MoveFits BY MoveInitHolds
<1>2. MoveFits /\ [MoveNext]_moveVars => MoveFits' BY MoveNextKeeps
<1>3. MoveFits => OnOneMonitor
  <2> SUFFICES ASSUME MoveFits, ~place.resize
               PROVE  /\ place.monitor < nMonitors
                      /\ Within(place, Monitor(place.monitor, nMonitors))
    BY DEF OnOneMonitor, Within
  <2>1. /\ nMonitors \in Counts /\ place \in Places /\ place.monitor < nMonitors
        /\ place.configured < nMonitors => place.monitor = place.configured
        /\ Geometry(Laid(place, nMonitors)) = Geometry(place)
    BY DEF MoveFits, PlaceFits
  <2>2. MonitorOf(place, nMonitors) = place.monitor
    <3>1. ~(place.monitor >= nMonitors) BY <2>1 DEF Places, Counts
    <3> QED BY <2>1, <3>1 DEF MonitorOf
  <2>3. Within(Laid(place, nMonitors), Monitor(place.monitor, nMonitors))
    BY <2>1, <2>2, LaidIs
  <2> QED BY <2>1, <2>3 DEF Geometry, Within
<1>4. MoveFits => PlaceIsSaved
  <2> SUFFICES ASSUME MoveFits, ~place.timer, ~place.resize, saved.settled, ~place.missed,
                      place.configured < nMonitors \/ place.monitor = 0
               PROVE  Geometry(Made(saved, nMonitors)) = Geometry(place)
    BY DEF PlaceIsSaved
  <2>1. /\ nMonitors \in Counts /\ place \in Places /\ place.monitor < nMonitors
        /\ ~place.aroundCentre
        /\ Geometry(Laid(place, nMonitors)) = Geometry(place)
    BY DEF MoveFits, PlaceFits
  <2>2. saved \in Settings /\ saved.expand = place.expand /\ Stored(saved, place)
    BY DEF MoveFits, SavedFits
  <2> DEFINE p == Raw(saved, nMonitors)
  <2>3. /\ p \in Places /\ Made(saved, nMonitors) = Laid(p, nMonitors)
        /\ p.orientation = saved.orientation /\ p.expand = saved.expand /\ p.size = saved.size
        /\ MonitorOf(p, nMonitors) = IF saved.monitor < nMonitors THEN saved.monitor ELSE 0
        /\ p.x = saved.x /\ p.xRight = saved.xRight /\ p.xCentered = saved.xCentered
        /\ p.y = saved.y /\ p.yBottom = saved.yBottom /\ p.yCentered = saved.yCentered
        /\ ~p.aroundCentre
    BY <2>1, <2>2, RawIs
  <2> HIDE DEF p
  <2>4. AgreesX(p, place) /\ AgreesY(p, place) BY <2>2, <2>3 DEF Stored, AgreesX, AgreesY
  <2>5. SamePlace(p, place)
    BY <2>1, <2>2, <2>3, <2>4 DEF SamePlace, Stored, AgreesX, AgreesY, Agrees
  <2>6. saved.monitor = place.configured BY <2>2 DEF Stored, MoveFits, SavedFits, Told
  <2>7. MonitorOf(p, nMonitors) = MonitorOf(place, nMonitors)
    <3>1. CASE place.configured < nMonitors BY <2>3, <2>6, <3>1 DEF MonitorOf
    <3>2. CASE ~(place.configured < nMonitors)
      <4>1. place.monitor = 0 BY <3>2
      <4> QED BY <2>3, <2>6, <3>2, <4>1 DEF MonitorOf
    <3> QED BY <3>1, <3>2
  <2>8. Geometry(Laid(p, nMonitors)) = Geometry(Laid(place, nMonitors))
    BY <2>1, <2>3, <2>5, <2>7, SameGeometry
  <2> QED BY <2>1, <2>3, <2>8
<1> HIDE DEF MoveFits, OnOneMonitor, PlaceIsSaved
<1> QED BY <1>1, <1>2, <1>3, <1>4, PTL DEF MoveSpec

\* What Escape sets is laid out as what the grab began with.
LEMMA CancelRestores ==
  ASSUME MoveAssumption, MoveFits, CancelGrab,
         ~LeftTurned, ~LeftElsewhere
  PROVE  Geometry(Laid(place', nMonitors)) = Geometry(Made(atStart, nMonitors))
<1> DEFINE m == Cancelled(place, atStart, nMonitors)
           p == Raw(atStart, nMonitors)
<1>1. nMonitors \in Counts /\ place \in Places /\ atStart \in Settings
  BY DEF MoveFits, PlaceFits, StartFits
<1>2. place.grab # "none" /\ place' = [m EXCEPT !.grab = "none", !.byKeys = FALSE]
  BY DEF CancelGrab
<1>3. atStart.expand = place.expand BY <1>2 DEF MoveFits, StartFits
<1>4. /\ Follows(place, m, nMonitors)
      /\ m.orientation = atStart.orientation /\ m.size = atStart.size
      /\ m.configured = atStart.monitor
      /\ m.x = atStart.x /\ m.xRight = atStart.xRight /\ m.xCentered = atStart.xCentered
      /\ m.y = atStart.y /\ m.yBottom = atStart.yBottom /\ m.yCentered = atStart.yCentered
      /\ atStart.monitor >= nMonitors => m.monitor = place.monitor
      /\ place.expand
           \/ (atStart.orientation \in Horizontal) = (place.orientation \in Horizontal) =>
           m.aroundCentre = place.aroundCentre
  BY <1>1, CancelledIs
<1> HIDE DEF m
<1>5. m \in Places /\ m.expand = place.expand BY <1>4 DEF Follows
<1>6. ~place.expand => ~m.aroundCentre
  <2>1. ~TurnedByGrab <=>
          ((place.orientation \in Horizontal) <=> (atStart.orientation \in Horizontal))
    BY DEF TurnedByGrab
  <2> QED BY <1>4, <2>1 DEF LeftTurned
<1>7. place' \in Places BY <1>2, <1>5 DEF Places
<1>8. SameConfig(m, place') /\ place'.expand = m.expand /\ place'.monitor = m.monitor
  BY <1>2, <1>5 DEF Places, SameConfig, SameCorner
<1>9. /\ p \in Places /\ Made(atStart, nMonitors) = Laid(p, nMonitors)
      /\ p.orientation = atStart.orientation /\ p.expand = atStart.expand
      /\ p.size = atStart.size
      /\ MonitorOf(p, nMonitors) = IF atStart.monitor < nMonitors THEN atStart.monitor ELSE 0
      /\ p.x = atStart.x /\ p.xRight = atStart.xRight /\ p.xCentered = atStart.xCentered
      /\ p.y = atStart.y /\ p.yBottom = atStart.yBottom /\ p.yCentered = atStart.yCentered
      /\ ~p.aroundCentre
  BY <1>1, RawIs
<1> HIDE DEF p
<1>10. /\ place'.orientation = p.orientation /\ place'.size = p.size
       /\ place'.expand = p.expand
       /\ place'.x = p.x /\ place'.xRight = p.xRight /\ place'.xCentered = p.xCentered
       /\ place'.y = p.y /\ place'.yBottom = p.yBottom /\ place'.yCentered = p.yCentered
       /\ place'.aroundCentre = m.aroundCentre /\ place'.configured = atStart.monitor
  BY <1>3, <1>4, <1>5, <1>8, <1>9 DEF SameConfig, SameCorner
<1>11. SamePlace(place', p)
  BY <1>3, <1>6, <1>9, <1>10 DEF SamePlace, AgreesX, AgreesY, Agrees
<1>12. MonitorOf(place', nMonitors) = MonitorOf(p, nMonitors)
  <2>1. CASE atStart.monitor < nMonitors BY <1>9, <1>10, <2>1 DEF MonitorOf
  <2>2. CASE ~(atStart.monitor < nMonitors)
    <3>1. atStart.monitor >= nMonitors BY <1>1, <2>2 DEF Settings, Counts
    <3>2. place'.monitor = place.monitor BY <1>4, <1>8, <3>1
    <3>3. place'.monitor = 0 \/ place'.monitor >= nMonitors
      <4>1. place.monitor \in Nat /\ nMonitors \in Nat BY <1>1 DEF Counts, Places
      <4> QED BY <3>1, <3>2, <4>1 DEF LeftElsewhere
    <3>4. MonitorOf(place', nMonitors) = 0 BY <1>10, <2>2, <3>3 DEF MonitorOf
    <3> QED BY <1>9, <2>2, <3>4
  <2> QED BY <2>1, <2>2
<1> QED BY <1>1, <1>7, <1>9, <1>11, <1>12, SameGeometry

\* Escape puts the panel where the grab found it
\* (panel_toplevel_cancel_grab_op), but for the two ways that it leaves it turned
\* or on the monitor it was dragged to.
THEOREM EscapeRestores == MoveAssumption /\ MoveSpec => EscapeUndoes
<1> SUFFICES ASSUME MoveAssumption PROVE MoveSpec => EscapeUndoes OBVIOUS
<1> DEFINE Restores ==
             CancelGrab /\ atStart.settled /\ ~LeftTurned /\ ~LeftElsewhere =>
               Geometry(Laid(place', nMonitors)) = Geometry(Made(atStart, nMonitors))
<1>1. MoveInit => MoveFits BY MoveInitHolds
<1>2. MoveFits /\ [MoveNext]_moveVars => MoveFits' BY MoveNextKeeps
<1>3. MoveFits /\ [MoveNext]_moveVars => [Restores]_moveVars BY CancelRestores
<1>4. MoveSpec => [][Restores]_moveVars
  <2> HIDE DEF MoveFits, Restores
  <2> QED BY <1>1, <1>2, <1>3, PTL DEF MoveSpec
<1> QED BY <1>4 DEF EscapeUndoes

-----------------------------------------------------------------------------
(*****************************************************************************)
(* What is dropped on a panel.                                               *)
(*****************************************************************************)
Locations ==
  {SystemFile} \cup Nat \cup {FirstObjects[n].location : n \in DOMAIN FirstObjects}
PanelObjectRecords == [id : Nat \ {0}, kind : ObjectKinds, location : Locations, panel : DropPanels]
Drops ==
  [objects : Seq(PanelObjectRecords), files : SUBSET Locations, backgrounds : SUBSET DropPanels,
   nextId : Nat \ {0}, success : BOOLEAN]

\* No two objects have one id, and the next one is new.
IdsFit(os, next) ==
  /\ \A m, n \in DOMAIN os : os[m].id = os[n].id => m = n
  /\ \A n \in DOMAIN os : os[n].id < next

\* t has more objects than s, or as many.
Grown(s, t) ==
  /\ t \in Drops /\ IdsFit(t.objects, t.nextId)
  /\ Ids(s.objects) \subseteq Ids(t.objects)
\* The objects stay, whatever else the drop does.
SameObjects(s, t) == t \in Drops /\ t.objects = s.objects /\ t.nextId = s.nextId

\* t has one object more than s, the last of them.
OneAdded(s, t) ==
  /\ t \in Drops /\ IdsFit(t.objects, t.nextId)
  /\ Ids(t.objects) = Ids(s.objects) \cup {s.nextId}
  /\ Len(t.objects) = Len(s.objects) + 1
  /\ \A n \in 1 .. Len(s.objects) : t.objects[n] = s.objects[n]

\* t has the objects of s without the n-th.
OneLess(s, n, t) ==
  /\ t \in Drops /\ IdsFit(t.objects, t.nextId)
  /\ Ids(t.objects) = Ids(s.objects) \ {s.objects[n].id}
  /\ t.nextId = s.nextId
  /\ \A m \in 1 .. Len(s.objects) :
       m # n => \E i \in 1 .. Len(t.objects) : t.objects[i] = s.objects[m]

\* Whether a drop succeeded says nothing of the objects.
LEMMA FailedIs ==
  ASSUME NEW s \in Drops
  PROVE  SameObjects(s, Failed(s)) /\ SameObjects(s, Succeeded(s))
<1>1. Failed(s) = [s EXCEPT !.success = FALSE] BY DEF Failed
<1>2. Succeeded(s) = [s EXCEPT !.success = TRUE] BY DEF Succeeded
<1>3. Failed(s) \in Drops BY <1>1 DEF Drops
<1>4. Succeeded(s) \in Drops BY <1>2 DEF Drops
<1>5. Failed(s).objects = s.objects /\ Failed(s).nextId = s.nextId BY <1>1 DEF Drops
<1>6. Succeeded(s).objects = s.objects /\ Succeeded(s).nextId = s.nextId BY <1>2 DEF Drops
<1> QED BY <1>3, <1>4, <1>5, <1>6 DEF SameObjects

\* The ids are those of the places of the list.
LEMMA IdsAre ==
  ASSUME NEW os \in Seq(PanelObjectRecords), NEW i
  PROVE  i \in Ids(os) <=> \E n \in 1 .. Len(os) : os[n].id = i
BY DEF Ids

\* An object is added at the end, with a new id.
LEMMA ObjectAddedIs ==
  ASSUME NEW s \in Drops, IdsFit(s.objects, s.nextId), NEW kind \in ObjectKinds,
         NEW l \in Locations, NEW p \in DropPanels, NEW t, t = ObjectAdded(s, kind, l, p)
  PROVE  OneAdded(s, t)
<1> DEFINE o == [id |-> s.nextId, kind |-> kind, location |-> l, panel |-> p]
           os == Append(s.objects, o)
           k == Len(s.objects)
           next == s.nextId + 1
<1>1. t = [s EXCEPT !.objects = os, !.nextId = next] BY DEF ObjectAdded
<1>2. s.objects \in Seq(PanelObjectRecords) /\ s.nextId \in Nat \ {0} BY DEF Drops
<1>3. o \in PanelObjectRecords /\ o.id = s.nextId BY <1>2 DEF PanelObjectRecords
<1> HIDE DEF o
<1>4. /\ os \in Seq(PanelObjectRecords) /\ k \in Nat /\ Len(os) = k + 1 /\ os[k + 1] = o
      /\ \A n \in 1 .. k : os[n] = s.objects[n]
  BY <1>2, <1>3
<1>5. next \in Nat \ {0} /\ s.nextId < next BY <1>2
<1> HIDE DEF os, next
<1>6. t \in Drops BY <1>1, <1>4, <1>5 DEF Drops
<1>7. t.objects = os /\ t.nextId = next BY <1>1 DEF Drops
<1>8. DOMAIN os = 1 .. k + 1 /\ DOMAIN s.objects = 1 .. k BY <1>2, <1>4
<1>9. \A n \in 1 .. k : s.objects[n].id \in Nat /\ s.objects[n].id < s.nextId
  <2> SUFFICES ASSUME NEW n \in 1 .. k
               PROVE  s.objects[n].id \in Nat /\ s.objects[n].id < s.nextId
    OBVIOUS
  <2>1. s.objects[n] \in PanelObjectRecords BY <1>2
  <2>2. s.objects[n].id \in Nat BY <2>1 DEF PanelObjectRecords
  <2>3. s.objects[n].id < s.nextId BY <1>8 DEF IdsFit
  <2> QED BY <2>2, <2>3
<1>10. \A n \in 1 .. k : os[n].id \in Nat /\ os[n].id < s.nextId /\ os[n].id = s.objects[n].id
  BY <1>4, <1>9
<1>11. \A n \in 1 .. k + 1 : n \in 1 .. k \/ n = k + 1 BY <1>4
<1>12. os[k + 1].id = s.nextId BY <1>3, <1>4
<1>13. \A m, n \in 1 .. k : s.objects[m].id = s.objects[n].id => m = n BY <1>8 DEF IdsFit
<1> HIDE DEF k
<1>14. IdsFit(os, next)
  <2>1. ASSUME NEW m \in 1 .. k + 1, NEW n \in 1 .. k + 1, os[m].id = os[n].id
        PROVE  m = n
    <3>1. CASE m \in 1 .. k /\ n \in 1 .. k BY <1>10, <1>13, <2>1, <3>1
    <3>2. CASE m = k + 1 /\ n \in 1 .. k
      <4>1. os[n].id < s.nextId /\ os[n].id \in Nat BY <1>10, <3>2
      <4>2. os[n].id = s.nextId BY <1>12, <2>1, <3>2
      <4> QED BY <1>2, <4>1, <4>2
    <3>3. CASE n = k + 1 /\ m \in 1 .. k
      <4>1. os[m].id < s.nextId /\ os[m].id \in Nat BY <1>10, <3>3
      <4>2. os[m].id = s.nextId BY <1>12, <2>1, <3>3
      <4> QED BY <1>2, <4>1, <4>2
    <3>4. CASE m = k + 1 /\ n = k + 1 BY <3>4
    <3> QED BY <1>11, <3>1, <3>2, <3>3, <3>4
  <2>2. ASSUME NEW n \in 1 .. k + 1 PROVE os[n].id < next
    <3>1. CASE n \in 1 .. k BY <1>2, <1>5, <1>10, <3>1
    <3>2. CASE n = k + 1 BY <1>5, <1>12, <3>2
    <3> QED BY <1>11, <3>1, <3>2
  <2> QED BY <1>8, <2>1, <2>2 DEF IdsFit
<1>15. Ids(os) = Ids(s.objects) \cup {s.nextId}
  <2>1. Ids(os) = {os[n].id : n \in 1 .. k + 1} BY <1>8 DEF Ids
  <2>2. Ids(s.objects) = {s.objects[n].id : n \in 1 .. k} BY <1>8 DEF Ids
  <2>3. \A n \in 1 .. k : n \in 1 .. k + 1 BY <1>4
  <2>4. k + 1 \in 1 .. k + 1
    <3>1. k \in Nat BY <1>4
    <3> QED BY <3>1
  <2>5. ASSUME NEW i \in Ids(os) PROVE i \in Ids(s.objects) \cup {s.nextId}
    <3>1. PICK n \in 1 .. k + 1 : i = os[n].id BY <2>1
    <3>2. CASE n \in 1 .. k BY <1>10, <2>2, <3>1, <3>2
    <3>3. CASE n = k + 1 BY <1>12, <3>1, <3>3
    <3> QED BY <1>11, <3>2, <3>3
  <2>6. ASSUME NEW i \in Ids(s.objects) PROVE i \in Ids(os)
    <3>1. PICK n \in 1 .. k : i = s.objects[n].id BY <2>2
    <3> QED BY <1>10, <2>1, <2>3, <3>1
  <2>7. s.nextId \in Ids(os) BY <1>12, <2>1, <2>4
  <2> QED BY <2>5, <2>6, <2>7
<1>16. Len(os) = Len(s.objects) + 1 /\ \A n \in 1 .. Len(s.objects) : os[n] = s.objects[n]
  BY <1>4 DEF k
<1> QED BY <1>6, <1>7, <1>14, <1>15, <1>16 DEF OneAdded

\* One object goes, and the others stay.
LEMMA DeletedIs ==
  ASSUME NEW s \in Drops, IdsFit(s.objects, s.nextId), NEW n \in 1 .. Len(s.objects),
         NEW t, t = Deleted(s, n)
  PROVE  OneLess(s, n, t)
<1> DEFINE os == RemoveAt(s.objects, n)
           k == Len(s.objects)
           o == s.objects[n]
           fs == s.files \ (IF o.kind = "launcher" THEN {o.location} ELSE {})
<1>1. t = [s EXCEPT !.objects = os, !.files = fs] BY DEF Deleted
<1>2. /\ s.objects \in Seq(PanelObjectRecords) /\ s.nextId \in Nat \ {0}
      /\ s.files \in SUBSET Locations
  BY DEF Drops
<1>3. fs \in SUBSET Locations BY <1>2
<1>4. /\ os \in Seq(PanelObjectRecords) /\ Len(os) = k - 1 /\ k \in Nat /\ n \in 1 .. k
      /\ \A m \in 1 .. k - 1 : os[m] = IF m < n THEN s.objects[m] ELSE s.objects[m + 1]
  <2>1. /\ RemoveAt(s.objects, n) \in Seq(PanelObjectRecords)
        /\ Len(RemoveAt(s.objects, n)) = Len(s.objects) - 1
        /\ \A m \in 1 .. Len(s.objects) - 1 :
             RemoveAt(s.objects, n)[m] = IF m < n THEN s.objects[m] ELSE s.objects[m + 1]
    BY <1>2, RemoveAtIs
  <2>2. Len(s.objects) \in Nat BY <1>2
  <2> QED BY <2>1, <2>2
<1> HIDE DEF os, fs
<1>5. t \in Drops BY <1>1, <1>3, <1>4 DEF Drops
<1>6. t.objects = os /\ t.nextId = s.nextId BY <1>1 DEF Drops
<1>7. DOMAIN os = 1 .. k - 1 /\ DOMAIN s.objects = 1 .. k BY <1>2, <1>4
<1> HIDE DEF k
<1>8. \A m \in 1 .. k - 1 :
        /\ m < n => m \in 1 .. k /\ os[m] = s.objects[m]
        /\ ~(m < n) => m + 1 \in 1 .. k /\ os[m] = s.objects[m + 1]
  BY <1>4
<1>9. /\ \A i, m \in 1 .. k : s.objects[i].id = s.objects[m].id => i = m
      /\ \A i \in 1 .. k : s.objects[i].id < s.nextId
  BY <1>7 DEF IdsFit
<1>10. IdsFit(os, s.nextId)
  <2>1. ASSUME NEW i \in 1 .. k - 1, NEW m \in 1 .. k - 1, os[i].id = os[m].id
        PROVE  i = m
    <3>1. CASE i < n /\ m < n BY <1>8, <1>9, <2>1, <3>1
    <3>2. CASE i < n /\ ~(m < n)
      <4>1. i = m + 1 BY <1>8, <1>9, <2>1, <3>2
      <4> QED BY <1>4, <3>2, <4>1
    <3>3. CASE ~(i < n) /\ m < n
      <4>1. i + 1 = m BY <1>8, <1>9, <2>1, <3>3
      <4> QED BY <1>4, <3>3, <4>1
    <3>4. CASE ~(i < n) /\ ~(m < n)
      <4>1. i + 1 = m + 1 BY <1>8, <1>9, <2>1, <3>4
      <4> QED BY <4>1
    <3> QED BY <3>1, <3>2, <3>3, <3>4
  <2>2. ASSUME NEW i \in 1 .. k - 1 PROVE os[i].id < s.nextId
    BY <1>8, <1>9
  <2> QED BY <1>7, <2>1, <2>2 DEF IdsFit
<1>11. Ids(os) = Ids(s.objects) \ {o.id}
  <2>1. Ids(os) = {os[m].id : m \in 1 .. k - 1} BY <1>7 DEF Ids
  <2>2. Ids(s.objects) = {s.objects[m].id : m \in 1 .. k} BY <1>7 DEF Ids
  <2>3. ASSUME NEW i \in Ids(os) PROVE i \in Ids(s.objects) \ {o.id}
    <3>1. PICK m \in 1 .. k - 1 : i = os[m].id BY <2>1
    <3>2. CASE m < n
      <4>1. m \in 1 .. k /\ i = s.objects[m].id /\ m # n BY <1>4, <1>8, <3>1, <3>2
      <4> QED BY <1>4, <1>9, <2>2, <4>1
    <3>3. CASE ~(m < n)
      <4>1. m + 1 \in 1 .. k /\ i = s.objects[m + 1].id /\ m + 1 # n
        BY <1>4, <1>8, <3>1, <3>3
      <4> QED BY <1>4, <1>9, <2>2, <4>1
    <3> QED BY <3>2, <3>3
  <2>4. ASSUME NEW i \in Ids(s.objects) \ {o.id} PROVE i \in Ids(os)
    <3>1. PICK m \in 1 .. k : i = s.objects[m].id BY <2>2
    <3>2. m # n BY <3>1
    <3>3. CASE m < n
      <4>1. m \in 1 .. k - 1 BY <1>4, <3>3
      <4>2. os[m] = s.objects[m] BY <1>8, <3>3, <4>1
      <4> QED BY <2>1, <3>1, <4>1, <4>2
    <3>4. CASE m > n
      <4>1. m - 1 \in 1 .. k - 1 /\ ~(m - 1 < n) /\ (m - 1) + 1 = m BY <1>4, <3>4
      <4>2. os[m - 1] = s.objects[m] BY <1>8, <4>1
      <4> QED BY <2>1, <3>1, <4>1, <4>2
    <3> QED BY <1>4, <3>2, <3>3, <3>4
  <2> QED BY <2>3, <2>4
<1>12. ASSUME NEW m \in 1 .. k, m # n PROVE \E i \in 1 .. Len(os) : os[i] = s.objects[m]
  <2>1. CASE m < n
    <3>1. m \in 1 .. k - 1 BY <1>4, <2>1
    <3> QED BY <1>4, <1>8, <2>1, <3>1
  <2>2. CASE m > n
    <3>1. m - 1 \in 1 .. k - 1 /\ ~(m - 1 < n) /\ (m - 1) + 1 = m BY <1>4, <2>2
    <3>2. os[m - 1] = s.objects[m] BY <1>8, <3>1
    <3> QED BY <1>4, <3>1, <3>2
  <2> QED BY <1>4, <1>12, <2>1, <2>2
<1>13. \A m \in 1 .. Len(s.objects) : m # n => \E i \in 1 .. Len(os) : os[i] = s.objects[m]
  BY <1>12 DEF k
<1> QED BY <1>5, <1>6, <1>10, <1>11, <1>13 DEF OneLess

\* A launcher with a file of its own is an object as the others.
LEMMA LauncherAddedIs ==
  ASSUME NEW s \in Drops, IdsFit(s.objects, s.nextId), NEW p \in DropPanels,
         NEW t, t = LauncherAdded(s, p)
  PROVE  OneAdded(s, t)
<1> DEFINE fs == s.files \cup {s.nextId}
           r == [s EXCEPT !.files = fs]
           kind == "launcher"
<1>1. t = ObjectAdded(r, kind, s.nextId, p) BY DEF LauncherAdded
<1>2. s.nextId \in Nat /\ s.files \in SUBSET Locations BY DEF Drops
<1>3. s.nextId \in Locations BY <1>2 DEF Locations
<1>4. fs \in SUBSET Locations BY <1>2, <1>3
<1> HIDE DEF fs
<1>5. r \in Drops BY <1>4 DEF Drops
<1>6. r.objects = s.objects /\ r.nextId = s.nextId BY DEF Drops
<1> HIDE DEF r
<1>7. kind \in ObjectKinds BY DEF ObjectKinds, OwnKinds
<1> HIDE DEF kind
<1>8. IdsFit(r.objects, r.nextId) BY <1>6
<1>9. OneAdded(r, t) BY <1>1, <1>3, <1>5, <1>7, <1>8, ObjectAddedIs
<1> QED BY <1>6, <1>9 DEF OneAdded

\* The same objects are as many.
LEMMA GrownIs ==
  ASSUME NEW s \in Drops, IdsFit(s.objects, s.nextId), NEW t, SameObjects(s, t)
  PROVE  Grown(s, t)
BY DEF SameObjects, Grown

\* A background that is dropped changes no object.
LEMMA DropBackgroundIs ==
  ASSUME NEW s \in Drops, NEW p \in DropPanels, NEW kind
  PROVE  SameObjects(s, DropBackground(s, p, kind))
<1>1. CASE ~settings.backgrounds BY <1>1, FailedIs DEF DropBackground
<1>2. CASE settings.backgrounds
  <2> DEFINE bs == s.backgrounds \cup {p}
             b == kind # "bgimage"
             t == [s EXCEPT !.backgrounds = bs, !.success = b]
  <2>1. DropBackground(s, p, kind) = t BY <1>2 DEF DropBackground
  <2>2. bs \in SUBSET DropPanels /\ b \in BOOLEAN BY DEF Drops
  <2> HIDE DEF bs, b
  <2>3. t \in Drops BY <2>2 DEF Drops
  <2>4. t.objects = s.objects /\ t.nextId = s.nextId BY DEF Drops
  <2> QED BY <2>1, <2>3, <2>4 DEF SameObjects
<1> QED BY <1>1, <1>2

\* Without the layout nothing is added but the places of the desktop.
LEMMA DropUriIs ==
  ASSUME DropsAssumption, NEW s \in Drops, IdsFit(s.objects, s.nextId), NEW p \in DropPanels,
         NEW uri \in UriKinds, NEW t, t = DropUri(s, p, uri)
  PROVE  Grown(s, t) /\ (~settings.writable /\ uri # "place" => SameObjects(s, t))
<1> DEFINE a == LauncherAdded(s, p)
           kind == "launcher"
           b == ObjectAdded(s, kind, SystemFile, p)
<1>1. a \in Drops /\ Grown(s, a)
  <2>1. OneAdded(s, a) BY LauncherAddedIs
  <2> HIDE DEF a
  <2> QED BY <2>1 DEF Grown, OneAdded
<1>2. Grown(s, b)
  <2>1. kind \in ObjectKinds /\ SystemFile \in Locations
    BY DEF Locations, ObjectKinds, OwnKinds
  <2> HIDE DEF kind
  <2>2. OneAdded(s, b) BY <2>1, ObjectAddedIs
  <2> HIDE DEF b
  <2> QED BY <2>2 DEF Grown, OneAdded
<1>3. SameObjects(s, s) BY DEF SameObjects
<1>4. SameObjects(s, Failed(s)) BY FailedIs
<1>5. SameObjects(s, DropBackground(s, p, "bgimage")) BY DropBackgroundIs
<1>6. Grown(s, Succeeded(a))
  <2>1. SameObjects(a, Succeeded(a)) BY <1>1, FailedIs
  <2> HIDE DEF a
  <2> QED BY <1>1, <2>1 DEF SameObjects, Grown
<1>7. t = CASE uri = "place" -> Succeeded(a)
            [] uri = "far image" -> Failed(s)
            [] uri = "image" -> DropBackground(s, p, "bgimage")
            [] uri \in {"link", "file"} /\ settings.writable -> a
            [] uri = "desktop" /\ settings.writable -> b
            [] uri = "program" /\ settings.writable -> s
            [] OTHER -> Failed(s)
  BY DEF DropUri
<1> HIDE DEF a, b
<1>8. CASE uri = "place"
  <2>1. t = Succeeded(a) BY <1>7, <1>8
  <2> QED BY <1>6, <1>8, <2>1
<1>9. CASE uri = "far image"
  <2>1. t = Failed(s) BY <1>7, <1>9
  <2> QED BY <1>4, <2>1, GrownIs
<1>10. CASE uri = "image"
  <2>1. t = DropBackground(s, p, "bgimage") BY <1>7, <1>10
  <2> QED BY <1>5, <2>1, GrownIs
<1>11. CASE uri \in {"link", "file", "desktop", "program"} /\ ~settings.writable
  <2>1. t = Failed(s) BY <1>7, <1>11
  <2> QED BY <1>4, <2>1, GrownIs
<1>12. CASE uri \in {"link", "file"} /\ settings.writable
  <2>1. t = a BY <1>7, <1>12
  <2> QED BY <1>1, <1>12, <2>1
<1>13. CASE uri = "desktop" /\ settings.writable
  <2>1. t = b BY <1>7, <1>13
  <2> QED BY <1>2, <1>13, <2>1
<1>14. CASE uri = "program" /\ settings.writable
  <2>1. t = s BY <1>7, <1>14
  <2> QED BY <1>3, <2>1, GrownIs
<1> QED BY <1>8, <1>9, <1>10, <1>11, <1>12, <1>13, <1>14 DEF UriKinds

\* Nor does a list of files, one after the other, unless it has such a place.
LEMMA DropUrisIs ==
  ASSUME DropsAssumption, NEW s \in Drops, IdsFit(s.objects, s.nextId), NEW p \in DropPanels,
         NEW uris \in Seq(UriKinds), NEW t, t = DropUris(s, p, uris)
  PROVE  /\ Grown(s, t)
         /\ ~settings.writable /\ "place" \notin ToSet(uris) => SameObjects(s, t)
<1> DEFINE n == Len(uris)
           states == {x \in Drops : IdsFit(x.objects, x.nextId)}
           step == [i \in 1 .. n |-> [x \in states |-> DropUri(x, p, uris[i])]]
           Is(f) == f = [i \in 0 .. n |-> IF i = 0 THEN s ELSE DropUri(f[i - 1], p, uris[i])]
           after == CHOOSE f : Is(f)
<1>1. n \in Nat /\ \A i \in 1 .. n : uris[i] \in UriKinds OBVIOUS
<1>2. t = after[n] BY DEF DropUris
<1>3. ASSUME NEW x \in states, NEW i \in 1 .. n
      PROVE  /\ DropUri(x, p, uris[i]) \in states /\ Grown(x, DropUri(x, p, uris[i]))
             /\ ~settings.writable /\ uris[i] # "place" => SameObjects(x, DropUri(x, p, uris[i]))
  <2>1. x \in Drops /\ IdsFit(x.objects, x.nextId) OBVIOUS
  <2>2. /\ Grown(x, DropUri(x, p, uris[i]))
        /\ ~settings.writable /\ uris[i] # "place" => SameObjects(x, DropUri(x, p, uris[i]))
    BY <1>1, <2>1, DropUriIs
  <2> QED BY <2>2 DEF Grown
<1>4. s \in states OBVIOUS
<1> HIDE DEF states
<1>5. step \in Steps(n, states) BY <1>3 DEF Steps
<1>6. PICK g \in [0 .. n -> states] : GoesBy(g, n, s, step) BY <1>1, <1>4, <1>5, RecursionExists
<1>7. g[0] = s /\ \A i \in 1 .. n : g[i] = DropUri(g[i - 1], p, uris[i])
  <2>1. g[0] = s /\ \A i \in 1 .. n : g[i] = step[i][g[i - 1]] BY <1>6 DEF GoesBy
  <2>2. ASSUME NEW i \in 1 .. n PROVE g[i] = DropUri(g[i - 1], p, uris[i])
    <3>1. g[i - 1] \in states BY <1>1, <1>6
    <3> QED BY <2>1, <3>1
  <2> QED BY <2>1, <2>2
<1>8. Is(g)
  <2> DEFINE h == [i \in 0 .. n |-> IF i = 0 THEN s ELSE DropUri(g[i - 1], p, uris[i])]
  <2>1. ASSUME NEW i \in 0 .. n PROVE g[i] = h[i]
    <3>1. CASE i = 0 BY <1>7, <3>1
    <3>2. CASE i # 0
      <4>1. i \in 1 .. n BY <1>1, <3>2
      <4> QED BY <1>7, <3>2, <4>1
    <3> QED BY <3>1, <3>2
  <2>2. g = [i \in 0 .. n |-> g[i]] BY <1>6
  <2> QED BY <2>1, <2>2
<1>9. Is(after)
  <2> HIDE DEF Is
  <2> QED BY <1>8
<1>10. after[0] = s /\ \A i \in 1 .. n : after[i] = DropUri(after[i - 1], p, uris[i])
  <2>0. after = [i \in 0 .. n |-> IF i = 0 THEN s ELSE DropUri(after[i - 1], p, uris[i])]
    BY <1>9
  <2> HIDE DEF after
  <2>1. 0 \in 0 .. n /\ \A i \in 1 .. n : i \in 0 .. n /\ i # 0 BY <1>1
  <2> QED BY <2>0, <2>1
<1> HIDE DEF after, Is, step
<1> DEFINE T == {i \in 0 .. n : /\ after[i] \in states /\ Grown(s, after[i])
                                /\ ~settings.writable /\ "place" \notin ToSet(uris) =>
                                     SameObjects(s, after[i])}
<1>11. 0 \in T
  <2>1. SameObjects(s, s) /\ Grown(s, s) BY DEF SameObjects, Grown
  <2> QED BY <1>1, <1>4, <1>10, <2>1
<1>12. ASSUME NEW i \in 1 .. n, i - 1 \in T PROVE i \in T
  <2> DEFINE a == after[i - 1]
             b == after[i]
  <2>1. /\ a \in states /\ Grown(s, a)
        /\ ~settings.writable /\ "place" \notin ToSet(uris) => SameObjects(s, a)
    BY <1>12
  <2>2. b = DropUri(a, p, uris[i]) BY <1>10
  <2>3. /\ b \in states /\ Grown(a, b)
        /\ ~settings.writable /\ uris[i] # "place" => SameObjects(a, b)
    BY <1>3, <2>1, <2>2
  <2>4. "place" \notin ToSet(uris) => uris[i] # "place" BY <1>1 DEF ToSet
  <2>5. i \in 0 .. n BY <1>1
  <2> HIDE DEF a, b
  <2>6. Grown(s, b) BY <2>1, <2>3 DEF Grown
  <2>7. ~settings.writable /\ "place" \notin ToSet(uris) => SameObjects(s, b)
    BY <2>1, <2>3, <2>4 DEF SameObjects
  <2> QED BY <2>3, <2>5, <2>6, <2>7 DEF b
<1>13. 0 .. n \subseteq T
  <2> HIDE DEF T
  <2> QED BY <1>1, <1>11, <1>12, UpToInduction
<1>14. n \in T BY <1>1, <1>13
<1> QED BY <1>2, <1>14

\* The state that a drop finds.
NowFits == Now \in Drops /\ IdsFit(objects, nextId)

\* What a drop may do to the objects: of t only these are looked at.
LEMMA NowIs == Now.objects = objects /\ Now.nextId = nextId
BY DEF Now

\* The first launcher that has the location of a launcher.
LEMMA FindLauncherIs ==
  ASSUME NowFits, NEW k \in 1 .. Len(objects), objects[k].kind = "launcher",
         NEW n, n = FindLauncher(objects[k].location)
  PROVE  /\ n \in 1 .. Len(objects) /\ objects[n].kind = "launcher"
         /\ objects[n].location = objects[k].location
<1> DEFINE l == objects[k].location
           T == {i \in 1 .. Len(objects) : objects[i].kind = "launcher" /\ objects[i].location = l}
<1>1. n = IF T # {} THEN Min(T) ELSE 0 BY DEF FindLauncher, SelectInSeq
<1>2. objects \in Seq(PanelObjectRecords) BY NowIs DEF NowFits, Drops
<1>3. T \in SUBSET Nat BY <1>2
<1>4. k \in T OBVIOUS
<1>5. n = Min(T) BY <1>1, <1>4
<1>6. n \in T
  <2> HIDE DEF T
  <2> QED BY <1>3, <1>4, <1>5, MinInSet
<1> QED BY <1>6

\* The place of an object in the list.
LEMMA IndexIs ==
  ASSUME NowFits, NEW k \in 1 .. Len(objects), NEW i, i = objects[k].id
  PROVE  Index(i) = k /\ ById(i) = objects[k]
<1> DEFINE T == {m \in 1 .. Len(objects) : objects[m].id = i}
<1>1. objects \in Seq(PanelObjectRecords) BY NowIs DEF NowFits, Drops
<1>2. \A m, n \in 1 .. Len(objects) : objects[m].id = objects[n].id => m = n
  BY <1>1 DEF NowFits, IdsFit
<1>3. T = {k} BY <1>2
<1>4. Index(i) = Min(T)
  <2>1. Index(i) = IF T # {} THEN Min(T) ELSE 0 BY DEF Index, SelectInSeq
  <2> QED BY <1>3, <2>1
<1>5. Index(i) = k
  <2>1. T \in SUBSET Nat BY <1>1
  <2>2. Min(T) \in T
    <3> HIDE DEF T
    <3>1. T # {} BY <1>3
    <3> QED BY <2>1, <3>1, MinInSet
  <2> QED BY <1>3, <1>4, <2>2
<1>6. \A o \in ToSet(objects) : o.id = i <=> o = objects[k]
  <2>1. ToSet(objects) = {objects[m] : m \in 1 .. Len(objects)} BY <1>1 DEF ToSet
  <2> QED BY <1>2, <2>1
<1>7. objects[k] \in ToSet(objects) BY <1>1 DEF ToSet
<1>8. ById(i) = objects[k] BY <1>6, <1>7 DEF ById
<1> QED BY <1>5, <1>8

\* One more object, and the n-th of the first ones taken away.
LEMMA ReplacedIs ==
  ASSUME NowFits, NEW new \in Drops, OneAdded(Now, new), NEW n \in 1 .. Len(objects),
         NEW t, t = Deleted(new, n)
  PROVE  /\ t \in Drops /\ IdsFit(t.objects, t.nextId)
         /\ Ids(t.objects) = (Ids(objects) \ {objects[n].id}) \cup {nextId}
<1>1. objects \in Seq(PanelObjectRecords) /\ nextId \in Nat /\ Len(objects) \in Nat
  BY NowIs DEF NowFits, Drops
<1>2. /\ IdsFit(new.objects, new.nextId) /\ Ids(new.objects) = Ids(objects) \cup {nextId}
      /\ Len(new.objects) = Len(objects) + 1
      /\ \A m \in 1 .. Len(objects) : new.objects[m] = objects[m]
  BY NowIs DEF OneAdded
<1>3. n \in 1 .. Len(new.objects) BY <1>1, <1>2
<1>4. /\ t \in Drops /\ IdsFit(t.objects, t.nextId)
      /\ Ids(t.objects) = Ids(new.objects) \ {new.objects[n].id}
  <2>1. OneLess(new, n, t) BY <1>2, <1>3, DeletedIs
  <2> QED BY <2>1 DEF OneLess
<1>5. objects[n].id # nextId
  <2>1. objects[n] \in PanelObjectRecords BY <1>1
  <2>2. objects[n].id \in Nat BY <2>1 DEF PanelObjectRecords
  <2>3. objects[n].id < nextId BY <1>1 DEF NowFits, IdsFit
  <2> QED BY <1>1, <2>2, <2>3
<1>6. Ids(t.objects) = (Ids(objects) \cup {nextId}) \ {objects[n].id} BY <1>2, <1>4
<1> QED BY <1>4, <1>5, <1>6

\* What the drop of the launcher objects[k] may do.
IconDropped(k, action, t) ==
  /\ t \in Drops /\ IdsFit(t.objects, t.nextId)
  /\ t.objects # objects =>
       /\ settings.writable
       /\ action # "move" => Ids(objects) \subseteq Ids(t.objects)
       /\ action = "move" =>
            \/ HasTwin(objects[k])
            \/ Ids(t.objects) = (Ids(objects) \ {objects[k].id}) \cup {nextId}

\* The drop of a launcher: the first one of its file goes.
LEMMA DropIconIs ==
  ASSUME NowFits, NEW k \in 1 .. Len(objects), objects[k].kind = "launcher",
         NEW p \in DropPanels, NEW action, NEW copied \in BOOLEAN,
         NEW t, t = DropIcon(Now, p, objects[k].location, action, copied)
  PROVE  IconDropped(k, action, t)
<1> DEFINE l == objects[k].location
           n == FindLauncher(l)
           new == LauncherAdded(Now, p)
           del == Deleted(new, n)
<1>1. Now \in Drops /\ IdsFit(Now.objects, Now.nextId) BY NowIs DEF NowFits
<1>2. OneAdded(Now, new) BY <1>1, LauncherAddedIs
<1>3. n \in 1 .. Len(objects) /\ objects[n].kind = "launcher" /\ objects[n].location = l
  BY FindLauncherIs
<1>4. SameObjects(Now, Failed(Now)) BY <1>1, FailedIs
<1>5. objects \in Seq(PanelObjectRecords) BY NowIs DEF NowFits, Drops
<1>6. n # 0 BY <1>3, <1>5
<1>7. t = IF ~settings.writable \/ ~copied THEN Failed(Now)
          ELSE IF action = "move" /\ n # 0 THEN del ELSE new
  BY DEF DropIcon
<1>8. /\ del \in Drops /\ IdsFit(del.objects, del.nextId)
      /\ Ids(del.objects) = (Ids(objects) \ {objects[n].id}) \cup {nextId}
  <2>1. new \in Drops BY <1>2 DEF OneAdded
  <2> HIDE DEF new, n
  <2> QED BY <1>2, <1>3, <2>1, ReplacedIs
<1>9. HasTwin(objects[k]) \/ objects[n] = objects[k]
  <2>1. objects[n] \in ToSet(objects) BY <1>3, <1>5 DEF ToSet
  <2> HIDE DEF n
  <2> QED BY <1>3, <2>1 DEF HasTwin
<1> HIDE DEF new, del, n
<1> USE DEF IconDropped
<1>10. CASE ~settings.writable \/ ~copied
  <2>1. t = Failed(Now) BY <1>7, <1>10
  <2> QED BY <1>1, <1>4, <2>1, NowIs DEF SameObjects
<1>11. CASE settings.writable /\ copied /\ action = "move"
  <2>1. t = del BY <1>6, <1>7, <1>11
  <2> QED BY <1>8, <1>9, <1>11, <2>1
<1>12. CASE settings.writable /\ copied /\ action # "move"
  <2>1. t = new BY <1>7, <1>12
  <2> QED BY <1>2, <1>12, <2>1, NowIs DEF OneAdded
<1> QED BY <1>10, <1>11, <1>12

\* The drop of an action button: the one at its place goes.
LEMMA DropActionIs ==
  ASSUME NowFits, NEW index, NEW p \in DropPanels, NEW action,
         NEW t, t = DropAction(Now, p, index, action)
  PROVE  /\ t \in Drops /\ IdsFit(t.objects, t.nextId)
         /\ t.objects # objects =>
              /\ settings.writable
              /\ action # "move" \/ index \notin 1 .. Len(objects) =>
                   Ids(objects) \subseteq Ids(t.objects)
              /\ action = "move" /\ index \in 1 .. Len(objects) =>
                   Ids(t.objects) = (Ids(objects) \ {objects[index].id}) \cup {nextId}
<1> DEFINE kind == "action"
           new == ObjectAdded(Now, kind, SystemFile, p)
           del == Deleted(new, index)
<1>1. Now \in Drops /\ IdsFit(Now.objects, Now.nextId) BY NowIs DEF NowFits
<1>2. OneAdded(Now, new)
  <2>1. kind \in ObjectKinds /\ SystemFile \in Locations
    BY DEF Locations, ObjectKinds, OwnKinds
  <2> HIDE DEF kind
  <2> QED BY <1>1, <2>1, ObjectAddedIs
<1>3. SameObjects(Now, Failed(Now)) BY <1>1, FailedIs
<1>4. objects \in Seq(PanelObjectRecords) BY NowIs DEF NowFits, Drops
<1>5. t = IF ~settings.writable THEN Failed(Now)
          ELSE IF action = "move" /\ index \in 1 .. Len(objects) THEN del ELSE new
  BY <1>4 DEF DropAction
<1>6. index \in 1 .. Len(objects) =>
        /\ del \in Drops /\ IdsFit(del.objects, del.nextId)
        /\ Ids(del.objects) = (Ids(objects) \ {objects[index].id}) \cup {nextId}
  <2>1. new \in Drops BY <1>2 DEF OneAdded
  <2> HIDE DEF new
  <2> QED BY <1>2, <2>1, ReplacedIs
<1> HIDE DEF new, del
<1>7. CASE ~settings.writable
  <2>1. t = Failed(Now) BY <1>5, <1>7
  <2> QED BY <1>1, <1>3, <2>1, NowIs DEF SameObjects
<1>8. CASE settings.writable /\ action = "move" /\ index \in 1 .. Len(objects)
  <2>1. t = del BY <1>5, <1>8
  <2> QED BY <1>6, <1>8, <2>1
<1>9. CASE settings.writable /\ ~(action = "move" /\ index \in 1 .. Len(objects))
  <2>1. t = new BY <1>5, <1>9
  <2> QED BY <1>2, <1>9, <2>1, NowIs DEF OneAdded
<1> QED BY <1>7, <1>8, <1>9

\* A menu moves to the other panel and stays the object that it was.
LEMMA MoveAppletIs ==
  ASSUME NowFits, NEW index, NEW p \in DropPanels, NEW t, t = MoveApplet(Now, p, index)
  PROVE  /\ t \in Drops /\ IdsFit(t.objects, t.nextId)
         /\ Ids(t.objects) = Ids(objects)
         /\ t.objects # objects => settings.writable
<1>1. Now \in Drops /\ IdsFit(Now.objects, Now.nextId) BY NowIs DEF NowFits
<1>2. objects \in Seq(PanelObjectRecords) BY NowIs DEF NowFits, Drops
<1>3. CASE settings.locked \/ ~settings.writable \/ index \notin DOMAIN objects
  <2>1. t = Failed(Now) BY <1>3 DEF MoveApplet
  <2>2. SameObjects(Now, t) BY <1>1, <2>1, FailedIs
  <2> QED BY <1>1, <2>2, NowIs DEF SameObjects
<1>4. CASE ~settings.locked /\ settings.writable /\ index \in DOMAIN objects
  <2> DEFINE o == [objects[index] EXCEPT !.panel = p]
             os == [objects EXCEPT ![index] = o]
  <2>1. t = [Now EXCEPT !.objects = os] BY <1>4 DEF MoveApplet
  <2>2. index \in 1 .. Len(objects) BY <1>2, <1>4
  <2>3. objects[index] \in PanelObjectRecords BY <1>2, <2>2
  <2>4. o \in PanelObjectRecords /\ o.id = objects[index].id BY <2>3 DEF PanelObjectRecords
  <2> HIDE DEF o
  <2>5. /\ os \in Seq(PanelObjectRecords) /\ Len(os) = Len(objects)
        /\ \A m \in 1 .. Len(objects) : os[m].id = objects[m].id
    BY <1>2, <2>2, <2>4
  <2> HIDE DEF os
  <2>6. t \in Drops BY <1>1, <2>1, <2>5 DEF Drops
  <2>7. t.objects = os /\ t.nextId = nextId BY <1>1, <2>1, NowIs DEF Drops
  <2>8. DOMAIN os = 1 .. Len(objects) /\ DOMAIN objects = 1 .. Len(objects)
    BY <1>2, <2>5
  <2>9. IdsFit(os, nextId) BY <2>5, <2>8 DEF NowFits, IdsFit
  <2>10. Ids(os) = Ids(objects) BY <2>5, <2>8 DEF Ids
  <2> QED BY <1>4, <2>6, <2>7, <2>9, <2>10
<1> QED BY <1>3, <1>4

\* What is dropped anew is added, when the layout may be written.
LEMMA DropNewIs ==
  ASSUME NowFits, NEW kind \in ObjectKinds, NEW p \in DropPanels,
         NEW t, t = DropNew(Now, p, kind)
  PROVE  Grown(Now, t) /\ (t.objects # objects => settings.writable)
<1> DEFINE a == LauncherAdded(Now, p)
           b == ObjectAdded(Now, kind, SystemFile, p)
<1>1. Now \in Drops /\ IdsFit(Now.objects, Now.nextId) BY NowIs DEF NowFits
<1>2. Grown(Now, a)
  <2>1. OneAdded(Now, a) BY <1>1, LauncherAddedIs
  <2> QED BY <2>1 DEF OneAdded, Grown
<1>3. Grown(Now, b)
  <2>1. SystemFile \in Locations BY DEF Locations
  <2>2. OneAdded(Now, b) BY <1>1, <2>1, ObjectAddedIs
  <2> QED BY <2>2 DEF OneAdded, Grown
<1>4. SameObjects(Now, Failed(Now)) BY <1>1, FailedIs
<1>5. SameObjects(Now, Now) BY <1>1 DEF SameObjects
<1>6. t = IF ~settings.writable THEN Failed(Now)
          ELSE CASE kind \in {"link", "folder"} -> a [] kind = "ask" -> Now [] OTHER -> b
  BY DEF DropNew
<1> HIDE DEF a, b
<1>7. CASE ~settings.writable
  <2>1. t = Failed(Now) BY <1>6, <1>7
  <2> QED BY <1>1, <1>4, <2>1, GrownIs, NowIs DEF SameObjects
<1>8. CASE settings.writable /\ kind \in {"link", "folder"}
  <2>1. t = a BY <1>6, <1>8
  <2> QED BY <1>2, <1>8, <2>1
<1>9. CASE settings.writable /\ kind = "ask"
  <2>1. t = Now BY <1>6, <1>9
  <2> QED BY <1>1, <1>5, <1>9, <2>1, GrownIs
<1>10. CASE settings.writable /\ kind \notin {"link", "folder", "ask"}
  <2>1. t = b BY <1>6, <1>10
  <2> QED BY <1>3, <1>10, <2>1
<1> QED BY <1>7, <1>8, <1>9, <1>10

\* What the drop of d gives: the property, of the state t that it makes.
DropIsOf(d, t) ==
  t.objects # objects =>
    /\ ~settings.locked
    /\ settings.writable \/ "place" \in ToSet(d.uris)
    /\ IF d.action = "move" /\ d.kind \in {"launcher", "action"}
       THEN \/ HasTwin(ById(d.obj))
            \/ Ids(t.objects) = (Ids(objects) \ {d.obj}) \cup {nextId}
       ELSE Ids(objects) \subseteq Ids(t.objects)

\* An object that is dragged is there.
DraggedIsThere(d) ==
  d.kind \in OwnKinds =>
    \E k \in 1 .. Len(objects) : objects[k].id = d.obj /\ objects[k].kind = d.kind

\* What a drop does, of whatever kind, is as the property says.
LEMMA DroppedIs ==
  ASSUME DropsAssumption, NowFits, NEW d \in Drags, DraggedIsThere(d), NEW p \in DropPanels,
         NEW copied \in BOOLEAN, NEW t, t = Dropped(d, p, copied)
  PROVE  t \in Drops /\ IdsFit(t.objects, t.nextId) /\ DropIsOf(d, t)
<1>1. Now \in Drops /\ IdsFit(Now.objects, Now.nextId) BY NowIs DEF NowFits
<1>2. d.kind \in ObjectKinds \cup {"uris"} /\ d.uris \in Seq(UriKinds) BY DEF Drags
<1>3. SameObjects(Now, Failed(Now)) BY <1>1, FailedIs
<1>4. objects \in Seq(PanelObjectRecords) BY NowIs DEF NowFits, Drops
<1>5. CASE settings.locked
  <2>1. t = Failed(Now) BY <1>5 DEF Dropped
  <2> QED BY <1>1, <1>3, <2>1, NowIs DEF SameObjects, DropIsOf
<1>6. CASE ~settings.locked
  <2>1. t = CASE d.kind = "uris" -> DropUris(Now, p, d.uris)
              [] d.kind = "launcher" -> DropIcon(Now, p, ById(d.obj).location, d.action, copied)
              [] d.kind = "action" -> DropAction(Now, p, Index(d.obj), d.action)
              [] d.kind = "menu" -> MoveApplet(Now, p, Index(d.obj))
              [] d.kind = "new action" -> DropAction(Now, p, 0, d.action)
              [] d.kind \in BackgroundKinds -> DropBackground(Now, p, d.kind)
              [] OTHER -> DropNew(Now, p, d.kind)
    BY <1>6 DEF Dropped
  <2>2. CASE d.kind = "uris"
    <3>1. t = DropUris(Now, p, d.uris) BY <2>1, <2>2 DEF BackgroundKinds
    <3>2. /\ Grown(Now, t)
          /\ ~settings.writable /\ "place" \notin ToSet(d.uris) => SameObjects(Now, t)
      BY <1>1, <1>2, <3>1, DropUrisIs
    <3> QED BY <1>6, <2>2, <3>2, NowIs DEF Grown, SameObjects, DropIsOf
  <2>3. CASE d.kind = "launcher"
    <3>1. PICK k \in 1 .. Len(objects) : objects[k].id = d.obj /\ objects[k].kind = "launcher"
      BY <2>3 DEF DraggedIsThere, OwnKinds
    <3>2. ById(d.obj) = objects[k] BY <3>1, IndexIs
    <3>3. t = DropIcon(Now, p, objects[k].location, d.action, copied)
      BY <2>1, <2>3, <3>2 DEF BackgroundKinds
    <3>4. IconDropped(k, d.action, t) BY <3>1, <3>3, DropIconIs
    <3> QED BY <1>6, <2>3, <3>1, <3>2, <3>4 DEF DropIsOf, IconDropped
  <2>4. CASE d.kind = "action"
    <3>1. PICK k \in 1 .. Len(objects) : objects[k].id = d.obj /\ objects[k].kind = "action"
      BY <2>4 DEF DraggedIsThere, OwnKinds
    <3>2. Index(d.obj) = k BY <3>1, IndexIs
    <3>3. t = DropAction(Now, p, k, d.action) BY <2>1, <2>4, <3>2 DEF BackgroundKinds
    <3>4. /\ t \in Drops /\ IdsFit(t.objects, t.nextId)
          /\ t.objects # objects =>
              /\ settings.writable
              /\ d.action # "move" => Ids(objects) \subseteq Ids(t.objects)
              /\ d.action = "move" =>
                   Ids(t.objects) = (Ids(objects) \ {objects[k].id}) \cup {nextId}
      BY <3>3, DropActionIs
    <3> QED BY <1>6, <2>4, <3>1, <3>4 DEF DropIsOf
  <2>5. CASE d.kind = "menu"
    <3>1. t = MoveApplet(Now, p, Index(d.obj)) BY <2>1, <2>5 DEF BackgroundKinds
    <3>2. /\ t \in Drops /\ IdsFit(t.objects, t.nextId)
          /\ Ids(t.objects) = Ids(objects)
          /\ t.objects # objects => settings.writable
      BY <3>1, MoveAppletIs
    <3> QED BY <1>6, <2>5, <3>2 DEF DropIsOf
  <2>6. CASE d.kind = "new action"
    <3>1. t = DropAction(Now, p, 0, d.action) BY <2>1, <2>6 DEF BackgroundKinds
    <3>2. 0 \notin 1 .. Len(objects) BY <1>4
    <3>3. /\ t \in Drops /\ IdsFit(t.objects, t.nextId)
          /\ t.objects # objects =>
               settings.writable /\ Ids(objects) \subseteq Ids(t.objects)
      <4> DEFINE z == 0
      <4>1. t = DropAction(Now, p, z, d.action) /\ z \notin 1 .. Len(objects) BY <3>1, <3>2
      <4> HIDE DEF z
      <4> QED BY <4>1, DropActionIs
    <3> QED BY <1>6, <2>6, <3>3 DEF DropIsOf
  <2>7. CASE d.kind \in BackgroundKinds
    <3>1. t = DropBackground(Now, p, d.kind) BY <2>1, <2>7 DEF BackgroundKinds
    <3>2. SameObjects(Now, t) BY <1>1, <3>1, DropBackgroundIs
    <3> QED BY <1>1, <3>2, NowIs DEF SameObjects, DropIsOf
  <2>8. CASE /\ d.kind \in ObjectKinds \ BackgroundKinds
             /\ d.kind \notin {"launcher", "action", "menu", "new action"}
    <3>1. t = DropNew(Now, p, d.kind)
      BY <2>1, <2>8 DEF ObjectKinds, OwnKinds, NewKinds, BackgroundKinds
    <3>2. Grown(Now, t) /\ (t.objects # objects => settings.writable)
      BY <2>8, <3>1, DropNewIs
    <3> QED BY <1>6, <2>8, <3>2, NowIs DEF Grown, DropIsOf
  <2> QED BY <1>2, <2>2, <2>3, <2>4, <2>5, <2>6, <2>7, <2>8
<1> QED BY <1>5, <1>6

-----------------------------------------------------------------------------
(* The invariant. *)

\* The objects fit, and what is dragged is one of them or comes from elsewhere.
DropsFit ==
  /\ NowFits
  /\ settings \in [locked : BOOLEAN, writable : BOOLEAN, backgrounds : BOOLEAN]
  /\ carried \in Drags \cup {NoDrag}
  /\ over \in DropPanels \cup {NoDrag}
  /\ carried # NoDrag => DraggedIsThere(carried)
  /\ dropSteps \in Nat

\* The objects at the start have the ids 1, 2, and so on.
LEMMA DropsInitHolds ==
  ASSUME DropsAssumption, DropsInit
  PROVE  DropsFit
<1> DEFINE k == Len(FirstObjects)
           ls == {FirstObjects[n].location : n \in DOMAIN FirstObjects}
           S == [kind : ObjectKinds, panel : DropPanels, location : ls]
<1>1. FirstObjects \in Seq(S) /\ k \in Nat /\ DOMAIN FirstObjects = 1 .. k
  <2>1. FirstObjects \in Seq(S) BY DEF DropsAssumption
  <2> HIDE DEF S
  <2> QED BY <2>1
<1>2. objects = [n \in 1 .. k |->
        [id |-> n, kind |-> FirstObjects[n].kind, location |-> FirstObjects[n].location,
         panel |-> FirstObjects[n].panel]]
  BY <1>1 DEF DropsInit
<1>3. \A n \in 1 .. k : objects[n] \in PanelObjectRecords /\ objects[n].id = n
  <2> SUFFICES ASSUME NEW n \in 1 .. k
               PROVE  objects[n] \in PanelObjectRecords /\ objects[n].id = n
    OBVIOUS
  <2>0. FirstObjects[n] \in S
    <3> HIDE DEF S
    <3> QED BY <1>1
  <2>1. FirstObjects[n].kind \in ObjectKinds /\ FirstObjects[n].panel \in DropPanels
    BY <2>0
  <2>2. FirstObjects[n].location \in Locations BY <2>0 DEF Locations
  <2>3. n \in Nat \ {0} BY <1>1
  <2> QED BY <1>2, <2>1, <2>2, <2>3 DEF PanelObjectRecords
<1>4. objects \in Seq(PanelObjectRecords) /\ Len(objects) = k BY <1>1, <1>2, <1>3
<1>5. nextId = k + 1 /\ nextId \in Nat \ {0} BY <1>1 DEF DropsInit
<1>6. Now \in Drops BY <1>4, <1>5 DEF Now, Drops, DropsInit
<1>7. IdsFit(objects, nextId)
  <2>1. DOMAIN objects = 1 .. k BY <1>4, <1>1
  <2>2. \A n \in 1 .. k : objects[n].id < nextId BY <1>1, <1>3, <1>5
  <2> QED BY <1>3, <2>1, <2>2 DEF IdsFit
<1> QED BY <1>6, <1>7 DEF DropsInit, DropsFit, NowFits

\* An object of the panel begins to be dragged.
LEMMA BeginOwnFits ==
  ASSUME DropsAssumption, DropsFit, NEW n \in DOMAIN objects, NEW a \in Actions,
         BeginOwn(objects[n], a)
  PROVE  DropsFit'
<1> DEFINE uris == <<>>
           d == Drag(objects[n].kind, objects[n].id, uris, a)
<1>1. carried' = d /\ objects[n].kind \in OwnKinds /\ dropSteps' = dropSteps + 1
  BY DEF BeginOwn, DropStep
<1>2. UNCHANGED <<objects, files, settings, over, backgrounds, nextId>> BY DEF BeginOwn
<1>3. NowFits' BY <1>2 DEF DropsFit, NowFits, Now
<1>4. objects \in Seq(PanelObjectRecords) BY NowIs DEF DropsFit, NowFits, Drops
<1>5. n \in 1 .. Len(objects) BY <1>4
<1>6. objects[n] \in PanelObjectRecords BY <1>4, <1>5
<1>7. objects[n].id \in Nat BY <1>6 DEF PanelObjectRecords
<1>8. uris \in Seq(UriKinds) OBVIOUS
<1> HIDE DEF uris
<1>9. /\ d \in Drags /\ d.kind = objects[n].kind /\ d.obj = objects[n].id
  BY <1>1, <1>7, <1>8 DEF Drag, Drags, ObjectKinds
<1> HIDE DEF d
<1>10. DraggedIsThere(carried)' BY <1>1, <1>2, <1>5, <1>9 DEF DraggedIsThere
<1> QED BY <1>1, <1>2, <1>3, <1>9, <1>10 DEF DropsFit

\* Something else begins to be dragged.
LEMMA BeginNewFits ==
  ASSUME DropsAssumption, DropsFit, NEW kind \in NewKinds, BeginNew(kind)
  PROVE  DropsFit'
<1> DEFINE uris == <<>>
           copy == "copy"
           z == 0
           d == Drag(kind, z, uris, copy)
<1>1. carried' = d /\ dropSteps' = dropSteps + 1 BY DEF BeginNew, DropStep
<1>2. UNCHANGED <<objects, files, settings, over, backgrounds, nextId>> BY DEF BeginNew
<1>3. NowFits' BY <1>2 DEF DropsFit, NowFits, Now
<1>4. uris \in Seq(UriKinds) /\ copy \in Actions /\ z \in Nat BY DEF Actions
<1> HIDE DEF uris, copy, z
<1>5. d \in Drags /\ d.kind = kind BY <1>4 DEF Drag, Drags, ObjectKinds
<1>6. kind \notin OwnKinds BY DEF OwnKinds, NewKinds
<1> HIDE DEF d
<1>7. DraggedIsThere(carried)' BY <1>1, <1>5, <1>6 DEF DraggedIsThere
<1> QED BY <1>1, <1>2, <1>3, <1>5, <1>7 DEF DropsFit

\* Files begin to be dragged.
LEMMA BeginUrisFits ==
  ASSUME DropsAssumption, DropsFit, NEW uris \in UriLists, BeginUris(uris)
  PROVE  DropsFit'
<1> DEFINE copy == "copy"
           kind == "uris"
           z == 0
           d == Drag(kind, z, uris, copy)
<1>1. carried' = d /\ dropSteps' = dropSteps + 1 BY DEF BeginUris, DropStep
<1>2. UNCHANGED <<objects, files, settings, over, backgrounds, nextId>> BY DEF BeginUris
<1>3. NowFits' BY <1>2 DEF DropsFit, NowFits, Now
<1>4. uris \in Seq(UriKinds) BY DEF DropsAssumption
<1>5. copy \in Actions /\ z \in Nat BY DEF Actions
<1>6. kind \notin OwnKinds /\ kind \in ObjectKinds \cup {"uris"} BY DEF OwnKinds
<1> HIDE DEF kind, copy, z
<1>7. d \in Drags /\ d.kind = kind BY <1>4, <1>5, <1>6 DEF Drag, Drags
<1> HIDE DEF d
<1>8. DraggedIsThere(carried)' BY <1>1, <1>6, <1>7 DEF DraggedIsThere
<1> QED BY <1>1, <1>2, <1>3, <1>7, <1>8 DEF DropsFit

\* The panel below the drag says that it is welcome, or it ends.
LEMMA DragMotionFits ==
  ASSUME DropsFit, (\E p \in DropPanels : DragMotion(p)) \/ LeaveAndEnd
  PROVE  DropsFit'
<1>1. UNCHANGED <<objects, files, settings, backgrounds, nextId, dropSteps>>
  BY DEF DragMotion, LeaveAndEnd
<1>2. NowFits' BY <1>1 DEF DropsFit, NowFits, Now
<1>3. CASE \E p \in DropPanels : DragMotion(p)
  <2>1. PICK p \in DropPanels : DragMotion(p) BY <1>3
  <2>2. UNCHANGED carried /\ over' \in DropPanels \cup {NoDrag} BY <2>1 DEF DragMotion
  <2> QED BY <1>1, <1>2, <2>2 DEF DropsFit, DraggedIsThere
<1>4. CASE LeaveAndEnd
  <2>1. carried' = NoDrag /\ over' = NoDrag BY <1>4 DEF LeaveAndEnd
  <2> QED BY <1>1, <1>2, <2>1 DEF DropsFit
<1> QED BY <1>3, <1>4

\* A drop makes a state that fits, in which the objects are as the property says.
LEMMA DropFits ==
  ASSUME DropsAssumption, DropsFit, NEW copied \in BOOLEAN, Drop(copied)
  PROVE  /\ DropsFit'
         /\ objects' # objects =>
              /\ ~settings.locked
              /\ settings.writable \/ "place" \in ToSet(carried.uris)
              /\ IF carried.action = "move" /\ carried.kind \in {"launcher", "action"}
                 THEN \/ HasTwin(ById(carried.obj))
                      \/ Ids(objects') = (Ids(objects) \ {carried.obj}) \cup {nextId}
                 ELSE Ids(objects) \subseteq Ids(objects')
<1> DEFINE t == Dropped(carried, over, copied)
<1>1. /\ carried # NoDrag /\ over # NoDrag
      /\ objects' = t.objects /\ files' = t.files /\ backgrounds' = t.backgrounds
      /\ nextId' = t.nextId /\ carried' = NoDrag /\ over' = NoDrag
      /\ UNCHANGED <<settings, dropSteps>>
  BY DEF Drop
<1>2. carried \in Drags /\ over \in DropPanels BY <1>1 DEF DropsFit
<1>3. NowFits /\ DraggedIsThere(carried) BY <1>1 DEF DropsFit
<1>4. t \in Drops /\ IdsFit(t.objects, t.nextId) /\ DropIsOf(carried, t)
  BY <1>2, <1>3, DroppedIs
<1> HIDE DEF t
<1>5. Now' \in Drops BY <1>1, <1>4 DEF Now, Drops
<1>6. NowFits'
  <2>1. Drops' = Drops BY DEF Drops
  <2> QED BY <1>1, <1>4, <1>5, <2>1 DEF NowFits
<1>7. DropsFit' BY <1>1, <1>6 DEF DropsFit
<1> QED BY <1>1, <1>4, <1>7 DEF DropIsOf

\* A setting changes.
LEMMA ChangeSettingFits ==
  ASSUME DropsFit, NEW k \in {"locked", "writable", "backgrounds"}, ChangeSetting(k)
  PROVE  DropsFit'
<1>1. /\ dropSteps' = dropSteps + 1
      /\ settings' = [settings EXCEPT ![k] = ~settings[k]]
      /\ UNCHANGED <<objects, files, carried, over, backgrounds, nextId>>
  BY DEF ChangeSetting, DropStep
<1>2. NowFits' BY <1>1 DEF DropsFit, NowFits, Now
<1>3. settings' \in [locked : BOOLEAN, writable : BOOLEAN, backgrounds : BOOLEAN]
  BY <1>1 DEF DropsFit
<1> QED BY <1>1, <1>2, <1>3 DEF DropsFit, DraggedIsThere

\* An object goes, and a drag of it with it.
LEMMA RemoveObjectFits ==
  ASSUME DropsFit, NEW n \in DOMAIN objects, RemoveObject(n)
  PROVE  DropsFit'
<1> DEFINE t == Deleted(Now, n)
<1>1. /\ objects' = t.objects /\ files' = t.files /\ dropSteps' = dropSteps + 1
      /\ IF carried # NoDrag /\ carried.obj = objects[n].id
         THEN carried' = NoDrag /\ over' = NoDrag ELSE UNCHANGED <<carried, over>>
      /\ UNCHANGED <<settings, backgrounds, nextId>>
  BY DEF RemoveObject, DropStep
<1>2. Now \in Drops /\ IdsFit(Now.objects, Now.nextId) BY NowIs DEF DropsFit, NowFits
<1>3. objects \in Seq(PanelObjectRecords) BY <1>2, NowIs DEF Drops
<1>4. n \in 1 .. Len(Now.objects) BY <1>3, NowIs
<1>5. OneLess(Now, n, t) BY <1>2, <1>4, DeletedIs
<1> HIDE DEF t
<1>6. t \in Drops /\ IdsFit(t.objects, nextId) BY <1>5, NowIs DEF OneLess
<1>7. Now' \in Drops
  <2>1. backgrounds \in SUBSET DropPanels /\ nextId \in Nat \ {0}
    BY <1>2 DEF Now, Drops
  <2> QED BY <1>1, <1>6, <2>1 DEF Now, Drops
<1>8. NowFits'
  <2>1. Drops' = Drops BY DEF Drops
  <2> QED BY <1>1, <1>6, <1>7, <2>1 DEF NowFits
<1>9. carried' # NoDrag => DraggedIsThere(carried)'
  <2> SUFFICES ASSUME carried' # NoDrag, carried'.kind \in OwnKinds
               PROVE  \E k \in 1 .. Len(objects') :
                        objects'[k].id = carried'.obj /\ objects'[k].kind = carried'.kind
    BY DEF DraggedIsThere
  <2>1. UNCHANGED carried /\ carried.obj # objects[n].id BY <1>1
  <2>2. PICK k \in 1 .. Len(objects) :
          objects[k].id = carried.obj /\ objects[k].kind = carried.kind
    BY <2>1 DEF DropsFit, DraggedIsThere
  <2>3. k # n BY <2>1, <2>2
  <2>4. PICK i \in 1 .. Len(t.objects) : t.objects[i] = objects[k]
    BY <1>5, <2>2, <2>3, NowIs DEF OneLess
  <2> QED BY <1>1, <2>1, <2>2, <2>4
<1>10. carried' \in Drags \cup {NoDrag} /\ over' \in DropPanels \cup {NoDrag}
  BY <1>1 DEF DropsFit
<1> QED BY <1>1, <1>8, <1>9, <1>10 DEF DropsFit

\* A step keeps the invariant, and only a drop changes the objects for nothing.
LEMMA DropsNextHolds ==
  ASSUME DropsAssumption, DropsFit, [DropsNext]_dropVars
  PROVE  /\ DropsFit'
         /\ UNCHANGED dropSteps /\ objects' # objects =>
              /\ ~settings.locked
              /\ settings.writable \/ "place" \in ToSet(carried.uris)
              /\ IF carried.action = "move" /\ carried.kind \in {"launcher", "action"}
                 THEN \/ HasTwin(ById(carried.obj))
                      \/ Ids(objects') = (Ids(objects) \ {carried.obj}) \cup {nextId}
                 ELSE Ids(objects) \subseteq Ids(objects')
<1>0. dropSteps \in Nat BY DEF DropsFit
<1>1. CASE \E n \in DOMAIN objects : RemoveObject(n)
  <2>1. PICK n \in DOMAIN objects : RemoveObject(n) BY <1>1
  <2>2. dropSteps' = dropSteps + 1 BY <2>1 DEF RemoveObject, DropStep
  <2>3. DropsFit' BY <2>1, RemoveObjectFits
  <2> QED BY <1>0, <2>2, <2>3
<1>2. CASE \E n \in DOMAIN objects : \E a \in Actions : BeginOwn(objects[n], a)
  <2>1. PICK n \in DOMAIN objects : \E a \in Actions : BeginOwn(objects[n], a) BY <1>2
  <2>2. DropsFit' BY <2>1, BeginOwnFits
  <2>3. UNCHANGED objects BY <2>1 DEF BeginOwn
  <2> QED BY <2>2, <2>3
<1>3. CASE \E k \in NewKinds : BeginNew(k)
  <2>1. DropsFit' BY <1>3, BeginNewFits
  <2>2. UNCHANGED objects BY <1>3 DEF BeginNew
  <2> QED BY <2>1, <2>2
<1>4. CASE \E u \in UriLists : BeginUris(u)
  <2>1. DropsFit' BY <1>4, BeginUrisFits
  <2>2. UNCHANGED objects BY <1>4 DEF BeginUris
  <2> QED BY <2>1, <2>2
<1>5. CASE (\E p \in DropPanels : DragMotion(p)) \/ LeaveAndEnd
  <2>1. DropsFit' BY <1>5, DragMotionFits
  <2>2. UNCHANGED objects BY <1>5 DEF DragMotion, LeaveAndEnd
  <2> QED BY <2>1, <2>2
<1>6. CASE \E c \in BOOLEAN : Drop(c) BY <1>6, DropFits
<1>7. CASE \E k \in {"locked", "writable", "backgrounds"} : ChangeSetting(k)
  <2>1. DropsFit' BY <1>7, ChangeSettingFits
  <2>2. UNCHANGED objects BY <1>7 DEF ChangeSetting
  <2> QED BY <2>1, <2>2
<1>8. CASE UNCHANGED dropVars
  BY <1>8 DEF dropVars, DropsFit, NowFits, Now, DraggedIsThere
<1> QED BY <1>1, <1>2, <1>3, <1>4, <1>5, <1>6, <1>7, <1>8 DEF DropsNext

\* What a drop changes of the objects is of what was dragged: a drop that moves
\* takes that one away and puts one in its place, and the others take nothing.
THEOREM DropsAreTheirs == DropsAssumption /\ DropsSpec => DropsAreOfDragged
<1> SUFFICES ASSUME DropsAssumption PROVE DropsSpec => DropsAreOfDragged OBVIOUS
<1> DEFINE Body ==
  UNCHANGED dropSteps /\ objects' # objects =>
       /\ ~settings.locked
       /\ settings.writable \/ "place" \in ToSet(carried.uris)
       /\ IF carried.action = "move" /\ carried.kind \in {"launcher", "action"}
          THEN \/ HasTwin(ById(carried.obj))
               \/ Ids(objects') = (Ids(objects) \ {carried.obj}) \cup {nextId}
          ELSE Ids(objects) \subseteq Ids(objects')
<1>1. DropsInit => DropsFit BY DropsInitHolds
<1>2. DropsFit /\ [DropsNext]_dropVars => DropsFit' BY DropsNextHolds
<1>3. DropsFit /\ [DropsNext]_dropVars => [Body]_dropVars BY DropsNextHolds
<1> HIDE DEF Body, DropsFit
<1>4. DropsSpec => [][Body]_dropVars BY <1>1, <1>2, <1>3, PTL DEF DropsSpec
<1> QED BY <1>4 DEF Body, DropsAreOfDragged

-----------------------------------------------------------------------------
(* The three together.                                                       *)

\* What is shown is what the next session makes of the settings and the files
\* (KeptAsShown): the launcher, and the place of the panel.
THEOREM KeptIsShown == KeptAssumption /\ KeptSpec => []KeptAsShown
<1>1. LauncherAssumption /\ LauncherSpec => []LauncherIsStored BY LauncherIsKept
<1>2. MoveAssumption /\ MoveSpec => [](OnOneMonitor /\ PlaceIsSaved) BY PanelOnOneMonitor
<1>3. LauncherIsStored /\ OnOneMonitor /\ PlaceIsSaved => KeptAsShown BY DEF KeptAsShown
<1>4. ASSUME KeptAssumption PROVE KeptSpec => []KeptAsShown
  <2>1. LauncherAssumption /\ MoveAssumption BY <1>4 DEF KeptAssumption
  <2>2. LauncherSpec => []LauncherIsStored BY <1>1, <2>1
  <2>3. MoveSpec => [](OnOneMonitor /\ PlaceIsSaved) BY <1>2, <2>1
  <2> QED BY <1>3, <2>2, <2>3, PTL DEF KeptSpec
<1> QED BY <1>4

\* The user gets back what he takes back, and moves what he drags (UserGetsBack):
\* Revert, Escape and drops.
THEOREM GetsBack == KeptAssumption /\ KeptSpec => UserGetsBack
BY RevertRestores, EscapeRestores, DropsAreTheirs DEF KeptAssumption, KeptSpec, UserGetsBack
=============================================================================
