------------------------- MODULE AppletParts_proofs -------------------------
(***************************************************************************)
(* Proofs about the parts that run beside the panel's frames: the          *)
(* factories in the panel's process (AppletFactories), an applet's own     *)
(* side of the conversation with the panel (AppletLibrary), the            *)
(* notification area, and the clock's places and calendar.                 *)
(*                                                                         *)
(* The factories, for any number of frames and of factory objects, and any *)
(* Wrap that is larger than the number of frames: CountExact by itself is  *)
(* not inductive: before the module is loaded the first activation sets    *)
(* the count to one whatever it was, so nothing may be held then.          *)
(* OneFactory rests on CountExact: an object is made when the count is     *)
(* zero, so it must be known that no frame is served then, and that the    *)
(* object of the frames before is gone with the last of them.              *)
(*                                                                         *)
(* The library, for any number of messages that wait and of changes: an    *)
(* applet and its panel agree once all messages are handled.  While        *)
(* messages wait, each property of the one side is on its way to the       *)
(* other: the last message about it has the value that was set, and if     *)
(* there is none the other side has that value.  The background needs more *)
(* than that, because what the applet reads may be freed meanwhile.        *)
(*                                                                         *)
(* The notification area, for any trays, windows and roles: a tray's icons *)
(* are in order because a new one goes behind every one of a lower role    *)
(* and what is removed disturbs no order.                                  *)
(*                                                                         *)
(* The places, for any list, zones and files: a place is current only      *)
(* while somebody holds it, and what holds it is stored with the list.     *)
(*                                                                         *)
(* The calendar, for any calendars, entries and months: of every entry a   *)
(* query asked for, the last word of the server is on its way to the query *)
(* or is what the query has; and the last query of every calendar that     *)
(* answers is of the selected month, unless it failed.                     *)
(***************************************************************************)
EXTENDS AppletParts, SequenceLemmas

-----------------------------------------------------------------------------
(* The factories. *)

\* Who serves: every applet is of the object at the path, which exists.
ServedByExported ==
  /\ exported \notin onBus /\ onBus \subseteq made
  /\ exported \in made \cup {NoObject}
  /\ \A f \in In("live") : frame[f].of = exported /\ exported \in alive

\* Before the module is loaded nothing was activated.
UnloadedIsUnused == changed = 0 /\ ~module => Held = {} /\ In("lost") = {}

\* There is one object at most, and none when no frame needs one.
AtMostOne ==
  changed = 0 =>
    /\ \A o, p \in alive : o = p
    /\ Held = {} /\ In("lost") = {} => alive = {}

FactoryInv == TypeOK /\ ServedByExported /\ UnloadedIsUnused /\ CountExact /\ AtMostOne

\* Invariant and the condition of a next step.
Runs == FactoryInv /\ In("lost") = {}

-----------------------------------------------------------------------------
\* The frames that count are finite and fewer than Wrap.
LEMMA HeldFinite ==
  /\ IsFiniteSet(Held) /\ Cardinality(Held) \in Nat
  /\ Cardinality(Held) <= Cardinality(Frames) /\ Cardinality(Frames) \in Nat
<1>1. Held \subseteq Frames BY DEF Held, In
<1> QED BY <1>1, FrameAssumption, FS_Subset, FS_CardinalityType

LEMMA HeldFinitePrimed ==
  IsFiniteSet(Held') /\ Cardinality(Held') \in Nat /\ Cardinality(Held') <= Cardinality(Frames)
<1>1. Held' \subseteq Frames BY DEF Held, In
<1> QED BY <1>1, FrameAssumption, FS_Subset, FS_CardinalityType

\* The count fits.
LEMMA WrapPositive == Wrap \in Nat /\ Wrap > 0
<1>1. Cardinality(Frames) \in Nat BY FrameAssumption, FS_CardinalityType
<1> QED BY <1>1, WrapAssumption

LEMMA FactoryInitInv == Init => FactoryInv
<1> SUFFICES ASSUME Init PROVE FactoryInv OBVIOUS
<1>1. Held = {} /\ In("lost") = {} /\ In("live") = {}
  BY DEF Init, Held, In, Free
<1>2. TypeOK
  <2>1. count \in 0 .. Wrap - 1 /\ changed \in 0 .. MaxChanges
    BY WrapPositive, BoundAssumption DEF Init
  <2> QED BY <2>1 DEF Init, TypeOK, Free, States
<1>3. CountExact BY <1>1, FS_EmptySet DEF Init, CountExact
<1> QED BY <1>1, <1>2, <1>3 DEF FactoryInv, Init, ServedByExported, UnloadedIsUnused, AtMostOne

-----------------------------------------------------------------------------
\* A free frame is loaded.
LEMMA LoadInv ==
  ASSUME Runs, NEW f \in Frames, Load(f)
  PROVE  FactoryInv'
<1> USE DEF Runs, FactoryInv
<1>1. /\ Held' = Held \cup {f} /\ f \notin Held
      /\ In("lost")' = {} /\ In("live")' = In("live")
      /\ \A g \in In("live") : frame'[g] = frame[g]
  BY DEF Load, TypeOK, Held, In
<1>2. Cardinality(Held') = Cardinality(Held) + 1
  BY <1>1, HeldFinite, FS_AddElement
<1>3. 1 < Wrap /\ Cardinality(Held) + 1 < Wrap /\ Wrap \in Nat
  BY <1>2, HeldFinite, HeldFinitePrimed, WrapAssumption
<1>4. TypeOK'
  <2>1. count' \in 0 .. Wrap - 1
    BY <1>3 DEF Load, Activated, TypeOK
  <2>2. alive' \subseteq made' /\ made' \subseteq Objects /\ onBus' \subseteq Objects
    BY DEF Load, Activated, ActivateApplet, TypeOK
  <2> QED BY <2>1, <2>2 DEF Load, Activated, TypeOK, States
<1>5. ServedByExported'
  BY <1>1, ObjectAssumption DEF ServedByExported, Load, Activated, ActivateApplet, TypeOK
<1>6. UnloadedIsUnused'
  BY DEF UnloadedIsUnused, Load, Activated
<1>7. CountExact'
  <2> SUFFICES ASSUME changed = 0 PROVE count' = Cardinality(Held')
    BY DEF CountExact, Load
  <2>1. count = Cardinality(Held) BY DEF CountExact
  <2>2. CASE module BY <1>2, <1>3, <2>1, <2>2, HeldFinite DEF Load, Activated
  <2>3. CASE ~module
    <3>1. Cardinality(Held) = 0 BY <2>3, FS_EmptySet DEF UnloadedIsUnused
    <3> QED BY <1>2, <2>3, <3>1 DEF Load, Activated
  <2> QED BY <2>2, <2>3
<1>8. AtMostOne'
  <2> SUFFICES ASSUME changed = 0 PROVE \A o, p \in alive' : o = p
    BY <1>1 DEF AtMostOne, Load
  <2>1. CASE module /\ count # 0 BY <2>1 DEF AtMostOne, Load, Activated
  <2>2. CASE ~(module /\ count # 0)
    <3>1. Held = {}
      BY <2>2, HeldFinite, FS_EmptySet DEF CountExact, UnloadedIsUnused
    <3>2. alive = {} BY <3>1 DEF AtMostOne
    <3> QED BY <2>2, <3>2 DEF Load, Activated, ActivateApplet
  <2> QED BY <2>1, <2>2
<1> QED BY <1>4, <1>5, <1>6, <1>7, <1>8

\* A factory object is on the bus, or gives up when the name is owned already.
LEMMA BusAcquiredInv ==
  ASSUME Runs, NEW o \in Objects, BusAcquired(o)
  PROVE  FactoryInv'
<1> USE DEF Runs, FactoryInv
<1>1. Held' = Held /\ In("lost")' = In("lost") /\ In("live")' = In("live")
  BY DEF BusAcquired, Held, In
<1>2. TypeOK' BY DEF BusAcquired, TypeOK
<1>3. ServedByExported'
  <2>1. exported # NoObject \/ In("live") = {}
    BY ObjectAssumption DEF ServedByExported, TypeOK
  <2>2. exported' \notin onBus' /\ onBus' \subseteq made' /\ exported' \in made' \cup {NoObject}
    BY DEF ServedByExported, BusAcquired
  <2>3. ASSUME NEW f \in In("live") PROVE frame'[f].of = exported' /\ exported' \in alive'
    BY <2>1, <2>3 DEF ServedByExported, BusAcquired
  <2> QED BY <1>1, <2>2, <2>3 DEF ServedByExported
<1>4. UnloadedIsUnused' BY <1>1 DEF UnloadedIsUnused, BusAcquired
<1>5. CountExact' BY <1>1 DEF CountExact, BusAcquired
<1>6. AtMostOne' BY <1>1 DEF AtMostOne, BusAcquired
<1> QED BY <1>2, <1>3, <1>4, <1>5, <1>6

\* The request for an applet is sent.
LEMMA AskInv ==
  ASSUME Runs, NEW f \in Frames, Ask(f)
  PROVE  FactoryInv'
<1> USE DEF Runs, FactoryInv
<1>1. /\ Held' = Held /\ In("lost")' = In("lost") /\ In("live")' = In("live")
      /\ \A g \in In("live") : frame'[g] = frame[g]
  BY DEF Ask, TypeOK, Held, In
<1>2. TypeOK' BY DEF Ask, TypeOK, States
<1>3. ServedByExported' BY <1>1 DEF ServedByExported, Ask
<1>4. UnloadedIsUnused' BY <1>1 DEF UnloadedIsUnused, Ask
<1>5. CountExact' BY <1>1 DEF CountExact, Ask
<1>6. AtMostOne' BY <1>1 DEF AtMostOne, Ask
<1> QED BY <1>2, <1>3, <1>4, <1>5, <1>6

\* The request is served, or reaches an object that is freed.
LEMMA ServeInv ==
  ASSUME Runs, NEW f \in Frames, Serve(f)
  PROVE  FactoryInv'
<1> USE DEF Runs, FactoryInv
<1>1. f \in Held BY DEF Serve, Held, In
<1>2. TypeOK' BY DEF Serve, TypeOK, States
<1>3. CASE exported \in alive
  <2>1. /\ Held' = Held /\ In("lost")' = {} /\ In("live")' = In("live") \cup {f}
        /\ frame'[f].of = exported
        /\ \A g \in In("live") : frame'[g] = frame[g]
    BY <1>3 DEF Serve, TypeOK, Held, In
  <2>2. ServedByExported' BY <1>3, <2>1 DEF ServedByExported, Serve
  <2>3. UnloadedIsUnused' BY <1>1, <2>1 DEF UnloadedIsUnused, Serve
  <2>4. CountExact' BY <2>1 DEF CountExact, Serve
  <2>5. AtMostOne' BY <2>1 DEF AtMostOne, Serve
  <2> QED BY <1>2, <2>2, <2>3, <2>4, <2>5
<1>4. CASE exported \notin alive
  <2>1. In("lost")' # {} /\ In("live")' = In("live")
    BY <1>4 DEF Serve, TypeOK, In
  <2>2. \A g \in In("live") : frame'[g] = frame[g]
    BY DEF Serve, TypeOK, In
  <2>3. ServedByExported' BY <2>1, <2>2 DEF ServedByExported, Serve
  <2>4. UnloadedIsUnused' BY <1>1 DEF UnloadedIsUnused, Serve
  <2>5. CountExact' BY <2>1 DEF CountExact
  <2>6. AtMostOne' BY <2>1 DEF AtMostOne, Serve
  <2> QED BY <1>2, <2>3, <2>4, <2>5, <2>6
<1> QED BY <1>3, <1>4

\* A frame with an applet goes, and with the last one the factory object.
LEMMA RemoveInv ==
  ASSUME Runs, NEW f \in Frames, RemoveApplet(f)
  PROVE  FactoryInv'
<1> USE DEF Runs, FactoryInv
<1>1. /\ Held' = Held \ {f} /\ f \in Held
      /\ In("lost")' = {} /\ In("live")' = In("live") \ {f} /\ f \in In("live")
      /\ \A g \in In("live") \ {f} : frame'[g] = frame[g]
  BY DEF RemoveApplet, TypeOK, Held, In, Free
<1>2. Cardinality(Held') = Cardinality(Held) - 1 /\ Cardinality(Held) > 0
  BY <1>1, HeldFinite, HeldFinitePrimed, FS_RemoveElement
<1>3. frame[f].of = exported /\ exported \in alive
  BY <1>1 DEF ServedByExported
<1>4. Wrap \in Nat /\ Cardinality(Frames) < Wrap /\ Wrap > 1
  BY <1>2, HeldFinite, WrapAssumption
<1>5. TypeOK'
  <2>1. count' \in 0 .. Wrap - 1 BY <1>4 DEF RemoveApplet, Deactivated, TypeOK
  <2>2. alive' \subseteq made' /\ made' \subseteq Objects
    BY DEF RemoveApplet, TypeOK
  <2> QED BY <2>1, <2>2 DEF RemoveApplet, TypeOK, Free, States
<1>6. ServedByExported'
  <2>1. ASSUME NEW g \in In("live") \ {f} PROVE exported \in alive'
    <3>1. g \in Applets(exported) BY DEF ServedByExported, Applets
    <3> QED BY <1>3, <2>1, <3>1 DEF RemoveApplet
  <2> QED BY <1>1, <2>1 DEF ServedByExported, RemoveApplet
<1>7. UnloadedIsUnused' BY <1>1 DEF UnloadedIsUnused, RemoveApplet
<1>8. CountExact'
  <2> SUFFICES ASSUME changed = 0 PROVE count' = Cardinality(Held')
    BY DEF CountExact, RemoveApplet
  <2>1. count = Cardinality(Held) BY DEF CountExact
  <2>2. module BY <1>1 DEF UnloadedIsUnused
  <2>3. count \in Nat /\ count > 0 /\ count < Wrap
    BY <1>2, <1>4, <2>1, HeldFinite
  <2>4. (count + Wrap - 1) % Wrap = count - 1 BY <1>4, <2>3
  <2> QED BY <1>2, <2>1, <2>2, <2>4 DEF RemoveApplet, Deactivated
<1>9. AtMostOne'
  <2> SUFFICES ASSUME changed = 0
               PROVE  (\A o, p \in alive' : o = p) /\ (Held' = {} => alive' = {})
    BY DEF AtMostOne, RemoveApplet
  <2>1. \A o, p \in alive' : o = p BY DEF AtMostOne, RemoveApplet
  <2>2. ASSUME Held' = {} PROVE alive' = {}
    <3>1. In("live") = {f} BY <1>1, <2>2 DEF Held
    <3>2. Applets(exported) = {f} BY <1>3, <3>1 DEF Applets
    <3>3. alive = {exported} BY <1>3 DEF AtMostOne
    <3> QED BY <1>3, <3>2, <3>3 DEF RemoveApplet
  <2> QED BY <2>1, <2>2
<1> QED BY <1>5, <1>6, <1>7, <1>8, <1>9

\* The description is written again: the count is claimed exact no longer.
LEMMA DirectoryChangedInv ==
  ASSUME Runs, DirectoryChanged
  PROVE  FactoryInv'
<1> USE DEF Runs, FactoryInv
<1>1. changed' # 0 /\ changed' \in 0 .. MaxChanges
  BY BoundAssumption DEF DirectoryChanged, TypeOK
<1>2. TypeOK'
  <2>1. count' \in 0 .. Wrap - 1 BY WrapPositive DEF DirectoryChanged
  <2> QED BY <1>1, <2>1 DEF DirectoryChanged, TypeOK
<1>3. ServedByExported' BY DEF ServedByExported, DirectoryChanged, In
<1> QED BY <1>1, <1>2, <1>3 DEF UnloadedIsUnused, CountExact, AtMostOne

LEMMA FactoryStepInv == FactoryInv /\ [Next]_vars => FactoryInv'
<1>1. ASSUME FactoryInv, Next PROVE FactoryInv'
  <2>1. Runs BY <1>1 DEF Runs, Next
  <2> QED BY <1>1, <2>1, BusAcquiredInv, LoadInv, AskInv, ServeInv, RemoveInv,
             DirectoryChangedInv DEF Next
<1>2. ASSUME FactoryInv, UNCHANGED vars PROVE FactoryInv'
  BY <1>2 DEF FactoryInv, TypeOK, ServedByExported, UnloadedIsUnused, CountExact, AtMostOne,
              Held, In, vars
<1> QED BY <1>1, <1>2

\* The invariant holds in every behaviour.
THEOREM FactoryInvariance == Spec => []FactoryInv
BY FactoryInitInv, FactoryStepInv, PTL DEF Spec

\* Every variable keeps its type; the count never leaves the unsigned range.
THEOREM FactoryTypeCorrect == Spec => []TypeOK
BY FactoryInvariance, PTL DEF FactoryInv

\* While the description of the factory is not rewritten, n_applets is the
\* number of frames that wait for an applet or have one.
THEOREM CountsExactly == Spec => []CountExact
BY FactoryInvariance, PTL DEF FactoryInv

\* Where an object serves applets there is no other.
LEMMA InvOneFactory == FactoryInv => OneFactory
<1> SUFFICES ASSUME FactoryInv, changed = 0, NEW o \in alive PROVE alive = {o}
  BY DEF OneFactory
<1> QED BY DEF FactoryInv, AtMostOne

\* While the description is not rewritten, the manager makes no second factory
\* object beside one that has applets.
THEOREM OnlyOneFactory == Spec => []OneFactory
BY FactoryInvariance, InvOneFactory, PTL

-----------------------------------------------------------------------------
(***************************************************************************)
(* A value on its way: the messages q that wait, the property p, what the  *)
(* receiver has of it, and what the sender wants it to have.               *)
(***************************************************************************)
LastAbout(q, p, i) ==
  /\ i \in 1 .. Len(q) /\ q[i].prop = p
  /\ \A j \in 1 .. Len(q) : j > i => q[j].prop # p

NoneAbout(q, p) == \A i \in 1 .. Len(q) : q[i].prop # p

OnItsWay(q, p, has, wants) ==
  /\ \A i \in 1 .. Len(q) : LastAbout(q, p, i) => q[i].value = wants
  /\ NoneAbout(q, p) => has = wants

LEMMA SentLast ==
  ASSUME NEW S, NEW q \in Seq(S), NEW m \in S, NEW has, NEW wants,
         m.value = wants
  PROVE  OnItsWay(Append(q, m), m.prop, has, wants)
<1> DEFINE r == Append(q, m)
<1>1. Len(r) = Len(q) + 1 /\ Len(q) \in Nat /\ r[Len(q) + 1] = m OBVIOUS
<1>2. ASSUME NEW i \in 1 .. Len(r), LastAbout(r, m.prop, i) PROVE i = Len(q) + 1
  <2>1. CASE i < Len(q) + 1
    BY <1>1, <1>2, <2>1 DEF LastAbout
  <2> QED BY <1>1, <2>1
<1>3. ~NoneAbout(r, m.prop) BY <1>1 DEF NoneAbout
<1> QED BY <1>1, <1>2, <1>3 DEF OnItsWay

LEMMA SentOther ==
  ASSUME NEW S, NEW q \in Seq(S), NEW m \in S, NEW p, NEW has, NEW wants,
         m.prop # p, OnItsWay(q, p, has, wants)
  PROVE  OnItsWay(Append(q, m), p, has, wants)
<1> DEFINE r == Append(q, m)
<1>1. Len(r) = Len(q) + 1 /\ Len(q) \in Nat /\ r[Len(q) + 1] = m
      /\ \A i \in 1 .. Len(q) : r[i] = q[i]
  OBVIOUS
<1>2. ASSUME NEW i \in 1 .. Len(r), LastAbout(r, p, i) PROVE r[i].value = wants
  <2>1. i \in 1 .. Len(q) BY <1>1, <1>2 DEF LastAbout
  <2>2. LastAbout(q, p, i) BY <1>1, <1>2, <2>1 DEF LastAbout
  <2> QED BY <1>1, <2>1, <2>2 DEF OnItsWay
<1>3. NoneAbout(r, p) => NoneAbout(q, p) BY <1>1 DEF NoneAbout
<1> QED BY <1>2, <1>3 DEF OnItsWay

LEMMA HandledOther ==
  ASSUME NEW S, NEW q \in Seq(S), q # <<>>, NEW p, NEW has, NEW wants,
         Head(q).prop # p, OnItsWay(q, p, has, wants)
  PROVE  OnItsWay(Tail(q), p, has, wants)
<1> DEFINE r == Tail(q)
<1>1. Len(q) \in Nat /\ Len(q) > 0 /\ Len(r) = Len(q) - 1 /\ Head(q) = q[1]
      /\ \A i \in 1 .. Len(r) : r[i] = q[i + 1]
  OBVIOUS
<1>2. ASSUME NEW i \in 1 .. Len(r), LastAbout(r, p, i) PROVE r[i].value = wants
  <2>1. i + 1 \in 1 .. Len(q) /\ q[i + 1].prop = p BY <1>1, <1>2 DEF LastAbout
  <2>2. ASSUME NEW j \in 1 .. Len(q), j > i + 1 PROVE q[j].prop # p
    <3>1. j - 1 \in 1 .. Len(r) /\ j - 1 > i /\ r[j - 1] = q[j - 1 + 1] BY <1>1, <2>2
    <3>2. j - 1 + 1 = j BY <2>2
    <3> QED BY <1>2, <3>1, <3>2 DEF LastAbout
  <2>3. LastAbout(q, p, i + 1) BY <2>1, <2>2 DEF LastAbout
  <2> QED BY <1>1, <2>1, <2>3 DEF OnItsWay
<1>3. ASSUME NoneAbout(r, p) PROVE NoneAbout(q, p)
  <2>1. ASSUME NEW j \in 1 .. Len(q) PROVE q[j].prop # p
    <3>1. CASE j = 1 BY <1>1, <3>1
    <3>2. CASE j # 1
      <4>1. j - 1 \in 1 .. Len(r) /\ r[j - 1] = q[j - 1 + 1] BY <1>1, <3>2
      <4>2. j - 1 + 1 = j OBVIOUS
      <4> QED BY <1>3, <4>1, <4>2 DEF NoneAbout
    <3> QED BY <3>1, <3>2
  <2> QED BY <2>1 DEF NoneAbout
<1> QED BY <1>2, <1>3 DEF OnItsWay

\* The receiver takes what the first message says.
LEMMA HandledIt ==
  ASSUME NEW S, NEW q \in Seq(S), q # <<>>, NEW has, NEW wants,
         OnItsWay(q, Head(q).prop, has, wants)
  PROVE  OnItsWay(Tail(q), Head(q).prop, Head(q).value, wants)
<1> DEFINE r == Tail(q)
           p == Head(q).prop
<1>1. Len(q) \in Nat /\ Len(q) > 0 /\ Len(r) = Len(q) - 1 /\ Head(q) = q[1]
      /\ \A i \in 1 .. Len(r) : r[i] = q[i + 1]
  OBVIOUS
<1>2. ASSUME NEW i \in 1 .. Len(r), LastAbout(r, p, i) PROVE r[i].value = wants
  <2>1. i + 1 \in 1 .. Len(q) /\ q[i + 1].prop = p BY <1>1, <1>2 DEF LastAbout
  <2>2. ASSUME NEW j \in 1 .. Len(q), j > i + 1 PROVE q[j].prop # p
    <3>1. j - 1 \in 1 .. Len(r) /\ j - 1 > i /\ r[j - 1] = q[j - 1 + 1] BY <1>1, <2>2
    <3>2. j - 1 + 1 = j BY <2>2
    <3> QED BY <1>2, <3>1, <3>2 DEF LastAbout
  <2>3. LastAbout(q, p, i + 1) BY <2>1, <2>2 DEF LastAbout
  <2> QED BY <1>1, <2>1, <2>3 DEF OnItsWay
<1>3. ASSUME NoneAbout(r, p) PROVE Head(q).value = wants
  <2>1. ASSUME NEW j \in 1 .. Len(q), j > 1 PROVE q[j].prop # p
    <3>1. j - 1 \in 1 .. Len(r) /\ r[j - 1] = q[j - 1 + 1] BY <1>1, <2>1
    <3>2. j - 1 + 1 = j BY <2>1
    <3> QED BY <1>3, <3>1, <3>2 DEF NoneAbout
  <2>2. LastAbout(q, p, 1) BY <1>1, <2>1 DEF LastAbout
  <2> QED BY <1>1, <2>2 DEF OnItsWay
<1> QED BY <1>2, <1>3 DEF OnItsWay

-----------------------------------------------------------------------------
(***************************************************************************)
(* The invariant.                                                          *)
(***************************************************************************)
Backdrops == {NoValue, Solid, None} \cup {Pixmap(n) : n \in 1 .. MaxSets}
Looks == {None, Solid} \cup [pixmap : Nat, width : Widths \cup {1}]

Tolds == [orient : Orients \cup {"up"}, size : {24, 48}, backdrop : Looks]

Apps ==
  [flags : Flags \cup {NoFlags}, hints : 1 .. 3 \cup {NoValue},
   orient : Orients \cup {"up"}, style : {"horizontal", "vertical"},
   size : {24, 48}, locked : BOOLEAN, mayRemove : BOOLEAN, backdrop : Backdrops,
   told : Tolds,
   painted : Looks, paints : BOOLEAN, embedded : BOOLEAN, menu : BOOLEAN,
   realized : BOOLEAN, width : Widths \cup {1}]

Sets == [prop : {"orient"}, value : Orients \cup {"up"}] \cup [prop : {"size"}, value : {24, 48}]
          \cup [prop : {"locked"}, value : BOOLEAN]
          \cup [prop : {"backdrop"}, value : Backdrops]

Signals == [prop : {"flags"}, value : Flags] \cup [prop : {"hints"}, value : 1 .. 3]
             \cup [prop : {"move", "remove"}, value : [locked : BOOLEAN]]

PanelValues ==
  [orient : Orients \cup {"up"}, size : {24, 48}, locked : BOOLEAN, backdrop : Backdrops]

Typed ==
  /\ app \in Apps
  /\ toApplet \in Seq(Sets) /\ Len(toApplet) <= MaxInTransit
  /\ toPanel \in Seq(Signals) /\ Len(toPanel) <= MaxInTransit
  /\ panelSet \in PanelValues
  /\ panelKnows \in [flags : Flags \cup {NoFlags}, hints : 1 .. 3 \cup {NoValue}]
  /\ pixmap \in 0 .. MaxSets /\ sets \in 0 .. MaxSets
  /\ inMenu \in {"none", "own", "edit"}

\* What the applet has, its own code knows.
OwnCodeTold(a) ==
  /\ a.told.orient = a.orient /\ a.told.size = a.size /\ a.mayRemove = ~a.locked
  /\ a.style = IF a.orient \in {"up", "down"} THEN "horizontal" ELSE "vertical"

Heard ==
  /\ OnItsWay(toApplet, "orient", app.orient, panelSet.orient)
  /\ OnItsWay(toApplet, "size", app.size, panelSet.size)
  /\ OnItsWay(toApplet, "locked", app.locked, panelSet.locked)
  /\ OnItsWay(toApplet, "backdrop", app.backdrop, panelSet.backdrop)

Known ==
  /\ OnItsWay(toPanel, "flags", panelKnows.flags, app.flags)
  /\ OnItsWay(toPanel, "hints", panelKnows.hints, app.hints)

\* What there is to see of a background that is not a pixmap the panel freed.
Plain == {NoValue, Solid, None}
Current(b) == b \in Plain \/ b = Pixmap(pixmap)

\* The applet shows what it sees, unless its pixmap is gone, ...
Drawn(a) ==
  /\ ~a.realized => a.painted = None /\ a.told.backdrop = None
  /\ a.realized /\ Current(a.backdrop) =>
       a.told.backdrop = Look(a) /\ (a.paints => a.painted = Look(a))

\* ... and the panel never means one that is.
Past(b, k) == \A n \in 1 .. MaxSets : b = Pixmap(n) => n <= k

Numbered ==
  /\ Current(panelSet.backdrop) /\ Past(app.backdrop, sets) /\ pixmap <= sets
  /\ \A i \in 1 .. Len(toApplet) :
       toApplet[i].prop = "backdrop" => Past(toApplet[i].value, sets)

LibInv == Typed /\ OwnCodeTold(app) /\ Heard /\ Known /\ Drawn(app) /\ Numbered

LEMMA DistinctBackdrops ==
  /\ Solid # None
  /\ \A n : Pixmap(n) # Solid /\ Pixmap(n) # None
  /\ \A n, m : Pixmap(n) = Pixmap(m) => n = m
<1>1. DOMAIN Solid = {"solid"} /\ DOMAIN None = {"none"} BY DEF Solid, None
<1>2. \A n : DOMAIN Pixmap(n) = {"pixmap"} /\ Pixmap(n).pixmap = n BY DEF Pixmap
<1>3. {"solid"} # {"none"} /\ {"pixmap"} # {"solid"} /\ {"pixmap"} # {"none"} OBVIOUS
<1>4. \A n : Pixmap(n) # Solid /\ Pixmap(n) # None
  <2> SUFFICES ASSUME NEW n PROVE Pixmap(n) # Solid /\ Pixmap(n) # None OBVIOUS
  <2>1. DOMAIN Pixmap(n) = {"pixmap"} BY <1>2
  <2> QED BY <1>1, <1>3, <2>1
<1>5. \A n, m : Pixmap(n) = Pixmap(m) => n = m
  <2> SUFFICES ASSUME NEW n, NEW m, Pixmap(n) = Pixmap(m) PROVE n = m OBVIOUS
  <2>1. Pixmap(n).pixmap = n /\ Pixmap(m).pixmap = m BY <1>2
  <2> QED BY <2>1
<1> QED BY <1>1, <1>3, <1>4, <1>5

LEMMA DistinctNoValue ==
  NoValue # Solid /\ NoValue # None /\ \A n \in 1 .. MaxSets : NoValue # Pixmap(n)
BY NoValueAssumption

LEMMA InvTypeOK == LibInv => LibTypeOK
BY DEF LibInv, Typed, Apps, LibTypeOK

LEMMA LibInitInv == ASSUME LibInit PROVE LibInv
<1>1. app \in Apps BY DEF LibInit, Apps, Tolds, Backdrops, Looks
<1>2. Typed
  <2>1. toApplet = <<>> /\ toPanel = <<>> BY DEF LibInit
  <2>2. toApplet \in Seq(Sets) /\ toPanel \in Seq(Signals) /\ Len(toApplet) = 0 /\ Len(toPanel) = 0
    BY <2>1
  <2>3. panelSet \in PanelValues BY DEF LibInit, PanelValues, Backdrops
  <2> QED BY <1>1, <2>2, <2>3, LibBoundAssumption DEF LibInit, Typed
<1>3. OwnCodeTold(app) BY DEF LibInit, OwnCodeTold
<1>4. Len(toApplet) = 0 /\ Len(toPanel) = 0 BY DEF LibInit
<1>5. Heard BY <1>4 DEF LibInit, Heard, OnItsWay, LastAbout, NoneAbout
<1>6. Known BY <1>4 DEF LibInit, Known, OnItsWay, LastAbout, NoneAbout
<1>7. Drawn(app) BY DEF LibInit, Drawn
<1>8. Numbered
  <2>1. app.backdrop = NoValue /\ panelSet.backdrop = NoValue /\ pixmap = 0 /\ sets = 0
    BY DEF LibInit
  <2>2. Past(NoValue, sets) BY <2>1, DistinctNoValue DEF Past
  <2> QED BY <1>4, <2>1, <2>2 DEF Numbered, Current, Plain
<1> QED BY <1>2, <1>3, <1>5, <1>6, <1>7, <1>8 DEF LibInv

-----------------------------------------------------------------------------
(***************************************************************************)
(* What the applet does with itself.                                       *)
(***************************************************************************)
SameProps(a, b) ==
  /\ b.flags = a.flags /\ b.hints = a.hints /\ b.orient = a.orient
  /\ b.size = a.size /\ b.locked = a.locked /\ b.mayRemove = a.mayRemove
  /\ b.style = a.style /\ b.told.orient = a.told.orient /\ b.told.size = a.told.size

SameLook(a, b) ==
  /\ b.realized = a.realized /\ b.backdrop = a.backdrop /\ b.width = a.width
  /\ b.told.backdrop = a.told.backdrop /\ b.painted = a.painted /\ b.paints = a.paints

LEMMA DrawnKept == ASSUME NEW a, NEW b, Drawn(a), SameLook(a, b) PROVE Drawn(b)
<1>1. Look(b) = Look(a) BY DEF SameLook, Look
<1> QED BY <1>1 DEF SameLook, Drawn

LEMMA DrawnAfter ==
  ASSUME NEW b, Drawn(b), app' = b, pixmap' = pixmap PROVE Drawn(app)'
BY DEF Drawn, Current, Look

LEMMA LookTyped == ASSUME NEW a \in Apps, pixmap \in Nat PROVE Look(a) \in Looks
<1>1. CASE ~a.realized \/ a.backdrop \in {NoValue, None} BY <1>1 DEF Look, Looks
<1>2. CASE a.realized /\ a.backdrop = Solid
  BY <1>2, DistinctBackdrops, DistinctNoValue DEF Look, Looks
<1>3. CASE a.realized /\ a.backdrop \notin {NoValue, None, Solid}
  <2>1. a.width \in Widths \cup {1} BY DEF Apps
  <2>2. Look(a) = IF a.backdrop = Pixmap(pixmap) THEN [pixmap |-> pixmap, width |-> a.width]
                                                ELSE None
    BY <1>3 DEF Look
  <2> QED BY <2>1, <2>2 DEF Looks
<1> QED BY <1>1, <1>2, <1>3

\* An applet that was told nothing shows nothing.
LEMMA LookNone ==
  ASSUME NEW a \in Apps, a.backdrop = NoValue PROVE Look(a) = None
<1>1. (~a.realized \/ a.backdrop \in {NoValue, None}) <=> TRUE OBVIOUS
<1>2. (a.realized /\ a.backdrop = Solid) <=> FALSE BY DistinctNoValue
<1>3. (a.realized /\ a.backdrop \notin {NoValue, None, Solid}) <=> FALSE OBVIOUS
<1> QED BY <1>1, <1>2, <1>3 DEF Look

\* An applet that handles its background shows it, if its window is there.
LEMMA BackgroundHandled ==
  ASSUME NEW a \in Apps, pixmap \in Nat, ~a.realized => a.painted = None
  PROVE  /\ HandleBackground(a) \in Apps /\ Drawn(HandleBackground(a))
         /\ SameProps(a, HandleBackground(a))
         /\ HandleBackground(a).backdrop = a.backdrop
<1> DEFINE b == HandleBackground(a)
<1>1. Look(a) \in Looks BY LookTyped
<1>2. b = [a EXCEPT !.told.backdrop = Look(a), !.painted = IF a.paints THEN Look(a) ELSE @]
  BY DEF HandleBackground
<1>3. b \in Apps
  <2> DEFINE told == [a.told EXCEPT !.backdrop = Look(a)]
             painted == IF a.paints THEN Look(a) ELSE a.painted
  <2>1. told \in Tolds /\ painted \in Looks BY <1>1 DEF Apps, Tolds
  <2>2. b = [a EXCEPT !.told = told, !.painted = painted] BY <1>2 DEF Apps
  <2> HIDE DEF b, told, painted
  <2> QED BY <2>1, <2>2 DEF Apps
<1>4. /\ b.told.backdrop = Look(a) /\ b.painted = IF a.paints THEN Look(a) ELSE a.painted
      /\ b.realized = a.realized /\ b.backdrop = a.backdrop /\ b.width = a.width
      /\ b.paints = a.paints
  BY <1>2 DEF Apps, Tolds
<1>5. SameProps(a, b) BY <1>2 DEF Apps, Tolds, SameProps
<1>6. Look(b) = Look(a) BY <1>4 DEF Look
<1>7. ~a.realized => Look(a) = None BY DEF Look
<1>8. Drawn(b) BY <1>4, <1>6, <1>7 DEF Drawn
<1> QED BY <1>3, <1>4, <1>5, <1>8

LEMMA OrientSet ==
  ASSUME NEW a \in Apps, OwnCodeTold(a), NEW o \in Orients \cup {"up"}
  PROVE  LET b == SetOrient(a, o) IN
         /\ b \in Apps /\ OwnCodeTold(b) /\ SameLook(a, b) /\ b.orient = o
         /\ b.flags = a.flags /\ b.hints = a.hints /\ b.size = a.size /\ b.locked = a.locked
<1>1. CASE o = a.orient BY <1>1 DEF SetOrient, SameLook
<1>2. CASE o # a.orient
  <2> DEFINE b == SetOrient(a, o)
             style == IF o \in {"up", "down"} THEN "horizontal" ELSE "vertical"
  <2>1. b = [a EXCEPT !.orient = o, !.told.orient = o, !.style = style]
    BY <1>2 DEF SetOrient
  <2>2. style \in {"horizontal", "vertical"} OBVIOUS
  <2>3. /\ b.orient = o /\ b.told.orient = o /\ b.style = style
        /\ b.told.size = a.told.size /\ b.size = a.size /\ b.mayRemove = a.mayRemove
        /\ b.locked = a.locked /\ b.flags = a.flags /\ b.hints = a.hints
    BY <2>1 DEF Apps, Tolds
  <2>4. SameLook(a, b) BY <2>1 DEF Apps, Tolds, SameLook
  <2>5. b \in Apps
    <3> DEFINE told == [a.told EXCEPT !.orient = o]
    <3>1. told \in Tolds BY DEF Apps, Tolds
    <3>2. b = [a EXCEPT !.orient = o, !.told = told, !.style = style] BY <2>1 DEF Apps
    <3> HIDE DEF b, told, style
    <3> QED BY <2>2, <3>1, <3>2 DEF Apps
  <2>6. OwnCodeTold(b) BY <2>3 DEF OwnCodeTold, style
  <2> QED BY <2>3, <2>4, <2>5, <2>6
<1> QED BY <1>1, <1>2

LEMMA SizeSet ==
  ASSUME NEW a \in Apps, OwnCodeTold(a), NEW v \in {24, 48}
  PROVE  LET b == SetSize(a, v) IN
         /\ b \in Apps /\ OwnCodeTold(b) /\ SameLook(a, b) /\ b.size = v
         /\ b.flags = a.flags /\ b.hints = a.hints /\ b.orient = a.orient
         /\ b.locked = a.locked
<1>1. CASE v = a.size BY <1>1 DEF SetSize, SameLook
<1>2. CASE v # a.size BY <1>2 DEF SetSize, SameLook, Apps, Tolds, OwnCodeTold
<1> QED BY <1>1, <1>2

LEMMA LockedSet ==
  ASSUME NEW a \in Apps, OwnCodeTold(a), NEW l \in BOOLEAN
  PROVE  LET b == SetLockedDown(a, l) IN
         /\ b \in Apps /\ OwnCodeTold(b) /\ SameLook(a, b) /\ b.locked = l
         /\ b.flags = a.flags /\ b.hints = a.hints /\ b.orient = a.orient
         /\ b.size = a.size
<1> DEFINE b == SetLockedDown(a, l)
<1>1. b = [a EXCEPT !.locked = l, !.mayRemove = ~l] BY DEF SetLockedDown
<1>2. (~l) \in BOOLEAN OBVIOUS
<1>3. b \in Apps BY <1>1, <1>2 DEF Apps
<1>4. b.locked = l /\ b.mayRemove = ~l BY <1>1 DEF Apps
<1>5. /\ b.flags = a.flags /\ b.hints = a.hints /\ b.orient = a.orient
      /\ b.size = a.size /\ b.told = a.told /\ b.style = a.style
  BY <1>1 DEF Apps
<1>6. OwnCodeTold(b) BY <1>4, <1>5 DEF OwnCodeTold
<1>7. SameLook(a, b) BY <1>1 DEF Apps, SameLook
<1> QED BY <1>3, <1>4, <1>5, <1>6, <1>7

LEMMA BackgroundSet ==
  ASSUME NEW a \in Apps, OwnCodeTold(a), Drawn(a), pixmap \in Nat, NEW w \in Backdrops
  PROVE  LET b == SetBackground(a, w) IN
         /\ b \in Apps /\ OwnCodeTold(b) /\ Drawn(b) /\ b.backdrop = w
         /\ b.flags = a.flags /\ b.hints = a.hints /\ b.orient = a.orient
         /\ b.size = a.size /\ b.locked = a.locked
<1>1. CASE w = a.backdrop BY <1>1 DEF SetBackground
<1>2. CASE w # a.backdrop
  <2> DEFINE c == [a EXCEPT !.backdrop = w]
  <2>1. c \in Apps /\ c.backdrop = w /\ SameProps(a, c) /\ c.realized = a.realized
        /\ c.painted = a.painted
    BY DEF Apps, Tolds, SameProps
  <2>2. ~c.realized => c.painted = None BY <2>1 DEF Drawn
  <2> HIDE DEF c
  <2>3. /\ HandleBackground(c) \in Apps /\ Drawn(HandleBackground(c))
        /\ SameProps(c, HandleBackground(c)) /\ HandleBackground(c).backdrop = w
    BY <2>1, <2>2, BackgroundHandled
  <2>4. SetBackground(a, w) = HandleBackground(c) BY <1>2 DEF SetBackground, c
  <2> QED BY <2>1, <2>3, <2>4 DEF SameProps, OwnCodeTold
<1> QED BY <1>1, <1>2

-----------------------------------------------------------------------------
(***************************************************************************)
(* The panel sets a property.                                              *)
(***************************************************************************)
Properties == {"orient", "size", "locked", "backdrop"}

LEMMA SentOne ==
  ASSUME Typed, NEW p \in Properties, NEW v, PanelSets(p, v),
         [prop |-> p, value |-> v] \in Sets,
         NEW r \in Properties, NEW has, OnItsWay(toApplet, r, has, panelSet[r])
  PROVE  OnItsWay(toApplet', r, has, panelSet'[r])
<1> DEFINE m == [prop |-> p, value |-> v]
<1>1. toApplet \in Seq(Sets) /\ toApplet' = Append(toApplet, m) /\ m \in Sets
  BY DEF Typed, PanelSets
<1>2. panelSet' = [panelSet EXCEPT ![p] = v] BY DEF PanelSets
<1>3. DOMAIN panelSet = Properties BY DEF Typed, PanelValues, Properties
<1>4. m.prop = p /\ m.value = v OBVIOUS
<1> HIDE DEF m
<1>5. CASE r = p
  <2>1. panelSet'[r] = v BY <1>2, <1>3, <1>5
  <2> QED BY <1>1, <1>4, <1>5, <2>1, SentLast
<1>6. CASE r # p
  <2>1. panelSet'[r] = panelSet[r] BY <1>2, <1>3, <1>6
  <2> QED BY <1>1, <1>4, <1>6, <2>1, SentOther
<1> QED BY <1>5, <1>6

LEMMA PanelSetsTyped ==
  ASSUME Typed, NEW p \in Properties, NEW v, PanelSets(p, v),
         [prop |-> p, value |-> v] \in Sets
  PROVE  /\ toApplet' \in Seq(Sets) /\ Len(toApplet') <= MaxInTransit
         /\ panelSet' \in PanelValues
<1>1. toApplet \in Seq(Sets) /\ Len(toApplet) < MaxInTransit
      /\ toApplet' = Append(toApplet, [prop |-> p, value |-> v])
  BY DEF Typed, PanelSets
<1>2. toApplet' \in Seq(Sets) BY <1>1
<1>3. Len(toApplet') <= MaxInTransit BY <1>1, LibBoundAssumption
<1>4. panelSet' = [panelSet EXCEPT ![p] = v] /\ panelSet \in PanelValues
  BY DEF Typed, PanelSets
<1>5. /\ p = "orient" => v \in Orients \cup {"up"}
      /\ p = "size" => v \in {24, 48}
      /\ p = "locked" => v \in BOOLEAN
      /\ p = "backdrop" => v \in Backdrops
  BY DEF Sets
<1>6. panelSet' \in PanelValues
  <2>1. CASE p = "orient" BY <1>4, <1>5, <2>1 DEF PanelValues
  <2>2. CASE p = "size" BY <1>4, <1>5, <2>2 DEF PanelValues
  <2>3. CASE p = "locked" BY <1>4, <1>5, <2>3 DEF PanelValues
  <2>4. CASE p = "backdrop" BY <1>4, <1>5, <2>4 DEF PanelValues
  <2> QED BY <2>1, <2>2, <2>3, <2>4 DEF Properties
<1> QED BY <1>2, <1>3, <1>6

LEMMA PanelSetsHeard ==
  ASSUME Typed, Heard, NEW p \in Properties, NEW v, PanelSets(p, v), app' = app,
         [prop |-> p, value |-> v] \in Sets
  PROVE  Heard'
<1>1. OnItsWay(toApplet', "orient", app.orient, panelSet'["orient"])
  BY SentOne DEF Heard, Properties
<1>2. OnItsWay(toApplet', "size", app.size, panelSet'["size"])
  BY SentOne DEF Heard, Properties
<1>3. OnItsWay(toApplet', "locked", app.locked, panelSet'["locked"])
  BY SentOne DEF Heard, Properties
<1>4. OnItsWay(toApplet', "backdrop", app.backdrop, panelSet'["backdrop"])
  BY SentOne DEF Heard, Properties
<1> QED BY <1>1, <1>2, <1>3, <1>4 DEF Heard

LEMMA CountTyped == ASSUME Typed, Count PROVE sets' \in 0 .. MaxSets /\ sets' = sets + 1
BY LibBoundAssumption DEF Typed, Count

\* Numbers that were past stay so.
LEMMA PastStays ==
  ASSUME Typed, NEW w, Past(w, sets), sets' = sets \/ sets' = sets + 1
  PROVE  Past(w, sets')
BY DEF Typed, Past

LEMMA PanelChangesInv ==
  ASSUME LibInv, NEW p \in Properties, p # "backdrop", NEW v, PanelChanges(p, v),
         [prop |-> p, value |-> v] \in Sets
  PROVE  LibInv'
<1>1. app' = app /\ toPanel' = toPanel /\ pixmap' = pixmap /\ PanelSets(p, v)
      /\ panelKnows' = panelKnows /\ inMenu' = inMenu
  BY DEF PanelChanges
<1>2. sets' \in 0 .. MaxSets /\ sets' = sets + 1 BY CountTyped DEF LibInv, PanelChanges
<1>3. Typed' BY <1>1, <1>2, PanelSetsTyped DEF LibInv, Typed
<1>4. OwnCodeTold(app)' /\ Known' BY <1>1 DEF LibInv, OwnCodeTold, Known
<1>5. Heard' BY <1>1, PanelSetsHeard DEF LibInv
<1>6. Drawn(app)' BY <1>1, DrawnAfter DEF LibInv
<1>7. Numbered'
  <2>1. panelSet'.backdrop = panelSet.backdrop
    BY <1>1 DEF PanelSets, LibInv, Typed, PanelValues
  <2>2. Past(app.backdrop, sets)' BY <1>1, <1>2, PastStays DEF LibInv, Numbered
  <2>3. pixmap' <= sets' BY <1>1, <1>2 DEF LibInv, Typed, Numbered
  <2>4. ASSUME NEW i \in 1 .. Len(toApplet'), toApplet'[i].prop = "backdrop"
        PROVE  Past(toApplet'[i].value, sets')
    <3>1. toApplet \in Seq(Sets) /\ toApplet' = Append(toApplet, [prop |-> p, value |-> v])
      BY <1>1 DEF LibInv, Typed, PanelSets
    <3>2. CASE i = Len(toApplet) + 1 BY <2>4, <3>1, <3>2
    <3>3. CASE i # Len(toApplet) + 1
      <4>1. i \in 1 .. Len(toApplet) /\ toApplet'[i] = toApplet[i] BY <3>1, <3>3
      <4>2. Past(toApplet[i].value, sets) BY <2>4, <4>1 DEF LibInv, Numbered
      <4> QED BY <1>2, <4>1, <4>2, PastStays DEF LibInv
    <3> QED BY <3>2, <3>3
  <2> QED BY <1>1, <2>1, <2>2, <2>3, <2>4 DEF LibInv, Numbered, Current
<1> QED BY <1>3, <1>4, <1>5, <1>6, <1>7 DEF LibInv

\* The pixmap that the panel frees was the newest: no message, and not the
\* applet, has the number of the one it makes.
LEMMA PanelRepaintsInv ==
  ASSUME LibInv, NEW b \in {"pixmap", "solid", "none"}, PanelRepaints(b) PROVE LibInv'
<1> DEFINE v == CASE b = "pixmap" -> Pixmap(sets') [] b = "solid" -> Solid [] b = "none" -> None
<1>1. app' = app /\ toPanel' = toPanel /\ panelKnows' = panelKnows /\ inMenu' = inMenu
      /\ PanelSets("backdrop", v) /\ pixmap' = IF b = "pixmap" THEN sets' ELSE 0
  BY DEF PanelRepaints
<1>2. sets' \in 1 .. MaxSets /\ sets' = sets + 1
  BY CountTyped DEF LibInv, Typed, PanelRepaints
<1>3. v \in Backdrops BY <1>2 DEF Backdrops
<1>4. /\ b = "pixmap" => v = Pixmap(sets')
      /\ b # "pixmap" => v \in {Solid, None}
  OBVIOUS
<1> HIDE DEF v
<1>5. [prop |-> "backdrop", value |-> v] \in Sets BY <1>3 DEF Sets
<1>6. pixmap' \in 0 .. MaxSets /\ pixmap' <= sets'
  <2>1. CASE b = "pixmap" BY <1>1, <1>2, <2>1, LibBoundAssumption
  <2>2. CASE b # "pixmap" BY <1>1, <1>2, <2>2, LibBoundAssumption
  <2> QED BY <2>1, <2>2
<1>7. Typed' BY <1>1, <1>2, <1>5, <1>6, PanelSetsTyped DEF LibInv, Typed, Properties
<1>8. OwnCodeTold(app)' /\ Known' BY <1>1 DEF LibInv, OwnCodeTold, Known
<1>9. Heard' BY <1>1, <1>5, PanelSetsHeard DEF LibInv, Properties
<1>10. Drawn(app)'
  <2>1. ASSUME Current(app.backdrop)' PROVE app.backdrop \in Plain
    <3>1. CASE app.backdrop = Pixmap(pixmap') /\ app.backdrop \notin Plain
      <4>1. app.backdrop \in Backdrops BY DEF LibInv, Typed, Apps
      <4>2. PICK n \in 1 .. MaxSets : app.backdrop = Pixmap(n)
        BY <3>1, <4>1 DEF Backdrops, Plain
      <4>3. n = pixmap' BY <3>1, <4>2, DistinctBackdrops
      <4>4. n <= sets BY <4>2 DEF LibInv, Numbered, Past
      <4>5. sets \in Nat BY DEF LibInv, Typed
      <4> QED BY <1>1, <1>2, <4>2, <4>3, <4>4, <4>5
    <3> QED BY <1>1, <2>1, <3>1 DEF Current
  <2>2. app.backdrop \in Plain => Look(app)' = Look(app) BY <1>1 DEF Look, Plain
  <2>3. Drawn(app) BY DEF LibInv
  <2> QED BY <1>1, <2>1, <2>2, <2>3 DEF Drawn, Current
<1>11. Numbered'
  <2>1. panelSet'.backdrop = v BY <1>1 DEF PanelSets, LibInv, Typed, PanelValues
  <2>2. Current(panelSet.backdrop)' BY <1>1, <1>4, <2>1 DEF Current, Plain
  <2>3. Past(app.backdrop, sets)' BY <1>1, <1>2, PastStays DEF LibInv, Numbered
  <2>4. ASSUME NEW i \in 1 .. Len(toApplet'), toApplet'[i].prop = "backdrop"
        PROVE  Past(toApplet'[i].value, sets')
    <3>1. toApplet \in Seq(Sets)
          /\ toApplet' = Append(toApplet, [prop |-> "backdrop", value |-> v])
      BY <1>1 DEF LibInv, Typed, PanelSets
    <3>2. CASE i = Len(toApplet) + 1
      <4>1. toApplet'[i].value = v BY <3>1, <3>2
      <4>2. b # "pixmap" => Past(v, sets') BY <1>4, DistinctBackdrops DEF Past
      <4>3. b = "pixmap" => Past(v, sets') BY <1>2, <1>4, DistinctBackdrops DEF Past
      <4> QED BY <4>1, <4>2, <4>3
    <3>3. CASE i # Len(toApplet) + 1
      <4>1. i \in 1 .. Len(toApplet) /\ toApplet'[i] = toApplet[i] BY <3>1, <3>3
      <4>2. Past(toApplet[i].value, sets) BY <2>4, <4>1 DEF LibInv, Numbered
      <4> QED BY <1>2, <4>1, <4>2, PastStays DEF LibInv
    <3> QED BY <3>2, <3>3
  <2> QED BY <1>6, <2>2, <2>3, <2>4 DEF Numbered
<1> QED BY <1>7, <1>8, <1>9, <1>10, <1>11 DEF LibInv

-----------------------------------------------------------------------------
(***************************************************************************)
(* The applet handles what the panel set.                                  *)
(***************************************************************************)
\* The values of the four properties in the applet a.
Has(a, p) == CASE p = "orient" -> a.orient [] p = "size" -> a.size
               [] p = "locked" -> a.locked [] p = "backdrop" -> a.backdrop

\* The applet takes message m and nothing else.
Takes(a, b, m) ==
  /\ b \in Apps /\ OwnCodeTold(b) /\ Drawn(b)
  /\ b.flags = a.flags /\ b.hints = a.hints
  /\ \A p \in Properties : Has(b, p) = IF p = m.prop THEN m.value ELSE Has(a, p)

LEMMA AppletTakes ==
  ASSUME LibInv, toApplet # <<>>, NEW m, m = Head(toApplet), HandleSet
  PROVE  m \in Sets /\ Takes(app, app', m)
<1>1. m \in Sets
  <2>1. toApplet \in Seq(Sets) BY DEF LibInv, Typed
  <2> QED BY <2>1
<1>2. app \in Apps /\ OwnCodeTold(app) /\ Drawn(app) /\ pixmap \in Nat BY DEF LibInv, Typed
<1>3. CASE m.prop = "orient"
  <2>1. m.value \in Orients \cup {"up"} BY <1>1, <1>3 DEF Sets
  <2>2. app' = SetOrient(app, m.value) BY <1>3 DEF HandleSet
  <2> QED BY <1>1, <1>2, <1>3, <2>1, <2>2, OrientSet, DrawnKept
          DEF Takes, Has, SameLook, Properties
<1>4. CASE m.prop = "size"
  <2>1. m.value \in {24, 48} BY <1>1, <1>4 DEF Sets
  <2>2. app' = SetSize(app, m.value) BY <1>4 DEF HandleSet
  <2> QED BY <1>1, <1>2, <1>4, <2>1, <2>2, SizeSet, DrawnKept
          DEF Takes, Has, SameLook, Properties
<1>5. CASE m.prop = "locked"
  <2>1. m.value \in BOOLEAN BY <1>1, <1>5 DEF Sets
  <2>2. app' = SetLockedDown(app, m.value) BY <1>5 DEF HandleSet
  <2> QED BY <1>1, <1>2, <1>5, <2>1, <2>2, LockedSet, DrawnKept
          DEF Takes, Has, SameLook, Properties
<1>6. CASE m.prop = "backdrop"
  <2>1. m.value \in Backdrops BY <1>1, <1>6 DEF Sets
  <2>2. app' = SetBackground(app, m.value) BY <1>6 DEF HandleSet
  <2> QED BY <1>1, <1>2, <1>6, <2>1, <2>2, BackgroundSet DEF Takes, Has, Properties
<1> QED BY <1>1, <1>3, <1>4, <1>5, <1>6 DEF Sets

LEMMA HandledOne ==
  ASSUME NEW q \in Seq(Sets), q # <<>>, NEW a, NEW b, Takes(a, b, Head(q)),
         NEW p \in Properties, NEW wants, OnItsWay(q, p, Has(a, p), wants)
  PROVE  OnItsWay(Tail(q), p, Has(b, p), wants)
<1>1. CASE p = Head(q).prop
  <2>1. Has(b, p) = Head(q).value BY <1>1 DEF Takes
  <2> QED BY <1>1, <2>1, HandledIt
<1>2. CASE p # Head(q).prop
  <2>1. Has(b, p) = Has(a, p) BY <1>2 DEF Takes
  <2> QED BY <1>2, <2>1, HandledOther
<1> QED BY <1>1, <1>2

LEMMA HandleSetInv == ASSUME LibInv, HandleSet PROVE LibInv'
<1> DEFINE m == Head(toApplet)
<1>1. toApplet # <<>> /\ toApplet' = Tail(toApplet) /\ toApplet \in Seq(Sets)
      /\ UNCHANGED <<toPanel, panelSet, pixmap, panelKnows, inMenu, sets>>
  BY DEF HandleSet, LibInv, Typed
<1>2. m \in Sets /\ Takes(app, app', m) BY <1>1, AppletTakes
<1>3. /\ toApplet' \in Seq(Sets) /\ Len(toApplet') = Len(toApplet) - 1
      /\ Len(toApplet) \in Nat /\ m = toApplet[1]
      /\ \A i \in 1 .. Len(toApplet') : toApplet'[i] = toApplet[i + 1]
  BY <1>1
<1>4. Typed'
  <2>1. Len(toApplet') <= MaxInTransit BY <1>3, LibBoundAssumption DEF LibInv, Typed
  <2> QED BY <1>1, <1>2, <1>3, <2>1 DEF LibInv, Typed, Takes
<1>5. OwnCodeTold(app)' BY <1>2 DEF Takes, OwnCodeTold
<1>6. Known' BY <1>1, <1>2 DEF LibInv, Known, Takes
<1>7. Drawn(app)' BY <1>1, <1>2, DrawnAfter DEF Takes
<1>8. Heard'
  <2>1. /\ OnItsWay(toApplet, "orient", Has(app, "orient"), panelSet.orient)
        /\ OnItsWay(toApplet, "size", Has(app, "size"), panelSet.size)
        /\ OnItsWay(toApplet, "locked", Has(app, "locked"), panelSet.locked)
        /\ OnItsWay(toApplet, "backdrop", Has(app, "backdrop"), panelSet.backdrop)
    BY DEF LibInv, Heard, Has
  <2>2. /\ OnItsWay(toApplet', "orient", Has(app', "orient"), panelSet.orient)
        /\ OnItsWay(toApplet', "size", Has(app', "size"), panelSet.size)
        /\ OnItsWay(toApplet', "locked", Has(app', "locked"), panelSet.locked)
        /\ OnItsWay(toApplet', "backdrop", Has(app', "backdrop"), panelSet.backdrop)
    BY <1>1, <1>2, <2>1, HandledOne DEF Properties
  <2> QED BY <1>1, <2>2 DEF Heard, Has
<1>9. Numbered'
  <2>1. Has(app', "backdrop") = IF m.prop = "backdrop" THEN m.value ELSE Has(app, "backdrop")
    BY <1>2 DEF Takes, Properties
  <2>2. m.prop = "backdrop" => Past(m.value, sets)
    <3>1. 1 \in 1 .. Len(toApplet) BY <1>1, <1>3
    <3> QED BY <1>3, <3>1 DEF LibInv, Numbered
  <2>3. Past(app'.backdrop, sets) BY <2>1, <2>2 DEF LibInv, Numbered, Has
  <2>4. ASSUME NEW i \in 1 .. Len(toApplet'), toApplet'[i].prop = "backdrop"
        PROVE  Past(toApplet'[i].value, sets)
    <3>1. i + 1 \in 1 .. Len(toApplet) /\ toApplet'[i] = toApplet[i + 1] BY <1>3
    <3> QED BY <2>4, <3>1 DEF LibInv, Numbered
  <2> QED BY <1>1, <2>3, <2>4 DEF LibInv, Numbered, Current
<1> QED BY <1>4, <1>5, <1>6, <1>7, <1>8, <1>9 DEF LibInv

-----------------------------------------------------------------------------
(***************************************************************************)
(* The window of the applet.                                               *)
(***************************************************************************)
\* The applet changes itself, in nothing that it or the panel set.
LEMMA WindowInv ==
  ASSUME LibInv, NEW b \in Apps, app' = b, SameProps(app, b), b.backdrop = app.backdrop,
         Drawn(b), sets' = sets \/ sets' = sets + 1, sets' \in 0 .. MaxSets,
         UNCHANGED <<toApplet, toPanel, panelSet, pixmap, panelKnows, inMenu>>
  PROVE  LibInv'
<1>1. Typed' BY DEF LibInv, Typed
<1>2. OwnCodeTold(app)' BY DEF LibInv, OwnCodeTold, SameProps
<1>3. Heard' /\ Known' BY DEF LibInv, Heard, Known, SameProps
<1>4. Drawn(app)' BY DrawnAfter
<1>5. Numbered'
  <2>1. Past(app'.backdrop, sets') BY PastStays DEF LibInv, Numbered
  <2>2. pixmap <= sets' BY DEF LibInv, Typed, Numbered
  <2>3. ASSUME NEW i \in 1 .. Len(toApplet), toApplet[i].prop = "backdrop"
        PROVE  Past(toApplet[i].value, sets')
    BY <2>3, PastStays DEF LibInv, Numbered
  <2> QED BY <2>1, <2>2, <2>3 DEF LibInv, Numbered, Current
<1> QED BY <1>1, <1>2, <1>3, <1>4, <1>5 DEF LibInv

LEMMA EmbeddedInv == ASSUME LibInv, NEW paints \in BOOLEAN, Embedded(paints) PROVE LibInv'
<1> DEFINE painted == IF paints /\ app.realized THEN Look(app) ELSE app.painted
           b == [app EXCEPT !.embedded = TRUE, !.menu = TRUE, !.paints = paints,
                            !.painted = painted]
<1>1. app' = b /\ UNCHANGED <<toApplet, toPanel, panelSet, pixmap, panelKnows, inMenu, sets>>
  BY DEF Embedded
<1>2. app \in Apps /\ pixmap \in Nat /\ Drawn(app) /\ sets \in 0 .. MaxSets
  BY DEF LibInv, Typed
<1>3. painted \in Looks BY <1>2, LookTyped DEF Apps
<1>4. /\ b.told = app.told /\ b.realized = app.realized /\ b.backdrop = app.backdrop
      /\ b.width = app.width /\ b.paints = paints /\ b.painted = painted
  BY <1>2 DEF Apps
<1>5. SameProps(app, b) BY <1>2 DEF Apps, SameProps
<1>6. Look(b) = Look(app) BY <1>4 DEF Look
<1>7. Drawn(b) BY <1>2, <1>4, <1>6 DEF Drawn
<1> HIDE DEF painted
<1>8. b \in Apps BY <1>2, <1>3 DEF Apps
<1> HIDE DEF b
<1> QED BY <1>1, <1>2, <1>4, <1>5, <1>7, <1>8, WindowInv

LEMMA RealizeInv == ASSUME LibInv, Realize PROVE LibInv'
<1> DEFINE a == [app EXCEPT !.realized = TRUE]
<1>1. ~app.realized
      /\ UNCHANGED <<toApplet, toPanel, panelSet, pixmap, panelKnows, inMenu, sets>>
      /\ app' = IF a.backdrop # NoValue THEN HandleBackground(a) ELSE a
  BY DEF Realize
<1>2. app \in Apps /\ pixmap \in Nat /\ Drawn(app) /\ sets \in 0 .. MaxSets
  BY DEF LibInv, Typed
<1>3. a \in Apps /\ SameProps(app, a) /\ a.backdrop = app.backdrop
      /\ a.painted = app.painted /\ a.realized /\ a.told = app.told
  BY <1>2 DEF Apps, SameProps
<1>4. a.painted = None BY <1>1, <1>2, <1>3 DEF Drawn
<1> HIDE DEF a
<1>5. CASE a.backdrop # NoValue
  <2>1. /\ HandleBackground(a) \in Apps /\ Drawn(HandleBackground(a))
        /\ SameProps(a, HandleBackground(a)) /\ HandleBackground(a).backdrop = a.backdrop
    BY <1>2, <1>3, <1>4, BackgroundHandled
  <2>2. SameProps(app, HandleBackground(a)) BY <1>3, <2>1 DEF SameProps
  <2> QED BY <1>1, <1>2, <1>3, <1>5, <2>1, <2>2, WindowInv
<1>6. CASE a.backdrop = NoValue
  <2>1. Drawn(a)
    <3>1. Look(a) = None BY <1>3, <1>6, LookNone
    <3>2. a.told.backdrop = None BY <1>1, <1>2, <1>3 DEF Drawn
    <3> QED BY <1>3, <1>4, <3>1, <3>2 DEF Drawn
  <2> QED BY <1>1, <1>2, <1>3, <1>6, <2>1, WindowInv
<1> QED BY <1>5, <1>6

LEMMA SizeAllocateInv ==
  ASSUME LibInv, NEW w \in Widths, SizeAllocate(w) PROVE LibInv'
<1> DEFINE a == [app EXCEPT !.width = w]
<1>1. app' = HandleBackground(a)
      /\ UNCHANGED <<toApplet, toPanel, panelSet, pixmap, panelKnows, inMenu>>
  BY DEF SizeAllocate
<1>2. app \in Apps /\ pixmap \in Nat /\ Drawn(app) BY DEF LibInv, Typed
<1>3. sets' \in 0 .. MaxSets /\ sets' = sets + 1 BY CountTyped DEF LibInv, SizeAllocate
<1>4. a \in Apps /\ SameProps(app, a) /\ a.backdrop = app.backdrop
      /\ a.painted = app.painted /\ a.realized = app.realized
  BY <1>2 DEF Apps, SameProps
<1>5. ~a.realized => a.painted = None BY <1>2, <1>4 DEF Drawn
<1> HIDE DEF a
<1>6. /\ HandleBackground(a) \in Apps /\ Drawn(HandleBackground(a))
      /\ SameProps(a, HandleBackground(a)) /\ HandleBackground(a).backdrop = a.backdrop
  BY <1>2, <1>4, <1>5, BackgroundHandled
<1>7. SameProps(app, HandleBackground(a)) BY <1>4, <1>6 DEF SameProps
<1> QED BY <1>1, <1>3, <1>4, <1>6, <1>7, WindowInv

-----------------------------------------------------------------------------
(***************************************************************************)
(* What the applet tells the panel.                                        *)
(***************************************************************************)
\* What is unchanged when the applet tells the panel something.
Untold == UNCHANGED <<toApplet, panelSet, pixmap, panelKnows>>

LEMMA TellTyped ==
  ASSUME Typed, NEW what, NEW v, Tell(what, v), [prop |-> what, value |-> v] \in Signals
  PROVE  toPanel' \in Seq(Signals) /\ Len(toPanel') <= MaxInTransit
<1>1. toPanel \in Seq(Signals) /\ Len(toPanel) < MaxInTransit
      /\ toPanel' = Append(toPanel, [prop |-> what, value |-> v])
  BY DEF Typed, Tell
<1>2. toPanel' \in Seq(Signals) BY <1>1
<1>3. Len(toPanel') <= MaxInTransit BY <1>1, LibBoundAssumption
<1> QED BY <1>2, <1>3

LEMMA TellOther ==
  ASSUME Typed, NEW what, NEW v, Tell(what, v), [prop |-> what, value |-> v] \in Signals,
         NEW p, p # what, NEW has, NEW wants, OnItsWay(toPanel, p, has, wants)
  PROVE  OnItsWay(toPanel', p, has, wants)
<1> DEFINE m == [prop |-> what, value |-> v]
<1>1. toPanel \in Seq(Signals) /\ toPanel' = Append(toPanel, m) /\ m \in Signals
      /\ m.prop = what
  BY DEF Typed, Tell
<1> HIDE DEF m
<1> QED BY <1>1, SentOther

LEMMA TellIt ==
  ASSUME Typed, NEW what, NEW v, Tell(what, v), [prop |-> what, value |-> v] \in Signals,
         NEW has
  PROVE  OnItsWay(toPanel', what, has, v)
<1> DEFINE m == [prop |-> what, value |-> v]
<1>1. toPanel \in Seq(Signals) /\ toPanel' = Append(toPanel, m) /\ m \in Signals
      /\ m.prop = what /\ m.value = v
  BY DEF Typed, Tell
<1> HIDE DEF m
<1> QED BY <1>1, SentLast

\* The parts of the invariant that a change of the flags or the hints leaves alone.
LEMMA ToldInv ==
  ASSUME LibInv, Untold, NEW b \in Apps, app' = b, OwnCodeTold(b), SameLook(app, b),
         b.orient = app.orient, b.size = app.size, b.locked = app.locked,
         sets' = sets \/ sets' = sets + 1, sets' \in 0 .. MaxSets
  PROVE  OwnCodeTold(app)' /\ Heard' /\ Drawn(app)' /\ Numbered'
<1>1. OwnCodeTold(app)' BY DEF OwnCodeTold
<1>2. Heard' BY DEF LibInv, Heard, SameLook, Untold
<1>3. Drawn(app)'
  <2>1. Drawn(b) BY DrawnKept DEF LibInv
  <2> QED BY <2>1, DrawnAfter DEF Untold
<1>4. Numbered'
  <2>1. Past(app'.backdrop, sets') BY PastStays DEF LibInv, Numbered, SameLook
  <2>2. pixmap <= sets' BY DEF LibInv, Typed, Numbered
  <2>3. ASSUME NEW i \in 1 .. Len(toApplet), toApplet[i].prop = "backdrop"
        PROVE  Past(toApplet[i].value, sets')
    BY <2>3, PastStays DEF LibInv, Numbered
  <2> QED BY <2>1, <2>2, <2>3 DEF LibInv, Numbered, Current, Untold
<1> QED BY <1>1, <1>2, <1>3, <1>4

LEMMA SetFlagsInv == ASSUME LibInv, NEW f \in Flags, SetFlags(f) PROVE LibInv'
<1> DEFINE b == [app EXCEPT !.flags = f]
<1>1. app' = b /\ Untold /\ inMenu' = inMenu /\ Tell("flags", f)
  BY DEF SetFlags, Untold
<1>2. sets' \in 0 .. MaxSets /\ sets' = sets + 1 BY CountTyped DEF LibInv, SetFlags
<1>3. app \in Apps /\ OwnCodeTold(app) BY DEF LibInv, Typed
<1>4. b \in Apps /\ SameLook(app, b) BY <1>3 DEF Apps, SameLook
<1>5. OwnCodeTold(b) BY <1>3 DEF OwnCodeTold, Apps
<1>6. b.orient = app.orient /\ b.size = app.size /\ b.locked = app.locked
      /\ b.hints = app.hints /\ b.flags = f
  BY <1>3 DEF Apps
<1> HIDE DEF b
<1>7. [prop |-> "flags", value |-> f] \in Signals BY DEF Signals
<1>8. Typed' BY <1>1, <1>2, <1>4, <1>7, TellTyped DEF LibInv, Typed, Untold
<1>9. Known'
  <2>1. OnItsWay(toPanel', "flags", panelKnows.flags, f) BY <1>1, <1>7, TellIt DEF LibInv
  <2>2. OnItsWay(toPanel', "hints", panelKnows.hints, app.hints)
    BY <1>1, <1>7, TellOther DEF LibInv, Known
  <2> QED BY <1>1, <1>6, <2>1, <2>2 DEF Known, Untold
<1>10. OwnCodeTold(app)' /\ Heard' /\ Drawn(app)' /\ Numbered'
  BY <1>1, <1>2, <1>4, <1>5, <1>6, ToldInv
<1> QED BY <1>8, <1>9, <1>10 DEF LibInv

LEMMA SetSizeHintsInv ==
  ASSUME LibInv, NEW h \in {1, 2}, NEW base \in {0, 1}, SetSizeHints(h, base) PROVE LibInv'
<1> DEFINE v == h + base
           b == [app EXCEPT !.hints = v]
<1>1. app' = b /\ Untold /\ inMenu' = inMenu /\ Tell("hints", v)
  BY DEF SetSizeHints, Untold
<1>2. sets' \in 0 .. MaxSets /\ sets' = sets + 1 BY CountTyped DEF LibInv, SetSizeHints
<1>3. app \in Apps /\ OwnCodeTold(app) /\ v \in 1 .. 3 BY DEF LibInv, Typed
<1> HIDE DEF v
<1>4. b \in Apps /\ SameLook(app, b) BY <1>3 DEF Apps, SameLook
<1>5. OwnCodeTold(b) BY <1>3 DEF OwnCodeTold, Apps
<1>6. b.orient = app.orient /\ b.size = app.size /\ b.locked = app.locked
      /\ b.flags = app.flags /\ b.hints = v
  BY <1>3 DEF Apps
<1> HIDE DEF b
<1>7. [prop |-> "hints", value |-> v] \in Signals BY <1>3 DEF Signals
<1>8. Typed' BY <1>1, <1>2, <1>4, <1>7, TellTyped DEF LibInv, Typed, Untold
<1>9. Known'
  <2>1. OnItsWay(toPanel', "hints", panelKnows.hints, v) BY <1>1, <1>7, TellIt DEF LibInv
  <2>2. OnItsWay(toPanel', "flags", panelKnows.flags, app.flags)
    BY <1>1, <1>7, TellOther DEF LibInv, Known
  <2> QED BY <1>1, <1>6, <2>1, <2>2 DEF Known, Untold
<1>10. OwnCodeTold(app)' /\ Heard' /\ Drawn(app)' /\ Numbered'
  BY <1>1, <1>2, <1>4, <1>5, <1>6, ToldInv
<1> QED BY <1>8, <1>9, <1>10 DEF LibInv

LEMMA SameInv ==
  ASSUME LibInv, Untold, app' = app, sets' = sets
  PROVE  OwnCodeTold(app)' /\ Heard' /\ Drawn(app)' /\ Numbered'
<1>1. app \in Apps /\ OwnCodeTold(app) /\ sets \in 0 .. MaxSets BY DEF LibInv, Typed
<1>2. SameLook(app, app) BY DEF SameLook
<1> QED BY <1>1, <1>2, ToldInv

LEMMA MenuInv ==
  ASSUME LibInv, CloseMenu \/ \E edit \in BOOLEAN : PopupMenu(edit) PROVE LibInv'
<1>1. Untold /\ app' = app /\ sets' = sets /\ toPanel' = toPanel
      /\ inMenu' \in {"none", "own", "edit"}
  BY DEF CloseMenu, PopupMenu, Untold
<1>2. Typed' BY <1>1 DEF LibInv, Typed, Untold
<1>3. Known' BY <1>1 DEF LibInv, Known, Untold
<1> QED BY <1>1, <1>2, <1>3, SameInv DEF LibInv

LEMMA MenuCommandInv ==
  ASSUME LibInv, NEW cmd \in {"move", "remove"}, MenuCommand(cmd) PROVE LibInv'
<1> DEFINE v == [locked |-> app.locked]
<1>1. Untold /\ app' = app /\ sets' = sets /\ inMenu' = "none" /\ Tell(cmd, v)
  BY DEF MenuCommand, Untold
<1>2. v \in [locked : BOOLEAN] BY DEF LibInv, Typed, Apps
<1> HIDE DEF v
<1>3. [prop |-> cmd, value |-> v] \in Signals BY <1>2 DEF Signals
<1>4. Typed' BY <1>1, <1>3, TellTyped DEF LibInv, Typed, Untold
<1>5. OnItsWay(toPanel', "flags", panelKnows.flags, app.flags)
  BY <1>1, <1>3, TellOther DEF LibInv, Known
<1>6. OnItsWay(toPanel', "hints", panelKnows.hints, app.hints)
  BY <1>1, <1>3, TellOther DEF LibInv, Known
<1>7. Known' BY <1>1, <1>5, <1>6 DEF Known, Untold
<1> QED BY <1>1, <1>4, <1>7, SameInv DEF LibInv

LEMMA PanelHearsInv == ASSUME LibInv, PanelHears PROVE LibInv'
<1> DEFINE m == Head(toPanel)
<1>1. toPanel # <<>> /\ toPanel \in Seq(Signals) /\ toPanel' = Tail(toPanel)
      /\ UNCHANGED <<app, toApplet, panelSet, pixmap, inMenu, sets>>
      /\ panelKnows' = IF m.prop \in {"flags", "hints"}
                       THEN [panelKnows EXCEPT ![m.prop] = m.value] ELSE panelKnows
  BY DEF PanelHears, LibInv, Typed
<1>2. toPanel' \in Seq(Signals) /\ Len(toPanel') <= MaxInTransit /\ m \in Signals
  BY <1>1, LibBoundAssumption DEF LibInv, Typed
<1>3. /\ OnItsWay(toPanel, "flags", panelKnows.flags, app.flags)
      /\ OnItsWay(toPanel, "hints", panelKnows.hints, app.hints)
      /\ panelKnows \in [flags : Flags \cup {NoFlags}, hints : 1 .. 3 \cup {NoValue}]
  BY DEF LibInv, Known, Typed
<1>4. m.prop # "flags" => OnItsWay(toPanel', "flags", panelKnows.flags, app.flags)
  BY <1>1, <1>3, HandledOther
<1>5. m.prop # "hints" => OnItsWay(toPanel', "hints", panelKnows.hints, app.hints)
  BY <1>1, <1>3, HandledOther
<1>6. m.prop = "flags" => OnItsWay(toPanel', "flags", m.value, app.flags)
  BY <1>1, <1>3, HandledIt
<1>7. m.prop = "hints" => OnItsWay(toPanel', "hints", m.value, app.hints)
  BY <1>1, <1>3, HandledIt
<1>8. m.prop = "flags" => m.value \in Flags BY <1>2 DEF Signals
<1>9. m.prop = "hints" => m.value \in 1 .. 3 BY <1>2 DEF Signals
<1> HIDE DEF m
<1>10. /\ panelKnows' \in [flags : Flags \cup {NoFlags}, hints : 1 .. 3 \cup {NoValue}]
       /\ panelKnows'.flags = IF m.prop = "flags" THEN m.value ELSE panelKnows.flags
       /\ panelKnows'.hints = IF m.prop = "hints" THEN m.value ELSE panelKnows.hints
  <2>1. CASE m.prop = "flags" BY <1>1, <1>3, <1>8, <2>1
  <2>2. CASE m.prop = "hints" BY <1>1, <1>3, <1>9, <2>2
  <2>3. CASE m.prop \notin {"flags", "hints"} BY <1>1, <1>3, <2>3
  <2> QED BY <2>1, <2>2, <2>3
<1>11. Typed' BY <1>1, <1>2, <1>10 DEF LibInv, Typed
<1>12. Known' BY <1>1, <1>4, <1>5, <1>6, <1>7, <1>10 DEF Known
<1>13. OwnCodeTold(app)' /\ Heard' BY <1>1 DEF LibInv, OwnCodeTold, Heard
<1>14. Drawn(app)' BY <1>1, DrawnAfter DEF LibInv
<1>15. Numbered' BY <1>1 DEF LibInv, Numbered, Current
<1> QED BY <1>11, <1>12, <1>13, <1>14, <1>15 DEF LibInv

-----------------------------------------------------------------------------
LEMMA LibStepInv == LibInv /\ [LibNext]_libVars => LibInv'
<1> SUFFICES ASSUME LibInv, [LibNext]_libVars PROVE LibInv' OBVIOUS
<1>1. ASSUME NEW o \in Orients, PanelChanges("orient", o) PROVE LibInv'
  <2>1. [prop |-> "orient", value |-> o] \in Sets BY DEF Sets
  <2> QED BY <1>1, <2>1, PanelChangesInv DEF Properties
<1>2. ASSUME NEW v \in {24, 48}, PanelChanges("size", v) PROVE LibInv'
  <2>1. [prop |-> "size", value |-> v] \in Sets BY DEF Sets
  <2> QED BY <1>2, <2>1, PanelChangesInv DEF Properties
<1>3. ASSUME NEW l \in BOOLEAN, PanelChanges("locked", l) PROVE LibInv'
  <2>1. [prop |-> "locked", value |-> l] \in Sets BY DEF Sets
  <2> QED BY <1>3, <2>1, PanelChangesInv DEF Properties
<1>4. CASE UNCHANGED libVars
  <2>1. Untold /\ app' = app /\ sets' = sets /\ toPanel' = toPanel /\ inMenu' = inMenu
    BY <1>4 DEF libVars, Untold
  <2>2. Typed' /\ Known' BY <2>1 DEF LibInv, Typed, Known, Untold
  <2> QED BY <2>1, <2>2, SameInv DEF LibInv
<1> QED BY <1>1, <1>2, <1>3, <1>4, PanelRepaintsInv, HandleSetInv, RealizeInv, MenuInv,
           PanelHearsInv, EmbeddedInv, SizeAllocateInv, SetFlagsInv, SetSizeHintsInv,
           MenuCommandInv DEF LibNext

\* The invariant says what is to be shown, once no message waits.
LEMMA InvAgrees == LibInv => AppletAndPanelAgree
<1> SUFFICES ASSUME LibInv PROVE AppletAndPanelAgree OBVIOUS
<1>1. ASSUME toApplet = <<>>
      PROVE  /\ app.orient = panelSet.orient /\ app.size = panelSet.size
             /\ app.locked = panelSet.locked /\ app.backdrop = panelSet.backdrop
  <2>1. Len(toApplet) = 0 BY <1>1
  <2>2. \A p : NoneAbout(toApplet, p) BY <2>1 DEF NoneAbout
  <2> QED BY <2>2 DEF LibInv, Heard, OnItsWay
<1>2. ASSUME toApplet = <<>> PROVE HasWhatPanelSet
  BY <1>1, <1>2 DEF LibInv, OwnCodeTold, HasWhatPanelSet
<1>3. ASSUME toApplet = <<>>, app.realized
      PROVE  app.told.backdrop = PanelsLook /\ (app.paints => app.painted = PanelsLook)
  <2>1. Current(app.backdrop) BY <1>1, <1>3 DEF LibInv, Numbered
  <2>2. Look(app) = PanelsLook
    BY <1>1, <1>3, <2>1, DistinctBackdrops, DistinctNoValue
       DEF Look, PanelsLook, Current, Plain
  <2> QED BY <1>3, <2>1, <2>2 DEF LibInv, Drawn
<1>4. ASSUME toPanel = <<>> PROVE panelKnows = [flags |-> app.flags, hints |-> app.hints]
  <2>1. Len(toPanel) = 0 BY <1>4
  <2>2. \A p : NoneAbout(toPanel, p) BY <2>1 DEF NoneAbout
  <2>3. panelKnows.flags = app.flags /\ panelKnows.hints = app.hints
    BY <2>2 DEF LibInv, Known, OnItsWay
  <2>4. panelKnows = [flags |-> panelKnows.flags, hints |-> panelKnows.hints]
    BY DEF LibInv, Typed
  <2> QED BY <2>3, <2>4
<1> QED BY <1>2, <1>3, <1>4 DEF AppletAndPanelAgree

\* The invariant of this module, which the two properties follow from, holds in
\* every state of the panel and the applet (panel_applet_* and its callbacks).
THEOREM LibInvariance == LibSpec => []LibInv
BY LibInitInv, LibStepInv, PTL DEF LibSpec

\* Every variable keeps its type, whatever the panel and the applet tell each other.
THEOREM LibTypeCorrect == LibSpec => []LibTypeOK
BY LibInvariance, InvTypeOK, PTL

\* However many messages wait, and however often the panel frees a pixmap and the
\* applet is realized or resized in between, they agree once all is handled
\* (panel_applet_handle_background, set_property_cb).
THEOREM SidesAgree == LibSpec => []AppletAndPanelAgree
BY LibInvariance, InvAgrees, PTL

-----------------------------------------------------------------------------
(* The notification area. *)

\* The entries of what is left are those of s in the order of s.
KeepsOrder(r, s) ==
  \A i, j \in DOMAIN r : i < j => \E k, l \in DOMAIN s : k < l /\ r[i] = s[k] /\ r[j] = s[l]

LEMMA RemoveFirstLeaves ==
  ASSUME NEW S, NEW s \in Seq(S), IsInjective(s), NEW e
  PROVE  /\ RemoveFirst(s, e) \in Seq(S)
         /\ ToSet(RemoveFirst(s, e)) = ToSet(s) \ {e}
         /\ IsInjective(RemoveFirst(s, e))
         /\ KeepsOrder(RemoveFirst(s, e), s)
<1> DEFINE T == {i \in 1 .. Len(s) : s[i] = e}
<1>1. DOMAIN s = 1 .. Len(s) /\ Len(s) \in Nat OBVIOUS
<1>2. CASE T = {}
  <2>1. RemoveFirst(s, e) = s BY <1>2 DEF RemoveFirst
  <2>2. e \notin ToSet(s) BY <1>1, <1>2 DEF ToSet
  <2>3. KeepsOrder(s, s) BY DEF KeepsOrder
  <2> QED BY <2>1, <2>2, <2>3
<1>3. CASE T # {}
  <2> DEFINE m == Min(T)
             r == RemoveAt(s, m)
  <2>1. m \in T
    <3>1. T \in SUBSET Nat BY <1>1
    <3> HIDE DEF T
    <3> QED BY <1>3, <3>1, MinInSet
  <2>2. RemoveFirst(s, e) = r
    <3>1. SelectInSeq(s, LAMBDA v : v = e) = m BY <1>3 DEF SelectInSeq
    <3> QED BY <1>3, <3>1 DEF RemoveFirst
  <2> HIDE DEF m
  <2>3. m \in 1 .. Len(s) /\ s[m] = e BY <2>1
  <2>4. /\ r \in Seq(S) /\ Len(r) = Len(s) - 1
        /\ \A k \in 1 .. Len(s) - 1 : r[k] = IF k < m THEN s[k] ELSE s[k + 1]
    BY <2>3, RemoveAtIs
  <2> HIDE DEF r, T
  <2>5. DOMAIN r = 1 .. Len(s) - 1 BY <2>4
  <2>6. ToSet(r) = ToSet(s) \ {e}
    <3>1. ASSUME NEW x \in ToSet(r) PROVE x \in ToSet(s) \ {e}
      <4>1. PICK k \in 1 .. Len(s) - 1 : x = r[k] BY <2>5, <3>1 DEF ToSet
      <4>2. PICK l \in 1 .. Len(s) : l # m /\ x = s[l]
        <5>1. CASE k < m BY <1>1, <2>4, <4>1, <5>1
        <5>2. CASE ~(k < m)
          <6>1. k + 1 \in 1 .. Len(s) /\ k + 1 # m BY <1>1, <2>3, <4>1, <5>2
          <6>2. x = s[k + 1] BY <2>4, <4>1, <5>2
          <6> QED BY <6>1, <6>2
        <5> QED BY <5>1, <5>2
      <4> QED BY <1>1, <2>3, <4>2 DEF IsInjective, ToSet
    <3>2. ASSUME NEW x \in ToSet(s) \ {e} PROVE x \in ToSet(r)
      <4>1. PICK l \in 1 .. Len(s) : x = s[l] BY <1>1, <3>2 DEF ToSet
      <4>2. l # m BY <2>3, <4>1, <3>2
      <4>3. CASE l < m
        <5>1. l \in 1 .. Len(s) - 1 /\ r[l] = s[l] BY <1>1, <2>3, <2>4, <4>1, <4>3
        <5> QED BY <2>5, <4>1, <5>1 DEF ToSet
      <4>4. CASE l > m
        <5>1. l - 1 \in 1 .. Len(s) - 1 /\ ~(l - 1 < m) BY <1>1, <2>3, <4>1, <4>4
        <5>2. r[l - 1] = s[(l - 1) + 1] BY <2>4, <5>1
        <5>3. (l - 1) + 1 = l BY <4>1
        <5> QED BY <2>5, <4>1, <5>1, <5>2, <5>3 DEF ToSet
      <4> QED BY <2>3, <4>1, <4>2, <4>3, <4>4
    <3> QED BY <3>1, <3>2
  <2>7. KeepsOrder(r, s)
    <3> SUFFICES ASSUME NEW i \in DOMAIN r, NEW j \in DOMAIN r, i < j
                 PROVE  \E k, l \in DOMAIN s : k < l /\ r[i] = s[k] /\ r[j] = s[l]
      BY DEF KeepsOrder
    <3>0. i \in 1 .. Len(s) - 1 /\ j \in 1 .. Len(s) - 1 BY <2>5
    <3> DEFINE k == IF i < m THEN i ELSE i + 1
               l == IF j < m THEN j ELSE j + 1
    <3>1. k \in 1 .. Len(s) /\ l \in 1 .. Len(s) /\ k < l BY <1>1, <2>3, <3>0
    <3>2. r[i] = s[k] /\ r[j] = s[l] BY <2>4, <3>0
    <3> HIDE DEF k, l
    <3> QED BY <1>1, <3>1, <3>2
  <2>8. IsInjective(r)
    <3> SUFFICES ASSUME NEW i \in 1 .. Len(s) - 1, NEW j \in 1 .. Len(s) - 1, r[i] = r[j], i < j
                 PROVE  FALSE
      BY <1>1, <2>5 DEF IsInjective
    <3>1. PICK k, l \in 1 .. Len(s) : k < l /\ r[i] = s[k] /\ r[j] = s[l]
      BY <1>1, <2>5, <2>7 DEF KeepsOrder
    <3>2. s[k] = s[l] BY <3>1
    <3>3. k = l BY <1>1, <3>1, <3>2 DEF IsInjective
    <3> QED BY <3>1, <3>3
  <2> QED BY <2>2, <2>4, <2>6, <2>7, <2>8
<1> QED BY <1>2, <1>3

-----------------------------------------------------------------------------
Sideways == {"horizontal", "vertical"}

TrayTypes ==
  /\ allTrays \in Seq(Trays) /\ orientation \in [Trays -> Sideways]
  /\ box \in [Trays -> Seq(Windows)]
  /\ manager \in [made : BOOLEAN, owner : BOOLEAN, orientation : Sideways,
                  padding : Paddings \cup {0}]
  /\ socketTable \subseteq Windows /\ unplugged \subseteq Windows
  /\ clients \in [Windows -> {"gone", "free", "asked", "embedded"}]
  /\ theme \in Paddings \cup {0} /\ background \in Nat /\ drawn \in [Windows -> Nat]

\* A request goes to the window of a manager that has the selection.
RequestsReach ==
  /\ manager.owner => manager.made
  /\ \A w \in Windows : clients[w] = "asked" => manager.owner
  /\ \A w \in unplugged : clients[w] = "gone"

TrayInv ==
  /\ TrayTypes /\ TrayTypeOK /\ RequestsReach
  /\ IconsAreEmbedded /\ ToldIsFirstTray

LEMMA TrayInitHolds ==
  ASSUME TrayAssumption, TrayInit
  PROVE  TrayInv
<1> USE DEF TrayInit
<1>1. TrayTypes BY DEF TrayTypes, NoManager, Sideways
<1>2. TrayTypeOK /\ RequestsReach
  BY DEF TrayTypeOK, RequestsReach, NoManager, ToSet, IsInjective
<1>3. IconsAreEmbedded BY DEF IconsAreEmbedded, ToSet, IsInjective
<1>4. ToldIsFirstTray BY DEF ToldIsFirstTray, ToSet
<1> QED BY <1>1, <1>2, <1>3, <1>4 DEF TrayInv

\* What the first tray is when one is added at the end.
LEMMA FirstOfMore ==
  ASSUME NEW trays \in Seq(Trays), NEW t \in Trays
  PROVE  /\ Append(trays, t) # <<>>
         /\ Head(Append(trays, t)) = IF trays = <<>> THEN t ELSE Head(trays)
<1>1. Len(Append(trays, t)) = Len(trays) + 1 /\ Len(trays) \in Nat OBVIOUS
<1>2. CASE trays = <<>> BY <1>2
<1>3. CASE trays # <<>>
  <2>1. 1 \in 1 .. Len(trays) BY <1>1, <1>3
  <2>2. Append(trays, t)[1] = trays[1] BY <2>1
  <2> QED BY <1>1, <1>3, <2>2
<1> QED BY <1>2, <1>3

LEMMA HeadIsIn ==
  ASSUME NEW S, NEW s \in Seq(S), s # <<>>
  PROVE  Head(s) \in S /\ Head(s) \in ToSet(s)
<1>1. 1 \in 1 .. Len(s) /\ Head(s) = s[1] OBVIOUS
<1> QED BY <1>1 DEF ToSet

LEMMA RealizeTrayKeeps ==
  ASSUME TrayAssumption, TrayInv, NEW t \in Trays, RealizeTray(t)
  PROVE  TrayInv'
<1> USE DEF TrayInv
<1> DEFINE trays == Append(allTrays, t)
<1>1. /\ allTrays' = trays /\ t \notin ToSet(allTrays)
      /\ UNCHANGED <<orientation, box, socketTable, clients, unplugged, theme, background,
                     drawn, redraws>>
  BY DEF RealizeTray
<1>2. trays \in Seq(Trays) /\ ToSet(trays) = ToSet(allTrays) \cup {t} /\ IsInjective(trays)
  BY <1>1, AppendAdds DEF TrayTypes, TrayTypeOK
<1>3. trays # <<>> /\ Head(trays) = IF allTrays = <<>> THEN t ELSE Head(allTrays)
  BY FirstOfMore DEF TrayTypes
<1>4. allTrays # <<>> => Head(allTrays) # t BY <1>1, HeadIsIn DEF TrayTypes
<1> HIDE DEF trays
<1>5. manager' = IF allTrays = <<>>
                 THEN TellPadding(TellOrientation(Managing, orientation[t]), theme) ELSE manager
  BY <1>3, <1>4 DEF RealizeTray, IsFirst, trays, TrayTypeOK
<1>6. manager'.made /\ (allTrays = <<>> => manager'.owner)
      /\ (allTrays # <<>> => manager' = manager)
  BY <1>5 DEF TellPadding, TellOrientation, Managing, NoManager, TrayTypeOK
<1>7. allTrays = <<>> => manager'.orientation = orientation[t] /\ manager'.padding = theme
  BY <1>5 DEF TellPadding, TellOrientation, Managing, NoManager
<1>8. TrayTypes'
  <2>1. manager' \in [made : BOOLEAN, owner : BOOLEAN, orientation : Sideways,
                      padding : Paddings \cup {0}]
    BY <1>5 DEF TellPadding, TellOrientation, Managing, NoManager, TrayTypes
  <2> QED BY <1>1, <1>2, <2>1 DEF TrayTypes
<1>9. TrayTypeOK' BY <1>1, <1>2, <1>3, <1>6 DEF TrayTypeOK
<1>10. RequestsReach' BY <1>1, <1>6 DEF RequestsReach, TrayTypeOK
<1>11. IconsAreEmbedded' BY <1>1 DEF IconsAreEmbedded
<1>12. ToldIsFirstTray'
  BY <1>1, <1>3, <1>6, <1>7 DEF ToldIsFirstTray
<1> QED BY <1>8, <1>9, <1>10, <1>11, <1>12

LEMMA UnrealizeKeeps ==
  ASSUME TrayAssumption, TrayInv, NEW t \in Trays, Unrealize(t)
  PROVE  TrayInv'
<1> USE DEF TrayInv
<1> DEFINE trays == RemoveFirst(allTrays, t)
           after == IF trays = <<>> THEN RequestsLost ELSE clients
<1>1. /\ allTrays' = trays /\ t \in ToSet(allTrays)
      /\ manager' = IF trays = <<>> THEN NoManager
                    ELSE TellOrientation(manager, orientation[Head(trays)])
      /\ socketTable' = IF trays = <<>> THEN {} ELSE socketTable
      /\ box' = [box EXCEPT ![t] = <<>>]
      /\ clients' = [w \in Windows |-> IF w \in ToSet(box[t]) \ unplugged THEN "free"
                                       ELSE after[w]]
      /\ unplugged' = unplugged \ ToSet(box[t])
      /\ redraws' = redraws \ {t}
      /\ UNCHANGED <<orientation, theme, background, drawn>>
  BY DEF Unrealize
<1>2. trays \in Seq(Trays) /\ ToSet(trays) = ToSet(allTrays) \ {t} /\ IsInjective(trays)
  BY RemoveFirstLeaves DEF TrayTypes, TrayTypeOK
<1>3. trays # <<>> => Head(trays) \in Trays BY <1>2, HeadIsIn
<1>4. trays = <<>> => \A o \in Trays \ {t} : box[o] = <<>>
  BY <1>2 DEF ToSet, TrayTypeOK
<1> HIDE DEF trays
<1>5. \A w \in Windows : after[w] = "embedded" <=> clients[w] = "embedded"
  BY DEF RequestsLost, TrayTypes
<1>6. \A w \in Windows : after[w] \in {"gone", "free", "asked", "embedded"}
  BY DEF RequestsLost, TrayTypes
<1>7. \A w \in Windows : after[w] = "asked" => trays # <<>> /\ clients[w] = "asked"
  BY DEF RequestsLost, TrayTypes
<1> HIDE DEF after
<1>8. box' \in [Trays -> Seq(Windows)] /\ box'[t] = <<>>
      /\ \A o \in Trays \ {t} : box'[o] = box[o]
  BY <1>1 DEF TrayTypes
<1>9. ToSet(<<>>) = {} BY DEF ToSet
<1>10. manager' \in [made : BOOLEAN, owner : BOOLEAN, orientation : Sideways,
                    padding : Paddings \cup {0}]
       /\ (manager'.made <=> trays # <<>>)
       /\ (manager'.owner <=> trays # <<>> /\ manager.owner)
       /\ (trays # <<>> => /\ manager'.orientation = orientation[Head(trays)]
                           /\ manager'.padding = manager.padding)
  <2>1. allTrays # <<>> BY <1>1 DEF ToSet
  <2> QED BY <1>1, <1>3, <2>1 DEF TellOrientation, NoManager, TrayTypes, TrayTypeOK, Sideways
<1>11. TrayTypes' BY <1>1, <1>2, <1>6, <1>8, <1>10 DEF TrayTypes
<1>12. unplugged' \subseteq socketTable'
  <2>1. CASE trays = <<>>
    <3>1. ASSUME NEW w \in unplugged PROVE w \in ToSet(box[t])
      <4>1. PICK o \in Trays : w \in ToSet(box[o]) BY <3>1 DEF IconsAreEmbedded
      <4> QED BY <1>4, <1>9, <2>1, <4>1
    <3> QED BY <1>1, <3>1
  <2>2. CASE trays # <<>> BY <1>1, <2>2 DEF TrayTypeOK
  <2> QED BY <2>1, <2>2
<1>13. TrayTypeOK' BY <1>1, <1>2, <1>8, <1>9, <1>10, <1>12 DEF TrayTypeOK, TrayTypes
<1>14. RequestsReach'
  <2>1. \A w \in unplugged' : clients'[w] = "gone"
    <3>1. \A w \in unplugged : clients[w] = "gone" /\ after[w] = "gone"
      BY DEF RequestsReach, RequestsLost, after, TrayTypes
    <3> QED BY <1>1, <3>1 DEF TrayTypes
  <2> QED BY <1>1, <1>7, <1>10, <2>1 DEF RequestsReach
<1>15. IconsAreEmbedded'
  <2> DEFINE all == UNION {ToSet(box[o]) : o \in Trays}
             all2 == UNION {ToSet(box'[o]) : o \in Trays}
  <2>1. all = {w \in Windows : clients[w] = "embedded"} \cup unplugged
        /\ all \subseteq socketTable
        /\ \A o, p \in Trays : o # p => ToSet(box[o]) \cap ToSet(box[p]) = {}
    BY DEF IconsAreEmbedded
  <2>2. all2 = all \ ToSet(box[t])
    <3>1. ASSUME NEW x \in all2 PROVE x \in all \ ToSet(box[t])
      <4>1. PICK o \in Trays : x \in ToSet(box'[o]) BY <3>1
      <4> QED BY <1>8, <1>9, <2>1, <4>1
    <3>2. ASSUME NEW x \in all \ ToSet(box[t]) PROVE x \in all2
      <4>1. PICK o \in Trays : x \in ToSet(box[o]) BY <3>2
      <4>2. o # t BY <3>2, <4>1
      <4> QED BY <1>8, <4>1, <4>2
    <3> QED BY <3>1, <3>2
  <2>3. all2 = {w \in Windows : clients'[w] = "embedded"} \cup unplugged'
    <3>1. ASSUME NEW w \in Windows
          PROVE  clients'[w] = "embedded"
                   <=> clients[w] = "embedded" /\ w \notin ToSet(box[t]) \ unplugged
      BY <1>1, <1>5
    <3>2. all2 \subseteq Windows BY <2>1, <2>2 DEF TrayTypes
    <3> HIDE DEF all, all2
    <3>3. ASSUME NEW w \in Windows
          PROVE  w \in all2 <=> clients'[w] = "embedded" \/ w \in unplugged'
      <4>1. w \in all2 <=> (clients[w] = "embedded" \/ w \in unplugged) /\ w \notin ToSet(box[t])
        BY <2>1, <2>2
      <4>2. w \in unplugged' <=> w \in unplugged /\ w \notin ToSet(box[t]) BY <1>1
      <4>3. clients[w] = "embedded" => w \notin unplugged BY DEF RequestsReach
      <4> QED BY <3>1, <4>1, <4>2, <4>3
    <3>4. unplugged' \subseteq Windows BY <1>1 DEF TrayTypes
    <3> QED BY <3>2, <3>3, <3>4
  <2>4. all2 \subseteq socketTable'
    <3>1. CASE trays = <<>>
      <4>1. all2 = {}
        <5>1. \A o \in Trays : box'[o] = <<>> BY <1>4, <1>8, <3>1
        <5> QED BY <1>9, <5>1
      <4> QED BY <4>1
    <3>2. CASE trays # <<>> BY <1>1, <2>1, <2>2, <3>2
    <3> QED BY <3>1, <3>2
  <2>5. \A o, p \in Trays : o # p => ToSet(box'[o]) \cap ToSet(box'[p]) = {}
    BY <1>8, <1>9, <2>1
  <2>6. ASSUME NEW o \in Trays
        PROVE  /\ IsInjective(box'[o])
               /\ \A i, j \in DOMAIN box'[o] :
                    i < j => RolePosition[box'[o][i]] <= RolePosition[box'[o][j]]
    BY <1>8 DEF IsInjective, IconsAreEmbedded
  <2> QED BY <2>3, <2>4, <2>5, <2>6 DEF IconsAreEmbedded
<1>16. ToldIsFirstTray'
  <2>1. allTrays # <<>> BY <1>1 DEF ToSet
  <2>2. allTrays' # <<>> /\ manager'.owner =>
          manager'.orientation = orientation'[Head(allTrays')] /\ manager'.padding = theme'
    BY <1>1, <1>10, <2>1 DEF ToldIsFirstTray
  <2>3. ASSUME NEW o \in Trays \ redraws', NEW w \in ToSet(box'[o]) PROVE drawn'[w] = background'
    BY <1>1, <1>8, <1>9, <2>3 DEF ToldIsFirstTray
  <2> QED BY <2>2, <2>3 DEF ToldIsFirstTray
<1> QED BY <1>11, <1>13, <1>14, <1>15, <1>16

\* The things that the simple steps change.
LEMMA ChangeOrientKeeps ==
  ASSUME TrayInv, NEW t \in Trays, NEW o \in Sideways, ChangeOrient(t, o)
  PROVE  TrayInv'
<1> USE DEF TrayInv
<1>1. /\ orientation' = [orientation EXCEPT ![t] = o]
      /\ manager' = IF IsFirst(t, allTrays) THEN [manager EXCEPT !.orientation = o] ELSE manager
      /\ UNCHANGED <<allTrays, box, socketTable, clients, unplugged, theme, background, drawn,
                     redraws>>
  BY DEF ChangeOrient, TellOrientation
<1>2. manager' \in [made : BOOLEAN, owner : BOOLEAN, orientation : Sideways,
                    padding : Paddings \cup {0}]
      /\ manager'.made = manager.made /\ manager'.owner = manager.owner
      /\ manager'.padding = manager.padding
  BY <1>1 DEF TrayTypes
<1>3. TrayTypes' BY <1>1, <1>2 DEF TrayTypes
<1>4. TrayTypeOK' BY <1>1, <1>2 DEF TrayTypeOK
<1>5. RequestsReach' BY <1>1, <1>2 DEF RequestsReach
<1>6. IconsAreEmbedded' BY <1>1 DEF IconsAreEmbedded
<1>7. ToldIsFirstTray'
  <2>1. allTrays # <<>> => Head(allTrays) \in Trays BY HeadIsIn DEF TrayTypes
  <2> QED BY <1>1, <1>2, <2>1 DEF ToldIsFirstTray, IsFirst, TrayTypes
<1> QED BY <1>3, <1>4, <1>5, <1>6, <1>7

LEMMA ChangeThemeKeeps ==
  ASSUME TrayInv, NEW p \in Paddings, ChangeTheme(p)
  PROVE  TrayInv'
<1> USE DEF TrayInv
<1>1. /\ theme' = p
      /\ manager' = IF allTrays # <<>> THEN [manager EXCEPT !.padding = p] ELSE manager
      /\ UNCHANGED <<allTrays, orientation, box, socketTable, clients, unplugged, background,
                     drawn, redraws>>
  BY DEF ChangeTheme, TellPadding
<1>2. manager' \in [made : BOOLEAN, owner : BOOLEAN, orientation : Sideways,
                    padding : Paddings \cup {0}]
      /\ manager'.made = manager.made /\ manager'.owner = manager.owner
      /\ manager'.orientation = manager.orientation
  BY <1>1 DEF TrayTypes
<1>3. TrayTypes' BY <1>1, <1>2 DEF TrayTypes
<1>4. TrayTypeOK' BY <1>1, <1>2 DEF TrayTypeOK
<1>5. RequestsReach' BY <1>1, <1>2 DEF RequestsReach
<1>6. IconsAreEmbedded' BY <1>1 DEF IconsAreEmbedded
<1>7. ToldIsFirstTray'
  <2>1. allTrays # <<>> => manager'.padding = p BY <1>1 DEF TrayTypes
  <2> QED BY <1>1, <1>2, <2>1 DEF ToldIsFirstTray
<1> QED BY <1>3, <1>4, <1>5, <1>6, <1>7

LEMMA ChangeBackgroundKeeps ==
  ASSUME TrayInv, ChangeBackground
  PROVE  TrayInv'
<1> USE DEF TrayInv
<1>1. /\ background' = background + 1 /\ redraws' = ToSet(allTrays)
      /\ UNCHANGED <<allTrays, orientation, box, manager, socketTable, clients, unplugged,
                     theme, drawn>>
  BY DEF ChangeBackground
<1>2. TrayTypes' BY <1>1 DEF TrayTypes
<1>3. TrayTypeOK' BY <1>1 DEF TrayTypeOK
<1>4. RequestsReach' BY <1>1 DEF RequestsReach
<1>5. IconsAreEmbedded' BY <1>1 DEF IconsAreEmbedded
<1>6. ToldIsFirstTray'
  <2>1. ToSet(<<>>) = {} BY DEF ToSet
  <2>2. \A t \in Trays \ redraws' : ToSet(box'[t]) = {} BY <1>1, <2>1 DEF TrayTypeOK
  <2> QED BY <1>1, <2>2 DEF ToldIsFirstTray
<1> QED BY <1>2, <1>3, <1>4, <1>5, <1>6

LEMMA IdleRedrawKeeps ==
  ASSUME TrayInv, NEW t \in Trays, IdleRedraw(t)
  PROVE  TrayInv'
<1> USE DEF TrayInv
<1>1. /\ redraws' = redraws \ {t}
      /\ drawn' = [w \in Windows |-> IF w \in ToSet(box[t]) THEN background ELSE drawn[w]]
      /\ UNCHANGED <<allTrays, orientation, box, manager, socketTable, clients, unplugged,
                     theme, background>>
  BY DEF IdleRedraw
<1>2. TrayTypes' BY <1>1 DEF TrayTypes
<1>3. TrayTypeOK' BY <1>1 DEF TrayTypeOK
<1>4. RequestsReach' BY <1>1 DEF RequestsReach
<1>5. IconsAreEmbedded' BY <1>1 DEF IconsAreEmbedded
<1>6. ToldIsFirstTray'
  <2>1. ASSUME NEW o \in Trays \ redraws', NEW w \in ToSet(box'[o]) PROVE drawn'[w] = background'
    <3>1. w \in Windows BY <1>1, <2>1 DEF TrayTypeOK
    <3> QED BY <1>1, <2>1, <3>1 DEF ToldIsFirstTray
  <2> QED BY <1>1, <2>1 DEF ToldIsFirstTray
<1> QED BY <1>2, <1>3, <1>4, <1>5, <1>6

\* The windows, when no tray, no theme and no background change.
OnlyClients ==
  UNCHANGED <<allTrays, orientation, box, socketTable, theme, background, drawn, redraws>>

LEMMA ClientsKeep ==
  ASSUME TrayInv, OnlyClients,
         \/ LoseSelection
         \/ \E w \in Windows : AskToEmbed(w) \/ Quit(w) \/ StartAgain(w)
  PROVE  TrayInv'
<1> USE DEF TrayInv, OnlyClients
<1>1. CASE LoseSelection
  <2>1. /\ manager' = [manager EXCEPT !.owner = FALSE] /\ unplugged' = unplugged
        /\ clients' = [w \in Windows |-> IF clients[w] = "asked" THEN "free" ELSE clients[w]]
    BY <1>1 DEF LoseSelection, RequestsLost
  <2>2. TrayTypes' BY <2>1 DEF TrayTypes
  <2>3. TrayTypeOK' BY <2>1 DEF TrayTypeOK, TrayTypes
  <2>4. RequestsReach' BY <2>1 DEF RequestsReach, TrayTypes
  <2>5. IconsAreEmbedded'
    <3>1. \A w \in Windows : clients'[w] = "embedded" <=> clients[w] = "embedded" BY <2>1
    <3>2. {w \in Windows : clients'[w] = "embedded"} = {w \in Windows : clients[w] = "embedded"}
      BY <3>1
    <3> QED BY <2>1, <3>2 DEF IconsAreEmbedded
  <2>6. ToldIsFirstTray' BY <2>1 DEF ToldIsFirstTray, TrayTypes
  <2> QED BY <2>2, <2>3, <2>4, <2>5, <2>6
<1>2. ASSUME NEW w \in Windows, AskToEmbed(w) \/ Quit(w) \/ StartAgain(w) PROVE TrayInv'
  <2>1. PICK c \in {"gone", "free", "asked"} :
          /\ clients' = [clients EXCEPT ![w] = c]
          /\ c = "asked" => manager.owner
          /\ w \in unplugged' => c = "gone"
          /\ unplugged' = IF clients[w] = "embedded" THEN unplugged \cup {w} ELSE unplugged
    BY <1>2 DEF AskToEmbed, Quit, StartAgain, TrayTypes, RequestsReach
  <2>2. manager' = manager BY <1>2 DEF AskToEmbed, Quit, StartAgain
  <2>3. TrayTypes' BY <2>1, <2>2 DEF TrayTypes
  <2>4. clients[w] = "embedded" => w \in socketTable BY DEF IconsAreEmbedded
  <2>5. TrayTypeOK' BY <2>1, <2>2, <2>4 DEF TrayTypeOK
  <2>6. RequestsReach' BY <2>1, <2>2 DEF RequestsReach, TrayTypes
  <2>7. IconsAreEmbedded'
    <3>1. {v \in Windows : clients'[v] = "embedded"} \cup unplugged'
          = {v \in Windows : clients[v] = "embedded"} \cup unplugged
      BY <2>1 DEF TrayTypes
    <3> QED BY <3>1 DEF IconsAreEmbedded
  <2>8. ToldIsFirstTray' BY <2>2 DEF ToldIsFirstTray
  <2> QED BY <2>3, <2>5, <2>6, <2>7, <2>8
<1> QED BY <1>1, <1>2

LEMMA PlugRemovedKeeps ==
  ASSUME TrayInv, NEW w \in Windows, PlugRemoved(w)
  PROVE  TrayInv'
<1> USE DEF TrayInv
<1>1. /\ w \in unplugged /\ unplugged' = unplugged \ {w} /\ socketTable' = socketTable \ {w}
      /\ box' = [t \in Trays |-> RemoveFirst(box[t], w)]
      /\ UNCHANGED <<allTrays, orientation, manager, clients, theme, background, drawn, redraws>>
  BY DEF PlugRemoved
<1>2. ASSUME NEW t \in Trays
      PROVE  /\ box'[t] \in Seq(Windows) /\ ToSet(box'[t]) = ToSet(box[t]) \ {w}
             /\ IsInjective(box'[t]) /\ KeepsOrder(box'[t], box[t])
  <2>1. box[t] \in Seq(Windows) /\ IsInjective(box[t]) BY DEF TrayTypes, IconsAreEmbedded
  <2>2. box'[t] = RemoveFirst(box[t], w) BY <1>1
  <2> QED BY <2>1, <2>2, RemoveFirstLeaves
<1>3. TrayTypes'
  <2>1. box' \in [Trays -> Seq(Windows)] BY <1>1, <1>2
  <2> QED BY <1>1, <2>1 DEF TrayTypes
<1>4. TrayTypeOK'
  <2>1. ASSUME NEW t \in Trays, t \notin ToSet(allTrays) PROVE box'[t] = <<>>
    <3>1. box[t] = <<>> BY <2>1 DEF TrayTypeOK
    <3> QED BY <1>1, <3>1 DEF RemoveFirst
  <2>2. \A t \in Trays : ToSet(box'[t]) \subseteq Windows BY <1>2 DEF TrayTypeOK
  <2> QED BY <1>1, <2>1, <2>2 DEF TrayTypeOK
<1>5. RequestsReach' BY <1>1 DEF RequestsReach
<1>6. IconsAreEmbedded'
  <2> DEFINE all == UNION {ToSet(box[t]) : t \in Trays}
             all2 == UNION {ToSet(box'[t]) : t \in Trays}
  <2>1. all2 = all \ {w} BY <1>2
  <2>2. clients[w] = "gone" BY <1>1 DEF RequestsReach
  <2>3. all = {v \in Windows : clients[v] = "embedded"} \cup unplugged
        /\ all \subseteq socketTable
    BY DEF IconsAreEmbedded
  <2> HIDE DEF all, all2
  <2>4. all2 = {v \in Windows : clients'[v] = "embedded"} \cup unplugged'
        /\ all2 \subseteq socketTable'
    BY <1>1, <2>1, <2>2, <2>3
  <2>5. \A t, o \in Trays : t # o => ToSet(box'[t]) \cap ToSet(box'[o]) = {}
    BY <1>2 DEF IconsAreEmbedded
  <2>6. ASSUME NEW t \in Trays, NEW i \in DOMAIN box'[t], NEW j \in DOMAIN box'[t], i < j
        PROVE  RolePosition[box'[t][i]] <= RolePosition[box'[t][j]]
    <3>1. PICK k, l \in DOMAIN box[t] : k < l /\ box'[t][i] = box[t][k] /\ box'[t][j] = box[t][l]
      BY <1>2, <2>6 DEF KeepsOrder
    <3> QED BY <3>1 DEF IconsAreEmbedded
  <2> QED BY <1>2, <2>4, <2>5, <2>6 DEF IconsAreEmbedded, all2
<1>7. ToldIsFirstTray' BY <1>1, <1>2 DEF ToldIsFirstTray
<1> QED BY <1>3, <1>4, <1>5, <1>6, <1>7

\* The place of a new icon: all before it have a role that is not later, and all
\* from there on one that is not earlier.
LEMMA PositionIs ==
  ASSUME TrayAssumption, NEW s \in Seq(Windows), NEW w \in Windows,
         \A i, j \in DOMAIN s : i < j => RolePosition[s[i]] <= RolePosition[s[j]]
  PROVE  /\ Position(s, w) \in 1 .. Len(s) + 1
         /\ \A i \in 1 .. Len(s) :
              IF i < Position(s, w) THEN RolePosition[s[i]] <= RolePosition[w]
              ELSE RolePosition[w] <= RolePosition[s[i]]
<1> DEFINE before == {i \in DOMAIN s : RolePosition[s[i]] = 0
                                        \/ RolePosition[s[i]] < RolePosition[w]}
           p == Position(s, w)
<1>1. DOMAIN s = 1 .. Len(s) /\ Len(s) \in Nat OBVIOUS
<1>2. RolePosition[w] \in Nat /\ \A i \in 1 .. Len(s) : RolePosition[s[i]] \in Nat
  BY DEF TrayAssumption
<1>3. CASE RolePosition[w] = 0
  <2>1. p = 1 BY <1>3 DEF Position
  <2> QED BY <1>1, <1>2, <1>3, <2>1
<1>4. CASE RolePosition[w] # 0 /\ before = {}
  <2>1. p = 1 BY <1>4 DEF Position
  <2>2. \A i \in 1 .. Len(s) : ~(RolePosition[s[i]] < RolePosition[w]) BY <1>1, <1>4
  <2> QED BY <1>1, <1>2, <2>1, <2>2
<1>5. CASE RolePosition[w] # 0 /\ before # {}
  <2>1. p = Max(before) + 1 BY <1>5 DEF Position
  <2>2. before \in SUBSET Int /\ \A i \in before : i <= Len(s) BY <1>1
  <2>3. Max(before) \in before /\ \A i \in before : Max(before) >= i
    <3>1. before # {} /\ Len(s) \in Int BY <1>1, <1>5
    <3> HIDE DEF before
    <3> QED BY <2>2, <3>1, MaxInSet
  <2> DEFINE m == Max(before)
  <2> HIDE DEF m
  <2>4. m \in 1 .. Len(s) /\ RolePosition[s[m]] < RolePosition[w] /\ p = m + 1
    BY <1>1, <1>2, <1>5, <2>1, <2>3 DEF m
  <2> HIDE DEF p
  <2>5. ASSUME NEW i \in 1 .. Len(s), i < p PROVE RolePosition[s[i]] <= RolePosition[w]
    <3>1. CASE i = m BY <1>2, <2>4, <3>1
    <3>2. CASE i < m
      <4>1. RolePosition[s[i]] <= RolePosition[s[m]] BY <1>1, <2>4, <3>2
      <4> QED BY <1>2, <2>4, <4>1
    <3> QED BY <2>4, <2>5, <3>1, <3>2
  <2>6. ASSUME NEW i \in 1 .. Len(s), ~(i < p) PROVE RolePosition[w] <= RolePosition[s[i]]
    <3>1. i \notin before
      <4> SUFFICES ASSUME i \in before PROVE FALSE OBVIOUS
      <4>1. m >= i BY <2>3 DEF m
      <4> QED BY <2>4, <2>6, <4>1
    <3> QED BY <1>1, <1>2, <3>1
  <2> QED BY <1>1, <2>4, <2>5, <2>6 DEF p
<1> QED BY <1>3, <1>4, <1>5

\* What an insertion does to an ordered list.
LEMMA InsertedIs ==
  ASSUME TrayAssumption, NEW s \in Seq(Windows), NEW w \in Windows, w \notin ToSet(s),
         IsInjective(s), NEW r, r = InsertAt(s, Position(s, w), w),
         \A i, j \in DOMAIN s : i < j => RolePosition[s[i]] <= RolePosition[s[j]]
  PROVE  /\ r \in Seq(Windows) /\ IsInjective(r) /\ ToSet(r) = ToSet(s) \cup {w}
         /\ \A i, j \in DOMAIN r : i < j => RolePosition[r[i]] <= RolePosition[r[j]]
<1> DEFINE p == Position(s, w)
<1>1. /\ p \in 1 .. Len(s) + 1
      /\ \A i \in 1 .. Len(s) : IF i < p THEN RolePosition[s[i]] <= RolePosition[w]
                                 ELSE RolePosition[w] <= RolePosition[s[i]]
  BY PositionIs
<1> HIDE DEF p
<1>2. /\ r \in Seq(Windows) /\ Len(r) = Len(s) + 1
      /\ \A k \in 1 .. Len(s) + 1 : r[k] = IF k < p THEN s[k] ELSE IF k = p THEN w ELSE s[k - 1]
  BY <1>1, InsertAtIs DEF p
<1>3. DOMAIN r = 1 .. Len(s) + 1 /\ DOMAIN s = 1 .. Len(s) /\ Len(s) \in Nat BY <1>2
<1>4. \A i \in 1 .. Len(s) : s[i] # w BY <1>3 DEF ToSet
<1>5. IsInjective(r)
  <2> SUFFICES ASSUME NEW i \in 1 .. Len(s) + 1, NEW j \in 1 .. Len(s) + 1, i < j
               PROVE  r[i] # r[j]
    BY <1>3 DEF IsInjective
  <2>1. CASE i = p \/ j = p BY <1>1, <1>2, <1>3, <1>4, <2>1
  <2>2. CASE i # p /\ j # p
    <3> DEFINE k == IF i < p THEN i ELSE i - 1
               l == IF j < p THEN j ELSE j - 1
    <3>1. k \in 1 .. Len(s) /\ l \in 1 .. Len(s) /\ k # l BY <1>1, <1>3, <2>2
    <3>2. r[i] = s[k] /\ r[j] = s[l] BY <1>1, <1>2, <2>2
    <3> HIDE DEF k, l
    <3> QED BY <1>3, <3>1, <3>2 DEF IsInjective
  <2> QED BY <2>1, <2>2
<1>6. ToSet(r) = ToSet(s) \cup {w}
  <2>1. ASSUME NEW x \in ToSet(r) PROVE x \in ToSet(s) \cup {w}
    <3>1. PICK k \in 1 .. Len(s) + 1 : x = r[k] BY <1>3, <2>1 DEF ToSet
    <3>2. CASE k = p BY <1>1, <1>2, <3>1, <3>2
    <3>3. CASE k # p
      <4> DEFINE l == IF k < p THEN k ELSE k - 1
      <4>1. l \in 1 .. Len(s) /\ x = s[l] BY <1>1, <1>2, <1>3, <3>1, <3>3
      <4> QED BY <1>3, <4>1 DEF ToSet
    <3> QED BY <3>2, <3>3
  <2>2. ASSUME NEW x \in ToSet(s) PROVE x \in ToSet(r)
    <3>1. PICK l \in 1 .. Len(s) : x = s[l] BY <1>3, <2>2 DEF ToSet
    <3> DEFINE k == IF l < p THEN l ELSE l + 1
    <3>2. k \in 1 .. Len(s) + 1 /\ r[k] = s[l]
      <4>1. CASE l < p BY <1>1, <1>2, <1>3, <4>1
      <4>2. CASE ~(l < p)
        <5>1. k = l + 1 /\ k \in 1 .. Len(s) + 1 /\ ~(k < p) /\ k # p /\ k - 1 = l
          BY <1>1, <1>3, <4>2
        <5> QED BY <1>2, <5>1
      <4> QED BY <4>1, <4>2
    <3> QED BY <1>3, <3>1, <3>2 DEF ToSet
  <2>3. w \in ToSet(r)
    <3>1. r[p] = w BY <1>1, <1>2
    <3> QED BY <1>1, <1>3, <3>1 DEF ToSet
  <2> QED BY <2>1, <2>2, <2>3
<1>7. ASSUME NEW i \in 1 .. Len(s) + 1, NEW j \in 1 .. Len(s) + 1, i < j
      PROVE  RolePosition[r[i]] <= RolePosition[r[j]]
  <2>1. CASE i # p /\ j # p
    <3> DEFINE k == IF i < p THEN i ELSE i - 1
               l == IF j < p THEN j ELSE j - 1
    <3>1. k \in 1 .. Len(s) /\ l \in 1 .. Len(s) /\ k < l BY <1>1, <1>3, <1>7, <2>1
    <3>2. r[i] = s[k] /\ r[j] = s[l] BY <1>1, <1>2, <2>1
    <3> HIDE DEF k, l
    <3> QED BY <1>3, <3>1, <3>2
  <2>2. CASE i = p
    <3>1. j - 1 \in 1 .. Len(s) /\ ~(j - 1 < p) BY <1>1, <1>3, <1>7, <2>2
    <3>2. r[i] = w /\ r[j] = s[j - 1] BY <1>1, <1>2, <1>7, <2>2
    <3> QED BY <1>1, <3>1, <3>2
  <2>3. CASE j = p
    <3>1. i \in 1 .. Len(s) /\ i < p BY <1>1, <1>3, <1>7, <2>3
    <3>2. r[j] = w /\ r[i] = s[i] BY <1>1, <1>2, <1>7, <2>3
    <3> QED BY <1>1, <3>1, <3>2
  <2> QED BY <2>1, <2>2, <2>3
<1> QED BY <1>2, <1>3, <1>5, <1>6, <1>7

LEMMA DockRequestKeeps ==
  ASSUME TrayAssumption, TrayInv, NEW w \in Windows, DockRequest(w)
  PROVE  TrayInv'
<1> USE DEF TrayInv
<1>1. clients[w] = "asked" /\ manager.made /\ allTrays # <<>>
  BY DEF DockRequest, RequestsReach, TrayTypeOK
<1>2. w \notin unplugged BY <1>1 DEF RequestsReach
<1>3. UNCHANGED <<allTrays, orientation, manager, unplugged, theme, background, redraws>>
  BY DEF DockRequest
<1>4. CASE w \in socketTable
  <2>1. clients' = [clients EXCEPT ![w] = "free"] /\ UNCHANGED <<box, socketTable, drawn>>
    BY <1>4 DEF DockRequest
  <2>2. TrayTypes' BY <1>3, <2>1 DEF TrayTypes
  <2>3. TrayTypeOK' BY <1>3, <2>1 DEF TrayTypeOK
  <2>4. RequestsReach' BY <1>2, <1>3, <2>1 DEF RequestsReach, TrayTypes
  <2>5. IconsAreEmbedded'
    <3>1. {v \in Windows : clients'[v] = "embedded"} = {v \in Windows : clients[v] = "embedded"}
      BY <1>1, <2>1 DEF TrayTypes
    <3> QED BY <1>3, <2>1, <3>1 DEF IconsAreEmbedded
  <2>6. ToldIsFirstTray' BY <1>3, <2>1 DEF ToldIsFirstTray
  <2> QED BY <2>2, <2>3, <2>4, <2>5, <2>6
<1>5. CASE w \notin socketTable
  <2> DEFINE t == Head(allTrays)
             r == InsertAt(box[t], Position(box[t], w), w)
  <2>1. t \in Trays /\ t \in ToSet(allTrays) BY <1>1, HeadIsIn DEF TrayTypes
  <2>2. /\ box' = [box EXCEPT ![t] = r] /\ socketTable' = socketTable \cup {w}
        /\ drawn' = [drawn EXCEPT ![w] = background]
        /\ clients' = [clients EXCEPT ![w] = "embedded"]
    BY <1>5 DEF DockRequest
  <2> DEFINE all == UNION {ToSet(box[o]) : o \in Trays}
             all2 == UNION {ToSet(box'[o]) : o \in Trays}
  <2>3. all = {v \in Windows : clients[v] = "embedded"} \cup unplugged
        /\ all \subseteq socketTable
    BY DEF IconsAreEmbedded
  <2>4. \A o \in Trays : w \notin ToSet(box[o]) BY <1>5, <2>3
  <2> HIDE DEF t, r
  <2>5. /\ r \in Seq(Windows) /\ IsInjective(r) /\ ToSet(r) = ToSet(box[t]) \cup {w}
        /\ \A i, j \in DOMAIN r : i < j => RolePosition[r[i]] <= RolePosition[r[j]]
    <3>1. box[t] \in Seq(Windows) /\ IsInjective(box[t])
          /\ \A i, j \in DOMAIN box[t] : i < j => RolePosition[box[t][i]] <= RolePosition[box[t][j]]
      BY <2>1 DEF TrayTypes, IconsAreEmbedded
    <3> QED BY <2>1, <2>4, <3>1, InsertedIs DEF r
  <2>6. box' \in [Trays -> Seq(Windows)] /\ box'[t] = r /\ \A o \in Trays \ {t} : box'[o] = box[o]
    BY <2>1, <2>2, <2>5 DEF TrayTypes
  <2>7. TrayTypes' BY <1>3, <2>2, <2>6 DEF TrayTypes
  <2>8. TrayTypeOK'
    <3>1. \A o \in Trays : ToSet(box'[o]) \subseteq Windows BY <2>5, <2>6 DEF TrayTypeOK
    <3>2. \A o \in Trays : o \notin ToSet(allTrays) => box'[o] = <<>>
      BY <2>1, <2>6 DEF TrayTypeOK
    <3> QED BY <1>3, <2>2, <3>1, <3>2 DEF TrayTypeOK
  <2>9. RequestsReach' BY <1>2, <1>3, <2>2 DEF RequestsReach, TrayTypes
  <2>10. all2 = all \cup {w}
    <3>1. ASSUME NEW x \in all2 PROVE x \in all \cup {w}
      <4>1. PICK o \in Trays : x \in ToSet(box'[o]) BY <3>1
      <4> QED BY <2>5, <2>6, <4>1
    <3>2. ASSUME NEW x \in all PROVE x \in all2
      <4>1. PICK o \in Trays : x \in ToSet(box[o]) BY <3>2
      <4>2. x \in ToSet(box'[o]) BY <2>5, <2>6, <4>1
      <4> QED BY <4>1, <4>2
    <3>3. w \in all2 BY <2>1, <2>5, <2>6
    <3> QED BY <3>1, <3>2, <3>3
  <2>11. IconsAreEmbedded'
    <3>1. {v \in Windows : clients'[v] = "embedded"}
            = {v \in Windows : clients[v] = "embedded"} \cup {w}
      BY <2>2 DEF TrayTypes
    <3>2. all2 = {v \in Windows : clients'[v] = "embedded"} \cup unplugged'
          /\ all2 \subseteq socketTable'
      <4> HIDE DEF all, all2
      <4> QED BY <1>3, <2>2, <2>3, <2>10, <3>1
    <3>3. \A o, p \in Trays : o # p => ToSet(box'[o]) \cap ToSet(box'[p]) = {}
      <4> SUFFICES ASSUME NEW o \in Trays, NEW p \in Trays, o # p,
                          NEW x \in ToSet(box'[o]), x \in ToSet(box'[p])
                   PROVE  FALSE
        OBVIOUS
      <4>1. ToSet(box[o]) \cap ToSet(box[p]) = {} BY DEF IconsAreEmbedded
      <4>2. x # w => x \in ToSet(box[o]) /\ x \in ToSet(box[p]) BY <2>5, <2>6
      <4>3. x = w => o = t /\ p = t BY <2>4, <2>6
      <4> QED BY <4>1, <4>2, <4>3
    <3>4. \A o \in Trays :
            /\ IsInjective(box'[o])
            /\ \A i, j \in DOMAIN box'[o] :
                 i < j => RolePosition[box'[o][i]] <= RolePosition[box'[o][j]]
      BY <2>5, <2>6 DEF IconsAreEmbedded
    <3> QED BY <3>2, <3>3, <3>4 DEF IconsAreEmbedded
  <2>12. ToldIsFirstTray'
    <3>1. ASSUME NEW o \in Trays \ redraws', NEW v \in ToSet(box'[o]) PROVE drawn'[v] = background'
      <4>1. CASE v = w BY <1>3, <2>2, <4>1 DEF TrayTypes
      <4>2. CASE v # w
        <5>1. v \in ToSet(box[o]) BY <2>5, <2>6, <3>1, <4>2
        <5> QED BY <1>3, <2>2, <3>1, <4>2, <5>1 DEF ToldIsFirstTray, TrayTypes
      <4> QED BY <4>1, <4>2
    <3> QED BY <1>3, <3>1 DEF ToldIsFirstTray
  <2> QED BY <2>7, <2>8, <2>9, <2>11, <2>12
<1> QED BY <1>4, <1>5

LEMMA TrayNextKeeps ==
  ASSUME TrayAssumption, TrayInv, [TrayNext]_trayVars
  PROVE  TrayInv'
<1>1. ASSUME NEW t \in Trays, RealizeTray(t) \/ Unrealize(t) \/ IdleRedraw(t) PROVE TrayInv'
  BY <1>1, RealizeTrayKeeps, UnrealizeKeeps, IdleRedrawKeeps
<1>2. ASSUME NEW t \in Trays, NEW o \in Sideways, ChangeOrient(t, o) PROVE TrayInv'
  BY <1>2, ChangeOrientKeeps
<1>3. ASSUME NEW p \in Paddings, ChangeTheme(p) PROVE TrayInv' BY <1>3, ChangeThemeKeeps
<1>4. CASE ChangeBackground BY <1>4, ChangeBackgroundKeeps
<1>5. CASE LoseSelection
  <2>1. OnlyClients BY <1>5 DEF LoseSelection, OnlyClients
  <2> QED BY <1>5, <2>1, ClientsKeep
<1>6. ASSUME NEW w \in Windows, AskToEmbed(w) \/ Quit(w) \/ StartAgain(w) PROVE TrayInv'
  <2>1. OnlyClients BY <1>6 DEF AskToEmbed, Quit, StartAgain, OnlyClients
  <2> QED BY <1>6, <2>1, ClientsKeep
<1>7. ASSUME NEW w \in Windows, DockRequest(w) \/ PlugRemoved(w) PROVE TrayInv'
  BY <1>7, DockRequestKeeps, PlugRemovedKeeps
<1>8. CASE UNCHANGED trayVars
  BY <1>8 DEF trayVars, TrayInv, TrayTypes, TrayTypeOK, RequestsReach, IconsAreEmbedded,
              ToldIsFirstTray
<1> QED BY <1>1, <1>2, <1>3, <1>4, <1>5, <1>6, <1>7, <1>8 DEF TrayNext, Sideways

\* The icons of all trays are those that are embedded, each in one tray and in the
\* order of the roles, and programs are told of the tray that shows them, however trays
\* go, the selection is lost and windows die (na_tray_manager_handle_dock_request,
\* tray_removed, na_tray_dispose).
THEOREM TraysAgree == TrayAssumption /\ TraySpec => [](IconsAreEmbedded /\ ToldIsFirstTray)
<1> SUFFICES ASSUME TrayAssumption PROVE TraySpec => [](IconsAreEmbedded /\ ToldIsFirstTray)
  OBVIOUS
<1>1. TrayInit => TrayInv BY TrayInitHolds
<1>2. TrayInv /\ [TrayNext]_trayVars => TrayInv' BY TrayNextKeeps
<1>3. TrayInv => IconsAreEmbedded /\ ToldIsFirstTray BY DEF TrayInv
<1> QED BY <1>1, <1>2, <1>3, PTL DEF TraySpec

-----------------------------------------------------------------------------
(* The zone and the weather, which other handlers leave alone. *)

ZoneFits ==
  /\ zoneFiles \in [localtime : [kind : {"link", "copy"}, zone : Zones],
                    conf : [Range(ConfFiles) -> Zones \cup {NoZone, BadZone}]]
  /\ known \in Zones

WeatherFits ==
  /\ weather \in [Places -> {"none", "valid"}]
  /\ retry \in [Places -> 1 .. MaxRetry]
  /\ timer \in [Places -> 0 .. MaxRetry]

LEMMA ZoneKeeps ==
  ASSUME PlaceAssumption, ZoneFits, [PlaceNext]_placeVars
  PROVE  ZoneFits'
<1>1. CASE UNCHANGED <<zoneFiles, known>> BY <1>1 DEF ZoneFits
<1>2. CASE WriteZone
  <2>1. known' = known BY <1>2 DEF WriteZone
  <2>2. PICK z \in Zones \cup {NoZone, BadZone} :
          \/ \E kind \in {"link", "copy"} :
               z \in Zones
                 /\ zoneFiles' = [zoneFiles EXCEPT !.localtime = [kind |-> kind, zone |-> z]]
          \/ \E f \in Range(ConfFiles) : zoneFiles' = [zoneFiles EXCEPT !.conf[f] = z]
    BY <1>2 DEF WriteZone
  <2>3. zoneFiles' \in [localtime : [kind : {"link", "copy"}, zone : Zones],
                        conf : [Range(ConfFiles) -> Zones \cup {NoZone, BadZone}]]
    BY <2>2 DEF ZoneFits
  <2> QED BY <2>1, <2>3 DEF ZoneFits
<1>3. CASE ZoneRead
  <2>1. zoneFiles' = zoneFiles /\ known' \in Find(zoneFiles) BY <1>3 DEF ZoneRead, weatherVars
  <2>2. Linked(zoneFiles) \subseteq Zones /\ Copied(zoneFiles) \subseteq Zones
    BY DEF Linked, Copied, Valid
  <2>3. Named(zoneFiles) \subseteq Zones
    <3> DEFINE T == {i \in 1 .. Len(ConfFiles) : Valid(zoneFiles.conf[ConfFiles[i]])}
    <3>1. CASE T = {}
      <4>1. Named(zoneFiles) = {} BY <3>1 DEF Named, SelectInSeq
      <4> QED BY <4>1
    <3>2. CASE T # {}
      <4>1. T \in SUBSET Nat BY DEF PlaceAssumption
      <4>2. Min(T) \in T
        <5> HIDE DEF T
        <5> QED BY <3>2, <4>1, MinInSet
      <4>3. Named(zoneFiles) = IF Min(T) = 0 THEN {} ELSE {zoneFiles.conf[ConfFiles[Min(T)]]}
        BY <3>2 DEF Named, SelectInSeq
      <4> QED BY <4>2, <4>3 DEF Valid
    <3> QED BY <3>1, <3>2
  <2>4. Find(zoneFiles) \subseteq Zones
    BY <2>2, <2>3 DEF Find, PlaceAssumption
  <2> QED BY <2>1, <2>4 DEF ZoneFits
<1>4. ASSUME NEW p \in Places, Chosen(p) PROVE ZoneFits'
  <2>1. known' = known BY <1>4 DEF Chosen
  <2>2. \/ zoneFiles' = zoneFiles
        \/ zoneFiles' = [zoneFiles EXCEPT !.localtime = [kind |-> "link", zone |-> ZoneOf[p]]]
    BY <1>4 DEF Chosen
  <2>3. ZoneOf[p] \in Zones BY DEF PlaceAssumption
  <2> QED BY <2>1, <2>2, <2>3 DEF ZoneFits
<1> QED
  BY <1>1, <1>2, <1>3, <1>4
  DEF PlaceNext, placeVars, zoneVars, Open, Shut, Minute, Blink, SetFormat, OpenPrefs, CancelEdit,
      RefuseEdit, Connected, DestroyClock, Edit, Choose, SaveEdit, RemovePlace, WeatherAnswer

LEMMA WeatherKeeps ==
  ASSUME PlaceAssumption, WeatherFits, [PlaceNext]_placeVars
  PROVE  WeatherFits'
<1>1. CASE UNCHANGED weatherVars BY <1>1 DEF WeatherFits, weatherVars
<1>2. ASSUME NEW new \in Places, SaveEdit(new) PROVE WeatherFits'
  <2>1. UNCHANGED <<weather, retry>> /\ timer' = [timer EXCEPT ![new] = MaxRetry]
    BY <1>2 DEF SaveEdit
  <2> QED BY <2>1 DEF WeatherFits, PlaceAssumption
<1>3. ASSUME NEW p \in Places, NEW ok \in BOOLEAN, WeatherAnswer(p, ok) PROVE WeatherFits'
  <2>1. /\ weather' = [weather EXCEPT ![p] = IF ok THEN "valid" ELSE "none"]
        /\ timer' = [timer EXCEPT ![p] = IF ok THEN MaxRetry ELSE retry[p]]
        /\ retry' = [retry EXCEPT ![p] = IF ok THEN 1 ELSE Backoff(retry[p])]
    BY <1>3 DEF WeatherAnswer
  <2>2. MaxRetry \in Nat \ {0} /\ retry[p] \in 1 .. MaxRetry BY DEF WeatherFits, PlaceAssumption
  <2>3. Backoff(retry[p]) \in 1 .. MaxRetry BY <2>2 DEF Backoff
  <2> QED BY <2>1, <2>2, <2>3 DEF WeatherFits
<1>4. CASE Connected
  <2>1. UNCHANGED <<weather, timer>> /\ retry' = [p \in Places |-> 1] BY <1>4 DEF Connected
  <2> QED BY <2>1 DEF WeatherFits, PlaceAssumption
<1> QED
  BY <1>1, <1>2, <1>3, <1>4
  DEF PlaceNext, placeVars, weatherVars, Open, Shut, Minute, Blink, SetFormat, OpenPrefs,
      CancelEdit, RefuseEdit, DestroyClock, Edit, Choose, RemovePlace, WriteZone, ZoneRead, Chosen

-----------------------------------------------------------------------------
(* The list, its setting and its rows. *)

ListFits ==
  /\ places \in Seq(Places) /\ IsInjective(places) /\ cities \in Seq(Places)
  /\ Range(places) \cup rows \subseteq usedPlaces /\ usedPlaces \subseteq Places
  /\ dropped \subseteq usedPlaces /\ Range(places) \cap dropped = {}
  /\ clockRuns \in BOOLEAN /\ prefs \in BOOLEAN
  /\ editing \in Places \cup {NoPlace, "closed"}
  /\ editing # "closed" => prefs
  /\ prefs => clockRuns /\ (rows = {} => Range(places) = {})
  /\ ListIsStored

LEMMA RangeIsToSet == \A s : Range(s) = ToSet(s)
BY DEF Range, ToSet

\* Without a place, and with one more.
LEMMA PlaceOff ==
  ASSUME NEW s \in Seq(Places), IsInjective(s), NEW p
  PROVE  /\ RemoveFirst(s, p) \in Seq(Places) /\ IsInjective(RemoveFirst(s, p))
         /\ Range(RemoveFirst(s, p)) = Range(s) \ {p}
BY RangeIsToSet, RemoveFirstLeaves

LEMMA PlaceOn ==
  ASSUME NEW s \in Seq(Places), IsInjective(s), NEW p \in Places, p \notin Range(s)
  PROVE  /\ Append(s, p) \in Seq(Places) /\ IsInjective(Append(s, p))
         /\ Range(Append(s, p)) = Range(s) \cup {p}
BY RangeIsToSet, AppendAdds

\* What is stored is the list of the moment: places and rows follow it or stay.
ListSynced ==
  /\ UNCHANGED <<places, clockRuns, prefs, usedPlaces, dropped>>
  /\ editing' \in {editing, "closed"}
  /\ \/ UNCHANGED <<cities, rows>>
     \/ cities' \in {cities, places} /\ rows' = Range(places)

LEMMA SyncKeepsList ==
  ASSUME ListFits, ListSynced
  PROVE  ListFits'
BY DEF ListFits, ListSynced, ListIsStored

LEMMA ListKeeps ==
  ASSUME PlaceAssumption, ListFits, [PlaceNext]_placeVars
  PROVE  ListFits'
<1>1. CASE ListSynced BY <1>1, SyncKeepsList
<1>2. CASE Open
  <2>1. ListSynced BY <1>2 DEF Open, ListSynced, dialogVars
  <2> QED BY <2>1, SyncKeepsList
<1>3. CASE Minute
  <2>1. ListSynced BY <1>3 DEF Minute, ListSynced, dialogVars
  <2> QED BY <2>1, SyncKeepsList
<1>4. ASSUME NEW p \in Places, Choose(p) PROVE ListFits'
  <2>1. ListSynced BY <1>4 DEF Choose, ListSynced, dialogVars
  <2> QED BY <2>1, SyncKeepsList
<1>5. ASSUME NEW p \in Places, Chosen(p) PROVE ListFits'
  <2>1. ListSynced BY <1>5 DEF Chosen, ListSynced, dialogVars, ListFits
  <2> QED BY <2>1, SyncKeepsList
<1>6. ASSUME NEW p \in Places, NEW ok \in BOOLEAN, WeatherAnswer(p, ok) PROVE ListFits'
  <2>1. ListSynced BY <1>6 DEF WeatherAnswer, ListSynced, dialogVars
  <2> QED BY <2>1, SyncKeepsList
<1>7. CASE OpenPrefs
  <2>1. /\ clockRuns /\ ~prefs /\ prefs' = TRUE /\ rows' = Filled
        /\ UNCHANGED <<places, cities, editing, clockRuns, usedPlaces, dropped>>
    BY <1>7 DEF OpenPrefs
  <2> QED BY <2>1 DEF ListFits, ListIsStored, Filled
<1>8. ASSUME NEW p \in Places \cup {NoPlace}, Edit(p) PROVE ListFits'
  <2>1. /\ prefs /\ editing' = p
        /\ UNCHANGED <<places, cities, rows, prefs, clockRuns, usedPlaces, dropped>>
    BY <1>8 DEF Edit
  <2> QED BY <2>1 DEF ListFits, ListIsStored
<1>9. CASE CancelEdit
  <2>1. /\ prefs /\ prefs' \in BOOLEAN /\ editing' = "closed"
        /\ UNCHANGED <<places, cities, rows, clockRuns, usedPlaces, dropped>>
    BY <1>9 DEF CancelEdit
  <2> QED BY <2>1 DEF ListFits, ListIsStored
<1>10. ASSUME NEW new \in Places, SaveEdit(new) PROVE ListFits'
  <2> DEFINE less == RemoveFirst(places, editing)
             ps == Append(less, new)
  <2>1. /\ new \notin usedPlaces /\ usedPlaces' = usedPlaces \cup {new} /\ editing' = "closed"
        /\ places' = ps /\ UNCHANGED <<prefs, clockRuns, dropped>>
    BY <1>10 DEF SaveEdit
  <2>2. cities' = ps /\ rows' = Range(ps)
    BY <1>10, <2>1 DEF SaveEdit, Saved
  <2>3. less \in Seq(Places) /\ IsInjective(less) /\ Range(less) = Range(places) \ {editing}
    BY PlaceOff DEF ListFits
  <2> HIDE DEF less
  <2>4. new \notin Range(less) BY <2>1, <2>3 DEF ListFits
  <2>5. ps \in Seq(Places) /\ IsInjective(ps) /\ Range(ps) = Range(less) \cup {new}
    BY <2>3, <2>4, PlaceOn
  <2> HIDE DEF ps
  <2> QED BY <2>1, <2>2, <2>3, <2>5 DEF ListFits, ListIsStored
<1>11. CASE RefuseEdit
  <2> DEFINE less == RemoveFirst(places, editing)
  <2>1. /\ editing \in Range(places) /\ editing' = "closed" /\ places' = less
        /\ dropped' = dropped \cup {editing}
        /\ UNCHANGED <<prefs, cities, rows, clockRuns, usedPlaces>>
    BY <1>11 DEF RefuseEdit
  <2>2. less \in Seq(Places) /\ IsInjective(less) /\ Range(less) = Range(places) \ {editing}
    BY PlaceOff DEF ListFits
  <2> HIDE DEF less
  <2>3. editing # "closed" BY <2>1 DEF ListFits, PlaceAssumption
  <2>4. ListIsStored' BY <2>1, <2>2, <2>3 DEF ListFits, ListIsStored
  <2> QED BY <2>1, <2>2, <2>3, <2>4 DEF ListFits
<1>12. ASSUME NEW p \in Places, RemovePlace(p) PROVE ListFits'
  <2> DEFINE less == RemoveFirst(places, p)
  <2>1. /\ prefs /\ places' = less
        /\ UNCHANGED <<prefs, editing, clockRuns, usedPlaces, dropped>>
    BY <1>12 DEF RemovePlace, dialogVars
  <2>2. cities' = less /\ rows' = Range(less) BY <1>12, <2>1 DEF RemovePlace, Saved
  <2>3. less \in Seq(Places) /\ IsInjective(less) /\ Range(less) = Range(places) \ {p}
    BY PlaceOff DEF ListFits
  <2> HIDE DEF less
  <2> QED BY <2>1, <2>2, <2>3 DEF ListFits, ListIsStored
<1>13. CASE DestroyClock
  <2>1. /\ clockRuns' = FALSE /\ prefs' = FALSE /\ editing' = "closed"
        /\ places' = <<>> /\ rows' = {} /\ UNCHANGED <<cities, usedPlaces, dropped>>
    BY <1>13 DEF DestroyClock, Gone
  <2>2. Range(<<>>) = {} /\ IsInjective(<<>>) BY DEF Range, IsInjective
  <2>3. <<>> \in Seq(Places) OBVIOUS
  <2>4. ListIsStored' BY <2>1 DEF ListIsStored
  <2>5. ListFits BY DEF ListFits
  <2> QED BY <2>1, <2>2, <2>3, <2>4, <2>5 DEF ListFits
<1>14. CASE Shut \/ Blink \/ SetFormat \/ WriteZone \/ ZoneRead \/ Connected \/ UNCHANGED placeVars
  <2>1. ListSynced
    BY <1>14 DEF Shut, Blink, SetFormat, WriteZone, ZoneRead, Connected, placeVars, ListSynced,
                 dialogVars
  <2> QED BY <2>1, SyncKeepsList
<1> QED
  BY <1>2, <1>3, <1>4, <1>5, <1>6, <1>7, <1>8, <1>9, <1>10, <1>11, <1>12, <1>13, <1>14
  DEF PlaceNext

-----------------------------------------------------------------------------
(* The current place and its marker. *)

MarkFits ==
  /\ tiles \cup calls \subseteq usedPlaces /\ blinking \in usedPlaces \cup {NoPlace}
  /\ here = NoPlace \/ Lives(here)
  /\ popup \in BOOLEAN /\ (~popup => tiles = {}) /\ MarkerIsCurrent

\* A place that is kept only while it is held is held.
LEMMA IfHeldIs ==
  ASSUME NEW h, NEW S
  PROVE  IfHeld(h, S) = NoPlace \/ (IfHeld(h, S) = h /\ h \in S)
BY DEF IfHeld

LEMMA AdoptedIs ==
  ASSUME NEW h, NEW S, NEW n \in Adopted(h, S)
  PROVE  n = h \/ (h = NoPlace /\ n \in S)
BY DEF Adopted

\* What was stored may have made another place current.
LEMMA SavedKeepsMark ==
  ASSUME PlaceAssumption, MarkFits, usedPlaces \subseteq Places, NEW ps, NEW h,
         Saved(ps, h, calls), places' = ps, Range(ps) \subseteq usedPlaces',
         usedPlaces \subseteq usedPlaces', usedPlaces' \subseteq Places,
         UNCHANGED <<popup, blinking, calls, timeFormat, calFormat>>
  PROVE  MarkFits'
<1> DEFINE ts == NewTiles(ps)
<1>1. PICK n \in Adopted(h, ts) :
        LET kept == IfHeld(n, Keeping(ps, Range(ps), ts, calls, blinking))
        IN  here' = kept /\ tiles' = ts /\ marked' = Marks(ts, kept)
  BY DEF Saved
<1>2. rows' = Range(ps) BY DEF Saved
<1>3. here' = NoPlace \/ Lives(here)'
  <2>1. Lives(here)' <=> here' \in Keeping(ps, Range(ps), ts, calls, blinking)
    BY <1>1, <1>2 DEF Lives
  <2> QED BY <1>1, <2>1, IfHeldIs
<1>4. ts = IF popup THEN Range(ps) ELSE {} BY DEF NewTiles
<1> HIDE DEF ts
<1>5. marked' = tiles' \cap {here'} BY <1>1 DEF Marks
<1> QED BY <1>1, <1>3, <1>4, <1>5 DEF MarkFits, MarkerIsCurrent

\* The place h, or none, becomes current.
LEMMA SetCurrentKeepsMark ==
  ASSUME MarkFits, NEW h, NEW ts, SetCurrent(h, ts)
  PROVE  here' = h /\ tiles' = ts /\ marked' = tiles' \cap {here'}
BY DEF SetCurrent, Marks, MarkFits, MarkerIsCurrent

LEMMA MarkKeeps ==
  ASSUME PlaceAssumption, ListFits, MarkFits, [PlaceNext]_placeVars
  PROVE  MarkFits'
<1>0. usedPlaces \subseteq Places /\ NoPlace \notin Places /\ Range(places) \subseteq usedPlaces
  BY DEF ListFits, PlaceAssumption
<1>1. CASE Open
  <2>1. /\ popup' = TRUE /\ calFormat' = timeFormat /\ rows' = Range(places)
        /\ UNCHANGED <<places, blinking, calls, timeFormat, usedPlaces>>
    BY <1>1 DEF Open
  <2> DEFINE old == IfHeld(here, Keeping(places, rows', {}, calls, blinking))
  <2>2. PICK h \in Adopted(old, Range(places)) : SetCurrent(h, Range(places))
    BY <1>1 DEF Open
  <2>3. here' = h /\ tiles' = Range(places) /\ marked' = tiles' \cap {here'}
    BY <2>2, SetCurrentKeepsMark
  <2>4. here' = NoPlace \/ Lives(here)'
    <3>1. old = NoPlace \/ old \in Keeping(places, rows', {}, calls, blinking) BY IfHeldIs
    <3> HIDE DEF old
    <3>2. h = old \/ h \in Range(places) BY <2>2, AdoptedIs
    <3> QED BY <2>1, <2>3, <3>1, <3>2 DEF Lives, Keeping
  <2> QED BY <1>0, <2>1, <2>3, <2>4 DEF MarkFits, MarkerIsCurrent
<1>2. CASE Shut
  <2>1. /\ popup' = FALSE /\ blinking' = NoPlace
        /\ UNCHANGED <<places, rows, calls, timeFormat, calFormat, usedPlaces>>
    BY <1>2 DEF Shut, formatVars
  <2> DEFINE h == IfHeld(here, Keeping(places, rows, {}, calls, NoPlace))
  <2>2. here' = h /\ tiles' = {} /\ marked' = tiles' \cap {here'}
    BY <1>2, SetCurrentKeepsMark DEF Shut
  <2>3. here' = NoPlace \/ Lives(here)' BY <2>1, <2>2, IfHeldIs DEF Lives
  <2> QED BY <2>1, <2>2, <2>3 DEF MarkFits, MarkerIsCurrent
<1>3. CASE Minute
  <2>1. UNCHANGED <<places, popup, blinking, calls, timeFormat, calFormat, usedPlaces>>
        /\ here = NoPlace
    BY <1>3 DEF Minute, formatVars
  <2>2. PICK h \in Adopted(here, tiles) : SetCurrent(h, tiles) BY <1>3 DEF Minute
  <2>3. here' = h /\ tiles' = tiles /\ marked' = tiles' \cap {here'}
    BY <2>2, SetCurrentKeepsMark
  <2>4. h = NoPlace \/ h \in tiles BY <2>1, <2>2, AdoptedIs
  <2>5. here' = NoPlace \/ Lives(here)' BY <2>3, <2>4 DEF Lives, Keeping
  <2> QED BY <2>1, <2>3, <2>5 DEF MarkFits, MarkerIsCurrent
<1>4. CASE Blink
  <2>1. /\ blinking' \in tiles \cup {NoPlace}
        /\ here' = IfHeld(here, Keeping(places, rows, tiles, calls, blinking'))
        /\ UNCHANGED <<places, rows, popup, tiles, marked, calls, timeFormat, calFormat, usedPlaces>>
    BY <1>4 DEF Blink, formatVars
  <2>2. here' = NoPlace \/ Lives(here)' BY <2>1, IfHeldIs DEF Lives
  <2>3. tiles \cap {here'} = tiles \cap {here}
    <3>1. here \in tiles => here' = here BY <2>1 DEF IfHeld, Keeping
    <3>2. here' = here \/ here' = NoPlace BY <2>1 DEF IfHeld
    <3>3. NoPlace \notin tiles BY <1>0 DEF MarkFits
    <3> QED BY <3>1, <3>2, <3>3
  <2> QED BY <2>1, <2>2, <2>3 DEF MarkFits, MarkerIsCurrent
<1>5. CASE SetFormat
  <2>1. /\ calFormat' = IF popup THEN timeFormat' ELSE calFormat
        /\ UNCHANGED <<places, rows, popup, tiles, marked, here, blinking, calls, usedPlaces>>
    BY <1>5 DEF SetFormat
  <2> QED BY <2>1 DEF MarkFits, MarkerIsCurrent, Lives
<1>6. ASSUME NEW p \in Places, Choose(p) PROVE MarkFits'
  <2>1. p \in tiles /\ UNCHANGED <<places, popup, blinking, timeFormat, calFormat, usedPlaces>>
    BY <1>6 DEF Choose, formatVars
  <2>2. CASE ZoneOf[p] = known
    <3>1. SetCurrent(p, tiles) /\ UNCHANGED calls BY <1>6, <2>2 DEF Choose
    <3>2. here' = p /\ tiles' = tiles /\ marked' = tiles' \cap {here'}
      BY <3>1, SetCurrentKeepsMark
    <3>3. Lives(here)' BY <2>1, <3>2 DEF Lives, Keeping
    <3> QED BY <2>1, <3>1, <3>2, <3>3 DEF MarkFits, MarkerIsCurrent
  <2>3. CASE ZoneOf[p] # known
    <3>1. calls' = calls \cup {p} /\ UNCHANGED <<rows, tiles, marked, here>>
      BY <1>6, <2>3 DEF Choose, SetTimezone
    <3> QED BY <2>1, <3>1 DEF MarkFits, MarkerIsCurrent, Lives, Keeping
  <2> QED BY <2>2, <2>3
<1>7. ASSUME NEW p \in Places, Chosen(p) PROVE MarkFits'
  <2>1. /\ p \in calls /\ calls' = calls \ {p}
        /\ UNCHANGED <<places, popup, blinking, timeFormat, calFormat, usedPlaces, clockRuns>>
    BY <1>7 DEF Chosen, formatVars
  <2> DEFINE stays == p \in Keeping(places, {}, tiles, calls', blinking)
  <2>2. CASE /\ here' = IF stays THEN p ELSE NoPlace
             /\ tiles' = tiles /\ marked' = Marks(tiles, p)
    <3>1. here' = NoPlace \/ Lives(here)' BY <2>1, <2>2 DEF Lives, Keeping
    <3>2. marked' = tiles \cap {here'}
      <4>1. ~stays => p \notin tiles BY DEF Keeping
      <4>2. NoPlace \notin tiles BY <1>0 DEF MarkFits
      <4> QED BY <2>2, <4>1, <4>2 DEF Marks
    <3> QED BY <2>1, <2>2, <3>1, <3>2 DEF MarkFits, MarkerIsCurrent
  <2>3. CASE /\ here' = IfHeld(here, Keeping(places, rows, tiles, calls', blinking))
             /\ UNCHANGED <<tiles, marked, rows>>
    <3>1. here' = NoPlace \/ Lives(here)' BY <2>1, <2>3, IfHeldIs DEF Lives
    <3>2. tiles \cap {here'} = tiles \cap {here}
      <4>1. here \in tiles => here' = here BY <2>3 DEF IfHeld, Keeping
      <4>2. here' = here \/ here' = NoPlace BY <2>3 DEF IfHeld
      <4>3. NoPlace \notin tiles BY <1>0 DEF MarkFits
      <4> QED BY <4>1, <4>2, <4>3
    <3> QED BY <2>1, <2>3, <3>1, <3>2 DEF MarkFits, MarkerIsCurrent
  <2> QED BY <1>7, <2>2, <2>3 DEF Chosen
<1>8. ASSUME NEW new \in Places, SaveEdit(new) PROVE MarkFits'
  <2>1. /\ usedPlaces' = usedPlaces \cup {new}
        /\ UNCHANGED <<popup, blinking, calls, timeFormat, calFormat>>
        /\ places' = Append(RemoveFirst(places, editing), new)
        /\ new \notin usedPlaces
    BY <1>8 DEF SaveEdit, formatVars
  <2>2. PICK h \in Adopted(here, {new}) : Saved(places', h, calls) BY <1>8 DEF SaveEdit
  <2>3. Range(places') \subseteq usedPlaces' /\ usedPlaces' \subseteq Places
    <3> DEFINE less == RemoveFirst(places, editing)
    <3>1. less \in Seq(Places) /\ IsInjective(less) /\ Range(less) = Range(places) \ {editing}
      BY PlaceOff DEF ListFits
    <3> HIDE DEF less
    <3>2. new \notin Range(less) BY <1>0, <2>1, <3>1
    <3>3. Range(places') = Range(less) \cup {new}
      BY <2>1, <3>1, <3>2, PlaceOn DEF less
    <3> QED BY <1>0, <2>1, <3>1, <3>3
  <2> QED BY <1>0, <2>1, <2>2, <2>3, SavedKeepsMark
<1>9. ASSUME NEW p \in Places, RemovePlace(p) PROVE MarkFits'
  <2>1. /\ UNCHANGED <<usedPlaces, popup, blinking, calls, timeFormat, calFormat>>
        /\ places' = RemoveFirst(places, p) /\ Saved(places', here, calls)
    BY <1>9 DEF RemovePlace, formatVars
  <2>2. Range(places') = Range(places) \ {p} BY <2>1, PlaceOff DEF ListFits
  <2> QED BY <1>0, <2>1, <2>2, SavedKeepsMark
<1>10. CASE RefuseEdit
  <2>1. /\ editing \in Range(places) /\ places' = RemoveFirst(places, editing)
        /\ UNCHANGED <<rows, popup, tiles, marked, here, blinking, calls, timeFormat, calFormat,
                       usedPlaces>>
    BY <1>10 DEF RefuseEdit, formatVars
  <2>2. Range(places') = Range(places) \ {editing} BY <2>1, PlaceOff DEF ListFits
  <2>3. editing \in rows
    <3>1. editing # "closed" BY <1>0, <2>1 DEF PlaceAssumption
    <3>2. rows # {} BY <2>1, <3>1 DEF ListFits
    <3> QED BY <2>1, <3>1, <3>2 DEF ListFits, ListIsStored
  <2> QED BY <2>1, <2>2, <2>3 DEF MarkFits, MarkerIsCurrent, Lives, Keeping
<1>11. CASE OpenPrefs
  <2>1. /\ rows' = Filled
        /\ UNCHANGED <<places, popup, tiles, marked, here, blinking, calls, timeFormat, calFormat,
                       usedPlaces>>
    BY <1>11 DEF OpenPrefs, formatVars
  <2>2. rows \subseteq rows' BY <2>1 DEF Filled
  <2> QED BY <2>1, <2>2 DEF MarkFits, MarkerIsCurrent, Lives, Keeping
<1>12. ASSUME NEW p \in Places, NEW ok \in BOOLEAN, WeatherAnswer(p, ok) PROVE MarkFits'
  <2>1. /\ Lives(p)
        /\ UNCHANGED <<places, popup, tiles, blinking, calls, timeFormat, calFormat, usedPlaces>>
    BY <1>12 DEF WeatherAnswer, formatVars
  <2>2. CASE UNCHANGED <<here, marked, rows>>
    BY <2>1, <2>2 DEF MarkFits, MarkerIsCurrent, Lives
  <2>3. ASSUME NEW h \in Adopted(here, {p}), h # here,
               here' = IfHeld(h, Keeping(places, Range(places), tiles, calls, blinking)),
               marked' = Marks(tiles, h), rows' = Range(places)
        PROVE  MarkFits'
    <3>1. here' = NoPlace \/ Lives(here)' BY <2>1, <2>3, IfHeldIs DEF Lives
    <3>2. marked' = tiles \cap {here'}
      <4>1. h \in tiles => here' = h BY <2>3 DEF IfHeld, Keeping
      <4>2. here' = h \/ here' = NoPlace BY <2>3 DEF IfHeld
      <4>3. NoPlace \notin tiles BY <1>0 DEF MarkFits
      <4> QED BY <2>3, <4>1, <4>2, <4>3 DEF Marks
    <3> QED BY <2>1, <3>1, <3>2 DEF MarkFits, MarkerIsCurrent
  <2> QED BY <1>12, <2>2, <2>3 DEF WeatherAnswer
<1>13. CASE DestroyClock
  <2>1. /\ popup' = FALSE /\ tiles' = {} /\ marked' = {} /\ blinking' = NoPlace
        /\ here' = IfHeld(here, calls)
        /\ UNCHANGED <<calls, timeFormat, calFormat, usedPlaces>>
    BY <1>13 DEF DestroyClock, Gone, formatVars
  <2>2. here' = NoPlace \/ Lives(here)' BY <2>1, IfHeldIs DEF Lives, Keeping
  <2> QED BY <2>1, <2>2 DEF MarkFits, MarkerIsCurrent
<1>14. CASE UNCHANGED <<places, rows, popup, tiles, marked, here, blinking, calls, formatVars,
                        usedPlaces>>
  BY <1>14 DEF MarkFits, MarkerIsCurrent, Lives, formatVars
<1>15. CASE WriteZone \/ ZoneRead \/ CancelEdit \/ Connected \/ UNCHANGED placeVars
            \/ \E p \in Places \cup {NoPlace} : Edit(p)
  <2>1. CASE WriteZone BY <1>14, <2>1 DEF WriteZone
  <2>2. CASE ZoneRead BY <1>14, <2>2 DEF ZoneRead
  <2>3. CASE CancelEdit BY <1>14, <2>3 DEF CancelEdit
  <2>4. CASE Connected BY <1>14, <2>4 DEF Connected
  <2>5. CASE UNCHANGED placeVars BY <1>14, <2>5 DEF placeVars, formatVars
  <2>6. ASSUME NEW p \in Places \cup {NoPlace}, Edit(p) PROVE MarkFits'
    BY <1>14, <2>6 DEF Edit
  <2> QED BY <1>15, <2>1, <2>2, <2>3, <2>4, <2>5, <2>6
<1> QED
  BY <1>1, <1>2, <1>3, <1>4, <1>5, <1>6, <1>7, <1>8, <1>9, <1>10, <1>11, <1>12, <1>13, <1>15
  DEF PlaceNext

PlaceInv == ZoneFits /\ WeatherFits /\ ListFits /\ MarkFits

LEMMA PlaceInitHolds ==
  ASSUME PlaceAssumption, PlaceInit
  PROVE  PlaceInv
<1>1. FirstPlaces \in Seq(Places) /\ Range(FirstPlaces) \subseteq Places
  BY DEF PlaceAssumption, Range
<1>2. ZoneFits BY DEF PlaceInit, ZoneInit, ZoneFits, PlaceAssumption
<1>3. WeatherFits BY DEF PlaceInit, WeatherFits, PlaceAssumption
<1>4. ListFits BY <1>1 DEF PlaceInit, ListFits, ListIsStored, PlaceAssumption
<1>5. MarkFits BY DEF PlaceInit, MarkFits, MarkerIsCurrent
<1> QED BY <1>2, <1>3, <1>4, <1>5 DEF PlaceInv

\* The marker is on the tile of the current place and on no other, and setting and
\* dialog have the places of the list, however late the system accepts a zone
\* (clock_location_make_current, save_cities_store).
THEOREM PlacesAgree == PlaceAssumption /\ PlaceSpec => [](MarkerIsCurrent /\ ListIsStored)
<1> SUFFICES ASSUME PlaceAssumption PROVE PlaceSpec => [](MarkerIsCurrent /\ ListIsStored)
  OBVIOUS
<1>1. PlaceInit => PlaceInv BY PlaceInitHolds
<1>2. PlaceInv /\ [PlaceNext]_placeVars => PlaceInv'
  BY ZoneKeeps, WeatherKeeps, ListKeeps, MarkKeeps DEF PlaceInv
<1>3. PlaceInv => MarkerIsCurrent /\ ListIsStored BY DEF PlaceInv, ListFits, MarkFits
<1> QED BY <1>1, <1>2, <1>3, PTL DEF PlaceSpec

-----------------------------------------------------------------------------
(* The calendar: what a query has and what is on its way to it. *)

\* What the server says of entry e while it has st.
Word(e, st) == IF st[e] = 0 THEN Del(e) ELSE Put(e, st[e])
Mentions(q, e) == \E i \in 1 .. Len(q) : q[i].entry = e
LastIs(q, e, m) ==
  \E i \in 1 .. Len(q) : q[i] = m /\ \A j \in 1 .. Len(q) : j > i => q[j].entry # e

\* What query v has of e, of which nothing is on its way any more.
Settled(v, e, st) ==
  /\ st[e] = 0 => \A x \in v.entries : x.entry # e
  /\ st[e] # 0 => IF e \in v.lost
                    THEN \A x \in v.entries : x.entry # e
                    ELSE /\ \E x \in v.entries : x.entry = e
                         /\ \A x \in v.entries : x.entry = e => x.version = st[e]

\* Of every entry the last word is on its way, or the query has it.
Agrees(v, s, st) ==
  \A e \in Asks(s, v.month) : IF Mentions(v.queue, e) THEN LastIs(v.queue, e, Word(e, st))
                                                      ELSE Settled(v, e, st)

\* A query of calendar s has entries of s.
Owned(v, s) ==
  /\ \A x \in v.entries : x.entry \in Asks(s, v.month) /\ (s \in Tasks => x.occurs)
  /\ \A i \in 1 .. Len(v.queue) : \/ v.queue[i] = Done
                                  \/ v.queue[i].op \in {"put", "del"} /\ v.queue[i].entry \in Asks(s, v.month)

LEMMA ViewParts ==
  ASSUME NEW v \in Views
  PROVE  /\ v.month \in Months \cup {NoMonth} /\ v.lost \subseteq Entries
         /\ v.entries \subseteq [entry : Entries, version : Nat, occurs : BOOLEAN]
         /\ v.queue \in Seq(Messages)
BY DEF Views

LEMMA QueueAdds ==
  ASSUME NEW q \in Seq(Messages), NEW m \in Messages
  PROVE  /\ Append(q, m) \in Seq(Messages)
         /\ \A i \in 1 .. Len(Append(q, m)) :
              Append(q, m)[i] = m \/ \E j \in 1 .. Len(q) : Append(q, m)[i] = q[j]
         /\ LastIs(Append(q, m), m.entry, m)
         /\ \A e : e # m.entry => /\ Mentions(Append(q, m), e) <=> Mentions(q, e)
                                  /\ \A w : LastIs(q, e, w) => LastIs(Append(q, m), e, w)
<1> DEFINE n == Len(q)
           r == Append(q, m)
<1>1. /\ r \in Seq(Messages) /\ n \in Nat /\ Len(r) = n + 1 /\ r[n + 1] = m
      /\ \A i \in 1 .. n : r[i] = q[i]
  OBVIOUS
<1> HIDE DEF r
<1>2. \A i \in 1 .. Len(r) : r[i] = m \/ \E j \in 1 .. n : r[i] = q[j] BY <1>1
<1>3. LastIs(r, m.entry, m) BY <1>1 DEF LastIs
<1>4. ASSUME NEW e, e # m.entry
      PROVE  /\ Mentions(r, e) <=> Mentions(q, e)
             /\ \A w : LastIs(q, e, w) => LastIs(r, e, w)
  <2>1. Mentions(r, e) <=> Mentions(q, e) BY <1>1, <1>4 DEF Mentions
  <2>2. ASSUME NEW w, LastIs(q, e, w) PROVE LastIs(r, e, w)
    <3>1. PICK i \in 1 .. n : q[i] = w /\ \A j \in 1 .. n : j > i => q[j].entry # e
      BY <2>2 DEF LastIs
    <3>2. \A j \in 1 .. Len(r) : j > i => r[j].entry # e BY <1>1, <1>4, <3>1
    <3> QED BY <1>1, <3>1, <3>2 DEF LastIs
  <2> QED BY <2>1, <2>2
<1> QED BY <1>1, <1>2, <1>3, <1>4 DEF r

LEMMA QueueLeaves ==
  ASSUME NEW q \in Seq(Messages), q # <<>>
  PROVE  /\ Tail(q) \in Seq(Messages) /\ Head(q) \in Messages /\ Head(q) = q[1] /\ 1 \in 1 .. Len(q)
         /\ \A i \in 1 .. Len(Tail(q)) : \E j \in 1 .. Len(q) : Tail(q)[i] = q[j]
         /\ \A e : /\ Mentions(q, e) <=> (Head(q).entry = e \/ Mentions(Tail(q), e))
                   /\ Mentions(Tail(q), e) =>
                        \A w : LastIs(q, e, w) /\ w.entry = e => LastIs(Tail(q), e, w)
                   /\ ~Mentions(Tail(q), e) => \A w : LastIs(q, e, w) /\ w.entry = e => w = Head(q)
<1> DEFINE n == Len(q)
           t == Tail(q)
<1>1. /\ t \in Seq(Messages) /\ n \in Nat \ {0} /\ Len(t) = n - 1 /\ Head(q) = q[1]
      /\ \A i \in 1 .. n - 1 : t[i] = q[i + 1]
  OBVIOUS
<1>2. Head(q) \in Messages OBVIOUS
<1> HIDE DEF t
<1>3. \A i \in 1 .. Len(t) : \E j \in 1 .. n : t[i] = q[j]
  <2> SUFFICES ASSUME NEW i \in 1 .. n - 1 PROVE \E j \in 1 .. n : t[i] = q[j] BY <1>1
  <2> QED BY <1>1
<1>4. ASSUME NEW e PROVE Mentions(q, e) <=> (Head(q).entry = e \/ Mentions(t, e))
  <2>1. ASSUME NEW i \in 1 .. n, q[i].entry = e, i # 1 PROVE Mentions(t, e)
    <3>1. i - 1 \in 1 .. n - 1 /\ t[i - 1] = q[i] BY <1>1, <2>1
    <3> QED BY <1>1, <2>1, <3>1 DEF Mentions
  <2>2. ASSUME NEW i \in 1 .. n - 1, t[i].entry = e PROVE Mentions(q, e)
    <3>1. i + 1 \in 1 .. n /\ q[i + 1].entry = e BY <1>1, <2>2
    <3> QED BY <3>1 DEF Mentions
  <2> QED BY <1>1, <2>1, <2>2 DEF Mentions
<1>5. ASSUME NEW e, NEW w, LastIs(q, e, w), w.entry = e
      PROVE  (Mentions(t, e) => LastIs(t, e, w)) /\ (~Mentions(t, e) => w = Head(q))
  <2>1. PICK i \in 1 .. n : q[i] = w /\ \A j \in 1 .. n : j > i => q[j].entry # e
    BY <1>5 DEF LastIs
  <2>2. CASE i = 1
    <3>1. ~Mentions(t, e)
      <4> SUFFICES ASSUME NEW j \in 1 .. n - 1 PROVE t[j].entry # e BY <1>1 DEF Mentions
      <4>1. j + 1 \in 1 .. n /\ j + 1 > i BY <1>1, <2>2
      <4> QED BY <1>1, <2>1, <4>1
    <3> QED BY <1>1, <2>1, <2>2, <3>1
  <2>3. CASE i # 1
    <3>1. i - 1 \in 1 .. n - 1 /\ t[i - 1] = w BY <1>1, <2>1, <2>3
    <3>2. ASSUME NEW j \in 1 .. n - 1, j > i - 1 PROVE t[j].entry # e
      <4>1. j + 1 \in 1 .. n /\ j + 1 > i BY <1>1, <3>2
      <4> QED BY <1>1, <2>1, <4>1
    <3>3. LastIs(t, e, w) BY <1>1, <3>1, <3>2 DEF LastIs
    <3>4. Mentions(t, e) BY <1>1, <1>5, <3>1 DEF Mentions
    <3> QED BY <3>3, <3>4
  <2> QED BY <2>2, <2>3
<1> QED BY <1>1, <1>2, <1>3, <1>4, <1>5 DEF t

LEMMA WordIs ==
  ASSUME CalAssumption, NEW e \in Entries, NEW st \in [Entries -> Nat]
  PROVE  Word(e, st) \in Messages /\ Word(e, st).entry = e /\ Word(e, st).op \in {"put", "del"}
BY DEF Word, Put, Del, Messages

LEMMA QueueChanged ==
  ASSUME NEW v \in Views, NEW r
  PROVE  [v EXCEPT !.queue = r] =
           [month |-> v.month, entries |-> v.entries, lost |-> v.lost, queue |-> r]
BY DEF Views

LEMMA ViewChanged ==
  ASSUME NEW v \in Views, NEW q, NEW E, NEW L
  PROVE  [v EXCEPT !.queue = q, !.entries = E, !.lost = L] =
           [month |-> v.month, entries |-> E, lost |-> L, queue |-> q]
<1> DEFINE u == [v EXCEPT !.queue = q]
           t == [u EXCEPT !.entries = E]
           w == [t EXCEPT !.lost = L]
<1>1. u = [month |-> v.month, entries |-> v.entries, lost |-> v.lost, queue |-> q]
  BY QueueChanged
<1>2. [v EXCEPT !.queue = q, !.entries = E, !.lost = L] = w
  OBVIOUS
<1> HIDE DEF u
<1>3. t = [month |-> v.month, entries |-> E, lost |-> v.lost, queue |-> q] BY <1>1
<1> HIDE DEF t
<1>4. w = [month |-> v.month, entries |-> E, lost |-> L, queue |-> q] BY <1>3
<1> QED BY <1>2, <1>4

\* A query as it starts.
LEMMA ViewStarts ==
  ASSUME CalAssumption, NEW s \in Sources, NEW m \in Months \cup {NoMonth},
         store \in [Entries -> Nat]
  PROVE  /\ View(s, m) \in Views /\ View(s, m).month = m /\ View(s, m).entries = {}
         /\ Owned(View(s, m), s) /\ Agrees(View(s, m), s, store)
<1> DEFINE F == {f \in Asks(s, m) : store[f] # 0}
           S == {Put(e, store[e]) : e \in F}
           q == SetToSeq(S)
           r == q \o <<Done>>
<1>1. F \subseteq Entries /\ IsFiniteSet(F) BY FS_Subset DEF CalAssumption, Asks
<1>2. IsFiniteSet(S)
  <2> HIDE DEF F
  <2> DEFINE f == [e \in F |-> Put(e, store[e])]
  <2>1. f \in Surjection(F, S) BY DEF Surjection
  <2> QED BY <1>1, <2>1, FS_Surjection
<1>3. S \subseteq Messages BY <1>1 DEF Put, Messages
<1> HIDE DEF S, F
<1>4. q \in Seq(Messages) /\ ToSet(q) = S BY <1>2, <1>3, SetToSeqHas
<1>5. Done \in Messages BY DEF Done, Messages
<1> HIDE DEF q
<1>6. r \in Seq(Messages) /\ Len(r) = Len(q) + 1 /\ r[Len(q) + 1] = Done /\ Len(q) \in Nat
      /\ \A i \in 1 .. Len(q) : r[i] = q[i]
  BY <1>4, <1>5
<1> HIDE DEF r
<1>7. View(s, m) = [month |-> m, entries |-> {}, lost |-> {}, queue |-> r]
  BY DEF View, r, q, S, F
<1>8. \A i \in 1 .. Len(q) : q[i] \in S BY <1>4 DEF ToSet
<1>9. \A x \in S : \E i \in 1 .. Len(q) : q[i] = x BY <1>4 DEF ToSet
<1>10. Owned(View(s, m), s)
  <2>1. \A i \in 1 .. Len(r) : r[i] = Done \/ (r[i].op = "put" /\ r[i].entry \in Asks(s, m))
    BY <1>6, <1>8 DEF S, Put, F
  <2> QED BY <1>7, <2>1 DEF Owned
<1>11. ASSUME NEW e \in Asks(s, m)
       PROVE  IF Mentions(r, e) THEN LastIs(r, e, Word(e, store)) ELSE Settled(View(s, m), e, store)
  <2>1. e \in Entries /\ e # NoMonth BY DEF Asks, CalAssumption
  <2>2. CASE store[e] = 0
    <3>1. ~Mentions(r, e)
      BY <1>6, <1>8, <2>1, <2>2 DEF Mentions, S, F, Put, Done
    <3> QED BY <1>7, <2>2, <3>1 DEF Settled
  <2>3. CASE store[e] # 0
    <3>1. Put(e, store[e]) \in S BY <2>3 DEF S, F
    <3>2. PICK i \in 1 .. Len(q) : q[i] = Put(e, store[e]) BY <1>9, <3>1
    <3>3. \A j \in 1 .. Len(q) : q[j].entry = e => q[j] = Put(e, store[e])
      BY <1>8 DEF S, Put
    <3>4. Done.entry # e BY <2>1 DEF Done
    <3> DEFINE T == {j \in 1 .. Len(q) : q[j].entry = e}
    <3>5. i \in T /\ T \subseteq Int /\ \A y \in T : y <= Len(q) BY <3>2 DEF Put
    <3>6. PICK k \in T : \A y \in T : y <= k
      <4>1. T # {} /\ T \in SUBSET Int /\ Len(q) \in Int BY <1>6, <3>5
      <4> HIDE DEF T
      <4> QED BY <4>1, <3>5, GreatestNumber
    <3>7. q[k] = Put(e, store[e]) BY <3>3
    <3>8. \A j \in 1 .. Len(r) : j > k => r[j].entry # e BY <1>6, <3>4, <3>6
    <3>9. LastIs(r, e, Word(e, store)) BY <1>6, <2>3, <3>7, <3>8 DEF LastIs, Word
    <3>10. Mentions(r, e) BY <1>6, <3>2 DEF Mentions, Put
    <3> QED BY <3>9, <3>10
  <2> QED BY <2>2, <2>3
<1>12. Agrees(View(s, m), s, store) BY <1>7, <1>11 DEF Agrees
<1>13. View(s, m) \in Views BY <1>6, <1>7 DEF Views
<1> QED BY <1>7, <1>10, <1>12, <1>13

\* A query that is told of entry e, which is now as st has it.
LEMMA ToldAgrees ==
  ASSUME CalAssumption, NEW s \in Sources, NEW v \in Views, Owned(v, s), NEW e \in Entries,
         NEW st \in [Entries -> Nat], NEW old \in [Entries -> Nat],
         \A f \in Entries : f # e => st[f] = old[f],
         Agrees(v, s, old)
  PROVE  /\ e \notin Asks(s, v.month) => Agrees(v, s, st)
         /\ LET w == [v EXCEPT !.queue = Append(@, Word(e, st))]
            IN  /\ w \in Views /\ w.month = v.month /\ w.entries = v.entries
                /\ e \in Asks(s, v.month) => Owned(w, s) /\ Agrees(w, s, st)
<1> DEFINE q == v.queue
           m == Word(e, st)
           r == Append(q, m)
           w == [v EXCEPT !.queue = Append(@, m)]
<1>1. v.queue \in Seq(Messages) /\ m \in Messages /\ m.entry = e /\ m.op \in {"put", "del"}
  BY ViewParts, WordIs
<1>2. w = [month |-> v.month, entries |-> v.entries, lost |-> v.lost, queue |-> r]
  <2>1. w = [v EXCEPT !.queue = r] OBVIOUS
  <2> HIDE DEF w, r
  <2> QED BY <2>1, QueueChanged
<1>3. /\ r \in Seq(Messages) /\ LastIs(r, e, m)
      /\ \A i \in 1 .. Len(r) : r[i] = m \/ \E j \in 1 .. Len(q) : r[i] = q[j]
      /\ \A f : f # e => /\ Mentions(r, f) <=> Mentions(q, f)
                         /\ \A u : LastIs(q, f, u) => LastIs(r, f, u)
  BY <1>1, QueueAdds
<1> HIDE DEF w, r, m
<1>4. w \in Views BY <1>2, <1>3, ViewParts DEF Views
<1>5. \A f \in Asks(s, v.month) : f \in Entries BY DEF Asks
<1>6. ASSUME NEW f \in Asks(s, v.month), f # e
      PROVE  IF Mentions(q, f) THEN LastIs(q, f, Word(f, st)) ELSE Settled(v, f, st)
  <2>1. st[f] = old[f] /\ Word(f, st) = Word(f, old) BY <1>5, <1>6 DEF Word
  <2> QED BY <2>1 DEF Agrees, Settled
<1>7. e \notin Asks(s, v.month) => Agrees(v, s, st) BY <1>6 DEF Agrees
<1>8. ASSUME e \in Asks(s, v.month) PROVE Owned(w, s)
  BY <1>1, <1>2, <1>3, <1>8 DEF Owned
<1>9. Agrees(w, s, st)
  <2> SUFFICES ASSUME NEW f \in Asks(s, v.month)
               PROVE  IF Mentions(r, f) THEN LastIs(r, f, Word(f, st)) ELSE Settled(w, f, st)
    BY <1>2 DEF Agrees
  <2>1. CASE f = e
    <3>1. Mentions(r, e) BY <1>1, <1>3 DEF Mentions, LastIs
    <3> QED BY <1>3, <2>1, <3>1 DEF m
  <2>2. CASE f # e
    BY <1>2, <1>3, <1>6, <2>2 DEF Settled
  <2> QED BY <2>1, <2>2
<1> QED BY <1>2, <1>4, <1>7, <1>8, <1>9 DEF w, m

\* A query that has got the oldest message.
LEMMA TailAgrees ==
  ASSUME CalAssumption, NEW s \in Sources, NEW v \in Views, Owned(v, s), v.queue # <<>>,
         NEW st \in [Entries -> Nat], Agrees(v, s, st),
         NEW E \in SUBSET [entry : Entries, version : Nat, occurs : BOOLEAN],
         NEW L \in SUBSET Entries,
         \A x \in E : x.entry \in Asks(s, v.month) /\ (s \in Tasks => x.occurs),
         \A e \in Asks(s, v.month) :
           LET w == [month |-> v.month, entries |-> E, lost |-> L, queue |-> Tail(v.queue)]
           IN  /\ e = Head(v.queue).entry /\ Head(v.queue) = Word(e, st) => Settled(w, e, st)
               /\ e # Head(v.queue).entry /\ Settled(v, e, st) => Settled(w, e, st)
  PROVE  LET w == [month |-> v.month, entries |-> E, lost |-> L, queue |-> Tail(v.queue)]
         IN  w \in Views /\ Owned(w, s) /\ Agrees(w, s, st)
<1> DEFINE q == v.queue
           t == Tail(q)
           h == Head(q)
           w == [month |-> v.month, entries |-> E, lost |-> L, queue |-> t]
<1>1. q \in Seq(Messages) /\ v.month \in Months \cup {NoMonth} BY ViewParts
<1>2. /\ t \in Seq(Messages) /\ h \in Messages
      /\ \A i \in 1 .. Len(t) : \E j \in 1 .. Len(q) : t[i] = q[j]
      /\ \A e : /\ Mentions(q, e) <=> (h.entry = e \/ Mentions(t, e))
                /\ Mentions(t, e) => \A u : LastIs(q, e, u) /\ u.entry = e => LastIs(t, e, u)
                /\ ~Mentions(t, e) => \A u : LastIs(q, e, u) /\ u.entry = e => u = h
  BY <1>1, QueueLeaves
<1>3. \A e \in Asks(s, v.month) : /\ e = h.entry /\ h = Word(e, st) => Settled(w, e, st)
                                  /\ e # h.entry /\ Settled(v, e, st) => Settled(w, e, st)
  OBVIOUS
<1> HIDE DEF t, h
<1>4. w \in Views BY <1>1, <1>2 DEF Views
<1>5. Owned(w, s) BY <1>2 DEF Owned
<1>6. ASSUME NEW e \in Asks(s, v.month)
      PROVE  IF Mentions(t, e) THEN LastIs(t, e, Word(e, st)) ELSE Settled(w, e, st)
  <2>1. e \in Entries BY DEF Asks
  <2>2. Word(e, st).entry = e BY <2>1, WordIs
  <2>3. IF Mentions(q, e) THEN LastIs(q, e, Word(e, st)) ELSE Settled(v, e, st) BY DEF Agrees
  <2> QED BY <1>2, <1>3, <2>2, <2>3
<1>7. Agrees(w, s, st) BY <1>6 DEF Agrees
<1> QED BY <1>4, <1>5, <1>7 DEF t

LEMMA EntryIs ==
  ASSUME CalAssumption, NEW s \in Sources, NEW m, NEW e \in Asks(s, m), NEW n \in Nat
  PROVE  /\ Entry(e, n) \in [entry : Entries, version : Nat, occurs : BOOLEAN]
         /\ Entry(e, n).entry = e /\ Entry(e, n).version = n
         /\ s \in Tasks \/ m = month => Entry(e, n).occurs
BY DEF Entry, Asks

LEMMA AppliedAgrees ==
  ASSUME CalAssumption, NEW s \in Sources, NEW v \in Views, Owned(v, s), v.queue # <<>>,
         store \in [Entries -> Nat], Agrees(v, s, store)
  PROVE  LET w == Applied(v, Head(v.queue))
         IN  /\ w \in Views /\ Owned(w, s) /\ Agrees(w, s, store) /\ w.month = v.month
             /\ v.month = month => \A x \in w.entries : x \in v.entries \/ x.occurs
<1> DEFINE h == Head(v.queue)
           Others == {x \in v.entries : x.entry # h.entry}
           Hit == {e \in Entries : <<h.entry, e>> \in UidPrefix}
           E == CASE h.op = "put" -> Others \cup {Entry(h.entry, h.version)}
                  [] h.op = "del" -> {x \in Others : x.entry \notin Hit}
                  [] OTHER -> v.entries
           L == CASE h.op = "put" -> v.lost \ {h.entry}
                  [] h.op = "del" -> v.lost \cup {x.entry : x \in {y \in Others : y.entry \in Hit}}
                  [] OTHER -> v.lost
           w == [month |-> v.month, entries |-> E, lost |-> L, queue |-> Tail(v.queue)]
<1>1. Applied(v, h) = w
  <2>1. Applied(v, h) = [v EXCEPT !.queue = Tail(v.queue), !.entries = E, !.lost = L]
    BY DEF Applied
  <2> HIDE DEF E, L
  <2> QED BY <2>1, ViewChanged
<1>2. /\ v.month \in Months \cup {NoMonth} /\ v.lost \subseteq Entries
      /\ v.entries \subseteq [entry : Entries, version : Nat, occurs : BOOLEAN]
      /\ v.queue \in Seq(Messages)
  BY ViewParts
<1>3. h \in Messages /\ h = v.queue[1] /\ 1 \in 1 .. Len(v.queue) BY <1>2, QueueLeaves
<1>4. h = Done \/ (h.op \in {"put", "del"} /\ h.entry \in Asks(s, v.month)) BY <1>3 DEF Owned
<1> HIDE DEF h
<1>5. \A x \in v.entries : x.entry \in Asks(s, v.month) /\ (s \in Tasks => x.occurs) BY DEF Owned
<1>6. \A e \in Asks(s, v.month) : e \in Entries /\ e # NoMonth BY DEF Asks, CalAssumption
<1>7. h.version \in Nat BY <1>3 DEF Messages
<1>8. CASE h.op = "put"
  <2> DEFINE n == Entry(h.entry, h.version)
  <2>1. h.entry \in Asks(s, v.month) BY <1>4, <1>8 DEF Done
  <2>2. /\ n \in [entry : Entries, version : Nat, occurs : BOOLEAN]
        /\ n.entry = h.entry /\ n.version = h.version
        /\ s \in Tasks \/ v.month = month => n.occurs
    BY <1>7, <2>1, EntryIs
  <2> HIDE DEF n
  <2>3. E = Others \cup {n} /\ L = v.lost \ {h.entry} BY <1>8 DEF n
  <2> HIDE DEF E, L
  <2>4. E \in SUBSET [entry : Entries, version : Nat, occurs : BOOLEAN] /\ L \in SUBSET Entries
    BY <1>2, <2>2, <2>3
  <2>5. \A x \in E : x.entry \in Asks(s, v.month) /\ (s \in Tasks => x.occurs)
    BY <1>5, <2>1, <2>2, <2>3
  <2>6. ASSUME NEW e \in Asks(s, v.month)
        PROVE  /\ e = h.entry /\ h = Word(e, store) => Settled(w, e, store)
               /\ e # h.entry /\ Settled(v, e, store) => Settled(w, e, store)
    <3>1. ASSUME e = h.entry, h = Word(e, store) PROVE Settled(w, e, store)
      <4>1. store[e] # 0 /\ h.version = store[e] BY <1>8, <3>1 DEF Word, Put, Del
      <4> QED BY <2>2, <2>3, <3>1, <4>1 DEF Settled
    <3>2. ASSUME e # h.entry, Settled(v, e, store) PROVE Settled(w, e, store)
      BY <2>2, <2>3, <3>2 DEF Settled
    <3> QED BY <3>1, <3>2
  <2>7. w \in Views /\ Owned(w, s) /\ Agrees(w, s, store)
    BY <2>4, <2>5, <2>6, TailAgrees DEF h
  <2>8. v.month = month => \A x \in E : x \in v.entries \/ x.occurs BY <2>2, <2>3
  <2> QED BY <1>1, <2>7, <2>8 DEF h
<1>9. CASE h.op = "del"
  <2>1. E = {x \in Others : x.entry \notin Hit}
        /\ L = v.lost \cup {x.entry : x \in {y \in Others : y.entry \in Hit}}
    BY <1>9
  <2> HIDE DEF E, L, Hit
  <2>4. E \in SUBSET [entry : Entries, version : Nat, occurs : BOOLEAN] /\ L \in SUBSET Entries
    BY <1>2, <2>1
  <2>5. \A x \in E : x.entry \in Asks(s, v.month) /\ (s \in Tasks => x.occurs)
    BY <1>5, <2>1
  <2>6. ASSUME NEW e \in Asks(s, v.month)
        PROVE  /\ e = h.entry /\ h = Word(e, store) => Settled(w, e, store)
               /\ e # h.entry /\ Settled(v, e, store) => Settled(w, e, store)
    <3>1. ASSUME e = h.entry, h = Word(e, store) PROVE Settled(w, e, store)
      <4>1. store[e] = 0 BY <1>9, <3>1 DEF Word, Put, Del
      <4> QED BY <2>1, <3>1, <4>1 DEF Settled
    <3>2. ASSUME e # h.entry, Settled(v, e, store) PROVE Settled(w, e, store)
      <4>1. CASE e \in Hit
        <5>1. \A x \in E : x.entry # e BY <2>1, <4>1
        <5>2. store[e] # 0 => e \in L BY <2>1, <3>2, <4>1 DEF Settled
        <5> QED BY <5>1, <5>2 DEF Settled
      <4>2. CASE e \notin Hit
        <5>1. e \in L <=> e \in v.lost BY <2>1, <4>2
        <5>2. \A x : x.entry = e => (x \in E <=> x \in v.entries) BY <2>1, <3>2, <4>2
        <5> QED BY <3>2, <5>1, <5>2 DEF Settled
      <4> QED BY <4>1, <4>2
    <3> QED BY <3>1, <3>2
  <2>7. w \in Views /\ Owned(w, s) /\ Agrees(w, s, store)
    BY <2>4, <2>5, <2>6, TailAgrees DEF h
  <2>8. \A x \in E : x \in v.entries BY <2>1
  <2> QED BY <1>1, <2>7, <2>8 DEF h
<1>10. CASE h = Done
  <2>1. E = v.entries /\ L = v.lost BY <1>10 DEF Done
  <2> HIDE DEF E, L
  <2>2. \A e \in Asks(s, v.month) : e # h.entry BY <1>6, <1>10 DEF Done
  <2>3. \A e \in Asks(s, v.month) : Settled(v, e, store) => Settled(w, e, store)
    BY <2>1 DEF Settled
  <2>4. E \in SUBSET [entry : Entries, version : Nat, occurs : BOOLEAN] /\ L \in SUBSET Entries
    BY <1>2, <2>1
  <2>5. \A x \in E : x.entry \in Asks(s, v.month) /\ (s \in Tasks => x.occurs) BY <1>5, <2>1
  <2>7. w \in Views /\ Owned(w, s) /\ Agrees(w, s, store)
    BY <2>2, <2>3, <2>4, <2>5, TailAgrees DEF h
  <2> QED BY <1>1, <2>1, <2>7 DEF h
<1> QED BY <1>4, <1>8, <1>9, <1>10

\* The query that is completed has what the one in progress had.
LEMMA DoneAgrees ==
  ASSUME CalAssumption, NEW s \in Sources, NEW v \in Views, Owned(v, s), v.queue # <<>>,
         Head(v.queue) = Done, store \in [Entries -> Nat], Agrees(v, s, store)
  PROVE  LET w == [v EXCEPT !.queue = Tail(@)]
         IN  /\ w \in Views /\ Owned(w, s) /\ Agrees(w, s, store)
             /\ w.month = v.month /\ w.entries = v.entries
<1>1. Applied(v, Done) = [month |-> v.month, entries |-> v.entries, lost |-> v.lost,
                          queue |-> Tail(v.queue)]
  <2>1. Applied(v, Done) =
          [v EXCEPT !.queue = Tail(v.queue), !.entries = v.entries, !.lost = v.lost]
    BY Zenon DEF Applied, Done
  <2> QED BY <2>1, ViewChanged
<1>2. [v EXCEPT !.queue = Tail(@)] = [v EXCEPT !.queue = Tail(v.queue)] BY DEF Views
<1>3. [v EXCEPT !.queue = Tail(@)] = Applied(v, Done) BY <1>1, <1>2, QueueChanged
<1> QED BY <1>1, <1>3, AppliedAgrees

-----------------------------------------------------------------------------
(* The calendar: its clients, its queries and what the window shows. *)

CalFits ==
  /\ store \in [Entries -> Nat] /\ month \in Months \cup {NoMonth}
  /\ ecal \in [Sources -> {"none", "new", "opening", "loaded"}]
  /\ completed \in [Sources -> Views \cup {NoView}]
  /\ inProgress \in [Sources -> Views \cup {NoView}]
  /\ selected \subseteq Sources /\ listed \subseteq Sources /\ dead \subseteq listed
  /\ ~window => listed = {} /\ shown = {}
  /\ \A x \in shown : SourceOf[x.entry] \in Tasks \/ MonthOf[x.entry] = month

\* A calendar with queries is listed, and loaded unless its backend died.
ClientFits(s) ==
  /\ completed[s] # NoView \/ inProgress[s] # NoView
       => s \in listed /\ (s \notin dead => ecal[s] = "loaded")
  /\ s \in dead => ecal[s] = "none"

\* A query of a calendar whose backend lives hears of what it asked for.
QueryFits(v, s) ==
  v # NoView => Owned(v, s) /\ IF s \in dead THEN v.queue = <<>> ELSE Agrees(v, s, store)

\* The last query of appointments asks for the selected month.
OfMonth(v) == v.month = month /\ \A x \in v.entries : x.occurs
Timely(s) ==
  s \notin dead \cup Tasks => IF inProgress[s] # NoView
                              THEN OfMonth(inProgress[s])
                              ELSE completed[s] # NoView /\ s \notin failed => OfMonth(completed[s])

\* What the window shows of s, and of query v in month m.
Of(s) == {x \in shown : SourceOf[x.entry] = s}
Seen(v, m) ==
  {[entry |-> x.entry, version |-> x.version] :
     x \in {y \in v.entries : y.occurs /\ (SourceOf[y.entry] \in Tasks \/ MonthOf[y.entry] = m)}}
ShownFits(s) == completed[s] # NoView => Of(s) = Seen(completed[s], month)

SourceFits(s) ==
  /\ ClientFits(s) /\ QueryFits(completed[s], s) /\ QueryFits(inProgress[s], s)
  /\ Timely(s) /\ ShownFits(s)

CalInv == CalFits /\ \A s \in Sources : SourceFits(s)

\* A calendar that a step leaves alone.
LEMMA OtherFits ==
  ASSUME NEW s \in Sources, SourceFits(s), UNCHANGED <<store, month>>,
         completed'[s] = completed[s], inProgress'[s] = inProgress[s], ecal'[s] = ecal[s],
         s \in listed' <=> s \in listed, s \in dead' <=> s \in dead,
         s \in failed' <=> s \in failed, completed[s] # NoView => Of(s)' = Of(s)
  PROVE  SourceFits(s)'
<1>1. ClientFits(s)' BY DEF SourceFits, ClientFits
<1>2. QueryFits(completed[s], s)' /\ QueryFits(inProgress[s], s)' BY DEF SourceFits, QueryFits
<1>3. Timely(s)' BY DEF SourceFits, Timely, OfMonth
<1>4. ShownFits(s)' BY DEF SourceFits, ShownFits
<1> QED BY <1>1, <1>2, <1>3, <1>4 DEF SourceFits

\* A calendar without queries, whose backend did not die.
LEMMA EmptyFits ==
  ASSUME NEW s \in Sources, completed[s] = NoView, inProgress[s] = NoView, s \notin dead
  PROVE  SourceFits(s)
BY DEF SourceFits, ClientFits, QueryFits, Timely, ShownFits

\* The window reads the completed queries.
LEMMA ShowsIs ==
  ASSUME CalAssumption, NEW done \in [Sources -> Views \cup {NoView}], NEW m,
         \A s \in Sources : done[s] # NoView => Owned(done[s], s)
  PROVE  /\ \A x \in Shows(done, m) : SourceOf[x.entry] \in Tasks \/ MonthOf[x.entry] = m
         /\ \A s \in Sources :
              {x \in Shows(done, m) : SourceOf[x.entry] = s} =
                IF done[s] = NoView THEN {} ELSE Seen(done[s], m)
<1> DEFINE R(x) == [entry |-> x.entry, version |-> x.version]
<1>1. Shows(done, m) = {R(x) : x \in Events(done, m)}
  BY DEF Shows, ShownTasks, ShownAppointments, ShownOf
<1>2. \A x : R(x).entry = x.entry OBVIOUS
<1>3. \A x : x \in Events(done, m) <=>
               /\ \E s \in Sources : done[s] # NoView /\ x \in done[s].entries
               /\ x.occurs /\ (SourceOf[x.entry] \in Tasks \/ MonthOf[x.entry] = m)
  BY DEF Events
<1>4. \A s \in Sources : done[s] # NoView => \A x \in done[s].entries : SourceOf[x.entry] = s
  BY DEF Owned, Asks
<1> HIDE DEF R
<1>5. \A x \in Shows(done, m) : SourceOf[x.entry] \in Tasks \/ MonthOf[x.entry] = m
  BY <1>1, <1>2, <1>3
<1>6. ASSUME NEW s \in Sources
      PROVE  {x \in Shows(done, m) : SourceOf[x.entry] = s} =
               IF done[s] = NoView THEN {} ELSE Seen(done[s], m)
  <2> DEFINE C(y) == y.occurs /\ (SourceOf[y.entry] \in Tasks \/ MonthOf[y.entry] = m)
  <2>1. CASE done[s] = NoView BY <1>1, <1>2, <1>3, <1>4, <2>1
  <2>2. CASE done[s] # NoView
    <3>1. Seen(done[s], m) = {R(x) : x \in {y \in done[s].entries : C(y)}} BY DEF Seen, R
    <3>2. \A x : x \in Events(done, m) /\ SourceOf[x.entry] = s <=> x \in done[s].entries /\ C(x)
      BY <1>3, <1>4, <2>2
    <3> HIDE DEF C
    <3>3. \A y : y \in Seen(done[s], m) <=> \E x \in done[s].entries : C(x) /\ y = R(x) BY <3>1
    <3>4. \A y : y \in {x \in Shows(done, m) : SourceOf[x.entry] = s}
                 <=> \E x \in Events(done, m) : y = R(x) /\ SourceOf[x.entry] = s
      BY <1>1, <1>2
    <3> QED BY <2>2, <3>2, <3>3, <3>4
  <2> QED BY <2>1, <2>2
<1> QED BY <1>5, <1>6

\* The queries p after those of S were started.
LEMMA QueriedIs ==
  ASSUME CalAssumption, store \in [Entries -> Nat], NEW S, NEW m \in Months \cup {NoMonth}, NEW ec,
         NEW gone, NEW p \in [Sources -> Views \cup {NoView}]
  PROVE  /\ Queried(S, m, ec, gone, p) \in [Sources -> Views \cup {NoView}]
         /\ \A s \in Sources :
              Queried(S, m, ec, gone, p)[s] =
                IF s \in S \ gone /\ ec[s] = "loaded" /\ (s \in Tasks \/ m # NoMonth)
                  THEN View(s, m) ELSE p[s]
<1>1. \A s \in Sources : View(s, m) \in Views BY ViewStarts
<1>2. \A s \in Sources :
        Queried(S, m, ec, gone, p)[s] =
          IF s \in S \ gone /\ ec[s] = "loaded" /\ (s \in Tasks \/ m # NoMonth)
            THEN View(s, m) ELSE p[s]
  BY DEF Queried, Started
<1>3. Queried(S, m, ec, gone, p) = [s \in Sources |-> Queried(S, m, ec, gone, p)[s]]
  BY DEF Queried, Started
<1> QED BY <1>1, <1>2, <1>3

LEMMA StartedFits ==
  ASSUME CalAssumption, NEW s \in Sources, store \in [Entries -> Nat],
         NEW m \in Months \cup {NoMonth}
  PROVE  /\ View(s, m) # NoView /\ View(s, m).month = m /\ View(s, m).entries = {}
         /\ Owned(View(s, m), s) /\ Agrees(View(s, m), s, store)
BY ViewStarts DEF CalAssumption

LEMMA CalInitHolds ==
  ASSUME CalAssumption, CalInit
  PROVE  CalInv
<1>1. CalFits BY DEF CalInit, CalFits
<1>2. ASSUME NEW s \in Sources PROVE SourceFits(s) BY EmptyFits DEF CalInit
<1> QED BY <1>1, <1>2 DEF CalInv

\* Without a window there is no query.
LEMMA NothingQueried ==
  ASSUME CalInv, ~window
  PROVE  /\ listed = {} /\ dead = {}
         /\ \A s \in Sources : completed[s] = NoView /\ inProgress[s] = NoView
BY DEF CalInv, CalFits, SourceFits, ClientFits

LEMMA OpeningIs ==
  ASSUME NEW kept, NEW ec \in [Sources -> {"none", "new", "opening", "loaded"}]
  PROVE  /\ Opening(kept, ec) \in [Sources -> {"none", "new", "opening", "loaded"}]
         /\ \A s \in Sources : /\ s \notin kept \/ ec[s] # "new" => Opening(kept, ec)[s] = ec[s]
                               /\ ec[s] = "new" => Opening(kept, ec)[s] \in {"new", "opening"}
BY DEF Opening

LEMMA OpenWindowKeeps ==
  ASSUME CalAssumption, CalInv, NEW m \in Months, OpenWindow(m)
  PROVE  CalInv'
<1> DEFINE ec == [s \in Sources |-> IF s \in selected THEN "new" ELSE "none"]
<1>1. PICK kept \in SUBSET selected : listed' = kept /\ ecal' = Opening(kept, ec)
  BY DEF OpenWindow
<1>2. /\ ~window /\ window' = TRUE /\ month' = m /\ shown' = {}
      /\ UNCHANGED <<store, selected, failed, dead, completed, inProgress>>
  BY DEF OpenWindow, serverVars
<1>3. dead = {} /\ \A s \in Sources : completed[s] = NoView /\ inProgress[s] = NoView
  BY <1>2, NothingQueried
<1>4. ec \in [Sources -> {"none", "new", "opening", "loaded"}] OBVIOUS
<1>5. ecal' \in [Sources -> {"none", "new", "opening", "loaded"}] BY <1>1, <1>4, OpeningIs
<1>6. CalFits' BY <1>1, <1>2, <1>3, <1>5 DEF CalInv, CalFits
<1>7. ASSUME NEW s \in Sources PROVE SourceFits(s)'
  BY <1>2, <1>3 DEF SourceFits, ClientFits, QueryFits, Timely, ShownFits
<1> QED BY <1>6, <1>7 DEF CalInv

LEMMA ClearIs ==
  ASSUME NEW S, NEW p \in [Sources -> Views \cup {NoView}]
  PROVE  /\ Clear(S, p) \in [Sources -> Views \cup {NoView}]
         /\ \A s \in Sources : Clear(S, p)[s] = IF s \in S THEN NoView ELSE p[s]
BY DEF Clear

LEMMA CloseWindowKeeps ==
  ASSUME CalInv, CloseWindow
  PROVE  CalInv'
<1>1. /\ window' = FALSE /\ month' = NoMonth /\ shown' = {}
      /\ listed' = listed \ Sources /\ dead' = dead \ Sources
      /\ ecal' = [s \in Sources |-> "none"]
      /\ completed' = Clear(Sources, completed) /\ inProgress' = Clear(Sources, inProgress)
      /\ UNCHANGED <<store, selected, failed>>
  BY DEF CloseWindow, Forget, serverVars
<1>2. /\ completed' \in [Sources -> Views \cup {NoView}]
      /\ inProgress' \in [Sources -> Views \cup {NoView}]
      /\ \A s \in Sources : completed'[s] = NoView /\ inProgress'[s] = NoView
  BY <1>1, ClearIs DEF CalInv, CalFits
<1>3. CalFits' BY <1>1, <1>2 DEF CalInv, CalFits
<1>4. ASSUME NEW s \in Sources PROVE SourceFits(s)'
  BY <1>1, <1>2 DEF SourceFits, ClientFits, QueryFits, Timely, ShownFits
<1> QED BY <1>3, <1>4 DEF CalInv

\* What is completed is owned.
LEMMA CompletedOwned ==
  ASSUME CalInv
  PROVE  \A s \in Sources : completed[s] # NoView => Owned(completed[s], s)
BY DEF CalInv, SourceFits, QueryFits

\* The window reads the completed queries, which a step leaves alone, in month m.
LEMMA ShowsFits ==
  ASSUME CalAssumption, NEW done \in [Sources -> Views \cup {NoView}], NEW m,
         \A s \in Sources : done[s] # NoView => Owned(done[s], s),
         completed' = done, shown' = Shows(done, m), month' = m
  PROVE  /\ \A s \in Sources : ShownFits(s)'
         /\ \A x \in shown' : SourceOf[x.entry] \in Tasks \/ MonthOf[x.entry] = month'
<1>1. /\ \A x \in Shows(done, m) : SourceOf[x.entry] \in Tasks \/ MonthOf[x.entry] = m
      /\ \A s \in Sources :
           {x \in Shows(done, m) : SourceOf[x.entry] = s} =
             IF done[s] = NoView THEN {} ELSE Seen(done[s], m)
  BY ShowsIs
<1>2. ASSUME NEW s \in Sources PROVE ShownFits(s)'
  <2>1. Of(s)' = {x \in Shows(done, m) : SourceOf[x.entry] = s} BY DEF Of
  <2> QED BY <1>1, <2>1 DEF ShownFits
<1> QED BY <1>1, <1>2

LEMMA SelectMonthKeeps ==
  ASSUME CalAssumption, CalInv, NEW m \in Months, SelectMonth(m)
  PROVE  CalInv'
<1>1. /\ window /\ month' = m
      /\ inProgress' = Queried(listed, m, ecal, dead, inProgress)
      /\ shown' = Shows(completed, m)
      /\ UNCHANGED <<store, selected, failed, ecal, listed, dead, completed, window>>
  BY DEF SelectMonth, serverVars
<1>2. CalFits BY DEF CalInv
<1>3. /\ inProgress' \in [Sources -> Views \cup {NoView}]
      /\ \A s \in Sources :
           inProgress'[s] = IF s \in listed \ dead /\ ecal[s] = "loaded" /\ (s \in Tasks \/ m # NoMonth)
                              THEN View(s, m) ELSE inProgress[s]
  <2>1. m \in Months \cup {NoMonth} /\ store \in [Entries -> Nat]
        /\ inProgress \in [Sources -> Views \cup {NoView}]
    BY <1>2 DEF CalFits
  <2> QED BY <1>1, <2>1, QueriedIs
<1>4. /\ \A s \in Sources : ShownFits(s)'
      /\ \A x \in shown' : SourceOf[x.entry] \in Tasks \/ MonthOf[x.entry] = month'
  BY <1>1, <1>2, CompletedOwned, ShowsFits DEF CalFits
<1>5. CalFits' BY <1>1, <1>2, <1>3, <1>4 DEF CalFits
<1>6. ASSUME NEW s \in Sources PROVE SourceFits(s)'
  <2>1. SourceFits(s) BY DEF CalInv
  <2>2. CASE s \in listed \ dead /\ ecal[s] = "loaded"
    <3>1. /\ inProgress'[s] = View(s, m) /\ View(s, m) # NoView /\ View(s, m).month = m
          /\ View(s, m).entries = {} /\ Owned(View(s, m), s) /\ Agrees(View(s, m), s, store)
      <4>1. m # NoMonth /\ store \in [Entries -> Nat] BY <1>2 DEF CalAssumption, CalFits
      <4> QED BY <1>3, <2>2, <4>1, StartedFits
    <3>2. ClientFits(s)' BY <1>1, <2>2 DEF ClientFits
    <3>3. QueryFits(completed[s], s)' /\ QueryFits(inProgress[s], s)'
      BY <1>1, <2>1, <2>2, <3>1 DEF SourceFits, QueryFits
    <3>4. Timely(s)' BY <1>1, <3>1 DEF Timely, OfMonth
    <3> QED BY <1>4, <3>2, <3>3, <3>4 DEF SourceFits
  <2>3. CASE ~(s \in listed \ dead /\ ecal[s] = "loaded")
    <3>1. inProgress'[s] = inProgress[s] BY <1>3, <2>3
    <3>2. s \in dead \/ (completed[s] = NoView /\ inProgress[s] = NoView)
      BY <2>1, <2>3 DEF SourceFits, ClientFits
    <3>3. ClientFits(s)' BY <1>1, <2>1, <3>1 DEF SourceFits, ClientFits
    <3>4. QueryFits(completed[s], s)' /\ QueryFits(inProgress[s], s)'
      BY <1>1, <2>1, <3>1 DEF SourceFits, QueryFits
    <3>5. Timely(s)' BY <1>1, <3>1, <3>2 DEF Timely
    <3> QED BY <1>4, <3>3, <3>4, <3>5 DEF SourceFits
  <2> QED BY <2>2, <2>3
<1> QED BY <1>5, <1>6 DEF CalInv

LEMMA ForgetIs ==
  ASSUME CalFits, NEW S \in SUBSET Sources, Forget(S)
  PROVE  /\ listed' = listed \ S /\ dead' = dead \ S
         /\ completed' \in [Sources -> Views \cup {NoView}]
         /\ inProgress' \in [Sources -> Views \cup {NoView}]
         /\ \A s \in Sources : /\ completed'[s] = IF s \in S THEN NoView ELSE completed[s]
                               /\ inProgress'[s] = IF s \in S THEN NoView ELSE inProgress[s]
BY ClearIs DEF CalFits, Forget

\* A calendar whose query starts anew, of the selected month.
LEMMA StartFits ==
  ASSUME CalAssumption, NEW s \in Sources, SourceFits(s), store \in [Entries -> Nat],
         month \in Months \cup {NoMonth},
         UNCHANGED <<store, month>>, inProgress'[s] = View(s, month), s \notin dead',
         s \in listed', ecal'[s] = "loaded",
         \/ completed'[s] = NoView
         \/ completed'[s] = completed[s] /\ s \notin dead /\ Of(s)' = Of(s)
  PROVE  SourceFits(s)'
<1>1. /\ View(s, month) # NoView /\ View(s, month).month = month
      /\ View(s, month).entries = {} /\ Owned(View(s, month), s) /\ Agrees(View(s, month), s, store)
  BY StartedFits
<1>2. ClientFits(s)' BY DEF ClientFits
<1>3. QueryFits(completed[s], s)' /\ QueryFits(inProgress[s], s)'
  BY <1>1 DEF SourceFits, QueryFits
<1>4. Timely(s)' BY <1>1 DEF Timely, OfMonth
<1>5. ShownFits(s)' BY DEF SourceFits, ShownFits
<1> QED BY <1>2, <1>3, <1>4, <1>5 DEF SourceFits

LEMMA OpenedKeeps ==
  ASSUME CalAssumption, CalInv, NEW s \in Sources, Opened(s)
  PROVE  CalInv'
<1>1. /\ ecal[s] = "opening"
      /\ UNCHANGED <<store, selected, failed, month, window, shown>>
  BY DEF Opened, serverVars
<1>2. CalFits /\ SourceFits(s) BY DEF CalInv
<1>3. s \notin dead /\ completed[s] = NoView /\ inProgress[s] = NoView
  BY <1>1, <1>2 DEF SourceFits, ClientFits
<1>4. CASE /\ ecal' = [ecal EXCEPT ![s] = "loaded"]
           /\ inProgress' = IF s \in listed
                              THEN Queried(listed \cap OfKind(Kind(s)), month, ecal', dead, inProgress)
                              ELSE inProgress
           /\ UNCHANGED <<listed, dead, completed>>
  <2> DEFINE q == Queried(listed \cap OfKind(Kind(s)), month, ecal', dead, inProgress)
             Starts(t) == /\ s \in listed /\ t \in (listed \cap OfKind(Kind(s))) \ dead
                          /\ ecal'[t] = "loaded" /\ (t \in Tasks \/ month # NoMonth)
  <2>1. /\ store \in [Entries -> Nat] /\ month \in Months \cup {NoMonth}
        /\ inProgress \in [Sources -> Views \cup {NoView}]
    BY <1>2 DEF CalFits
  <2>2. /\ q \in [Sources -> Views \cup {NoView}]
        /\ \A t \in Sources :
             q[t] = IF t \in (listed \cap OfKind(Kind(s))) \ dead /\ ecal'[t] = "loaded"
                       /\ (t \in Tasks \/ month # NoMonth)
                      THEN View(t, month) ELSE inProgress[t]
    BY <2>1, QueriedIs
  <2>3. inProgress' = IF s \in listed THEN q ELSE inProgress BY <1>4
  <2> HIDE DEF q
  <2>4. /\ inProgress' \in [Sources -> Views \cup {NoView}]
        /\ \A t \in Sources : inProgress'[t] = IF Starts(t) THEN View(t, month) ELSE inProgress[t]
    BY <2>1, <2>2, <2>3
  <2>5. ecal' \in [Sources -> {"none", "new", "opening", "loaded"}]
        /\ \A t \in Sources : t # s => ecal'[t] = ecal[t]
    BY <1>2, <1>4 DEF CalFits
  <2>6. CalFits' BY <1>1, <1>2, <1>4, <2>4, <2>5 DEF CalFits
  <2>7. ASSUME NEW t \in Sources PROVE SourceFits(t)'
    <3>1. SourceFits(t) /\ Of(t)' = Of(t) BY <1>1 DEF CalInv, Of
    <3>2. CASE Starts(t)
      BY <1>1, <1>4, <2>1, <2>4, <3>1, <3>2, StartFits
    <3>3. CASE ~Starts(t)
      <4>1. inProgress'[t] = inProgress[t] BY <2>4, <3>3
      <4>2. CASE t # s
        BY <1>1, <1>4, <2>5, <3>1, <4>1, <4>2, OtherFits
      <4>3. CASE t = s
        BY <1>1, <1>3, <1>4, <4>1, <4>3
        DEF SourceFits, ClientFits, QueryFits, Timely, ShownFits
      <4> QED BY <4>2, <4>3
    <3> QED BY <3>2, <3>3
  <2> QED BY <2>6, <2>7 DEF CalInv
<1>5. CASE ecal' = [ecal EXCEPT ![s] = "new"] /\ Forget({s})
  <2>1. /\ listed' = listed \ {s} /\ dead' = dead \ {s}
        /\ completed' \in [Sources -> Views \cup {NoView}]
        /\ inProgress' \in [Sources -> Views \cup {NoView}]
        /\ \A t \in Sources : /\ completed'[t] = IF t \in {s} THEN NoView ELSE completed[t]
                              /\ inProgress'[t] = IF t \in {s} THEN NoView ELSE inProgress[t]
    BY <1>2, <1>5, ForgetIs
  <2>2. ecal' \in [Sources -> {"none", "new", "opening", "loaded"}]
        /\ \A t \in Sources : t # s => ecal'[t] = ecal[t]
    BY <1>2, <1>5 DEF CalFits
  <2>3. CalFits' BY <1>1, <1>2, <2>1, <2>2 DEF CalFits
  <2>4. ASSUME NEW t \in Sources PROVE SourceFits(t)'
    <3>1. SourceFits(t) /\ Of(t)' = Of(t) BY <1>1 DEF CalInv, Of
    <3>2. CASE t # s BY <1>1, <2>1, <2>2, <3>1, <3>2, OtherFits
    <3>3. CASE t = s
      BY <1>1, <1>3, <2>1, <3>3 DEF SourceFits, ClientFits, QueryFits, Timely, ShownFits
    <3> QED BY <3>2, <3>3
  <2> QED BY <2>3, <2>4 DEF CalInv
<1> QED BY <1>4, <1>5 DEF Opened

\* What the server said of a query that is not completed yet.
LEMMA ResultInProgressKeeps ==
  ASSUME CalAssumption, CalInv, NEW s \in Sources, ResultInProgress(s)
  PROVE  CalInv'
<1> DEFINE v == inProgress[s]
           w == Applied(v, Head(v.queue))
<1>1. /\ v # NoView /\ v.queue # <<>> /\ inProgress' = [inProgress EXCEPT ![s] = w]
      /\ UNCHANGED <<store, selected, failed, ecal, listed, dead, completed, month, window, shown>>
  BY DEF ResultInProgress, serverVars
<1>2. CalFits /\ SourceFits(s) BY DEF CalInv
<1>3. /\ v \in Views /\ store \in [Entries -> Nat] /\ s \notin dead
      /\ Owned(v, s) /\ Agrees(v, s, store)
  BY <1>1, <1>2 DEF CalFits, SourceFits, QueryFits
<1>4. /\ w \in Views /\ Owned(w, s) /\ w.month = v.month
      /\ v.month = month => \A x \in w.entries : x \in v.entries \/ x.occurs
      /\ Agrees(w, s, store)
  BY <1>1, <1>3, AppliedAgrees
<1> HIDE DEF w
<1>5. /\ inProgress' \in [Sources -> Views \cup {NoView}] /\ inProgress'[s] = w
      /\ \A t \in Sources : t # s => inProgress'[t] = inProgress[t]
  BY <1>1, <1>2, <1>4 DEF CalFits
<1>6. CalFits' BY <1>1, <1>2, <1>5 DEF CalFits
<1>7. ASSUME NEW t \in Sources PROVE SourceFits(t)'
  <2>1. SourceFits(t) /\ Of(t)' = Of(t) BY <1>1 DEF CalInv, Of
  <2>2. CASE t # s BY <1>1, <1>5, <2>1, <2>2, OtherFits
  <2>3. CASE t = s
    <3>1. w # NoView BY <1>4 DEF CalAssumption
    <3>2. ClientFits(s)' BY <1>1, <1>2, <1>5 DEF SourceFits, ClientFits
    <3>3. QueryFits(completed[s], s)' /\ QueryFits(inProgress[s], s)'
      BY <1>1, <1>2, <1>4, <1>5 DEF SourceFits, QueryFits
    <3>4. Timely(s)' BY <1>1, <1>2, <1>4, <1>5, <3>1 DEF SourceFits, Timely, OfMonth
    <3>5. ShownFits(s)' BY <1>1, <1>2 DEF SourceFits, ShownFits, Of
    <3> QED BY <2>3, <3>2, <3>3, <3>4, <3>5 DEF SourceFits
  <2> QED BY <2>2, <2>3
<1> QED BY <1>6, <1>7 DEF CalInv

\* What it said of a completed query, which the window reads again.
LEMMA ResultCompletedKeeps ==
  ASSUME CalAssumption, CalInv, NEW s \in Sources, ResultCompleted(s)
  PROVE  CalInv'
<1> DEFINE v == completed[s]
           w == Applied(v, Head(v.queue))
<1>1. /\ v # NoView /\ v.queue # <<>> /\ completed' = [completed EXCEPT ![s] = w]
      /\ shown' = IF completed'[s].entries = v.entries THEN shown ELSE Shows(completed', month)
      /\ UNCHANGED <<store, selected, failed, ecal, listed, dead, inProgress, month, window>>
  BY DEF ResultCompleted, serverVars
<1>2. CalFits /\ SourceFits(s) BY DEF CalInv
<1>3. /\ v \in Views /\ store \in [Entries -> Nat] /\ s \notin dead
      /\ Owned(v, s) /\ Agrees(v, s, store)
  BY <1>1, <1>2 DEF CalFits, SourceFits, QueryFits
<1>4. /\ w \in Views /\ Owned(w, s) /\ w.month = v.month
      /\ v.month = month => \A x \in w.entries : x \in v.entries \/ x.occurs
      /\ Agrees(w, s, store)
  BY <1>1, <1>3, AppliedAgrees
<1> HIDE DEF w
<1>5. /\ completed' \in [Sources -> Views \cup {NoView}] /\ completed'[s] = w
      /\ \A t \in Sources : t # s => completed'[t] = completed[t]
  BY <1>1, <1>2, <1>4 DEF CalFits
<1>6. /\ \A t \in Sources : ShownFits(t)'
      /\ \A x \in shown' : SourceOf[x.entry] \in Tasks \/ MonthOf[x.entry] = month'
  <2>1. CASE w.entries = v.entries
    <3>1. shown' = shown BY <1>1, <1>5, <2>1
    <3>2. ASSUME NEW t \in Sources PROVE ShownFits(t)'
      <4>1. ShownFits(t) /\ Of(t)' = Of(t) BY <3>1 DEF CalInv, SourceFits, Of
      <4>2. completed'[t] # NoView
              => completed[t] # NoView /\ completed'[t].entries = completed[t].entries
        BY <1>1, <1>5, <2>1
      <4>3. completed'[t] # NoView => Seen(completed'[t], month) = Seen(completed[t], month)
        BY <4>2 DEF Seen
      <4> QED BY <1>1, <4>1, <4>2, <4>3 DEF ShownFits, Seen
    <3> QED BY <1>1, <1>2, <3>1, <3>2 DEF CalFits
  <2>2. CASE w.entries # v.entries
    <3>1. shown' = Shows(completed', month) /\ month' = month BY <1>1, <1>5, <2>2
    <3>2. \A t \in Sources : completed'[t] # NoView => Owned(completed'[t], t)
      BY <1>4, <1>5, CompletedOwned
    <3> QED BY <1>5, <3>1, <3>2, ShowsFits
  <2> QED BY <2>1, <2>2
<1>7. CalFits'
  <2>1. window BY <1>1, NothingQueried
  <2> QED BY <1>1, <1>2, <1>5, <1>6, <2>1 DEF CalFits
<1>8. ASSUME NEW t \in Sources PROVE SourceFits(t)'
  <2>1. SourceFits(t) BY DEF CalInv
  <2>2. w # NoView BY <1>4 DEF CalAssumption
  <2>3. completed'[t] # NoView <=> completed[t] # NoView BY <1>1, <1>5, <2>2
  <2>4. ClientFits(t)' BY <1>1, <2>1, <2>3 DEF SourceFits, ClientFits
  <2>5. QueryFits(completed[t], t)' /\ QueryFits(inProgress[t], t)'
    BY <1>1, <1>3, <1>4, <1>5, <2>1 DEF SourceFits, QueryFits
  <2>6. Timely(t)' BY <1>1, <1>3, <1>4, <1>5, <2>1 DEF SourceFits, Timely, OfMonth
  <2> QED BY <1>6, <2>4, <2>5, <2>6 DEF SourceFits
<1> QED BY <1>7, <1>8 DEF CalInv

LEMMA QueryCompletedKeeps ==
  ASSUME CalAssumption, CalInv, NEW s \in Sources, QueryCompleted(s)
  PROVE  CalInv'
<1> DEFINE v == inProgress[s]
           w == [v EXCEPT !.queue = Tail(@)]
<1>1. /\ v # NoView /\ v.queue # <<>> /\ Head(v.queue) = Done
      /\ inProgress' = [inProgress EXCEPT ![s] = NoView]
      /\ UNCHANGED <<store, selected, ecal, listed, dead, month, window>>
  BY DEF QueryCompleted, serverVars
<1>2. CalFits /\ SourceFits(s) BY DEF CalInv
<1>3. /\ v \in Views /\ store \in [Entries -> Nat] /\ s \notin dead
      /\ Owned(v, s) /\ Agrees(v, s, store)
  BY <1>1, <1>2 DEF CalFits, SourceFits, QueryFits
<1>4. /\ inProgress' \in [Sources -> Views \cup {NoView}] /\ inProgress'[s] = NoView
      /\ \A t \in Sources : t # s => inProgress'[t] = inProgress[t]
  BY <1>1, <1>2 DEF CalFits
<1>5. window BY <1>1, NothingQueried
<1>6. CASE /\ completed' = [completed EXCEPT ![s] = w]
           /\ shown' = Shows(completed', month) /\ failed' = failed \ {s}
  <2>1. /\ w \in Views /\ Owned(w, s) /\ Agrees(w, s, store)
        /\ w.month = v.month /\ w.entries = v.entries
    BY <1>1, <1>3, DoneAgrees
  <2> HIDE DEF w
  <2>2. /\ completed' \in [Sources -> Views \cup {NoView}] /\ completed'[s] = w
        /\ \A t \in Sources : t # s => completed'[t] = completed[t]
    BY <1>2, <1>6, <2>1 DEF CalFits
  <2>3. \A t \in Sources : completed'[t] # NoView => Owned(completed'[t], t)
    BY <2>1, <2>2, CompletedOwned
  <2>4. /\ \A t \in Sources : ShownFits(t)'
        /\ \A x \in shown' : SourceOf[x.entry] \in Tasks \/ MonthOf[x.entry] = month'
    BY <1>1, <1>6, <2>2, <2>3, ShowsFits
  <2>5. CalFits' BY <1>1, <1>2, <1>4, <1>5, <2>2, <2>4 DEF CalFits
  <2>6. ASSUME NEW t \in Sources PROVE SourceFits(t)'
    <3>1. SourceFits(t) BY DEF CalInv
    <3>2. CASE t # s
      <4>1. ClientFits(t)' BY <1>1, <1>4, <2>2, <3>1, <3>2 DEF SourceFits, ClientFits
      <4>2. QueryFits(completed[t], t)' /\ QueryFits(inProgress[t], t)'
        BY <1>1, <1>4, <2>2, <3>1, <3>2 DEF SourceFits, QueryFits
      <4>3. Timely(t)' BY <1>1, <1>4, <1>6, <2>2, <3>1, <3>2 DEF SourceFits, Timely, OfMonth
      <4> QED BY <2>4, <4>1, <4>2, <4>3 DEF SourceFits
    <3>3. CASE t = s
      <4>1. ClientFits(s)' BY <1>1, <1>2 DEF SourceFits, ClientFits
      <4>2. QueryFits(completed[s], s)' /\ QueryFits(inProgress[s], s)'
        BY <1>1, <1>3, <1>4, <2>1, <2>2 DEF QueryFits
      <4>3. s \notin Tasks => OfMonth(v) BY <1>1, <1>2, <1>3 DEF SourceFits, Timely
      <4>4. Timely(s)' BY <1>1, <1>4, <2>1, <2>2, <4>3 DEF Timely, OfMonth
      <4> QED BY <2>4, <3>3, <4>1, <4>2, <4>4 DEF SourceFits
    <3> QED BY <3>2, <3>3
  <2> QED BY <2>5, <2>6 DEF CalInv
<1>7. CASE failed' = failed \cup {s} /\ UNCHANGED <<completed, shown>>
  <2>1. CalFits' BY <1>1, <1>2, <1>4, <1>7 DEF CalFits
  <2>2. ASSUME NEW t \in Sources PROVE SourceFits(t)'
    <3>1. SourceFits(t) /\ Of(t)' = Of(t) BY <1>7 DEF CalInv, Of
    <3>2. CASE t # s BY <1>1, <1>4, <1>7, <3>1, <3>2, OtherFits
    <3>3. CASE t = s
      <4>1. ClientFits(s)' BY <1>1, <1>2, <1>7 DEF SourceFits, ClientFits
      <4>2. QueryFits(completed[s], s)' /\ QueryFits(inProgress[s], s)'
        BY <1>1, <1>2, <1>4, <1>7 DEF SourceFits, QueryFits
      <4>3. Timely(s)' BY <1>4, <1>7 DEF Timely
      <4>4. ShownFits(s)' BY <1>1, <1>2, <1>7 DEF SourceFits, ShownFits, Of
      <4> QED BY <3>3, <4>1, <4>2, <4>3, <4>4 DEF SourceFits
    <3> QED BY <3>2, <3>3
  <2> QED BY <2>1, <2>2 DEF CalInv
<1> QED BY <1>6, <1>7 DEF QueryCompleted

\* The queries p that are told of entry e, which the server has as st has it.
LEMMA ToldIs ==
  ASSUME CalAssumption, NEW p \in [Sources -> Views \cup {NoView}], NEW e \in Entries,
         store \in [Entries -> Nat], NEW st \in [Entries -> Nat],
         \A f \in Entries : f # e => st[f] = store[f],
         \A s \in Sources : QueryFits(p[s], s)
  PROVE  /\ Told(p, e, Word(e, st)) \in [Sources -> Views \cup {NoView}]
         /\ \A s \in Sources :
              LET v == Told(p, e, Word(e, st))[s]
              IN  /\ v # NoView <=> p[s] # NoView
                  /\ v # NoView => /\ v.month = p[s].month /\ v.entries = p[s].entries
                                   /\ Owned(v, s)
                                   /\ IF s \in dead THEN v.queue = <<>> ELSE Agrees(v, s, st)
<1> DEFINE m == Word(e, st)
           T == Told(p, e, m)
           W(s) == [p[s] EXCEPT !.queue = Append(@, m)]
           Hears(s) == p[s] # NoView /\ s \notin dead /\ e \in Asks(s, p[s].month)
<1>1. T = [s \in Sources |-> IF Hears(s) THEN W(s) ELSE p[s]] BY DEF Told
<1> HIDE DEF T
<1>2. ASSUME NEW s \in Sources, p[s] # NoView
      PROVE  /\ p[s] \in Views /\ Owned(p[s], s)
             /\ IF s \in dead THEN p[s].queue = <<>> ELSE Agrees(p[s], s, store)
  BY <1>2 DEF QueryFits
<1>3. ASSUME NEW s \in Sources, p[s] # NoView, s \notin dead
      PROVE  /\ e \notin Asks(s, p[s].month) => Agrees(p[s], s, st)
             /\ W(s) \in Views /\ W(s).month = p[s].month /\ W(s).entries = p[s].entries
             /\ e \in Asks(s, p[s].month) => Owned(W(s), s) /\ Agrees(W(s), s, st)
  BY <1>2, <1>3, ToldAgrees
<1> HIDE DEF W
<1>4. ASSUME NEW s \in Sources
      PROVE  /\ T[s] \in Views \cup {NoView} /\ (T[s] # NoView <=> p[s] # NoView)
             /\ T[s] # NoView => /\ T[s].month = p[s].month /\ T[s].entries = p[s].entries
                                 /\ Owned(T[s], s)
                                 /\ IF s \in dead THEN T[s].queue = <<>> ELSE Agrees(T[s], s, st)
  <2>1. CASE Hears(s)
    <3>1. T[s] = W(s) BY <1>1, <2>1
    <3>2. W(s) # NoView BY <1>3, <2>1 DEF CalAssumption
    <3> QED BY <1>3, <2>1, <3>1, <3>2
  <2>2. CASE ~Hears(s)
    <3>1. T[s] = p[s] BY <1>1, <2>2
    <3> QED BY <1>2, <1>3, <2>2, <3>1
  <2> QED BY <2>1, <2>2
<1>5. T \in [Sources -> Views \cup {NoView}] BY <1>1, <1>4
<1> QED BY <1>4, <1>5 DEF T

LEMMA StoredKeeps ==
  ASSUME CalAssumption, CalInv, NEW e \in Entries, NEW new \in Nat, Stored(e, new)
  PROVE  CalInv'
<1> DEFINE st == [store EXCEPT ![e] = new]
<1>1. /\ store' = st /\ completed' = Told(completed, e, IF new = 0 THEN Del(e) ELSE Put(e, new))
      /\ inProgress' = Told(inProgress, e, IF new = 0 THEN Del(e) ELSE Put(e, new))
      /\ UNCHANGED <<selected, failed, ecal, listed, dead, month, window, shown>>
  BY DEF Stored
<1>2. CalFits BY DEF CalInv
<1>3. st \in [Entries -> Nat] /\ st[e] = new /\ \A f \in Entries : f # e => st[f] = store[f]
  BY <1>2 DEF CalFits
<1> HIDE DEF st
<1>4. completed' = Told(completed, e, Word(e, st)) /\ inProgress' = Told(inProgress, e, Word(e, st))
  BY <1>1, <1>3 DEF Word
<1>5. \A s \in Sources : QueryFits(completed[s], s) /\ QueryFits(inProgress[s], s)
  BY DEF CalInv, SourceFits
<1>6. /\ completed' \in [Sources -> Views \cup {NoView}]
      /\ \A s \in Sources :
           /\ completed'[s] # NoView <=> completed[s] # NoView
           /\ completed'[s] # NoView =>
                /\ completed'[s].month = completed[s].month
                /\ completed'[s].entries = completed[s].entries
                /\ Owned(completed'[s], s)
                /\ IF s \in dead THEN completed'[s].queue = <<>> ELSE Agrees(completed'[s], s, st)
  BY <1>2, <1>3, <1>4, <1>5, ToldIs DEF CalFits
<1>7. /\ inProgress' \in [Sources -> Views \cup {NoView}]
      /\ \A s \in Sources :
           /\ inProgress'[s] # NoView <=> inProgress[s] # NoView
           /\ inProgress'[s] # NoView =>
                /\ inProgress'[s].month = inProgress[s].month
                /\ inProgress'[s].entries = inProgress[s].entries
                /\ Owned(inProgress'[s], s)
                /\ IF s \in dead THEN inProgress'[s].queue = <<>> ELSE Agrees(inProgress'[s], s, st)
  BY <1>2, <1>3, <1>4, <1>5, ToldIs DEF CalFits
<1>8. CalFits' BY <1>1, <1>2, <1>3, <1>6, <1>7 DEF CalFits
<1>9. ASSUME NEW s \in Sources PROVE SourceFits(s)'
  <2>1. SourceFits(s) /\ Of(s)' = Of(s) BY <1>1 DEF CalInv, Of
  <2>2. ClientFits(s)' BY <1>1, <1>6, <1>7, <2>1 DEF SourceFits, ClientFits
  <2>3. QueryFits(completed[s], s)' /\ QueryFits(inProgress[s], s)'
    BY <1>1, <1>6, <1>7 DEF QueryFits
  <2>4. Timely(s)' BY <1>1, <1>6, <1>7, <2>1 DEF SourceFits, Timely, OfMonth
  <2>5. ShownFits(s)' BY <1>1, <1>6, <2>1 DEF SourceFits, ShownFits, Seen
  <2> QED BY <2>2, <2>3, <2>4, <2>5 DEF SourceFits
<1> QED BY <1>8, <1>9 DEF CalInv

LEMMA BackendDiesKeeps ==
  ASSUME CalAssumption, CalInv, NEW s \in Sources, BackendDies(s)
  PROVE  CalInv'
<1> DEFINE Silent(views) ==
             [views EXCEPT ![s] = IF @ = NoView THEN @ ELSE [@ EXCEPT !.queue = <<>>]]
           Quieted(v) == [v EXCEPT !.queue = <<>>]
<1>1. /\ ecal' = [ecal EXCEPT ![s] = "none"] /\ dead' = dead \cup (listed \cap {s})
      /\ completed' = Silent(completed) /\ inProgress' = Silent(inProgress)
      /\ UNCHANGED <<store, selected, failed, listed, month, window, shown>>
  BY DEF BackendDies, serverVars
<1>2. CalFits /\ SourceFits(s) BY DEF CalInv
<1>3. ASSUME NEW v \in Views
      PROVE  /\ Quieted(v) \in Views /\ Quieted(v).month = v.month /\ Quieted(v).entries = v.entries
             /\ Quieted(v).queue = <<>> /\ (Owned(v, s) => Owned(Quieted(v), s))
  <2>1. Quieted(v) = [month |-> v.month, entries |-> v.entries, lost |-> v.lost, queue |-> <<>>]
    BY QueueChanged
  <2>2. <<>> \in Seq(Messages) OBVIOUS
  <2>3. Quieted(v) \in Views BY <2>1, <2>2, ViewParts DEF Views
  <2>4. Owned(v, s) => Owned(Quieted(v), s) BY <2>1 DEF Owned
  <2> QED BY <2>1, <2>3, <2>4
<1>4. ASSUME NEW p \in [Sources -> Views \cup {NoView}], QueryFits(p[s], s)
      PROVE  /\ Silent(p) \in [Sources -> Views \cup {NoView}]
             /\ \A t \in Sources : t # s => Silent(p)[t] = p[t]
             /\ Silent(p)[s] # NoView <=> p[s] # NoView
             /\ p[s] # NoView => /\ Silent(p)[s].month = p[s].month
                                 /\ Silent(p)[s].entries = p[s].entries
                                 /\ Silent(p)[s].queue = <<>> /\ Owned(Silent(p)[s], s)
  <2>1. CASE p[s] = NoView
    <3>1. Silent(p) = [p EXCEPT ![s] = NoView] BY <2>1
    <3> QED BY <2>1, <3>1
  <2>2. CASE p[s] # NoView
    <3>1. p[s] \in Views BY <2>2
    <3>2. Silent(p) = [p EXCEPT ![s] = Quieted(p[s])] BY <2>2
    <3> HIDE DEF Silent, Quieted
    <3>3. Quieted(p[s]) \in Views /\ Quieted(p[s]) # NoView BY <1>3, <3>1 DEF CalAssumption
    <3> QED BY <1>3, <1>4, <2>2, <3>1, <3>2, <3>3 DEF QueryFits
  <2> QED BY <2>1, <2>2
<1> HIDE DEF Silent, Quieted
<1>5. /\ completed' \in [Sources -> Views \cup {NoView}]
      /\ \A t \in Sources : t # s => completed'[t] = completed[t]
      /\ completed'[s] # NoView <=> completed[s] # NoView
      /\ completed[s] # NoView => /\ completed'[s].month = completed[s].month
                                  /\ completed'[s].entries = completed[s].entries
                                  /\ completed'[s].queue = <<>> /\ Owned(completed'[s], s)
  BY <1>1, <1>2, <1>4 DEF CalFits, SourceFits
<1>6. /\ inProgress' \in [Sources -> Views \cup {NoView}]
      /\ \A t \in Sources : t # s => inProgress'[t] = inProgress[t]
      /\ inProgress'[s] # NoView <=> inProgress[s] # NoView
      /\ inProgress[s] # NoView => /\ inProgress'[s].queue = <<>> /\ Owned(inProgress'[s], s)
  BY <1>1, <1>2, <1>4 DEF CalFits, SourceFits
<1>7. /\ ecal' \in [Sources -> {"none", "new", "opening", "loaded"}] /\ ecal'[s] = "none"
      /\ \A t \in Sources : t # s => ecal'[t] = ecal[t]
  BY <1>1, <1>2 DEF CalFits
<1>8. CalFits' BY <1>1, <1>2, <1>5, <1>6, <1>7 DEF CalFits
<1>9. ASSUME NEW t \in Sources PROVE SourceFits(t)'
  <2>1. SourceFits(t) /\ Of(t)' = Of(t) BY <1>1 DEF CalInv, Of
  <2>2. CASE t # s BY <1>1, <1>5, <1>6, <1>7, <2>1, <2>2, OtherFits
  <2>3. CASE t = s
    <3>1. completed[s] # NoView \/ inProgress[s] # NoView => s \in listed /\ s \in dead'
      BY <1>1, <1>2 DEF SourceFits, ClientFits
    <3>2. ClientFits(s)' BY <1>1, <1>5, <1>6, <1>7, <3>1 DEF ClientFits
    <3>3. QueryFits(completed[s], s)' /\ QueryFits(inProgress[s], s)'
      BY <1>5, <1>6, <3>1 DEF QueryFits
    <3>4. Timely(s)' BY <1>5, <1>6, <3>1 DEF Timely
    <3>5. ShownFits(s)' BY <1>1, <1>5, <2>1, <2>3 DEF SourceFits, ShownFits, Seen
    <3> QED BY <2>3, <3>2, <3>3, <3>4, <3>5 DEF SourceFits
  <2> QED BY <2>2, <2>3
<1> QED BY <1>8, <1>9 DEF CalInv

\* Without a window there is no client and no timer.
WindowFits == ~window => restart = {} /\ \A s \in Sources : ecal[s] = "none"

LEMMA WindowKeeps ==
  ASSUME WindowFits, [CalNext]_calVars
  PROVE  WindowFits'
<1>1. CASE UNCHANGED <<window, restart, ecal>> BY <1>1 DEF WindowFits
<1>2. CASE window' = TRUE BY <1>2 DEF WindowFits
<1>3. CASE CloseWindow BY <1>3 DEF CloseWindow, WindowFits
<1>4. CASE window /\ UNCHANGED window BY <1>4 DEF WindowFits
<1>5. CASE UNCHANGED calVars BY <1>1, <1>5 DEF calVars
<1>6. ASSUME NEW s \in Sources, Opened(s) PROVE WindowFits'
  <2>1. ecal[s] = "opening" /\ UNCHANGED window BY <1>6 DEF Opened
  <2> QED BY <1>4, <2>1 DEF WindowFits
<1>7. ASSUME NEW s \in Sources, BackendDies(s) PROVE WindowFits'
  <2>1. ecal[s] # "none" /\ UNCHANGED window BY <1>7 DEF BackendDies
  <2> QED BY <1>4, <2>1 DEF WindowFits
<1>8. ASSUME NEW s \in Sources, SelectSource(s) PROVE WindowFits'
  <2>1. UNCHANGED <<window, restart>> /\ (window \/ UNCHANGED ecal) BY <1>8 DEF SelectSource
  <2> QED BY <1>1, <1>4, <2>1
<1>9. ASSUME NEW k \in Kinds, BackendRestart(k) PROVE WindowFits'
  <2>1. k \in restart /\ UNCHANGED window BY <1>9 DEF BackendRestart
  <2> QED BY <1>4, <2>1 DEF WindowFits
<1>10. ASSUME NEW m \in Months, OpenWindow(m) \/ SelectMonth(m) PROVE WindowFits'
  BY <1>2, <1>4, <1>10 DEF OpenWindow, SelectMonth
<1>11. ASSUME NEW e \in Entries, EditEntry(e) \/ CompleteTask(e) PROVE WindowFits'
  BY <1>1, <1>11 DEF EditEntry, CompleteTask, Stored
<1>12. ASSUME NEW s \in Sources, ResultInProgress(s) \/ ResultCompleted(s) \/ QueryCompleted(s)
       PROVE  WindowFits'
  BY <1>1, <1>12 DEF ResultInProgress, ResultCompleted, QueryCompleted
<1> QED
  BY <1>3, <1>5, <1>6, <1>7, <1>8, <1>9, <1>10, <1>11, <1>12 DEF CalNext, CalStep

\* The clients of kind k are ec now.
LEMMA SourcesChangedKeeps ==
  ASSUME CalAssumption, CalInv, window, NEW k,
         NEW ec \in [Sources -> {"none", "new", "opening", "loaded"}], SourcesChanged(k, ec),
         \A s \in Sources : \/ ec[s] = ecal[s]
                            \/ Kind(s) = k /\ (ec[s] = "none" \/ ecal[s] = "none"),
         selected' \subseteq Sources, UNCHANGED <<store, failed, month, window, shown>>
  PROVE  CalInv'
<1> DEFINE having == {s \in OfKind(k) : ec[s] # "none"}
<1>1. PICK kept \in SUBSET having :
        LET gone == OfKind(k) \ (kept \cap (listed \ dead))
        IN  /\ listed' = (listed \ OfKind(k)) \cup kept
            /\ dead' = dead \ OfKind(k)
            /\ ecal' = Opening(kept, ec)
            /\ completed' = Clear(gone, completed)
            /\ inProgress' = Queried(kept, month, ec, {}, Clear(gone, inProgress))
  BY DEF SourcesChanged
<1> DEFINE gone == OfKind(k) \ (kept \cap (listed \ dead))
<1>2. CalFits BY DEF CalInv
<1>3. kept \subseteq OfKind(k) /\ (\A s \in kept : ec[s] # "none") /\ OfKind(k) \subseteq Sources
  BY DEF OfKind
<1>4. /\ completed' \in [Sources -> Views \cup {NoView}]
      /\ \A s \in Sources : completed'[s] = IF s \in gone THEN NoView ELSE completed[s]
  <2> HIDE DEF gone
  <2> QED BY <1>1, <1>2, ClearIs DEF CalFits, gone
<1>5. /\ inProgress' \in [Sources -> Views \cup {NoView}]
      /\ \A s \in Sources :
           inProgress'[s] = IF s \in kept /\ ec[s] = "loaded" /\ (s \in Tasks \/ month # NoMonth)
                              THEN View(s, month) ELSE IF s \in gone THEN NoView ELSE inProgress[s]
  <2> DEFINE p == Clear(gone, inProgress)
  <2>1. p \in [Sources -> Views \cup {NoView}]
        /\ \A s \in Sources : p[s] = IF s \in gone THEN NoView ELSE inProgress[s]
    <3> HIDE DEF gone
    <3> QED BY <1>2, ClearIs DEF CalFits
  <2>2. inProgress' = Queried(kept, month, ec, {}, p) BY <1>1
  <2> HIDE DEF p, gone
  <2>3. month \in Months \cup {NoMonth} /\ store \in [Entries -> Nat] BY <1>2 DEF CalFits
  <2>4. /\ inProgress' \in [Sources -> Views \cup {NoView}]
        /\ \A s \in Sources :
             inProgress'[s] = IF s \in kept \ {} /\ ec[s] = "loaded" /\ (s \in Tasks \/ month # NoMonth)
                                THEN View(s, month) ELSE p[s]
    BY <2>1, <2>2, <2>3, QueriedIs
  <2> QED BY <2>1, <2>4
<1>6. /\ listed' = (listed \ OfKind(k)) \cup kept /\ dead' = dead \ OfKind(k)
      /\ ecal' = Opening(kept, ec)
  BY <1>1
<1>7. /\ ecal' \in [Sources -> {"none", "new", "opening", "loaded"}]
      /\ \A s \in Sources : s \notin kept \/ ec[s] # "new" => ecal'[s] = ec[s]
  BY <1>6, OpeningIs
<1>8. CalFits' BY <1>2, <1>3, <1>4, <1>5, <1>6, <1>7 DEF CalFits
<1> HIDE DEF gone
<1>9. ASSUME NEW s \in Sources PROVE SourceFits(s)'
  <2>1. SourceFits(s) /\ Of(s)' = Of(s) BY DEF CalInv, Of
  <2>2. CASE s \notin OfKind(k)
    <3>1. s \notin gone /\ s \notin kept /\ ec[s] = ecal[s]
      BY <1>3, <2>2 DEF gone, OfKind
    <3>2. completed'[s] = completed[s] /\ inProgress'[s] = inProgress[s] /\ ecal'[s] = ecal[s]
      BY <1>4, <1>5, <1>7, <3>1
    <3> QED BY <1>6, <2>1, <2>2, <3>1, <3>2, OtherFits
  <2>3. CASE s \in OfKind(k)
    <3>1. s \notin dead' /\ (s \in listed' <=> s \in kept) BY <1>6, <2>3
    <3>2. s \notin gone <=> s \in kept /\ s \in listed /\ s \notin dead BY <2>3 DEF gone
    <3>3. completed'[s] = NoView \/ (completed'[s] = completed[s] /\ s \notin dead /\ s \in kept)
      BY <1>4, <3>2
    <3>4. CASE s \in kept /\ ec[s] = "loaded" /\ (s \in Tasks \/ month # NoMonth)
      <4>1. inProgress'[s] = View(s, month) /\ ecal'[s] = "loaded" BY <1>5, <1>7, <3>4
      <4>2. store \in [Entries -> Nat] /\ month \in Months \cup {NoMonth} BY <1>2 DEF CalFits
      <4> QED BY <2>1, <3>1, <3>3, <3>4, <4>1, <4>2, StartFits
    <3>5. CASE ~(s \in kept /\ ec[s] = "loaded" /\ (s \in Tasks \/ month # NoMonth))
      <4>1. inProgress'[s] = IF s \in gone THEN NoView ELSE inProgress[s] BY <1>5, <3>5
      <4>2. CASE s \in gone
        <5>1. completed'[s] = NoView /\ inProgress'[s] = NoView BY <1>4, <4>1, <4>2
        <5> QED BY <3>1, <5>1 DEF SourceFits, ClientFits, QueryFits, Timely, ShownFits
      <4>3. CASE s \notin gone
        <5>1. completed'[s] = completed[s] /\ inProgress'[s] = inProgress[s] BY <1>4, <4>1, <4>3
        <5>2. s \in kept /\ s \in listed /\ s \notin dead BY <3>2, <4>3
        <5>3. completed[s] # NoView \/ inProgress[s] # NoView => ecal'[s] = "loaded"
          <6>1. completed[s] # NoView \/ inProgress[s] # NoView => ecal[s] = "loaded"
            BY <2>1, <5>2 DEF SourceFits, ClientFits
          <6>2. ec[s] # "none" BY <1>3, <5>2
          <6>3. ecal[s] = "loaded" => ec[s] = "loaded" BY <6>2
          <6> QED BY <1>7, <6>1, <6>3
        <5>4. ClientFits(s)' BY <3>1, <5>1, <5>2, <5>3 DEF ClientFits
        <5>5. QueryFits(completed[s], s)' /\ QueryFits(inProgress[s], s)'
          BY <2>1, <3>1, <5>1, <5>2 DEF SourceFits, QueryFits
        <5>6. Timely(s)' BY <2>1, <3>1, <5>1, <5>2 DEF SourceFits, Timely, OfMonth
        <5>7. ShownFits(s)' BY <2>1, <5>1 DEF SourceFits, ShownFits
        <5> QED BY <5>4, <5>5, <5>6, <5>7 DEF SourceFits
      <4> QED BY <4>2, <4>3
    <3> QED BY <3>4, <3>5
  <2> QED BY <2>2, <2>3
<1> QED BY <1>8, <1>9 DEF CalInv

LEMMA SelectSourceKeeps ==
  ASSUME CalAssumption, CalInv, NEW s \in Sources, SelectSource(s)
  PROVE  CalInv'
<1> DEFINE has == ecal[s] # "none"
           to == CASE s \in selected' /\ ~has -> "new"
                   [] s \notin selected' -> "none"
                   [] OTHER -> ecal[s]
           ec == [ecal EXCEPT ![s] = to]
<1>1. /\ selected' = (selected \cup {s}) \ (selected \cap {s})
      /\ UNCHANGED <<store, failed, month, window, shown>>
      /\ IF window /\ ec # ecal THEN SourcesChanged(Kind(s), ec)
                                ELSE UNCHANGED <<ecal, listed, dead, completed, inProgress>>
  BY DEF SelectSource
<1>2. CalFits BY DEF CalInv
<1>3. selected' \subseteq Sources BY <1>1, <1>2 DEF CalFits
<1>4. CASE window /\ ec # ecal
  <2>1. SourcesChanged(Kind(s), ec) BY <1>1, <1>4
  <2>2. \/ to = "new" /\ ecal[s] = "none"
        \/ to = "none"
        \/ to = ecal[s]
    OBVIOUS
  <2>3. to \in {"none", "new", "opening", "loaded"} BY <1>2, <2>2 DEF CalFits
  <2> HIDE DEF to
  <2>4. ec \in [Sources -> {"none", "new", "opening", "loaded"}] /\ ec[s] = to
        /\ \A t \in Sources : t # s => ec[t] = ecal[t]
    BY <1>2, <2>3 DEF CalFits
  <2>5. \A t \in Sources : \/ ec[t] = ecal[t]
                           \/ Kind(t) = Kind(s) /\ (ec[t] = "none" \/ ecal[t] = "none")
    BY <2>2, <2>4
  <2> HIDE DEF ec
  <2> QED BY <1>1, <1>3, <1>4, <2>1, <2>4, <2>5, SourcesChangedKeeps
<1>5. CASE ~(window /\ ec # ecal)
  <2>1. UNCHANGED <<ecal, listed, dead, completed, inProgress>> BY <1>1, <1>5
  <2>2. CalFits' BY <1>1, <1>2, <1>3, <2>1 DEF CalFits
  <2>3. ASSUME NEW t \in Sources PROVE SourceFits(t)'
    <3>1. SourceFits(t) /\ Of(t)' = Of(t) BY <1>1 DEF CalInv, Of
    <3> QED BY <1>1, <2>1, <3>1, OtherFits
  <2> QED BY <2>2, <2>3 DEF CalInv
<1> QED BY <1>4, <1>5

LEMMA BackendRestartKeeps ==
  ASSUME CalAssumption, CalInv, WindowFits, NEW k \in Kinds, BackendRestart(k)
  PROVE  CalInv'
<1> DEFINE ec == [s \in Sources |-> IF s \in selected \cap OfKind(k) /\ ecal[s] = "none"
                                      THEN "new" ELSE ecal[s]]
<1>1. /\ k \in restart /\ SourcesChanged(k, ec)
      /\ UNCHANGED <<store, selected, failed, month, window, shown>>
  BY DEF BackendRestart, serverVars
<1>2. window BY <1>1 DEF WindowFits
<1>3. CalFits BY DEF CalInv
<1>4. ec \in [Sources -> {"none", "new", "opening", "loaded"}] BY <1>3 DEF CalFits
<1>5. \A s \in Sources : \/ ec[s] = ecal[s]
                         \/ Kind(s) = k /\ (ec[s] = "none" \/ ecal[s] = "none")
  BY DEF OfKind
<1> HIDE DEF ec
<1> QED BY <1>1, <1>2, <1>3, <1>4, <1>5, SourcesChangedKeeps DEF CalFits

LEMMA CalNextKeeps ==
  ASSUME CalAssumption, CalInv, WindowFits, [CalNext]_calVars
  PROVE  CalInv' /\ WindowFits'
<1>1. CASE UNCHANGED calVars
  <2>1. UNCHANGED <<store, selected, ecal, listed, dead, completed, inProgress, month, window,
                    shown, failed>>
    BY <1>1 DEF calVars
  <2>2. CalFits' BY <2>1 DEF CalInv, CalFits
  <2>3. ASSUME NEW s \in Sources PROVE SourceFits(s)'
    <3>1. SourceFits(s) /\ Of(s)' = Of(s) BY <2>1 DEF CalInv, Of
    <3> QED BY <2>1, <3>1, OtherFits
  <2> QED BY <2>2, <2>3, WindowKeeps DEF CalInv
<1>2. ASSUME NEW e \in Entries, EditEntry(e) \/ CompleteTask(e) PROVE CalInv'
  <2>1. store[e] \in Nat BY DEF CalInv, CalFits
  <2>2. \E new \in Nat : Stored(e, new) BY <1>2, <2>1 DEF EditEntry, CompleteTask
  <2> QED BY <2>2, StoredKeeps
<1>3. ASSUME CalNext PROVE CalInv'
  <2>1. ASSUME NEW m \in Months, OpenWindow(m) \/ SelectMonth(m) PROVE CalInv'
    BY <2>1, OpenWindowKeeps, SelectMonthKeeps
  <2>2. ASSUME NEW s \in Sources, SelectSource(s) \/ BackendDies(s) \/ Opened(s) PROVE CalInv'
    BY <2>2, SelectSourceKeeps, BackendDiesKeeps, OpenedKeeps
  <2>3. ASSUME NEW s \in Sources, ResultInProgress(s) \/ ResultCompleted(s) \/ QueryCompleted(s)
        PROVE  CalInv'
    BY <2>3, ResultInProgressKeeps, ResultCompletedKeeps, QueryCompletedKeeps
  <2>4. ASSUME NEW k \in Kinds, BackendRestart(k) PROVE CalInv' BY <2>4, BackendRestartKeeps
  <2>5. CASE CloseWindow BY <2>5, CloseWindowKeeps
  <2> QED BY <1>2, <1>3, <2>1, <2>2, <2>3, <2>4, <2>5 DEF CalNext, CalStep
<1> QED BY <1>1, <1>3, WindowKeeps

\* What is shown of a calendar whose queries were answered.
LEMMA QuietIsCurrent ==
  ASSUME CalAssumption, CalInv, NEW s \in Sources, Quiet(s)
  PROVE  {x \in shown : SourceOf[x.entry] = s} =
           {[entry |-> e, version |-> store[e]] :
              e \in {f \in Asks(s, month) : store[f] # 0} \ completed[s].lost}
<1> DEFINE v == completed[s]
           R(e) == [entry |-> e, version |-> store[e]]
           F == {f \in Asks(s, month) : store[f] # 0} \ v.lost
<1>1. /\ s \notin dead \cup failed /\ inProgress[s] = NoView /\ v # NoView /\ v.queue = <<>>
      /\ s \in Tasks \/ v.month = month
  BY DEF Quiet
<1>2. SourceFits(s) /\ CalFits BY DEF CalInv
<1>3. Owned(v, s) /\ Agrees(v, s, store) /\ Of(s) = Seen(v, month)
  BY <1>1, <1>2 DEF SourceFits, QueryFits, ShownFits
<1>4. v.entries \subseteq [entry : Entries, version : Nat, occurs : BOOLEAN]
  BY <1>1, <1>2, ViewParts DEF CalFits
<1>5. Asks(s, v.month) = Asks(s, month) BY <1>1 DEF Asks
<1>6. \A e \in Asks(s, month) : Settled(v, e, store) BY <1>1, <1>3, <1>5 DEF Agrees, Mentions
<1>7. \A x \in v.entries : /\ x.occurs /\ x.entry \in Asks(s, month)
                           /\ SourceOf[x.entry] \in Tasks \/ MonthOf[x.entry] = month
  <2>1. s \notin Tasks => \A x \in v.entries : x.occurs
    BY <1>1, <1>2 DEF SourceFits, Timely, OfMonth
  <2>2. \A x \in v.entries : x.entry \in Asks(s, month) /\ (s \in Tasks => x.occurs)
    BY <1>3, <1>5 DEF Owned
  <2> QED BY <2>1, <2>2 DEF Asks
<1>8. Seen(v, month) = {[entry |-> x.entry, version |-> x.version] : x \in v.entries}
  BY <1>7 DEF Seen
<1>9. ASSUME NEW x \in v.entries
      PROVE  x.entry \in F /\ [entry |-> x.entry, version |-> x.version] = R(x.entry)
  <2>1. Settled(v, x.entry, store) BY <1>6, <1>7
  <2>2. store[x.entry] # 0 /\ x.entry \notin v.lost /\ x.version = store[x.entry]
    BY <2>1 DEF Settled
  <2> QED BY <1>7, <2>2
<1>10. ASSUME NEW e \in F PROVE \E x \in v.entries : x.entry = e
  BY <1>6 DEF Settled
<1>11. {[entry |-> x.entry, version |-> x.version] : x \in v.entries} = {R(e) : e \in F}
  <2> DEFINE G(x) == [entry |-> x.entry, version |-> x.version]
  <2>1. \A x \in v.entries : x.entry \in F /\ G(x) = R(x.entry) BY <1>9
  <2>2. \A e \in F : \E x \in v.entries : x.entry = e BY <1>10
  <2> HIDE DEF G, R, F
  <2> SUFFICES {G(x) : x \in v.entries} = {R(e) : e \in F} BY DEF G
  <2> QED BY <2>1, <2>2
<1> QED BY <1>3, <1>8, <1>11 DEF Of

\* The calendar window shows nothing of a month that is not selected, and of a calendar
\* whose queries were answered exactly what the server has, whatever was edited,
\* selected, stopped or overtaken on the way, but for entries that went with another
\* whose uid begins theirs (calendar_client_start_query,
\* calendar_client_handle_query_result).
THEOREM CalendarAgrees == CalAssumption /\ CalSpec => []ShownIsCurrent
<1> SUFFICES ASSUME CalAssumption PROVE CalSpec => []ShownIsCurrent
  OBVIOUS
<1>1. CalInit => CalInv /\ WindowFits BY CalInitHolds DEF CalInit, WindowFits
<1>2. CalInv /\ WindowFits /\ [CalNext]_calVars => (CalInv /\ WindowFits)' BY CalNextKeeps
<1>3. CalInv => ShownIsCurrent
  BY QuietIsCurrent DEF ShownIsCurrent, CalInv, CalFits
<1> QED BY <1>1, <1>2, <1>3, PTL DEF CalSpec

-----------------------------------------------------------------------------
(* All parts together. *)

\* The kinds whose backends restart, and the bounds.
BoundsFit == restart \subseteq Kinds /\ edits \in 0 .. MaxEdits /\ faults \in 0 .. MaxFaults

LEMMA BoundsKeep ==
  ASSUME CalAssumption, BoundsFit, [CalNext]_calVars
  PROVE  BoundsFit'
<1>1. CASE UNCHANGED <<restart, edits, faults>> BY <1>1 DEF BoundsFit
<1>2. ASSUME restart' \subseteq restart, edits' = edits \/ (edits < MaxEdits /\ edits' = edits + 1),
             faults' = faults \/ (faults < MaxFaults /\ faults' = faults + 1)
      PROVE  BoundsFit'
  BY <1>2 DEF BoundsFit, CalAssumption
<1>3. CASE UNCHANGED calVars BY <1>1, <1>3 DEF calVars
<1>4. CASE CloseWindow BY <1>2, <1>4 DEF CloseWindow
<1>5. ASSUME NEW m \in Months, OpenWindow(m) \/ SelectMonth(m) PROVE BoundsFit'
  BY <1>1, <1>5 DEF OpenWindow, SelectMonth
<1>6. ASSUME NEW s \in Sources, Opened(s) PROVE BoundsFit' BY <1>2, <1>6 DEF Opened
<1>7. ASSUME NEW s \in Sources, ResultInProgress(s) \/ ResultCompleted(s) PROVE BoundsFit'
  BY <1>1, <1>7 DEF ResultInProgress, ResultCompleted
<1>8. ASSUME NEW s \in Sources, QueryCompleted(s) PROVE BoundsFit'
  BY <1>2, <1>8 DEF QueryCompleted
<1>9. ASSUME NEW e \in Entries, EditEntry(e) \/ CompleteTask(e) PROVE BoundsFit'
  <2>1. \E new : Stored(e, new) BY <1>9 DEF EditEntry, CompleteTask
  <2> QED BY <1>2, <2>1 DEF Stored
<1>10. ASSUME NEW s \in Sources, SelectSource(s) PROVE BoundsFit'
  BY <1>2, <1>10 DEF SelectSource
<1>11. ASSUME NEW s \in Sources, BackendDies(s) PROVE BoundsFit'
  <2>1. /\ restart' = restart \cup {Kind(s)} /\ edits' = edits
        /\ faults < MaxFaults /\ faults' = faults + 1
    BY <1>11 DEF BackendDies
  <2>2. Kind(s) \in Kinds BY DEF Kinds
  <2> QED BY <2>1, <2>2 DEF BoundsFit, CalAssumption
<1>12. ASSUME NEW k \in Kinds, BackendRestart(k) PROVE BoundsFit'
  BY <1>2, <1>12 DEF BackendRestart
<1> QED
  BY <1>3, <1>4, <1>5, <1>6, <1>7, <1>8, <1>9, <1>10, <1>11, <1>12 DEF CalNext, CalStep

LEMMA CalTypes == CalInv /\ BoundsFit => CalTypeOK
BY DEF CalInv, CalFits, SourceFits, ClientFits, BoundsFit, CalTypeOK

LEMMA PlaceTypes == PlaceInv => PlaceTypeOK
BY DEF PlaceInv, ZoneFits, WeatherFits, ListFits, MarkFits, MarkerIsCurrent, PlaceTypeOK

\* Every variable of every part keeps its type: no place that is current or has a tile
\* was finalized, no query is of a calendar that went, and no icon is in a tray that is
\* gone (clock_location_finalize, calendar_client_source_finalize, tray_removed).
THEOREM TypesCorrect ==
  SidesAssumption /\ Spec /\ LibSpec /\ SidesSpec => []AppletsTypeOK
<1> SUFFICES ASSUME SidesAssumption
             PROVE  Spec /\ LibSpec /\ SidesSpec => []AppletsTypeOK
  OBVIOUS
<1> USE DEF SidesAssumption
<1>1. CalInit => CalInv /\ WindowFits /\ BoundsFit
  <2> SUFFICES ASSUME CalInit PROVE CalInv /\ WindowFits /\ BoundsFit
    OBVIOUS
  <2>1. WindowFits BY DEF CalInit, WindowFits
  <2>2. BoundsFit BY DEF CalInit, BoundsFit, CalAssumption
  <2> QED BY <2>1, <2>2, CalInitHolds
<1>2. CalInv /\ WindowFits /\ BoundsFit /\ [CalNext]_calVars
        => (CalInv /\ WindowFits /\ BoundsFit)'
  BY CalNextKeeps, BoundsKeep
<1>3. PlaceInit => PlaceInv BY PlaceInitHolds
<1>4. PlaceInv /\ [PlaceNext]_placeVars => PlaceInv'
  BY ZoneKeeps, WeatherKeeps, ListKeeps, MarkKeeps DEF PlaceInv
<1>5. TrayInit => TrayInv BY TrayInitHolds
<1>6. TrayInv /\ [TrayNext]_trayVars => TrayInv' BY TrayNextKeeps
<1>7. TypeOK /\ LibTypeOK /\ CalInv /\ BoundsFit /\ PlaceInv /\ TrayInv => AppletsTypeOK
  BY CalTypes, PlaceTypes DEF AppletsTypeOK, TrayInv
<1> QED
  BY <1>1, <1>2, <1>3, <1>4, <1>5, <1>6, <1>7, FactoryTypeCorrect, LibTypeCorrect, PTL
  DEF SidesSpec, CalSpec, PlaceSpec, TraySpec

\* Both sides of the calendar, of the list of places and of the trays agree once all is
\* heard, whatever is edited, selected, stopped or overtaken on the way
\* (calendar_client_start_query, save_cities_store, tray_removed).
THEOREM BothAgree == SidesAssumption /\ SidesSpec => []BothSidesAgree
BY CalendarAgrees, PlacesAgree, TraysAgree, PTL DEF SidesAssumption, SidesSpec, BothSidesAgree
=============================================================================
