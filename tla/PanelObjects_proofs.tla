------------------------ MODULE PanelObjects_proofs ------------------------
(***************************************************************************)
(* Proofs about PanelObjects, for any objects, panels and bounds: the      *)
(* state invariants that MCPanelObjects.cfg checks are, taken together,    *)
(* inductive.                                                              *)
(***************************************************************************)
EXTENDS PanelObjects, TLAPS

\* What of the invariant speaks of the process, not of the stored layout.
ShownInv ==
  /\ ShownTypeOK
  /\ LoaderProgresses
  /\ NoPanelLeftHidden
  /\ QueuedOnce
  /\ SavesPending

Inv == StoredTypeOK /\ ShownInv

-----------------------------------------------------------------------------
(***************************************************************************)
(* Slots.                                                                  *)
(***************************************************************************)

\* The slot a new widget takes holds nothing.
LEMMA FreshSlotIsFree ==
  SlotLeft => FreshSlot \in Frames /\ frame[FreshSlot].st = "free"
BY DEF SlotLeft, InState, FreshSlot

\* What destruction makes of a slot is a slot, and is no longer registered;
\* it is free, or dead with the same id.
LEMMA DestroyedSlot ==
  ASSUME NEW s \in SlotType
  PROVE  Destroyed(s) \in SlotType /\ Destroyed(s).st \in {"dead", "free"}
BY DEF Destroyed, SlotType, FreeSlot, States, Refs

\* What the destruction of panels makes of a slot is a slot; one that
\* activates goes on activating, and one that is registered was and is on a
\* panel that is left.
LEMMA AfterPanelsSlot ==
  ASSUME NEW s \in SlotType, NEW T \in SUBSET Toplevels
  PROVE  LET r == AfterPanels(s, T)
         IN  /\ r \in SlotType
             /\ s.st = "activating" => r.st = "activating" /\ r.id = s.id
             /\ r.st = "registered" => /\ s.st = "registered" /\ s.on \notin T
                                       /\ r.id = s.id /\ r.on = s.on
             /\ s.st = "registered" /\ s.on \notin T =>
                  r.st = "registered" /\ r.on = s.on
<1> DEFINE d == IF s.dialog \in T THEN [s EXCEPT !.dialog = Gone] ELSE s
<1>1. d \in SlotType /\ d.st = s.st /\ d.id = s.id /\ d.on = s.on
  BY DEF SlotType, Refs
<1>2. Destroyed(d) \in SlotType /\ Destroyed(d).st \in {"dead", "free"}
  BY <1>1, DestroyedSlot
<1>3. FreeSlot \in SlotType /\ FreeSlot.st = "free"
  BY DEF FreeSlot, SlotType, States, Refs
<1>4. CASE d.st = "activating" /\ d.on \in T
  <2>1. AfterPanels(s, T) = [d EXCEPT !.on = Gone]
    BY <1>4 DEF AfterPanels
  <2> QED BY <2>1, <1>1, <1>4 DEF SlotType, Refs
<1>5. CASE d.st = "registered" /\ d.on \in T
  <2>1. AfterPanels(s, T) = Destroyed(d)
    BY <1>5 DEF AfterPanels
  <2> QED BY <2>1, <1>1, <1>2, <1>5
<1>6. CASE d.st \in {"dead", "failed"} /\ d.dialog = Gone
  <2>1. AfterPanels(s, T) = FreeSlot
    BY <1>6 DEF AfterPanels
  <2> QED BY <2>1, <1>1, <1>3, <1>6
<1>7. CASE /\ ~(d.st = "activating" /\ d.on \in T)
           /\ ~(d.st = "registered" /\ d.on \in T)
           /\ ~(d.st \in {"dead", "failed"} /\ d.dialog = Gone)
  <2>1. AfterPanels(s, T) = d
    BY <1>7 DEF AfterPanels
  <2> QED BY <2>1, <1>1, <1>7
<1> QED BY <1>4, <1>5, <1>6, <1>7

\* The same of all slots: after panels are destroyed ...
LEMMA DestroyPanelsFrames ==
  ASSUME NEW fr \in [Frames -> SlotType], NEW T \in SUBSET Toplevels
  PROVE  LET new == DestroyPanels(fr, T)
         IN  /\ new \in [Frames -> SlotType]
             /\ Ids(fr, "activating") \subseteq Ids(new, "activating")
             /\ Ids(new, "registered") \subseteq Ids(fr, "registered")
             /\ \A f \in Frames :
                  fr[f].st = "registered" /\ fr[f].on \notin T =>
                    new[f].st = "registered" /\ new[f].on = fr[f].on
<1> DEFINE new == DestroyPanels(fr, T)
<1>1. \A f \in Frames : fr[f] \in SlotType
  OBVIOUS
<1>2. \A f \in Frames : new[f] = AfterPanels(fr[f], T)
  BY DEF DestroyPanels
<1>3. \A f \in Frames :
        /\ new[f] \in SlotType
        /\ fr[f].st = "activating" =>
             new[f].st = "activating" /\ new[f].id = fr[f].id
        /\ new[f].st = "registered" =>
             fr[f].st = "registered" /\ new[f].id = fr[f].id
        /\ fr[f].st = "registered" /\ fr[f].on \notin T =>
             new[f].st = "registered" /\ new[f].on = fr[f].on
  BY <1>1, <1>2, AfterPanelsSlot
<1>4. new \in [Frames -> SlotType]
  BY <1>3 DEF DestroyPanels
<1> HIDE DEF new
<1>5. QED BY <1>3, <1>4 DEF Ids, InState, new

\* ... and after widgets are destroyed.
LEMMA DestroyFramesFrames ==
  ASSUME NEW fr \in [Frames -> SlotType], NEW S \in SUBSET InState(fr, "registered")
  PROVE  LET new == DestroyFrames(fr, S)
         IN  /\ new \in [Frames -> SlotType]
             /\ Ids(fr, "activating") \subseteq Ids(new, "activating")
             /\ Ids(new, "registered") \subseteq Ids(fr, "registered")
             /\ \A f \in Frames \ S : new[f] = fr[f]
<1> DEFINE new == DestroyFrames(fr, S)
<1>1. \A f \in Frames : fr[f] \in SlotType
  OBVIOUS
<1>2. \A f \in Frames : new[f] = IF f \in S THEN Destroyed(fr[f]) ELSE fr[f]
  BY DEF DestroyFrames
<1>3. \A f \in S : /\ new[f] \in SlotType
                   /\ new[f].st # "registered" /\ fr[f].st # "activating"
  BY <1>1, <1>2, DestroyedSlot DEF InState
<1>4. new \in [Frames -> SlotType]
  BY <1>1, <1>2, <1>3 DEF DestroyFrames
<1> HIDE DEF new
<1>5. QED BY <1>2, <1>3, <1>4 DEF Ids, InState, new

-----------------------------------------------------------------------------
(***************************************************************************)
(* The loader.                                                             *)
(***************************************************************************)

\* panel_object_loader_stop_loading takes the id off both lists, and unhides
\* every panel or changes nothing about the hidden ones.
LEMMA StopLoadingEffect ==
  ASSUME NEW o, NEW q, NEW l, StopLoading(o, q, l), ShownTypeOK,
         panels' = panels
  PROVE  /\ toLoad' = {e \in q : e.id # o}
         /\ loading' = l \ {o}
         /\ unhideTimer' \in BOOLEAN /\ hidden' \subseteq panels'
         /\ NoPanelLeftHidden => NoPanelLeftHidden'
BY DEF StopLoading, UnhideIfLoaded, UnhideAll, ShownTypeOK, NoPanelLeftHidden

\* A reaction to a changed list of objects, from slots fr in which every
\* activation of before is still under way and no queued object is
\* registered, preserves the invariant.
LEMMA ChangedObjectsShownInv ==
  ASSUME ShownInv,
         NEW keep, NEW cand \in SUBSET Objects,
         NEW homes \in [Objects -> Toplevels \cup {NoToplevel}],
         NEW fr \in [Frames -> SlotType],
         NEW sq \in SUBSET saveQueue,
         NEW hid \in SUBSET panels',
         panels' \subseteq Toplevels,
         Ids(frame, "activating") \subseteq Ids(fr, "activating"),
         QueuedIds \cap Ids(fr, "registered") = {},
         \A f \in sq : fr[f].st = "registered" /\ fr[f].on \in panels',
         saveTimer' = saveTimer,
         ChangedObjects(keep, cand, homes, fr, sq, hid)
  PROVE  ShownInv'
<1> DEFINE clean == {f \in InState(fr, "registered") : fr[f].id \notin keep}
           add == {o \in cand : /\ o \notin QueuedIds \cup Ids(fr, "registered")
                                /\ homes[o] # NoToplevel}
           added == {[id |-> o, on |-> homes[o]] : o \in add}
<1>1. /\ frame' = DestroyFrames(fr, clean)
      /\ saveQueue' = sq \ clean
      /\ toLoad' = toLoad \cup added
      /\ DoLoad(toLoad \cup added, hid)
      /\ loading' = loading
  BY DEF ChangedObjects
<1>2. /\ frame' \in [Frames -> SlotType]
      /\ Ids(fr, "activating") \subseteq Ids(frame', "activating")
      /\ Ids(frame', "registered") \subseteq Ids(fr, "registered")
      /\ \A f \in Frames \ clean : frame'[f] = fr[f]
  BY <1>1, DestroyFramesFrames
<1>3. added \subseteq [id : Objects, on : Toplevels]
  OBVIOUS
<1>4. /\ hidden' \subseteq panels' /\ unhideTimer' \in BOOLEAN
      /\ haveIdle' \in BOOLEAN
      /\ NoPanelLeftHidden'
      /\ toLoad' # {} => haveIdle'
  BY <1>1 DEF DoLoad, UnhideAll, NoPanelLeftHidden, ShownInv, ShownTypeOK
<1>5. ShownTypeOK'
  BY <1>1, <1>2, <1>3, <1>4 DEF ShownInv, ShownTypeOK
<1>6. LoaderProgresses'
  BY <1>1, <1>2, <1>4 DEF ShownInv, LoaderProgresses
<1>7. QueuedOnce'
  <2>1. \A d, e \in toLoad' : d.id = e.id => d = e
    BY <1>1 DEF ShownInv, QueuedOnce, QueuedIds
  <2>2. \A e \in toLoad' : e.id \notin loading'
    BY <1>1 DEF ShownInv, QueuedOnce, QueuedIds
  <2>3. QueuedIds' \cap Ids(frame', "registered") = {}
    BY <1>1, <1>2 DEF QueuedIds
  <2> QED BY <2>1, <2>2, <2>3 DEF QueuedOnce
<1>8. SavesPending'
  BY <1>1, <1>2 DEF ShownInv, SavesPending, ShownTypeOK
<1> QED BY <1>4, <1>5, <1>6, <1>7, <1>8 DEF ShownInv

\* The frames, saves and hidden panels left by a change to the panels tops
\* fit the invariant.
LEMMA OnTops ==
  ASSUME ShownInv, NEW tops \in SUBSET Toplevels
  PROVE  /\ FramesOn(tops) \in [Frames -> SlotType]
         /\ SavesOn(tops) \subseteq saveQueue
         /\ HiddenOn(tops) \subseteq tops
         /\ Ids(frame, "activating") \subseteq Ids(FramesOn(tops), "activating")
         /\ QueuedIds \cap Ids(FramesOn(tops), "registered") = {}
         /\ \A f \in SavesOn(tops) : /\ FramesOn(tops)[f].st = "registered"
                                     /\ FramesOn(tops)[f].on \in tops
<1>1. panels \ tops \in SUBSET Toplevels /\ frame \in [Frames -> SlotType]
  BY DEF ShownInv, ShownTypeOK
<1>2. /\ FramesOn(tops) \in [Frames -> SlotType]
      /\ Ids(frame, "activating") \subseteq Ids(FramesOn(tops), "activating")
      /\ Ids(FramesOn(tops), "registered") \subseteq Ids(frame, "registered")
      /\ \A f \in Frames :
           frame[f].st = "registered" /\ frame[f].on \notin panels \ tops =>
             /\ FramesOn(tops)[f].st = "registered"
             /\ FramesOn(tops)[f].on = frame[f].on
  BY <1>1, DestroyPanelsFrames DEF FramesOn
<1>3. \A f \in SavesOn(tops) : /\ f \in Frames /\ frame[f].st = "registered"
                               /\ frame[f].on \in tops
  BY DEF SavesOn, ShownInv, ShownTypeOK, SavesPending
<1>4. \A f \in SavesOn(tops) : /\ FramesOn(tops)[f].st = "registered"
                               /\ FramesOn(tops)[f].on \in tops
  BY <1>2, <1>3
<1>5. SavesOn(tops) \subseteq saveQueue /\ HiddenOn(tops) \subseteq tops
  BY DEF SavesOn, HiddenOn
<1>6. QueuedIds \cap Ids(FramesOn(tops), "registered") = {}
  BY <1>2 DEF ShownInv, QueuedOnce
<1> QED BY <1>2, <1>4, <1>5, <1>6

\* panel_layout_changed_toplevel preserves the invariant.
LEMMA ChangedToplevelShownInv ==
  ASSUME Inv, NEW stored \in SUBSET Toplevels, ChangedToplevel(stored),
         saveTimer' = saveTimer
  PROVE  ShownInv'
<1> DEFINE tops == OnScreen(stored)
<1>0. tops \in SUBSET Toplevels
  BY DEF OnScreen
<1>1. panels' = tops
  BY DEF ChangedToplevel
<1>2. CASE stored \subseteq panels
  <2>1. /\ frame' = FramesOn(tops)
        /\ saveQueue' = SavesOn(tops)
        /\ hidden' = HiddenOn(tops)
        /\ UNCHANGED <<toLoad, loading, haveIdle, unhideTimer>>
    BY <1>2 DEF ChangedToplevel
  <2>2. ShownTypeOK'
    BY <1>1, <2>1, <1>0, OnTops DEF Inv, ShownInv, ShownTypeOK
  <2>3. LoaderProgresses'
    BY <2>1, <1>0, OnTops DEF Inv, ShownInv, LoaderProgresses
  <2>4. NoPanelLeftHidden'
    BY <1>2, <2>1 DEF Inv, ShownInv, NoPanelLeftHidden, HiddenOn, OnScreen
  <2>5. QueuedOnce'
    <3>1. QueuedIds' = QueuedIds
      BY <2>1 DEF QueuedIds
    <3>2. QueuedIds' \cap Ids(frame', "registered") = {}
      BY <3>1, <2>1, <1>0, OnTops DEF Inv
    <3> QED BY <2>1, <3>2 DEF Inv, ShownInv, QueuedOnce
  <2>6. SavesPending'
    <3>1. \A f \in saveQueue' : frame'[f].st = "registered" /\ frame'[f].on \in panels'
      BY <1>1, <2>1, <1>0, OnTops DEF Inv
    <3>2. saveQueue' # {} => saveTimer'
      BY <2>1, <1>0, OnTops DEF Inv, ShownInv, SavesPending
    <3> QED BY <3>1, <3>2 DEF SavesPending
  <2> QED BY <2>2, <2>3, <2>4, <2>5, <2>6 DEF ShownInv
<1>3. CASE ~(stored \subseteq panels)
  <2>1. ChangedObjects(layoutObjects, layoutObjects, home,
                       FramesOn(tops), SavesOn(tops), HiddenOn(tops))
    BY <1>3 DEF ChangedToplevel
  <2>2. layoutObjects \in SUBSET Objects
        /\ home \in [Objects -> Toplevels \cup {NoToplevel}]
    BY DEF Inv, StoredTypeOK
  <2> QED BY <1>1, <2>1, <2>2, <1>0, OnTops, ChangedObjectsShownInv DEF Inv
<1> QED BY <1>2, <1>3

\* panel_layout_delete_object preserves the invariant, from slots in which an
\* open dialog was closed.
LEMMA RemoveObjectShownInv ==
  ASSUME Inv, NEW o, NEW fr \in [Frames -> SlotType],
         RemoveObject(o, fr),
         Ids(frame, "activating") \subseteq Ids(fr, "activating"),
         Ids(fr, "registered") \subseteq Ids(frame, "registered"),
         \A f \in saveQueue : fr[f].st = "registered" /\ fr[f].on \in panels,
         panels' = panels, saveTimer' = saveTimer
  PROVE  ShownInv'
<1>1. CASE ChangedObject(layoutObjects', home, fr)
  <2>1. /\ layoutObjects' \in SUBSET Objects
        /\ home \in [Objects -> Toplevels \cup {NoToplevel}]
    BY DEF Inv, StoredTypeOK, RemoveObject
  <2>2. hidden \in SUBSET panels' /\ panels' \subseteq Toplevels
    BY DEF Inv, ShownInv, ShownTypeOK
  <2>3. QueuedIds \cap Ids(fr, "registered") = {}
    BY DEF Inv, ShownInv, QueuedOnce
  <2>4. ChangedObjects(layoutObjects', layoutObjects', home, fr, saveQueue, hidden)
    BY <1>1 DEF ChangedObject
  <2> QED BY <2>1, <2>2, <2>3, <2>4, ChangedObjectsShownInv DEF Inv
<1>2. CASE frame' = fr /\ UNCHANGED <<loaderVars, saveQueue>>
  <2>1. UNCHANGED <<toLoad, loading, haveIdle, unhideTimer, hidden, saveQueue>>
    BY <1>2 DEF loaderVars
  <2>2. ShownTypeOK'
    BY <1>2, <2>1 DEF Inv, ShownInv, ShownTypeOK
  <2>3. LoaderProgresses' /\ NoPanelLeftHidden'
    BY <1>2, <2>1 DEF Inv, ShownInv, LoaderProgresses, NoPanelLeftHidden
  <2>4. QueuedOnce'
    BY <1>2, <2>1 DEF Inv, ShownInv, QueuedOnce, QueuedIds
  <2>5. SavesPending'
    BY <1>2, <2>1 DEF Inv, ShownInv, SavesPending
  <2> QED BY <2>2, <2>3, <2>4, <2>5 DEF ShownInv
<1> QED BY <1>1, <1>2 DEF RemoveObject

-----------------------------------------------------------------------------
(***************************************************************************)
(* The invariant is inductive.                                             *)
(***************************************************************************)

\* A restart reads the stored layout and changes none of it.
LEMMA ReloadStored ==
  ASSUME StoredTypeOK, Reload, edits' \in 0 .. MaxEdits
  PROVE  StoredTypeOK'
<1>1. noReload' = [o \in Objects |-> 0]
  BY DEF Reload
<1>2. UNCHANGED <<layoutToplevels, layoutObjects, home>>
  BY DEF Reload, layoutVars
<1>3. pendingToplevels' = FALSE /\ pendingObjects' = FALSE
  BY DEF Reload
<1>4. noReload' \in [Objects -> Nat]
  BY <1>1
<1> QED BY <1>2, <1>3, <1>4 DEF StoredTypeOK

\* The stored half is preserved by every step.
LEMMA StoredStep ==
  ASSUME Inv, Next
  PROVE  StoredTypeOK'
<1> USE DEF Inv, StoredTypeOK, layoutVars, pendingVars, Edit
<1> SUFFICES ASSUME BoundAssumption PROVE StoredTypeOK'
  BY BoundAssumption
<1>1. CASE IdleHandler
  <2>1. CASE IdleNothing \/ IdleDrop
    <3>1. UNCHANGED <<layoutVars, pendingVars, noReload, edits>>
      BY <2>1 DEF IdleNothing, IdleDrop
    <3> QED BY <3>1
  <2>2. ASSUME NEW e \in toLoad, IdleLoad(e) PROVE StoredTypeOK'
    <3>1. noReload' \in [Objects -> Nat]
      BY <2>2 DEF IdleLoad, LoadHelper
    <3> QED BY <2>2, <3>1 DEF IdleLoad
  <2> QED BY <1>1, <2>1, <2>2 DEF IdleHandler
<1>2. CASE UnhideTimeout
  BY <1>2 DEF UnhideTimeout
<1>3. CASE SaveTimeout
  <2>1. PICK w \in [{frame[f].id : f \in saveQueue} -> saveQueue] :
          home' = [o \in Objects |-> IF o \in DOMAIN w THEN frame[w[o]].on
                                                       ELSE home[o]]
    BY <1>3 DEF SaveTimeout
  <2>2. \A f \in saveQueue : frame[f].on \in Toplevels
    BY DEF ShownInv, ShownTypeOK, SavesPending
  <2>3. \A o \in DOMAIN w : frame[w[o]].on \in Toplevels
    BY <2>2
  <2>4. home' \in [Objects -> Toplevels \cup {NoToplevel}]
    BY <2>1, <2>3
  <2> QED BY <1>3, <2>4 DEF SaveTimeout
<1>4. CASE NotifyToplevels \/ NotifyObjects
  BY <1>4 DEF NotifyToplevels, NotifyObjects
<1>5. CASE LayoutStep
  <2>1. ASSUME NEW o \in Objects, NEW t \in Toplevels,
               CreateObject(o, t) \/ ExternalAddObject(o, t)
        PROVE  StoredTypeOK'
    <3>1. /\ layoutObjects' = layoutObjects \cup {o}
          /\ home' = [home EXCEPT ![o] = t]
          /\ UNCHANGED <<layoutToplevels, noReload, pendingToplevels>>
          /\ pendingObjects' \in BOOLEAN
      BY <2>1 DEF CreateObject, ExternalAddObject
    <3>2. edits' \in 0 .. MaxEdits
      BY <2>1 DEF CreateObject, ExternalAddObject
    <3> QED BY <3>1, <3>2
  <2>2. ASSUME NEW o \in Objects, ExternalRemoveObject(o)
        PROVE  StoredTypeOK'
    BY <2>2 DEF ExternalRemoveObject
  <2>3. ASSUME NEW t \in Toplevels, CreateToplevel(t) PROVE StoredTypeOK'
    BY <2>3 DEF CreateToplevel
  <2>4. ASSUME NEW t \in Toplevels, DeleteToplevel(t) PROVE StoredTypeOK'
    BY <2>4 DEF DeleteToplevel
  <2>5. CASE ExternalToplevels
    BY <2>5 DEF ExternalToplevels
  <2> QED BY <1>5, <2>1, <2>2, <2>3, <2>4, <2>5 DEF LayoutStep
<1>6. CASE Restart
  <2>1. edits' \in 0 .. MaxEdits
    BY <1>6 DEF Restart
  <2> QED BY <1>6, <2>1, ReloadStored DEF Restart
<1>7. ASSUME NEW f \in Frames, FrameStep(f) PROVE StoredTypeOK'
  <2>1. CASE FrameActivated(f) \/ FrameFailed(f)
    BY <2>1 DEF FrameActivated, FrameFailed
  <2>2. CASE StaleUse(f)
    BY <2>2, ReloadStored DEF StaleUse
  <2>3. CASE DeleteObject(f) \/ DontReload(f) \/ DeleteFailed(f)
    <3>1. layoutObjects' \subseteq Objects /\ layoutToplevels' = layoutToplevels
          /\ home' \in [Objects -> Toplevels \cup {NoToplevel}]
      BY <2>3 DEF DeleteObject, DontReload, DeleteFailed, RemoveObject
    <3>2. noReload' \in [Objects -> Nat]
      BY <2>3 DEF DeleteObject, DontReload, DeleteFailed
    <3> QED BY <2>3, <3>1, <3>2 DEF DeleteObject, DontReload, DeleteFailed
  <2>4. CASE AppletBroken(f) \/ KeepFailed(f)
    BY <2>4 DEF AppletBroken, KeepFailed
  <2>5. CASE ReloadApplet(f)
    <3>1. noReload' \in [Objects -> Nat]
      BY <2>5 DEF ReloadApplet, LoadHelper
    <3> QED BY <2>5, <3>1 DEF ReloadApplet
  <2>6. ASSUME NEW t \in Toplevels, MoveApplet(f, t) PROVE StoredTypeOK'
    BY <2>6 DEF MoveApplet
  <2> QED BY <1>7, <2>1, <2>2, <2>3, <2>4, <2>5, <2>6 DEF FrameStep
<1> QED BY <1>1, <1>2, <1>3, <1>4, <1>5, <1>6, <1>7 DEF Next

\* Initial states, and those after a restart, satisfy the process's half.
LEMMA ReloadShownInv ==
  ASSUME StoredTypeOK, Reload PROVE ShownInv'
<1>1. FirstQueue \subseteq [id : Objects, on : Toplevels]
  BY DEF StoredTypeOK, FirstQueue
<1>2. FreeSlot \in SlotType
  BY DEF FreeSlot, SlotType, States, Refs
<1>3. Ids(frame', "registered") = {}
  BY DEF Reload, Ids, InState, FreeSlot
<1>4. ShownTypeOK'
  BY <1>1, <1>2 DEF Reload, ShownTypeOK, StoredTypeOK, FirstHidden, OnScreen
<1>5. LoaderProgresses' /\ NoPanelLeftHidden' /\ SavesPending'
  BY DEF Reload, LoaderProgresses, NoPanelLeftHidden, SavesPending, FirstHidden
<1>6. QueuedOnce'
  BY <1>3 DEF Reload, QueuedOnce, QueuedIds, FirstQueue
<1> QED BY <1>4, <1>5, <1>6 DEF ShownInv

LEMMA InitInv == Init => Inv
<1> SUFFICES ASSUME Init PROVE Inv
  OBVIOUS
<1>1. StoredTypeOK
  <2>1. noReload \in [Objects -> Nat] /\ edits \in 0 .. MaxEdits
    <3>1. noReload = [o \in Objects |-> 0] /\ edits = 0
      BY DEF Init
    <3> QED BY <3>1, BoundAssumption
  <2>2. pendingToplevels \in BOOLEAN /\ pendingObjects \in BOOLEAN
    BY DEF Init
  <2>3. /\ layoutToplevels \subseteq Toplevels /\ layoutObjects \subseteq Objects
        /\ home \in [Objects -> Toplevels \cup {NoToplevel}]
    BY DEF Init
  <2> QED BY <2>1, <2>2, <2>3 DEF StoredTypeOK
<1>2. FirstQueue \subseteq [id : Objects, on : Toplevels]
  BY <1>1 DEF StoredTypeOK, FirstQueue
<1>3. FreeSlot \in SlotType
  BY DEF FreeSlot, SlotType, States, Refs
<1>4. Ids(frame, "registered") = {}
  BY DEF Init, Ids, InState, FreeSlot
<1>5. ShownTypeOK
  BY <1>2, <1>3 DEF Init, ShownTypeOK, FirstHidden, OnScreen
<1>6. LoaderProgresses /\ NoPanelLeftHidden /\ SavesPending
  BY DEF Init, LoaderProgresses, NoPanelLeftHidden, SavesPending, FirstHidden
<1>7. QueuedOnce
  BY <1>4 DEF Init, QueuedOnce, QueuedIds, FirstQueue
<1> QED BY <1>1, <1>5, <1>6, <1>7 DEF Inv, ShownInv

\* Taking an object off the loader's lists preserves the invariant when the
\* frames change so that its id loses at most its own activation and no
\* other id becomes registered.
LEMMA StopLoadingShownInv ==
  ASSUME Inv, NEW o, NEW q \in SUBSET toLoad, NEW l \in SUBSET Objects,
         StopLoading(o, q, l),
         l \subseteq loading \cup {o}, loading \subseteq l,
         frame' \in [Frames -> SlotType],
         Ids(frame, "activating") \subseteq Ids(frame', "activating") \cup {o},
         Ids(frame', "registered") \subseteq Ids(frame, "registered") \cup {o},
         \A f \in saveQueue' : frame'[f].st = "registered" /\ frame'[f].on \in panels,
         saveQueue' \subseteq saveQueue,
         UNCHANGED <<panels, haveIdle, saveTimer>>
  PROVE  ShownInv'
<1>1. /\ toLoad' = {e \in q : e.id # o}
      /\ loading' = l \ {o}
      /\ unhideTimer' \in BOOLEAN /\ hidden' \subseteq panels'
      /\ NoPanelLeftHidden'
  BY StopLoadingEffect DEF Inv, ShownInv
<1>2. ShownTypeOK'
  BY <1>1 DEF Inv, ShownInv, ShownTypeOK
<1>3. LoaderProgresses'
  <2>1. toLoad' # {} => haveIdle'
    BY <1>1 DEF Inv, ShownInv, LoaderProgresses
  <2>2. loading' \subseteq Ids(frame', "activating")
    BY <1>1 DEF Inv, ShownInv, LoaderProgresses
  <2> QED BY <2>1, <2>2 DEF LoaderProgresses
<1>4. QueuedOnce'
  <2>1. QueuedIds' \subseteq QueuedIds \ {o}
    BY <1>1 DEF QueuedIds
  <2>2. QueuedIds \cap Ids(frame, "registered") = {}
    BY DEF Inv, ShownInv, QueuedOnce
  <2>3. QueuedIds' \cap Ids(frame', "registered") = {}
    BY <2>1, <2>2
  <2>4. \A d, e \in toLoad' : d.id = e.id => d = e
    BY <1>1 DEF Inv, ShownInv, QueuedOnce
  <2>5. \A e \in toLoad' : e.id \notin loading'
    BY <1>1 DEF Inv, ShownInv, QueuedOnce
  <2> QED BY <2>3, <2>4, <2>5 DEF QueuedOnce
<1>5. SavesPending'
  BY DEF Inv, ShownInv, SavesPending
<1> QED BY <1>1, <1>2, <1>3, <1>4, <1>5 DEF ShownInv

\* The ids of slots when one of them changes.
LEMMA OneSlot ==
  ASSUME NEW f \in Frames, frame \in [Frames -> SlotType],
         NEW s \in SlotType, frame' = [frame EXCEPT ![f] = s]
  PROVE  /\ frame' \in [Frames -> SlotType]
         /\ \A g \in Frames : g # f => frame'[g] = frame[g]
         /\ frame'[f] = s
         /\ Ids(frame', "registered") \subseteq
              Ids(frame, "registered") \cup (IF s.st = "registered" THEN {s.id} ELSE {})
         /\ Ids(frame, "activating") \subseteq
              Ids(frame', "activating") \cup
                (IF frame[f].st = "activating" THEN {frame[f].id} ELSE {})
         /\ s.st = "activating" => s.id \in Ids(frame', "activating")
<1>1. /\ frame' \in [Frames -> SlotType] /\ frame'[f] = s
      /\ \A g \in Frames : g # f => frame'[g] = frame[g]
  OBVIOUS
<1> QED BY <1>1 DEF Ids, InState

\* Loading one object.
LEMMA IdleLoadShownInv ==
  ASSUME Inv, NEW e \in toLoad, IdleLoad(e)
  PROVE  ShownInv'
<1> DEFINE o == e.id
           q == toLoad \ {e}
           l == loading \cup {o}
<1>1. /\ haveIdle /\ e.on \in panels
      /\ UNCHANGED <<panels, haveIdle, saveQueue, saveTimer>>
  BY DEF IdleLoad, saveVars
<1>2. /\ FreshSlot \in Frames /\ frame[FreshSlot].st = "free"
      /\ frame \in [Frames -> SlotType]
  BY FreshSlotIsFree DEF IdleLoad, Inv, ShownInv, ShownTypeOK
<1>3. /\ o \in Objects /\ e.on \in Toplevels /\ q \in SUBSET toLoad
      /\ l \in SUBSET Objects /\ l \subseteq loading \cup {o} /\ loading \subseteq l
  BY DEF Inv, ShownInv, ShownTypeOK
<1>4. \A f \in saveQueue : /\ f \in Frames /\ f # FreshSlot
                           /\ frame[f].st = "registered" /\ frame[f].on \in panels
  BY <1>2 DEF Inv, ShownInv, ShownTypeOK, SavesPending
<1>5. \A f \in saveQueue, s \in SlotType : 
        frame' = [frame EXCEPT ![FreshSlot] = s] =>
          frame'[f].st = "registered" /\ frame'[f].on \in panels
  BY <1>2, <1>4
<1>6. CASE StopLoading(o, q, l) /\ UNCHANGED frame
  BY <1>1, <1>2, <1>3, <1>4, <1>6, StopLoadingShownInv
<1>7. CASE /\ frame' = [frame EXCEPT
                ![FreshSlot] = Slot("registered", o, e.on, NoToplevel)]
           /\ StopLoading(o, q, l)
  <2>1. Slot("registered", o, e.on, NoToplevel) \in SlotType
        /\ Slot("registered", o, e.on, NoToplevel).id = o
    BY <1>3 DEF Slot, SlotType, States, Refs
  <2>2. /\ frame' \in [Frames -> SlotType]
        /\ Ids(frame', "registered") \subseteq Ids(frame, "registered") \cup {o}
        /\ Ids(frame, "activating") \subseteq Ids(frame', "activating") \cup {o}
    BY <1>2, <1>7, <2>1, OneSlot
  <2> QED BY <1>1, <1>3, <1>5, <1>7, <2>1, <2>2, StopLoadingShownInv
<1>8. CASE /\ frame' = [frame EXCEPT
                ![FreshSlot] = Slot("failed", o, e.on, e.on)]
           /\ StopLoading(o, q, l)
  <2>1. Slot("failed", o, e.on, e.on) \in SlotType
        /\ Slot("failed", o, e.on, e.on).st = "failed"
    BY <1>3 DEF Slot, SlotType, States, Refs
  <2>2. /\ frame' \in [Frames -> SlotType]
        /\ Ids(frame', "registered") \subseteq Ids(frame, "registered")
        /\ Ids(frame, "activating") \subseteq Ids(frame', "activating")
    BY <1>2, <1>8, <2>1, OneSlot
  <2> QED BY <1>1, <1>3, <1>5, <1>8, <2>1, <2>2, StopLoadingShownInv
<1>9. CASE /\ frame' = [frame EXCEPT
                ![FreshSlot] = Slot("activating", o, e.on, NoToplevel)]
           /\ toLoad' = q /\ loading' = l
           /\ UNCHANGED <<hidden, unhideTimer>>
  <2>1. /\ Slot("activating", o, e.on, NoToplevel) \in SlotType
        /\ Slot("activating", o, e.on, NoToplevel).st = "activating"
        /\ Slot("activating", o, e.on, NoToplevel).id = o
    BY <1>3 DEF Slot, SlotType, States, Refs
  <2>2. /\ frame' \in [Frames -> SlotType]
        /\ Ids(frame', "registered") \subseteq Ids(frame, "registered")
        /\ Ids(frame, "activating") \subseteq Ids(frame', "activating")
        /\ o \in Ids(frame', "activating")
    BY <1>2, <1>9, <2>1, OneSlot
  <2>3. ShownTypeOK'
    BY <1>1, <1>3, <1>9, <2>2 DEF Inv, ShownInv, ShownTypeOK
  <2>4. LoaderProgresses'
    BY <1>1, <1>9, <2>2 DEF Inv, ShownInv, LoaderProgresses
  <2>5. NoPanelLeftHidden'
    BY <1>9 DEF Inv, ShownInv, NoPanelLeftHidden
  <2>6. QueuedOnce'
    <3>1. QueuedIds' = QueuedIds
      BY <1>9 DEF QueuedIds
    <3>2. QueuedIds' \cap Ids(frame', "registered") = {}
      BY <3>1, <2>2 DEF Inv, ShownInv, QueuedOnce
    <3>3. \A c \in toLoad' : c.id \notin loading'
      BY <1>9 DEF Inv, ShownInv, QueuedOnce
    <3>4. \A c, d \in toLoad' : c.id = d.id => c = d
      BY <1>9 DEF Inv, ShownInv, QueuedOnce
    <3> QED BY <3>2, <3>3, <3>4 DEF QueuedOnce
  <2>7. SavesPending'
    BY <1>1, <1>5, <1>9, <2>1 DEF Inv, ShownInv, SavesPending
  <2> QED BY <2>3, <2>4, <2>5, <2>6, <2>7 DEF ShownInv
<1> QED BY <1>6, <1>7, <1>8, <1>9 DEF IdleLoad, LoadHelper

\* The steps that leave frames, panels and saves alone.
LEMMA LoaderOnlyShownInv ==
  ASSUME Inv, UNCHANGED <<panels, frame, saveQueue, saveTimer>>,
         toLoad' \subseteq toLoad, loading' = loading,
         hidden' \subseteq panels, NoPanelLeftHidden',
         toLoad' # {} => haveIdle',
         haveIdle' \in BOOLEAN, unhideTimer' \in BOOLEAN
  PROVE  ShownInv'
<1>1. ShownTypeOK'
  BY DEF Inv, ShownInv, ShownTypeOK
<1>2. LoaderProgresses'
  BY DEF Inv, ShownInv, LoaderProgresses
<1>3. QueuedOnce'
  BY DEF Inv, ShownInv, QueuedOnce, QueuedIds
<1>4. SavesPending'
  BY DEF Inv, ShownInv, SavesPending
<1> QED BY <1>1, <1>2, <1>3, <1>4 DEF ShownInv

\* The steps that change the slot f alone, from and to a state that is
\* neither activating nor newly registered.
LEMMA OneSlotShownInv ==
  ASSUME Inv, NEW f \in Frames, NEW s \in SlotType,
         frame' = [frame EXCEPT ![f] = s],
         UNCHANGED <<panels, toLoad, loading, haveIdle, unhideTimer, hidden>>,
         frame[f].st # "activating",
         s.st = "registered" =>
           frame[f].st = "registered" /\ s.id = frame[f].id,
         saveQueue' \in SUBSET Frames, saveTimer' \in BOOLEAN,
         SavesPending'
  PROVE  ShownInv'
<1>1. /\ frame' \in [Frames -> SlotType]
      /\ frame \in [Frames -> SlotType]
      /\ Ids(frame, "activating") \subseteq Ids(frame', "activating")
  BY OneSlot DEF Inv, ShownInv, ShownTypeOK
<1>2. Ids(frame', "registered") \subseteq Ids(frame, "registered")
  <2>1. Ids(frame', "registered") \subseteq Ids(frame, "registered")
          \cup (IF s.st = "registered" THEN {s.id} ELSE {})
    BY <1>1, OneSlot
  <2>2. s.st = "registered" => s.id \in Ids(frame, "registered")
    BY DEF Ids, InState
  <2> QED BY <2>1, <2>2
<1>3. ShownTypeOK'
  BY <1>1 DEF Inv, ShownInv, ShownTypeOK
<1>4. LoaderProgresses' /\ NoPanelLeftHidden'
  BY <1>1 DEF Inv, ShownInv, LoaderProgresses, NoPanelLeftHidden
<1>5. QueuedOnce'
  BY <1>2 DEF Inv, ShownInv, QueuedOnce, QueuedIds
<1> QED BY <1>3, <1>4, <1>5 DEF ShownInv

\* The answers of activations, and what the dialogs and menus of one widget do.
LEMMA FrameStepShownInv ==
  ASSUME Inv, NEW f \in Frames, FrameStep(f)
  PROVE  ShownInv'
<1>1. /\ frame \in [Frames -> SlotType] /\ frame[f] \in SlotType
      /\ saveQueue \subseteq Frames /\ panels \subseteq Toplevels
      /\ loading \subseteq Objects
  BY DEF Inv, ShownInv, ShownTypeOK
<1>2. \A g \in saveQueue : frame[g].st = "registered" /\ frame[g].on \in panels
  BY DEF Inv, ShownInv, SavesPending
<1>3. FreeSlot \in SlotType /\ FreeSlot.st = "free"
  BY DEF FreeSlot, SlotType, States, Refs
<1>4. CASE FrameActivated(f)
  <2> DEFINE s == [frame[f] EXCEPT !.st = "registered"]
  <2>1. /\ s \in SlotType /\ s.st = "registered" /\ s.id = frame[f].id
        /\ frame[f].st = "activating"
        /\ frame' = [frame EXCEPT ![f] = s]
    BY <1>1, <1>4 DEF FrameActivated, SlotType, States
  <2>2. /\ frame' \in [Frames -> SlotType]
        /\ Ids(frame', "registered") \subseteq Ids(frame, "registered") \cup {s.id}
        /\ Ids(frame, "activating") \subseteq Ids(frame', "activating") \cup {s.id}
    BY <1>1, <2>1, OneSlot
  <2>3. \A g \in saveQueue : frame'[g].st = "registered" /\ frame'[g].on \in panels
    BY <1>1, <1>2, <2>1
  <2>4. /\ StopLoading(s.id, toLoad, loading)
        /\ UNCHANGED <<panels, haveIdle, saveQueue, saveTimer>>
    BY <1>4, <2>1 DEF FrameActivated, saveVars
  <2> QED BY <1>1, <2>2, <2>3, <2>4, StopLoadingShownInv
<1>5. CASE FrameFailed(f)
  <2> DEFINE s == [frame[f] EXCEPT !.st = "failed", !.dialog = frame[f].on]
  <2>1. /\ s \in SlotType /\ s.st = "failed"
        /\ frame[f].st = "activating"
        /\ frame' = [frame EXCEPT ![f] = s]
    BY <1>1, <1>5 DEF FrameFailed, SlotType, States
  <2>2. /\ frame' \in [Frames -> SlotType]
        /\ Ids(frame', "registered") \subseteq Ids(frame, "registered")
        /\ Ids(frame, "activating") \subseteq
             Ids(frame', "activating") \cup {frame[f].id}
    BY <1>1, <2>1, OneSlot
  <2>3. \A g \in saveQueue : frame'[g].st = "registered" /\ frame'[g].on \in panels
    BY <1>1, <1>2, <2>1
  <2>4. /\ StopLoading(frame[f].id, toLoad, loading)
        /\ UNCHANGED <<panels, haveIdle, saveQueue, saveTimer>>
    BY <1>5 DEF FrameFailed, saveVars
  <2> QED BY <1>1, <2>2, <2>3, <2>4, StopLoadingShownInv
<1>6. CASE StaleUse(f)
  BY <1>6, ReloadShownInv DEF StaleUse, Inv
<1>7. CASE DeleteObject(f)
  BY <1>1, <1>2, <1>7, RemoveObjectShownInv DEF DeleteObject
<1>8. CASE AppletBroken(f)
  <2> DEFINE s == [frame[f] EXCEPT !.dialog = frame[f].on]
  <2>1. /\ s \in SlotType /\ s.st = "registered" /\ s.id = frame[f].id
        /\ s.on = frame[f].on
        /\ frame[f].st = "registered"
        /\ frame' = [frame EXCEPT ![f] = s]
        /\ UNCHANGED <<panels, toLoad, loading, haveIdle, unhideTimer, hidden,
                       saveQueue, saveTimer>>
    BY <1>1, <1>8 DEF AppletBroken, SlotType, saveVars, loaderVars
  <2>2. SavesPending'
    BY <1>1, <1>2, <2>1 DEF Inv, ShownInv, SavesPending
  <2>3. saveQueue' \in SUBSET Frames /\ saveTimer' \in BOOLEAN
    BY <2>1 DEF Inv, ShownInv, ShownTypeOK
  <2> QED BY <2>1, <2>2, <2>3, OneSlotShownInv
<1>9. CASE ReloadApplet(f)
  <2> DEFINE o == frame[f].id
  <2>1. /\ frame[f].st = "registered" /\ frame[f].on \in Refs
        /\ saveQueue' = saveQueue \ {f}
        /\ UNCHANGED <<panels, haveIdle, saveTimer>>
    BY <1>1, <1>9 DEF ReloadApplet, SlotType
  <2>2. \A s \in SlotType : frame' = [frame EXCEPT ![f] = s] =>
          \A g \in saveQueue' : frame'[g].st = "registered" /\ frame'[g].on \in panels
    BY <1>1, <1>2, <2>1
  <2>3. ASSUME NEW s \in SlotType, s.st \in {"free", "failed"},
               frame' = [frame EXCEPT ![f] = s], StopLoading(o, toLoad, loading)
        PROVE  ShownInv'
    <3>1. /\ frame' \in [Frames -> SlotType]
          /\ Ids(frame', "registered") \subseteq Ids(frame, "registered")
          /\ Ids(frame, "activating") \subseteq Ids(frame', "activating")
      BY <1>1, <2>1, <2>3, OneSlot
    <3> QED BY <1>1, <2>1, <2>2, <2>3, <3>1, StopLoadingShownInv
  <2>4. ASSUME NEW s \in SlotType, s.st = "activating",
               frame' = [frame EXCEPT ![f] = s],
               toLoad' = toLoad, loading' = loading,
               UNCHANGED <<hidden, unhideTimer>>
        PROVE  ShownInv'
    <3>1. SavesPending'
      BY <2>1, <2>2, <2>4 DEF Inv, ShownInv, SavesPending
    <3>2. saveQueue' \in SUBSET Frames /\ saveTimer' \in BOOLEAN
      BY <1>1, <2>1 DEF Inv, ShownInv, ShownTypeOK
    <3> QED BY <2>1, <2>4, <3>1, <3>2, OneSlotShownInv
  <2>5. /\ Slot("activating", o, frame[f].on, NoToplevel) \in SlotType
        /\ Slot("activating", o, frame[f].on, NoToplevel).st = "activating"
        /\ Slot("failed", o, frame[f].on, frame[f].on) \in SlotType
        /\ Slot("failed", o, frame[f].on, frame[f].on).st = "failed"
    BY <1>1 DEF Slot, SlotType, States, Refs
  <2> QED BY <1>3, <1>9, <2>3, <2>4, <2>5 DEF ReloadApplet, LoadHelper
<1>10. CASE DontReload(f)
  <2> DEFINE s == [frame[f] EXCEPT !.dialog = Gone]
             fr == [frame EXCEPT ![f] = s]
  <2>1. /\ s \in SlotType /\ s.st = "registered" /\ s.id = frame[f].id
        /\ s.on = frame[f].on /\ frame[f].st = "registered"
    BY <1>1, <1>10 DEF DontReload, SlotType, Refs
  <2>2. /\ fr \in [Frames -> SlotType]
        /\ Ids(frame, "activating") \subseteq Ids(fr, "activating")
        /\ Ids(fr, "registered") \subseteq Ids(frame, "registered")
        /\ \A g \in saveQueue : fr[g].st = "registered" /\ fr[g].on \in panels
    BY <1>1, <1>2, <2>1 DEF Ids, InState
  <2>3. /\ RemoveObject(frame[f].id, fr)
        /\ panels' = panels /\ saveTimer' = saveTimer
    BY <1>10 DEF DontReload
  <2> QED BY <2>2, <2>3, RemoveObjectShownInv
<1>11. CASE KeepFailed(f)
  <2>1. /\ frame[f].st = "failed"
        /\ frame' = [frame EXCEPT ![f] = FreeSlot]
        /\ UNCHANGED <<panels, toLoad, loading, haveIdle, unhideTimer, hidden,
                       saveQueue, saveTimer>>
    BY <1>11 DEF KeepFailed, saveVars, loaderVars
  <2>2. SavesPending'
    BY <1>1, <1>2, <2>1 DEF Inv, ShownInv, SavesPending
  <2>3. saveQueue' \in SUBSET Frames /\ saveTimer' \in BOOLEAN
    BY <2>1 DEF Inv, ShownInv, ShownTypeOK
  <2> QED BY <1>3, <2>1, <2>2, <2>3, OneSlotShownInv
<1>12. CASE DeleteFailed(f)
  <2> DEFINE fr == [frame EXCEPT ![f] = FreeSlot]
  <2>1. /\ frame[f].st = "failed"
        /\ RemoveObject(frame[f].id, fr)
        /\ panels' = panels /\ saveTimer' = saveTimer
    BY <1>12 DEF DeleteFailed
  <2>2. /\ fr \in [Frames -> SlotType]
        /\ Ids(frame, "activating") \subseteq Ids(fr, "activating")
        /\ Ids(fr, "registered") \subseteq Ids(frame, "registered")
        /\ \A g \in saveQueue : fr[g].st = "registered" /\ fr[g].on \in panels
    BY <1>1, <1>2, <1>3, <2>1 DEF Ids, InState
  <2> QED BY <2>1, <2>2, RemoveObjectShownInv
<1>13. ASSUME NEW t \in Toplevels, MoveApplet(f, t) PROVE ShownInv'
  <2> DEFINE s == [frame[f] EXCEPT !.on = t]
  <2>1. /\ s \in SlotType /\ s.st = "registered" /\ s.id = frame[f].id
        /\ s.on \in panels /\ frame[f].st = "registered"
        /\ frame' = [frame EXCEPT ![f] = s]
        /\ saveQueue' = saveQueue \cup {f} /\ saveTimer' = TRUE
        /\ UNCHANGED <<panels, toLoad, loading, haveIdle, unhideTimer, hidden>>
    BY <1>1, <1>13 DEF MoveApplet, SlotType, Refs, loaderVars
  <2>2. SavesPending'
    BY <1>1, <1>2, <2>1 DEF SavesPending
  <2>3. saveQueue' \in SUBSET Frames /\ saveTimer' \in BOOLEAN
    BY <1>1, <2>1
  <2> QED BY <2>1, <2>2, <2>3, OneSlotShownInv
<1> QED BY <1>4, <1>5, <1>6, <1>7, <1>8, <1>9, <1>10, <1>11, <1>12, <1>13
        DEF FrameStep

-----------------------------------------------------------------------------
\* Every step preserves the process's half of the invariant.
LEMMA ShownStep ==
  ASSUME Inv, Next PROVE ShownInv'
<1>1. CASE IdleHandler
  <2>1. CASE IdleNothing
    <3>1. /\ toLoad = {} /\ haveIdle' = FALSE
          /\ UNCHANGED <<panels, frame, saveQueue, saveTimer, toLoad, loading,
                         hidden, unhideTimer>>
      BY <2>1 DEF IdleNothing, saveVars
    <3>2. hidden' \subseteq panels /\ NoPanelLeftHidden' /\ unhideTimer' \in BOOLEAN
      BY <3>1 DEF Inv, ShownInv, ShownTypeOK, NoPanelLeftHidden
    <3> QED BY <3>1, <3>2, LoaderOnlyShownInv
  <2>2. CASE IdleDrop
    <3>1. /\ toLoad' = {} /\ haveIdle' = FALSE
          /\ UNCHANGED <<panels, frame, saveQueue, saveTimer, loading>>
      BY <2>2 DEF IdleDrop, saveVars
    <3>2. hidden' \subseteq panels /\ NoPanelLeftHidden' /\ unhideTimer' \in BOOLEAN
      BY <2>2 DEF IdleDrop, UnhideIfLoaded, UnhideAll, Inv, ShownInv, ShownTypeOK,
                  NoPanelLeftHidden
    <3> QED BY <3>1, <3>2, LoaderOnlyShownInv
  <2> QED BY <1>1, <2>1, <2>2, IdleLoadShownInv DEF IdleHandler
<1>2. CASE UnhideTimeout
  <2>1. /\ hidden' = {} /\ unhideTimer' = FALSE
        /\ UNCHANGED <<panels, frame, saveQueue, saveTimer, toLoad, loading,
                       haveIdle>>
    BY <1>2 DEF UnhideTimeout, UnhideAll, saveVars
  <2>2. /\ NoPanelLeftHidden' /\ haveIdle' \in BOOLEAN
        /\ toLoad' # {} => haveIdle'
    BY <2>1 DEF NoPanelLeftHidden, Inv, ShownInv, ShownTypeOK, LoaderProgresses
  <2> QED BY <2>1, <2>2, LoaderOnlyShownInv
<1>3. CASE SaveTimeout
  <2>1. /\ saveQueue' = {} /\ saveTimer' = FALSE
        /\ UNCHANGED <<panels, toLoad, loading, haveIdle, unhideTimer, hidden,
                       frame>>
    BY <1>3 DEF SaveTimeout, loaderVars
  <2>2. ShownTypeOK' /\ LoaderProgresses' /\ NoPanelLeftHidden'
    BY <2>1 DEF Inv, ShownInv, ShownTypeOK, LoaderProgresses, NoPanelLeftHidden
  <2>3. QueuedOnce' /\ SavesPending'
    BY <2>1 DEF Inv, ShownInv, QueuedOnce, QueuedIds, SavesPending
  <2> QED BY <2>2, <2>3 DEF ShownInv
<1>4. CASE NotifyToplevels
  BY <1>4, ChangedToplevelShownInv DEF NotifyToplevels, Inv, StoredTypeOK
<1>5. ASSUME NEW objs \in SUBSET Objects,
             NEW homes \in [Objects -> Toplevels \cup {NoToplevel}],
             ChangedObject(objs, homes, frame), UNCHANGED <<panels, saveTimer>>
      PROVE  ShownInv'
  <2>1. /\ frame \in [Frames -> SlotType] /\ hidden \in SUBSET panels'
        /\ panels' \subseteq Toplevels
        /\ QueuedIds \cap Ids(frame, "registered") = {}
        /\ \A f \in saveQueue : frame[f].st = "registered" /\ frame[f].on \in panels'
    BY <1>5 DEF Inv, ShownInv, ShownTypeOK, QueuedOnce, SavesPending
  <2>2. ChangedObjects(objs, objs, homes, frame, saveQueue, hidden)
    BY <1>5 DEF ChangedObject
  <2> QED BY <1>5, <2>1, <2>2, ChangedObjectsShownInv DEF Inv
<1>6. CASE NotifyObjects
  BY <1>5, <1>6 DEF NotifyObjects, Inv, StoredTypeOK
<1>7. CASE LayoutStep
  <2>1. ASSUME NEW o \in Objects, NEW t \in Toplevels, CreateObject(o, t)
        PROVE  ShownInv'
    <3>1. /\ layoutObjects' \in SUBSET Objects
          /\ home' \in [Objects -> Toplevels \cup {NoToplevel}]
      BY <2>1, StoredStep, <1>7 DEF StoredTypeOK, Next
    <3> QED BY <1>5, <2>1, <3>1 DEF CreateObject
  <2>2. ASSUME NEW t \in Toplevels, CreateToplevel(t) PROVE ShownInv'
    BY <2>2, ChangedToplevelShownInv DEF CreateToplevel, Inv, StoredTypeOK
  <2>3. ASSUME NEW t \in Toplevels, DeleteToplevel(t) PROVE ShownInv'
    <3> DEFINE tops == layoutToplevels \ {t}
               there == OnScreen(tops)
               doomed == {o \in layoutObjects : home[o] = t}
    <3>1. /\ tops \in SUBSET Toplevels /\ there \in SUBSET Toplevels
          /\ saveTimer' = saveTimer
      BY <2>3 DEF DeleteToplevel, Inv, StoredTypeOK, OnScreen
    <3>2. CASE ChangedToplevel(tops)
      BY <3>1, <3>2, ChangedToplevelShownInv
    <3>3. ASSUME NEW first \in doomed, panels' = there,
                 ChangedObjects(layoutObjects \ doomed,
                                IF tops \subseteq panels
                                  THEN layoutObjects \ {first}
                                  ELSE layoutObjects,
                                home, FramesOn(there), SavesOn(there),
                                HiddenOn(there))
          PROVE  ShownInv'
      <4>1. /\ (IF tops \subseteq panels THEN layoutObjects \ {first}
                                         ELSE layoutObjects) \in SUBSET Objects
            /\ home \in [Objects -> Toplevels \cup {NoToplevel}]
        BY DEF Inv, StoredTypeOK
      <4>2. /\ FramesOn(there) \in [Frames -> SlotType]
            /\ HiddenOn(there) \in SUBSET there
            /\ Ids(frame, "activating") \subseteq Ids(FramesOn(there), "activating")
            /\ QueuedIds \cap Ids(FramesOn(there), "registered") = {}
            /\ SavesOn(there) \subseteq saveQueue
            /\ \A f \in SavesOn(there) : /\ FramesOn(there)[f].st = "registered"
                                          /\ FramesOn(there)[f].on \in there
        BY <3>1, OnTops DEF Inv
      <4> QED BY <3>1, <3>3, <4>1, <4>2, ChangedObjectsShownInv DEF Inv
    <3> QED BY <2>3, <3>2, <3>3 DEF DeleteToplevel
  <2>4. CASE /\ UNCHANGED <<panels, loaderVars, frame, saveVars>>
    <3>1. UNCHANGED <<panels, toLoad, loading, haveIdle, unhideTimer, hidden,
                      frame, saveQueue, saveTimer>>
      BY <2>4 DEF loaderVars, saveVars
    <3> QED BY <3>1 DEF Inv, ShownInv, ShownTypeOK, LoaderProgresses,
                        NoPanelLeftHidden, QueuedOnce, QueuedIds, SavesPending
  <2> QED BY <1>7, <2>1, <2>2, <2>3, <2>4
          DEF LayoutStep, ExternalAddObject, ExternalRemoveObject,
              ExternalToplevels
<1>8. CASE Restart
  BY <1>8, ReloadShownInv DEF Restart, Inv
<1> QED BY <1>1, <1>2, <1>3, <1>4, <1>6, <1>7, <1>8, FrameStepShownInv DEF Next

\* The invariant holds in every reachable state.
THEOREM Invariance == Spec => []Inv
<1>1. Init => Inv
  BY InitInv
<1>2. Inv /\ [Next]_vars => Inv'
  <2>1. ASSUME Inv, Next PROVE Inv'
    BY <2>1, StoredStep, ShownStep DEF Inv
  <2>2. ASSUME Inv, UNCHANGED vars PROVE Inv'
    <3>1. UNCHANGED <<layoutToplevels, layoutObjects, home, pendingToplevels,
                      pendingObjects, panels, toLoad, loading, haveIdle,
                      unhideTimer, hidden, frame, noReload, saveQueue,
                      saveTimer, edits>>
      BY <2>2 DEF vars, layoutVars, pendingVars, loaderVars, saveVars
    <3>2. StoredTypeOK'
      BY <2>2, <3>1 DEF Inv, StoredTypeOK
    <3>3. ShownTypeOK' /\ LoaderProgresses' /\ NoPanelLeftHidden'
      BY <2>2, <3>1 DEF Inv, ShownInv, ShownTypeOK, LoaderProgresses,
                        NoPanelLeftHidden
    <3>4. QueuedOnce' /\ SavesPending'
      BY <2>2, <3>1 DEF Inv, ShownInv, QueuedOnce, QueuedIds, SavesPending
    <3> QED BY <3>2, <3>3, <3>4 DEF Inv, ShownInv
  <2> QED BY <2>1, <2>2
<1> QED BY <1>1, <1>2, PTL DEF Spec

-----------------------------------------------------------------------------
\* Type correctness.
THEOREM TypeCorrect == Spec => []TypeOK
BY Invariance, PTL DEF Inv, ShownInv, TypeOK

\* The loader is never stuck: what is queued has an idle handler, what counts
\* as loading has a frame whose answer ends that.
THEOREM LoaderNeverStuck == Spec => []LoaderProgresses
BY Invariance, PTL DEF Inv, ShownInv

\* While a panel is hidden because its objects load, the timer that unhides it
\* is running.
THEOREM HiddenHasTimer == Spec => []NoPanelLeftHidden
BY Invariance, PTL DEF Inv, ShownInv

\* No object is queued twice, or queued while it is shown.
THEOREM NeverQueuedTwice == Spec => []QueuedOnce
BY Invariance, PTL DEF Inv, ShownInv

\* The save timeout only ever reads widgets that exist, on panels that exist.
THEOREM SavesOfLiveWidgets == Spec => []SavesPending
BY Invariance, PTL DEF Inv, ShownInv

-----------------------------------------------------------------------------
(***************************************************************************)
(* What happens to the widget of a loaded object.                          *)
(***************************************************************************)

\* A reaction to a changed list destroys only widgets of ids it does not keep.
LEMMA ChangedObjectsKeeps ==
  ASSUME NEW keep, NEW cand, NEW homes, NEW fr, NEW sq, NEW hid,
         ChangedObjects(keep, cand, homes, fr, sq, hid),
         NEW f \in InState(fr, "registered")
  PROVE  frame'[f].st = "registered" \/ fr[f].id \notin keep
<1> DEFINE clean == {g \in InState(fr, "registered") : fr[g].id \notin keep}
<1>1. frame' = DestroyFrames(fr, clean)
  BY DEF ChangedObjects
<1>2. f \in Frames /\ fr[f].st = "registered"
  BY DEF InState
<1>3. CASE f \notin clean
  <2>1. frame'[f] = fr[f]
    BY <1>1, <1>2, <1>3 DEF DestroyFrames
  <2> QED BY <1>2, <2>1
<1> QED BY <1>3

\* So does panel_layout_delete_object: the ids it keeps are the new layout's.
LEMMA RemoveObjectKeeps ==
  ASSUME NEW o, NEW fr, RemoveObject(o, fr),
         NEW f \in InState(fr, "registered")
  PROVE  frame'[f].st = "registered" \/ fr[f].id \notin layoutObjects'
<1>1. CASE ChangedObject(layoutObjects', home, fr)
  BY <1>1, ChangedObjectsKeeps DEF ChangedObject
<1>2. CASE frame' = fr
  BY <1>2 DEF InState
<1> QED BY <1>1, <1>2 DEF RemoveObject

\* A change to the panels tops leaves the widgets on those alone.
LEMMA OnTopsKeeps ==
  ASSUME ShownTypeOK, NEW tops, NEW f \in InState(frame, "registered"),
         frame[f].on \in tops
  PROVE  f \in InState(FramesOn(tops), "registered")
         /\ FramesOn(tops)[f].id = frame[f].id
<1>1. /\ panels \ tops \in SUBSET Toplevels
      /\ f \in Frames /\ frame[f] \in SlotType /\ frame[f].st = "registered"
      /\ frame[f].on \notin panels \ tops
  BY DEF ShownTypeOK, InState
<1>2. FramesOn(tops)[f] = AfterPanels(frame[f], panels \ tops)
  BY <1>1 DEF FramesOn, DestroyPanels
<1>3. FramesOn(tops)[f].st = "registered"
  BY <1>1, <1>2, AfterPanelsSlot
<1>4. FramesOn(tops)[f].id = frame[f].id
  BY <1>1, <1>2, <1>3, AfterPanelsSlot
<1> QED BY <1>1, <1>3, <1>4 DEF InState

\* panel_layout_changed_toplevel destroys the widgets of the panels it
\* destroys, and of ids that are not in the layout.
LEMMA ChangedToplevelKeeps ==
  ASSUME ShownTypeOK, NEW stored, ChangedToplevel(stored),
         NEW f \in InState(frame, "registered")
  PROVE  \/ frame'[f].st = "registered"
         \/ frame[f].on \notin panels'
         \/ frame[f].id \notin layoutObjects
<1> DEFINE tops == OnScreen(stored)
<1> SUFFICES ASSUME frame[f].on \in tops
             PROVE  frame'[f].st = "registered"
                    \/ frame[f].id \notin layoutObjects
  BY DEF ChangedToplevel
<1>1. f \in InState(FramesOn(tops), "registered")
      /\ FramesOn(tops)[f].id = frame[f].id
  BY OnTopsKeeps
<1>2. CASE stored \subseteq panels
  BY <1>1, <1>2 DEF ChangedToplevel, InState
<1>3. CASE ~(stored \subseteq panels)
  <2>1. ChangedObjects(layoutObjects, layoutObjects, home,
                       FramesOn(tops), SavesOn(tops), HiddenOn(tops))
    BY <1>3 DEF ChangedToplevel
  <2> QED BY <1>1, <2>1, ChangedObjectsKeeps
<1> QED BY <1>2, <1>3

\* What a step may do to the widget of a loaded object.
Keeps(f) ==
  \/ frame'[f].st = "registered"
  \/ frame[f].on \notin panels'
  \/ frame[f].id \notin layoutObjects'
  \/ frame[f].dialog \in Toplevels
  \/ Reload

\* The loader takes a free slot for every new widget.
LEMMA IdleLoadKeeps ==
  ASSUME ShownTypeOK, NEW e \in toLoad, IdleLoad(e),
         NEW f \in InState(frame, "registered")
  PROVE  frame'[f].st = "registered"
<1>1. FreshSlot \in Frames /\ frame[FreshSlot].st = "free"
  BY FreshSlotIsFree DEF IdleLoad
<1>2. f \in Frames /\ frame[f].st = "registered" /\ f # FreshSlot
  BY <1>1 DEF InState
<1>3. frame' = frame \/ \E s : frame' = [frame EXCEPT ![FreshSlot] = s]
  BY DEF IdleLoad, LoadHelper
<1> QED BY <1>2, <1>3 DEF ShownTypeOK

\* What is done to one widget leaves the others, unless they left the layout.
LEMMA FrameStepKeeps ==
  ASSUME ShownTypeOK, NEW g \in Frames, FrameStep(g),
         NEW f \in InState(frame, "registered")
  PROVE  Keeps(f)
<1>1. /\ frame \in [Frames -> SlotType] /\ f \in Frames
      /\ frame[f] \in SlotType /\ frame[g] \in SlotType
      /\ frame[f].st = "registered"
  BY DEF ShownTypeOK, InState
<1>2. ASSUME NEW s, frame' = [frame EXCEPT ![g] = s],
             \/ frame[g].st # "registered"
             \/ s.st = "registered"
             \/ frame[g].dialog \in Toplevels
      PROVE  Keeps(f)
  BY <1>1, <1>2 DEF Keeps
<1>3. ASSUME NEW s, RemoveObject(frame[g].id, [frame EXCEPT ![g] = s]),
             frame[g].st # "registered" \/ frame[g].dialog \in Toplevels
      PROVE  Keeps(f)
  <2> DEFINE fr == [frame EXCEPT ![g] = s]
  <2>1. CASE f = g
    BY <1>1, <1>3, <2>1 DEF Keeps
  <2>2. CASE f # g
    <3>1. fr[f] = frame[f]
      BY <1>1, <2>2
    <3>2. f \in InState(fr, "registered")
      BY <1>1, <3>1 DEF InState
    <3> HIDE DEF fr
    <3>3. RemoveObject(frame[g].id, fr)
      BY <1>3 DEF fr
    <3> QED BY <3>1, <3>2, <3>3, RemoveObjectKeeps DEF Keeps
  <2> QED BY <2>1, <2>2
<1>4. CASE FrameActivated(g)
  BY <1>1, <1>2, <1>4 DEF FrameActivated
<1>5. CASE FrameFailed(g)
  BY <1>1, <1>2, <1>5 DEF FrameFailed
<1>6. CASE StaleUse(g)
  BY <1>6 DEF StaleUse, Keeps
<1>7. CASE DeleteObject(g)
  BY <1>7, RemoveObjectKeeps DEF DeleteObject, Keeps
<1>8. CASE AppletBroken(g)
  <2>1. frame' = [frame EXCEPT ![g] = [frame[g] EXCEPT !.dialog = frame[g].on]]
    BY <1>8 DEF AppletBroken
  <2>2. [frame[g] EXCEPT !.dialog = frame[g].on].st = "registered"
    BY <1>1, <1>8 DEF AppletBroken, SlotType
  <2> QED BY <1>2, <2>1, <2>2
<1>9. CASE ReloadApplet(g)
  <2>1. frame[g].dialog \in Toplevels
        /\ \E s : frame' = [frame EXCEPT ![g] = s]
    BY <1>9 DEF ReloadApplet, LoadHelper
  <2> QED BY <1>2, <2>1
<1>10. CASE DontReload(g)
  BY <1>3, <1>10 DEF DontReload
<1>11. CASE KeepFailed(g)
  BY <1>2, <1>11 DEF KeepFailed
<1>12. CASE DeleteFailed(g)
  BY <1>3, <1>12 DEF DeleteFailed
<1>13. ASSUME NEW t \in Toplevels, MoveApplet(g, t) PROVE Keeps(f)
  <2>1. frame' = [frame EXCEPT ![g] = [frame[g] EXCEPT !.on = t]]
    BY <1>13 DEF MoveApplet
  <2>2. [frame[g] EXCEPT !.on = t].st = "registered"
    BY <1>1, <1>13 DEF MoveApplet, SlotType
  <2> QED BY <1>2, <2>1, <2>2
<1> QED BY <1>4, <1>5, <1>6, <1>7, <1>8, <1>9, <1>10, <1>11, <1>12, <1>13
        DEF FrameStep

\* Edits of the layout destroy the widgets of what they take away.
LEMMA LayoutStepKeeps ==
  ASSUME ShownTypeOK, LayoutStep, NEW f \in InState(frame, "registered")
  PROVE  Keeps(f)
<1>1. frame[f].st = "registered"
  BY DEF InState
<1>2. CASE frame' = frame
  BY <1>1, <1>2 DEF Keeps
<1>3. ASSUME NEW o \in Objects, NEW t \in Toplevels, CreateObject(o, t)
      PROVE  Keeps(f)
  BY <1>3, ChangedObjectsKeeps DEF CreateObject, ChangedObject, Keeps
<1>4. ASSUME NEW t \in Toplevels, CreateToplevel(t) PROVE Keeps(f)
  BY <1>4, ChangedToplevelKeeps DEF CreateToplevel, Keeps
<1>5. ASSUME NEW t \in Toplevels, DeleteToplevel(t) PROVE Keeps(f)
  <2> DEFINE tops == layoutToplevels \ {t}
             there == OnScreen(tops)
             doomed == {o \in layoutObjects : home[o] = t}
  <2>1. layoutObjects' = layoutObjects \ doomed
    BY <1>5 DEF DeleteToplevel
  <2>2. CASE ChangedToplevel(tops)
    BY <2>1, <2>2, ChangedToplevelKeeps DEF Keeps
  <2>3. ASSUME NEW first \in doomed, panels' = there,
               ChangedObjects(layoutObjects \ doomed,
                              IF tops \subseteq panels
                                THEN layoutObjects \ {first}
                                ELSE layoutObjects,
                              home, FramesOn(there), SavesOn(there),
                              HiddenOn(there))
        PROVE  Keeps(f)
    <3>1. CASE frame[f].on \notin there
      BY <2>3, <3>1 DEF Keeps
    <3>2. CASE frame[f].on \in there
      <4>1. f \in InState(FramesOn(there), "registered")
            /\ FramesOn(there)[f].id = frame[f].id
        BY <3>2, OnTopsKeeps
      <4> QED BY <2>1, <2>3, <4>1, ChangedObjectsKeeps DEF Keeps
    <3> QED BY <3>1, <3>2
  <2> QED BY <1>5, <2>2, <2>3 DEF DeleteToplevel
<1> QED BY <1>2, <1>3, <1>4, <1>5
        DEF LayoutStep, ExternalAddObject, ExternalRemoveObject,
            ExternalToplevels

\* A loaded object goes on being shown, unless its panel goes, it leaves the
\* layout, the dialog about its crash is answered, or the process restarts:
\* no step about another object or another panel, no edit from elsewhere and
\* no late answer takes its widget away.
THEOREM ShownObjectsStay == Spec => LoadedStaysLoaded
<1> DEFINE Stays == \A f \in InState(frame, "registered") :
                      \/ frame'[f].st = "registered"
                      \/ frame[f].on \notin panels'
                      \/ frame[f].id \notin layoutObjects'
                      \/ frame[f].dialog \in Toplevels
                      \/ Reload
<1>1. ASSUME TypeOK, Next PROVE Stays
  <2> SUFFICES ASSUME NEW f \in InState(frame, "registered") PROVE Keeps(f)
    BY DEF Keeps
  <2>1. ShownTypeOK /\ frame[f].st = "registered"
    BY <1>1 DEF TypeOK, InState
  <2>2. CASE frame' = frame
    BY <2>1, <2>2 DEF Keeps
  <2>3. ASSUME NEW e \in toLoad, IdleLoad(e) PROVE Keeps(f)
    BY <2>1, <2>3, IdleLoadKeeps DEF Keeps
  <2>4. CASE NotifyToplevels
    BY <2>1, <2>4, ChangedToplevelKeeps DEF NotifyToplevels, layoutVars, Keeps
  <2>5. CASE NotifyObjects
    BY <2>5, ChangedObjectsKeeps
       DEF NotifyObjects, ChangedObject, layoutVars, Keeps
  <2>6. CASE Restart
    BY <2>6 DEF Restart, Keeps
  <2> QED BY <1>1, <2>1, <2>2, <2>3, <2>4, <2>5, <2>6,
             FrameStepKeeps, LayoutStepKeeps
          DEF Next, IdleHandler, IdleNothing, IdleDrop, UnhideTimeout,
              SaveTimeout
<1>2. TypeOK /\ [Next]_vars => [Stays]_vars
  BY <1>1
<1> HIDE DEF Stays
<1>3. LoadedStaysLoaded <=> [][Stays]_vars
  BY PTL DEF LoadedStaysLoaded, Stays
<1> QED BY <1>2, <1>3, TypeCorrect, PTL DEF Spec
=============================================================================
