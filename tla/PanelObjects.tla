---------------------------- MODULE PanelObjects ----------------------------
(***************************************************************************)
(* How the panel keeps what it shows in step with the stored layout.       *)
(*                                                                         *)
(* The layout is two lists of ids in GSettings (toplevels, i.e. panels,    *)
(* and objects) and, for every object, the directory of keys whose         *)
(* "toplevel-id" says which panel the object belongs to.  The panel        *)
(* process keeps the panels it created, the objects it still has to load,  *)
(* the applets whose activation it waits for, the registry of loaded       *)
(* objects, the position saves it has queued, and the dialogs about        *)
(* applets that failed or crashed.                                         *)
(*                                                                         *)
(* Code: gnome-panel/panel-object-loader.c, panel-layout.c, applet.c,      *)
(* panel-applet-frame.c.                                                   *)
(*                                                                         *)
(* GSettings delivers a change made by this process before the call that   *)
(* made it returns, so every own edit carries the whole reaction of        *)
(* panel_layout_changed(); a change by another process is delivered by the *)
(* main loop some time later.                                              *)
(***************************************************************************)
EXTENDS Integers, FiniteSets

CONSTANTS
  Objects,      \* object ids
  Toplevels,    \* toplevel ids
  Offscreen,    \* those whose keys name a screen that is not there
  Kind,         \* what the iid of an object says, see Kinds
  Frames,       \* slots for widgets (bound)
  MaxEdits,     \* layout edits, moves, applet crashes and restarts (bound)
  EarlyReuse,   \* may a deleted object's id be given to a new object while
                \* something of the old one is left?
  NoToplevel,   \* no value in a toplevel-id key
  NoObject,     \* the id of an unused slot
  Gone          \* a pointer to a destroyed panel

\* An "internal" object (launcher, menu, separator...) is loaded at once, an
\* "applet" answers later, an "unloadable" one never gets a widget (invalid
\* iid, or disabled by the lockdown settings).
Kinds == {"internal", "applet", "unloadable"}

ASSUME KindAssumption == Kind \in [Objects -> Kinds]
ASSUME SentinelAssumption ==
  /\ NoToplevel \notin Toplevels /\ Gone \notin Toplevels /\ Gone # NoToplevel
  /\ NoObject \notin Objects
ASSUME ScreenAssumption == Offscreen \subseteq Toplevels
ASSUME BoundAssumption == MaxEdits \in Nat /\ EarlyReuse \in BOOLEAN

VARIABLES
  layoutToplevels,  \* the stored list of toplevel ids
  layoutObjects,    \* the stored list of object ids
  home,             \* the stored toplevel-id of every object
  pendingToplevels, \* another process's change of a list is not delivered yet
  pendingObjects,
  panels,           \* the panels that exist
  hidden,           \* those whose initial unhide has not been queued
  toLoad,           \* panel_objects_to_load, as a set of [id, on]
  loading,          \* panel_objects_loading, as a set of ids
  haveIdle,         \* panel_object_loader_have_idle
  unhideTimer,      \* panel_object_loader_unhide_toplevels_timeout # 0
  frame,            \* the widget in every slot
  noReload,         \* how often an id is in no_reload_applets
  saveQueue,        \* queued_position_saves, as slots
  saveTimer,        \* queued_position_source # 0
  edits             \* how much of MaxEdits is used

layoutVars == <<layoutToplevels, layoutObjects, home>>
pendingVars == <<pendingToplevels, pendingObjects>>
loaderVars == <<toLoad, loading, haveIdle, unhideTimer, hidden>>
saveVars == <<saveQueue, saveTimer>>
vars == <<layoutVars, pendingVars, panels, loaderVars, frame, noReload,
          saveVars, edits>>

-----------------------------------------------------------------------------
(***************************************************************************)
(* Slots.  An activating slot is a PanelAppletFrameActivating and the      *)
(* frame waiting for its applet; a registered one is an AppletInfo and its *)
(* widget; a dead one is a destroyed frame that its "has quit              *)
(* unexpectedly" dialog still references; a failed one is the "problem     *)
(* while loading" dialog of an applet.  dialog is the panel an open dialog *)
(* is registered on, Gone once it was destroyed with that panel.           *)
(***************************************************************************)
States == {"free", "activating", "registered", "dead", "failed"}

FreeSlot == [st |-> "free", id |-> NoObject,
             on |-> NoToplevel, dialog |-> NoToplevel]

Slot(st, o, t, d) == [st |-> st, id |-> o, on |-> t, dialog |-> d]

InState(fr, st) == {f \in Frames : fr[f].st = st}

\* The ids of the slots in a state.
Ids(fr, st) == {fr[f].id : f \in InState(fr, st)}

\* The slot the next widget takes.
FreshSlot == CHOOSE f \in Frames : frame[f].st = "free"
SlotLeft == InState(frame, "free") # {}

\* What a widget leaves when it is destroyed: the dialog of a crashed applet
\* holds a reference to the frame.
Destroyed(slot) == IF slot.dialog \in Toplevels THEN [slot EXCEPT !.st = "dead"]
                                                ELSE FreeSlot

\* gtk_widget_destroy of the toplevels in T: their dialogs and widgets go, a
\* frame that is still activating keeps its pointer to the panel.
AfterPanels(slot, T) ==
  LET s == IF slot.dialog \in T THEN [slot EXCEPT !.dialog = Gone] ELSE slot
  IN  CASE s.st = "activating" /\ s.on \in T -> [s EXCEPT !.on = Gone]
        [] s.st = "registered" /\ s.on \in T -> Destroyed(s)
        [] s.st \in {"dead", "failed"} /\ s.dialog = Gone -> FreeSlot
        [] OTHER -> s

DestroyPanels(fr, T) == [f \in Frames |-> AfterPanels(fr[f], T)]

DestroyFrames(fr, S) ==
  [f \in Frames |-> IF f \in S THEN Destroyed(fr[f]) ELSE fr[f]]

-----------------------------------------------------------------------------
(***************************************************************************)
(* The object loader.                                                      *)
(***************************************************************************)
\* Mutant of QueuedIds: panel_objects_loading is not looked at.
QueuedIds_ToLoadOnly == {q.id : q \in toLoad}

QueuedIds == {q.id : q \in toLoad} \cup loading

\* panel_object_loader_queue_initial_unhide_toplevels
UnhideAll == hidden' = {} /\ unhideTimer' = FALSE

\* Mutants of DoLoad: the idle handler, or the timer, is not installed.
DoLoad_NoIdle(q, hid) ==
  IF q = {} THEN UnhideAll /\ UNCHANGED haveIdle
            ELSE hidden' = hid /\ unhideTimer' = TRUE /\ UNCHANGED haveIdle

DoLoad_NoTimer(q, hid) ==
  IF q = {} THEN UnhideAll /\ UNCHANGED haveIdle
            ELSE hidden' = hid /\ UNCHANGED unhideTimer /\ haveIdle' = TRUE

\* panel_object_loader_do_load, with q to load and the panels in hid hidden
DoLoad(q, hid) ==
  IF q = {} THEN UnhideAll /\ UNCHANGED haveIdle
            ELSE hidden' = hid /\ unhideTimer' = TRUE /\ haveIdle' = TRUE

\* The end of panel_object_loader_stop_loading, with q and l left in the lists
UnhideIfLoaded(q, l) ==
  IF q = {} /\ l = {} THEN UnhideAll ELSE UNCHANGED <<hidden, unhideTimer>>

StopLoading(o, q, l) ==
  /\ toLoad' = {e \in q : e.id # o}
  /\ loading' = l \ {o}
  /\ UnhideIfLoaded(toLoad', loading')

(***************************************************************************)
(* panel_layout_changed_object, from the slots fr, the saves sq and the    *)
(* hidden panels hid: widgets of ids outside keep are cleaned, those of    *)
(* cand that are neither queued nor registered are queued with the panel   *)
(* their keys name.  keep and cand are both the list of object ids, but    *)
(* for DeleteToplevel, which sums up several of these calls.               *)
(***************************************************************************)
ChangedObjects(keep, cand, homes, fr, sq, hid) ==
  LET clean == {f \in InState(fr, "registered") : fr[f].id \notin keep}
      add == {o \in cand : /\ o \notin QueuedIds \cup Ids(fr, "registered")
                           /\ homes[o] # NoToplevel}
      queue == toLoad \cup {[id |-> o, on |-> homes[o]] : o \in add}
  IN  /\ frame' = DestroyFrames(fr, clean)
      /\ saveQueue' = sq \ clean
      /\ toLoad' = queue
      /\ DoLoad(queue, hid)
      /\ UNCHANGED loading

ChangedObject(objs, homes, fr) ==
  ChangedObjects(objs, objs, homes, fr, saveQueue, hidden)

\* Mutants: every panel is destroyed, not only the missing ones; a destroyed
\* widget stays in the save queue; a destroyed panel still counts as hidden.
FramesOn_All(tops) == DestroyPanels(frame, panels)
SavesOn_Kept(tops) == saveQueue
HiddenOn_Kept(tops) == hidden \cup (tops \ panels)

\* The widgets and the saves that are left when only the panels tops are.
FramesOn(tops) == DestroyPanels(frame, panels \ tops)
SavesOn(tops) == {f \in saveQueue : frame[f].on \in tops}
HiddenOn(tops) == (hidden \cap tops) \cup (tops \ panels)

\* panel_layout_load_toplevel creates no panel for a screen that is not there.
OnScreen(stored) == stored \ Offscreen

\* Mutant of ChangedToplevel: a new panel does not reload the objects.
ChangedToplevel_NoReload(stored) ==
  LET tops == OnScreen(stored)
  IN  /\ panels' = tops
      /\ frame' = FramesOn(tops)
      /\ saveQueue' = SavesOn(tops)
      /\ hidden' = {}
      /\ UNCHANGED <<toLoad, loading, haveIdle, unhideTimer>>

\* panel_layout_changed_toplevel; an id in the list that has no panel reloads
\* the objects, even when its screen is not there and no panel is created
ChangedToplevel(stored) ==
  LET tops == OnScreen(stored)
  IN  /\ panels' = tops
      /\ IF stored \subseteq panels
           THEN /\ frame' = FramesOn(tops)
                /\ saveQueue' = SavesOn(tops)
                /\ hidden' = HiddenOn(tops)
                /\ UNCHANGED <<toLoad, loading, haveIdle, unhideTimer>>
           ELSE ChangedObjects(layoutObjects, layoutObjects, home,
                               FramesOn(tops), SavesOn(tops), HiddenOn(tops))

-----------------------------------------------------------------------------
(***************************************************************************)
(* Start: panel_layout_load.  Every panel of the list whose screen is      *)
(* there is created hidden and every object queued.  The list of toplevels *)
(* is never empty here (how a layout file fills it is in LayoutFile).      *)
(***************************************************************************)
FirstQueue == {[id |-> o, on |-> home[o]] :
                 o \in {p \in layoutObjects : home[p] # NoToplevel}}

\* What the loader's do_load leaves of a set of panels, all of them new.
FirstHidden(q, tops) == IF q = {} THEN {} ELSE tops

Init ==
  /\ layoutToplevels \in (SUBSET Toplevels) \ {{}}
  /\ layoutObjects \in SUBSET Objects
  /\ home \in [Objects -> Toplevels \cup {NoToplevel}]
  /\ \A o \in Objects : o \notin layoutObjects => home[o] = NoToplevel
  /\ panels = OnScreen(layoutToplevels)
  /\ toLoad = FirstQueue /\ loading = {}
  /\ hidden = FirstHidden(FirstQueue, OnScreen(layoutToplevels))
  /\ haveIdle = (FirstQueue # {}) /\ unhideTimer = (FirstQueue # {})
  /\ frame = [f \in Frames |-> FreeSlot]
  /\ noReload = [o \in Objects |-> 0]
  /\ saveQueue = {} /\ saveTimer = FALSE
  /\ pendingToplevels = FALSE /\ pendingObjects = FALSE
  /\ edits = 0

\* A change the bound counts.
Edit == edits < MaxEdits /\ edits' = edits + 1

\* The process ends (killed, or brought down by a use of a freed object) and
\* the session manager starts it again on the stored layout.
Reload ==
  /\ panels' = OnScreen(layoutToplevels)
  /\ toLoad' = FirstQueue /\ loading' = {}
  /\ hidden' = FirstHidden(FirstQueue, OnScreen(layoutToplevels))
  /\ haveIdle' = (FirstQueue # {}) /\ unhideTimer' = (FirstQueue # {})
  /\ frame' = [f \in Frames |-> FreeSlot]
  /\ noReload' = [o \in Objects |-> 0]
  /\ saveQueue' = {} /\ saveTimer' = FALSE
  /\ pendingToplevels' = FALSE /\ pendingObjects' = FALSE
  /\ UNCHANGED layoutVars

Restart == Edit /\ Reload

-----------------------------------------------------------------------------
(***************************************************************************)
(* The idle handler and the activation of applets.                         *)
(***************************************************************************)

\* panel_object_loader_idle_handler, nothing queued
IdleNothing ==
  /\ haveIdle /\ toLoad = {}
  /\ haveIdle' = FALSE
  /\ UNCHANGED <<layoutVars, pendingVars, panels, toLoad, loading, unhideTimer,
                 hidden, frame, noReload, saveVars, edits>>

\* No queued object has a panel: all are dropped.
IdleDrop ==
  /\ haveIdle /\ toLoad # {}
  /\ \A e \in toLoad : e.on \notin panels
  /\ toLoad' = {} /\ haveIdle' = FALSE
  /\ UnhideIfLoaded({}, loading)
  /\ UNCHANGED <<layoutVars, pendingVars, panels, loading, frame, noReload,
                 saveVars, edits>>

\* An object that gets no widget: its keys are gone or its iid is of no use,
\* or it is an applet that failed before.
Skipped(o) == \/ Kind[o] = "unloadable" \/ home[o] = NoToplevel
              \/ Kind[o] = "applet" /\ noReload[o] > 0

\* panel_applet_frame_load_helper: the applet of o is asked for, to be put on
\* t; q and l are what the loader's lists hold.  The manager refuses at once
\* (answers = FALSE) when it knows no such applet.
LoadHelper(o, t, f, q, l, answers) ==
  IF answers
    THEN /\ frame' = [frame EXCEPT ![f] = Slot("activating", o, t, NoToplevel)]
         /\ toLoad' = q /\ loading' = l
         /\ UNCHANGED <<hidden, unhideTimer, noReload>>
    ELSE /\ frame' = [frame EXCEPT ![f] = Slot("failed", o, t, t)]
         /\ noReload' = [noReload EXCEPT ![o] = @ + 1]
         /\ StopLoading(o, q, l)

\* One object is taken from the list and loaded.  Which one comes first is
\* the order of pack positions, which this module leaves open.
IdleLoad(e) ==
  LET o == e.id
      q == toLoad \ {e}
      l == loading \cup {o}
  IN  /\ haveIdle /\ e.on \in panels /\ SlotLeft
      /\ \/ /\ Skipped(o)
            /\ StopLoading(o, q, l)
            /\ UNCHANGED <<frame, noReload>>
         \/ /\ ~Skipped(o) /\ Kind[o] = "internal"
            /\ frame' = [frame EXCEPT
                 ![FreshSlot] = Slot("registered", o, e.on, NoToplevel)]
            /\ StopLoading(o, q, l)
            /\ UNCHANGED noReload
         \/ /\ ~Skipped(o) /\ Kind[o] = "applet"
            /\ \E answers \in BOOLEAN :
                 LoadHelper(o, e.on, FreshSlot, q, l, answers)
      /\ UNCHANGED <<layoutVars, pendingVars, panels, haveIdle, saveVars,
                     edits>>

IdleHandler == IdleNothing \/ IdleDrop \/ \E e \in toLoad : IdleLoad(e)

\* Mutant of UnhideTimeout: it waits for the applets that are loading.
UnhideTimeout_Waits ==
  /\ unhideTimer /\ loading = {}
  /\ UnhideAll
  /\ UNCHANGED <<layoutVars, pendingVars, panels, toLoad, loading, haveIdle,
                 frame, noReload, saveVars, edits>>

\* UNHIDE_TOPLEVELS_TIMEOUT_SECONDS have passed
UnhideTimeout ==
  /\ unhideTimer
  /\ UnhideAll
  /\ UNCHANGED <<layoutVars, pendingVars, panels, toLoad, loading, haveIdle,
                 frame, noReload, saveVars, edits>>

\* _panel_applet_frame_activated, no error: the frame is registered, whatever
\* became of its panel and of the layout since the applet was asked for.
FrameActivated(f) ==
  /\ frame[f].st = "activating"
  /\ frame' = [frame EXCEPT ![f].st = "registered"]
  /\ StopLoading(frame[f].id, toLoad, loading)
  /\ UNCHANGED <<layoutVars, pendingVars, panels, haveIdle, noReload, saveVars,
                 edits>>

\* _panel_applet_frame_activated with an error: panel_applet_frame_loading_failed
FrameFailed(f) ==
  /\ frame[f].st = "activating" /\ frame[f].on # Gone
  /\ frame' = [frame EXCEPT ![f].st = "failed", ![f].dialog = frame[f].on]
  /\ noReload' = [noReload EXCEPT ![frame[f].id] = @ + 1]
  /\ StopLoading(frame[f].id, toLoad, loading)
  /\ UNCHANGED <<layoutVars, pendingVars, panels, haveIdle, saveVars, edits>>

\* An answer for a frame whose panel is destroyed, or to the dialog of a
\* destroyed frame, reads freed memory: the process may end there.
StaleUse(f) ==
  /\ \/ frame[f].st = "activating" /\ frame[f].on = Gone
     \/ frame[f].st = "dead"
  /\ Reload /\ UNCHANGED edits

-----------------------------------------------------------------------------
(***************************************************************************)
(* Edits by this process.                                                  *)
(***************************************************************************)

\* panel_layout_delete_object from the slots fr.  Writing back a list that
\* does not hold the id may or may not be notified.
RemoveObject(o, fr) ==
  /\ layoutObjects' = layoutObjects \ {o}
  /\ home' = [home EXCEPT ![o] = NoToplevel]
  /\ UNCHANGED layoutToplevels
  /\ \/ ChangedObject(layoutObjects', home, fr)
     \/ /\ o \notin layoutObjects
        /\ frame' = fr
        /\ UNCHANGED <<loaderVars, saveQueue>>

\* "Remove From Panel" in the menu of a registered object
DeleteObject(f) ==
  /\ Edit /\ frame[f].st = "registered"
  /\ RemoveObject(frame[f].id, frame)
  /\ UNCHANGED <<pendingVars, panels, noReload, saveTimer>>

\* panel_layout_object_create: an id whose directory does not exist
CreateObject(o, t) ==
  /\ Edit /\ t \in panels
  /\ o \notin layoutObjects /\ home[o] = NoToplevel
  /\ EarlyReuse \/ o \notin QueuedIds \cup {frame[f].id : f \in Frames}
  /\ layoutObjects' = layoutObjects \cup {o}
  /\ home' = [home EXCEPT ![o] = t]
  /\ ChangedObject(layoutObjects', home', frame)
  /\ UNCHANGED <<layoutToplevels, pendingVars, panels, noReload, saveTimer>>

\* panel_layout_toplevel_create, on the screen the user works on
CreateToplevel(t) ==
  /\ Edit /\ t \notin layoutToplevels \cup panels \cup Offscreen
  /\ layoutToplevels' = layoutToplevels \cup {t}
  /\ ChangedToplevel(layoutToplevels')
  /\ UNCHANGED <<layoutObjects, home, pendingVars, noReload, saveTimer>>

\* panel_layout_delete_toplevel: the list of toplevels is written, then every
\* object whose keys name t is deleted, one after the other.  After the first
\* of these deletions the others are still in the list and are queued again.
DeleteToplevel(t) ==
  LET tops == layoutToplevels \ {t}
      there == OnScreen(tops)
      doomed == {o \in layoutObjects : home[o] = t}
  IN  /\ Edit /\ t \in panels /\ panels # {t} /\ tops # {}
      /\ layoutToplevels' = tops
      /\ layoutObjects' = layoutObjects \ doomed
      /\ home' = [o \in Objects |-> IF o \in doomed THEN NoToplevel
                                                    ELSE home[o]]
      /\ \/ doomed = {} /\ ChangedToplevel(tops)
         \/ \E first \in doomed :
              /\ panels' = there
              /\ ChangedObjects(layoutObjects \ doomed,
                                IF tops \subseteq panels
                                  THEN layoutObjects \ {first}
                                  ELSE layoutObjects,
                                home, FramesOn(there), SavesOn(there),
                                HiddenOn(there))
      /\ UNCHANGED <<pendingVars, noReload, saveTimer>>

\* panel_widget_reparent or a move inside the panel: the position is saved
\* a second later.  An object cannot be dropped on a hidden panel.
MoveApplet(f, t) ==
  /\ Edit /\ frame[f].st = "registered" /\ frame[f].on \in panels
  /\ t \in panels /\ (t = frame[f].on \/ t \notin hidden)
  /\ frame' = [frame EXCEPT ![f].on = t]
  /\ saveQueue' = saveQueue \cup {f} /\ saveTimer' = TRUE
  /\ UNCHANGED <<layoutVars, pendingVars, panels, loaderVars, noReload>>

\* panel_applet_position_save_timeout; with two widgets for one object the
\* last one written wins.
SaveTimeout ==
  /\ saveTimer
  /\ \E w \in [{frame[f].id : f \in saveQueue} -> saveQueue] :
       /\ \A o \in DOMAIN w : frame[w[o]].id = o
       /\ home' = [o \in Objects |-> IF o \in DOMAIN w THEN frame[w[o]].on
                                                       ELSE home[o]]
  /\ saveQueue' = {} /\ saveTimer' = FALSE
  /\ UNCHANGED <<layoutToplevels, layoutObjects, pendingVars, panels,
                 loaderVars, frame, noReload, edits>>

-----------------------------------------------------------------------------
(***************************************************************************)
(* Dialogs.                                                                *)
(***************************************************************************)

\* _panel_applet_frame_applet_broken
AppletBroken(f) ==
  /\ Edit /\ frame[f].st = "registered" /\ Kind[frame[f].id] = "applet"
  /\ frame[f].dialog = NoToplevel /\ frame[f].on \in panels
  /\ frame' = [frame EXCEPT ![f].dialog = frame[f].on]
  /\ UNCHANGED <<layoutVars, pendingVars, panels, loaderVars, noReload,
                 saveVars>>

\* panel_applet_frame_reload_response, yes: the frame is destroyed and its
\* applet asked for again, without an entry in the loader's lists.
ReloadApplet(f) ==
  LET o == frame[f].id
  IN  /\ frame[f].st = "registered" /\ frame[f].dialog \in Toplevels
      /\ saveQueue' = saveQueue \ {f}
      /\ \/ /\ noReload[o] > 0
            /\ frame' = [frame EXCEPT ![f] = FreeSlot]
            /\ StopLoading(o, toLoad, loading)
            /\ UNCHANGED noReload
         \/ /\ noReload[o] = 0
            /\ \E answers \in BOOLEAN :
                 LoadHelper(o, frame[f].on, f, toLoad, loading, answers)
      /\ UNCHANGED <<layoutVars, pendingVars, panels, haveIdle, saveTimer,
                     edits>>

\* panel_applet_frame_reload_response, anything else
DontReload(f) ==
  /\ frame[f].st = "registered" /\ frame[f].dialog \in Toplevels
  /\ RemoveObject(frame[f].id, [frame EXCEPT ![f].dialog = Gone])
  /\ UNCHANGED <<pendingVars, panels, noReload, saveTimer, edits>>

\* panel_applet_frame_loading_failed_response
KeepFailed(f) ==
  /\ frame[f].st = "failed"
  /\ frame' = [frame EXCEPT ![f] = FreeSlot]
  /\ UNCHANGED <<layoutVars, pendingVars, panels, loaderVars, noReload,
                 saveVars, edits>>

DeleteFailed(f) ==
  /\ frame[f].st = "failed"
  /\ noReload' = [noReload EXCEPT ![frame[f].id] = IF @ > 0 THEN @ - 1 ELSE 0]
  /\ RemoveObject(frame[f].id, [frame EXCEPT ![f] = FreeSlot])
  /\ UNCHANGED <<pendingVars, panels, saveTimer, edits>>

-----------------------------------------------------------------------------
(***************************************************************************)
(* Another process (dconf-editor, a settings daemon) writes the lists; the *)
(* panel hears of it later.                                                *)
(***************************************************************************)
ExternalToplevels ==
  /\ Edit
  /\ \E t \in Toplevels :
       layoutToplevels' \in {layoutToplevels \cup {t}, layoutToplevels \ {t}}
  /\ layoutToplevels' \notin {{}, layoutToplevels}
  /\ pendingToplevels' = TRUE
  /\ UNCHANGED <<layoutObjects, home, pendingObjects, panels, loaderVars,
                 frame, noReload, saveVars>>

ExternalAddObject(o, t) ==
  /\ Edit /\ o \notin layoutObjects /\ home[o] = NoToplevel
  /\ EarlyReuse \/ o \notin QueuedIds \cup {frame[f].id : f \in Frames}
  /\ layoutObjects' = layoutObjects \cup {o}
  /\ home' = [home EXCEPT ![o] = t]
  /\ pendingObjects' = TRUE
  /\ UNCHANGED <<layoutToplevels, pendingToplevels, panels, loaderVars, frame,
                 noReload, saveVars>>

ExternalRemoveObject(o) ==
  /\ Edit /\ o \in layoutObjects
  /\ layoutObjects' = layoutObjects \ {o}
  /\ home' = [home EXCEPT ![o] = NoToplevel]
  /\ pendingObjects' = TRUE
  /\ UNCHANGED <<layoutToplevels, pendingToplevels, panels, loaderVars, frame,
                 noReload, saveVars>>

\* panel_layout_changed for another process's change
NotifyToplevels ==
  /\ pendingToplevels /\ pendingToplevels' = FALSE
  /\ ChangedToplevel(layoutToplevels)
  /\ UNCHANGED <<layoutVars, pendingObjects, noReload, saveTimer, edits>>

NotifyObjects ==
  /\ pendingObjects /\ pendingObjects' = FALSE
  /\ ChangedObject(layoutObjects, home, frame)
  /\ UNCHANGED <<layoutVars, pendingToplevels, panels, noReload, saveTimer,
                 edits>>

-----------------------------------------------------------------------------
FrameStep(f) ==
  \/ FrameActivated(f) \/ FrameFailed(f) \/ StaleUse(f)
  \/ DeleteObject(f) \/ AppletBroken(f) \/ ReloadApplet(f) \/ DontReload(f)
  \/ KeepFailed(f) \/ DeleteFailed(f)
  \/ \E t \in Toplevels : MoveApplet(f, t)

LayoutStep ==
  \/ \E o \in Objects, t \in Toplevels : CreateObject(o, t)
                                         \/ ExternalAddObject(o, t)
  \/ \E o \in Objects : ExternalRemoveObject(o)
  \/ \E t \in Toplevels : CreateToplevel(t) \/ DeleteToplevel(t)
  \/ ExternalToplevels

Next ==
  \/ IdleHandler \/ UnhideTimeout \/ SaveTimeout
  \/ NotifyToplevels \/ NotifyObjects
  \/ LayoutStep \/ Restart
  \/ \E f \in Frames : FrameStep(f)

(***************************************************************************)
(* Fairness: the main loop runs its idle handlers, timeouts and signal     *)
(* deliveries sooner or later.  Nothing is assumed of applets and users.   *)
(***************************************************************************)
Fairness ==
  /\ WF_vars(IdleHandler) /\ WF_vars(UnhideTimeout) /\ WF_vars(SaveTimeout)
  /\ WF_vars(NotifyToplevels) /\ WF_vars(NotifyObjects)

Spec == Init /\ [][Next]_vars
FairSpec == Spec /\ Fairness

-----------------------------------------------------------------------------
(***************************************************************************)
(* Properties.                                                             *)
(***************************************************************************)

\* Every variable has its type.
Refs == Toplevels \cup {NoToplevel, Gone}
SlotType == [st : States, id : Objects \cup {NoObject}, on : Refs, dialog : Refs]

StoredTypeOK ==
  /\ layoutToplevels \subseteq Toplevels
  /\ layoutObjects \subseteq Objects
  /\ home \in [Objects -> Toplevels \cup {NoToplevel}]
  /\ pendingToplevels \in BOOLEAN /\ pendingObjects \in BOOLEAN
  /\ noReload \in [Objects -> Nat]
  /\ edits \in 0 .. MaxEdits

ShownTypeOK ==
  /\ panels \subseteq Toplevels /\ hidden \subseteq panels
  /\ toLoad \subseteq [id : Objects, on : Toplevels]
  /\ loading \subseteq Objects
  /\ haveIdle \in BOOLEAN /\ unhideTimer \in BOOLEAN
  /\ frame \in [Frames -> SlotType]
  /\ saveQueue \subseteq Frames /\ saveTimer \in BOOLEAN

TypeOK == StoredTypeOK /\ ShownTypeOK

\* The loader never waits for nothing: while objects are queued the idle
\* handler is installed, and while an object counts as loading there is a
\* frame whose activation will take it off the list.
LoaderProgresses ==
  /\ toLoad # {} => haveIdle
  /\ loading \subseteq Ids(frame, "activating")

\* A panel that is still hidden because its objects load is unhidden by the
\* timer at the latest (panel_object_loader_do_load: "make sure we don't block
\* the unhiding because of an object that doesn't load").
NoPanelLeftHidden == hidden # {} => unhideTimer

\* An object is in the loader's lists at most once, and never while the
\* registry holds it: queueing it again would show it twice.
QueuedOnce ==
  /\ \A d, e \in toLoad : d.id = e.id => d = e
  /\ \A e \in toLoad : e.id \notin loading
  /\ QueuedIds \cap Ids(frame, "registered") = {}

\* A queued position save refers to a registered widget on a live panel, and
\* the timer that performs it is running; the timeout reads the widget.
SavesPending ==
  /\ \A f \in saveQueue : frame[f].st = "registered" /\ frame[f].on \in panels
  /\ saveQueue # {} => saveTimer

\* A loaded object goes on being shown: a step destroys its widget only with
\* its panel, or because the object left the layout, or on the answer to the
\* dialog about its crash, or because the whole process restarts.
LoadedStaysLoaded ==
  [][\A f \in InState(frame, "registered") :
       \/ frame'[f].st = "registered"
       \/ frame[f].on \notin panels'
       \/ frame[f].id \notin layoutObjects'
       \/ frame[f].dialog \in Toplevels
       \/ Reload]_vars

\* Every panel that starts hidden is unhidden, even when an applet on it
\* never answers.
PanelsUnhide == \A t \in Toplevels : t \in hidden ~> t \notin hidden

\* An applet that is shown on a panel that is there is in the layout:
\* panel_layout_changed_object says "Remove what is not in the layout anymore",
\* but looks only at objects that are registered by then.
RegisteredInLayout ==
  ~pendingObjects =>
    \A f \in InState(frame, "registered") : frame[f].on \in panels => frame[f].id \in layoutObjects
=============================================================================
