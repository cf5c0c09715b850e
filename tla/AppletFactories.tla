-------------------------- MODULE AppletFactories --------------------------
(***************************************************************************)
(* One factory of in-process applets: the manager's count of its applets,  *)
(* the factory objects that the loaded module makes, and the bus name and  *)
(* object path through which the panel asks them for applets.              *)
(*                                                                         *)
(* The manager runs the module's entry point when the first applet is      *)
(* activated and again whenever its count came back to zero.  Each run     *)
(* makes a factory object that lives until its last applet is removed; the *)
(* bus name and the object path it took are never given back.              *)
(*                                                                         *)
(* Code: libpanel-applet-private/panel-applets-manager-dbus.c,             *)
(* panel-applets-manager.c, panel-applet-frame.c, and the applet's side in *)
(* libpanel-applet/panel-applet-factory.c and panel-applet.c.              *)
(***************************************************************************)
EXTENDS Integers, FiniteSets

CONSTANTS
  Frames,       \* slots for frames (bound)
  Objects,      \* identities of factory objects (bound)
  NoObject,
  Wrap,         \* n_applets is an unsigned int: it counts modulo Wrap
  MaxChanges    \* rewrites of the .panel-applet file (bound)

ASSUME ObjectAssumption == NoObject \notin Objects /\ IsFiniteSet(Objects)
ASSUME FrameAssumption == IsFiniteSet(Frames)
ASSUME WrapAssumption == Wrap \in Nat /\ Cardinality(Frames) < Wrap
ASSUME BoundAssumption == MaxChanges \in Nat

VARIABLES
  module,    \* info->module # NULL
  count,     \* info->n_applets
  changed,   \* how often the info was replaced
  alive,     \* the factory objects that exist
  made,      \* those that ever existed
  onBus,     \* objects whose on_bus_acquired has not run
  exported,  \* the object registered at the factory's object path
  named,     \* the panel owns the factory's bus name
  frame      \* per slot the state of its applet, and the factory it is of

vars == <<module, count, changed, alive, made, onBus, exported, named, frame>>

States == {"free", "waiting", "asked", "live", "lost"}
Free == [st |-> "free", of |-> NoObject]
In(st) == {f \in Frames : frame[f].st = st}
Held == In("waiting") \cup In("asked") \cup In("live")

\* factory->n_applets
Applets(o) == {f \in In("live") : frame[f].of = o}

Init ==
  /\ module = FALSE /\ count = 0 /\ changed = 0
  /\ alive = {} /\ made = {} /\ onBus = {}
  /\ exported = NoObject /\ named = FALSE
  /\ frame = [f \in Frames |-> Free]

\* _panel_applet_factory_main_internal for an in-process applet: an object is
\* made and asks for the bus name.  It reports success whatever happens next.
ActivateApplet ==
  \E o \in Objects \ made :
    /\ alive' = alive \cup {o} /\ made' = made \cup {o}
    /\ onBus' = onBus \cup {o}

\* Mutant of Activated: the entry point is run for every applet.
Activated_Always ==
  /\ ActivateApplet
  /\ count' = IF module THEN (count + 1) % Wrap ELSE 1
  /\ module' = TRUE

\* panel_applets_manager_dbus_factory_activate
Activated ==
  /\ IF module /\ count # 0 THEN UNCHANGED <<alive, made, onBus>>
                            ELSE ActivateApplet
  /\ count' = IF module THEN (count + 1) % Wrap ELSE 1
  /\ module' = TRUE

\* panel_applet_frame_dbus_load: the frame waits for the factory's name
Load(f) ==
  /\ frame[f].st = "free"
  /\ Activated
  /\ frame' = [frame EXCEPT ![f].st = "waiting"]
  /\ UNCHANGED <<changed, exported, named>>

\* The module cannot be opened, or has no entry point: nothing changes but
\* that the panel shows a dialog.

\* on_bus_acquired, and what the bus answers to the request for the name: the
\* path is taken by the first object only; to a second request for the name
\* the answer is that it is owned already, which GLib may report as a loss
\* (on_name_lost).
BusAcquired(o) ==
  /\ o \in onBus /\ onBus' = onBus \ {o}
  /\ exported' = IF exported = NoObject THEN o ELSE exported
  /\ named' = TRUE
  /\ alive' \in IF named THEN {alive, alive \ {o}} ELSE {alive}
  /\ UNCHANGED <<module, count, changed, made, frame>>

\* on_factory_appeared: GetApplet is sent
Ask(f) ==
  /\ frame[f].st = "waiting" /\ named
  /\ frame' = [frame EXCEPT ![f].st = "asked"]
  /\ UNCHANGED <<module, count, changed, alive, made, onBus, exported, named>>

\* panel_applet_factory_get_applet: the object at the path serves, if it
\* still exists; the call to a freed one is the end of what can be said.
Serve(f) ==
  /\ frame[f].st = "asked"
  /\ frame' = [frame EXCEPT ![f] =
       IF exported \in alive THEN [st |-> "live", of |-> exported]
                             ELSE [st |-> "lost", of |-> NoObject]]
  /\ UNCHANGED <<module, count, changed, alive, made, onBus, exported, named>>

\* Mutant of Deactivated: the count is not decremented.
Deactivated_Kept == UNCHANGED count

\* Mutant of Deactivated: a signed count.
Deactivated_Signed == count' = IF module THEN count - 1 ELSE count

\* panel_applets_manager_dbus_factory_deactivate, when the frame is finalized
Deactivated == count' = IF module THEN (count + Wrap - 1) % Wrap ELSE count

\* The frame and with it the applet are destroyed; the last applet takes the
\* factory object with it (panel_applet_factory_applet_removed).
RemoveApplet(f) ==
  LET o == frame[f].of
  IN  /\ frame[f].st = "live"
      /\ frame' = [frame EXCEPT ![f] = Free]
      /\ alive' = IF Applets(o) = {f} THEN alive \ {o} ELSE alive
      /\ Deactivated
      /\ UNCHANGED <<module, changed, made, onBus, exported, named>>

\* applets_directory_changed: the file is written again, and a new info, with
\* neither a module nor a count, takes the place of the old one.
DirectoryChanged ==
  /\ changed < MaxChanges /\ changed' = changed + 1
  /\ module' = FALSE /\ count' = 0
  /\ UNCHANGED <<alive, made, onBus, exported, named, frame>>

Next ==
  /\ In("lost") = {}
  /\ \/ \E o \in Objects : BusAcquired(o)
     \/ \E f \in Frames : Load(f) \/ Ask(f) \/ Serve(f) \/ RemoveApplet(f)
     \/ DirectoryChanged

Spec == Init /\ [][Next]_vars

-----------------------------------------------------------------------------
\* Every variable has its type.
TypeOK ==
  /\ module \in BOOLEAN /\ named \in BOOLEAN
  /\ count \in 0 .. Wrap - 1 /\ changed \in 0 .. MaxChanges
  /\ alive \subseteq made /\ made \subseteq Objects /\ onBus \subseteq Objects
  /\ exported \in Objects \cup {NoObject}
  /\ frame \in [Frames -> [st : States, of : Objects \cup {NoObject}]]

\* While the description of the factory is not rewritten, the manager counts
\* exactly the frames that wait for an applet of the factory or have one.
CountExact ==
  changed = 0 /\ In("lost") = {} => count = Cardinality(Held)

\* While the description is not rewritten, no second factory object is made
\* next to one that still has applets: the two would compete for one name.
OneFactory ==
  changed = 0 => \A o \in alive : Applets(o) # {} => alive = {o}

\* "There is only one applet factory per applet binary, and it is always
\* running before any applet instance is created": an applet is asked only of
\* a factory that exists.
FactoryRunsFirst == In("lost") = {}
=============================================================================
