---------------------------- MODULE AppletLibrary ----------------------------
(***************************************************************************)
(* An applet's side of the conversation with the panel.                    *)
(*                                                                         *)
(* The panel sets properties of the applet with messages that arrive in    *)
(* order: orientation, size, lockdown and background.  A background may be *)
(* the number of a pixmap that the panel owns and frees when it makes the  *)
(* next, so the applet may read a pixmap that is gone.  The applet tells   *)
(* the panel its flags, its size hints and what its menu asks for.         *)
(*                                                                         *)
(* Code: libpanel-applet/panel-applet.c.  The panel's messages are those   *)
(* of panel-applet-frame-dbus.c and PanelBackground.                       *)
(***************************************************************************)
EXTENDS Naturals, Sequences

CONSTANTS
  Orients,     \* the orientations of a panel that matter
  Widths,      \* the widths that the panel may give the applet
  Flags,       \* the values of the flags
  NoValue,
  MaxInTransit, \* messages each way that are not handled yet (bound)
  MaxSets       \* changes by the panel and by the applet (bound)

NoFlags == 0   \* PANEL_APPLET_FLAGS_NONE
Solid == [solid |-> TRUE]
Pixmap(n) == [pixmap |-> n]
None == [none |-> TRUE]

ASSUME LibBoundAssumption == MaxInTransit \in Nat /\ MaxSets \in Nat
\* No background is the value that stands for none set.
ASSUME NoValueAssumption ==
  NoValue \notin {Solid, None} \cup {Pixmap(n) : n \in 1 .. MaxSets}

VARIABLES
  app,         \* PanelAppletPrivate
  toApplet,    \* property sets that the applet has not handled
  toPanel,     \* signals that the panel has not handled
  panelSet,    \* the last value that the panel set of each property
  pixmap,      \* the panel's pixmap, 0 when there is none
  panelKnows,  \* the flags and the size hints as the panel has them
  inMenu,      \* the menu of the applet that is open
  sets         \* how much of MaxSets is used

libVars == <<app, toApplet, toPanel, panelSet, pixmap, panelKnows, inMenu, sets>>

-----------------------------------------------------------------------------
(***************************************************************************)
(* The background.                                                         *)
(***************************************************************************)
\* panel_applet_get_background: a pixmap is copied as large as the window is,
\* unless the panel has freed it.
Look(a) ==
  CASE ~a.realized \/ a.backdrop \in {NoValue, None} -> None
    [] a.realized /\ a.backdrop = Solid -> Solid
    [] a.realized /\ a.backdrop \notin {NoValue, None, Solid} ->
         IF a.backdrop = Pixmap(pixmap) THEN [pixmap |-> pixmap, width |-> a.width]
                                        ELSE None

\* panel_applet_handle_background
HandleBackground(a) == [a EXCEPT !.told.backdrop = Look(a),
                                 !.painted = IF a.paints THEN Look(a) ELSE @]

-----------------------------------------------------------------------------
(***************************************************************************)
(* What the panel sets.                                                    *)
(***************************************************************************)
SetOrient(a, o) ==
  IF o = a.orient THEN a
  ELSE [a EXCEPT !.orient = o, !.told.orient = o,
                 !.style = IF o \in {"up", "down"} THEN "horizontal" ELSE "vertical"]

SetSize(a, s) == IF s = a.size THEN a ELSE [a EXCEPT !.size = s, !.told.size = s]

SetLockedDown(a, l) == [a EXCEPT !.locked = l, !.mayRemove = ~l]

\* Mutant of SetBackground: the applet only draws what it can draw at once.
SetBackground_OnlyRealized(a, b) ==
  IF b = a.backdrop \/ ~a.realized THEN a ELSE HandleBackground([a EXCEPT !.backdrop = b])

SetBackground(a, b) ==
  IF b = a.backdrop THEN a ELSE HandleBackground([a EXCEPT !.backdrop = b])

LibInit ==
  /\ app = [flags |-> NoFlags, hints |-> NoValue, orient |-> "up", style |-> "horizontal",
            size |-> 24, locked |-> FALSE, mayRemove |-> TRUE, backdrop |-> NoValue,
            told |-> [orient |-> "up", size |-> 24, backdrop |-> None],
            painted |-> None, paints |-> FALSE, embedded |-> FALSE, menu |-> FALSE,
            realized |-> FALSE, width |-> 1]
  /\ toApplet = <<>> /\ toPanel = <<>>
  /\ panelSet = [orient |-> "up", size |-> 24, locked |-> FALSE, backdrop |-> NoValue]
  /\ pixmap = 0
  /\ panelKnows = [flags |-> NoFlags, hints |-> NoValue]
  /\ inMenu = "none" /\ sets = 0

Count == sets < MaxSets /\ sets' = sets + 1

\* The panel sets property p to v.
PanelSets(p, v) ==
  /\ Len(toApplet) < MaxInTransit
  /\ panelSet' = [panelSet EXCEPT ![p] = v]
  /\ toApplet' = Append(toApplet, [prop |-> p, value |-> v])

PanelChanges(p, v) ==
  /\ Count
  /\ PanelSets(p, v)
  /\ UNCHANGED <<app, toPanel, pixmap, panelKnows, inMenu>>

\* The panel paints itself anew: the pixmap it had is freed.
PanelRepaints(b) ==
  /\ Count
  /\ pixmap' = IF b = "pixmap" THEN sets' ELSE 0
  /\ PanelSets("backdrop", CASE b = "pixmap" -> Pixmap(sets')
                             [] b = "solid"  -> Solid
                             [] b = "none"   -> None)
  /\ UNCHANGED <<app, toPanel, panelKnows, inMenu>>

\* set_property_cb
HandleSet ==
  /\ toApplet # <<>>
  /\ toApplet' = Tail(toApplet)
  /\ LET m == Head(toApplet)
     IN  app' = CASE m.prop = "orient"   -> SetOrient(app, m.value)
                  [] m.prop = "size"     -> SetSize(app, m.value)
                  [] m.prop = "locked"   -> SetLockedDown(app, m.value)
                  [] m.prop = "backdrop" -> SetBackground(app, m.value)
  /\ UNCHANGED <<toPanel, panelSet, pixmap, panelKnows, inMenu, sets>>

-----------------------------------------------------------------------------
(***************************************************************************)
(* The window of the applet.                                               *)
(***************************************************************************)
\* The applet's own code runs when it is embedded, and again each time.  It has
\* its background painted on its window or draws it itself, and has one menu.
Embedded(paints) ==
  /\ ~app.embedded
  /\ app' = [app EXCEPT !.embedded = TRUE, !.menu = TRUE, !.paints = paints,
                        !.painted = IF paints /\ app.realized THEN Look(app) ELSE @]
  /\ UNCHANGED <<toApplet, toPanel, panelSet, pixmap, panelKnows, inMenu, sets>>

Realize ==
  /\ ~app.realized
  /\ LET a == [app EXCEPT !.realized = TRUE]
     IN  app' = IF a.backdrop # NoValue THEN HandleBackground(a) ELSE a
  /\ UNCHANGED <<toApplet, toPanel, panelSet, pixmap, panelKnows, inMenu, sets>>

SizeAllocate(w) ==
  /\ Count
  /\ w # app.width
  /\ app' = HandleBackground([app EXCEPT !.width = w])
  /\ UNCHANGED <<toApplet, toPanel, panelSet, pixmap, panelKnows, inMenu>>

-----------------------------------------------------------------------------
(***************************************************************************)
(* What the applet tells the panel.                                        *)
(***************************************************************************)
Tell(what, v) ==
  /\ Len(toPanel) < MaxInTransit
  /\ toPanel' = Append(toPanel, [prop |-> what, value |-> v])

SetFlags(f) ==
  /\ Count
  /\ f # app.flags
  /\ app' = [app EXCEPT !.flags = f]
  /\ Tell("flags", f)
  /\ UNCHANGED <<toApplet, panelSet, pixmap, panelKnows, inMenu>>

\* Hints are kept with the base size added to them.
SetSizeHints(h, base) ==
  /\ Count
  /\ h + base # app.hints
  /\ app' = [app EXCEPT !.hints = h + base]
  /\ Tell("hints", h + base)
  /\ UNCHANGED <<toApplet, panelSet, pixmap, panelKnows, inMenu>>

\* A click, a key or the panel opens the menu; the menu to edit the panel is
\* refused when the panels are locked down.
PopupMenu(edit) ==
  /\ inMenu = "none"
  /\ IF edit THEN ~app.locked ELSE app.menu
  /\ inMenu' = IF edit THEN "edit" ELSE "own"
  /\ UNCHANGED <<app, toApplet, toPanel, panelSet, pixmap, panelKnows, sets>>

CloseMenu ==
  /\ inMenu # "none"
  /\ inMenu' = "none"
  /\ UNCHANGED <<app, toApplet, toPanel, panelSet, pixmap, panelKnows, sets>>

\* The user picks Move or Remove in the menu.
MenuCommand(cmd) ==
  /\ inMenu = "edit" /\ app.mayRemove
  /\ inMenu' = "none"
  /\ Tell(cmd, [locked |-> app.locked])
  /\ UNCHANGED <<app, toApplet, panelSet, pixmap, panelKnows, sets>>

\* The panel handles a signal; a Move or Remove is done whatever the lockdown is
\* by then, and the frame that is removed takes the applet along.
PanelHears ==
  /\ toPanel # <<>>
  /\ LET m == Head(toPanel)
     IN  /\ m.prop # "remove"
         /\ panelKnows' = IF m.prop \in {"flags", "hints"}
                          THEN [panelKnows EXCEPT ![m.prop] = m.value] ELSE panelKnows
  /\ toPanel' = Tail(toPanel)
  /\ UNCHANGED <<app, toApplet, panelSet, pixmap, inMenu, sets>>

LibNext ==
  \/ \E o \in Orients : PanelChanges("orient", o)
  \/ \E s \in {24, 48} : PanelChanges("size", s)
  \/ \E l \in BOOLEAN : PanelChanges("locked", l)
  \/ \E b \in {"pixmap", "solid", "none"} : PanelRepaints(b)
  \/ HandleSet \/ Realize \/ CloseMenu \/ PanelHears
  \/ \E paints \in BOOLEAN : Embedded(paints)
  \/ \E w \in Widths : SizeAllocate(w)
  \/ \E f \in Flags : SetFlags(f)
  \/ \E h \in {1, 2}, base \in {0, 1} : SetSizeHints(h, base)
  \/ \E edit \in BOOLEAN : PopupMenu(edit)
  \/ \E cmd \in {"move", "remove"} : MenuCommand(cmd)

LibSpec == LibInit /\ [][LibNext]_libVars

-----------------------------------------------------------------------------
(***************************************************************************)
(* Properties.                                                             *)
(***************************************************************************)
\* Every variable has its type.
LibTypeOK ==
  /\ app.orient \in Orients \cup {"up"} /\ app.size \in {24, 48}
  /\ app.flags \in Flags \cup {NoFlags} /\ app.hints \in 1..3 \cup {NoValue}
  /\ {app.locked, app.mayRemove, app.paints, app.embedded, app.menu,
      app.realized} \subseteq BOOLEAN
  /\ app.width \in Widths \cup {1}
  /\ Len(toApplet) <= MaxInTransit /\ Len(toPanel) <= MaxInTransit
  /\ pixmap \in 0..MaxSets /\ sets \in 0..MaxSets
  /\ inMenu \in {"none", "own", "edit"}

\* What the applet has, and has told its own code, is what the panel last set.
HasWhatPanelSet ==
  /\ app.orient = panelSet.orient /\ app.told.orient = panelSet.orient
  /\ app.style = IF app.orient \in {"up", "down"} THEN "horizontal" ELSE "vertical"
  /\ app.size = panelSet.size /\ app.told.size = panelSet.size
  /\ app.mayRemove = ~panelSet.locked

\* The panel's pixmap, as large as the applet is, or its colour.
PanelsLook ==
  CASE panelSet.backdrop \in {NoValue, None, Solid} ->
         IF panelSet.backdrop = Solid THEN Solid ELSE None
    [] OTHER -> [pixmap |-> pixmap, width |-> app.width]

\* However fast the panel changes and frees its pixmaps, and whenever the
\* applet's window is realized or allocated another size in between, an applet
\* that has handled all messages has what the panel set and looks like the
\* panel: a message that came too late to be drawn is followed by one that can.
\* The panel has the flags and the hints that the applet set, once it is told.
AppletAndPanelAgree ==
  /\ toApplet = <<>> =>
       /\ HasWhatPanelSet
       /\ app.realized => /\ app.told.backdrop = PanelsLook
                          /\ app.paints => app.painted = PanelsLook
  /\ toPanel = <<>> => panelKnows = [flags |-> app.flags, hints |-> app.hints]
=============================================================================
