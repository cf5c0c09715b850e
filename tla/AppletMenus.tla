------------------------------ MODULE AppletMenus -----------------------------
(***************************************************************************)
(* The context menus of the objects and of the panels, what the lockdown   *)
(* settings leave of them, and what keeps a panel from hiding.             *)
(*                                                                         *)
(* A panel does not hide while n_autohide_disablers is not zero: a menu,   *)
(* a dialog or a drag adds one when it begins and takes one when it ends.  *)
(* Any of them can end because an object or a panel goes away, or because  *)
(* the lockdown changes.                                                   *)
(*                                                                         *)
(* Code: gnome-panel/applet.c, panel.c, panel-lockdown.c,                  *)
(* panel-context-menu.c, panel-action-protocol.c.  Left out: where the     *)
(* panel's menu was popped up (insert_pack_type), and the menu of the      *)
(* menu buttons, which AppsMenu has.                                       *)
(***************************************************************************)
EXTENDS Integers, SequencesExt, FiniteSetsExt

CONSTANTS
  Panels,       \* the panels there may be
  Objects,      \* launchers, menu buttons and action buttons
  KindOf,       \* [Objects -> {"launcher", "menu", "lock"}]
  Nowhere,      \* no panel, no object, no menu
  MaxMenuOps    \* steps that begin something (bound)

VARIABLES
  panels,       \* the list of panels, as they were made
  panelOf,      \* [Objects -> panel, or Nowhere: not registered]
  lockdown,     \* the lockdown settings that are on
  menus,        \* AppletInfo.menu, AppletInfo.edit_menu, PanelData.menu
  grab,         \* the menu that is up and has the pointer, or Nowhere
  dialogs,      \* [Panels -> the dialogs of the panel that are open]
  drag,         \* the object that is dragged, or Nowhere
  disablersOf,  \* [Panels -> n_autohide_disablers]
  mainMenus,    \* [Panels -> how often the main menu was popped up there by its key]
  leaked,       \* objects with an edit menu that was destroyed, and not freed
  strays,       \* such menus whose object is gone
  crossed,      \* an object was dragged to another panel while a menu of it was shown
  broken,       \* the panel used what is not there any more: nothing is known
  menuOps       \* how much of MaxMenuOps is used

menuOpVars == <<panels, panelOf, lockdown, menus, grab, dialogs, drag, disablersOf,
                mainMenus, leaked, strays, crossed, broken, menuOps>>

Locked == "panels-locked-down"
LockdownKeys == {Locked, "disable-command-line", "disable-lock-screen"}
Dialogs == {"properties", "add", "delete"}

\* The items that a kind of object adds to its menu, and the settings with
\* which its is_enabled_func says no.
ItemsOf == [launcher |-> {"launch", "properties"}, menu |-> {"edit"},
            lock |-> {"lock", "activate", "prefs"}]
ForbiddenBy ==
  [launch |-> {}, properties |-> {Locked, "disable-command-line"}, edit |-> {Locked},
   lock |-> {"disable-lock-screen"}, activate |-> {}, prefs |-> {Locked, "disable-lock-screen"}]
Allowed(o, lock) == {i \in ItemsOf[KindOf[o]] : ForbiddenBy[i] \cap lock = {}}

MenuIds == ({"menu", "edit"} \X Objects) \cup ({"context"} \X Panels)

\* What the constants are.
MenusAssumption ==
  /\ IsFiniteSet(Panels) /\ Panels # {} /\ IsFiniteSet(Objects)
  /\ KindOf \in [Objects -> DOMAIN ItemsOf]
  /\ Nowhere \notin Panels \cup Objects \cup MenuIds \cup ({"main"} \X Panels)
  /\ MaxMenuOps \in Nat

NoMenu == [there |-> FALSE, items |-> {}, visible |-> FALSE, realized |-> FALSE]

\* panel_applet_get_menu, panel_applet_get_edit_menu, panel_context_menu_create
ObjectMenu(o, lock) == [NoMenu EXCEPT !.there = Allowed(o, lock) # {}, !.items = Allowed(o, lock)]
EditMenu(lock) == [NoMenu EXCEPT !.there = Locked \notin lock, !.items = {"move", "remove"}]
PanelMenu(lock) ==
  [NoMenu EXCEPT !.there = Locked \notin lock, !.items = Dialogs \cup {"new panel"}]

\* The panel that a menu keeps from hiding, when it is shown and when it goes down.
Home(id) == IF id[1] \in {"context", "main"} THEN id[2] ELSE panelOf[id[2]]
Visible(ids) == {id \in ids \cap MenuIds : menus[id].visible}
Popped(ids) ==
  [p \in Panels |-> Max({0, disablersOf[p] - Cardinality({id \in Visible(ids) : Home(id) = p})})]
\* panel_toplevel_push_autohide_disabler, panel_toplevel_pop_autohide_disabler
Push(n, p) == [n EXCEPT ![p] = @ + 1]
Pop(n, p) == [n EXCEPT ![p] = IF @ > 0 THEN @ - 1 ELSE 0]
MenusOf(o) == {<<"menu", o>>, <<"edit", o>>}
On(p) == {o \in Objects : panelOf[o] = p}

MenusInit ==
  /\ panels = <<CHOOSE p \in Panels : TRUE>>
  /\ panelOf = [o \in Objects |-> Nowhere]
  /\ lockdown = {}
  /\ menus = [id \in MenuIds |-> NoMenu]
  /\ grab = Nowhere /\ drag = Nowhere
  /\ dialogs = [p \in Panels |-> {}]
  /\ disablersOf = [p \in Panels |-> 0] /\ mainMenus = [p \in Panels |-> 0]
  /\ leaked = {} /\ strays = 0
  /\ crossed = FALSE /\ broken = FALSE /\ menuOps = 0

Begins == ~broken /\ menuOps < MaxMenuOps /\ menuOps' = menuOps + 1
Ends == ~broken /\ UNCHANGED menuOps

-----------------------------------------------------------------------------
(* Menus. *)

\* panel_applet_register, panel_applet_add_callback
RegisterApplet(o, p) ==
  /\ Begins
  /\ panelOf[o] = Nowhere /\ p \in ToSet(panels)
  /\ panelOf' = [panelOf EXCEPT ![o] = p]
  /\ menus' = [menus EXCEPT ![<<"menu", o>>] = ObjectMenu(o, lockdown)]
  /\ UNCHANGED <<panels, lockdown, grab, dialogs, drag, disablersOf,
                 mainMenus, leaked, strays, crossed, broken>>

\* gtk_menu_popup of the menu m; shown: gtk_widget_show was called before.
PoppedUp(id, m, shown, grabbed) ==
  LET visible == m.visible \/ shown \/ grabbed IN
  /\ grab = Nowhere
  /\ m.there
  /\ menus' = [menus EXCEPT ![id] = [m EXCEPT !.visible = visible, !.realized = @ \/ grabbed]]
  /\ disablersOf' = IF visible /\ ~m.visible THEN Push(disablersOf, Home(id)) ELSE disablersOf
  /\ grab' = IF grabbed THEN id ELSE Nowhere
  /\ UNCHANGED <<panels, panelOf, lockdown, dialogs, drag, mainMenus, leaked, strays, crossed, broken>>

\* applet_button_press, applet_key_press, applet_show_menu.  The menu is shown,
\* the first time, before it is popped up; it then stays so when the pointer
\* cannot be grabbed.
PopUpMenu(id, grabbed) ==
  LET new == IF id[1] = "menu" THEN ObjectMenu(id[2], lockdown) ELSE EditMenu(lockdown)
      m == IF menus[id].there THEN menus[id] ELSE new
  IN  /\ Begins
      /\ drag = Nowhere
      /\ id[1] # "context" /\ panelOf[id[2]] # Nowhere
      /\ PoppedUp(id, m, ~m.realized, grabbed)

\* panel_popup_menu, panel_menu_get
PopUpPanelMenu(p, grabbed) ==
  LET id == <<"context", p>> IN
  /\ Begins
  /\ p \in ToSet(panels)
  /\ PoppedUp(id, IF menus[id].there THEN menus[id] ELSE PanelMenu(lockdown), FALSE, grabbed)

\* applet_menu_deactivate, context_menu_deactivate.  The main menu of the key
\* has no such handler.
Deactivate ==
  /\ Ends
  /\ grab # Nowhere
  /\ grab' = Nowhere
  /\ disablersOf' = Popped({grab})
  /\ menus' = [id \in MenuIds |-> IF id = grab THEN [menus[id] EXCEPT !.visible = FALSE] ELSE menus[id]]
  /\ UNCHANGED <<panels, panelOf, lockdown, dialogs, drag, mainMenus, leaked, strays, crossed, broken>>

\* panel_action_protocol_main_menu, with no menu bar and no main menu on a panel
PopUpMainMenu(grabbed) ==
  LET p == Head(panels) IN
  /\ Begins
  /\ grab = Nowhere
  /\ disablersOf' = Push(disablersOf, p)
  /\ mainMenus' = [mainMenus EXCEPT ![p] = @ + 1]
  /\ grab' = IF grabbed THEN <<"main", p>> ELSE Nowhere
  /\ UNCHANGED <<panels, panelOf, lockdown, menus, dialogs, drag, leaked, strays, crossed, broken>>

\* Mutant of TakenDown: the menu that is up goes without being deactivated.
TakenDown_StillUp(ids) == disablersOf

\* What a change of the lockdown does to menus: those that are up are deactivated.
TakenDown(ids) == Popped(ids)

\* panel_applet_recreate_menu makes the menu again, the others come when they are asked for.
Rebuilt(id, lock) == IF id[1] = "menu" THEN ObjectMenu(id[2], lock) ELSE NoMenu

\* The menus whose handler runs (panel_lockdown_on_notify) and does something;
\* that of the edit menus only when the panels are locked.
Notified(locks) == {id \in MenuIds : menus[id].there /\ (id[1] # "edit" \/ locks)}

\* panel_applet_menu_lockdown_changed, panel_menu_lockdown_changed, and
\* panel_applet_edit_menu_lockdown_changed, which runs for every edit menu
\* there ever was that was not freed.
ChangeLockdown(k) ==
  LET lock == SymDiff(lockdown, {k})
      locks == k = Locked /\ k \in lock
      hit == Notified(locks)
  IN  /\ Begins
      /\ lockdown' = lock
      /\ menus' = [id \in MenuIds |-> IF id \in hit THEN Rebuilt(id, lock) ELSE menus[id]]
      /\ disablersOf' = TakenDown(hit)
      /\ grab' = IF grab \in hit THEN Nowhere ELSE grab
      /\ leaked' = leaked \cup {o \in Objects : <<"edit", o>> \in hit}
      /\ broken' = (locks /\ strays > 0)
      /\ UNCHANGED <<panels, panelOf, dialogs, drag, mainMenus, strays, crossed>>

-----------------------------------------------------------------------------
(* Objects and panels that go. *)

\* panel_applet_destroy, panel_widget_applet_destroy, for the objects os.  The
\* object has no widget any more when its menus are deactivated, and the
\* handler of that looks for the panel through the widget.
Gone(os) ==
  LET ids == UNION {MenusOf(o) : o \in os} IN
  /\ broken' = (Visible(ids) # {})
  /\ panelOf' = [o \in Objects |-> IF o \in os THEN Nowhere ELSE panelOf[o]]
  /\ drag' = IF drag \in os THEN Nowhere ELSE drag
  /\ strays' = strays + Cardinality(leaked \cap os)
  /\ leaked' = leaked \ os

\* panel_applet_clean
DestroyApplet(o) ==
  /\ Begins
  /\ panelOf[o] # Nowhere
  /\ Gone({o})
  /\ menus' = [id \in MenuIds |-> IF id \in MenusOf(o) THEN NoMenu ELSE menus[id]]
  /\ disablersOf' = IF drag = o THEN Pop(disablersOf, panelOf[o]) ELSE disablersOf
  /\ UNCHANGED <<panels, lockdown, grab, dialogs, mainMenus, crossed>>

\* panel_setup
NewPanel(p) ==
  /\ Begins
  /\ p \notin ToSet(panels)
  /\ panels' = Append(panels, p)
  /\ UNCHANGED <<panelOf, lockdown, menus, grab, dialogs, drag, disablersOf,
                 mainMenus, leaked, strays, crossed, broken>>

\* panel_destroy, panel_widget_destroy_open_dialogs
DestroyPanel(p) ==
  LET ids == {<<"context", p>>} \cup UNION {MenusOf(o) : o \in On(p)} IN
  /\ Begins
  /\ p \in ToSet(panels) /\ Len(panels) > 1
  /\ Gone(On(p))
  /\ \E i \in DOMAIN panels : panels[i] = p /\ panels' = RemoveAt(panels, i)
  /\ menus' = [id \in MenuIds |-> IF id \in ids THEN NoMenu ELSE menus[id]]
  /\ grab' = IF grab \in ids THEN Nowhere ELSE grab
  /\ dialogs' = [dialogs EXCEPT ![p] = {}]
  /\ disablersOf' = [disablersOf EXCEPT ![p] = 0]
  /\ mainMenus' = [mainMenus EXCEPT ![p] = 0]
  /\ UNCHANGED <<lockdown, crossed>>

-----------------------------------------------------------------------------
(* Dialogs and drags. *)

Opened(p, d) ==
  /\ Begins
  /\ p \in ToSet(panels) /\ menus[<<"context", p>>].there
  /\ grab = Nowhere /\ d \notin dialogs[p]
  /\ dialogs' = [dialogs EXCEPT ![p] = @ \cup {d}]
  /\ disablersOf' = Push(disablersOf, p)
  /\ UNCHANGED <<panels, panelOf, lockdown, menus, grab, drag, mainMenus, leaked, strays, crossed, broken>>

\* panel_properties_dialog_present, panel_addto_present: from the menu of the
\* panel, which is down by then.
OpenProperties(p) == Opened(p, "properties")
OpenAddTo(p) == Opened(p, "add")

\* panel_delete, when there is something on the panel: panel_query_deletion
AskDeletion(p) == On(p) # {} /\ Len(panels) > 1 /\ Opened(p, "delete")

\* panel_properties_dialog_destroy, panel_addto_dialog_destroy, panel_deletion_destroy_dialog
CloseDialog(p, d) ==
  /\ Ends
  /\ d \in dialogs[p]
  /\ dialogs' = [dialogs EXCEPT ![p] = @ \ {d}]
  /\ disablersOf' = Pop(disablersOf, p)
  /\ UNCHANGED <<panels, panelOf, lockdown, menus, grab, drag, mainMenus, leaked, strays, crossed, broken>>

\* move_applet_callback, panel_widget_applet_drag_start
BeginDrag(o) ==
  /\ Begins
  /\ drag = Nowhere /\ grab = Nowhere
  /\ panelOf[o] # Nowhere /\ Locked \notin lockdown
  /\ drag' = o
  /\ disablersOf' = Push(disablersOf, panelOf[o])
  /\ UNCHANGED <<panels, panelOf, lockdown, menus, grab, dialogs, mainMenus, leaked, strays, crossed, broken>>

\* panel_widget_applet_move_to_cursor: the drag ends there and begins here.
DragAcross(p) ==
  /\ Ends
  /\ drag # Nowhere /\ Locked \notin lockdown
  /\ p \in ToSet(panels) /\ p # panelOf[drag]
  /\ panelOf' = [panelOf EXCEPT ![drag] = p]
  /\ disablersOf' = Push(Pop(disablersOf, panelOf[drag]), p)
  /\ crossed' = (crossed \/ Visible(MenusOf(drag)) # {})
  /\ UNCHANGED <<panels, lockdown, menus, grab, dialogs, drag, mainMenus, leaked, strays, broken>>

\* panel_widget_applet_drag_end
EndDrag ==
  /\ Ends
  /\ drag # Nowhere
  /\ drag' = Nowhere
  /\ disablersOf' = Pop(disablersOf, panelOf[drag])
  /\ UNCHANGED <<panels, panelOf, lockdown, menus, grab, dialogs, mainMenus, leaked, strays, crossed, broken>>

MenusNext ==
  \/ \E o \in Objects, p \in Panels : RegisterApplet(o, p)
  \/ \E g \in BOOLEAN : \E id \in MenuIds : PopUpMenu(id, g)
  \/ \E g \in BOOLEAN : PopUpMainMenu(g) \/ \E p \in Panels : PopUpPanelMenu(p, g)
  \/ \E k \in LockdownKeys : ChangeLockdown(k)
  \/ \E o \in Objects : DestroyApplet(o) \/ BeginDrag(o)
  \/ \E p \in Panels : NewPanel(p) \/ DestroyPanel(p) \/ DragAcross(p)
                       \/ OpenProperties(p) \/ OpenAddTo(p) \/ AskDeletion(p)
  \/ \E p \in Panels, d \in Dialogs : CloseDialog(p, d)
  \/ Deactivate \/ EndDrag

MenusSpec == MenusInit /\ [][MenusNext]_menuOpVars

-----------------------------------------------------------------------------
(* Type invariant *)
MenusTypeOK ==
  /\ ToSet(panels) \subseteq Panels /\ IsInjective(panels) /\ panels # <<>>
  /\ \A o \in Objects : panelOf[o] \in ToSet(panels) \cup {Nowhere}
  /\ lockdown \subseteq LockdownKeys
  /\ \A p \in Panels : disablersOf[p] >= 0
  /\ ~broken /\ grab \in MenuIds => menus[grab].visible

\* What keeps panel p from hiding.
Holders(p) ==
  Cardinality({id \in Visible(MenuIds) : Home(id) = p}) + Cardinality(dialogs[p])
  + (IF drag # Nowhere /\ panelOf[drag] = p THEN 1 ELSE 0)

(* A panel is kept from hiding by as many menus, dialogs and drags as it has,  *)
(* whatever ended them: the objects that move, go or are locked down give back *)
(* what they took.  Only the main menu of the key never does, and a menu that   *)
(* was shown, without the pointer, while its object went to another panel.     *)
DisablersAreHolders ==
  ~broken /\ ~crossed => \A p \in Panels : disablersOf[p] = Holders(p) + mainMenus[p]

(* A menu that is there offers what the lockdown allows now, also one that was *)
(* up when the settings changed; no panel that is locked down has a menu of    *)
(* its own, or one to move or remove its objects.                              *)
MenusAreAllowed ==
  ~broken =>
    /\ \A o \in Objects : menus[<<"menu", o>>].there => menus[<<"menu", o>>].items = Allowed(o, lockdown)
    /\ Locked \in lockdown => \A id \in MenuIds : menus[id].there => id[1] = "menu"

(* Disablers and menus are what they are for, whatever takes objects, panels   *)
(* and rights away (panel_toplevel_push_autohide_disabler,                     *)
(* panel_applet_recreate_menu, panel_applet_edit_menu_lockdown_changed).       *)
MenusHoldThePanel == DisablersAreHolders /\ MenusAreAllowed
=============================================================================
