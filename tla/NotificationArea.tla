--------------------------- MODULE NotificationArea ---------------------------
(***************************************************************************)
(* The notification area: trays, which are the applets on the panels, one  *)
(* manager of the X selection, and the windows that other programs ask the *)
(* manager to embed.                                                       *)
(*                                                                         *)
(* The first tray makes the manager, and the last one that goes drops it;  *)
(* icons go to the first tray.  A request travels to the window of the     *)
(* manager, and the loss of an icon or of the selection is heard of later. *)
(*                                                                         *)
(* Code: applets/notification_area/{main,na-tray,na-tray-manager,          *)
(* na-tray-child}.c.  The balloon messages are not modelled: the filter    *)
(* hands their handlers the GdkEvent, which is still empty, instead of the *)
(* X event (na-tray-manager.c:483-499), so all of them are ignored.        *)
(***************************************************************************)
EXTENDS Integers, SequencesExt

CONSTANTS
  Trays,        \* the notification areas
  Windows,      \* the icon windows of other programs
  RolePosition, \* [Windows -> 0 .. 6]: from the class of the window, 0: no known role
  Paddings,     \* values of the style of the theme
  MaxTraySteps  \* changes made to the trays, the theme and the selection (bound)

\* A role has a number.
TrayAssumption == RolePosition \in [Windows -> Nat]

VARIABLES
  allTrays,     \* TraysScreen.all_trays
  orientation,  \* [Trays -> orientation of the applet]
  box,          \* [Trays -> the icons shown, in order]
  manager,      \* NaTrayManager: made, owner of the selection, what its properties say
  socketTable,  \* the windows in the socket_table of the manager
  clients,      \* [Windows -> "gone", "free", "asked" (to be embedded) or "embedded"]
  unplugged,    \* windows in a socket whose loss is not heard of yet
  theme,        \* the padding that the theme asks for
  background,   \* of the panel
  drawn,        \* [Windows -> the background that the icon was drawn on]
  redraws,      \* trays with an idle_redraw_id
  traySteps     \* how much of MaxTraySteps is used

trayVars == <<allTrays, orientation, box, manager, socketTable, clients, unplugged,
              theme, background, drawn, redraws, traySteps>>

NoManager == [made |-> FALSE, owner |-> FALSE, orientation |-> "horizontal", padding |-> 0]

TrayInit ==
  /\ allTrays = <<>>
  /\ orientation = [t \in Trays |-> "horizontal"]
  /\ box = [t \in Trays |-> <<>>]
  /\ manager = NoManager
  /\ socketTable = {} /\ unplugged = {} /\ redraws = {}
  /\ clients = [w \in Windows |-> "free"]
  /\ theme = 0 /\ background = 0 /\ traySteps = 0
  /\ drawn = [w \in Windows |-> 0]

TrayStep == traySteps < MaxTraySteps /\ traySteps' = traySteps + 1

\* get_tray
IsFirst(t, trays) == trays # <<>> /\ Head(trays) = t

\* na_tray_manager_set_orientation, na_tray_manager_set_padding.  Without the
\* selection there is no window that has the property.
TellOrientation(m, o) == [m EXCEPT !.orientation = o]
TellPadding(m, p) == [m EXCEPT !.padding = p]

\* A request that is under way when the window it goes to is destroyed is lost.
RequestsLost == [w \in Windows |-> IF clients[w] = "asked" THEN "free" ELSE clients[w]]

\* na_tray_manager_manage_screen_x11
Managing == [NoManager EXCEPT !.made = TRUE, !.owner = TRUE]

\* find_icon_position: behind the last icon that has no role or an earlier one.
Position(icons, w) ==
  LET before == {i \in DOMAIN icons : RolePosition[icons[i]] = 0
                                      \/ RolePosition[icons[i]] < RolePosition[w]}
  IN  IF RolePosition[w] = 0 \/ before = {} THEN 1 ELSE Max(before) + 1

\* na_tray_applet_realize, na_tray_constructor
RealizeTray(t) ==
  LET trays == Append(allTrays, t)
      known == IF manager.made THEN manager ELSE Managing
  IN  /\ TrayStep
      /\ t \notin ToSet(allTrays)
      /\ allTrays' = trays
      /\ manager' = IF IsFirst(t, trays)
                    THEN TellPadding(TellOrientation(known, orientation[t]), theme) ELSE known
      /\ UNCHANGED <<orientation, box, socketTable, clients, unplugged, theme, background, drawn, redraws>>

\* na_tray_applet_unrealize, na_tray_dispose.  The icons of the tray go with
\* it; the manager is told nothing of that.
Unrealize(t) ==
  LET trays == RemoveFirst(allTrays, t)
      known == IF trays = <<>> THEN RequestsLost ELSE clients
  IN
  /\ TrayStep
  /\ t \in ToSet(allTrays)
  /\ allTrays' = trays
  /\ manager' = IF trays = <<>> THEN NoManager
                ELSE TellOrientation(manager, orientation[Head(trays)])
  /\ socketTable' = IF trays = <<>> THEN {} ELSE socketTable
  /\ box' = [box EXCEPT ![t] = <<>>]
  /\ clients' = [w \in Windows |-> IF w \in ToSet(box[t]) \ unplugged THEN "free" ELSE known[w]]
  /\ unplugged' = unplugged \ ToSet(box[t])
  /\ redraws' = redraws \ {t}
  /\ UNCHANGED <<orientation, theme, background, drawn>>

\* na_tray_applet_change_orient, na_tray_set_orientation
ChangeOrient(t, o) ==
  /\ TrayStep
  /\ orientation[t] # o
  /\ orientation' = [orientation EXCEPT ![t] = o]
  /\ manager' = IF IsFirst(t, allTrays) THEN TellOrientation(manager, o) ELSE manager
  /\ UNCHANGED <<allTrays, box, socketTable, clients, unplugged, theme, background, drawn, redraws>>

\* na_tray_applet_style_updated, for every tray; na_tray_set_padding
ChangeTheme(p) ==
  /\ TrayStep
  /\ p # theme
  /\ theme' = p
  /\ manager' = IF allTrays # <<>> THEN TellPadding(manager, p) ELSE manager
  /\ UNCHANGED <<allTrays, orientation, box, socketTable, clients, unplugged, background, drawn, redraws>>

\* na_tray_applet_change_background, na_tray_force_redraw
ChangeBackground ==
  /\ TrayStep
  /\ background' = background + 1
  /\ redraws' = ToSet(allTrays)
  /\ UNCHANGED <<allTrays, orientation, box, manager, socketTable, clients, unplugged, theme, drawn>>

\* idle_redraw_cb, na_tray_child_force_redraw
IdleRedraw(t) ==
  /\ t \in redraws
  /\ redraws' = redraws \ {t}
  /\ drawn' = [w \in Windows |-> IF w \in ToSet(box[t]) THEN background ELSE drawn[w]]
  /\ UNCHANGED <<allTrays, orientation, box, manager, socketTable, clients, unplugged, theme,
                 background, traySteps>>

\* Another program takes the selection: SelectionClear, na_tray_manager_unmanage.
\* The icons that are embedded stay.
LoseSelection ==
  /\ TrayStep
  /\ manager.owner
  /\ manager' = [manager EXCEPT !.owner = FALSE]
  /\ clients' = RequestsLost
  /\ UNCHANGED <<allTrays, orientation, box, socketTable, unplugged, theme, background, drawn, redraws>>

\* The program of an icon asks the owner of the selection to embed it.
AskToEmbed(w) ==
  /\ manager.owner
  /\ clients[w] = "free"
  /\ clients' = [clients EXCEPT ![w] = "asked"]
  /\ UNCHANGED <<allTrays, orientation, box, manager, socketTable, unplugged, theme, background, drawn,
                 redraws, traySteps>>

\* The program of an icon ends, or takes its window back.
Quit(w) ==
  /\ TrayStep
  /\ clients[w] # "gone" /\ w \notin unplugged
  /\ clients' = [clients EXCEPT ![w] = "gone"]
  /\ unplugged' = IF clients[w] = "embedded" THEN unplugged \cup {w} ELSE unplugged
  /\ UNCHANGED <<allTrays, orientation, box, manager, socketTable, theme, background, drawn, redraws>>

\* A window with the same number is made later.
StartAgain(w) ==
  /\ TrayStep
  /\ clients[w] = "gone" /\ w \notin unplugged
  /\ clients' = [clients EXCEPT ![w] = "free"]
  /\ UNCHANGED <<allTrays, orientation, box, manager, socketTable, unplugged, theme, background, drawn,
                 redraws>>

\* na_tray_manager_handle_dock_request, na_tray_child_new, tray_added.  A window
\* that is in the table is refused without a word.
DockRequest(w) ==
  /\ clients[w] = "asked"
  /\ IF w \notin socketTable
     THEN LET t == Head(allTrays) IN
          /\ box' = [box EXCEPT ![t] = InsertAt(@, Position(@, w), w)]
          /\ socketTable' = socketTable \cup {w}
          /\ drawn' = [drawn EXCEPT ![w] = background]
          /\ clients' = [clients EXCEPT ![w] = "embedded"]
     ELSE /\ clients' = [clients EXCEPT ![w] = "free"]
          /\ UNCHANGED <<box, socketTable, drawn>>
  /\ UNCHANGED <<allTrays, orientation, manager, unplugged, theme, background, redraws, traySteps>>

\* na_tray_manager_plug_removed, tray_removed
PlugRemoved(w) ==
  /\ w \in unplugged
  /\ unplugged' = unplugged \ {w}
  /\ socketTable' = socketTable \ {w}
  /\ box' = [t \in Trays |-> RemoveFirst(box[t], w)]
  /\ UNCHANGED <<allTrays, orientation, manager, clients, theme, background, drawn, redraws, traySteps>>

TrayNext ==
  \/ \E t \in Trays : RealizeTray(t) \/ Unrealize(t) \/ IdleRedraw(t)
  \/ \E t \in Trays, o \in {"horizontal", "vertical"} : ChangeOrient(t, o)
  \/ \E p \in Paddings : ChangeTheme(p)
  \/ ChangeBackground \/ LoseSelection
  \/ \E w \in Windows : AskToEmbed(w) \/ Quit(w) \/ StartAgain(w) \/ DockRequest(w) \/ PlugRemoved(w)

TraySpec == TrayInit /\ [][TrayNext]_trayVars

-----------------------------------------------------------------------------
(* Type invariant *)
TrayTypeOK ==
  /\ ToSet(allTrays) \subseteq Trays /\ IsInjective(allTrays)
  /\ \A t \in Trays : ToSet(box[t]) \subseteq Windows /\ (t \notin ToSet(allTrays) => box[t] = <<>>)
  /\ manager.made <=> allTrays # <<>>
  /\ unplugged \subseteq socketTable

(* The icons of all trays are the windows that are embedded and those whose    *)
(* loss is not heard of yet; the manager knows each of them; and those with a  *)
(* known role stand behind the others in the order of the roles.               *)
IconsAreEmbedded ==
  /\ \A t, o \in Trays : t # o => ToSet(box[t]) \cap ToSet(box[o]) = {}
  /\ \A t \in Trays :
       /\ IsInjective(box[t])
       /\ \A i, j \in DOMAIN box[t] : i < j => RolePosition[box[t][i]] <= RolePosition[box[t][j]]
  /\ UNION {ToSet(box[t]) : t \in Trays} = {w \in Windows : clients[w] = "embedded"} \cup unplugged
  /\ UNION {ToSet(box[t]) : t \in Trays} \subseteq socketTable

(* What programs are told of the tray is what the tray is that would show      *)
(* their icons, and an icon that is shown stands on the background of today    *)
(* unless it is about to be drawn again.                                       *)
ToldIsFirstTray ==
  /\ allTrays # <<>> /\ manager.owner =>
       manager.orientation = orientation[Head(allTrays)] /\ manager.padding = theme
  /\ \A t \in Trays \ redraws : \A w \in ToSet(box[t]) : drawn[w] = background
=============================================================================
