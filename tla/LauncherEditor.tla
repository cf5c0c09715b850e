---------------------------- MODULE LauncherEditor ----------------------------
(***************************************************************************)
(* A launcher of a panel and the dialog that makes and edits launchers.    *)
(*                                                                         *)
(* The dialog edits the launcher's own key file in memory.  What is shown  *)
(* reaches the key file through handlers of the entries, which also run    *)
(* when the dialog itself sets the entries; the key file is written two    *)
(* seconds after the last change, when the dialog is closed, or when it    *)
(* is destroyed with a change pending.  A launcher of the system's         *)
(* applications gets a file of its own at the first write.                 *)
(*                                                                         *)
(* Code: gnome-panel/panel-ditem-editor.c and gnome-panel/launcher.c.      *)
(* One launcher, and one dialog, exist at a time.                          *)
(***************************************************************************)
EXTENDS Naturals, FiniteSets, Functions

CONSTANTS
  LauncherNames,   \* names
  Commands,        \* commands, and locations of links
  Icons,           \* icons that can be chosen
  DefaultIcon,     \* PANEL_ICON_LAUNCHER, one of Icons
  Guess,           \* guess_icon_from_exec: the icon of a command, or Nothing
  Nothing,         \* no string, no icon, no file
  SystemKey,       \* the key file of an application of the system
  MaxFiles,        \* files of the user (bound)
  MaxChangesMade   \* changes by the user (bound)

VARIABLES
  lau,             \* Launcher, PanelDItemEditorPrivate and the user's files
  changesMade      \* how much of MaxChangesMade is used

lauVars == <<lau, changesMade>>

ItemTypes == {"application", "terminal", "link"}
System == 0
OwnFiles == 1 .. MaxFiles

KeyFiles == [type : ItemTypes, exec : Commands \cup {Nothing}, url : Commands \cup {Nothing},
             name : LauncherNames \cup {Nothing}, full : LauncherNames \cup {Nothing},
             icon : Icons \cup {Nothing}, notify : BOOLEAN]

\* panel_key_file_new_desktop, as ask_about_launcher completes it
NewKey(file) == [type |-> "application", exec |-> file, url |-> Nothing, name |-> Nothing,
                 full |-> Nothing, icon |-> DefaultIcon, notify |-> FALSE]

\* A dialog that is not there.
NoDialog(l) ==
  [l EXCEPT !.open = FALSE, !.new = FALSE, !.name = Nothing, !.type = "application",
            !.command = Nothing, !.icon = Nothing, !.timer = FALSE, !.dirty = FALSE,
            !.reverting = FALSE, !.canRevert = FALSE, !.revert = NewKey(Nothing)]

\* What the dialog shows of a key file: panel_ditem_editor_sync_display.
NameShown(k) == IF k.full # Nothing THEN k.full ELSE k.name
CommandShown(k) == IF k.type = "link" THEN k.url ELSE k.exec
IconShown(k) == IF k.icon = Nothing THEN DefaultIcon ELSE k.icon

\* An application of the system has a key file, and some commands an icon.
LauncherAssumption ==
  /\ SystemKey \in KeyFiles /\ DefaultIcon \in Icons
  /\ Guess \in [Commands -> Icons \cup {Nothing}]
  /\ Nothing \notin Icons \cup Commands \cup LauncherNames
  /\ MaxFiles \in Nat

-----------------------------------------------------------------------------
(* The handlers of the entries, each followed by panel_ditem_editor_changed. *)

\* panel_ditem_editor_changed
Touched(l) == [l EXCEPT !.timer = @ \/ ~l.new, !.canRevert = @ \/ ~l.new, !.dirty = TRUE]

\* setup_icon_chooser, panel_ditem_editor_icon_changed
WithChosenIcon(l, i) ==
  IF l.icon = i THEN l ELSE Touched([l EXCEPT !.icon = i, !.key = [l.key EXCEPT !.icon = i]])

\* panel_ditem_editor_name_changed
WithName(l, n) ==
  IF l.name = n THEN l
  ELSE Touched([l EXCEPT !.name = n,
         !.key = IF l.reverting THEN @ ELSE [l.key EXCEPT !.name = n, !.full = Nothing]])

\* type_combo_changed
WithType(l, t) ==
  IF l.type = t THEN l ELSE Touched([l EXCEPT !.type = t, !.key = [l.key EXCEPT !.type = t]])

\* launcher_command_changed, for the dialog of an existing launcher
NotifyKept(l) ==
  IF l.new \/ (l.key.exec # Nothing /\ l.key.exec = l.revert.exec) THEN l
  ELSE [l EXCEPT !.key = [l.key EXCEPT !.notify = FALSE]]

\* panel_ditem_editor_command_changed
WithCommand(l, c) ==
  LET link == l.type = "link"
      k == [l.key EXCEPT !.exec = IF link THEN Nothing ELSE c, !.url = IF link THEN c ELSE Nothing]
      s == [l EXCEPT !.command = c, !.key = k]
      guessed == ~link /\ c # Nothing /\ Guess[c] \notin {Nothing, k.icon}
  IN  IF l.command = c THEN l
      ELSE Touched(NotifyKept(IF guessed THEN WithChosenIcon(s, Guess[c]) ELSE s))

\* panel_ditem_editor_sync_display
Synced(l) ==
  LET named == WithName(l, NameShown(l.key))
      typed == WithType(named, named.key.type)
      commanded == WithCommand(typed, CommandShown(typed.key))
  IN  [WithChosenIcon(commanded, IconShown(commanded.key)) EXCEPT !.timer = FALSE]

\* panel_ditem_editor_revert: StartupNotify is not one of the revert_keys.
Reverted(l) ==
  LET s == Synced([l EXCEPT !.reverting = TRUE, !.key = [l.revert EXCEPT !.notify = l.key.notify]])
  IN  [s EXCEPT !.reverting = FALSE, !.timer = TRUE, !.canRevert = FALSE]

-----------------------------------------------------------------------------
(* Writing. *)

\* panel_make_unique_desktop_uri: the first name that no file has.
UniqueUri(own) ==
  CHOOSE u \in OwnFiles : u \notin DOMAIN own /\ \A v \in OwnFiles \ DOMAIN own : u <= v

\* launcher_save_uri: the file of the launcher, or a new one of the user.
UriFor(l) == IF l.location \in OwnFiles THEN l.location ELSE UniqueUri(l.own)

\* panel_key_file_to_file
Write(own, u, k) == [v \in {u} \cup DOMAIN own |-> IF v = u THEN k ELSE own[v]]

\* Mutant of Saved: the setting of the launcher keeps the file of the system.
Saved_LocationStays(l, written) ==
  IF ~l.dirty \/ l.name = Nothing \/ l.command = Nothing \/ ~written
  THEN [l EXCEPT !.timer = FALSE, !.failed = @ \/ l.dirty]
  ELSE [l EXCEPT !.timer = FALSE, !.dirty = FALSE, !.failed = FALSE,
                 !.own = Write(@, UriFor(l), l.key),
                 !.location = IF l.new THEN UriFor(l) ELSE @]

\* panel_ditem_editor_save, with launcher_saved or launcher_new_saved.  It has
\* failed when the dialog is still dirty.
Saved(l, written) ==
  IF ~l.dirty \/ l.name = Nothing \/ l.command = Nothing \/ ~written
  THEN [l EXCEPT !.timer = FALSE, !.failed = @ \/ l.dirty]
  ELSE [l EXCEPT !.timer = FALSE, !.dirty = FALSE, !.failed = FALSE,
                 !.own = Write(@, UriFor(l), l.key), !.location = UriFor(l)]

\* panel_ditem_editor_dispose
EditorDestroyed(l, written) == NoDialog(IF l.timer THEN Saved(l, written) ELSE l)

-----------------------------------------------------------------------------
(* The steps. *)

LauncherInit ==
  /\ changesMade = 0
  /\ lau = NoDialog([alive |-> FALSE, location |-> Nothing, own |-> <<>>, failed |-> FALSE,
                     key |-> SystemKey, open |-> FALSE, new |-> FALSE, name |-> Nothing,
                     type |-> "application", command |-> Nothing, icon |-> Nothing,
                     timer |-> FALSE, dirty |-> FALSE, reverting |-> FALSE,
                     canRevert |-> FALSE, revert |-> SystemKey])

EditStep == changesMade < MaxChangesMade /\ changesMade' = changesMade + 1

\* There is room for one more file (bound).
Room == \E u \in OwnFiles : u \notin DOMAIN lau.own

\* panel_launcher_create of an application, panel_launcher_create_copy of
\* one, panel_launcher_create_from_info for a program or a link.
CreateLauncher(location, k) ==
  /\ EditStep
  /\ ~lau.alive /\ ~lau.open
  /\ lau' = [lau EXCEPT !.alive = TRUE, !.location = location, !.key = k, !.failed = FALSE,
                        !.own = IF location = System THEN @ ELSE Write(@, location, k)]

\* panel_ditem_editor_setup_ui, of a dialog without a key file: setting the
\* first type already makes it dirty.
SetUpNew(l) == [l EXCEPT !.open = TRUE, !.new = TRUE, !.icon = DefaultIcon, !.dirty = TRUE]

\* ask_about_launcher
AskNew(file) ==
  /\ EditStep
  /\ ~lau.alive /\ ~lau.open /\ Room
  /\ lau' = Synced([SetUpNew(lau) EXCEPT !.key = NewKey(file)])

\* panel_ditem_editor_key_file_loaded: the handlers are blocked.
KeyFileLoaded(l) ==
  [l EXCEPT !.open = TRUE, !.name = NameShown(l.key), !.type = l.key.type,
            !.command = CommandShown(l.key), !.icon = IconShown(l.key), !.revert = l.key]

\* launcher_properties
OpenLauncher ==
  /\ EditStep
  /\ lau.alive /\ ~lau.open /\ Room
  /\ lau' = KeyFileLoaded(lau)

\* The user changes an entry.
EditName(n) == EditStep /\ lau.open /\ lau' = WithName(lau, n)
EditCommand(c) == EditStep /\ lau.open /\ lau' = WithCommand(lau, c)
EditIcon(i) == EditStep /\ lau.open /\ lau' = WithChosenIcon(lau, i)

\* The types of a new launcher; an application only changes its terminal.
EditType(t) ==
  /\ EditStep
  /\ lau.open
  /\ lau.new \/ "link" \notin {t, lau.type}
  /\ lau' = WithType(lau, t)

\* panel_ditem_editor_save_timeout
SaveTimeout(written) ==
  /\ lau.open /\ lau.timer
  /\ lau' = Saved(lau, written)
  /\ UNCHANGED changesMade

\* response_cb: GTK_RESPONSE_OK, GTK_RESPONSE_CLOSE
CloseEditor(written) ==
  /\ lau.open
  /\ LET s == Saved(lau, written)
     IN  lau' = IF s.dirty THEN s ELSE [NoDialog(s) EXCEPT !.alive = TRUE]
  /\ UNCHANGED changesMade

\* response_cb: REVERT_BUTTON
Revert ==
  /\ lau.open /\ lau.canRevert
  /\ lau' = Reverted(lau)
  /\ UNCHANGED changesMade

\* response_cb: GTK_RESPONSE_DELETE_EVENT, GTK_RESPONSE_CANCEL
DeleteDialog(written) ==
  /\ lau.open
  /\ lau' = EditorDestroyed(IF lau.new THEN lau ELSE Reverted(lau), written)
  /\ UNCHANGED changesMade

\* panel_applet_clean: the file is deleted, then the widgets are destroyed.
RemoveLauncher(written) ==
  /\ EditStep
  /\ lau.alive
  /\ LET deleted == [lau EXCEPT !.own = Restrict(@, DOMAIN @ \ {lau.location})]
     IN  lau' = [EditorDestroyed(deleted, written) EXCEPT !.alive = FALSE, !.location = Nothing]

\* create_launcher: the key file that is read from a location.
Read(l) == IF l.location = System THEN SystemKey ELSE l.own[l.location]

\* The panel ends without warning and starts again: launcher_load.
Restart ==
  /\ EditStep
  /\ lau' = [NoDialog(lau) EXCEPT !.failed = FALSE, !.key = IF lau.alive THEN Read(lau) ELSE @]

LauncherNext ==
  \/ CreateLauncher(System, SystemKey)
  \/ \E u \in OwnFiles \ DOMAIN lau.own : CreateLauncher(u, SystemKey)
  \/ \E u \in OwnFiles \ DOMAIN lau.own, c \in Commands, n \in LauncherNames :
       CreateLauncher(u, [NewKey(Nothing) EXCEPT !.type = "link", !.url = c, !.name = n])
  \/ \E f \in Commands \cup {Nothing} : AskNew(f)
  \/ OpenLauncher \/ Revert \/ Restart
  \/ \E n \in LauncherNames \cup {Nothing} : EditName(n)
  \/ \E c \in Commands \cup {Nothing} : EditCommand(c)
  \/ \E i \in Icons : EditIcon(i)
  \/ \E t \in ItemTypes : EditType(t)
  \/ \E w \in BOOLEAN : SaveTimeout(w) \/ CloseEditor(w) \/ DeleteDialog(w) \/ RemoveLauncher(w)

LauncherSpec == LauncherInit /\ [][LauncherNext]_lauVars

-----------------------------------------------------------------------------
(* Type invariant.  A new dialog is never written by a timer, and a launcher *)
(* has a file at its location.                                               *)
LauncherTypeOK ==
  /\ lau.key \in KeyFiles /\ lau.revert \in KeyFiles
  /\ DOMAIN lau.own \subseteq OwnFiles
  /\ \A u \in DOMAIN lau.own : lau.own[u] \in KeyFiles
  /\ lau.alive => lau.location \in {System} \cup DOMAIN lau.own
  /\ lau.new => lau.open /\ ~lau.timer
  /\ ~lau.reverting

(* A launcher without a dialog is what its file says, so it is the same      *)
(* after the next start of the panel: whichever way the dialog was closed,   *)
(* and whatever was written before, nothing edited or reverted is left in    *)
(* memory only (panel_ditem_editor_dispose: "something changed after last    *)
(* save, so we must save again now").  It may differ when a write failed.    *)
(* Two key files are the same when the dialog shows the same of them: a      *)
(* revert that changes no entry, only which key holds its text, is not       *)
(* written (panel_ditem_editor_revert does not set dirty).                   *)
LauncherIsStored ==
  lau.alive /\ ~lau.open /\ ~lau.failed =>
    LET stored == Read(lau)
    IN  /\ NameShown(lau.key) = NameShown(stored)
        /\ CommandShown(lau.key) = CommandShown(stored)
        /\ IconShown(lau.key) = IconShown(stored)
        /\ lau.key.type = stored.type /\ lau.key.notify = stored.notify

(* Reverting, with the button or by closing the window, restores the key     *)
(* file that the dialog was opened with, though the handlers of the entries  *)
(* that are set again run meanwhile.  What the code does not restore: the    *)
(* icon when the command has one of its own, an icon that was not set, and   *)
(* StartupNotify.                                                            *)
RevertUndoes ==
  [][(Revert \/ (~lau.new /\ \E w \in BOOLEAN : DeleteDialog(w))) =>
       LET was == lau.revert IN
       /\ lau'.key.name = was.name /\ lau'.key.full = was.full
       /\ lau'.key.type = was.type /\ CommandShown(lau'.key) = CommandShown(was)
       /\ IconShown(lau'.key) = IconShown(was)
          \/ (was.exec # Nothing /\ lau'.key.icon = Guess[was.exec])]_lauVars
=============================================================================
