------------------------------ MODULE RunDialog ------------------------------
(***************************************************************************)
(* The dialog that runs a command.                                         *)
(*                                                                         *)
(* A command is typed, picked from the history, dropped, or chosen in the  *)
(* list of applications.  Two handlers of low priority work behind it: one *)
(* fills the list once, one looks up the application that the text names   *)
(* and gives the dialog its picture and its name.  The picture can be      *)
(* dragged away as a launcher of the command.                              *)
(*                                                                         *)
(* Code: gnome-panel/panel-run-dialog.c.                                   *)
(***************************************************************************)
EXTENDS Naturals, Sequences, SequencesExt, FiniteSets

CONSTANTS
  Apps,         \* the applications of the list; the text of one names it
  OtherTexts,   \* the texts that name no application
  Empty,        \* no text, no name, no file
  MaxHistory,   \* PANEL_RUN_MAX_HISTORY, which is 20 (bound)
  MaxRunSteps   \* changes of text and settings (bound)

VARIABLES
  run,          \* PanelRunDialog
  idles,        \* handlers queued to fill a list: true when its dialog lives
  history,      \* the commands that worked, the last first
  listEnabled,  \* enable-program-list
  noCommands,   \* the lockdown of the command line
  runSteps      \* how much of MaxRunSteps is used

runVars == <<run, idles, history, listEnabled, noCommands, runSteps>>

\* An empty text is no command.
RunAssumption == Empty \notin Apps \cup OtherTexts

Texts == Apps \cup OtherTexts \cup {Empty}

Closed ==
  [open |-> FALSE, text |-> Empty, useList |-> FALSE, path |-> Empty, name |-> Empty,
   icon |-> Empty, picture |-> Empty, loaded |-> FALSE, find |-> FALSE, visible |-> {},
   steady |-> TRUE, pasted |-> FALSE, runnable |-> FALSE]

\* panel_run_dialog_find_command_idle: the application that t names.
AppOf(t) == IF t \in Apps THEN t ELSE Empty

\* panel_run_dialog_set_icon: the icon that the dialog has is not set again.
WithIcon(r, i) ==
  IF i # Empty /\ i = r.icon THEN r ELSE [r EXCEPT !.icon = i, !.picture = i]

\* combobox_changed
Changed(r) ==
  LET s == IF r.useList THEN r ELSE [r EXCEPT !.path = Empty, !.name = Empty]
  IN  IF r.text = Empty
      THEN [s EXCEPT !.runnable = FALSE, !.picture = Empty, !.find = FALSE,
                     !.visible = IF listEnabled /\ r.loaded THEN Apps ELSE @]
      ELSE [s EXCEPT !.runnable = TRUE, !.find = @ \/ (listEnabled /\ ~r.useList)]

RunInit ==
  /\ run = Closed /\ idles = <<>> /\ history = <<>>
  /\ listEnabled = TRUE /\ noCommands = FALSE /\ runSteps = 0

Step == runSteps < MaxRunSteps /\ runSteps' = runSteps + 1

\* panel_run_dialog_update_program_list, for a dialog whose list is as in r.
Queued(r) == IF listEnabled' /\ ~r.loaded THEN Append(idles, TRUE) ELSE idles

\* panel_run_dialog_present
Present ==
  /\ Step
  /\ ~noCommands
  /\ listEnabled' = listEnabled
  /\ IF run.open THEN UNCHANGED <<run, idles>>
     ELSE /\ run' = [Closed EXCEPT !.open = TRUE]
          /\ idles' = Queued(run')
  /\ UNCHANGED <<history, noCommands>>

\* A setting of the list changes: whether it is used, or only shown.
ChangeListSetting(enable) ==
  /\ Step
  /\ run.open
  /\ listEnabled' = enable
  /\ run' = [run EXCEPT !.steady = @ /\ enable = listEnabled]
  /\ idles' = Queued(run)
  /\ UNCHANGED <<history, noCommands>>

ChangeNoCommands ==
  /\ Step
  /\ noCommands' = ~noCommands
  /\ UNCHANGED <<run, idles, history, listEnabled>>

\* entry_event: a key is pressed in the entry.  It need not change the text, as an
\* arrow; what is completed is typed too, and may be what was there.
TypeText(t) ==
  /\ Step
  /\ run.open
  /\ LET r == [run EXCEPT !.useList = FALSE]
     IN  \/ t = run.text /\ run' = r
         \/ /\ t = run.text => t # Empty
            /\ run' = Changed([r EXCEPT !.text = t, !.pasted = FALSE])
  /\ UNCHANGED <<idles, history, listEnabled, noCommands>>

\* The text comes from the history, a drop, the file chooser or the clipboard;
\* pasted: it took the place of the text of an application chosen in the list.
PasteText(t) ==
  /\ Step
  /\ run.open /\ t # run.text
  /\ run' = Changed([run EXCEPT !.text = t, !.pasted = run.useList])
  /\ UNCHANGED <<idles, history, listEnabled, noCommands>>

\* program_list_selection_changed: every icon made here is a new one.
SelectProgram(a) ==
  /\ Step
  /\ run.open /\ run.loaded /\ listEnabled /\ a \in run.visible
  /\ LET r == Changed([run EXCEPT !.useList = TRUE, !.path = a, !.name = Empty,
                                  !.text = a, !.pasted = FALSE])
     IN  run' = [r EXCEPT !.icon = Empty, !.picture = a]
  /\ UNCHANGED <<idles, history, listEnabled, noCommands>>

\* panel_run_dialog_add_items_idle, of the dialog that is open.
AddItems ==
  /\ idles # <<>> /\ Head(idles)
  /\ idles' = Tail(idles)
  /\ run' = [run EXCEPT !.loaded = TRUE, !.visible = Apps]
  /\ UNCHANGED <<history, listEnabled, noCommands, runSteps>>

\* The same, of a dialog that was closed and freed: nobody removed the handler,
\* and what it then does is not modelled.
AddItemsOfFreed ==
  /\ idles # <<>> /\ ~Head(idles)
  /\ idles' = Tail(idles)
  /\ UNCHANGED <<run, history, listEnabled, noCommands, runSteps>>

\* panel_run_dialog_find_command_idle, which was queued after the list's.
FindCommand ==
  /\ run.open /\ run.find
  /\ run.loaded \/ idles = <<>>
  /\ LET found == IF run.loaded THEN AppOf(run.text) ELSE Empty
         r == WithIcon([run EXCEPT !.find = FALSE], found)
     IN  run' = IF ~run.loaded THEN r
                ELSE [r EXCEPT !.name = found, !.visible = {found} \cap Apps]
  /\ UNCHANGED <<idles, history, listEnabled, noCommands, runSteps>>

\* panel_run_dialog_destroy: the source of the handler that was queued last is
\* removed, no other; nor is that one when another of the same dialog has run, for
\* it zeroed add_items_idle_id.
Forgotten == [i \in DOMAIN idles |-> FALSE]
Destroyed ==
  IF idles # <<>> /\ Last(idles) /\ ~run.loaded THEN Front(Forgotten) ELSE Forgotten

\* _panel_run_save_recent_programs_list
Remembered(t) ==
  IF history # <<>> /\ history[1] = t THEN history
  ELSE <<t>> \o (IF Len(history) < MaxHistory THEN history ELSE Front(history))

\* panel_run_dialog_execute: the dialog stays when nothing could be run or shown.
Execute(works) ==
  /\ run.open /\ run.runnable
  /\ IF works
     THEN /\ history' = Remembered(run.text)
          /\ run' = Closed
          /\ idles' = Destroyed
     ELSE UNCHANGED <<run, idles, history>>
  /\ UNCHANGED <<listEnabled, noCommands, runSteps>>

Cancel ==
  /\ run.open
  /\ run' = Closed
  /\ idles' = Destroyed
  /\ UNCHANGED <<history, listEnabled, noCommands, runSteps>>

RunNext ==
  \/ Present \/ ChangeNoCommands \/ AddItems \/ AddItemsOfFreed \/ FindCommand \/ Cancel
  \/ \E e, w \in BOOLEAN : ChangeListSetting(e) \/ Execute(w)
  \/ \E t \in Texts : TypeText(t) \/ PasteText(t)
  \/ \E a \in Apps : SelectProgram(a)

RunSpec == RunInit /\ [][RunNext]_runVars

-----------------------------------------------------------------------------
(***************************************************************************)
(* Properties.                                                             *)
(***************************************************************************)
RunTypeOK ==
  /\ run.text \in Texts /\ {run.path, run.name, run.icon, run.picture} \subseteq Texts
  /\ run.visible \subseteq Apps
  /\ {run.open, run.useList, run.loaded, run.find, run.runnable} \subseteq BOOLEAN
  /\ idles \in Seq(BOOLEAN) /\ Len(history) <= MaxHistory
  /\ \A i \in DOMAIN history : history[i] # Empty
  /\ \A i \in 1..(Len(history) - 1) : history[i] # history[i + 1]

\* pixmap_drag_data_get, panel_run_dialog_create_desktop_file: the file of the
\* chosen application, or a new one by the name that was looked up.
Dragged == IF run.useList /\ run.path # Empty THEN run.path
           ELSE IF run.name # Empty THEN run.name ELSE AppOf(run.text)

\* The command was erased and typed again: its icon is thought to be shown.
Retyped == run.picture = Empty /\ run.icon = AppOf(run.text)

\* The launcher that is dragged away is of the command in the entry, unless the
\* text of a chosen application was replaced other than with the keyboard, which
\* is not noticed until something else is typed: a key that changes no text only
\* drops the file of the application, not its name and its icon.  Once nothing is
\* left to be looked up the picture is of that command too, unless it was typed
\* twice or the list was off meanwhile.
DragIsOfText ==
  run.open /\ run.text # Empty =>
    /\ run.runnable
    /\ Dragged = AppOf(run.text) \/ run.pasted
    /\ ~run.find /\ run.loaded /\ run.steady =>
         run.picture = AppOf(run.text) \/ Retyped \/ run.pasted
=============================================================================
