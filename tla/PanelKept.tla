------------------------------ MODULE PanelKept ------------------------------
(***************************************************************************)
(* What the user does to one thing of the panel and may take back: the     *)
(* texts of a launcher, the place of a panel and what lies on it.  The     *)
(* three share no state.                                                   *)
(***************************************************************************)
EXTENDS LauncherEditor, PanelMove, PanelDrops

KeptAssumption == LauncherAssumption /\ MoveAssumption /\ DropsAssumption

\* Each by itself, whatever the others do.
KeptSpec == LauncherSpec /\ MoveSpec /\ DropsSpec

(* What is shown is what the next session makes of the settings and files.     *)
(* The launcher without a dialog is what its file says however its dialog was  *)
(* closed (panel_ditem_editor_dispose); the panel that rests is where its      *)
(* settings put it, and on one monitor that is there                           *)
(* (panel_toplevel_update_normal_position, panel_toplevel_set_monitor).        *)
KeptAsShown == LauncherIsStored /\ PlaceIsSaved /\ OnOneMonitor

(* What the user takes back is taken back, and what he moves is moved.  Revert *)
(* gives the launcher the texts it was opened with (panel_ditem_editor_revert);*)
(* Escape puts the panel where the grab found it                               *)
(* (panel_toplevel_cancel_grab_op); a drop that moves takes away what was      *)
(* dragged and nothing else, and one that copies takes nothing away            *)
(* (drag_data_recieved_cb).                                                    *)
UserGetsBack == RevertUndoes /\ EscapeUndoes /\ DropsAreOfDragged
=============================================================================
