------------------------------ MODULE PanelLook ------------------------------
(***************************************************************************)
(* What the panel shows of things it does not keep itself: its background, *)
(* the launcher that the run dialog finds for a command, and the icons and *)
(* the items of its menus.  Each is made in stages, or again after a late  *)
(* answer, from what other programs and the user change meanwhile.  The    *)
(* five share no state.                                                    *)
(***************************************************************************)
EXTENDS PanelBackground, RunDialog, MenuIcons, AppsMenu, PlacesMenu

LookAssumption ==
  /\ BgAssumption /\ RunAssumption /\ IconsAssumption
  /\ AppsMenuAssumption /\ PlacesAssumption

\* Each by itself, whatever the others do.
LookSpec == BgSpec /\ RunSpec /\ IconsSpec /\ MenuSpec /\ PlacesSpec

(* What is made in stages, from late answers or from what was kept, is what    *)
(* making it anew would give: the painted background and what the applet is    *)
(* told of it (panel_background_prepare, _transform), the launcher dragged off *)
(* the run dialog (panel_run_dialog_find_command_idle), the icons of menus     *)
(* (load_icons_handler_again), the menu of the menu files                      *)
(* (handle_gmenu_tree_changed) and that of the drives, mounts and bookmarks    *)
(* (panel_place_menu_item_recreate_menu).                                      *)
ShownAsWanted ==
  /\ PaintedAsWanted /\ ToldIsPainted /\ DragIsOfText /\ IconsComeUp
  /\ MenuIsOfFiles /\ PlacesAreListed
=============================================================================
