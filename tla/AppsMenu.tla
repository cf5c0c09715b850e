-------------------------------- MODULE AppsMenu ------------------------------
(***************************************************************************)
(* A menu button and the menu of the applications that it shows.           *)
(*                                                                         *)
(* The menu is made when it is first asked for and is kept.  It is filled  *)
(* when it is shown or in an idle handler, whichever comes first, and so   *)
(* is each of its submenus; when the menu files change it is emptied and   *)
(* waits for the next of both.                                             *)
(*                                                                         *)
(* Code: gnome-panel/menu.c, panel-menu-button.c.  The menu tree is of     *)
(* libgnome-menu: it has one directory here, with one subdirectory.        *)
(***************************************************************************)
EXTENDS Integers, Sequences

CONSTANTS
  MenuPaths,     \* paths of the settings; the menu of "" is the main menu
  MenuRoots,     \* schemes of the settings: which menu file is read
  MaxMenuSteps   \* changes of the files and of the settings (bound)

VARIABLES
  menuButton,    \* [there, root, path, icon] of PanelMenuButtonPrivate
  appsMenu,      \* its menu with the data attached to it, or NoAppsMenu
  menuFiles,     \* version of the menu files
  treeLate,      \* the tree has not told of the last version yet
  disablers,     \* autohide disablers of the panel that come from the button
  menuSteps      \* how much of MaxMenuSteps is used

\* LAST_MENU: the root of a button that was given no scheme, or a foreign one.
NoRoot == "none"

\* The settings that every button starts with.
AppsMenuAssumption == "" \in MenuPaths /\ NoRoot \notin MenuRoots

menuVars == <<menuButton, appsMenu, menuFiles, treeLate, disablers, menuSteps>>

NoAppsMenu == [there |-> FALSE, up |-> FALSE]
NoTree == 0
NoSubmenu == [there |-> FALSE, needs |-> FALSE, idle |-> FALSE, shows |-> <<>>]

MenuStep == menuSteps < MaxMenuSteps /\ menuSteps' = menuSteps + 1

-----------------------------------------------------------------------------
(* The menu.  shows has the version of the tree once for each time that the  *)
(* menu was filled since it was empty, places how often the entries of the   *)
(* main menu were appended.                                                  *)

\* create_fake_menu
FakeMenu == [there |-> TRUE, needs |-> TRUE, idle |-> TRUE, shows |-> <<>>]

\* populate_menu_from_directory, create_submenu.  There is no directory in a
\* tree that was not loaded.
Populated(m) ==
  IF m.tree = NoTree THEN m
  ELSE [m EXCEPT !.shows = Append(@, m.tree), !.submenu = FakeMenu]

\* submenu_to_display, main_menu_append
Displayed(m) ==
  IF ~m.needs THEN m
  ELSE [Populated(m) EXCEPT !.needs = FALSE, !.places = IF m.path = "" THEN @ + 1 ELSE @]

\* handle_gmenu_tree_changed
Emptied(m, tree) ==
  [m EXCEPT !.shows = <<>>, !.places = 0, !.submenu = NoSubmenu,
            !.tree = tree, !.needs = TRUE, !.idle = TRUE]

\* create_applications_menu, create_main_menu.  A menu whose tree cannot be
\* loaded is left as it is: it never needs loading, and hears of no change.
Created(root, path, tree) ==
  [there |-> TRUE, up |-> FALSE, root |-> root, path |-> path, watched |-> tree # NoTree,
   tree |-> tree, needs |-> tree # NoTree, idle |-> tree # NoTree,
   shows |-> <<>>, places |-> 0, submenu |-> NoSubmenu]

-----------------------------------------------------------------------------
(* The button. *)

\* panel_menu_button_create_menu: without a root the menu is the main menu.
ShownPath(root, path) == IF root = NoRoot THEN "" ELSE path
MenuOf(b, tree) == Created(b.root, ShownPath(b.root, b.path), tree)

\* panel_menu_button_set_icon, of the button b that has the menu m: where no icon
\* is set it is that of the menu of the path, which is made for it.
ForIcon(m, b, tree) == IF ~m.there /\ ~b.icon /\ b.path # "" THEN MenuOf(b, tree) ELSE m

MenuInit ==
  /\ menuButton = [there |-> FALSE, root |-> NoRoot, path |-> "", icon |-> FALSE]
  /\ appsMenu = NoAppsMenu
  /\ menuFiles = 1 /\ treeLate = FALSE
  /\ disablers = 0 /\ menuSteps = 0

\* panel_menu_button_load, which sets the path and refuses a foreign scheme; the
\* icon is set once more when the button is in its panel.
LoadButton(root, path, icon, tree) ==
  /\ MenuStep
  /\ ~menuButton.there
  /\ root = NoRoot => path = ""
  /\ tree \in {NoTree, menuFiles}
  /\ menuButton' = [there |-> TRUE, root |-> root, path |-> path, icon |-> icon]
  /\ appsMenu' = ForIcon(NoAppsMenu, menuButton', tree)
  /\ treeLate' = FALSE
  /\ UNCHANGED <<menuFiles, disablers>>

\* panel_menu_button_finalize.  The menu is detached first, and is not heard of
\* any more when it goes down.
FinalizeButton ==
  /\ MenuStep
  /\ menuButton.there
  /\ menuButton' = [menuButton EXCEPT !.there = FALSE]
  /\ appsMenu' = NoAppsMenu
  /\ UNCHANGED <<menuFiles, treeLate, disablers>>

\* panel_menu_button_settings_changed, panel_menu_button_set_menu_path.  A setting
\* without a scheme is ignored, one of a scheme alone has no path.  The menu is
\* detached, unless the new path differs by its scheme only.
SetMenuPath(root, path, tree) ==
  /\ MenuStep
  /\ menuButton.there
  /\ tree \in {NoTree, menuFiles}
  /\ menuButton' = [menuButton EXCEPT !.root = root, !.path = path]
  /\ IF path = menuButton.path THEN UNCHANGED <<appsMenu, treeLate>>
     ELSE appsMenu' = ForIcon(NoAppsMenu, menuButton', tree) /\ treeLate' = FALSE
  /\ UNCHANGED <<menuFiles, disablers>>

\* panel_menu_button_settings_changed, panel_menu_button_set_custom_icon
SetCustomIcon(icon, tree) ==
  /\ MenuStep
  /\ menuButton.there
  /\ tree \in {NoTree, menuFiles}
  /\ menuButton' = [menuButton EXCEPT !.icon = icon]
  /\ appsMenu' = ForIcon(appsMenu, menuButton', tree)
  /\ treeLate' = (appsMenu.there /\ treeLate)
  /\ UNCHANGED <<menuFiles, disablers>>

\* panel_menu_button_create_menu; tree is what loading it gives.
Menu(tree) == IF appsMenu.there THEN appsMenu ELSE MenuOf(menuButton, tree)

\* panel_menu_button_popup_menu; the menu is shown.
PopUp(tree) ==
  /\ menuButton.there /\ ~appsMenu.up
  /\ tree \in {NoTree, menuFiles}
  /\ appsMenu' = [Displayed(Menu(tree)) EXCEPT !.up = TRUE]
  /\ treeLate' = (appsMenu.there /\ treeLate)
  /\ disablers' = disablers + 1
  /\ UNCHANGED <<menuButton, menuFiles, menuSteps>>

\* panel_menu_button_menu_deactivated
MenuDeactivated ==
  /\ appsMenu.up
  /\ appsMenu' = [appsMenu EXCEPT !.up = FALSE]
  /\ disablers' = disablers - 1
  /\ UNCHANGED <<menuButton, menuFiles, treeLate, menuSteps>>

\* submenu_to_display_in_idle
DisplayInIdle ==
  /\ appsMenu.there /\ appsMenu.idle
  /\ appsMenu' = [Displayed(appsMenu) EXCEPT !.idle = FALSE]
  /\ UNCHANGED <<menuButton, menuFiles, treeLate, disablers, menuSteps>>

\* submenu_to_display of the submenu, when it is shown or in its idle handler
DisplaySubmenu(shown) ==
  /\ appsMenu.there /\ appsMenu.submenu.there
  /\ IF shown THEN appsMenu.up /\ appsMenu.submenu.needs ELSE appsMenu.submenu.idle
  /\ appsMenu' = [appsMenu EXCEPT
       !.submenu.needs = FALSE, !.submenu.idle = shown /\ @,
       !.submenu.shows = IF appsMenu.submenu.needs THEN Append(@, appsMenu.tree) ELSE @]
  /\ UNCHANGED <<menuButton, menuFiles, treeLate, disablers, menuSteps>>

\* An application is installed or removed.
ChangeMenuFiles ==
  /\ MenuStep
  /\ menuFiles' = menuFiles + 1
  /\ treeLate' = (appsMenu.there /\ appsMenu.watched)
  /\ UNCHANGED <<menuButton, appsMenu, disablers>>

\* "changed" of the tree
TreeChanged(tree) ==
  /\ treeLate
  /\ tree \in {NoTree, menuFiles}
  /\ treeLate' = FALSE
  /\ appsMenu' = IF appsMenu.there /\ appsMenu.watched THEN Emptied(appsMenu, tree) ELSE appsMenu
  /\ UNCHANGED <<menuButton, menuFiles, disablers, menuSteps>>

MenuNext ==
  \/ \E r \in MenuRoots \cup {NoRoot}, p \in MenuPaths, i \in BOOLEAN, t \in 0 .. menuFiles :
       LoadButton(r, p, i, t)
  \/ \E r \in MenuRoots \cup {NoRoot}, p \in MenuPaths, t \in 0 .. menuFiles : SetMenuPath(r, p, t)
  \/ \E i \in BOOLEAN, t \in 0 .. menuFiles : SetCustomIcon(i, t)
  \/ \E t \in 0 .. menuFiles : PopUp(t) \/ TreeChanged(t)
  \/ \E s \in BOOLEAN : DisplaySubmenu(s)
  \/ FinalizeButton \/ MenuDeactivated \/ DisplayInIdle \/ ChangeMenuFiles

MenuSpec == MenuInit /\ [][MenuNext]_menuVars

-----------------------------------------------------------------------------
(* Type invariant *)
MenuTypeOK ==
  /\ menuButton.path \in MenuPaths /\ menuButton.root \in MenuRoots \cup {NoRoot}
  /\ menuButton.icon \in BOOLEAN
  /\ appsMenu.there => menuButton.there /\ appsMenu.tree \in 0 .. menuFiles
  /\ disablers \in 0 .. MaxMenuSteps + 1 /\ treeLate \in BOOLEAN

(* The menu is the one of the path, for the root that it was made with (a new   *)
(* scheme of the same path is not noticed), and shows the menu files of the     *)
(* moment once and no more, unless it waits to be filled or their change is not *)
(* heard of yet; the entries of the main menu are there once; and a menu that   *)
(* is up keeps the panel from hiding.  The menu whose tree could not be loaded  *)
(* when it was made stays empty.                                                *)
MenuIsOfFiles ==
  appsMenu.there =>
    /\ appsMenu.path = ShownPath(appsMenu.root, menuButton.path)
    /\ ~appsMenu.needs /\ appsMenu.watched =>
         /\ appsMenu.shows = IF appsMenu.tree = NoTree THEN <<>> ELSE <<appsMenu.tree>>
         /\ appsMenu.places = IF appsMenu.path = "" THEN 1 ELSE 0
    /\ appsMenu.watched /\ ~treeLate => appsMenu.tree \in {NoTree, menuFiles}
    /\ appsMenu.submenu.there /\ ~appsMenu.submenu.needs => appsMenu.submenu.shows = <<appsMenu.tree>>
    /\ appsMenu.up => disablers > 0
=============================================================================
