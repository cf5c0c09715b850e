------------------------------- MODULE MenuIcons ------------------------------
(***************************************************************************)
(* The icons of the menus, which are loaded when nothing else is to do.    *)
(*                                                                         *)
(* An image of a menu that is mapped while it is empty is queued; an idle  *)
(* handler takes the queue one slow load at a time, keeps what it loaded   *)
(* in a second list, and sets all of it at the end.  In between, the icon  *)
(* theme or the size of the icons may change, which empties the images and *)
(* maps them again, and images may be unmapped or hidden.                  *)
(*                                                                         *)
(* Code: gnome-panel/menu.c.  Left out: the destruction of menus, which    *)
(* leaves images to the lists that no one shows, the scaling, and the      *)
(* order in which the images of a menu are mapped.  icons_to_add grows at  *)
(* its head and is set from there on, in one go: of several icons for one  *)
(* image the one that was loaded first stays, so only that one is kept.    *)
(***************************************************************************)
EXTENDS Integers, FiniteSets, SequencesExt

CONSTANTS
  MenuImages,      \* the images of the menu items
  FileOf,          \* [themes -> [MenuImages -> file, NoFile, or Themed: a stock icon or a GIcon]]
  BrokenFiles,     \* files that are not pictures
  NoFile, Themed,
  MaxIconSteps     \* steps of the user and of the settings (bound)

VARIABLES
  theme,        \* the icon theme
  size,         \* the height of GTK_ICON_SIZE_MENU, 0 or 1
  mapped,       \* the images that are mapped
  visible,      \* the images' visible flag (the setting gtk-menu-images)
  shows,        \* [MenuImages -> Blank, Themed or a loaded picture]
  toLoad,       \* icons_to_load
  toAdd,        \* icons_to_add: [images of it -> the icon that will stay]
  loaded,       \* the keys of loaded_icons
  loader,       \* load_icons_id # 0
  overtaken,    \* images that the theme or the size left while they were in icons_to_add
  iconSteps     \* how much of MaxIconSteps is used

iconVars == <<theme, size, mapped, visible, shows, toLoad, toAdd, loaded, loader, overtaken, iconSteps>>

Blank == <<>>
Themes == DOMAIN FileOf
\* The key of loaded_icons, "size:file".
Key(i) == <<size, FileOf[theme][i]>>
\* panel_make_menu_icon: what can be had of the icon of image i.
NoPicture(i) == FileOf[theme][i] = NoFile \/ FileOf[theme][i] \in BrokenFiles
\* Its *long_operation: the file is read.
Slow(i) == FileOf[theme][i] \notin {NoFile, Themed} /\ Key(i) \notin loaded
Picture(i) == IF FileOf[theme][i] = Themed THEN Themed ELSE Key(i)

\* There are images of menus, and a stock icon is not made of a file.
IconsAssumption ==
  /\ IsFiniteSet(MenuImages) /\ Themes # {}
  /\ Themed # Blank
  /\ \A s \in {0, 1}, t \in Themes, i \in MenuImages : Themed # <<s, FileOf[t][i]>>

IconsInit ==
  /\ theme = CHOOSE t \in Themes : TRUE
  /\ size = 0
  /\ mapped = {} /\ visible = MenuImages
  /\ shows = [i \in MenuImages |-> Blank]
  /\ toLoad = <<>> /\ toAdd = <<>> /\ loaded = {}
  /\ loader = FALSE /\ overtaken = {} /\ iconSteps = 0

IconStep == iconSteps < MaxIconSteps /\ iconSteps' = iconSteps + 1

\* image_menu_shown, find_in_load_list: the images "is" are mapped, with the
\* contents "now".
Shown(is, now) ==
  LET empty == {i \in is : now[i] = Blank} IN
  /\ toLoad' = toLoad \o SetToSeq(empty \ ToSet(toLoad))
  /\ loader' = (loader \/ empty # {})

\* The menu is popped up, or down.
MapMenu ==
  /\ IconStep
  /\ mapped = {} /\ visible # {}
  /\ mapped' = visible
  /\ Shown(visible, shows)
  /\ UNCHANGED <<theme, size, visible, shows, toAdd, loaded, overtaken>>

UnmapMenu ==
  /\ IconStep
  /\ mapped # {}
  /\ mapped' = {}
  /\ UNCHANGED <<theme, size, visible, shows, toLoad, toAdd, loaded, loader, overtaken>>

\* GtkImageMenuItem: the setting hides and shows the images.
ShowImages ==
  /\ IconStep
  /\ visible' = MenuImages \ visible
  /\ mapped' = IF mapped = {} THEN {} ELSE visible'
  /\ Shown(mapped' \ mapped, shows)
  /\ UNCHANGED <<theme, size, shows, toAdd, loaded, overtaken>>

\* The images whose icons wait to be set.
Waiting == DOMAIN toAdd

\* The images is are unmapped, emptied, and mapped again if they were.
IconsEmptied(is) ==
  /\ shows' = [i \in MenuImages |-> IF i \in is THEN Blank ELSE shows[i]]
  /\ overtaken' = (overtaken \ is) \cup Waiting
  /\ Shown(mapped \cap is, shows')

\* icon_theme_changed, reload_image_menu_items
ChangeIconTheme(t) ==
  /\ IconStep
  /\ t # theme
  /\ theme' = t
  /\ IconsEmptied(MenuImages)
  /\ UNCHANGED <<size, mapped, visible, toAdd, loaded>>

\* menu_item_style_updated
ChangeIconSize ==
  /\ IconStep
  /\ size' = 1 - size
  /\ IconsEmptied({i \in MenuImages : shows[i] \notin {Blank, Themed}})
  /\ UNCHANGED <<theme, mapped, visible, toAdd, loaded>>

-----------------------------------------------------------------------------
\* Where an icon that is read from its file is in the queue.
SlowOnes == {n \in DOMAIN toLoad : toLoad[n] \in visible /\ Slow(toLoad[n])}

\* What icons_to_add becomes when the first upTo of the queue are loaded.
Added(upTo) ==
  LET taken == {i \in ToSet(SubSeq(toLoad, 1, upTo)) : i \in visible /\ ~NoPicture(i)}
  IN  [i \in taken \cup Waiting |-> IF i \in Waiting THEN toAdd[i] ELSE Picture(i)]

\* load_icons_handler, do_icons_to_add: it goes on to the first icon that is
\* read from its file; with none left it sets what was loaded and ends.
LoadIcons ==
  LET slow == SlowOnes
      upTo == IF slow = {} THEN Len(toLoad) ELSE Min(slow)
      adds == Added(upTo)
  IN  /\ loader
      /\ toLoad' = SubSeq(toLoad, upTo + 1, Len(toLoad))
      /\ loaded' = IF slow = {} \/ NoPicture(toLoad[upTo]) THEN loaded
                   ELSE loaded \cup {Key(toLoad[upTo])}
      /\ toAdd' = IF slow = {} THEN <<>> ELSE adds
      /\ shows' = IF slow # {} THEN shows
                  ELSE [i \in MenuImages |-> IF i \in DOMAIN adds THEN adds[i] ELSE shows[i]]
      /\ loader' = (slow # {})
      /\ UNCHANGED <<theme, size, mapped, visible, overtaken, iconSteps>>

IconsNext ==
  \/ MapMenu \/ UnmapMenu \/ ShowImages \/ ChangeIconSize \/ LoadIcons
  \/ \E t \in Themes : ChangeIconTheme(t)

IconsSpec == IconsInit /\ [][IconsNext]_iconVars

-----------------------------------------------------------------------------
(* Type invariant *)
IconsTypeOK ==
  /\ theme \in Themes /\ size \in {0, 1}
  /\ mapped \subseteq visible /\ visible \subseteq MenuImages
  /\ IsInjective(toLoad) /\ ToSet(toLoad) \cup Waiting \subseteq MenuImages
  /\ (toLoad # <<>> \/ Waiting # {}) => loader

(* No image that is up is forgotten: it shows the icon of the theme and the   *)
(* size of now, or the loader will still come to it, or there is no such icon; *)
(* whatever changed while it waited.  Not so an image whose icon was loaded    *)
(* already when the theme changed: what was loaded last is set first, and the  *)
(* icon of the old theme stays.                                                *)
IconsComeUp ==
  \A i \in mapped \ overtaken :
    \/ shows[i] = Picture(i)
    \/ i \in ToSet(toLoad) \cup Waiting
    \/ shows[i] = Blank /\ NoPicture(i)
=============================================================================
