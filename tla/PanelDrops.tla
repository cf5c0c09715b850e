------------------------------ MODULE PanelDrops ------------------------------
(***************************************************************************)
(* What is dropped on a panel: the launchers, the buttons and the menus of *)
(* the panel itself, which a drop moves or copies, and files, links, items *)
(* of the add-to dialog and backgrounds, which a drop adds.                *)
(*                                                                         *)
(* A drag says what it carries by a place in the list of the objects or by *)
(* the location of a launcher, not by the object; between its motion over  *)
(* a panel and its drop the panels may be locked down, and the drop of     *)
(* several files goes on after one of them failed.                         *)
(*                                                                         *)
(* Code: gnome-panel/panel.c (the drop_* functions and the drag handlers), *)
(* panel-action-button.c, panel-menu-button.c, launcher.c.  Left out: where *)
(* on the panel the drop is, and the text of what is made.  The layout     *)
(* makes and deletes the objects at once.                                  *)
(***************************************************************************)
EXTENDS Integers, SequencesExt, FiniteSetsExt

CONSTANTS
  DropPanels,     \* the panels
  FirstObjects,   \* the sequence of the objects at the start: [kind, location, panel]
  SystemFile,     \* the location of a launcher that is not the panel's own file
  UriLists,       \* the lists of files that may be dropped: sequences of kinds of URI
  NoDrag,
  MaxDropSteps    \* drags, and changes of settings (bound)

VARIABLES
  objects,      \* the list of applets: [id, kind, location, panel]
  files,        \* the panel's own launcher files, by the id of their launcher
  settings,     \* what the settings allow: [locked, writable, backgrounds]
  carried,      \* the drag: [kind, obj, uris, action], or NoDrag
  over,         \* the panel that said the drop is welcome, or NoDrag
  backgrounds,  \* the panels with a background that was dropped
  succeeded,    \* gtk_drag_finish's success of the last drop
  nextId,       \* ids that were given
  dropSteps     \* how much of MaxDropSteps is used

dropVars == <<objects, files, settings, carried, over, backgrounds, succeeded, nextId, dropSteps>>

OwnKinds == {"launcher", "action", "menu"}
\* What else is dragged: from the add-to dialog and the menus, from others.
NewKinds == {"new action", "new menu", "bar", "ask", "applet", "link", "folder",
             "color", "reset", "bgimage"}
BackgroundKinds == {"color", "reset", "bgimage"}
UriKinds == {"link", "place", "image", "far image", "desktop", "program", "file"}
Actions == {"copy", "move"}
ObjectKinds == OwnKinds \cup NewKinds
Ids(os) == {os[n].id : n \in DOMAIN os}
ById(id) == CHOOSE o \in ToSet(objects) : o.id = id

Drags == [kind : ObjectKinds \cup {"uris"}, obj : Nat, uris : Seq(UriKinds), action : Actions]

\* The places and the locations at the start are any.
DropsAssumption ==
  /\ FirstObjects \in Seq([kind : ObjectKinds, panel : DropPanels,
                           location : {FirstObjects[n].location : n \in DOMAIN FirstObjects}])
  /\ UriLists \subseteq Seq(UriKinds)
  /\ NoDrag \notin Drags

DropsInit ==
  /\ objects = [n \in DOMAIN FirstObjects |->
       [id |-> n, kind |-> FirstObjects[n].kind, location |-> FirstObjects[n].location,
        panel |-> FirstObjects[n].panel]]
  /\ files = {}
  /\ settings = [locked |-> FALSE, writable |-> TRUE, backgrounds |-> TRUE]
  /\ carried = NoDrag /\ over = NoDrag
  /\ backgrounds = {} /\ succeeded = FALSE
  /\ nextId = Len(FirstObjects) + 1 /\ dropSteps = 0

DropStep == dropSteps < MaxDropSteps /\ dropSteps' = dropSteps + 1

-----------------------------------------------------------------------------
(* What a drop does.  A state of it: the objects, the files, the           *)
(* backgrounds, the next id, and whether it succeeded.                     *)

Now == [objects |-> objects, files |-> files, backgrounds |-> backgrounds,
        nextId |-> nextId, success |-> TRUE]
Failed(s) == [s EXCEPT !.success = FALSE]
Succeeded(s) == [s EXCEPT !.success = TRUE]

\* panel_layout_object_create, panel_launcher_create
ObjectAdded(s, kind, location, p) ==
  LET o == [id |-> s.nextId, kind |-> kind, location |-> location, panel |-> p]
  IN  [s EXCEPT !.objects = Append(s.objects, o), !.nextId = s.nextId + 1]
\* panel_launcher_create_from_info: a file of its own.
LauncherAdded(s, p) ==
  ObjectAdded([s EXCEPT !.files = @ \cup {s.nextId}], "launcher", s.nextId, p)
\* panel_layout_delete_object, panel_applet_clean: the file goes with the launcher.
Deleted(s, n) ==
  LET o == s.objects[n]
  IN  [s EXCEPT !.objects = RemoveAt(s.objects, n),
                !.files = @ \ (IF o.kind = "launcher" THEN {o.location} ELSE {})]

\* find_launcher, panel_applet_list_applets: the first that has the location, or 0.
FindLauncher(location) ==
  SelectInSeq(objects, LAMBDA o : o.kind = "launcher" /\ o.location = location)
\* panel_find_applet_index, and g_slist_nth_data at the other end.
Index(id) == SelectInSeq(objects, LAMBDA o : o.id = id)

\* panel_launcher_create_copy, with whether the file could be copied.
DropIcon(s, p, location, action, copied) ==
  LET new == LauncherAdded(s, p)
      n == FindLauncher(location)
  IN  IF ~settings.writable \/ ~copied THEN Failed(s)
      ELSE IF action = "move" /\ n # 0 THEN Deleted(new, n) ELSE new

\* drop_internal_applet of an action button, panel_action_button_load_from_drag
DropAction(s, p, index, action) ==
  IF ~settings.writable THEN Failed(s)
  ELSE LET new == ObjectAdded(s, "action", SystemFile, p)
       IN  IF action = "move" /\ index \in DOMAIN objects THEN Deleted(new, index) ELSE new

\* move_applet, panel_widget_reparent: of a menu, whatever the action is.  Its
\* own keys are read-only with the layout.
MoveApplet(s, p, index) ==
  IF settings.locked \/ ~settings.writable \/ index \notin DOMAIN objects THEN Failed(s)
  ELSE [s EXCEPT !.objects = [objects EXCEPT ![index] = [objects[index] EXCEPT !.panel = p]]]

\* drop_menu, drop_uri, drop_url, and what is added by the drop of an item of
\* the add-to dialog; ask_about_launcher opens a dialog, or nothing.
DropNew(s, p, kind) ==
  IF ~settings.writable THEN Failed(s)
  ELSE CASE kind \in {"link", "folder"} -> LauncherAdded(s, p)
         [] kind = "ask" -> s
         [] OTHER -> ObjectAdded(s, kind, SystemFile, p)

\* set_background_color, reset_background, set_background_image_from_uri,
\* which says that it failed when it did not.
DropBackground(s, p, kind) ==
  IF ~settings.backgrounds THEN Failed(s)
  ELSE [s EXCEPT !.backgrounds = @ \cup {p}, !.success = kind # "bgimage"]

\* drop_urilist: one URI.  The places of the desktop (drop_nautilus_desktop_uri)
\* are added without a look at the layout, and forget what failed before.
DropUri(s, p, uri) ==
  CASE uri = "place" -> Succeeded(LauncherAdded(s, p))
    [] uri = "far image" -> Failed(s)
    [] uri = "image" -> DropBackground(s, p, "bgimage")
    [] uri \in {"link", "file"} /\ settings.writable -> LauncherAdded(s, p)
    [] uri = "desktop" /\ settings.writable -> ObjectAdded(s, "launcher", SystemFile, p)
    [] uri = "program" /\ settings.writable -> s
    [] OTHER -> Failed(s)

DropUris(s, p, uris) ==
  LET after[n \in 0 .. Len(uris)] == IF n = 0 THEN s ELSE DropUri(after[n - 1], p, uris[n])
  IN  after[Len(uris)]

\* panel_receive_dnd_data
Dropped(d, p, copied) ==
  IF settings.locked THEN Failed(Now)
  ELSE
  CASE d.kind = "uris" -> DropUris(Now, p, d.uris)
    [] d.kind = "launcher" -> DropIcon(Now, p, ById(d.obj).location, d.action, copied)
    [] d.kind = "action" -> DropAction(Now, p, Index(d.obj), d.action)
    [] d.kind = "menu" -> MoveApplet(Now, p, Index(d.obj))
    [] d.kind = "new action" -> DropAction(Now, p, 0, d.action)
    [] d.kind \in BackgroundKinds -> DropBackground(Now, p, d.kind)
    [] OTHER -> DropNew(Now, p, d.kind)

-----------------------------------------------------------------------------
(* Drags. *)

Drag(kind, obj, uris, action) == [kind |-> kind, obj |-> obj, uris |-> uris, action |-> action]

\* panel_action_button_drag_data_get, panel_menu_button_drag_data_get,
\* drag_data_get_cb of a launcher: what is carried is asked for at the drop,
\* which the object that is dragged answers.
BeginOwn(o, action) ==
  /\ DropStep
  /\ carried = NoDrag
  /\ o.kind \in OwnKinds
  /\ carried' = Drag(o.kind, o.id, <<>>, action)
  /\ UNCHANGED <<objects, files, settings, over, backgrounds, succeeded, nextId>>

BeginNew(kind) ==
  /\ DropStep
  /\ carried = NoDrag
  /\ carried' = Drag(kind, 0, <<>>, "copy")
  /\ UNCHANGED <<objects, files, settings, over, backgrounds, succeeded, nextId>>

BeginUris(uris) ==
  /\ DropStep
  /\ carried = NoDrag
  /\ carried' = Drag("uris", 0, uris, "copy")
  /\ UNCHANGED <<objects, files, settings, over, backgrounds, succeeded, nextId>>

\* drag_motion_cb, panel_check_dnd_target_data, panel_check_drop_forbidden
DragMotion(p) ==
  /\ carried # NoDrag
  /\ over' = IF settings.locked THEN NoDrag ELSE p
  /\ over' # over
  /\ UNCHANGED <<objects, files, settings, carried, backgrounds, succeeded, nextId, dropSteps>>

\* drag_leave_cb, and the end of the drag elsewhere
LeaveAndEnd ==
  /\ carried # NoDrag
  /\ carried' = NoDrag /\ over' = NoDrag
  /\ UNCHANGED <<objects, files, settings, backgrounds, succeeded, nextId, dropSteps>>

\* drag_drop_cb, drag_data_recieved_cb
Drop(copied) ==
  LET s == Dropped(carried, over, copied) IN
  /\ carried # NoDrag /\ over # NoDrag
  /\ objects' = s.objects /\ files' = s.files /\ backgrounds' = s.backgrounds
  /\ nextId' = s.nextId /\ succeeded' = s.success
  /\ carried' = NoDrag /\ over' = NoDrag
  /\ UNCHANGED <<settings, dropSteps>>

\* The settings, and applet_remove_callback of an object; when it is the one
\* that is dragged, the drag ends with its widget.
ChangeSetting(k) ==
  /\ DropStep
  /\ settings' = [settings EXCEPT ![k] = ~@]
  /\ UNCHANGED <<objects, files, carried, over, backgrounds, succeeded, nextId>>

RemoveObject(n) ==
  /\ DropStep
  /\ settings.writable /\ ~settings.locked
  /\ objects' = Deleted(Now, n).objects /\ files' = Deleted(Now, n).files
  /\ IF carried # NoDrag /\ carried.obj = objects[n].id THEN carried' = NoDrag /\ over' = NoDrag
     ELSE UNCHANGED <<carried, over>>
  /\ UNCHANGED <<settings, backgrounds, succeeded, nextId>>

DropsNext ==
  \/ \E n \in DOMAIN objects : RemoveObject(n) \/ \E a \in Actions : BeginOwn(objects[n], a)
  \/ \E k \in NewKinds : BeginNew(k)
  \/ \E u \in UriLists : BeginUris(u)
  \/ \E p \in DropPanels : DragMotion(p)
  \/ LeaveAndEnd
  \/ \E c \in BOOLEAN : Drop(c)
  \/ \E k \in {"locked", "writable", "backgrounds"} : ChangeSetting(k)

DropsSpec == DropsInit /\ [][DropsNext]_dropVars

-----------------------------------------------------------------------------
(* Type invariant.  Each launcher with a file of its own has it, and no file *)
(* is left without its launcher.                                             *)
DropsTypeOK ==
  /\ \A n \in DOMAIN objects : objects[n].panel \in DropPanels
  /\ Cardinality(Ids(objects)) = Len(objects)
  /\ files = {o.location : o \in {x \in ToSet(objects) : x.kind = "launcher"}} \ {SystemFile}

\* Two launchers of one file.
HasTwin(o) ==
  /\ o.kind = "launcher"
  /\ \E x \in ToSet(objects) \ {o} : x.kind = "launcher" /\ x.location = o.location

(* A drop that moves takes away what was dragged, though the drag only says    *)
(* where that is or which file it is of, and puts one thing in its place; one  *)
(* that copies takes nothing away; and none that comes after the panels were   *)
(* locked down, or the layout became read-only, changes the objects.  The      *)
(* exceptions are two launchers of one file, of which the first goes whichever *)
(* was dragged, and the places of the desktop, which a layout that is          *)
(* read-only is given all the same.                                            *)
DropsAreOfDragged ==
  [][UNCHANGED dropSteps /\ objects' # objects =>
       /\ ~settings.locked
       /\ settings.writable \/ "place" \in ToSet(carried.uris)
       /\ IF carried.action = "move" /\ carried.kind \in {"launcher", "action"}
          THEN \/ HasTwin(ById(carried.obj))
               \/ Ids(objects') = (Ids(objects) \ {carried.obj}) \cup {nextId}
          ELSE Ids(objects) \subseteq Ids(objects')]_dropVars
=============================================================================
