# gnome-panel in TLA+

A model of the parts of gnome-panel in which something happens *over time*:
objects that load while the layout changes, applets in other processes that
answer late or die, panels that slide in and out. The modules are written from
the C sources; `PROJECT.json` maps every definition to the lines it stands for.

Contents: [the system](#the-system), [the modules](#the-modules),
[the runs](#the-runs), [what is proved](#what-is-proved),
[what is not modelled](#what-is-not-modelled), [the plan](#the-plan).

## The system

gnome-panel is one process with one GLib main loop. Nothing in it runs in
parallel; everything hard comes from the main loop delivering things *later*:
timeouts, idle handlers, D-Bus answers, X events, changes of GSettings made by
other processes. A handler runs to its end, except that an own write to GSettings
is notified before the write returns, and destroying a widget runs its dispose
handlers on the spot: so one action of a module is one handler with everything
it calls synchronously.

| Component | Source (gnome-panel/ unless said) | State | Operations | Talks to | What makes it correct |
|---|---|---|---|---|---|
| object loader, layout | `panel-object-loader.c`, `panel-layout.c`, `applet.c`, `panel-applet-frame.c` | stored lists of ids and per-object keys; queue, loading list, idle handler, timeout; registry; save queue; dialogs | load, create, delete, change by others, move, save, crash, reload | GSettings, container, toplevels | panels are unhidden; nothing is loaded twice or lost; saves touch live widgets |
| applet container, D-Bus frame | `libpanel-applet-private/panel-applet-container.c`, `panel-applet-frame-dbus.c`, `panel.c` | name watch, proxy, pending calls, the frame | add, property calls and cancellation, plug-removed, dispose | the applet's process, the bus, the X server | live calls have a frame; settings reach the applet; crashes are noticed |
| applets manager, factories | `libpanel-applet-private/panel-applets-manager-dbus.c`, `../libpanel-applet/panel-applet-factory.c` | descriptions, modules, counts; factory objects, bus name | activate, deactivate, serve, directory change | frames, the bus | the count is right; one factory |
| panel hiding | `panel-toplevel.c` | state, three timers, animation, disablers | hide, unhide, queue, timeouts, crossing, focus | loader, X server, menus | slides end; panels hide and come back |
| struts | `panel-struts.c` | an ordered list of struts | register, allocate, unregister, hints | other panels, window manager | panels do not overlap, are drawn where their strut is, come to rest |
| geometry, grabs, monitors | `panel-toplevel.c`, `panel-multiscreen.c` | configuration, geometry, grab, delayed write | move, turn, resize, cancel, monitors change | settings, X server | one monitor; the next session has the same place; Escape undoes |
| panel widget | `panel-widget.c` | list of applets with pack type and index, drag state | insert, push, switch, move to another panel | applets, loader | the stored order is the order shown; positions are distinct |
| layout files | `panel-layout.c` | key file, ids, keys | validate, append, find a free id | GSettings | ids are fresh; every screen gets a panel, every object finds its panel |
| background | `panel-background.c`, `panel-background-monitor.c` | what is loaded, transformed, composited, prepared | change, prepare, free | toplevel, applets | what is painted is what making it anew would give |
| run dialog | `panel-run-dialog.c` | text, history, list, two idle handlers, picture | type, choose, toggle, run, drag | GIO, panel | the launcher dragged away is of the command |
| launcher, editor | `launcher.c`, `panel-ditem-editor.c` | key file in memory, file, delayed save, revert data | edit, save, revert, delete | files | what is shown is stored; revert undoes |
| places menu | `panel-menu-items.c` | the menu's items | rebuild, mount | volume monitor, bookmarks | each drive, volume and mount once |
| applications menu, icons | `menu.c`, `panel-menu-button.c` | menus, idle handlers, icon queues | make, fill, empty, load icons | menu tree, icon theme | the menu is of the files of now; icons come up |
| context menus, lockdown | `applet.c`, `panel.c`, `panel-lockdown.c` | menus, grabs, dialogs, drags, disablers | pop up, end, lock down, delete | toplevels | disablers are given back; menus offer what is allowed |
| drops | `panel.c` | objects, what is dragged, rights | drag, drop | layout, launchers | a move takes what was dragged and nothing else |
| calendar | `../applets/clock/calendar-client.c`, `calendar-sources.c` | sources, queries, entries | query, answer, select, restart | evolution-data-server | shown is what the server has of the month |
| clock's places | `../applets/clock/clock.c`, `clock-location.c`, ... | places, tiles, current place, zone files | add, edit, make current, weather | settings, the zone service | the marker is on the current place; list and setting agree |
| applet library | `../libpanel-applet/panel-applet.c` | properties, background | handle messages, tell the panel | panel | both sides agree once all is heard |
| notification area | `../applets/notification_area/` | trays, manager, sockets | dock, undock, lose the selection | tray icons over X | icons are in one tray and in order |
| window list, pager, fish | `../applets/` | libwnck widgets, a timer | settings | libwnck | presentation |

Hard behaviours, in the words of `PROJECT.json` "hazards": an answer after the
frame or panel it is for has gone; a list that changes while its elements are
being loaded; a save a second after what it saves was destroyed; a timer that is
removed when another is installed; a counter that must reach zero exactly once.

## The modules

### PanelObjects

The stored layout and what the panel shows of it. *Frames* are slots for
widgets: a slot is `activating` from `panel_applet_frame_load_helper` until the
activation's answer, `registered` while an `AppletInfo` exists, `failed` while
the "problem while loading" dialog is open, `dead` when the frame was destroyed
under an open "has quit unexpectedly" dialog. `on` is the panel pointer the
widget or the `PanelAppletFrameActivating` holds; `Gone` once that panel is
destroyed, because the code keeps the pointer.

| TLA+ | code |
|---|---|
| `toLoad`, `loading`, `haveIdle`, `unhideTimer` | `panel_objects_to_load`, `panel_objects_loading`, `panel_object_loader_have_idle`, `..._unhide_toplevels_timeout` |
| `hidden` | panels whose initial unhide was not queued |
| `noReload` | `no_reload_applets`, a list that may hold an id several times |
| `saveQueue`, `saveTimer` | `queued_position_saves`, `queued_position_source` |
| `ChangedObjects`, `ChangedToplevel` | `panel_layout_changed_object`, `panel_layout_changed_toplevel`, `panel_layout_load_*` |
| `IdleHandler` | `panel_object_loader_idle_handler` with `panel_applet_frame_load`, `panel_launcher_load`, ... |
| `FrameActivated`, `FrameFailed` | `_panel_applet_frame_activated` |
| `DeleteObject`, `CreateObject`, `CreateToplevel`, `DeleteToplevel` | `panel_layout_delete_object`, ... with the synchronous notification |
| `External*`, `Notify*` | another process writes the lists; the signal is delivered later |
| `StaleUse`, `Restart` | the process ends; the session manager starts it again |

`StaleUse` is undefined behaviour as a choice: an answer for a frame whose panel
is gone either works (`FrameActivated`) or ends the process. The order in which
queued objects are loaded is left open (the code sorts by pack position): every
property holds for each order. `Offscreen` are the ids whose `screen` key names
no screen: `panel_layout_load_toplevel` creates nothing for them, but each of
them in the list makes every change of the list reload the objects.

`MCPanelObjectsLive` adds a history variable, `lost`: the objects whose position
save was dropped with their widget.

### AppletContainer

One applet and its frame, from `panel_applet_container_add` to dispose. `phase`
is how far the chain name watch → `GetApplet` → proxy → embedding got. `calls`
is `pending_ops`; `wire` is what the bus carries to the applet, in order. The
panel's settings are an orientation, a size and a background. `running` becomes
FALSE when a handler reads freed memory (the second owner of the factory's name,
the background callback after the frame is gone): what comes after is not
modelled, and no property is claimed of it.

### AppletFactories

One in-process factory: the manager's unsigned count `n_applets` (modulo
`Wrap`), the factory objects that `_panel_applet_factory_main_internal` makes,
the object path (`exported`: the first object registered keeps it) and bus name,
and the frames that wait, ask, have an applet, or asked an object that is freed
(`lost`).

### ToplevelHide

One panel that hides itself. Coordinates become *places* (off the screen,
at the edge with few pixels left, hidden by its buttons, shown, on the way) and
the pointer is `away`, on the `edge` strip every hidden panel still covers, or
on the `body` only the shown panel covers. Crossing events are queued: a
handler may see the pointer elsewhere than the event says, as in X. Initially
the panel is created and realized: state auto-hidden, no initial animation
done, and with auto_hide the hide timer already runs, because the constructor
reads the setting before realize.

### PanelWidget

The order of the applets. `appletList` is the sorted `applet_list` of each
panel, `position` the pack type and index in `AppletData`, `stored` what
GSettings holds, `queued` the saves that wait for their timer. A drag is
`dragged` (per panel) and `inDrag`. Pixels are left out: how far the pointer
went decides *how many* single steps (`SwitchRight`, `PushLeft`, ...) run, so
any number of steps in any direction is possible. `Restart` ends the process
and loads the objects again in the stored order. A packed
panel, one that does not expand, puts an applet that comes without an index at
its end, where it may share an index with another.

### LayoutFile

The stored lists and keys, without widgets. A layout file is a sequence of
groups, an id is `[name, screen, number]`. `Start` queues the groups of the
file in `todo` if there is no panel, `WriteKeys` and `WriteList` append one
group, `Ensure` queues the file again for each screen without a panel; then
the panel runs and the user edits. `Crash` ends the process anywhere; an edit
that is not `whole` ends with it. `missing` is a history variable: the panels
that objects may refer to in vain. Which directory dconf lists first is left
open, because `panel_layout_find_free_id` looks at the first one only. The
number of screens (`nScreens`) may differ from one session to the next. A group
of a file may be unknown, without an id or with a toplevel-id that is no string;
an object that names a panel names one of the same file (`IsGroupOf`), as in
`data/panel-default-layout.layout`: the code does not look this up.

### AppletActivation

What the container promises the panel, without D-Bus, X or settings: `life` of
the frame (waiting for the factory, asked, shown, broken, gone), the calls that
may still report (`live`), and `ok`, which is FALSE once the panel ran into
freed memory. `ActivationPromise` in AppletContainer is its specification under
the mapping `Life`, `LiveCalls`, `sent`, `running`: each of the container's
thirteen actions is a step of the promise, or changes nothing it speaks of.

### PanelStruts

`struts` is the list in the order of `panel_struts_compare`, with what each
strut asks for and what it was allocated. A change of a panel (`PutAt`,
`SetAutoHide`, `Close`) queues a resize; a `Resize` registers the strut, lets
`Allocated` move or cut what is behind it, and queues the resizes of the panels
that moved. `hints` is `_NET_WM_STRUT_PARTIAL` as the window has it.

### PanelMove

One panel's configuration and geometry on monitors that come and go. Setters
change the configuration and queue a resize; `Laid` is the resize
(`panel_toplevel_update_size`, `_update_position`). `saved` is what GSettings
has, written half a second after the first change (`timer`). The monitor that is
written is not the configured one: the binding reads the property, which is the
monitor in use when the settings were last told of it (`key`,
`panel-toplevel.c:3719` and 5129). `atStart` keeps
what a grab restores; its field `settled`, as that of `saved`, tells whether it
was taken in the middle of a turn.

### PanelBackground

A picture is the record of what it was made from: image, colour, region,
orientation, piece of the desktop. `drawn` is what the window is painted with,
`Wanted` what making every stage anew gives. `root`, `rootPix` and `rootLate`
are the desktop's picture and what the monitor heard of it.

### RunDialog, LauncherEditor

The dialog `run` with its text, picture, name and two idle handlers; the
history that GSettings keeps. A key that changes no text (`TypeText` of the same
text) drops the file of a chosen application and nothing else
(`panel-run-dialog.c:1536`); a list that was queued twice and filled once leaves
its second handler behind (`Destroyed`). The launcher `lau` with its key file, its file,
its dialog, the delayed save and what `revert` restores. The dialog's entries
write the key file also when the dialog itself sets them, so `Revert` runs the
entries' handlers.

### PlacesMenu, AppsMenu, MenuIcons

Menus that are rebuilt. In PlacesMenu a change destroys and remakes the menu;
bookmarks are heard of later. In AppsMenu a changed menu file empties the menu,
which is filled when shown or in an idle handler. A button has a menu as soon as
a path is set and no custom icon is (`ForIcon`): its icon is that of the menu. A
foreign scheme leaves the root at `LAST_MENU`, which makes the main menu
(`ShownPath`). In MenuIcons `toLoad` and
`toAdd` are the two lists of icons and `overtaken` the images whose icon was
loaded before the theme changed.

### AppletMenus, PanelDrops

AppletMenus counts `n_autohide_disablers` against the menus, dialogs and drags
that hold it, while objects move, go and are locked down. PanelDrops has what
a drop does to the objects of all panels, from what the drag says.

### CalendarClient

`ecal` is the client per source, `completed` and `inProgress` its two queries
(`None`, or month, queue of answers and the entries they hold), `shown` what
the window drew last. Each answer, edit, deselection, death of a backend and
restart is an action.

### ClockPlaces, AppletLibrary, NotificationArea

The clock's list of places in the four forms it has (list, setting, dialog,
tiles), the current one and the zone requests under way (`calls`). Messages
between an applet and its panel in order (`toApplet`, `toPanel`) and the pixmap
the panel frees when it makes the next. Trays, the manager they share, and
windows between docking and unplugging; loss of a window or of the selection is
heard of later.

### PanelLook, PanelKept, AppletParts

Compositions of parts that share no state, for what they promise together.
PanelLook joins PanelBackground, RunDialog, MenuIcons, AppsMenu and PlacesMenu:
what is made in stages or from late answers (`ShownAsWanted`). PanelKept joins
LauncherEditor, PanelMove and PanelDrops: what the user edits and may take back
(`KeptAsShown`, `UserGetsBack`). AppletParts joins AppletFactories,
AppletLibrary, CalendarClient, ClockPlaces and NotificationArea: two sides that
only hear of each other (`BothSidesAgree`). Their specifications are the
conjunctions of the parts' own.

### MCPanelParts, MCAppletParts

These parts share no state, so one run explores several: the variable `part`
is chosen initially and `Only(q)` lets that part alone move. The state space is
the sum, not the product, of the parts' own; each behaviour is one of the part
by itself. Each property of these runs is the conjunction of what the modules
say under one heading: `SpaceIsShared` of the struts, `KeptAsShown` of launcher
and place, `ShownAsWanted` of everything made in stages, `MenusHoldThePanel` of
disablers and menus, `UserGetsBack` of revert, Escape and drops;
`AppletAndPanelAgree` of the library, `BothSidesAgree` of calendar, clock and
trays, `DeadIsReplaced` of the calendar.

## The runs

| Run | Instance | Shows |
|---|---|---|
| objects | 2 panels and one whose screen is not there, an applet, a launcher, an unloadable object, 3 widget slots, 3 edits | `LoaderProgresses`, `NoPanelLeftHidden`, `QueuedOnce`, `SavesPending`, `LoadedStaysLoaded` |
| objects_live | 2 panels, an applet, a launcher, 3 edits | `PanelsUnhide`, `LayoutShown` |
| unlisted_object (violation) | as objects | an object deleted while it loads stays on the panel |
| container | 2 orientations, 2 looks, 2 processes of the factory, 1 change of settings | `LiveCallHasFrame`, `SettingsReachApplet`, `ActivationEnds`, `BrokenNoticed`, and the refinement `ActivationPromise` |
| applet_parts | factories: 3 frames, 3 objects, `Wrap` 8, 1 rewrite; library: 2 orientations, 2 widths, 2 messages in transit each way, 3 changes; calendar: 2 calendars and a task list, 2 months, 2 edits, 1 fault; places: 3 in 2 zones, 2 operations; trays: 2 with 3 windows, 5 steps | `CountExact`, `OneFactory`, `AppletAndPanelAgree`, `BothSidesAgree`, `DeadIsReplaced` |
| freed_factory (violation) | the factories alone | a request goes to a freed factory object |
| hide | every orientation and setting, 1 change, 1 disabler, 2 crossings | `SlidingHasTimer`, `SlideEnds`, `AwayHides`, `QueuedUnhideShows` |
| hidden_off_screen (violation) | as hide | an auto-hidden panel without animations is nowhere |
| widget | 3 applets, 2 panels of which one is packed, indexes to 3, 4 edits | `StoredAsShown`, `DragIsOfShown`, `StaysSorted`, `NoNewPairs`, `DragEndCompresses` |
| drop_on_own_panel (violation) | as widget, with drops of menu buttons on their own panel | such a drop leaves the list unsorted |
| panel_parts | layout: 4 files, 1 or 2 screens, numbers to 2, 4 starts or edits; struts: 3 panels, 2 monitors, 7 places; background: 3 images, 4 places, 6 changes; move: 2 monitors of unlike size, 4 points, 4 steps; run dialog: 2 applications, 7 steps; launcher: 2 names, 2 commands, 3 icons, 5 changes; menus: 5 or 6 steps each; drops: 2 panels, 3 objects, 9 lists of files, 3 steps | `NoIdTwice`, `ObjectsOnPanels`, `PanelOnEveryScreen`, `SpaceIsShared`, `KeptAsShown`, `ShownAsWanted`, `MenusHoldThePanel`, `UserGetsBack` |
| reused_keys (violation) | the layout files alone | an id with keys left from an interrupted session is given out as new |

**Bounds.** Three edits are the smallest number with which an object can be
created, its panel deleted and the process restarted, or an applet crash, be
removed and be created again; each kind of object occurs once, since objects
interact through panels and lists only. Two panels are what a move and the
deletion of a panel that is not the last need. Three slots hold every widget
plus a destroyed one; an action that needs a slot waits for one. In the
container two factory processes are what the second-owner case needs, and one
change of each key at any moment distinguishes old from new values. Three
frames let one factory object go and another come while a third waits.
`MaxCrossings` merges crossing events at the bound as the X server's compression
does. In PanelWidget three applets are what an insertion between two, a block
of neighbours and a step over both need; the symmetry of the applets is sound,
as nothing orders or names them. In LayoutFile four starts or edits allow an
interrupted first start, a second start with another file or one more screen,
and a creation or deletion after it; the files are one for each way validation
can go, both orders of panel and object, and groups without an id; objects that users
add have the names the files know.

In PanelStruts three panels are what a push that is pushed on needs, and the
places are the edges, a corner, adrift and the second monitor. In PanelMove the
points lie near edges and in the middle of monitors of unlike size;
four steps are a grab, a motion, a turn and what interferes, or a setting, an
Escape and the monitors that go and return meanwhile. The images are opaque,
clear and broken, the regions differ in one coordinate, in size and in
orientation. Two calendars, one with an entry in the other month, and a uid that
begins another are what the filters tell apart; two edits and a fault let an
answer be overtaken. Two messages in transit let the second background arrive
after the first pixmap is freed. The bounds on steps (`MaxMoves`,
`MaxBgChanges`, `MaxRunSteps`, ...) stop users and settings, never the handlers
that answer them. Deadlock is not checked anywhere: a panel with nothing to do
is at rest.

**Fairness.** Weak fairness on what the main loop runs: idle handlers, timeouts,
delivered signals. In the container, the activation's steps are fair *together*:
a D-Bus call has a timeout, so the wait ends with an answer or an error, and
applets owe nothing else; a live applet handles its queue. In ToplevelHide
`Arrive` has strong fairness: the animation ends because its end time passes,
and every tick of its timer queues the resize that notices it. Users, other
processes and crashes are never assumed to act. In CalendarClient only the timer
of a backend that died is fair, one per kind of source: a timeout of the main
loop runs out.

**What the code does not keep.** `EarlyReuse = FALSE` in objects_live: with it
TRUE, an id given out again while the old object's frame is still activating is
taken for loaded, and `LayoutShown` fails. `LayoutShown` also excepts objects
with an id in `no_reload_applets` and objects in `lost`. `SettingsReachApplet`
excepts a panel that turns to the top during activation. `SlidingHasTimer`,
`SlideEnds` and `QueuedUnhideShows` except a panel moved to another screen
while sliding. `StaysSorted` excepts moves with Tab in the
middle of a drag and drops of a menu button on its own panel; `NoNewPairs`
excepts packed panels, Tab moves and objects created before the previous one is
loaded, which get the same index. `ObjectsOnPanels` excepts panels that did not
get the id their objects name (the objects of a first start that was
interrupted after the panel's keys may be lost for good), and a toplevel-id that
is not a string in the last group, which the validation lets pass.
In the parts, `ShownAsWanted` excepts a panel whose theme changes while it has
an image that cannot be read (`panel_background_set_default_style` prepares
only for type none, though `panel_background_effective_type` says the theme is
what is rendered then), an image kept at the old size, a chosen
application whose text was replaced with the mouse in the run dialog and not
typed over since, a menu whose path got a new scheme only, and the icon of the old theme that
`do_icons_to_add` sets last. `KeptAsShown` and `UserGetsBack` except a panel
turned by a grab (the restored corner is taken for the centre,
`panel-toplevel.c:615`), a monitor that was asked for while it was not there (an
Escape can do so: the settings get the monitor that the panel stays on, though
`panel-toplevel.c:5119` says that it goes to the right one next time), the icon guessed while reverting, and the first of two
launchers of one file. `MenusHoldThePanel` counts apart the main menu of the
key, which never gives its disabler back (`panel-action-protocol.c:71`), and
stops where a menu outlives its object's move (`crossed`) or a handler is called
for an object without panel (`broken`). `BothSidesAgree` excepts entries
whose uid begins with that of a removed one (`calendar-client.c:1410`); every
second client that `calendar_client_update_sources_list` skips
(`g_list_next (link->next)`, line 1700) is in the model. It excepts too
the place whose edit was refused. Each
exception is a hazard in `PROJECT.json` with its line, or a finding.

## What is proved

`PanelObjects_proofs`, for any set of objects, panels and slots and any number
of edits, from `KindAssumption`, `SentinelAssumption` and `BoundAssumption`:
`TypeCorrect`, `LoaderNeverStuck`, `HiddenHasTimer`, `NeverQueuedTwice`,
`SavesOfLiveWidgets`, and `ShownObjectsStay`.

`TypeOK` alone is not inductive. `Inv` joins it with the four safety
properties, which need each other: an activating frame's id must be in no list
for a registration to keep `QueuedOnce`; a queued id must be in the idle
handler's reach for `LoaderProgresses`; `NoPanelLeftHidden` needs that the
timer is installed whenever `DoLoad` leaves panels hidden. The argument goes over the two
functions every edit ends in: lemma `ChangedObjectsShownInv` says that
`ChangedObjects`, from *any* slots and saves that satisfy a few conditions,
establishes the invariant, `ChangedToplevelShownInv` and `RemoveObjectShownInv`
discharge these conditions once for all edits, and `Invariance` has one step
per action.

`ShownObjectsStay` is `Spec => LoadedStaysLoaded`: a step destroys the widget of
a loaded object for one of the reasons the property names and no other. Again
one lemma is about `ChangedObjects` (only what is not in `keep` goes, and `keep`
is the list of the new layout in every caller) and one about the panels that
stay (`OnTopsKeeps`); that the loader never takes a slot in use is
`FreshSlotIsFree`.

`AppletContainer_proofs`, for any orientations, looks, factory processes and
number of changes: `TypeCorrect`, `LiveCallsHaveFrames`, `SettingsAreTold`, and
`KeepsPromise`, the refinement `Spec => ActivationPromise`. The strengthening is `FrameHasProxy`: a
frame is activating exactly until its phase is done, has a proxy exactly while
it is placed, and watches no name once it is broken or destroyed. Calls are
made while the frame is placed only, and `CancelAll` at the two ends of a frame
(plug-removed, dispose) keeps `LiveCallHasFrame`. For the refinement, one lemma
per action names the step of `AppletActivation` it is; another says that sending
gives calls new numbers and can only end others.

`AppletParts_proofs`, of AppletFactories, for any number of frames and objects and any `Wrap`
above the number of frames (`WrapAssumption`): `CountsExactly`,
`OnlyOneFactory`, `FactoryTypeCorrect`. `CountExact` is not inductive: the first
activation sets the count to one whatever it was, so `UnloadedIsUnused` is
needed; and that the count, which is modulo `Wrap`, is not zero while frames are
held needs the bound on frames. `OneFactory` rests on it: an object is made
when the count is zero, so by `AtMostOne` the object before is gone, because
(`ServedByExported`) every applet is of the object at the path and the last one
takes it along.

`ToplevelHide_proofs`, for any number of changes of settings, disablers and
crossing events (`ToplevelHideAssumption`): `SlidesWithTimer` and `TypeCorrect`,
which says also that the direction a panel is hidden in fits its orientation.
`Inv` splits the types by who changes them (state, slide, timers, pointer and
the rest), with `SlidingHasTimer` beside them. There is one lemma for each way a
slide begins or is begun anew (`HideTyped`, `UnhideTyped`, `UnhideAndHideTyped`)
and each way a timer is set, and every action is shown to be one of them. That a
slide under way keeps its timer without animations needs that `Slide` then
leaves both as they are.

The same module has `MenusHold`, that is `MenusSpec => []MenusHoldThePanel` of
AppletMenus, for any panels, objects and number of steps. Its hypothesis is what
the constants are (`MenusAssumption`, which MCPanelParts has TLC evaluate). The
property compares counts, so each operation is reduced to what it does to `Up`,
the menus shown on a panel, and the lemmas on cardinalities do the rest.
`MenusInv` adds `MenusAreOfObjects`: an object with a menu is on a panel, so is
the dragged object, and the menu with the pointer is shown. Without it a disabler
could be given back to a panel it was not taken from. Two cases are outside the
property. After an object was destroyed with its menu shown, or the panels were
locked with the edit menu of a gone object not freed (`broken`), the code uses
what is gone. And a menu left shown while its object goes to another panel
(`crossed`) gives its disabler back to the wrong one.

`AppletParts_proofs`, of AppletLibrary, for any orientations, widths and flags, any number of
changes and any length of the queues (`LibBoundAssumption`,
`NoValueAssumption`: no background is the value for none): `SidesAgree`, that is
`LibSpec => []AppletAndPanelAgree`, and `LibTypeCorrect`. The property says what
holds when all messages are handled, so the invariant must say what holds before:
by `OnItsWay` the last message about a property has the value that was set last,
and without a message the receiver has it already. `Told` and `Drawn` tie
what the applet's code was told and paints to what the applet has: it shows
its background, unless the pixmap it should copy is gone. That this exception is
over once nothing is in transit needs `Numbered`: the last background set is
never a pixmap that was freed, and no message or applet has the number of a
pixmap not made yet, so a new one is never taken for an old one.

The same module has `BothAgree`, that is `SidesSpec => []BothSidesAgree`, and
`TypesCorrect` (`AppletsTypeOK`), from what the constants are
(`SidesAssumption`, which MCAppletParts has TLC evaluate): the entries are
finitely many and each is of a calendar, the places of the first load are
distinct, a role has a number. Each part has an invariant of its own:

- `CalendarAgrees`, for any calendars, entries and months and any number of
  edits and faults. `ShownIsCurrent` speaks of calendars whose queries were
  answered. Before that, `Agrees` says of every entry a query asked for that the
  last word on it in the query's queue (`LastIs`) is what the server has, or, if
  the queue does not mention it, the query has it (`Settled`); `Owned`, that a
  query has and is told of nothing else. One lemma says what `Applied` makes of
  such a query for the message at the head. Replacing a query starts with the
  `View` of now, for which the same holds; `Timely` says that the one which
  counts is of the selected month, unless it failed, and `ShownFits` that what
  is shown of a calendar is what its completed query has of that month.
- `PlacesAgree`. `MarkFits`: a place is current only while list, rows, tiles,
  calls or the blinking marker hold it; otherwise it was finalized, and
  its marker with it. `ListFits` ties the list, the setting and the rows of
  the dialog through the edits under way and those that were refused
  (`dropped`).
- `TraysAgree`. A new icon goes behind every icon of a lower or the same role,
  so boxes stay sorted, and what is removed disturbs no order (`KeepsOrder`).
  `RequestsReach` is needed for a request that arrives after its tray went: who
  asks does so while the manager has the selection, and a window that is
  unplugged is gone.

`AppletContainer_proofs` also has `SettingsAreTold`, that is
`Spec => []SettingsReachApplet`. The property speaks of the value an applet
*will* have (`Told`: the last message of a key on the wire, or what it has), so
a lemma says what appending and consuming a message do to `Told`; `Hears` adds
that the frame thinks itself at the top while its applet is activated, which
decides whether the orientation is sent when the frame is placed.

`SequenceLemmas` holds what the next ones need of numbers and sequences:
the least and greatest number of a set, insertion, removal and concatenation by
entries, and that a recursive function on 0 .. n exists (`RecursionExists`). The
induction theorems of the library take an operator as parameter; the lemmas take
a *set* of numbers instead (`UpToInduction`), proved from the well-foundedness of
`<`, so that an invariant of a recursive function is the set of the numbers at
which it holds. For this `Without` and `BlockMoved` are recursive functions.

`PanelKept_proofs`, of LayoutFile, for any files, any numbers of screens and sessions that may
end at any write (`FilesAssumption`, `BoundAssumption`): `IdsAreFree`
(`NoIdTwice`), `NoObjectWithoutPanel` (`ObjectsOnPanels`), `NoScreenWithoutPanel`
(`PanelOnEveryScreen`) and `TypeCorrect`. `FreeIds` gives no listed id,
but one with keys at times (run reused_keys); `CurrentOK` says that it is still
not listed when `WriteList` adds it. `ObjectsOnPanels` speaks of a loaded
layout; in the middle of a file its objects may be there before their panel, so
`ObjectsHoused` admits panels that are still to come (`Coming`) and `CurrentOK`
covers the state between the two writes of a group. In the same way
`ScreensCovered` counts the screens that groups in `todo` are for.

`PanelWidget_proofs`, for any applets, panels, indexes and number of edits:
`TypeCorrect`, `MovesAreSaved` (`StoredAsShown`), `OneDragOfShown`
(`DragIsOfShown`), `ListsStaySorted` (`StaysSorted`) and `DragEndCounts`
(`DragEndCompresses`). `Inv` adds to the three state properties that each applet
is in one list once (`ListsAre`); without it the neighbour an applet is switched
with could be on another panel. `BoundAssumption` has no more applets than
indexes, so that compressed indexes fit. Every operation is reduced to what it
does to list and positions: a lemma on each of insertion, removal, switching,
pushing a block and compression says that a sorted list stays sorted and who is
stored. `ListsStaySorted` assumes `~DropsOnOwnPanel`: with such drops it is
false, as the run drop_on_own_panel shows. The others hold either way.
`DragEndCounts` counts: the indexes that
`panel_widget_compress_pack_indexes_list` gives to the applets of a pack are
distinct and below their number.

`PanelLook_proofs` has `LooksAreWanted`, that is
`LookSpec => []ShownAsWanted`, from what the constants are (`LookAssumption`,
which MCPanelParts has TLC evaluate): `None` is no value, a region has a size,
an icon of a file is not a stock icon, the volume monitor's things know each
other. Each part has an invariant of its own:

- `BackgroundFits`. `BgInv` says of each stage (loaded, transformed, composited)
  that what is kept of it is what making it anew would give, or that it will be
  made again. The stages are functions of background and desktop (`Here`), so
  one lemma per stage says what it makes of a sound background, and each action
  is one or more of them. The attempt found a third stale stage, `KeptFit`: an
  image fitted to the panel without turning is laid out by the orientation, but
  `panel_background_change_region` compares sizes only
  (`panel-background.c:809-821`), so the panel that is as high as wide keeps the
  old layout when it turns.
- `DragFits`. `DialogFits` ties the text, the chosen application and the picture
  to the handlers that are still to run. It needs that the handler that fills
  the list runs only for an open dialog, which `Destroyed` gives.
- `IconsFit`. `IconsComeUp` needs that an image in `toAdd` has the icon of the
  present theme, but for those `overtaken`, and is blank or right otherwise.
- `MenuShowsFiles`. The types of menu and submenu, and that an unwatched tree is
  no tree.
- `PlacesFit`. Items are sets of entries by the pass that makes them (drives,
  volumes, mounts, remote mounts). The inductive part is that the menu is what
  `Items` gives for the things of now; that this has each thing once is a lemma
  on `Items`, for which a volume has one mount at most (`OneMount`).

`PanelKept_proofs` has also, of PanelKept, `KeptIsShown`
(`KeptSpec => []KeptAsShown`) and `GetsBack` (`KeptSpec => UserGetsBack`),
from `KeptAssumption`: the monitors do not overlap, which
`panel_multiscreen_compress_overlapping_monitors` sees to
(`panel-multiscreen.c:290`), take a panel of the thinnest size and have a
quarter that is not nothing.

- LauncherEditor: `LauncherIsKept`, `RevertRestores`. `LauncherFits` says that
  while a dialog is open its entries show what the key file says, and that a
  launcher whose key file differs from its file is dirty or failed to be written.
- PanelMove: `PanelOnOneMonitor`, `EscapeRestores`. `PlaceFits` says that another
  resize of a panel that was laid out changes nothing (`LaidRests`);
  `SavedFits`, that what is written and no longer waits for the timer puts the
  panel where it is; `StartFits`, that a grab does not change the expansion.
  Rotations and the way from corner to centre and back are arithmetic, one lemma
  per direction. The attempts found cases in which the place that is saved, or
  restored by Escape, is not the panel's. They are the exceptions of
  `PlaceIsSaved` and `EscapeUndoes`: a write between a turn and its resize, a
  panel turned while it is expanded, one turned there and back before the next
  resize, a configured monitor that is not there, or was not when it was set
  (`missed`). `SavedFits` therefore says of the monitor that was written that it
  is the one the panel is on, or a later one is configured.
- PanelDrops: `DropsAreTheirs`. `DropsFit` says that ids are distinct and below
  the next one and that the dragged object is there.

Changes to the model that came of this: the overlapping cases of `Message` and
`Dropped` are ordered now, as the code's conditions are; `toAdd` is a function
of the images; `settled` also tells of a turn while expanded. The instance has
a square region for `KeptFit`.

**Only model-checked.** All liveness properties: liveness under fairness and
ENABLED are outside what the prover does. `NoNewPairs`: its premise, positions
that are distinct, does not say that the list is sorted, without which switching
and pushing promise little. `SpaceIsShared`: PanelStruts allocates with a
recursive operator, for which the prover has no backend, and whose end for all
inputs would be an induction over data. The types of the parts of the panel
(`PartsTypeOK`), of which the proofs have what they need as part of their
invariants; PanelStruts is one of them.

## What is not modelled

The look of things: drawing, the layout of dialogs, text. GSettings' backend,
D-Bus, GTK, libgnome-menu, the volume monitor, the calendar server and the X
server appear as the behaviour the panel relies on. The balloon messages of the
notification area are left out because the code ignores them all: its filter
hands their handlers the GdkEvent instead of the X event
(`na-tray-manager.c:483-499`). Not modelled either: the pixels of a drag over
a panel and its timer (`panel-widget.c:2107`), the one move an applet makes
after a crossing it was refused (`panel-widget.c:2017-2046`), completion in the run dialog,
recurring appointments, the `.panel-applet` parser, the window list, pager, show
desktop and window menu (libwnck with settings), the fish, and what is vendored
(`egg-desktop-file`, the session client, of which only a quit signal is used).
The components table of `PROJECT.json` lists each part with its reason.

The parts in one run do not interact in the model. In the code some do, through
calls the modules state as inputs: a panel's move is a change of place for
PanelStruts and PanelBackground, a menu's disabler is one of ToplevelHide's.

## The plan

Done: all modules above, the runs, and proofs of PanelObjects, AppletContainer,
AppletFactories, ToplevelHide, AppletMenus, AppletLibrary, LayoutFile,
PanelWidget and the parts of PanelLook, PanelKept and AppletParts. What would come next:

1. Proofs: `StrutsApart` once allocation is written as a
   fold over the struts that are hit.
2. AppletLibrary in place of the external applet of AppletContainer, and
   AppletActivation in place of the activation of PanelObjects: the promise says
   that after `add` a frame is asked for once, shown at most once, and not
   touched by a call after dispose.
3. The timer of a drag in PanelWidget, with the second timer that runs when the
   first motion crosses to another panel.
