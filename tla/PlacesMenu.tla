------------------------------ MODULE PlacesMenu ------------------------------
(***************************************************************************)
(* The Places menu of the panel.                                           *)
(*                                                                         *)
(* The menu lists the bookmarks of the file chooser, and the drives,       *)
(* volumes and mounts that the volume monitor knows.  It is a snapshot:    *)
(* each change that is heard of destroys it and makes it anew.             *)
(*                                                                         *)
(* Code: gnome-panel/panel-menu-items.c.  The volume monitor tells of a    *)
(* change in the step that makes it; the change of the file of bookmarks   *)
(* is heard of later; that a bookmarked folder is made or removed is not   *)
(* heard of at all.                                                        *)
(***************************************************************************)
EXTENDS Integers, FiniteSets, SequencesExt

CONSTANTS
  Drives, Volumes, Mounts,
  PolledDrives,   \* removable drives where a change of the media is not detected
  DriveOf,        \* [Volumes -> Drives or NoPlace]
  VolumeOf,       \* [Mounts -> Volumes or NoPlace]
  ShadowOf,       \* [Mounts -> the mount that it shadows, or NoPlace]
  RemoteMounts,   \* the mounts that are not native
  BookmarkFiles,  \* contents of the file: sequences of [uri, label]
  NativeUris,     \* the URIs of bookmarks that are looked up in the file system
  MaxBookmarks,   \* MAX_BOOKMARK_ITEMS
  MaxInline,      \* MAX_ITEMS_OR_SUBMENU
  NoPlace

VARIABLES
  drives, volumes, mounts,   \* what the volume monitor knows
  bookmarkFile,              \* the file of bookmarks
  fileLate,                  \* its change is not heard of yet
  folders,                   \* those of NativeUris that exist
  desktopIsHome,             \* the key desktop_is_home_dir
  placesMenu,                \* PanelPlaceMenuItem.menu, or NoPlace
  mounting                   \* volumes that the user asked to mount

placesVars == <<drives, volumes, mounts, bookmarkFile, fileLate, folders, desktopIsHome,
                placesMenu, mounting>>

\* What is there is something, and the volume monitor's things know each other.
PlacesAssumption ==
  /\ NoPlace \notin Drives \cup Volumes \cup Mounts
  /\ DriveOf \in [Volumes -> Drives \cup {NoPlace}]
  /\ VolumeOf \in [Mounts -> Volumes \cup {NoPlace}]
  /\ \A f \in BookmarkFiles : f \in Seq(ToSet(f))
  /\ MaxBookmarks \in Nat

-----------------------------------------------------------------------------
(* What the volume monitor answers.  A volume whose drive is gone has none,  *)
(* and a mount whose volume is gone has none.                                *)

DriveNow(v, ds) == IF DriveOf[v] \in ds THEN DriveOf[v] ELSE NoPlace
VolumeNow(m, vs) == IF VolumeOf[m] \in vs THEN VolumeOf[m] ELSE NoPlace
MountNow(v, ms) == IF \E m \in ms : VolumeOf[m] = v THEN CHOOSE m \in ms : VolumeOf[m] = v
                   ELSE NoPlace
Shadowed(ms) == {ShadowOf[m] : m \in ms}

\* An item of the menu: what activating it does with what.
DriveItem(d) == <<"rescan", d>>
MountItem(m) == <<"open", m>>
VolumeItem(v, ms) == IF MountNow(v, ms) # NoPlace THEN MountItem(MountNow(v, ms))
                     ELSE <<"mount", v>>

\* The items are those that the rounds of the loops append, in any order: which
\* pass, of what, and the item.
Entry(pass, of, item) == [pass |-> pass, of |-> of, item |-> item]

\* panel_place_menu_item_append_local_gio: three passes, each after the other.
LocalItems(ds, vs, ms) ==
  LET volumesOf(d) == {v \in vs : DriveNow(v, ds) = d}
      ofDrives == UNION {volumesOf(d) : d \in ds}
      empty == {d \in ds \cap PolledDrives : volumesOf(d) = {}}
      bare == {m \in ms \ (Shadowed(ms) \cup RemoteMounts) : VolumeNow(m, vs) = NoPlace}
  IN  {Entry("drives", v, VolumeItem(v, ms)) : v \in ofDrives}
      \cup {Entry("drives", d, DriveItem(d)) : d \in empty}
      \cup {Entry("volumes", v, VolumeItem(v, ms)) : v \in volumesOf(NoPlace)}
      \cup {Entry("mounts", m, MountItem(m)) : m \in bare}

\* panel_place_menu_item_append_remote_gio
RemoteItems(vs, ms) ==
  {Entry("remote", m, MountItem(m)) :
     m \in {n \in (ms \cap RemoteMounts) \ Shadowed(ms) : VolumeNow(n, vs) = NoPlace}}

\* The lines of the file of bookmarks that are read.
LinesOf(file) == SubSeq(file, 1, IF Len(file) < MaxBookmarks THEN Len(file) ELSE MaxBookmarks)

\* panel_place_menu_item_append_gtk_bookmarks, by the lines they are of.  The
\* table of the lines seen holds lines that are cut at the label after they were
\* put there, so that only a line without a label is recognised when it comes
\* again.
BookmarkItems(file, exists) ==
  LET lines == LinesOf(file)
      seen(i) == \E j \in 1 .. i - 1 : lines[j] = lines[i] /\ lines[j].label = ""
      kept == {i \in DOMAIN lines :
                 ~seen(i) /\ (lines[i].uri \in NativeUris => lines[i].uri \in exists)}
  IN  [i \in kept |-> lines[i].uri]

\* panel_place_menu_item_create_menu
CreateMenu(ds, vs, ms, file, exists, home) ==
  LET part(items, length) == [items |-> items, submenu |-> length > MaxInline]
      bookmarks == BookmarkItems(file, exists)
      local == LocalItems(ds, vs, ms)
      remote == RemoteItems(vs, ms)
  IN  [desktop |-> ~home,
       bookmarks |-> part(bookmarks, Cardinality(DOMAIN bookmarks)),
       local |-> part(local, Cardinality(local)),
       remote |-> part(remote, Cardinality(remote))]

\* panel_place_menu_item_recreate_menu
Recreated(ds, vs, ms, file, home) ==
  IF placesMenu = NoPlace THEN NoPlace ELSE CreateMenu(ds, vs, ms, file, folders, home)

-----------------------------------------------------------------------------

PlacesInit ==
  /\ drives = {} /\ volumes = {} /\ mounts = {} /\ mounting = {}
  /\ bookmarkFile = <<>> /\ fileLate = FALSE /\ folders = NativeUris
  /\ desktopIsHome = FALSE
  /\ placesMenu = NoPlace

\* panel_place_menu_item_new and _init
NewPlaceItem ==
  /\ placesMenu = NoPlace
  /\ placesMenu' = CreateMenu(drives, volumes, mounts, bookmarkFile, folders, desktopIsHome)
  /\ fileLate' = FALSE
  /\ UNCHANGED <<drives, volumes, mounts, bookmarkFile, folders, desktopIsHome, mounting>>

\* panel_place_menu_item_finalize
FinalizePlaceItem ==
  /\ placesMenu # NoPlace
  /\ placesMenu' = NoPlace /\ fileLate' = FALSE
  /\ UNCHANGED <<drives, volumes, mounts, bookmarkFile, folders, desktopIsHome, mounting>>

\* drive-connected and drive-disconnected, volume-added and volume-removed,
\* mount-added and mount-removed: the monitor has changed, and the handler
\* makes the menu anew.  What comes or goes is one thing; a volume has one mount.
MonitorIs(ds, vs, ms) ==
  /\ \A m, n \in ms : VolumeOf[m] = VolumeOf[n] => m = n \/ VolumeOf[m] = NoPlace
  /\ drives' = ds /\ volumes' = vs /\ mounts' = ms
  /\ placesMenu' = Recreated(ds, vs, ms, bookmarkFile, desktopIsHome)
  /\ UNCHANGED <<bookmarkFile, fileLate, folders, desktopIsHome>>

DrivesChanged(d) ==
  /\ MonitorIs(SymDiff(drives, {d}), volumes, mounts)
  /\ UNCHANGED mounting
VolumesChanged(v) ==
  /\ MonitorIs(drives, SymDiff(volumes, {v}), mounts)
  /\ mounting' = mounting \ {v}
MountsChanged(m) ==
  /\ MonitorIs(drives, volumes, SymDiff(mounts, {m}))
  /\ UNCHANGED mounting

\* panel_menu_item_mount_volume
MountVolume(v) ==
  /\ placesMenu # NoPlace
  /\ \E e \in placesMenu.local.items : e.item = <<"mount", v>>
  /\ mounting' = mounting \cup {v}
  /\ UNCHANGED <<drives, volumes, mounts, bookmarkFile, fileLate, folders, desktopIsHome, placesMenu>>

\* volume_mount_cb, whether or not the item or its menu still is: the mount is
\* opened, or a dialog says what failed.
VolumeMounted(v, m) ==
  /\ v \in mounting /\ VolumeOf[m] = v /\ MountNow(v, mounts) = NoPlace
  /\ MonitorIs(drives, volumes, mounts \cup {m})
  /\ mounting' = mounting \ {v}
VolumeNotMounted(v) ==
  /\ v \in mounting
  /\ mounting' = mounting \ {v}
  /\ UNCHANGED <<drives, volumes, mounts, bookmarkFile, fileLate, folders, desktopIsHome, placesMenu>>

\* Another program writes the file of bookmarks.
WriteBookmarks(f) ==
  /\ f # bookmarkFile
  /\ bookmarkFile' = f
  /\ fileLate' = (placesMenu # NoPlace)
  /\ UNCHANGED <<drives, volumes, mounts, folders, desktopIsHome, placesMenu, mounting>>

\* panel_place_menu_item_gtk_bookmarks_changed
BookmarksChanged ==
  /\ fileLate
  /\ fileLate' = FALSE
  /\ placesMenu' = Recreated(drives, volumes, mounts, bookmarkFile, desktopIsHome)
  /\ UNCHANGED <<drives, volumes, mounts, bookmarkFile, folders, desktopIsHome, mounting>>

\* A bookmarked folder is made or removed.
ChangeFolder(u) ==
  /\ folders' = SymDiff(folders, {u})
  /\ UNCHANGED <<drives, volumes, mounts, bookmarkFile, fileLate, desktopIsHome, placesMenu,
                 mounting>>

\* panel_place_menu_item_key_changed
KeyChanged ==
  /\ desktopIsHome' = ~desktopIsHome
  /\ placesMenu' = Recreated(drives, volumes, mounts, bookmarkFile, ~desktopIsHome)
  /\ UNCHANGED <<drives, volumes, mounts, bookmarkFile, fileLate, folders, mounting>>

PlacesNext ==
  \/ NewPlaceItem \/ FinalizePlaceItem \/ BookmarksChanged \/ KeyChanged
  \/ \E d \in Drives : DrivesChanged(d)
  \/ \E v \in Volumes : VolumesChanged(v) \/ MountVolume(v) \/ VolumeNotMounted(v)
                        \/ \E m \in Mounts : VolumeMounted(v, m)
  \/ \E m \in Mounts : MountsChanged(m)
  \/ \E f \in BookmarkFiles : WriteBookmarks(f)
  \/ \E u \in NativeUris : ChangeFolder(u)

PlacesSpec == PlacesInit /\ [][PlacesNext]_placesVars

-----------------------------------------------------------------------------
(* Type invariant *)
PlacesTypeOK ==
  /\ drives \subseteq Drives /\ volumes \subseteq Volumes /\ mounts \subseteq Mounts
  /\ mounting \subseteq volumes /\ folders \subseteq NativeUris

(* The items of the menu are the things of the moment: each volume and each     *)
(* mount that can be reached has exactly one, and none is of a thing that is   *)
(* gone.  A mount is left out when another one shadows it and no volume stands *)
(* for it.  The bookmarks are those of the file once its change is heard of;   *)
(* those of folders that do not exist may be there or not, as they were when   *)
(* the menu was made.                                                          *)
PlacesAreListed ==
  placesMenu # NoPlace =>
    LET items == placesMenu.local.items \cup placesMenu.remote.items
        Times(i) == Cardinality({e \in items : e.item = i})
        uris == {b.uri : b \in ToSet(LinesOf(bookmarkFile))}
    IN  /\ \A v \in volumes : Times(<<"mount", v>>) = (IF MountNow(v, mounts) = NoPlace THEN 1 ELSE 0)
        /\ \A m \in mounts : Times(MountItem(m)) =
             (IF VolumeNow(m, volumes) # NoPlace \/ m \notin Shadowed(mounts) THEN 1 ELSE 0)
        /\ \A e \in items : e.item[2] \in drives \cup volumes \cup mounts
        /\ fileLate \/ ToSet(placesMenu.bookmarks.items) \in
             {uris \ gone : gone \in SUBSET NativeUris}
=============================================================================
