----------------------------- MODULE LayoutFile -----------------------------
(***************************************************************************)
(* The stored layout and how it is filled from a layout file: the first    *)
(* start, screens without a panel, ids for new toplevels and objects,      *)
(* deletion, and processes that end in the middle of any of it.            *)
(*                                                                         *)
(* Code: gnome-panel/panel-layout.c, with panel-gsettings.c.               *)
(*                                                                         *)
(* Every group of a file takes two writes, its keys and then its id in a   *)
(* list; a process that ends leaves what was written.  Nothing else runs   *)
(* while a file is appended.  A group of keys is one write here.           *)
(***************************************************************************)
EXTENDS Integers, FiniteSets, FiniteSetsExt, SequencesExt

CONSTANTS
  Files,       \* layout files: sequences of groups
  Displays,    \* how many X screens a session may have
  MaxNumber,   \* the largest number at the end of an id (bound)
  MaxEdits,    \* starts, creations, deletions (bound)
  NoName,      \* a group without an id
  Invalid      \* a toplevel-id that is not a valid string

\* A group is a toplevel or an object (kind) with an id from its header (name),
\* may hold an unknown key (valid = FALSE), and, if it is an object, names a
\* toplevel of the file (on) as its last key.
Kinds == {"toplevel", "object"}

IsGroupOf(group, f) ==
  /\ group.kind \in Kinds /\ group.valid \in BOOLEAN
  /\ group.kind = "object" =>
       \/ group.on = Invalid
       \/ \E i \in DOMAIN f : f[i].kind = "toplevel" /\ f[i].name = group.on

ASSUME FilesAssumption ==
  \A f \in Files : f \in Seq(ToSet(f)) /\ \A i \in DOMAIN f : IsGroupOf(f[i], f)
ASSUME BoundAssumption ==
  MaxNumber \in Nat /\ MaxEdits \in Nat /\ Displays \subseteq Nat \ {0}

VARIABLES
  listed,   \* toplevel-id-list and object-id-list, by kind
  keys,     \* by kind, the ids with a directory of keys
  screenOf, \* the "screen" key of toplevels with keys
  onOf,     \* the "toplevel-id" key of objects with keys
  phase,    \* stopped, initial, ensure (appending a file), running
  todo,     \* [group, screen] still to be appended
  current,  \* the id whose keys are written and that is not in its list yet
  file,     \* the layout file of this session
  nScreens, \* how many X screens this session has
  edits,    \* how much of MaxEdits is used
  missing   \* history: wanted ids of toplevels that were renamed, or lost
            \* when the process ended

vars == <<listed, keys, screenOf, onOf, phase, todo, current, file, nScreens, edits, missing>>
store == <<listed, keys, screenOf, onOf>>
session == <<file, nScreens>>

Listed(kind) == ToSet(listed[kind])

\* The screens of this session.
screens == 0 .. nScreens - 1

With(f, id, value) == [x \in DOMAIN f \union {id} |-> IF x = id THEN value ELSE f[x]]

-----------------------------------------------------------------------------
(***************************************************************************)
(* Ids.  "name-screen" has no number, "name-screen-n" has.                 *)
(***************************************************************************)
Unnumbered == -1
Id(name, screen, n) == [name |-> name, screen |-> screen, number |-> n]
NoId == Id(NoName, 0, Unnumbered)

\* The screen in an id: -1 stands for no screen and counts as 0.
Suffix(screen) == IF screen = -1 THEN 0 ELSE screen
Wanted(name, screen) == Id(name, Suffix(screen), Unnumbered)

\* The lowest number that makes an id neither listed nor with keys.
Numbered(kind, name, screen) ==
  LET Free(n) == Id(name, Suffix(screen), n) \notin Listed(kind) \union keys[kind]
  IN Id(name, Suffix(screen), Min({n \in 0 .. MaxNumber + 1 : Free(n)}))

\* Mutant of FreeIds: a wanted id is not looked for in the list.
FreeIds_Unlooked(kind, name, screen) ==
  {IF name = NoName THEN Numbered(kind, kind, screen) ELSE Wanted(name, screen)}

\* A wanted id is taken as it is unless it is listed or is the first directory
\* found: a break ends the search there.  Which one is first is up to dconf.
FreeIds(kind, name, screen) ==
  LET wanted == Wanted(name, screen)
      seen == wanted \in Listed(kind) \/ keys[kind] = {wanted}
  IN IF name = NoName
     THEN {Numbered(kind, kind, screen)}
     ELSE {id \in {wanted, Numbered(kind, name, screen)} :
             IF id = wanted THEN ~seen ELSE seen \/ wanted \in keys[kind]}

-----------------------------------------------------------------------------
(***************************************************************************)
(* Appending a file.                                                       *)
(***************************************************************************)
\* The first pass: an object whose toplevel-id is not a string sets the error
\* without ending the pass, so that the next group fails, if there is one.
Validated(f) ==
  /\ f # <<>>
  /\ \A i \in DOMAIN f : f[i].valid
  /\ \A i \in 1 .. Len(f) - 1 : f[i].on # Invalid

Groups(f, screen) ==
  IF Validated(f) THEN [i \in DOMAIN f |-> [group |-> f[i], screen |-> screen]] ELSE <<>>

\* Mutant of EmptyScreens: panels of screens that do not exist now count.
EmptyScreens_AnyPanel ==
  IF Len(listed["toplevel"]) >= nScreens THEN {}
  ELSE screens \ {screenOf[id] : id \in Listed("toplevel")}

\* Screens no panel is on.
EmptyScreens == screens \ {screenOf[id] : id \in Listed("toplevel")}

\* The file once for each of them; the loop prepends them, so the last is first.
OncePerEmptyScreen ==
  LET upTo[n \in 0 .. nScreens] ==
        IF n = 0 THEN <<>>
        ELSE (IF n - 1 \in EmptyScreens THEN Groups(file, n - 1) ELSE <<>>) \o upTo[n - 1]
  IN upTo[nScreens]

\* The process starts; a layout without panels is filled from the file.
Start(f, n) ==
  /\ phase = "stopped"
  /\ edits < MaxEdits
  /\ phase' = "initial"
  /\ file' = f
  /\ nScreens' = n
  /\ todo' = IF listed["toplevel"] = <<>> THEN Groups(f, -1) ELSE <<>>
  /\ edits' = edits + 1
  /\ UNCHANGED <<store, current, missing>>

\* Mutant of PanelOf: an object's panel is not numbered like the panel's id.
PanelOf_Raw(group, screen) == Id(group.on, screen, Unnumbered)

\* The toplevel-id of an object is completed the way its panel's wanted id is.
PanelOf(group, screen) == Wanted(group.on, screen)

\* The keys of the next group.  A toplevel's screen is the one the file is
\* appended for, or what the keys said before, or the default, 0.
WriteKeys ==
  /\ todo # <<>> /\ current = NoId
  /\ LET group == Head(todo).group
         screen == Head(todo).screen
     IN \E id \in FreeIds(group.kind, group.name, screen) :
          /\ id.number <= MaxNumber
          /\ current' = id
          /\ keys' = [keys EXCEPT ![group.kind] = @ \union {id}]
          /\ IF group.kind = "toplevel"
             THEN /\ screenOf' = With(screenOf, id, IF screen # -1 THEN screen
                                               ELSE IF id \in keys["toplevel"] THEN screenOf[id]
                                               ELSE 0)
                  /\ missing' = missing \union ({Wanted(group.name, screen)} \ {id})
                  /\ UNCHANGED onOf
             ELSE /\ onOf' = With(onOf, id, PanelOf(group, screen))
                  /\ UNCHANGED <<screenOf, missing>>
  /\ UNCHANGED <<listed, phase, todo, session, edits>>

\* Its id goes to the end of the list.
WriteList ==
  /\ current # NoId
  /\ listed' = [listed EXCEPT ![Head(todo).group.kind] = Append(@, current)]
  /\ todo' = Tail(todo)
  /\ current' = NoId
  /\ UNCHANGED <<keys, screenOf, onOf, phase, session, edits, missing>>

\* The first layout is there: append the file once more for every empty screen.
\* Without any panel the process ends.
Ensure ==
  /\ phase = "initial" /\ todo = <<>>
  /\ IF listed["toplevel"] = <<>>
     THEN phase' = "stopped" /\ UNCHANGED todo
     ELSE /\ phase' = "ensure"
          /\ todo' = OncePerEmptyScreen
  /\ UNCHANGED <<store, current, session, edits, missing>>

Loaded ==
  /\ phase = "ensure" /\ todo = <<>>
  /\ phase' = "running"
  /\ UNCHANGED <<store, todo, current, session, edits, missing>>

\* The process ends, anywhere.
Crash ==
  LET Lost(i) == todo[i].group.kind = "toplevel"
  IN /\ phase # "stopped"
     /\ phase' = "stopped"
     /\ todo' = <<>>
     /\ current' = NoId
     /\ missing' = missing \union {Wanted(todo[i].group.name, todo[i].screen) :
                                      i \in {j \in DOMAIN todo : Lost(j)}}
     /\ UNCHANGED <<store, session, edits>>

-----------------------------------------------------------------------------
(***************************************************************************)
(* Edits of the running panel; the process may end before one is whole.    *)
(***************************************************************************)
Edit(whole) ==
  /\ phase = "running"
  /\ edits < MaxEdits
  /\ edits' = edits + 1
  /\ phase' = IF whole THEN phase ELSE "stopped"
  /\ UNCHANGED <<todo, current, session>>

\* The panels of this session.
PanelsThere == {id \in Listed("toplevel") : screenOf[id] \in screens}

Without(list, ids) ==
  LET kept[n \in 0 .. Len(list)] ==
        IF n = 0 THEN <<>>
        ELSE IF list[n] \in ids THEN kept[n - 1] ELSE Append(kept[n - 1], list[n])
  IN kept[Len(list)]

\* The user adds a panel to a screen, or an object to a panel.
CreateToplevel(screen, whole) ==
  LET id == Numbered("toplevel", "toplevel", -1)
  IN /\ id.number <= MaxNumber
     /\ Edit(whole)
     /\ keys' = [keys EXCEPT !["toplevel"] = @ \union {id}]
     /\ screenOf' = With(screenOf, id, screen)
     /\ listed' = IF whole THEN [listed EXCEPT !["toplevel"] = Append(@, id)] ELSE listed
     /\ UNCHANGED <<onOf, missing>>

CreateObject(name, on, whole) ==
  \E id \in FreeIds("object", name, -1) :
    /\ id.number <= MaxNumber
    /\ Edit(whole)
    /\ keys' = [keys EXCEPT !["object"] = @ \union {id}]
    /\ onOf' = With(onOf, id, on)
    /\ listed' = IF whole THEN [listed EXCEPT !["object"] = Append(@, id)] ELSE listed
    /\ UNCHANGED <<screenOf, missing>>

\* Mutant of DeleteObject: the keys, then the list.
DeleteObject_KeysFirst(id, whole) ==
  LET left == keys["object"] \ {id}
  IN /\ id \in Listed("object")
     /\ Edit(whole)
     /\ listed' = IF whole THEN [listed EXCEPT !["object"] = Without(@, {id})] ELSE listed
     /\ keys' = [keys EXCEPT !["object"] = left]
     /\ onOf' = Restrict(onOf, left)
     /\ UNCHANGED <<screenOf, missing>>

\* The list, then the keys.
DeleteObject(id, whole) ==
  LET left == IF whole THEN keys["object"] \ {id} ELSE keys["object"]
  IN /\ id \in Listed("object")
     /\ Edit(whole)
     /\ listed' = [listed EXCEPT !["object"] = Without(@, {id})]
     /\ keys' = [keys EXCEPT !["object"] = left]
     /\ onOf' = Restrict(onOf, left)
     /\ UNCHANGED <<screenOf, missing>>

\* The list, the keys, then the objects on it, of which some are deleted if the
\* process ends.
DeleteToplevelAnd(id, gone, whole) ==
  /\ id \in PanelsThere /\ Cardinality(PanelsThere) > 1
  /\ Edit(whole)
  /\ listed' = [listed EXCEPT !["toplevel"] = Without(@, {id}), !["object"] = Without(@, gone)]
  /\ keys' = [keys EXCEPT !["toplevel"] = @ \ {id}, !["object"] = @ \ gone]
  /\ screenOf' = Restrict(screenOf, keys'["toplevel"])
  /\ onOf' = Restrict(onOf, keys'["object"])
  /\ missing' = IF whole THEN missing ELSE missing \union {id}

ObjectsOn(id) == {x \in Listed("object") : onOf[x] = id}

DeleteToplevel(id) ==
  \/ DeleteToplevelAnd(id, ObjectsOn(id), TRUE)
  \/ \E gone \in SUBSET ObjectsOn(id) : DeleteToplevelAnd(id, gone, FALSE)

-----------------------------------------------------------------------------
Init ==
  /\ listed = [kind \in Kinds |-> <<>>]
  /\ keys = [kind \in Kinds |-> {}]
  /\ screenOf = <<>> /\ onOf = <<>>
  /\ phase = "stopped"
  /\ todo = <<>> /\ current = NoId
  /\ file = <<>> /\ nScreens = 0
  /\ edits = 0 /\ missing = {}

\* The names of objects that files have are those that users choose from.
ObjectGroups == {group \in UNION {ToSet(f) : f \in Files} : group.kind = "object"}
ObjectNames == {group.name : group \in ObjectGroups}

UserStep(whole) ==
  \/ \E screen \in screens : CreateToplevel(screen, whole)
  \/ \E name \in ObjectNames, on \in PanelsThere : CreateObject(name, on, whole)
  \/ \E id \in Listed("object") : DeleteObject(id, whole)

Next ==
  \/ \E f \in Files, n \in Displays : Start(f, n)
  \/ WriteKeys
  \/ WriteList
  \/ Ensure
  \/ Loaded
  \/ Crash
  \/ \E whole \in BOOLEAN : UserStep(whole)
  \/ \E id \in PanelsThere : DeleteToplevel(id)

Spec == Init /\ [][Next]_vars

-----------------------------------------------------------------------------
\* The types.  An id in a list has keys, and at most the last write of a file
\* is between keys and list.
TypeOK ==
  /\ \A kind \in Kinds : Listed(kind) \subseteq keys[kind]
  /\ DOMAIN screenOf = keys["toplevel"] /\ DOMAIN onOf = keys["object"]
  /\ phase \in {"stopped", "initial", "ensure", "running"}
  /\ phase \in {"stopped", "running"} => todo = <<>>
  /\ todo = <<>> => current = NoId
  /\ edits \in 0 .. MaxEdits

\* No id is given out while it is in use: a list never holds one twice, however
\* often the file is appended and whatever the user created under its names
\* (panel_layout_find_free_id).
NoIdTwice == \A kind \in Kinds : IsInjective(listed[kind])

\* Once loaded, every object in the layout is on a panel in the layout: those of
\* a file on the file's panels for their own screen, and none on a deleted
\* panel.  The exceptions are a toplevel-id that is not a string, a panel that
\* could not get the id it wanted, and a process that ended before a file or a
\* deletion was complete.
ObjectsOnPanels ==
  phase = "running" =>
    \A id \in Listed("object") :
      onOf[id] \in Listed("toplevel") \union missing \/ onOf[id].name = Invalid

FileHasPanel == Validated(file) /\ \E i \in DOMAIN file : file[i].kind = "toplevel"

\* When loading is done every screen has a panel, if the file is valid and has
\* one, whatever panels there are for screens that do not exist at the moment
\* (panel_layout_ensure_toplevel_per_screen).
PanelOnEveryScreen ==
  [][Loaded /\ FileHasPanel => screens \subseteq {screenOf[id] : id \in Listed("toplevel")}]_vars

\* What the comment in panel_layout_find_free_id says of the id it makes: it is
\* not used yet.  Keys left by a process that ended are used again by this code.
NewIdHasNoKeys ==
  [][WriteKeys => current' \notin keys[Head(todo).group.kind]]_vars
=============================================================================
