----------------------------- MODULE PanelWidget -----------------------------
(***************************************************************************)
(* The order of the applets on panels: the sorted list of every panel      *)
(* widget, the pack type and index of every applet, what moving, adding    *)
(* and removing do to them, and the stored copy that the next session      *)
(* loads.                                                                  *)
(*                                                                         *)
(* Code: gnome-panel/panel-widget.c, with the position saves of applet.c   *)
(* and the drops of panel.c.                                               *)
(*                                                                         *)
(* Pixels are left out: a pointer move runs single steps (switch or push)  *)
(* for as long as the pointer is past the neighbour, so with the pointer   *)
(* anywhere every single step is a handler run of its own.                 *)
(***************************************************************************)
EXTENDS Integers, SequencesExt

CONSTANTS
  Applets,         \* objects, by their widgets
  Panels,          \* the panels, in the order of the list "panels"
  Packed,          \* those that do not expand
  MenuButtons,     \* applets that are sources of an internal drag and drop
  DropsOnOwnPanel, \* may a menu button be dropped on the panel it is on?
  MaxIndex,        \* the largest pack index (bound)
  MaxEdits,        \* moves, drags, creations, removals, restarts (bound)
  None             \* no applet, no position

PanelSet == ToSet(Panels)

ASSUME SubsetAssumption == Packed \subseteq PanelSet /\ MenuButtons \subseteq Applets
ASSUME SentinelAssumption ==
  /\ None \notin Applets
  /\ None \notin [type : Int, index : Int]
  /\ None \notin [panel : PanelSet, type : Int, index : Int]
\* Indexes up to the number of applets are within the bound.
ASSUME BoundAssumption ==
  /\ MaxIndex \in Nat /\ MaxEdits \in Nat /\ DropsOnOwnPanel \in BOOLEAN
  /\ IsFiniteSet(Applets) /\ Cardinality(Applets) <= MaxIndex + 1

VARIABLES
  appletList,   \* applet_list of every panel
  position,     \* pack_type and pack_index in the AppletData of a widget
  dragged,      \* currently_dragged_applet of every panel
  inDrag,       \* panel_applet_in_drag
  queued,       \* queued_position_saves
  stored,       \* toplevel-id, pack-type and pack-index in GSettings
  edits         \* how much of MaxEdits is used

vars == <<appletList, position, dragged, inDrag, queued, stored, edits>>

-----------------------------------------------------------------------------
(***************************************************************************)
(* Pack types are numbers, as the code adds one to get the next.           *)
(***************************************************************************)
START == 0
CENTER == 1
END == 2
PackTypes == START .. END

Positions == [type : PackTypes, index : 0 .. MaxIndex]
Places == [panel : PanelSet, type : PackTypes, index : 0 .. MaxIndex]

\* Negative, zero or positive; the end pack is counted from the panel's end.
Compare(x, y) ==
  CASE x.type # y.type -> x.type - y.type
    [] x.type = y.type /\ x.type # END -> x.index - y.index
    [] OTHER -> y.index - x.index

\* Before the first that does not come before it: before its equals.
InsertSorted(list, pos, a) ==
  LET later == {i \in DOMAIN list : Compare(pos[a], pos[list[i]]) <= 0}
  IN InsertAt(list, IF later = {} THEN Len(list) + 1 ELSE Min(later), a)

\* The first uninterrupted run of applets of the type, in list order.
Pack(list, pos, t) ==
  LET Has(i) == pos[list[i]].type = t
      from == {i \in DOMAIN list : Has(i)}
      runTo(i) == Max({j \in i .. Len(list) : \A k \in i .. j : Has(k)})
  IN IF from = {} THEN <<>> ELSE SubSeq(list, Min(from), runTo(Min(from)))

\* Positions after every run is counted from zero again.
Compressed(list, pos) ==
  LET run == [t \in PackTypes |-> Pack(list, pos, t)]
      Place(t, i) == IF t = END THEN Len(run[t]) - i ELSE i - 1
  IN [a \in Applets |->
       IF \E t \in PackTypes : Contains(run[t], a)
       THEN LET t == pos[a].type
            IN [pos[a] EXCEPT !.index = Place(t, CHOOSE i \in DOMAIN run[t] : run[t][i] = a)]
       ELSE pos[a]]

CompressEmits(list, pos) == {a \in Applets : Compressed(list, pos)[a] # pos[a]}

NewPackIndex(list, pos, t) ==
  Max({-1} \union {pos[a].index : a \in {b \in ToSet(list) : pos[b].type = t}}) + 1

\* Whom an insertion at an index shifts; a negative index means at the end.
Shifted(list, pos, t, index) ==
  IF index < 0 THEN {}
  ELSE {b \in ToSet(list) : pos[b].type = t /\ pos[b].index >= index}

\* Mutant of MoveToPack: no room is made for the newcomer.
MoveToPack_NoShift(list, pos, a, t, index) ==
  [pos EXCEPT ![a] = [type |-> t,
                      index |-> IF index < 0 THEN NewPackIndex(list, pos, t) ELSE index]]

MoveToPack(list, pos, a, t, index) ==
  LET shifted == Shifted(list, pos, t, index)
      to == IF index < 0 THEN NewPackIndex(list, pos, t) ELSE index
  IN [b \in Applets |->
       CASE b = a -> [type |-> t, index |-> to]
         [] b # a /\ b \in shifted -> [pos[b] EXCEPT !.index = @ + 1]
         [] OTHER -> pos[b]]

\* An applet that comes to a packed panel without an index shifts the end pack.
AddEmits(p, list, pos) ==
  IF p \in Packed THEN ToSet(Pack(list, pos, END)) ELSE {}

Added(p, list, pos) ==
  [b \in Applets |->
     IF b \in AddEmits(p, list, pos) THEN [pos[b] EXCEPT !.index = @ + 1] ELSE pos[b]]

-----------------------------------------------------------------------------
Shown == UNION {ToSet(appletList[p]) : p \in PanelSet}

PanelOf(a) == CHOOSE p \in PanelSet : Contains(appletList[p], a)

IndexIn(list, a) == CHOOSE i \in DOMAIN list : list[i] = a

Removed(list, a) == RemoveAt(list, IndexIn(list, a))

\* Nothing is dragged: a drag grabs the pointer, which keeps menus, drops and
\* other drags away.
Idle == ~inDrag

\* One more edit, and no index beyond the bound.
Edit ==
  /\ edits < MaxEdits
  /\ edits' = edits + 1
  /\ position' \in [Applets -> Positions \union {None}]

-----------------------------------------------------------------------------
(***************************************************************************)
(* Objects come and go.                                                    *)
(***************************************************************************)
\* The user adds an object; the loader makes its widget later.
Create(a, p, t) ==
  LET index == NewPackIndex(appletList[p], position, t)
  IN /\ Idle
     /\ stored[a] = None /\ a \notin Shown
     /\ index <= MaxIndex
     /\ stored' = [stored EXCEPT ![a] = [panel |-> p, type |-> t, index |-> index]]
     /\ UNCHANGED <<appletList, position, dragged, inDrag, queued>>
     /\ Edit

\* The object is loaded (or an applet that crashed is loaded again).
Register(a) ==
  /\ stored[a] # None /\ a \notin Shown
  /\ LET p == stored[a].panel
     IN /\ position' = [position EXCEPT ![a] = [type |-> stored[a].type, index |-> stored[a].index]]
        /\ appletList' = [appletList EXCEPT ![p] = InsertSorted(@, position', a)]
  /\ UNCHANGED <<dragged, inDrag, queued, stored, edits>>

\* The widget is gone from its panel, and from the layout if it was deleted.
Unlisted(a, deleted) ==
  /\ a \in Shown
  /\ appletList' = [appletList EXCEPT ![PanelOf(a)] = Removed(@, a)]
  /\ stored' = IF deleted THEN [stored EXCEPT ![a] = None] ELSE stored

\* Mutants of Destroyed: the drag goes on; the save stays queued.
Destroyed_StillDragged(a, deleted) ==
  /\ Unlisted(a, deleted)
  /\ position' = [position EXCEPT ![a] = None]
  /\ queued' = queued \ {a}
  /\ UNCHANGED <<dragged, inDrag>>
  /\ Edit
Destroyed_StillQueued(a, deleted) ==
  /\ Idle
  /\ Unlisted(a, deleted)
  /\ position' = [position EXCEPT ![a] = None]
  /\ UNCHANGED <<queued, dragged, inDrag>>
  /\ Edit

\* Its widget is destroyed: the object was deleted, or the applet crashed.
Destroyed(a, deleted) ==
  LET p == PanelOf(a)
      list == appletList[p]
      dropped == dragged[p] = a
      pos == IF dropped THEN Compressed(list, position) ELSE position
      emits == IF dropped THEN CompressEmits(list, position) ELSE {}
  IN /\ Unlisted(a, deleted)
     /\ position' = [pos EXCEPT ![a] = None]
     /\ dragged' = IF dropped THEN [dragged EXCEPT ![p] = None] ELSE dragged
     /\ inDrag' = (inDrag /\ ~dropped)
     /\ queued' = (queued \union emits) \ {a}
     /\ Edit

\* A second after the first emission.
SaveTimeout ==
  /\ queued # {}
  /\ stored' = [a \in Applets |->
                  IF a \in queued
                  THEN [panel |-> PanelOf(a), type |-> position[a].type, index |-> position[a].index]
                  ELSE stored[a]]
  /\ queued' = {}
  /\ UNCHANGED <<appletList, position, dragged, inDrag, edits>>

\* The process ends, and what was not saved is lost; the next one loads.
Restart ==
  /\ appletList' = [p \in PanelSet |-> <<>>]
  /\ position' = [a \in Applets |-> None]
  /\ dragged' = [p \in PanelSet |-> None]
  /\ inDrag' = FALSE
  /\ queued' = {}
  /\ UNCHANGED stored
  /\ Edit

-----------------------------------------------------------------------------
(***************************************************************************)
(* A drag, and its steps on one panel.                                     *)
(***************************************************************************)
\* From the menu, the mouse or the applet; a failed grab ends it at once.
DragStart(p, a, grabbed) ==
  /\ Idle
  /\ Contains(appletList[p], a)
  /\ IF grabbed
     THEN /\ dragged' = [dragged EXCEPT ![p] = a]
          /\ inDrag' = TRUE
          /\ UNCHANGED <<position, queued>>
     ELSE /\ position' = Compressed(appletList[p], position)
          /\ queued' = queued \union CompressEmits(appletList[p], position)
          /\ UNCHANGED <<dragged, inDrag>>
  /\ UNCHANGED <<appletList, stored>>
  /\ Edit

\* Mutant of DragEnd: the indexes keep their gaps.
DragEnd_NotCompressed(p) ==
  /\ dragged[p] # None
  /\ dragged' = [dragged EXCEPT ![p] = None]
  /\ inDrag' = FALSE
  /\ UNCHANGED <<appletList, position, queued, stored, edits>>

\* Button release, Escape, Return, space.
DragEnd(p) ==
  /\ dragged[p] # None
  /\ dragged' = [dragged EXCEPT ![p] = None]
  /\ inDrag' = FALSE
  /\ position' = Compressed(appletList[p], position)
  /\ queued' = queued \union CompressEmits(appletList[p], position)
  /\ UNCHANGED <<appletList, stored, edits>>

\* The dragged applet and its neighbour of the same pack change places.
Swap(p, i, j) ==
  LET list == appletList[p]
      a == list[i]
      b == list[j]
  IN /\ position' = [position EXCEPT ![a].index = position[b].index,
                                     ![b].index = position[a].index]
     /\ appletList' = [appletList EXCEPT ![p] = [@ EXCEPT ![i] = b, ![j] = a]]
     /\ queued' = queued \union {a, b}

\* Where "block" is inserted in pack t: before what is there when it comes from
\* the start pack to the centre, and at the highest index otherwise.
BlockIndex(block, t) == IF t = CENTER /\ position[block[1]].type = START THEN 0 ELSE -1

BlockMoved(p, block, t) ==
  LET after[n \in 0 .. Len(block)] ==
        IF n = 0 THEN position
        ELSE MoveToPack(appletList[p], after[n - 1], block[n], t, BlockIndex(block, t))
  IN after[Len(block)]

\* Mutants of MoveBlock: who makes room is not saved; the block is turned around.
MoveBlock_OwnOnly(p, block, t) ==
  /\ position' = BlockMoved(p, block, t)
  /\ queued' = queued \union ToSet(block)
  /\ UNCHANGED appletList
MoveBlock_Backwards(p, block, t) ==
  /\ position' = BlockMoved(p, Reverse(block), t)
  /\ queued' = queued \union ToSet(block) \union Shifted(appletList[p], position, t, BlockIndex(block, t))
  /\ UNCHANGED appletList

\* The applets of "block", one after the other, go to pack t.
MoveBlock(p, block, t) ==
  /\ position' = BlockMoved(p, block, t)
  /\ queued' = queued \union ToSet(block) \union Shifted(appletList[p], position, t, BlockIndex(block, t))
  /\ UNCHANGED appletList

\* Is there a neighbour at j, in the same pack?
SamePack(list, i, j) == j \in DOMAIN list /\ position[list[j]].type = position[list[i]].type

DragStep(p) ==
  /\ UNCHANGED <<dragged, inDrag, stored>>
  /\ Edit

SwitchRight(p) ==
  LET list == appletList[p]
      a == dragged[p]
      i == IndexIn(list, a)
  IN /\ a # None
     /\ ~(i = Len(list) /\ (p \in Packed \/ position[a].type = END))
     /\ \/ SamePack(list, i, i + 1) /\ Swap(p, i, i + 1)
        \/ ~SamePack(list, i, i + 1) /\ MoveBlock(p, <<a>>, position[a].type + 1)
     /\ DragStep(p)

SwitchLeft(p) ==
  LET list == appletList[p]
      a == dragged[p]
      i == IndexIn(list, a)
  IN /\ a # None
     /\ ~(i = 1 /\ (p \in Packed \/ position[a].type = START))
     /\ \/ SamePack(list, i, i - 1) /\ Swap(p, i, i - 1)
        \/ ~SamePack(list, i, i - 1) /\ MoveBlock(p, <<a>>, position[a].type - 1)
     /\ DragStep(p)

\* The applet and all that follow it in its pack go to the next pack.
PushRight(p) ==
  LET list == appletList[p]
      a == dragged[p]
      i == IndexIn(list, a)
      last == Max({j \in i .. Len(list) : \A k \in i .. j : SamePack(list, i, k)})
  IN /\ a # None
     /\ position[a].type # END
     /\ MoveBlock(p, Reverse(SubSeq(list, i, last)), position[a].type + 1)
     /\ DragStep(p)

\* The applet and all that precede it in its pack go to the previous pack.
PushLeft(p) ==
  LET list == appletList[p]
      a == dragged[p]
      i == IndexIn(list, a)
      first == Min({j \in 1 .. i : \A k \in j .. i : SamePack(list, i, k)})
  IN /\ a # None
     /\ position[a].type # START
     /\ MoveBlock(p, SubSeq(list, first, i), position[a].type - 1)
     /\ DragStep(p)

-----------------------------------------------------------------------------
(***************************************************************************)
(* From panel to panel.                                                    *)
(***************************************************************************)
\* panel_widget_reparent: a gets its new position, leaves p (which ends a drag
\* of it there) and is inserted on q.  pos and emits come from what the caller
\* did before.  A widget that is on q already stays where it is in the list.
Reparent(p, q, a, t, index, pos, emits, dragging) ==
  LET shifted == Shifted(appletList[q], pos, t, index)
      moved == MoveToPack(appletList[q], pos, a, t, index)
      left == IF dragging THEN Compressed(appletList[p], moved) ELSE moved
      leftEmits == IF dragging THEN CompressEmits(appletList[p], moved) ELSE {}
      added == Added(q, appletList[q], left)
      addEmits == AddEmits(q, appletList[q], left)
  IN IF p = q
     THEN /\ position' = moved
          /\ queued' = queued \union emits \union shifted \union {a}
          /\ UNCHANGED appletList
     ELSE /\ position' = added
          /\ appletList' = [appletList EXCEPT ![p] = Removed(@, a),
                                              ![q] = InsertSorted(@, added, a)]
          /\ queued' = queued \union emits \union shifted \union leftEmits
                         \union addEmits \union {a}

\* The pointer of a drag is on q: the drag ends on p and starts again on q,
\* unless the applet may not be moved any more (lockdown).  The pack type is
\* that of the pointer's half of q.
CrossTo(p, q, t, started) ==
  LET a == dragged[p]
      index == NewPackIndex(appletList[q], position, t)
  IN /\ a # None /\ p # q
     /\ Reparent(p, q, a, t, index, Compressed(appletList[p], position),
                 CompressEmits(appletList[p], position), FALSE)
     /\ dragged' = [dragged EXCEPT ![p] = None, ![q] = IF started THEN a ELSE None]
     /\ inDrag' = started
     /\ UNCHANGED stored
     /\ Edit

\* Another panel is hidden and takes no applet: the drag ends and starts again on p,
\* or does not, which is DragEnd.  The panels after it are tried and at last the
\* applet is moved along p, as CrossTo, SwitchRight and the others do next.  That one
\* move of an applet whose drag did not start again is left out.
CrossRefused(p) ==
  /\ dragged[p] # None /\ PanelSet # {p}
  /\ position' = Compressed(appletList[p], position)
  /\ queued' = queued \union CompressEmits(appletList[p], position)
  /\ UNCHANGED <<appletList, dragged, inDrag, stored, edits>>

\* Tab goes to the next panel or the first, shift-Tab to the previous one.
TabTargets(p) ==
  LET i == IndexIn(Panels, p)
  IN {Panels[IF i = Len(Panels) THEN 1 ELSE i + 1]} \union
       (IF i = 1 THEN {} ELSE {Panels[i - 1]})

\* The drag is not ended before the move: leaving p ends it.
TabMove(p, q) ==
  /\ dragged[p] # None
  /\ q \in TabTargets(p) \ {p}
  /\ Reparent(p, q, dragged[p], START, 0, position, {}, TRUE)
  /\ dragged' = [dragged EXCEPT ![p] = None]
  /\ inDrag' = FALSE
  /\ UNCHANGED stored
  /\ Edit

\* A menu button is dragged and dropped.
MoveApplet(a, q, t) ==
  /\ Idle
  /\ a \in Shown \intersect MenuButtons
  /\ DropsOnOwnPanel \/ q # PanelOf(a)
  /\ Reparent(PanelOf(a), q, a, t, NewPackIndex(appletList[q], position, t), position, {}, FALSE)
  /\ UNCHANGED <<dragged, inDrag, stored>>
  /\ Edit

-----------------------------------------------------------------------------
\* The objects of a layout with indexes 0..n in every pack, saved by an earlier
\* session or by a layout file, loaded and not yet touched.
InOrder(place) ==
  \A a \in Applets : place[a] # None =>
    LET pack == {b \in Applets : place[b] # None /\ place[b].panel = place[a].panel
                                  /\ place[b].type = place[a].type}
    IN /\ place[a].index < Cardinality(pack)
       /\ \A b \in pack : place[b].index = place[a].index => a = b

SortedOn(p) ==
  \A i, j \in DOMAIN appletList[p] :
    i < j => Compare(position[appletList[p][i]], position[appletList[p][j]]) <= 0

\* Every list is sorted by pack type and index: all functions that walk one pack
\* take it to be one run of the list.
Sorted == \A p \in PanelSet : SortedOn(p)

Init ==
  /\ stored \in {s \in [Applets -> Places \union {None}] : InOrder(s)}
  /\ position = [a \in Applets |->
                   IF stored[a] = None THEN None
                   ELSE [type |-> stored[a].type, index |-> stored[a].index]]
  /\ appletList \in [PanelSet -> UNION {SetToSeqs(shown) : shown \in SUBSET Applets}]
  /\ \A p \in PanelSet :
       ToSet(appletList[p]) = {a \in Applets : stored[a] # None /\ stored[a].panel = p}
  /\ Sorted
  /\ dragged = [p \in PanelSet |-> None]
  /\ inDrag = FALSE
  /\ queued = {}
  /\ edits = 0

Next ==
  \/ \E a \in Applets :
       \/ Register(a)
       \/ \E p \in PanelSet, t \in {START, END} : Create(a, p, t) \/ MoveApplet(a, p, t)
       \/ \E p \in PanelSet, grabbed \in BOOLEAN : DragStart(p, a, grabbed)
       \/ \E deleted \in BOOLEAN : Destroyed(a, deleted)
  \/ \E p \in PanelSet :
       \/ DragEnd(p)
       \/ SwitchRight(p) \/ SwitchLeft(p) \/ PushRight(p) \/ PushLeft(p)
       \/ CrossRefused(p)
       \/ \E q \in PanelSet, t \in {START, END}, started \in BOOLEAN : CrossTo(p, q, t, started)
       \/ \E q \in PanelSet : TabMove(p, q)
  \/ SaveTimeout
  \/ Restart

Spec == Init /\ [][Next]_vars

-----------------------------------------------------------------------------
(***************************************************************************)
(* Properties.                                                             *)
(***************************************************************************)
\* Every variable has its type, and an applet has a position while it is shown.
TypeOK ==
  /\ appletList \in [PanelSet -> Seq(Applets)]
  /\ position \in [Applets -> Positions \union {None}]
  /\ dragged \in [PanelSet -> Applets \union {None}]
  /\ inDrag \in BOOLEAN
  /\ queued \subseteq Shown
  /\ stored \in [Applets -> Places \union {None}]
  /\ edits \in 0 .. MaxEdits
  /\ \A a \in Applets : (position[a] # None) <=> (a \in Shown)

\* Lists stay sorted, whatever is moved, added or removed, but for a Tab: it
\* counts the old panel's indexes again with the applet that leaves still in the
\* middle of another pack.
StaysSorted ==
  [][\A p \in PanelSet : SortedOn(p) => SortedOn(p)' \/ \E q \in PanelSet : TabMove(p, q)]_vars

\* A shown applet whose save is not queued is stored where it is shown: every
\* function that changes a position, of the moved applet or of one that makes
\* room for it, emits applet-moved.
StoredAsShown ==
  \A a \in Shown \ queued :
    stored[a] = [panel |-> PanelOf(a), type |-> position[a].type, index |-> position[a].index]

\* At most one applet is dragged, it is on the panel that drags it, and the
\* global flag that lets its keys through says so.
DragIsOfShown ==
  /\ \A p \in PanelSet : dragged[p] # None => Contains(appletList[p], dragged[p])
  /\ inDrag <=> \E p \in PanelSet : dragged[p] # None
  /\ \A p, q \in PanelSet : dragged[p] # None /\ dragged[q] # None => p = q

Distinct(p) ==
  \A a, b \in ToSet(appletList[p]) : a # b => position[a] # position[b]

\* Two applets of a panel get the same position only when one of them comes to
\* the panel: loaded with an index that another got meanwhile, moved to a packed
\* panel, or moved by Tab (which may also leave such a pair behind).  Steps of a
\* drag, its end, drops and removals never make a pair.
NoNewPairs ==
  [][\A p \in PanelSet : Distinct(p) =>
       \/ Distinct(p)'
       \/ \E q, r \in PanelSet : TabMove(q, r)
       \/ /\ p \in Packed \/ \E a \in Applets : Register(a)
          /\ ToSet(appletList'[p]) \ ToSet(appletList[p]) # {}]_vars

\* A drag that ends where it is leaves the indexes of every pack of the panel in
\* a 0:n range.
DragEndCompresses ==
  [][\A p \in PanelSet :
       SortedOn(p) /\ dragged[p] # None /\ dragged'[p] = None /\ appletList'[p] = appletList[p] =>
         \A t \in PackTypes :
           LET pack == {a \in ToSet(appletList[p]) : position'[a].type = t}
           IN {position'[a].index : a \in pack} = 0 .. Cardinality(pack) - 1]_vars
=============================================================================
