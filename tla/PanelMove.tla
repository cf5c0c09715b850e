------------------------------ MODULE PanelMove -------------------------------
(***************************************************************************)
(* How one panel is moved, turned and resized.                             *)
(*                                                                         *)
(* The user drags the panel, moves or resizes it with the keyboard,        *)
(* expands or turns it; monitors come and go.  Each of these only sets     *)
(* what the panel is configured with and queues a resize; the next resize  *)
(* computes the geometry.  The configuration is written half a second      *)
(* after the first change that was not written yet.                        *)
(*                                                                         *)
(* Code: gnome-panel/panel-toplevel.c, panel-multiscreen.c.  The panel is  *)
(* shown (ToplevelHide says how it hides), has the background of the       *)
(* theme without padding, and needs Length when it is not expanded.        *)
(***************************************************************************)
EXTENDS Integers, Sequences

CONSTANTS
  MonitorRects,   \* the monitors in their order, [x, y, width, height]
  ScreenSize,     \* [width, height]
  Length,         \* what the applets need along the panel
  Sizes,          \* the values of the size of a panel, from the thinnest
  Snap,           \* snap_tolerance
  Points,         \* places of the pointer <<x, y>>
  MaxMoveSteps    \* steps of the user and of the settings (bound)

\* Every monitor takes a panel of the thinnest size, and a quarter of it is not
\* nothing; panel_multiscreen_compress_overlapping_monitors leaves no two that
\* overlap.
MoveAssumption ==
  /\ MonitorRects \in Seq([x : Int, y : Int, width : Nat, height : Nat]) /\ MonitorRects # <<>>
  /\ \A i \in 1 .. Len(MonitorRects) :
       LET r == MonitorRects[i] IN
       /\ r.width >= 4 /\ r.height >= 4
       /\ \E s \in Sizes : s <= r.width /\ s <= r.height
       /\ \A j \in 1 .. Len(MonitorRects) \ {i} :
            LET o == MonitorRects[j]
            IN  \/ r.x + r.width <= o.x \/ o.x + o.width <= r.x
                \/ r.y + r.height <= o.y \/ o.y + o.height <= r.y
  /\ ScreenSize \in [width : Nat, height : Nat]
  /\ Length \in Nat /\ Snap \in Nat
  /\ Sizes \subseteq Nat \ {0}
  /\ Points \subseteq Int \X Int

VARIABLES
  place,          \* PanelToplevelPrivate; key: the monitor that the settings were last
                  \* told of, which they hold or the timer gives them; missed: the one
                  \* that was last asked for was not there
  atStart,        \* what the last grab began with: the orig_ fields; settled: no resize
                  \* was pending and the panel was on the monitor it is configured with
  saved,          \* the settings of the panel; settled: they were written with no resize
                  \* pending, and the panel was not expanded, or turned while it is
                  \* expanded, since
  nMonitors,      \* monitors that are there, the first ones of MonitorRects
  moveSteps       \* how much of MaxMoveSteps is used

moveVars == <<place, atStart, saved, nMonitors, moveSteps>>

Horizontal == {"top", "bottom"}
Vertical == {"left", "right"}
Resizes == {"up", "down", "left", "right"}

\* CLAMP of glib: the upper bound first
Clamp(v, lo, hi) == IF v > hi THEN hi ELSE IF v < lo THEN lo ELSE v
Abs(v) == IF v < 0 THEN -v ELSE v

\* panel_multiscreen_x, _y, _width, _height: nothing is known of a monitor
\* that is not there.
Monitor(m, n) ==
  IF m < n THEN MonitorRects[m + 1] ELSE [x |-> 0, y |-> 0, width |-> 0, height |-> 0]

\* axis_distance
AxisDistance(v, start, length) ==
  IF v < start THEN start - v
  ELSE IF v < start + length THEN 0 ELSE v - (start + length - 1)

\* panel_multiscreen_get_monitor_at_point: the closest one.
MonitorAt(x, y, n) ==
  LET Far(m) == LET r == Monitor(m, n)
                    dx == AxisDistance(x, r.x, r.width)
                    dy == AxisDistance(y, r.y, r.height)
                IN  dx * dx + dy * dy
  IN  CHOOSE m \in 0 .. n - 1 : \A o \in 0 .. n - 1 : Far(m) < Far(o) \/ (Far(m) = Far(o) /\ m <= o)

-----------------------------------------------------------------------------
(* The setters: each queues a resize, and the write of the settings.         *)

Queue(p) == [p EXCEPT !.resize = TRUE, !.timer = TRUE]

\* panel_toplevel_set_x, panel_toplevel_set_y
SetX(p, x, right, centered) ==
  IF <<p.x, p.xRight, p.xCentered>> = <<x, right, centered>> THEN p
  ELSE Queue([p EXCEPT !.x = x, !.xRight = right, !.xCentered = centered])
SetY(p, y, bottom, centered) ==
  IF <<p.y, p.yBottom, p.yCentered>> = <<y, bottom, centered>> THEN p
  ELSE Queue([p EXCEPT !.y = y, !.yBottom = bottom, !.yCentered = centered])

\* panel_toplevel_set_size
SetSize(p, s) == IF p.size = s THEN p ELSE Queue([p EXCEPT !.size = s])

\* panel_toplevel_set_monitor, with panel_toplevel_set_monitor_internal.  The
\* settings are told of the monitor that the panel is on then.
SetMonitor(p, m, n) ==
  LET on == IF m < n THEN m ELSE p.monitor
  IN  IF p.configured = m THEN p
      ELSE [p EXCEPT !.configured = m, !.timer = TRUE, !.missed = m >= n,
                     !.monitor = on, !.key = on, !.resize = @ \/ p.monitor # on]

\* What panel_toplevel_set_orientation does first: a panel that was centered
\* along an edge is no longer.
Uncentered(p, o, n) ==
  LET r == Monitor(p.monitor, n)
      q == IF p.xCentered /\ o \in Vertical
           THEN [p EXCEPT !.xCentered = FALSE, !.x = (r.width - p.width) \div 2, !.xRight = -1]
           ELSE p
  IN  IF q.yCentered /\ o \in Horizontal
      THEN [q EXCEPT !.yCentered = FALSE, !.y = (r.height - q.height) \div 2, !.yBottom = -1]
      ELSE q

\* panel_toplevel_set_orientation: a panel that is turned is, until the next
\* resize, where its centre is.
SetOrientation(p, o, n) ==
  LET q == Uncentered(p, o, n)
      turned == (o \in Horizontal) # (p.orientation \in Horizontal)
      centre == turned /\ ~q.aroundCentre /\ ~q.expand
  IN  IF p.orientation = o THEN p
      ELSE Queue([q EXCEPT !.orientation = o, !.aroundCentre = @ \/ centre,
                    !.x = IF centre /\ ~q.xCentered THEN @ + q.width \div 2 ELSE @,
                    !.y = IF centre /\ ~q.yCentered THEN @ + q.height \div 2 ELSE @])

\* panel_toplevel_set_expand, which is written at once.
SetExpand(p, e) ==
  LET q == [p EXCEPT !.expand = e, !.resize = TRUE] IN
  IF e THEN q
  ELSE CASE p.orientation = "top" -> SetX(q, 0, -1, TRUE)
         [] p.orientation = "bottom" -> SetX(q, 0, 0, TRUE)
         [] p.orientation = "left" -> SetY(q, 0, -1, TRUE)
         [] p.orientation = "right" -> SetY(q, 0, 0, TRUE)

-----------------------------------------------------------------------------
(* The resize. *)

\* panel_toplevel_update_monitor
OnMonitor(p, n) ==
  [p EXCEPT !.monitor = IF p.configured # -1 /\ p.configured < n THEN p.configured
                        ELSE IF p.monitor >= n THEN 0 ELSE @]

Thinnest == CHOOSE s \in Sizes : \A t \in Sizes : s <= t

\* panel_toplevel_update_size
Sized(p, n) ==
  LET r == Monitor(p.monitor, n)
      across(room) == Clamp(p.size, Thinnest, room \div 4)
      along(room) == IF p.expand THEN room ELSE Clamp(Length, 0, room)
  IN  IF p.orientation \in Horizontal
      THEN [p EXCEPT !.width = along(r.width), !.height = across(r.height)]
      ELSE [p EXCEPT !.width = across(r.width), !.height = along(r.height)]

\* The far side counts when the middle of the panel is past that of the monitor.
FromFar(v, length, room) == IF v + length \div 2 > room \div 2 THEN room - (v + length) ELSE -1

\* panel_toplevel_update_position: from the centre back to the corner.
Cornered(p, n) ==
  LET r == Monitor(p.monitor, n)
      x == p.x - p.width \div 2
      y == p.y - p.height \div 2
      q == IF p.xCentered THEN p
           ELSE [p EXCEPT !.x = x, !.xRight = FromFar(x, p.width, r.width)]
  IN  IF ~p.aroundCentre THEN p
      ELSE IF p.yCentered THEN [q EXCEPT !.aroundCentre = FALSE]
      ELSE [q EXCEPT !.aroundCentre = FALSE, !.y = y, !.yBottom = FromFar(y, p.height, r.height)]

\* panel_toplevel_update_expanded_position
Expanded(p, n) ==
  LET r == Monitor(p.monitor, n)
      x == r.x + IF p.orientation = "right" THEN r.width - p.width ELSE 0
      y == r.y + IF p.orientation = "bottom" THEN r.height - p.height ELSE 0
      m == MonitorAt(x, y, n)
  IN  IF ~p.expand THEN p
      ELSE [p EXCEPT !.monitor = m, !.x = x - Monitor(m, n).x, !.y = y - Monitor(m, n).y,
                     !.xRight = IF p.orientation = "right" THEN 0 ELSE -1,
                     !.yBottom = IF p.orientation = "bottom" THEN 0 ELSE -1]

\* panel_toplevel_update_position and panel_toplevel_update_normal_position,
\* along one axis: v and far are the coordinates from both sides.
Position(v, far, centered, length, room, expand) ==
  LET at == IF centered /\ ~expand THEN (room - length) \div 2
            ELSE IF far = -1 THEN v ELSE room - (far + length)
  IN  IF ~centered /\ far = -1 /\ v <= Snap THEN 0
      ELSE IF ~centered /\ far # -1 /\ far <= Snap THEN room - length
      ELSE Clamp(at, 0, room - length)

\* panel_toplevel_size_request, panel_toplevel_update_geometry
Laid(p, n) ==
  LET q == Expanded(Cornered(Sized(OnMonitor(p, n), n), n), n)
      r == Monitor(q.monitor, n)
  IN  [q EXCEPT !.resize = FALSE,
         !.gx = r.x + Position(q.x, q.xRight, q.xCentered, q.width, r.width, q.expand),
         !.gy = r.y + Position(q.y, q.yBottom, q.yCentered, q.height, r.height, q.expand)]

-----------------------------------------------------------------------------
(* What follows the pointer. *)

\* panel_toplevel_resize_to_pointer.  A size of nothing is not set.
ResizedTo(p, pt, n) ==
  LET r == Monitor(p.monitor, n)
      upright == p.grab \in {"up", "down"}
      room == IF upright THEN r.height ELSE r.width
      raw == CASE p.grab = "up" -> p.dragY - pt[2]
               [] p.grab = "down" -> pt[2] - p.dragY
               [] p.grab = "left" -> p.dragX - pt[1]
               [] p.grab = "right" -> pt[1] - p.dragX
      s == Clamp(raw, 0, room \div 4)
      at(v) == IF p.grab \in {"up", "left"} THEN v - (s - p.size) ELSE v
      far(v, centered) == IF centered THEN -1 ELSE FromFar(v, s, room)
      moved == IF upright THEN SetY(p, at(p.y), far(at(p.y), p.yCentered), p.yCentered)
               ELSE SetX(p, at(p.x), far(at(p.x), p.xCentered), p.xCentered)
  IN  IF s = 0 THEN p ELSE SetSize(moved, s)

\* panel_toplevel_calc_new_orientation: where an expanded panel is dragged to.
EdgeAt(p, pt, n) ==
  LET r == Monitor(MonitorAt(pt[1], pt[2], n), n)
      border == (3 * (IF p.height < p.width THEN p.height ELSE p.width)) \div 2
      x == pt[1] - r.x
      y == pt[2] - r.y
      low == y > r.height - border
      high == y < border
      right == x > r.width - border
      left == x < border
      sideways == IF right THEN "right" ELSE IF left THEN "left" ELSE p.orientation
      upways == IF low THEN "bottom" ELSE IF high THEN "top" ELSE p.orientation
  IN  CASE p.orientation = "top" -> IF low THEN "bottom" ELSE IF y > border THEN sideways ELSE "top"
        [] p.orientation = "bottom" ->
             IF high THEN "top" ELSE IF y < r.height - border THEN sideways ELSE "bottom"
        [] p.orientation = "left" ->
             IF right THEN "right" ELSE IF x > border THEN upways ELSE "left"
        [] p.orientation = "right" ->
             IF left THEN "left" ELSE IF x < r.width - border THEN upways ELSE "right"

\* panel_toplevel_move_to
MovedTo(p, pt, n) ==
  LET x == Clamp(pt[1] - p.dragX, 0, ScreenSize.width - p.width)
      y == Clamp(pt[2] - p.dragY, 0, ScreenSize.height - p.height)
      atX == x <= Snap \/ x + p.width >= ScreenSize.width - Snap
      atY == y <= Snap \/ y + p.height >= ScreenSize.height - Snap
      level == p.orientation \in Horizontal
      o == IF level THEN (IF y <= Snap THEN "top" ELSE IF atY THEN "bottom" ELSE p.orientation)
           ELSE (IF x <= Snap THEN "left" ELSE IF atX THEN "right" ELSE p.orientation)
      m == MonitorAt(x, y, n)
      r == Monitor(p.monitor, n)   \* the size is that of the monitor it leaves
      inX == x - Monitor(m, n).x
      inY == y - Monitor(m, n).y
      midX == (r.width - p.width) \div 2
      midY == (r.height - p.height) \div 2
      centeredX == level /\ atY /\ Abs(inX - midX) <= Snap
      centeredY == ~level /\ atX /\ Abs(inY - midY) <= Snap
      newX == IF centeredX THEN midX ELSE inX
      newY == IF centeredY THEN midY ELSE inY
      farX == IF centeredX THEN -1 ELSE FromFar(newX, p.width, r.width)
      farY == IF centeredY THEN -1 ELSE FromFar(newY, p.height, r.height)
      turned == SetOrientation(SetMonitor(p, m, n), o, n)
  IN  SetY(SetX(turned, newX, farX, centeredX), newY, farY, centeredY)

\* panel_toplevel_rotate_to_pointer: the side of the panel's middle where the
\* pointer is, when it is clearly on one.  The first that holds counts.
SideOf(p, pt) ==
  LET dx == pt[1] - (p.gx + p.width \div 2)
      dy == pt[2] - (p.gy + p.height \div 2)
      right == dy < 0 /\ ((dx > 0 /\ -dy > dx + Snap) \/ (dx < 0 /\ dy < dx + Snap))
      bottom == dx > 0 /\ ((dy < 0 /\ -dx < dy - Snap) \/ (dy > 0 /\ dx > dy - Snap))
      left == dy > 0 /\ ((dx > 0 /\ dy > dx + Snap) \/ (dx < 0 /\ -dy < dx + Snap))
      above == dx < 0 /\ ((dy > 0 /\ -dx > dy - Snap) \/ (dy < 0 /\ dx < dy - Snap))
  IN  IF right THEN "right" ELSE IF bottom THEN "bottom"
      ELSE IF left THEN "left" ELSE IF above THEN "top" ELSE p.orientation

-----------------------------------------------------------------------------
(* The steps. *)

Configuration(p, settled) ==
  [orientation |-> p.orientation, expand |-> p.expand, size |-> p.size, monitor |-> p.key,
   x |-> p.x, xRight |-> p.xRight, xCentered |-> p.xCentered,
   y |-> p.y, yBottom |-> p.yBottom, yCentered |-> p.yCentered, settled |-> settled]

\* panel_toplevel_load, panel_toplevel_bind_gsettings: a panel made of its
\* settings, after its first resize.
Made(c, n) ==
  Laid([orientation |-> c.orientation, expand |-> c.expand, size |-> c.size,
        configured |-> c.monitor, monitor |-> IF c.monitor < n THEN c.monitor ELSE 0,
        key |-> c.monitor, missed |-> FALSE,
        x |-> c.x, xRight |-> c.xRight, xCentered |-> c.xCentered,
        y |-> c.y, yBottom |-> c.yBottom, yCentered |-> c.yCentered,
        width |-> 0, height |-> 0, gx |-> 0, gy |-> 0, aroundCentre |-> FALSE,
        grab |-> "none", byKeys |-> FALSE, dragX |-> 0, dragY |-> 0,
        resize |-> FALSE, timer |-> FALSE], n)

\* A panel that an earlier session left along the top of monitor m.
FirstSettings(m) ==
  [orientation |-> "top", expand |-> TRUE, size |-> 1, monitor |-> m, x |-> 0, xRight |-> -1,
   xCentered |-> FALSE, y |-> 0, yBottom |-> -1, yCentered |-> FALSE, settled |-> TRUE]

MoveInit ==
  /\ nMonitors = Len(MonitorRects) /\ moveSteps = 0
  /\ \E m \in 0 .. Len(MonitorRects) - 1 : saved = FirstSettings(m)
  /\ place = Made(saved, nMonitors)
  /\ atStart = Configuration(place, TRUE)

MoveStep == moveSteps < MaxMoveSteps /\ moveSteps' = moveSteps + 1

\* panel_toplevel_begin_grab_op: the pointer is warped for the keyboard.
Grabbed(p, op, keys) ==
  [p EXCEPT !.grab = op, !.byKeys = keys,
     !.dragX = IF op \in {"move", "resize"} THEN (IF keys THEN p.width \div 2 ELSE 0)
               ELSE IF op = "right" THEN p.gx ELSE IF op = "left" THEN p.gx + p.width ELSE 0,
     !.dragY = IF op \in {"move", "resize"} THEN (IF keys THEN p.height \div 2 ELSE 0)
               ELSE IF op = "down" THEN p.gy ELSE IF op = "up" THEN p.gy + p.height ELSE 0]

Began(op, keys) ==
  /\ place' = Grabbed(place, op, keys)
  /\ atStart' = [Configuration(place, ~place.resize /\ place.monitor = place.configured)
                   EXCEPT !.monitor = place.monitor]
  /\ UNCHANGED <<saved, nMonitors>>

\* panel_toplevel_button_press_event, panel_toplevel_begin_move, _resize
BeginGrab(op, keys) ==
  /\ MoveStep
  /\ place.grab = "none"
  /\ op = "resize" => keys
  /\ Began(op, keys)

\* panel_toplevel_initial_resize_keypress: the edge that follows the arrows.
ChooseEdge(d) ==
  /\ place.grab = "resize"
  /\ (d \in {"up", "down"}) = (place.orientation \in Horizontal)
  /\ Began(d, TRUE)
  /\ UNCHANGED moveSteps

\* panel_toplevel_handle_grab_op_motion_event
Motion(pt, control) ==
  /\ MoveStep
  /\ place.grab \notin {"none", "resize"}
  /\ place' =
       IF place.grab \in Resizes THEN ResizedTo(place, pt, nMonitors)
       ELSE IF place.expand
       THEN LET m == MonitorAt(pt[1], pt[2], nMonitors)
                moved == SetMonitor(place, m, nMonitors)
            IN  SetOrientation(moved, EdgeAt(place, pt, nMonitors), nMonitors)
       ELSE IF control THEN SetOrientation(place, SideOf(place, pt), nMonitors)
       ELSE MovedTo(place, pt, nMonitors)
  /\ UNCHANGED <<atStart, saved, nMonitors>>

\* panel_toplevel_move_keyboard_expanded; other arrows only move the pointer.
ArrowKey(d) ==
  /\ MoveStep
  /\ place.grab = "move" /\ place.expand
  /\ place' = SetOrientation(place, d, nMonitors)
  /\ UNCHANGED <<atStart, saved, nMonitors>>

\* panel_toplevel_end_grab_op, by a key or by the button
EndGrab ==
  /\ place.grab # "none"
  /\ place' = [place EXCEPT !.grab = "none", !.byKeys = FALSE]
  /\ UNCHANGED <<atStart, saved, nMonitors, moveSteps>>

\* Mutant of Cancelled: the panel goes back on the monitor where it is now.
Cancelled_StaysOnMonitor(p, was, n) ==
  LET sized == SetSize(SetOrientation(p, was.orientation, n), was.size)
  IN  SetY(SetX(sized, was.x, was.xRight, was.xCentered), was.y, was.yBottom, was.yCentered)

\* panel_toplevel_cancel_grab_op
Cancelled(p, was, n) ==
  LET turned == SetOrientation(p, was.orientation, n)
      sized == SetSize(SetMonitor(turned, was.monitor, n), was.size)
  IN  SetY(SetX(sized, was.x, was.xRight, was.xCentered), was.y, was.yBottom, was.yCentered)

\* Escape
CancelGrab ==
  /\ place.grab # "none"
  /\ place' = [Cancelled(place, atStart, nMonitors) EXCEPT !.grab = "none", !.byKeys = FALSE]
  /\ UNCHANGED <<atStart, saved, nMonitors, moveSteps>>

\* The properties of the panel: panel_toplevel_set_orientation, _size, _expand.
\* The grab keeps the keyboard and the pointer from the dialog.
ChangeOrientation(o) ==
  /\ MoveStep
  /\ place.grab = "none"
  /\ place' = SetOrientation(place, o, nMonitors)
  /\ saved' = [saved EXCEPT !.orientation = o,
                             !.settled = @ /\ (saved.expand => o = saved.orientation)]
  /\ UNCHANGED <<atStart, nMonitors>>
ChangeSize(s) ==
  /\ MoveStep
  /\ place.grab = "none"
  /\ place' = SetSize(place, s)
  /\ saved' = [saved EXCEPT !.size = s]
  /\ UNCHANGED <<atStart, nMonitors>>
ChangeExpand ==
  /\ MoveStep
  /\ place.grab = "none"
  /\ place' = SetExpand(place, ~place.expand)
  /\ saved' = [saved EXCEPT !.expand = ~place.expand, !.settled = place.expand /\ @]
  /\ UNCHANGED <<atStart, nMonitors>>

\* panel_multiscreen_reinit
ChangeMonitors(n) ==
  /\ MoveStep
  /\ n # nMonitors
  /\ nMonitors' = n
  /\ place' = [place EXCEPT !.resize = TRUE]
  /\ UNCHANGED <<atStart, saved>>

Resize ==
  /\ place.resize
  /\ place' = Laid(place, nMonitors)
  /\ UNCHANGED <<atStart, saved, nMonitors, moveSteps>>

\* panel_toplevel_apply_delayed_settings: all that was notified.
Apply ==
  /\ place.timer
  /\ saved' = Configuration(place, ~place.resize)
  /\ place' = [place EXCEPT !.timer = FALSE]
  /\ UNCHANGED <<atStart, nMonitors, moveSteps>>

\* The panel starts again, without a chance to write.
RestartPanel ==
  /\ MoveStep
  /\ place' = Made(saved, nMonitors)
  /\ UNCHANGED <<atStart, saved, nMonitors>>

MoveNext ==
  \/ \E op \in {"move", "resize"}, k \in BOOLEAN : BeginGrab(op, k)
  \/ \E d \in Resizes : ChooseEdge(d)
  \/ \E pt \in Points, c \in BOOLEAN : Motion(pt, c)
  \/ \E o \in Horizontal \cup Vertical : ArrowKey(o) \/ ChangeOrientation(o)
  \/ \E s \in Sizes : ChangeSize(s)
  \/ \E n \in 1 .. Len(MonitorRects) : ChangeMonitors(n)
  \/ EndGrab \/ CancelGrab \/ ChangeExpand \/ Resize \/ Apply \/ RestartPanel

MoveSpec == MoveInit /\ [][MoveNext]_moveVars

-----------------------------------------------------------------------------
(* Type invariant *)
MoveTypeOK ==
  /\ place.orientation \in Horizontal \cup Vertical
  /\ place.grab \in {"none", "move", "resize"} \cup Resizes
  /\ {place.configured, place.key} \subseteq 0 .. Len(MonitorRects) - 1
  /\ place.size \in 0 .. ScreenSize.width

TurnedByGrab == (place.orientation \in Horizontal) # (atStart.orientation \in Horizontal)
LeftTurned == ~place.expand /\ (TurnedByGrab \/ place.aroundCentre)
LeftElsewhere == atStart.monitor >= nMonitors /\ place.monitor \in 1 .. nMonitors - 1
Geometry(p) == <<p.gx, p.gy, p.width, p.height, p.orientation>>

(* After a resize the panel is on a monitor that is there, and on one only:   *)
(* the setters, the moves and the settings are free to ask for any place.      *)
OnOneMonitor ==
  ~place.resize =>
    LET r == Monitor(place.monitor, nMonitors) IN
    /\ place.monitor < nMonitors
    /\ r.x <= place.gx /\ place.gx + place.width <= r.x + r.width
    /\ r.y <= place.gy /\ place.gy + place.height <= r.y + r.height

(* A panel that rests is where the next session puts it.  Not so when the      *)
(* write came between a turn and its resize, which is what it then stored;     *)
(* nor for a panel that was expanded and is not any more, or was turned while  *)
(* it is expanded: the expansion moved it and does not have that written; nor  *)
(* when the monitor that it is configured with is not there and it is not on   *)
(* the first one: it waits where it is, and the next session has the first;    *)
(* nor when that monitor was asked for while it was not there: the panel goes  *)
(* to it when it returns, and the settings have the one where the panel was.   *)
PlaceIsSaved ==
  ~place.timer /\ ~place.resize /\ saved.settled /\ ~place.missed
  /\ (place.configured < nMonitors \/ place.monitor = 0) =>
    Geometry(Made(saved, nMonitors)) = Geometry(place)

(* Escape undoes what the grab did.  Not so when a panel that is not expanded  *)
(* was turned, if only there and back before the next resize: what is restored *)
(* is then taken for its centre; nor when the monitor where the grab began is  *)
(* gone, and the panel is on another but the first.                            *)
EscapeUndoes ==
  [][CancelGrab /\ atStart.settled /\ ~LeftTurned /\ ~LeftElsewhere =>
       Geometry(Laid(place', nMonitors)) = Geometry(Made(atStart, nMonitors))]_moveVars
=============================================================================
