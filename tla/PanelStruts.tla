---------------------------- MODULE PanelStruts ----------------------------
(***************************************************************************)
(* The space the panels take from the edges of the monitors.               *)
(*                                                                         *)
(* A panel at an edge registers a strut.  The struts of a monitor are kept *)
(* in an order and each is allocated the place it asks for, moved or cut   *)
(* where a strut before it is already; the panel draws itself there when   *)
(* it is next resized.  A change of one panel so queues a resize of other  *)
(* panels, which register again, and so on.                                *)
(*                                                                         *)
(* Code: gnome-panel/panel-struts.c, its callers in panel-toplevel.c and   *)
(* the edges of monitors in panel-multiscreen.c.  The panels are shown and *)
(* do not slide: ToplevelHide models how they hide.                        *)
(***************************************************************************)
EXTENDS Integers, Sequences, SequencesExt, FiniteSetsExt, Functions, TLC

CONSTANTS
  Panels,      \* the toplevels
  Monitors,    \* the rectangle of each monitor of the screen
  ScreenRect,  \* the screen
  Spots,       \* where the settings may put a panel: [mon, level, rect]
  MaxMoves     \* changes of the panels (bound)

VARIABLES
  struts,      \* panel_struts_list
  spotOf,      \* where the settings put each panel that is open
  hidesSelf,   \* the panels with auto_hide, which the pointer keeps shown
  drawn,       \* the geometry of each panel that has one
  queued,      \* the panels with a resize queued
  hints,       \* what the window of each panel reserves
  moves,       \* how much of MaxMoves is used
  resizes      \* how many panels were resized since the last change

strutVars == <<struts, spotOf, hidesSelf, drawn, queued, hints, moves, resizes>>

Rect(x, y, w, h) == [x |-> x, y |-> y, w |-> w, h |-> h]
NoRect == Rect(0, 0, 0, 0)
NoHint == [side |-> "none", depth |-> 0]
Larger(a, b) == IF a >= b THEN a ELSE b
Smaller(a, b) == IF a <= b THEN a ELSE b
Right(r) == r.x + r.w
Bottom(r) == r.y + r.h

\* The rectangles share a pixel.
Overlap(r, s) ==
  /\ Smaller(Right(r), Right(s)) > Larger(r.x, s.x)
  /\ Smaller(Bottom(r), Bottom(s)) > Larger(r.y, s.y)

Level(side) == side \in {"top", "bottom"}
Order == [top |-> 1, bottom |-> 2, left |-> 3, right |-> 4]

-----------------------------------------------------------------------------
(***************************************************************************)
(* Allocation.  Of a strut, ask is what the panel asks for and alloc what  *)
(* it gets; depth is how far from the edge alloc reaches.                  *)
(***************************************************************************)
\* r moved past the rectangle of a strut at its own side.
Inward(side, r, over) ==
  CASE side = "top"    -> [r EXCEPT !.y = Bottom(over)]
    [] side = "bottom" -> [r EXCEPT !.y = over.y - r.h]
    [] side = "left"   -> [r EXCEPT !.x = Right(over)]
    [] side = "right"  -> [r EXCEPT !.x = over.x - r.w]

Distance(r, s) ==
  Larger(Larger(r.x - s.x, s.x - r.x), Larger(r.y - s.y, s.y - r.y))

\* One overlap.  w is the strut on its way: skip counts the overlaps that stay
\* as they are, movedDown says that a strut at the top pushed it.
Past(w, other) ==
  LET r == w.strut.alloc
      over == other.alloc
      moved == Inward(w.strut.side, r, over)
  IN  CASE w.strut.side = other.side ->
             [w EXCEPT !.strut.alloc = moved, !.strut.depth = @ + Distance(r, moved)]
        [] w.strut.side # other.side /\ (Level(w.strut.side) \/ ~Level(other.side)) ->
             [w EXCEPT !.skip = @ + 1]
        [] ~Level(w.strut.side) /\ other.side = "top" ->
             [w EXCEPT !.strut.alloc.y = Bottom(over), !.movedDown = TRUE]
        [] ~Level(w.strut.side) /\ other.side = "bottom" /\ ~w.movedDown ->
             [w EXCEPT !.strut.alloc.y = over.y - r.h]
        [] ~Level(w.strut.side) /\ other.side = "bottom" /\ w.movedDown /\ over.y > r.y ->
             [w EXCEPT !.strut.alloc.h = over.y - r.y]
        [] OTHER -> [w EXCEPT !.skip = @ + 1]

RECURSIVE PastAll(_, _)
PastAll(w, placed) ==
  LET hit == SelectSeq(placed, LAMBDA s : Overlap(s.alloc, w.strut.alloc))
  IN  IF Len(hit) <= w.skip THEN w.strut
                            ELSE PastAll(Past(w, hit[w.skip + 1]), placed)

\* A strut at the left or the right stays on its monitor.
Clipped(s) ==
  LET m == Monitors[s.mon]
      r == s.alloc
      start == Larger(r.y, m.y)
  IN  IF Level(s.side) THEN s
      ELSE [s EXCEPT !.alloc = [r EXCEPT !.y = start,
                                         !.h = Smaller(Bottom(r), Bottom(m)) - start]]

Settled(s, placed) ==
  Clipped(PastAll([strut |-> [s EXCEPT !.alloc = s.ask, !.depth = s.size],
                   skip |-> 0, movedDown |-> FALSE], placed))

\* panel_struts_allocate_struts
Allocated(ss, mon) ==
  FoldLeft(LAMBDA done, s :
             Append(done, IF s.mon # mon THEN s
                          ELSE Settled(s, SelectSeq(done, LAMBDA d : d.mon = mon))),
           <<>>, ss)

PanelsOf(ss) == {ss[i].panel : i \in DOMAIN ss}
StrutOf(ss, p) == CHOOSE s \in {ss[i] : i \in DOMAIN ss} : s.panel = p

\* Mutant of Moved: every panel with a strut is resized.
Moved_All(old, new) == PanelsOf(new)

\* The panels whose struts are placed otherwise in new than in old.
Moved(old, new) ==
  {p \in PanelsOf(new) :
     StrutOf(new, p).alloc # (IF p \in PanelsOf(old) THEN StrutOf(old, p).alloc ELSE NoRect)}

-----------------------------------------------------------------------------
(***************************************************************************)
(* The list.                                                               *)
(***************************************************************************)
\* panel_struts_compare
Before(s, t) ==
  \/ s.mon < t.mon
  \/ s.mon = t.mon /\ Order[s.side] < Order[t.side]
  \/ s.mon = t.mon /\ s.side = t.side /\ s.start < t.start
  \/ s.mon = t.mon /\ s.side = t.side /\ s.start = t.start /\ s.end > t.end

\* The stable sort puts s, which was the i-th, among the others.
Sorted(ss, s, i) ==
  LET first == {k \in DOMAIN ss : Before(ss[k], s) \/ (~Before(s, ss[k]) /\ k < i)}
  IN  InsertAt(ss, Cardinality(first) + 1, s)

Without(ss, p) == SelectSeq(ss, LAMBDA s : s.panel # p)

Place(ss, p) == IF p \in PanelsOf(ss) THEN CHOOSE i \in DOMAIN ss : ss[i].panel = p
                                      ELSE Len(ss) + 1

\* The place that a strut asks for.
Asked(mon, side, size, start, end) ==
  LET m == Monitors[mon]
      len == end - start + 1
  IN  CASE side = "top"    -> Rect(start, m.y, len, size)
        [] side = "bottom" -> Rect(start, Bottom(m) - size, len, size)
        [] side = "left"   -> Rect(m.x, start, size, len)
        [] side = "right"  -> Rect(Right(m) - size, start, size, len)

\* panel_struts_register_strut: nothing happens to a strut that is registered
\* as it is.  The monitor a strut leaves is not allocated anew.
Registered(ss, p, mon, side, size, start, end) ==
  LET old == IF p \in PanelsOf(ss) THEN StrutOf(ss, p).alloc ELSE NoRect
      new == [panel |-> p, mon |-> mon, side |-> side, size |-> size,
              start |-> start, end |-> end,
              ask |-> Asked(mon, side, size, start, end), alloc |-> old, depth |-> size]
      same == /\ p \in PanelsOf(ss)
              /\ LET s == StrutOf(ss, p)
                 IN  <<s.mon, s.side, s.size, s.start, s.end>> =
                       <<mon, side, size, start, end>>
  IN  IF same THEN ss ELSE Allocated(Sorted(Without(ss, p), new, Place(ss, p)), mon)

\* panel_struts_unregister_strut
Unregistered(ss, p) ==
  IF p \in PanelsOf(ss) THEN Allocated(Without(ss, p), StrutOf(ss, p).mon) ELSE ss

-----------------------------------------------------------------------------
(***************************************************************************)
(* The panels.                                                             *)
(***************************************************************************)
\* No monitor is next to mon at that side
\* (panel_multiscreen_is_at_visible_extreme).
AtExtreme(mon, side) ==
  LET m == Monitors[mon]
      Others == {Monitors[n] : n \in DOMAIN Monitors \ {mon}}
      Beside == {o \in Others : \/ m.y <= o.y /\ o.y < Bottom(m)
                                \/ m.y < Bottom(o) /\ Bottom(o) <= Bottom(m)}
      Along == {o \in Others : \/ m.x <= o.x /\ o.x < Right(m)
                               \/ m.x < Right(o) /\ Right(o) <= Right(m)}
  IN  CASE side = "top"    -> \A o \in Along : o.y >= m.y
        [] side = "bottom" -> \A o \in Along : Bottom(o) <= Bottom(m)
        [] side = "left"   -> \A o \in Beside : o.x >= m.x
        [] side = "right"  -> \A o \in Beside : Right(o) <= Right(m)

\* panel_struts_set_window_hint
Hint(ss, p) ==
  IF p \notin PanelsOf(ss) THEN NoHint
  ELSE LET s == StrutOf(ss, p)
           m == Monitors[s.mon]
           gap == CASE s.side = "top"    -> m.y
                    [] s.side = "bottom" -> ScreenRect.h - Bottom(m)
                    [] s.side = "left"   -> m.x
                    [] s.side = "right"  -> ScreenRect.w - Right(m)
       IN  [side |-> s.side, depth |-> IF AtExtreme(s.mon, s.side) THEN s.depth + gap ELSE 0]

\* panel_toplevel_update_struts for a panel whose geometry is r: the edge r
\* touches decides; a panel that hides itself keeps one unit.
Updated(ss, p, mon, level, r, hides) ==
  LET m == Monitors[mon]
      side == CASE level  /\ r.y <= m.y              -> "top"
                [] level  /\ r.y > m.y /\ r.y >= Bottom(m) - r.h -> "bottom"
                [] ~level /\ r.x <= m.x              -> "left"
                [] ~level /\ r.x > m.x /\ r.x >= Right(m) - r.w -> "right"
                [] OTHER -> "none"
      size == CASE side = "none"   -> 0
                [] p \in hides -> 1
                [] side = "top"    -> Bottom(r) - m.y
                [] side = "bottom" -> Bottom(m) - r.y
                [] side = "left"   -> Right(r) - m.x
                [] side = "right"  -> Right(m) - r.x
      start == IF level THEN Larger(r.x, m.x) ELSE Larger(r.y, m.y)
      end == (IF level THEN Smaller(Right(r), Right(m))
                       ELSE Smaller(Bottom(r), Bottom(m))) - 1
  IN  IF size > 0 THEN Registered(ss, p, mon, side, size, start, end)
                  ELSE Unregistered(ss, p)

Less(f, p) == Restrict(f, DOMAIN f \ {p})

\* panel_struts_update_toplevel_geometry: r, moved as the strut was.
Shifted(ss, p, r) ==
  IF p \notin PanelsOf(ss) THEN r
  ELSE LET s == StrutOf(ss, p)
       IN  Rect(r.x + s.alloc.x - s.ask.x, r.y + s.alloc.y - s.ask.y,
                r.w + s.alloc.w - s.ask.w, r.h + s.alloc.h - s.ask.h)

StrutInit ==
  /\ struts = <<>> /\ spotOf = <<>> /\ hidesSelf = {} /\ drawn = <<>>
  /\ queued = {} /\ hints = [p \in Panels |-> NoHint] /\ moves = 0 /\ resizes = 0

\* A panel is opened, or its settings put it somewhere else or change its size.
PutAt(p, spot) ==
  /\ moves < MaxMoves /\ moves' = moves + 1 /\ resizes' = 0
  /\ spotOf' = (p :> spot) @@ spotOf
  /\ queued' = queued \cup {p}
  /\ UNCHANGED <<struts, hidesSelf, drawn, hints>>

\* The resize of one panel: panel_toplevel_update_geometry.
Resize(p) ==
  LET spot == spotOf[p]
      new == Updated(struts, p, spot.mon, spot.level, spot.rect, hidesSelf)
  IN  /\ p \in queued
      /\ struts' = new
      /\ drawn' = (p :> Shifted(new, p, spot.rect)) @@ drawn
      /\ hints' = [hints EXCEPT ![p] = Hint(new, p)]
      /\ queued' = (queued \cup Moved(struts, new)) \ {p}
      /\ resizes' = resizes + 1
      /\ UNCHANGED <<spotOf, hidesSelf, moves>>

\* panel_toplevel_set_auto_hide asks for a strut where the panel is drawn, not
\* where its settings put it.
SetAutoHide(p) ==
  LET hides == SymDiff(hidesSelf, {p})
      new == Updated(struts, p, spotOf[p].mon, spotOf[p].level, drawn[p], hides)
  IN  /\ moves < MaxMoves /\ moves' = moves + 1 /\ resizes' = 0
      /\ p \in DOMAIN drawn
      /\ hidesSelf' = hides
      /\ struts' = new
      /\ hints' = [hints EXCEPT ![p] = Hint(new, p)]
      /\ queued' = queued \cup Moved(struts, new)
      /\ UNCHANGED <<spotOf, drawn>>

\* panel_toplevel_finalize
Close(p) ==
  /\ p \in DOMAIN spotOf
  /\ struts' = Unregistered(struts, p)
  /\ queued' = (queued \cup Moved(struts, struts')) \ {p}
  /\ spotOf' = Less(spotOf, p) /\ drawn' = Less(drawn, p)
  /\ hidesSelf' = hidesSelf \ {p}
  /\ hints' = [hints EXCEPT ![p] = NoHint]
  /\ resizes' = 0 /\ UNCHANGED moves

StrutNext ==
  \E p \in Panels :
    \/ \E spot \in Spots : PutAt(p, spot)
    \/ Resize(p) \/ SetAutoHide(p) \/ Close(p)

-----------------------------------------------------------------------------
(***************************************************************************)
(* Properties.                                                             *)
(***************************************************************************)
\* The list has at most one strut per panel and only open panels; what is
\* queued, drawn and hidden are open panels.
StrutTypeOK ==
  /\ PanelsOf(struts) \subseteq DOMAIN spotOf
  /\ Len(struts) = Cardinality(PanelsOf(struts))
  /\ queued \subseteq DOMAIN spotOf /\ hidesSelf \subseteq DOMAIN drawn
  /\ DOMAIN drawn \subseteq DOMAIN spotOf
  /\ moves \in 0 .. MaxMoves /\ resizes \in Nat

\* Struts at the same side of a monitor, and struts at sides that meet in a
\* corner, never cover each other (struts at opposite sides may).
StrutsApart ==
  \A i, j \in DOMAIN struts :
    /\ i < j /\ struts[i].mon = struts[j].mon
    /\ struts[i].side = struts[j].side \/ Level(struts[i].side) # Level(struts[j].side)
    => ~Overlap(struts[i].alloc, struts[j].alloc)

\* Once no resize is queued, every panel that has a strut is drawn where the
\* strut was put in the end, whoever's change put it there, and its window
\* reserves that much.  (A panel that hides itself has a strut of one unit.)
DrawnAsAllocated ==
  queued = {} =>
    \A p \in DOMAIN drawn :
      /\ p \in PanelsOf(struts) \ hidesSelf => drawn[p] = StrutOf(struts, p).alloc
      /\ hints[p] = Hint(struts, p)

\* Panels that move each other come to rest: after a change no panel is
\* resized more often than there are panels that can push it.
ResizesBounded ==
  resizes <= (Cardinality(Panels) * (Cardinality(Panels) + 1)) \div 2
=============================================================================
