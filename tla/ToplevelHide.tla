---------------------------- MODULE ToplevelHide ----------------------------
(***************************************************************************)
(* How one panel hides and shows itself.                                   *)
(*                                                                         *)
(* A panel is shown, auto-hidden at the edge of its screen, or hidden by   *)
(* its buttons.  Three timers drive it: one hides it when the pointer has  *)
(* left, one shows it when the pointer comes (and for the first time when  *)
(* its applets are loaded), one redraws it while it slides.  Everything    *)
(* runs in the main loop; crossing events of the pointer are delivered     *)
(* some time after the pointer or the window moved, so that handlers see   *)
(* the pointer where it is by then.                                        *)
(*                                                                         *)
(* Code: gnome-panel/panel-toplevel.c.  Places on the screen stand for     *)
(* coordinates, and the spots of the pointer for what a place covers.      *)
(***************************************************************************)
EXTENDS Naturals, Sequences

CONSTANTS
  MaxChanges,    \* changes of the panel's settings (bound)
  MaxDisablers,  \* menus and dialogs that keep the panel from hiding (bound)
  MaxCrossings   \* crossing events on their way (bound)

ASSUME ToplevelHideAssumption ==
  MaxChanges \in Nat /\ MaxDisablers \in Nat \ {0} /\ MaxCrossings \in Nat \ {0, 1}

VARIABLES
  state,        \* the state of the panel, see States
  vertical,     \* orientation is LEFT or RIGHT
  floating,     \* the panel is at no edge of the screen (never changes)
  autoHide,     \* auto_hide
  animate,      \* animate
  animating,    \* the panel slides
  initialDone,  \* initial_animation_done
  hideTimer,    \* hide_timeout # 0
  unhideTimer,  \* unhide_timeout # 0
  animTimer,    \* animation_timeout # 0
  disablers,    \* n_autohide_disablers
  place,        \* where the window is, see Places
  target,       \* where the animation ends
  resize,       \* a resize is queued
  spot,         \* where the pointer is, see Spots
  inside,       \* panel_toplevel_contains_pointer
  crossings,    \* crossing events to come; TRUE: the pointer enters
  focused,      \* the panel has the keyboard focus
  moved,        \* the panel was moved to another screen
  changes       \* how much of MaxChanges is used

timers == <<hideTimer, unhideTimer, animTimer>>
pointer == <<spot, inside, crossings>>
window == <<place, pointer>>
fixed == <<vertical, floating, autoHide, animate, disablers, focused, moved,
           changes>>
slide == <<animating, target, animTimer, resize>>
vars == <<state, vertical, floating, autoHide, animate, animating, initialDone,
          hideTimer, unhideTimer, animTimer, disablers, place, target, resize,
          spot, inside, crossings, focused, moved, changes>>

HiddenBy == {"up", "down", "left", "right"}  \* PANEL_STATE_HIDDEN_*
States == {"normal", "auto_hidden"} \cup HiddenBy

\* "offscreen" is where a panel waits for its initial animation.
Places == {"offscreen", "normal", "autohidden", "hidden", "moving"}

\* "edge" is a spot of the strip that every hidden panel still covers, "body"
\* one that the shown panel covers.
Spots == {"away", "body", "edge"}

-----------------------------------------------------------------------------
(***************************************************************************)
(* The window and the pointer.                                             *)
(***************************************************************************)
\* May a panel at p contain a pointer at s?  On its way it may or may not.
ContainsPointer(p, s) ==
  CASE s = "away" \/ p = "offscreen" -> {FALSE}
    [] p = "moving" -> BOOLEAN
    [] p = "normal" \/ s = "edge" -> {TRUE}
    [] OTHER -> {FALSE}

\* The window is now at p and the pointer at s.  Crossing events alternate; at
\* the bound, one that undoes the last of those to come takes it away.
Cross(p, s) ==
  /\ inside' \in ContainsPointer(p, s)
  /\ crossings' =
       CASE inside' = inside -> crossings
         [] inside' # inside /\ Len(crossings) < MaxCrossings ->
              Append(crossings, inside')
         [] OTHER -> SubSeq(crossings, 1, Len(crossings) - 1)

\* Where a panel in state st stays: panel_toplevel_update_position.
RestPlace(st) ==
  CASE st = "normal" \/ (st = "auto_hidden" /\ floating) -> "normal"
    [] st = "auto_hidden" /\ ~floating -> IF initialDone THEN "autohidden"
                                                         ELSE "offscreen"
    [] OTHER -> "hidden"

\* Where its animation ends: panel_toplevel_calculate_animation_end_geometry.
EndPlace(st) ==
  CASE st = "normal" \/ (~initialDone /\ ~autoHide) -> "normal"
    [] st = "auto_hidden" -> IF floating THEN "normal" ELSE "autohidden"
    [] OTHER -> "hidden"

-----------------------------------------------------------------------------
(***************************************************************************)
(* panel_toplevel_hide and panel_toplevel_unhide.                          *)
(***************************************************************************)
\* Mutant of StartAnimation: no timer is installed.
StartAnimation_NoTimer(st) ==
  /\ target' = EndPlace(st)
  /\ animating' = (place # EndPlace(st))
  /\ UNCHANGED animTimer

\* A panel that is where it should go does not slide.
StartAnimation(st) ==
  /\ target' = EndPlace(st)
  /\ animating' = (place # EndPlace(st))
  /\ animTimer' = (animTimer \/ animating')

Slide(st) == /\ IF animate THEN StartAnimation(st)
                           ELSE UNCHANGED <<animating, target, animTimer>>
             /\ resize' = TRUE

\* panel_toplevel_hide
Hide(st) == IF state = "normal" THEN state' = st /\ Slide(st)
                                ELSE UNCHANGED <<state, slide>>

\* panel_toplevel_unhide
Unhide == IF state # "normal" THEN state' = "normal" /\ Slide("normal")
                              ELSE UNCHANGED <<state, slide>>

\* panel_toplevel_unhide and panel_toplevel_hide in a row, with animations.
\* What is there is resized; r: also if it is at its place.
UnhideAndHide(r) ==
  /\ state' = "auto_hidden"
  /\ target' = EndPlace("auto_hidden")
  /\ animating' = (r \/ place # target')
  /\ animTimer' = (\/ animTimer \/ animating'
                   \/ state # "normal" /\ place # "normal")
  /\ resize' = TRUE

\* The direction of a hidden panel fits its orientation.
Directions == IF vertical THEN {"up", "down"} ELSE {"left", "right"}

\* The user hides or shows it by keyboard.
ToggleHidden ==
  /\ focused
  /\ IF state = "normal"
       THEN Hide(IF autoHide THEN "auto_hidden"
                             ELSE IF vertical THEN "up" ELSE "left")
       ELSE Unhide
  /\ UNCHANGED <<fixed, window, initialDone, hideTimer, unhideTimer>>

HideButtonClicked ==
  /\ ~animating /\ state # "auto_hidden" /\ (inside \/ focused)
  /\ IF state = "normal" THEN \E d \in Directions : Hide(d) ELSE Unhide
  /\ UNCHANGED <<fixed, window, initialDone, hideTimer, unhideTimer>>

-----------------------------------------------------------------------------
(***************************************************************************)
(* The timers.                                                             *)
(***************************************************************************)
\* panel_toplevel_queue_auto_hide, with auto_hide ah and n disablers
QueueAutoHide(ah, n) ==
  IF ~ah \/ inside \/ n > 0
    THEN UNCHANGED <<hideTimer, unhideTimer>>
    ELSE unhideTimer' = FALSE /\ hideTimer' = (hideTimer \/ state = "normal")

\* panel_toplevel_queue_auto_unhide
QueueAutoUnhide ==
  IF unhideTimer THEN UNCHANGED <<hideTimer, unhideTimer>>
                 ELSE hideTimer' = FALSE /\ unhideTimer' = (state = "auto_hidden")

\* panel_toplevel_queue_initial_unhide, by the object loader
QueueInitialUnhide ==
  /\ ~initialDone /\ ~unhideTimer /\ unhideTimer' = TRUE
  /\ UNCHANGED <<fixed, window, slide, state, initialDone, hideTimer>>

\* panel_toplevel_auto_hide_timeout_handler
AutoHideTimeout ==
  /\ hideTimer
  /\ IF disablers > 0
       THEN hideTimer' = FALSE /\ UNCHANGED <<state, slide>>
       ELSE ~animating /\ hideTimer' = FALSE /\ Hide("auto_hidden")
  /\ UNCHANGED <<fixed, window, initialDone, unhideTimer>>

\* Mutant of AutoUnhideTimeout: a panel the pointer is not on stays hidden,
\* also when it no longer hides by itself.
AutoUnhideTimeout_InsideOnly ==
  /\ unhideTimer /\ ~animating /\ unhideTimer' = FALSE
  /\ initialDone' = (initialDone \/ ~animate)
  /\ IF ~initialDone' /\ autoHide THEN UnhideAndHide(FALSE)
     ELSE IF inside THEN Unhide ELSE UNCHANGED <<state, slide>>
  /\ UNCHANGED <<fixed, window, hideTimer>>

\* panel_toplevel_auto_unhide_timeout_handler
AutoUnhideTimeout ==
  /\ unhideTimer /\ ~animating /\ unhideTimer' = FALSE
  /\ initialDone' = (initialDone \/ ~animate)
  /\ IF autoHide THEN IF ~initialDone' THEN UnhideAndHide(FALSE)
                      ELSE IF inside THEN Unhide ELSE UNCHANGED <<state, slide>>
                 ELSE Unhide
  /\ UNCHANGED <<fixed, window, hideTimer>>

\* Mutant of AnimationTimeout: no resize is queued.
AnimationTimeout_NoResize ==
  /\ animTimer /\ animTimer' = animating
  /\ initialDone' = (initialDone \/ ~animating)
  /\ UNCHANGED <<fixed, window, state, hideTimer, unhideTimer, animating, target,
                 resize>>

\* panel_toplevel_animation_timeout
AnimationTimeout ==
  /\ animTimer /\ animTimer' = animating
  /\ initialDone' = (initialDone \/ ~animating)
  /\ resize' = TRUE
  /\ UNCHANGED <<fixed, window, state, hideTimer, unhideTimer, animating, target>>

\* A size request, with the animation not at its end, ...
MoveOn ==
  /\ resize /\ animating /\ resize' = FALSE
  /\ place' = "moving" /\ Cross("moving", spot)
  /\ UNCHANGED <<fixed, timers, state, initialDone, spot, animating, target>>

\* ... at its end (panel_toplevel_update_animating_position), ...
Arrive ==
  /\ resize /\ animating /\ animating' = FALSE
  /\ place' = target /\ Cross(target, spot)
  /\ initialDone' = TRUE
  /\ UNCHANGED <<fixed, timers, state, spot, resize, target>>

\* ... and without one (panel_toplevel_update_position).
Settle ==
  /\ resize /\ ~animating /\ resize' = FALSE
  /\ place' = RestPlace(state) /\ Cross(place', spot)
  /\ UNCHANGED <<fixed, timers, state, initialDone, spot, animating, target>>

-----------------------------------------------------------------------------
(***************************************************************************)
(* Events.                                                                 *)
(***************************************************************************)
MovePointer ==
  /\ spot' \in Spots \ {spot} /\ Cross(place, spot')
  /\ UNCHANGED <<fixed, timers, state, initialDone, place, animating, target,
                 resize>>

\* enter-notify and leave-notify
Crossing ==
  /\ crossings # <<>> /\ crossings' = Tail(crossings)
  /\ IF ~autoHide THEN UNCHANGED <<hideTimer, unhideTimer>>
     ELSE IF Head(crossings) THEN QueueAutoUnhide
                             ELSE QueueAutoHide(autoHide, disablers)
  /\ UNCHANGED <<fixed, slide, state, initialDone, place, spot, inside>>

FocusIn ==
  /\ ~focused /\ focused' = TRUE
  /\ IF state = "auto_hidden" THEN Unhide ELSE UNCHANGED <<state, slide>>
  /\ UNCHANGED <<window, vertical, floating, autoHide, animate, initialDone,
                 hideTimer, unhideTimer, disablers, moved, changes>>

FocusOut ==
  /\ focused /\ focused' = FALSE
  /\ QueueAutoHide(autoHide, disablers)
  /\ UNCHANGED <<window, vertical, floating, autoHide, animate, initialDone,
                 slide, state, disablers, moved, changes>>

\* Something is dragged over the panel, and leaves it (panel.c).
DragOver ==
  /\ inside /\ Unhide
  /\ UNCHANGED <<fixed, window, initialDone, hideTimer, unhideTimer>>

DragLeave ==
  /\ QueueAutoHide(autoHide, disablers)
  /\ UNCHANGED <<fixed, window, slide, state, initialDone>>

\* A menu or a dialog of the panel opens, and closes.
Disablers(n) ==
  /\ n \in 0 .. MaxDisablers /\ disablers' = n
  /\ UNCHANGED <<window, vertical, floating, autoHide, animate, initialDone,
                 slide, state, focused, moved, changes>>

Unqueued == UNCHANGED <<hideTimer, unhideTimer>>

PushDisabler ==
  /\ Disablers(disablers + 1)
  /\ IF disablers = 0 THEN QueueAutoHide(autoHide, 1) ELSE Unqueued

\* Mutant of PopDisabler: auto-hiding is not queued again.
PopDisabler_NotQueued == Disablers(disablers - 1) /\ disablers > 0 /\ Unqueued

PopDisabler ==
  /\ disablers > 0 /\ Disablers(disablers - 1)
  /\ IF disablers = 1 THEN QueueAutoHide(autoHide, 0) ELSE Unqueued

\* An applet asks for another size.
ChildResizes ==
  /\ ~resize /\ resize' = TRUE
  /\ UNCHANGED <<fixed, window, timers, state, initialDone, animating, target>>

-----------------------------------------------------------------------------
(***************************************************************************)
(* Settings.                                                               *)
(***************************************************************************)
Change == changes < MaxChanges /\ changes' = changes + 1

\* panel_toplevel_set_auto_hide; the struts may change with it.
SetAutoHide ==
  /\ Change /\ autoHide' = ~autoHide
  /\ IF autoHide' THEN QueueAutoHide(TRUE, disablers) ELSE QueueAutoUnhide
  /\ resize' \in {resize, TRUE}
  /\ UNCHANGED <<window, vertical, floating, animate, disablers, focused, moved,
                 animating, target, animTimer, state, initialDone>>

SetAnimate ==
  /\ Change /\ animate' = ~animate
  /\ UNCHANGED <<window, slide, vertical, floating, autoHide, disablers, focused,
                 moved, state, initialDone, hideTimer, unhideTimer>>

\* panel_toplevel_set_auto_hide_size; the struts may change with it.
SetAutoHideSize ==
  /\ Change
  /\ \/ state = "auto_hidden" /\ animate /\ UnhideAndHide(~floating)
     \/ state = "auto_hidden" /\ ~animate /\ resize' = TRUE
        /\ UNCHANGED <<state, animating, target, animTimer>>
     \/ UNCHANGED <<state, slide>>
  /\ UNCHANGED <<window, vertical, floating, autoHide, animate, disablers,
                 focused, moved, initialDone, hideTimer, unhideTimer>>

\* Mutant of Remapped: the state is kept.
Remapped_Kept(st) == st

\* Where a panel hidden by its buttons is hidden once it is rotated.
Remapped(st) == CASE st = "up" -> "left" [] st = "down" -> "right"
                  [] st = "left" -> "up" [] st = "right" -> "down"
                  [] OTHER -> st

\* panel_toplevel_set_orientation, between horizontal and vertical
Rotate ==
  /\ Change /\ vertical' = ~vertical
  /\ state' = Remapped(state) /\ resize' = TRUE
  /\ UNCHANGED <<window, floating, autoHide, animate, disablers, focused, moved,
                 animating, target, animTimer, initialDone, hideTimer, unhideTimer>>

\* The panel goes to another screen: unrealize, then realize.
SetScreen ==
  /\ Change /\ moved' = TRUE
  /\ hideTimer' = FALSE /\ unhideTimer' = FALSE /\ animTimer' = FALSE
  /\ initialDone' = FALSE /\ state' = "auto_hidden" /\ resize' = TRUE
  /\ UNCHANGED <<window, vertical, floating, autoHide, animate, disablers,
                 focused, animating, target>>

-----------------------------------------------------------------------------
\* A panel that was created and realized.  A panel with auto_hide queued its
\* hiding when the setting was read, before it was realized.
Init ==
  /\ state = "auto_hidden" /\ initialDone = FALSE /\ resize = TRUE
  /\ vertical \in BOOLEAN /\ floating \in BOOLEAN /\ autoHide \in BOOLEAN
  /\ animate \in BOOLEAN /\ animating = FALSE /\ target = "normal"
  /\ hideTimer = autoHide /\ unhideTimer = FALSE /\ animTimer = FALSE
  /\ place = "offscreen" /\ spot = "away" /\ inside = FALSE /\ crossings = <<>>
  /\ disablers = 0 /\ focused = FALSE /\ moved = FALSE /\ changes = 0

User == \/ ToggleHidden \/ HideButtonClicked \/ MovePointer \/ FocusIn \/ FocusOut
        \/ DragOver \/ DragLeave \/ PushDisabler \/ PopDisabler

Settings == SetAutoHide \/ SetAnimate \/ SetAutoHideSize \/ Rotate \/ SetScreen

Loop == \/ AutoHideTimeout \/ AutoUnhideTimeout \/ AnimationTimeout
        \/ MoveOn \/ Arrive \/ Settle \/ Crossing

Next == User \/ Settings \/ Loop \/ QueueInitialUnhide \/ ChildResizes

(***************************************************************************)
(* Fairness: the main loop runs what is due.  An animation ends, because   *)
(* its time does: of the resizes its timer queues one finds it over.       *)
(***************************************************************************)
Fairness ==
  /\ WF_vars(AutoHideTimeout) /\ WF_vars(AutoUnhideTimeout)
  /\ WF_vars(AnimationTimeout) /\ WF_vars(MoveOn) /\ SF_vars(Arrive)
  /\ WF_vars(Settle) /\ WF_vars(Crossing)

Spec == Init /\ [][Next]_vars
FairSpec == Spec /\ Fairness

-----------------------------------------------------------------------------
(***************************************************************************)
(* Properties.                                                             *)
(***************************************************************************)
\* Every variable has its type, and a panel hidden by its buttons is hidden
\* in a direction of its orientation, through every rotation.
TypeOK ==
  /\ state \in {"normal", "auto_hidden"} \cup Directions
  /\ {vertical, floating, autoHide, animate, animating, initialDone, hideTimer,
      unhideTimer, animTimer, resize, inside, focused, moved} \subseteq BOOLEAN
  /\ disablers \in 0 .. MaxDisablers /\ changes \in 0 .. MaxChanges
  /\ place \in Places /\ target \in Places /\ spot \in Spots
  /\ crossings \in Seq(BOOLEAN)

\* A panel that slides has the timer that moves it on; a panel moved to
\* another screen while it slides loses it.
SlidingHasTimer == animating /\ ~moved => animTimer

\* Every slide ends.
SlideEnds == animating ~> ~animating \/ moved

\* A panel that hides by itself is not left shown: once the pointer is away
\* and no menu, dialog or focus holds it, it hides.
AwayHides ==
  (autoHide /\ ~inside /\ disablers = 0 /\ ~focused /\ state = "normal")
    ~> (state # "normal" \/ inside \/ disablers > 0 \/ focused \/ ~autoHide)

\* A panel that does not hide by itself and was asked to show itself does so
\* after the slide under way, wherever the pointer is: the first time it is
\* shown, and when auto_hide is turned off.
QueuedUnhideShows ==
  (unhideTimer /\ ~autoHide) ~> (state # "auto_hidden" \/ autoHide \/ moved)

\* "Moving the pointer to that corner again will cause the panel to
\* re-appear": a panel that is auto-hidden is at a corner.
HiddenAtEdge == (state = "auto_hidden" /\ initialDone) ~> place # "offscreen"
=============================================================================
