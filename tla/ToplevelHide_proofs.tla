------------------------ MODULE ToplevelHide_proofs ------------------------
(***************************************************************************)
(* Proofs about ToplevelHide: its types, for any number of changes, menus  *)
(* and crossing events, and that a panel that slides has its timer.        *)
(*                                                                         *)
(* TypeOK is split by who changes what: most steps are one of the ways to  *)
(* begin a slide, one of the ways to set the timers, or a move of the      *)
(* window or the pointer, and each of these keeps its part.                *)
(*                                                                         *)
(* And about AppletMenus, which counts the menus, dialogs and drags that   *)
(* keep a panel from hiding: that the count is right.                      *)
(***************************************************************************)
EXTENDS ToplevelHide, AppletMenus, SequenceLemmas, FiniteSetTheorems

StateFits == state \in {"normal", "auto_hidden"} \cup Directions

SlideTyped ==
  /\ animating \in BOOLEAN /\ animTimer \in BOOLEAN /\ resize \in BOOLEAN
  /\ target \in Places

TimersTyped == hideTimer \in BOOLEAN /\ unhideTimer \in BOOLEAN

PointerTyped ==
  /\ place \in Places /\ spot \in Spots /\ inside \in BOOLEAN
  /\ crossings \in Seq(BOOLEAN)

OthersTyped ==
  /\ vertical \in BOOLEAN /\ floating \in BOOLEAN /\ autoHide \in BOOLEAN
  /\ animate \in BOOLEAN /\ initialDone \in BOOLEAN /\ focused \in BOOLEAN
  /\ moved \in BOOLEAN /\ disablers \in 0 .. MaxDisablers /\ changes \in 0 .. MaxChanges

Inv ==
  /\ StateFits /\ SlideTyped /\ TimersTyped /\ PointerTyped /\ OthersTyped
  /\ SlidingHasTimer

LEMMA InvTypeOK == Inv => TypeOK
BY DEF Inv, TypeOK, StateFits, SlideTyped, TimersTyped, PointerTyped, OthersTyped

LEMMA InitInv == ASSUME Init PROVE Inv
<1>1. StateFits BY DEF Init, StateFits
<1>2. SlideTyped /\ SlidingHasTimer
  BY DEF Init, SlideTyped, SlidingHasTimer, Places
<1>3. TimersTyped
  <2>1. autoHide \in BOOLEAN /\ hideTimer = autoHide /\ unhideTimer = FALSE
    BY DEF Init
  <2> QED BY <2>1 DEF TimersTyped
<1>4. PointerTyped
  <2>1. crossings \in Seq(BOOLEAN)
    <3>1. crossings = <<>> BY DEF Init
    <3> QED BY <3>1
  <2> QED BY <2>1 DEF Init, PointerTyped, Places, Spots
<1>5. OthersTyped
  <2>1. disablers \in 0 .. MaxDisablers /\ changes \in 0 .. MaxChanges
    BY ToplevelHideAssumption DEF Init
  <2> QED BY <2>1 DEF Init, OthersTyped
<1> QED BY <1>1, <1>2, <1>3, <1>4, <1>5 DEF Inv

-----------------------------------------------------------------------------
(***************************************************************************)
(* What begins a slide.                                                    *)
(***************************************************************************)
LEMMA EndPlaceTyped == ASSUME NEW st PROVE EndPlace(st) \in Places
BY DEF EndPlace, Places

LEMMA RestPlaceTyped == ASSUME NEW st PROVE RestPlace(st) \in Places
BY DEF RestPlace, Places

\* A slide that begins has its timer, as has one that goes on.
LEMMA SlideStarts ==
  ASSUME Inv, NEW st, Slide(st), moved' = moved
  PROVE  SlideTyped' /\ SlidingHasTimer'
<1>1. CASE animate
  <2>1. /\ target' \in Places
        /\ animating' = (place # EndPlace(st)) /\ animTimer' = (animTimer \/ animating')
        /\ resize' = TRUE
    BY <1>1, EndPlaceTyped DEF Slide, StartAnimation
  <2> QED BY <2>1 DEF SlideTyped, SlidingHasTimer
<1>2. CASE ~animate
  BY <1>2 DEF Slide, Inv, SlideTyped, SlidingHasTimer
<1> QED BY <1>1, <1>2

LEMMA HideTyped ==
  ASSUME Inv, NEW st \in {"auto_hidden"} \cup Directions, Hide(st),
         moved' = moved, vertical' = vertical
  PROVE  StateFits' /\ SlideTyped' /\ SlidingHasTimer'
<1>1. CASE state = "normal"
  BY <1>1, SlideStarts DEF Hide, StateFits, Directions
<1>2. CASE state # "normal"
  BY <1>2 DEF Hide, slide, Inv, StateFits, Directions, SlideTyped, SlidingHasTimer
<1> QED BY <1>1, <1>2

LEMMA UnhideTyped ==
  ASSUME Inv, Unhide, moved' = moved, vertical' = vertical
  PROVE  StateFits' /\ SlideTyped' /\ SlidingHasTimer'
<1>1. CASE state # "normal"
  BY <1>1, SlideStarts DEF Unhide, StateFits
<1>2. CASE state = "normal"
  BY <1>2 DEF Unhide, slide, Inv, StateFits, Directions, SlideTyped, SlidingHasTimer
<1> QED BY <1>1, <1>2

LEMMA UnhideAndHideTyped ==
  ASSUME Inv, NEW r \in BOOLEAN, UnhideAndHide(r), moved' = moved
  PROVE  StateFits' /\ SlideTyped' /\ SlidingHasTimer'
<1>1. target' \in Places /\ animating' = (r \/ place # target')
  BY EndPlaceTyped DEF UnhideAndHide
<1>2. animTimer' = (\/ animTimer \/ animating'
                    \/ state # "normal" /\ place # "normal")
  BY DEF UnhideAndHide
<1>3. animTimer' \in BOOLEAN /\ animating' \in BOOLEAN BY <1>1, <1>2
<1>4. animating' => animTimer' BY <1>2, <1>3
<1> QED BY <1>1, <1>3, <1>4 DEF UnhideAndHide, StateFits, SlideTyped, SlidingHasTimer

LEMMA StandsStill ==
  ASSUME Inv, UNCHANGED <<state, slide>>, moved' = moved, vertical' = vertical
  PROVE  StateFits' /\ SlideTyped' /\ SlidingHasTimer'
BY DEF slide, Inv, StateFits, Directions, SlideTyped, SlidingHasTimer

-----------------------------------------------------------------------------
(***************************************************************************)
(* The timers and the pointer.                                             *)
(***************************************************************************)
LEMMA QueueAutoHideTyped ==
  ASSUME TimersTyped, NEW ah, NEW n, QueueAutoHide(ah, n)
  PROVE  TimersTyped'
<1>1. CASE ~ah \/ inside \/ n > 0 BY <1>1 DEF QueueAutoHide, TimersTyped
<1>2. CASE ~(~ah \/ inside \/ n > 0) BY <1>2 DEF QueueAutoHide, TimersTyped
<1> QED BY <1>1, <1>2

LEMMA QueueAutoUnhideTyped ==
  ASSUME TimersTyped, QueueAutoUnhide
  PROVE  TimersTyped'
<1>1. CASE unhideTimer BY <1>1 DEF QueueAutoUnhide, TimersTyped
<1>2. CASE ~unhideTimer BY <1>2 DEF QueueAutoUnhide, TimersTyped
<1> QED BY <1>1, <1>2

\* Where the window and the pointer go, crossing events stay a sequence.
LEMMA CrossTyped ==
  ASSUME PointerTyped, NEW p, NEW s, Cross(p, s)
  PROVE  inside' \in BOOLEAN /\ crossings' \in Seq(BOOLEAN)
<1>1. inside' \in BOOLEAN BY DEF Cross, ContainsPointer
<1>2. CASE inside' = inside BY <1>2 DEF Cross, PointerTyped
<1>3. CASE inside' # inside /\ Len(crossings) < MaxCrossings
  <2>1. crossings' = Append(crossings, inside') BY <1>3 DEF Cross
  <2> QED BY <1>1, <2>1 DEF PointerTyped
<1>4. CASE inside' # inside /\ ~(Len(crossings) < MaxCrossings)
  <2>1. crossings' = SubSeq(crossings, 1, Len(crossings) - 1) BY <1>4 DEF Cross
  <2>2. crossings \in Seq(BOOLEAN) BY DEF PointerTyped
  <2>3. SubSeq(crossings, 1, Len(crossings) - 1) \in Seq(BOOLEAN) BY <2>2
  <2> QED BY <1>1, <2>1, <2>3
<1> QED BY <1>1, <1>2, <1>3, <1>4

LEMMA PointerStays == ASSUME PointerTyped, UNCHANGED window PROVE PointerTyped'
BY DEF PointerTyped, window, pointer

LEMMA OthersStay ==
  ASSUME OthersTyped, UNCHANGED <<fixed, initialDone>>
  PROVE  OthersTyped' /\ moved' = moved /\ vertical' = vertical
BY DEF OthersTyped, fixed

-----------------------------------------------------------------------------
(***************************************************************************)
(* The actions.                                                            *)
(***************************************************************************)
LEMMA ToggleInv == ASSUME Inv, ToggleHidden PROVE Inv'
<1>1. PointerTyped' /\ OthersTyped' /\ moved' = moved /\ vertical' = vertical
  BY PointerStays, OthersStay DEF Inv, ToggleHidden
<1>2. TimersTyped' BY DEF Inv, ToggleHidden, TimersTyped
<1>3. \/ Hide("auto_hidden") \/ Unhide
      \/ Hide(IF vertical THEN "up" ELSE "left")
  BY DEF ToggleHidden
<1>4. (IF vertical THEN "up" ELSE "left") \in Directions BY DEF Directions
<1>5. StateFits' /\ SlideTyped' /\ SlidingHasTimer'
  BY <1>1, <1>3, <1>4, HideTyped, UnhideTyped
<1> QED BY <1>1, <1>2, <1>5 DEF Inv

LEMMA HideButtonInv == ASSUME Inv, HideButtonClicked PROVE Inv'
<1>1. PointerTyped' /\ OthersTyped' /\ moved' = moved /\ vertical' = vertical
  BY PointerStays, OthersStay DEF Inv, HideButtonClicked
<1>2. TimersTyped' BY DEF Inv, HideButtonClicked, TimersTyped
<1>3. StateFits' /\ SlideTyped' /\ SlidingHasTimer'
  BY <1>1, HideTyped, UnhideTyped DEF HideButtonClicked
<1> QED BY <1>1, <1>2, <1>3 DEF Inv

LEMMA InitialUnhideInv == ASSUME Inv, QueueInitialUnhide PROVE Inv'
<1>1. PointerTyped' /\ OthersTyped' /\ moved' = moved /\ vertical' = vertical
  BY PointerStays, OthersStay DEF Inv, QueueInitialUnhide
<1>2. TimersTyped' BY DEF Inv, QueueInitialUnhide, TimersTyped
<1>3. StateFits' /\ SlideTyped' /\ SlidingHasTimer'
  BY <1>1, StandsStill DEF QueueInitialUnhide
<1> QED BY <1>1, <1>2, <1>3 DEF Inv

LEMMA AutoHideTimeoutInv == ASSUME Inv, AutoHideTimeout PROVE Inv'
<1>1. PointerTyped' /\ OthersTyped' /\ moved' = moved /\ vertical' = vertical
  BY PointerStays, OthersStay DEF Inv, AutoHideTimeout
<1>2. TimersTyped' BY DEF Inv, AutoHideTimeout, TimersTyped
<1>3. StateFits' /\ SlideTyped' /\ SlidingHasTimer'
  BY <1>1, HideTyped, StandsStill DEF AutoHideTimeout
<1> QED BY <1>1, <1>2, <1>3 DEF Inv

LEMMA AutoUnhideTimeoutInv == ASSUME Inv, AutoUnhideTimeout PROVE Inv'
<1>1. PointerTyped' /\ moved' = moved /\ vertical' = vertical
  BY PointerStays DEF Inv, AutoUnhideTimeout, fixed
<1>2. initialDone' = (initialDone \/ ~animate) BY DEF AutoUnhideTimeout
<1>3. OthersTyped'
  <2>1. initialDone' \in BOOLEAN BY <1>2
  <2> QED BY <2>1 DEF Inv, AutoUnhideTimeout, OthersTyped, fixed
<1>4. TimersTyped' BY DEF Inv, AutoUnhideTimeout, TimersTyped
<1>5. UnhideAndHide(FALSE) \/ Unhide \/ UNCHANGED <<state, slide>>
  BY DEF AutoUnhideTimeout
<1>6. StateFits' /\ SlideTyped' /\ SlidingHasTimer'
  BY <1>1, <1>5, UnhideTyped, UnhideAndHideTyped, StandsStill
<1> QED BY <1>1, <1>3, <1>4, <1>6 DEF Inv

\* The timer of a slide goes with the slide.
LEMMA AnimationTimeoutInv == ASSUME Inv, AnimationTimeout PROVE Inv'
<1>1. PointerTyped' BY PointerStays DEF Inv, AnimationTimeout
<1>2. initialDone' \in BOOLEAN
  <2>1. initialDone' = (initialDone \/ ~animating) BY DEF AnimationTimeout
  <2> QED BY <2>1
<1>3. OthersTyped' BY <1>2 DEF Inv, AnimationTimeout, OthersTyped, fixed
<1>4. TimersTyped' BY DEF Inv, AnimationTimeout, TimersTyped
<1>5. StateFits' BY DEF Inv, AnimationTimeout, StateFits, Directions, fixed
<1>6. SlideTyped' /\ SlidingHasTimer'
  BY DEF Inv, AnimationTimeout, SlideTyped, SlidingHasTimer
<1> QED BY <1>1, <1>3, <1>4, <1>5, <1>6 DEF Inv

LEMMA ResizeInv == ASSUME Inv, MoveOn \/ Arrive \/ Settle PROVE Inv'
<1>1. /\ UNCHANGED <<fixed, timers, state, spot, target>>
      /\ Cross(place', spot) /\ place' \in Places
      /\ initialDone' \in BOOLEAN /\ resize' \in BOOLEAN
      /\ animating' \in {animating, FALSE}
  BY RestPlaceTyped DEF Inv, MoveOn, Arrive, Settle, OthersTyped, SlideTyped, Places
<1>2. PointerTyped' BY <1>1, CrossTyped DEF Inv, PointerTyped
<1>3. OthersTyped' BY <1>1 DEF Inv, OthersTyped, fixed
<1>4. TimersTyped' BY <1>1 DEF Inv, TimersTyped, timers
<1>5. StateFits' BY <1>1 DEF Inv, StateFits, Directions, fixed
<1>6. animTimer' = animTimer /\ target' = target /\ moved' = moved
  BY <1>1 DEF timers, fixed
<1>7. animating' \in BOOLEAN /\ (animating' => animating)
  <2>1. animating \in BOOLEAN BY DEF Inv, SlideTyped
  <2>2. animating' \in {animating, FALSE} BY <1>1
  <2>3. CASE animating' = animating BY <2>1, <2>3
  <2>4. CASE animating' = FALSE BY <2>4
  <2> QED BY <2>2, <2>3, <2>4
<1>8. SlideTyped' BY <1>1, <1>6, <1>7 DEF Inv, SlideTyped
<1>9. SlidingHasTimer' BY <1>6, <1>7 DEF Inv, SlidingHasTimer
<1> QED BY <1>2, <1>3, <1>4, <1>5, <1>8, <1>9 DEF Inv

LEMMA MovePointerInv == ASSUME Inv, MovePointer PROVE Inv'
<1>1. PointerTyped' BY CrossTyped DEF Inv, MovePointer, PointerTyped
<1>2. OthersTyped' /\ moved' = moved /\ vertical' = vertical
  BY OthersStay DEF Inv, MovePointer
<1>3. TimersTyped' BY DEF Inv, MovePointer, TimersTyped, timers
<1>4. StateFits' /\ SlideTyped' /\ SlidingHasTimer'
  BY <1>2, StandsStill DEF MovePointer, slide, timers
<1> QED BY <1>1, <1>2, <1>3, <1>4 DEF Inv

LEMMA CrossingInv == ASSUME Inv, Crossing PROVE Inv'
<1>1. PointerTyped'
  <2>1. Tail(crossings) \in Seq(BOOLEAN)
    <3>1. crossings \in Seq(BOOLEAN) /\ crossings # <<>>
      BY DEF Inv, Crossing, PointerTyped
    <3> QED BY <3>1
  <2> QED BY <2>1 DEF Inv, Crossing, PointerTyped
<1>2. OthersTyped' /\ moved' = moved /\ vertical' = vertical
  BY OthersStay DEF Inv, Crossing
<1>3. TimersTyped'
  <2>1. \/ UNCHANGED <<hideTimer, unhideTimer>> \/ QueueAutoUnhide
        \/ QueueAutoHide(autoHide, disablers)
    BY DEF Crossing
  <2> QED BY <2>1, QueueAutoHideTyped, QueueAutoUnhideTyped DEF Inv, TimersTyped
<1>4. StateFits' /\ SlideTyped' /\ SlidingHasTimer'
  BY <1>2, StandsStill DEF Crossing
<1> QED BY <1>1, <1>2, <1>3, <1>4 DEF Inv

LEMMA FocusInv == ASSUME Inv, FocusIn \/ FocusOut PROVE Inv'
<1>1. PointerTyped' BY PointerStays DEF Inv, FocusIn, FocusOut
<1>2. OthersTyped' /\ moved' = moved /\ vertical' = vertical
  BY DEF Inv, FocusIn, FocusOut, OthersTyped
<1>3. TimersTyped'
  <2>1. UNCHANGED <<hideTimer, unhideTimer>> \/ QueueAutoHide(autoHide, disablers)
    BY DEF FocusIn, FocusOut
  <2> QED BY <2>1, QueueAutoHideTyped DEF Inv, TimersTyped
<1>4. StateFits' /\ SlideTyped' /\ SlidingHasTimer'
  <2>1. Unhide \/ UNCHANGED <<state, slide>> BY DEF FocusIn, FocusOut
  <2> QED BY <1>2, <2>1, UnhideTyped, StandsStill
<1> QED BY <1>1, <1>2, <1>3, <1>4 DEF Inv

LEMMA DragInv == ASSUME Inv, DragOver \/ DragLeave PROVE Inv'
<1>1. PointerTyped' /\ OthersTyped' /\ moved' = moved /\ vertical' = vertical
  BY PointerStays, OthersStay DEF Inv, DragOver, DragLeave
<1>2. TimersTyped'
  <2>1. UNCHANGED <<hideTimer, unhideTimer>> \/ QueueAutoHide(autoHide, disablers)
    BY DEF DragOver, DragLeave
  <2> QED BY <2>1, QueueAutoHideTyped DEF Inv, TimersTyped
<1>3. StateFits' /\ SlideTyped' /\ SlidingHasTimer'
  <2>1. Unhide \/ UNCHANGED <<state, slide>> BY DEF DragOver, DragLeave
  <2> QED BY <1>1, <2>1, UnhideTyped, StandsStill
<1> QED BY <1>1, <1>2, <1>3 DEF Inv

LEMMA DisablerInv == ASSUME Inv, PushDisabler \/ PopDisabler PROVE Inv'
<1>1. PICK n : Disablers(n) BY DEF PushDisabler, PopDisabler
<1>2. PointerTyped' BY <1>1, PointerStays DEF Inv, Disablers
<1>3. OthersTyped' /\ moved' = moved /\ vertical' = vertical
  BY <1>1 DEF Inv, Disablers, OthersTyped
<1>4. TimersTyped'
  <2>1. \/ UNCHANGED <<hideTimer, unhideTimer>>
        \/ QueueAutoHide(autoHide, 1) \/ QueueAutoHide(autoHide, 0)
    BY DEF PushDisabler, PopDisabler, Unqueued
  <2> QED BY <2>1, QueueAutoHideTyped DEF Inv, TimersTyped
<1>5. StateFits' /\ SlideTyped' /\ SlidingHasTimer'
  BY <1>1, <1>3, StandsStill DEF Disablers
<1> QED BY <1>2, <1>3, <1>4, <1>5 DEF Inv

LEMMA ChildInv == ASSUME Inv, ChildResizes PROVE Inv'
<1>1. PointerTyped' /\ OthersTyped' /\ moved' = moved /\ vertical' = vertical
  BY PointerStays, OthersStay DEF Inv, ChildResizes
<1>2. TimersTyped' /\ StateFits' /\ SlideTyped' /\ SlidingHasTimer'
  BY <1>1 DEF Inv, ChildResizes, TimersTyped, StateFits, Directions, SlideTyped,
              SlidingHasTimer, timers
<1> QED BY <1>1, <1>2 DEF Inv

-----------------------------------------------------------------------------
(***************************************************************************)
(* Settings.                                                               *)
(***************************************************************************)
LEMMA ChangeTyped == ASSUME OthersTyped, Change PROVE changes' \in 0 .. MaxChanges
BY ToplevelHideAssumption DEF OthersTyped, Change

LEMMA SetAutoHideInv == ASSUME Inv, SetAutoHide PROVE Inv'
<1>1. changes' \in 0 .. MaxChanges BY ChangeTyped DEF Inv, SetAutoHide
<1>2. PointerTyped' BY PointerStays DEF Inv, SetAutoHide
<1>3. autoHide' \in BOOLEAN BY DEF SetAutoHide
<1>4. OthersTyped' BY <1>1, <1>3 DEF Inv, SetAutoHide, OthersTyped
<1>5. TimersTyped'
  BY QueueAutoHideTyped, QueueAutoUnhideTyped DEF Inv, SetAutoHide
<1>6. StateFits' BY DEF Inv, SetAutoHide, StateFits, Directions
<1>7. SlideTyped' /\ SlidingHasTimer'
  BY DEF Inv, SetAutoHide, SlideTyped, SlidingHasTimer
<1> QED BY <1>2, <1>4, <1>5, <1>6, <1>7 DEF Inv

LEMMA SetAnimateInv == ASSUME Inv, SetAnimate PROVE Inv'
<1>1. changes' \in 0 .. MaxChanges BY ChangeTyped DEF Inv, SetAnimate
<1>2. PointerTyped' BY PointerStays DEF Inv, SetAnimate
<1>3. animate' \in BOOLEAN BY DEF SetAnimate
<1>4. OthersTyped' BY <1>1, <1>3 DEF Inv, SetAnimate, OthersTyped
<1>5. TimersTyped' BY DEF Inv, SetAnimate, TimersTyped
<1>6. StateFits' /\ SlideTyped' /\ SlidingHasTimer' BY StandsStill DEF SetAnimate
<1> QED BY <1>2, <1>4, <1>5, <1>6 DEF Inv

LEMMA SetAutoHideSizeInv == ASSUME Inv, SetAutoHideSize PROVE Inv'
<1>1. changes' \in 0 .. MaxChanges BY ChangeTyped DEF Inv, SetAutoHideSize
<1>2. PointerTyped' BY PointerStays DEF Inv, SetAutoHideSize
<1>3. OthersTyped' /\ moved' = moved /\ vertical' = vertical
  BY <1>1 DEF Inv, SetAutoHideSize, OthersTyped
<1>4. TimersTyped' BY DEF Inv, SetAutoHideSize, TimersTyped
<1>5. StateFits' /\ SlideTyped' /\ SlidingHasTimer'
  <2>1. CASE UnhideAndHide(~floating) BY <1>3, <2>1, UnhideAndHideTyped
  <2>2. CASE resize' = TRUE /\ UNCHANGED <<state, animating, target, animTimer>>
    BY <1>3, <2>2 DEF Inv, StateFits, Directions, SlideTyped, SlidingHasTimer
  <2>3. CASE UNCHANGED <<state, slide>> BY <1>3, <2>3, StandsStill
  <2> QED BY <2>1, <2>2, <2>3 DEF SetAutoHideSize
<1> QED BY <1>2, <1>3, <1>4, <1>5 DEF Inv

\* A panel that is rotated is hidden in a direction of its new orientation.
LEMMA RotateInv == ASSUME Inv, Rotate PROVE Inv'
<1>1. changes' \in 0 .. MaxChanges BY ChangeTyped DEF Inv, Rotate
<1>2. PointerTyped' BY PointerStays DEF Inv, Rotate
<1>3. vertical' \in BOOLEAN /\ vertical' = ~vertical BY DEF Rotate
<1>4. OthersTyped' BY <1>1, <1>3 DEF Inv, Rotate, OthersTyped
<1>5. TimersTyped' BY DEF Inv, Rotate, TimersTyped
<1>6. StateFits'
  <2>1. CASE vertical BY <1>3, <2>1 DEF Inv, Rotate, StateFits, Directions, Remapped
  <2>2. CASE ~vertical BY <1>3, <2>2 DEF Inv, Rotate, StateFits, Directions, Remapped
  <2> QED BY <2>1, <2>2
<1>7. SlideTyped' /\ SlidingHasTimer' BY DEF Inv, Rotate, SlideTyped, SlidingHasTimer
<1> QED BY <1>2, <1>4, <1>5, <1>6, <1>7 DEF Inv

LEMMA SetScreenInv == ASSUME Inv, SetScreen PROVE Inv'
<1>1. changes' \in 0 .. MaxChanges BY ChangeTyped DEF Inv, SetScreen
<1>2. PointerTyped' BY PointerStays DEF Inv, SetScreen
<1>3. OthersTyped' BY <1>1 DEF Inv, SetScreen, OthersTyped
<1>4. TimersTyped' /\ StateFits' BY DEF SetScreen, TimersTyped, StateFits
<1>5. SlideTyped' /\ SlidingHasTimer' BY DEF Inv, SetScreen, SlideTyped, SlidingHasTimer
<1> QED BY <1>2, <1>3, <1>4, <1>5 DEF Inv

-----------------------------------------------------------------------------
LEMMA StepInv == Inv /\ [Next]_vars => Inv'
<1>1. ASSUME Inv, User PROVE Inv'
  BY <1>1, ToggleInv, HideButtonInv, MovePointerInv, FocusInv, DragInv, DisablerInv
     DEF User
<1>2. ASSUME Inv, Settings PROVE Inv'
  BY <1>2, SetAutoHideInv, SetAnimateInv, SetAutoHideSizeInv, RotateInv, SetScreenInv
     DEF Settings
<1>3. ASSUME Inv, Loop PROVE Inv'
  BY <1>3, AutoHideTimeoutInv, AutoUnhideTimeoutInv, AnimationTimeoutInv, ResizeInv,
     CrossingInv DEF Loop
<1>4. ASSUME Inv, UNCHANGED vars PROVE Inv'
  BY <1>4 DEF Inv, StateFits, Directions, SlideTyped, TimersTyped, PointerTyped,
              OthersTyped, SlidingHasTimer, vars
<1> QED BY <1>1, <1>2, <1>3, <1>4, InitialUnhideInv, ChildInv DEF Next

\* The invariant holds in every behaviour.
THEOREM Invariance == Spec => []Inv
BY InitInv, StepInv, PTL DEF Spec

\* Every variable keeps its type, and a panel hidden by its buttons is hidden in
\* a direction of its orientation, through every rotation
\* (panel_toplevel_set_orientation).
THEOREM TypeCorrect == Spec => []TypeOK
BY Invariance, InvTypeOK, PTL

\* A panel that slides has the timer that moves it on, however hides, unhides,
\* settings and rotations fall into the slide (panel_toplevel_start_animation).
THEOREM SlidesWithTimer == Spec => []SlidingHasTimer
BY Invariance, PTL DEF Inv

-----------------------------------------------------------------------------
(***************************************************************************)
(* AppletMenus: what keeps a panel from hiding is counted right.           *)
(***************************************************************************)
MenuItems ==
  {"launch", "properties", "edit", "lock", "activate", "prefs", "move", "remove", "add",
   "delete", "new panel"}
MenuTypes == [there : BOOLEAN, items : SUBSET MenuItems, visible : BOOLEAN, realized : BOOLEAN]

MenusTyped ==
  /\ panels \in Seq(Panels) /\ panels # <<>>
  /\ panelOf \in [Objects -> Panels \cup {Nowhere}]
  /\ lockdown \subseteq LockdownKeys
  /\ menus \in [MenuIds -> MenuTypes]
  /\ grab \in MenuIds \cup ({"main"} \X Panels) \cup {Nowhere}
  /\ dialogs \in [Panels -> SUBSET Dialogs]
  /\ drag \in Objects \cup {Nowhere}
  /\ disablersOf \in [Panels -> Nat] /\ mainMenus \in [Panels -> Nat]

\* A menu that is shown was made, and for an object that is on a panel; the menu
\* that has the pointer is shown, the object that is dragged is on a panel.
MenusAreOfObjects ==
  /\ \A id \in MenuIds : menus[id].visible => menus[id].there
  /\ \A id \in MenuIds :
       menus[id].there => id[1] = "context" \/ panelOf[id[2]] # Nowhere
  /\ grab \in MenuIds => menus[grab].visible
  /\ drag # Nowhere => panelOf[drag] # Nowhere

MenusInv ==
  MenusTyped /\ (~broken => MenusAreOfObjects /\ MenusHoldThePanel)

-----------------------------------------------------------------------------
(* The menus that keep a panel from hiding, with menus ms of objects on of.  *)
Up(ms, of, p) ==
  {id \in MenuIds : ms[id].visible /\ (IF id[1] = "context" THEN id[2] ELSE of[id[2]]) = p}
Dragged(d, of, p) == IF d # Nowhere /\ of[d] = p THEN 1 ELSE 0

\* The count of the panel p is right.
Counted(n, ms, of, ds, d, mains, p) ==
  n[p] = Cardinality(Up(ms, of, p)) + Cardinality(ds[p]) + Dragged(d, of, p) + mains[p]

LEMMA MenuIdIs ==
  /\ \A id \in MenuIds :
       \/ id[1] \in {"menu", "edit"} /\ id[2] \in Objects /\ id = <<id[1], id[2]>>
       \/ id[1] = "context" /\ id[2] \in Panels /\ id = <<"context", id[2]>>
  /\ \A o \in Objects : <<"menu", o>> \in MenuIds /\ <<"edit", o>> \in MenuIds
  /\ \A p \in Panels : <<"context", p>> \in MenuIds
  /\ \A o \in Objects : MenusOf(o) \subseteq MenuIds
BY DEF MenuIds, MenusOf

LEMMA MenuIdsFinite == MenusAssumption => IsFiniteSet(MenuIds)
<1> SUFFICES ASSUME MenusAssumption PROVE IsFiniteSet(MenuIds) OBVIOUS
<1>1. IsFiniteSet({"menu", "edit"}) /\ IsFiniteSet({"context"})
  <2>1. IsFiniteSet({"menu"}) /\ IsFiniteSet({"context"}) BY FS_Singleton
  <2>2. {"menu", "edit"} = {"menu"} \cup {"edit"} OBVIOUS
  <2> QED BY <2>1, <2>2, FS_AddElement
<1>2. IsFiniteSet({"menu", "edit"} \X Objects) /\ IsFiniteSet({"context"} \X Panels)
  BY <1>1, FS_Product DEF MenusAssumption
<1> QED BY <1>2, FS_Union DEF MenuIds

LEMMA UpFinite ==
  ASSUME MenusAssumption, NEW ms, NEW of, NEW p
  PROVE  IsFiniteSet(Up(ms, of, p)) /\ Cardinality(Up(ms, of, p)) \in Nat
<1>1. Up(ms, of, p) \subseteq MenuIds BY DEF Up
<1> QED BY <1>1, MenuIdsFinite, FS_Subset, FS_CardinalityType

LEMMA DialogsFinite ==
  \A ds \in SUBSET Dialogs : IsFiniteSet(ds) /\ Cardinality(ds) \in Nat
<1>1. IsFiniteSet({"properties"}) BY FS_Singleton
<1>2. IsFiniteSet({"properties"} \cup {"add"}) BY <1>1, FS_AddElement
<1>3. IsFiniteSet(({"properties"} \cup {"add"}) \cup {"delete"}) BY <1>2, FS_AddElement
<1>4. Dialogs = ({"properties"} \cup {"add"}) \cup {"delete"} BY DEF Dialogs
<1> QED BY <1>3, <1>4, FS_Subset, FS_CardinalityType

LEMMA MaxOfTwo ==
  ASSUME NEW n \in Int
  PROVE  Max({0, n}) = IF n > 0 THEN n ELSE 0
<1>1. \E x \in {0, n} : \A y \in {0, n} : x >= y OBVIOUS
<1>2. Max({0, n}) \in {0, n} /\ \A y \in {0, n} : Max({0, n}) >= y BY <1>1 DEF Max
<1> QED BY <1>2

LEMMA HoldersAre ==
  \A p : Holders(p) = Cardinality(Up(menus, panelOf, p)) + Cardinality(dialogs[p])
                        + Dragged(drag, panelOf, p)
<1>1. \A p : {id \in Visible(MenuIds) : Home(id) = p} = Up(menus, panelOf, p)
  BY MenuIdIs DEF Visible, Home, Up
<1> QED BY <1>1 DEF Holders, Dragged

\* The two halves of DisablersAreHolders, before and after a step.
LEMMA DisablersCount ==
  DisablersAreHolders <=>
    (~broken /\ ~crossed =>
       \A p \in Panels : Counted(disablersOf, menus, panelOf, dialogs, drag, mainMenus, p))
BY HoldersAre DEF DisablersAreHolders, Counted

LEMMA DisablersCountNext ==
  DisablersAreHolders' <=>
    (~broken' /\ ~crossed' =>
       \A p \in Panels : Counted(disablersOf', menus', panelOf', dialogs', drag', mainMenus', p))
<1>1. \A p : {id \in Visible(MenuIds)' : Home(id)' = p} = Up(menus', panelOf', p)
  BY MenuIdIs DEF Visible, Home, Up
<1>2. \A p : Holders(p)' = Cardinality(Up(menus', panelOf', p)) + Cardinality(dialogs'[p])
                             + Dragged(drag', panelOf', p)
  BY <1>1 DEF Holders, Dragged
<1> QED BY <1>2 DEF DisablersAreHolders, Counted

\* What going down takes from the count is what was up.
LEMMA PoppedCounts ==
  ASSUME MenusAssumption, MenusTyped, NEW ids, NEW p \in Panels
  PROVE  /\ Popped(ids) \in [Panels -> Nat]
         /\ \A x \in Nat : disablersOf[p] = Cardinality(Up(menus, panelOf, p)) + x =>
              Popped(ids)[p] = Cardinality(Up(menus, panelOf, p) \ ids) + x
<1>1. \A q : {id \in Visible(ids) : Home(id) = q} = Up(menus, panelOf, q) \cap ids
  BY MenuIdIs DEF Visible, Home, Up
<1>2. \A q \in Panels :
        /\ Popped(ids)[q] = Max({0, disablersOf[q] - Cardinality(Up(menus, panelOf, q) \cap ids)})
        /\ Cardinality(Up(menus, panelOf, q) \cap ids) \in Nat
        /\ Cardinality(Up(menus, panelOf, q) \ ids) \in Nat
        /\ Cardinality(Up(menus, panelOf, q) \ ids) =
             Cardinality(Up(menus, panelOf, q)) - Cardinality(Up(menus, panelOf, q) \cap ids)
  <2> TAKE q \in Panels
  <2>1. Popped(ids)[q] = Max({0, disablersOf[q] - Cardinality({id \in Visible(ids) : Home(id) = q})})
    BY DEF Popped
  <2> DEFINE up == Up(menus, panelOf, q)
  <2>2. IsFiniteSet(up) BY UpFinite
  <2> HIDE DEF up
  <2>3. IsFiniteSet(up \cap ids) /\ IsFiniteSet(up \ ids) BY <2>2, FS_Subset
  <2>4. Cardinality(up \cap ids) \in Nat /\ Cardinality(up \ ids) \in Nat
    BY <2>3, FS_CardinalityType
  <2>5. Cardinality(up \ ids) = Cardinality(up) - Cardinality(up \cap ids)
    BY <2>2, FS_Difference
  <2> QED BY <1>1, <2>1, <2>4, <2>5 DEF up
<1>3. \A q \in Panels : disablersOf[q] \in Nat BY DEF MenusTyped
<1>4. \A q \in Panels : Popped(ids)[q] \in Nat
  <2> TAKE q \in Panels
  <2> DEFINE n == disablersOf[q] - Cardinality(Up(menus, panelOf, q) \cap ids)
  <2>a. disablersOf[q] \in Nat BY <1>3
  <2>b. Cardinality(Up(menus, panelOf, q) \cap ids) \in Nat BY <1>2
  <2>1. n \in Int BY <2>a, <2>b
  <2>2. Popped(ids)[q] = Max({0, n}) BY <1>2
  <2> HIDE DEF n
  <2> QED BY <2>1, <2>2, MaxOfTwo
<1>5. Popped(ids) \in [Panels -> Nat]
  BY <1>4 DEF Popped
<1>6. ASSUME NEW x \in Nat, disablersOf[p] = Cardinality(Up(menus, panelOf, p)) + x
      PROVE  Popped(ids)[p] = Cardinality(Up(menus, panelOf, p) \ ids) + x
  <2>1. Cardinality(Up(menus, panelOf, p)) \in Nat BY UpFinite
  <2> DEFINE up == Cardinality(Up(menus, panelOf, p))
             down == Cardinality(Up(menus, panelOf, p) \cap ids)
             left == Cardinality(Up(menus, panelOf, p) \ ids)
             n == disablersOf[p] - down
  <2>2. up \in Nat /\ down \in Nat /\ left \in Nat /\ left = up - down
    BY <1>2, <2>1
  <2>3. disablersOf[p] = up + x BY <1>6
  <2>4. Popped(ids)[p] = Max({0, n}) BY <1>2
  <2> HIDE DEF up, down, left
  <2>5. n \in Nat /\ n = left + x BY <2>2, <2>3
  <2> HIDE DEF n
  <2>6. Popped(ids)[p] = n BY <2>4, <2>5, MaxOfTwo
  <2> QED BY <2>5, <2>6 DEF left
<1> QED BY <1>5, <1>6

\* One menu more, one dialog more or less.
LEMMA OneMoreUp ==
  ASSUME MenusAssumption, NEW ms, NEW of, NEW p, NEW id, id \notin Up(ms, of, p)
  PROVE  Cardinality(Up(ms, of, p) \cup {id}) = Cardinality(Up(ms, of, p)) + 1
BY UpFinite, FS_AddElement

LEMMA DialogCounts ==
  ASSUME NEW ds \in SUBSET Dialogs, NEW d \in Dialogs
  PROVE  /\ d \notin ds => Cardinality(ds \cup {d}) = Cardinality(ds) + 1
         /\ d \in ds => Cardinality(ds \ {d}) = Cardinality(ds) - 1
         /\ d \in ds => Cardinality(ds) >= 1
<1>1. IsFiniteSet(ds) /\ Cardinality(ds) \in Nat /\ Cardinality(ds \ {d}) \in Nat
  BY DialogsFinite
<1>2. d \notin ds => Cardinality(ds \cup {d}) = Cardinality(ds) + 1
  BY <1>1, FS_AddElement
<1>3. d \in ds => Cardinality(ds \ {d}) = Cardinality(ds) - 1
  BY <1>1, FS_RemoveElement
<1> QED BY <1>1, <1>2, <1>3

\* A step keeps the counts if it keeps each.
LEMMA CountsKept ==
  ASSUME DisablersAreHolders, ~broken, crossed => crossed',
         ~broken' /\ ~crossed' =>
           \A p \in Panels :
             Counted(disablersOf, menus, panelOf, dialogs, drag, mainMenus, p) =>
               Counted(disablersOf', menus', panelOf', dialogs', drag', mainMenus', p)
  PROVE  DisablersAreHolders'
BY DisablersCount, DisablersCountNext

-----------------------------------------------------------------------------
(* Menus. *)
LEMMA MadeMenus ==
  ASSUME MenusAssumption, NEW lock
  PROVE  /\ NoMenu \in MenuTypes /\ ~NoMenu.there /\ ~NoMenu.visible
         /\ \A o \in Objects : /\ ObjectMenu(o, lock) \in MenuTypes
                              /\ ~ObjectMenu(o, lock).visible
                              /\ ObjectMenu(o, lock).items = Allowed(o, lock)
         /\ EditMenu(lock) \in MenuTypes /\ ~EditMenu(lock).visible
         /\ EditMenu(lock).there <=> Locked \notin lock
         /\ PanelMenu(lock) \in MenuTypes /\ ~PanelMenu(lock).visible
         /\ PanelMenu(lock).there <=> Locked \notin lock
<1>1. NoMenu \in MenuTypes /\ ~NoMenu.there /\ ~NoMenu.visible BY DEF NoMenu, MenuTypes
<1>2. ASSUME NEW o \in Objects
      PROVE  /\ ObjectMenu(o, lock) \in MenuTypes /\ ~ObjectMenu(o, lock).visible
             /\ ObjectMenu(o, lock).items = Allowed(o, lock)
  <2>1. KindOf[o] \in {"launcher", "menu", "lock"} BY DEF MenusAssumption, ItemsOf
  <2>2. /\ ItemsOf["launcher"] = {"launch", "properties"} /\ ItemsOf["menu"] = {"edit"}
        /\ ItemsOf["lock"] = {"lock", "activate", "prefs"}
    BY DEF ItemsOf
  <2>3. Allowed(o, lock) \subseteq MenuItems BY <2>1, <2>2 DEF Allowed, MenuItems
  <2> QED BY <2>3 DEF ObjectMenu, NoMenu, MenuTypes
<1>3. /\ EditMenu(lock) \in MenuTypes /\ ~EditMenu(lock).visible
      /\ EditMenu(lock).there <=> Locked \notin lock
  <2>1. {"move", "remove"} \subseteq MenuItems BY DEF MenuItems
  <2>2. EditMenu(lock) \in MenuTypes BY <2>1 DEF EditMenu, NoMenu, MenuTypes
  <2>3. ~EditMenu(lock).visible BY DEF EditMenu, NoMenu
  <2>4. EditMenu(lock).there <=> Locked \notin lock BY DEF EditMenu, NoMenu
  <2> QED BY <2>2, <2>3, <2>4
<1>4. /\ PanelMenu(lock) \in MenuTypes /\ ~PanelMenu(lock).visible
      /\ PanelMenu(lock).there <=> Locked \notin lock
  <2>1. Dialogs \cup {"new panel"} \subseteq MenuItems BY DEF Dialogs, MenuItems
  <2>2. PanelMenu(lock) \in MenuTypes BY <2>1 DEF PanelMenu, NoMenu, MenuTypes
  <2>3. ~PanelMenu(lock).visible BY DEF PanelMenu, NoMenu
  <2>4. PanelMenu(lock).there <=> Locked \notin lock BY DEF PanelMenu, NoMenu
  <2> QED BY <2>2, <2>3, <2>4
<1> QED BY <1>1, <1>2, <1>3, <1>4

LEMMA PushPop ==
  ASSUME NEW n \in [Panels -> Nat], NEW p \in Panels
  PROVE  /\ Push(n, p) \in [Panels -> Nat] /\ Pop(n, p) \in [Panels -> Nat]
         /\ Push(n, p)[p] = n[p] + 1
         /\ n[p] > 0 => Pop(n, p)[p] = n[p] - 1
         /\ \A q \in Panels \ {p} : Push(n, p)[q] = n[q] /\ Pop(n, p)[q] = n[q]
BY DEF Push, Pop

LEMMA MenusInitInv == ASSUME MenusAssumption, MenusInit PROVE MenusInv
<1>1. (CHOOSE p \in Panels : TRUE) \in Panels BY DEF MenusAssumption
<1>2. MenusTyped
  <2>1. panels \in Seq(Panels) /\ panels # <<>> BY <1>1 DEF MenusInit
  <2>2. menus \in [MenuIds -> MenuTypes] BY MadeMenus DEF MenusInit
  <2> QED BY <2>1, <2>2 DEF MenusInit, MenusTyped
<1>3. MenusAreOfObjects
  <2>1. \A id \in MenuIds : ~menus[id].there /\ ~menus[id].visible
    BY MadeMenus DEF MenusInit
  <2>2. Nowhere \notin MenuIds BY DEF MenusAssumption
  <2>3. grab = Nowhere /\ drag = Nowhere BY DEF MenusInit
  <2> QED BY <2>1, <2>2, <2>3 DEF MenusAreOfObjects
<1>4. DisablersAreHolders
  <2>1. \A p \in Panels : Up(menus, panelOf, p) = {}
    BY MadeMenus DEF MenusInit, Up
  <2>2. \A p \in Panels : Counted(disablersOf, menus, panelOf, dialogs, drag, mainMenus, p)
    BY <2>1, FS_EmptySet DEF MenusInit, Counted, Dragged
  <2> QED BY <2>2, DisablersCount
<1>5. MenusAreAllowed
  BY MadeMenus, MenuIdIs DEF MenusInit, MenusAreAllowed
<1> QED BY <1>2, <1>3, <1>4, <1>5 DEF MenusInv, MenusHoldThePanel

\* A menu is popped up: one that is there, or was made now.
LEMMA PoppedUpInv ==
  ASSUME MenusAssumption, MenusInv, ~broken, NEW id \in MenuIds, NEW m \in MenuTypes,
         NEW shown \in BOOLEAN, NEW grabbed \in BOOLEAN,
         menus[id].there => m = menus[id],
         ~menus[id].there => ~m.visible,
         id[1] # "context" => panelOf[id[2]] # Nowhere,
         id[1] = "menu" => m.items = Allowed(id[2], lockdown),
         m.there /\ Locked \in lockdown => id[1] = "menu",
         PoppedUp(id, m, shown, grabbed)
  PROVE  MenusInv'
<1> DEFINE visible == m.visible \/ shown \/ grabbed
           new == [m EXCEPT !.visible = visible, !.realized = @ \/ grabbed]
<1>1. /\ MenusTyped /\ MenusAreOfObjects /\ DisablersAreHolders /\ MenusAreAllowed
  BY DEF MenusInv, MenusHoldThePanel
<1>2. /\ m.there
      /\ menus' = [menus EXCEPT ![id] = new]
      /\ disablersOf' = IF visible /\ ~m.visible THEN Push(disablersOf, Home(id)) ELSE disablersOf
      /\ grab' = IF grabbed THEN id ELSE Nowhere
      /\ grab = Nowhere
      /\ UNCHANGED <<panels, panelOf, lockdown, dialogs, drag, mainMenus, crossed, broken>>
  BY DEF PoppedUp
<1>3. /\ new \in MenuTypes /\ new.there /\ new.items = m.items /\ new.visible = visible
  BY <1>2 DEF MenuTypes
<1> HIDE DEF new
<1>4. menus \in [MenuIds -> MenuTypes] /\ disablersOf \in [Panels -> Nat] BY <1>1 DEF MenusTyped
<1>5. /\ menus'[id] = new /\ \A x \in MenuIds \ {id} : menus'[x] = menus[x]
      /\ menus' \in [MenuIds -> MenuTypes]
  BY <1>2, <1>3, <1>4
<1>6. Home(id) \in Panels /\ Home(id) = (IF id[1] = "context" THEN id[2] ELSE panelOf[id[2]])
  <2>1. panelOf \in [Objects -> Panels \cup {Nowhere}] BY <1>1 DEF MenusTyped
  <2> QED BY <2>1, MenuIdIs DEF Home
<1>7. MenusTyped'
  <2>1. disablersOf' \in [Panels -> Nat] BY <1>2, <1>4, <1>6, PushPop
  <2>2. grab' \in MenuIds \cup ({"main"} \X Panels) \cup {Nowhere} BY <1>2
  <2> QED BY <1>1, <1>2, <1>5, <2>1, <2>2 DEF MenusTyped
<1>8. MenusAreOfObjects'
  <2>1. ASSUME NEW x \in MenuIds
        PROVE  /\ menus'[x].visible => menus'[x].there
               /\ menus'[x].there => x[1] = "context" \/ panelOf'[x[2]] # Nowhere
    BY <1>1, <1>2, <1>3, <1>5 DEF MenusAreOfObjects
  <2>2. grab' \in MenuIds => menus'[grab'].visible
    BY <1>2, <1>3, <1>5 DEF MenusAssumption
  <2>3. drag' # Nowhere => panelOf'[drag'] # Nowhere BY <1>1, <1>2 DEF MenusAreOfObjects
  <2> QED BY <2>1, <2>2, <2>3 DEF MenusAreOfObjects
<1>9. DisablersAreHolders'
  <2>1. ASSUME NEW p \in Panels,
               Counted(disablersOf, menus, panelOf, dialogs, drag, mainMenus, p)
        PROVE  Counted(disablersOf', menus', panelOf', dialogs', drag', mainMenus', p)
    <3>1. ~m.visible => id \notin Up(menus, panelOf, p)
      <4>1. menus[id].visible => m = menus[id] BY <1>1 DEF MenusAreOfObjects
      <4> QED BY <4>1 DEF Up
    <3>2. CASE visible /\ ~m.visible /\ p = Home(id)
      <4>1. Up(menus', panelOf', p) = Up(menus, panelOf, p) \cup {id}
        BY <1>2, <1>3, <1>5, <1>6, <3>2 DEF Up
      <4>2. Cardinality(Up(menus', panelOf', p)) = Cardinality(Up(menus, panelOf, p)) + 1
        BY <3>1, <3>2, <4>1, OneMoreUp
      <4>3. disablersOf'[p] = disablersOf[p] + 1 BY <1>2, <1>4, <3>2, PushPop
      <4>4. dialogs[p] \in SUBSET Dialogs /\ mainMenus[p] \in Nat BY <1>1 DEF MenusTyped
      <4>5. Dragged(drag, panelOf, p) \in Nat BY DEF Dragged
      <4> QED BY <1>2, <2>1, <4>2, <4>3, <4>4, <4>5, UpFinite, DialogsFinite DEF Counted
    <3>3. CASE ~(visible /\ ~m.visible /\ p = Home(id))
      <4>1. Up(menus', panelOf', p) = Up(menus, panelOf, p)
        <5>1. m.visible => m = menus[id] BY DEF MenuTypes
        <5>2. CASE p = Home(id)
          <6>1. new.visible = menus[id].visible
            <7>1. CASE m.visible BY <5>1, <7>1, <1>3
            <7>2. CASE ~m.visible
              <8>1. ~visible BY <3>3, <5>2, <7>2
              <8>2. ~menus[id].visible BY <1>1, <7>2 DEF MenusAreOfObjects
              <8> QED BY <1>3, <1>4, <8>1, <8>2 DEF MenuTypes
            <7> QED BY <7>1, <7>2
          <6> QED BY <1>2, <1>5, <6>1 DEF Up
        <5>3. CASE p # Home(id) BY <1>2, <1>5, <1>6, <5>3 DEF Up
        <5> QED BY <5>2, <5>3
      <4>2. disablersOf'[p] = disablersOf[p] BY <1>2, <1>4, <1>6, <3>3, PushPop
      <4> QED BY <1>2, <2>1, <4>1, <4>2 DEF Counted
    <3> QED BY <3>2, <3>3
  <2> QED BY <1>1, <1>2, <2>1, CountsKept
<1>10. MenusAreAllowed'
  <2>1. ASSUME NEW o \in Objects, menus'[<<"menu", o>>].there
        PROVE  menus'[<<"menu", o>>].items = Allowed(o, lockdown)'
    <3>1. Allowed(o, lockdown)' = Allowed(o, lockdown) BY <1>2 DEF Allowed
    <3>2. CASE id = <<"menu", o>> BY <1>3, <1>5, <3>1, <3>2
    <3>3. CASE id # <<"menu", o>>
      BY <1>1, <1>5, <2>1, <3>1, <3>3, MenuIdIs DEF MenusAreAllowed
    <3> QED BY <3>2, <3>3
  <2>2. ASSUME Locked \in lockdown', NEW x \in MenuIds, menus'[x].there
        PROVE  x[1] = "menu"
    BY <1>1, <1>2, <1>5, <2>2 DEF MenusAreAllowed
  <2> QED BY <2>1, <2>2 DEF MenusAreAllowed
<1> QED BY <1>7, <1>8, <1>9, <1>10 DEF MenusInv, MenusHoldThePanel

LEMMA PopUpInv ==
  ASSUME MenusAssumption, MenusInv, NEW grabbed \in BOOLEAN
  PROVE  /\ \A id \in MenuIds : PopUpMenu(id, grabbed) => MenusInv'
         /\ \A p \in Panels : PopUpPanelMenu(p, grabbed) => MenusInv'
<1>1. menus \in [MenuIds -> MenuTypes] /\ (~broken => MenusAreAllowed)
  BY DEF MenusInv, MenusTyped, MenusHoldThePanel
<1>2. ASSUME NEW id \in MenuIds, PopUpMenu(id, grabbed) PROVE MenusInv'
  <2> DEFINE new == IF id[1] = "menu" THEN ObjectMenu(id[2], lockdown) ELSE EditMenu(lockdown)
             m == IF menus[id].there THEN menus[id] ELSE new
  <2>1. ~broken /\ id[1] # "context" /\ panelOf[id[2]] # Nowhere
        /\ PoppedUp(id, m, ~m.realized, grabbed)
    BY <1>2 DEF PopUpMenu, Begins
  <2>2. id[2] \in Objects /\ (id[1] = "menu" => id = <<"menu", id[2]>>) BY <2>1, MenuIdIs
  <2>3. new \in MenuTypes /\ ~new.visible /\ (id[1] = "menu" => new.items = Allowed(id[2], lockdown))
        /\ (new.there /\ Locked \in lockdown => id[1] = "menu")
    BY <2>2, MadeMenus
  <2> HIDE DEF new
  <2>4. m \in MenuTypes /\ (~m.realized) \in BOOLEAN BY <1>1, <2>3
  <2>5. id[1] = "menu" => m.items = Allowed(id[2], lockdown)
    BY <1>1, <2>1, <2>2, <2>3 DEF MenusAreAllowed
  <2>6. m.there /\ Locked \in lockdown => id[1] = "menu"
    BY <1>1, <2>1, <2>3 DEF MenusAreAllowed
  <2>7. (menus[id].there => m = menus[id]) /\ (~menus[id].there => ~m.visible)
    BY <2>3
  <2> HIDE DEF m
  <2> QED BY <2>1, <2>4, <2>5, <2>6, <2>7, PoppedUpInv
<1>3. ASSUME NEW p \in Panels, PopUpPanelMenu(p, grabbed) PROVE MenusInv'
  <2> DEFINE id == <<"context", p>>
             m == IF menus[id].there THEN menus[id] ELSE PanelMenu(lockdown)
  <2>1. ~broken /\ PoppedUp(id, m, FALSE, grabbed) BY <1>3 DEF PopUpPanelMenu, Begins
  <2>2. id \in MenuIds /\ id[1] = "context" BY MenuIdIs
  <2> HIDE DEF id
  <2>3. m \in MenuTypes BY <1>1, <2>2, MadeMenus
  <2>4. m.there => Locked \notin lockdown
    BY <1>1, <2>1, <2>2, MadeMenus DEF MenusAreAllowed
  <2>5. (menus[id].there => m = menus[id]) /\ (~menus[id].there => ~m.visible)
    BY MadeMenus
  <2> HIDE DEF m
  <2> QED BY <2>1, <2>2, <2>3, <2>4, <2>5, PoppedUpInv
<1> QED BY <1>2, <1>3

-----------------------------------------------------------------------------
(* Dialogs, drags and the main menu. *)
LEMMA CountsAreNumbers ==
  ASSUME MenusAssumption, MenusTyped, NEW p \in Panels
  PROVE  /\ Cardinality(Up(menus, panelOf, p)) \in Nat /\ Cardinality(dialogs[p]) \in Nat
         /\ Dragged(drag, panelOf, p) \in {0, 1} /\ mainMenus[p] \in Nat
         /\ disablersOf[p] \in Nat /\ dialogs[p] \in SUBSET Dialogs
<1>1. dialogs[p] \in SUBSET Dialogs /\ mainMenus[p] \in Nat /\ disablersOf[p] \in Nat
  BY DEF MenusTyped
<1>2. Dragged(drag, panelOf, p) \in {0, 1} BY DEF Dragged
<1> QED BY <1>1, <1>2, UpFinite, DialogsFinite

\* What a step that leaves menus, objects and lockdown alone must keep.
LEMMA OthersInv ==
  ASSUME MenusAssumption, MenusInv, ~broken,
         UNCHANGED <<panelOf, lockdown, menus, crossed, broken>>,
         panels' \in Seq(Panels), panels' # <<>>,
         grab' \in {Nowhere, grab} \cup ({"main"} \X Panels),
         dialogs' \in [Panels -> SUBSET Dialogs],
         drag' \in Objects \cup {Nowhere}, drag' # Nowhere => panelOf[drag'] # Nowhere,
         disablersOf' \in [Panels -> Nat], mainMenus' \in [Panels -> Nat],
         \A p \in Panels :
           Counted(disablersOf, menus, panelOf, dialogs, drag, mainMenus, p) =>
             Counted(disablersOf', menus, panelOf, dialogs', drag', mainMenus', p)
  PROVE  MenusInv'
<1>1. /\ MenusTyped /\ MenusAreOfObjects /\ DisablersAreHolders /\ MenusAreAllowed
  BY DEF MenusInv, MenusHoldThePanel
<1>2. MenusTyped' BY <1>1 DEF MenusTyped
<1>3. MenusAreOfObjects'
  <2>1. grab' \in MenuIds => grab' = grab BY MenuIdIs DEF MenusAssumption
  <2>2. grab' \in MenuIds => menus'[grab'].visible BY <1>1, <2>1 DEF MenusAreOfObjects
  <2> QED BY <1>1, <2>2 DEF MenusAreOfObjects
<1>4. DisablersAreHolders' BY <1>1, CountsKept
<1>5. MenusAreAllowed'
  <2>1. \A o \in Objects : Allowed(o, lockdown)' = Allowed(o, lockdown) BY DEF Allowed
  <2> QED BY <1>1, <2>1 DEF MenusAreAllowed
<1> QED BY <1>2, <1>3, <1>4, <1>5 DEF MenusInv, MenusHoldThePanel

LEMMA PopUpMainMenuInv ==
  ASSUME MenusAssumption, MenusInv, NEW grabbed \in BOOLEAN, PopUpMainMenu(grabbed)
  PROVE  MenusInv'
<1> DEFINE h == Head(panels)
<1>1. MenusTyped BY DEF MenusInv
<1>2. h \in Panels BY <1>1 DEF MenusTyped
<1>3. /\ ~broken
      /\ disablersOf' = Push(disablersOf, h)
      /\ mainMenus' = [mainMenus EXCEPT ![h] = @ + 1]
      /\ grab' = IF grabbed THEN <<"main", h>> ELSE Nowhere
      /\ UNCHANGED <<panels, panelOf, lockdown, menus, dialogs, drag, crossed, broken>>
  BY DEF PopUpMainMenu, Begins
<1> HIDE DEF h
<1>4. grab' \in {Nowhere, grab} \cup ({"main"} \X Panels) BY <1>2, <1>3
<1>5. /\ disablersOf \in [Panels -> Nat] /\ mainMenus \in [Panels -> Nat]
  BY <1>1 DEF MenusTyped
<1>6. disablersOf' \in [Panels -> Nat] /\ mainMenus' \in [Panels -> Nat]
  BY <1>2, <1>3, <1>5, PushPop
<1>7. ASSUME NEW p \in Panels,
             Counted(disablersOf, menus, panelOf, dialogs, drag, mainMenus, p)
      PROVE  Counted(disablersOf', menus, panelOf, dialogs', drag', mainMenus', p)
  <2>1. disablersOf'[p] - disablersOf[p] = mainMenus'[p] - mainMenus[p]
    BY <1>2, <1>3, <1>5, PushPop
  <2>2. disablersOf'[p] \in Nat /\ mainMenus'[p] \in Nat BY <1>6
  <2> QED BY <1>1, <1>3, <1>7, <2>1, <2>2, CountsAreNumbers DEF Counted
<1>8. /\ panels' \in Seq(Panels) /\ panels' # <<>> /\ dialogs' \in [Panels -> SUBSET Dialogs]
      /\ drag' \in Objects \cup {Nowhere}
  BY <1>1, <1>3 DEF MenusTyped
<1>9. drag' # Nowhere => panelOf[drag'] # Nowhere
  BY <1>3 DEF MenusInv, MenusAreOfObjects
<1> QED BY <1>3, <1>4, <1>6, <1>7, <1>8, <1>9, OthersInv

LEMMA NewPanelInv ==
  ASSUME MenusAssumption, MenusInv, NEW p \in Panels, NewPanel(p)
  PROVE  MenusInv'
<1>1. /\ ~broken /\ panels' = Append(panels, p)
      /\ UNCHANGED <<panelOf, lockdown, menus, grab, dialogs, drag, disablersOf, mainMenus,
                     crossed, broken>>
  BY DEF NewPanel, Begins
<1>2. /\ panels \in Seq(Panels) /\ dialogs' \in [Panels -> SUBSET Dialogs]
      /\ drag' \in Objects \cup {Nowhere} /\ disablersOf' \in [Panels -> Nat]
      /\ mainMenus' \in [Panels -> Nat]
  BY <1>1 DEF MenusInv, MenusTyped
<1>3. panels' \in Seq(Panels) /\ panels' # <<>> BY <1>1, <1>2
<1>4. drag' # Nowhere => panelOf[drag'] # Nowhere
  BY <1>1 DEF MenusInv, MenusAreOfObjects
<1> QED BY <1>1, <1>2, <1>3, <1>4, OthersInv

LEMMA DialogsInv ==
  ASSUME MenusAssumption, MenusInv, NEW p \in Panels, NEW d \in Dialogs,
         Opened(p, d) \/ CloseDialog(p, d)
  PROVE  MenusInv'
<1>1. MenusTyped BY DEF MenusInv
<1>2. /\ ~broken
      /\ UNCHANGED <<panels, panelOf, lockdown, menus, grab, drag, mainMenus, crossed, broken>>
  BY DEF Opened, CloseDialog, Begins, Ends
<1>3. /\ disablersOf \in [Panels -> Nat] /\ dialogs \in [Panels -> SUBSET Dialogs]
      /\ panels' \in Seq(Panels) /\ panels' # <<>>
      /\ drag' \in Objects \cup {Nowhere} /\ mainMenus' \in [Panels -> Nat]
  BY <1>1, <1>2 DEF MenusTyped
<1>4. disablersOf' \in [Panels -> Nat] /\ dialogs' \in [Panels -> SUBSET Dialogs]
  <2>1. disablersOf' = Push(disablersOf, p) \/ disablersOf' = Pop(disablersOf, p)
    BY DEF Opened, CloseDialog
  <2>2. \/ dialogs' = [dialogs EXCEPT ![p] = @ \cup {d}]
        \/ dialogs' = [dialogs EXCEPT ![p] = @ \ {d}]
    BY DEF Opened, CloseDialog
  <2>a. Push(disablersOf, p) \in [Panels -> Nat] /\ Pop(disablersOf, p) \in [Panels -> Nat]
    BY <1>3, PushPop
  <2>3. disablersOf' \in [Panels -> Nat] BY <2>1, <2>a
  <2>4. dialogs' \in [Panels -> SUBSET Dialogs] BY <1>3, <2>2
  <2> QED BY <2>3, <2>4
<1>5. ASSUME NEW q \in Panels,
             Counted(disablersOf, menus, panelOf, dialogs, drag, mainMenus, q)
      PROVE  Counted(disablersOf', menus, panelOf, dialogs', drag', mainMenus', q)
  <2>1. CASE q # p
    <3>1. disablersOf' = Push(disablersOf, p) \/ disablersOf' = Pop(disablersOf, p)
      BY DEF Opened, CloseDialog
    <3>a. Push(disablersOf, p)[q] = disablersOf[q] /\ Pop(disablersOf, p)[q] = disablersOf[q]
      BY <1>3, <2>1, PushPop
    <3>2. disablersOf'[q] = disablersOf[q] BY <3>1, <3>a
    <3>3. dialogs'[q] = dialogs[q] BY <1>3, <2>1 DEF Opened, CloseDialog
    <3> QED BY <1>2, <1>5, <3>2, <3>3 DEF Counted
  <2>2. CASE q = p /\ Opened(p, d)
    <3>1. disablersOf'[p] = disablersOf[p] + 1 BY <1>3, <2>2, PushPop DEF Opened
    <3>2. dialogs'[p] = dialogs[p] \cup {d} /\ d \notin dialogs[p] BY <1>3, <2>2 DEF Opened
    <3>3. Cardinality(dialogs'[p]) = Cardinality(dialogs[p]) + 1
      BY <1>3, <3>2, DialogCounts
    <3> QED BY <1>1, <1>2, <1>5, <2>2, <3>1, <3>3, CountsAreNumbers DEF Counted
  <2>3. CASE q = p /\ CloseDialog(p, d)
    <3>1. dialogs'[p] = dialogs[p] \ {d} /\ d \in dialogs[p] BY <1>3, <2>3 DEF CloseDialog
    <3>2. Cardinality(dialogs'[p]) = Cardinality(dialogs[p]) - 1 /\ Cardinality(dialogs[p]) >= 1
      BY <1>3, <3>1, DialogCounts
    <3>3. disablersOf[p] > 0 BY <1>1, <1>5, <2>3, <3>2, CountsAreNumbers DEF Counted
    <3>4. disablersOf'[p] = disablersOf[p] - 1 BY <1>3, <2>3, <3>3, PushPop DEF CloseDialog
    <3> QED BY <1>1, <1>2, <1>5, <2>3, <3>2, <3>4, CountsAreNumbers DEF Counted
  <2> QED BY <2>1, <2>2, <2>3
<1>6. drag' # Nowhere => panelOf[drag'] # Nowhere
  BY <1>2 DEF MenusInv, MenusAreOfObjects
<1> QED BY <1>2, <1>3, <1>4, <1>5, <1>6, OthersInv

LEMMA DragsInv ==
  ASSUME MenusAssumption, MenusInv, (\E o \in Objects : BeginDrag(o)) \/ EndDrag
  PROVE  MenusInv'
<1>1. MenusTyped BY DEF MenusInv
<1>2. /\ ~broken
      /\ UNCHANGED <<panels, panelOf, lockdown, menus, grab, dialogs, mainMenus, crossed, broken>>
  BY DEF BeginDrag, EndDrag, Begins, Ends
<1>3. /\ disablersOf \in [Panels -> Nat] /\ dialogs' \in [Panels -> SUBSET Dialogs]
      /\ panels' \in Seq(Panels) /\ panels' # <<>> /\ mainMenus' \in [Panels -> Nat]
      /\ panelOf \in [Objects -> Panels \cup {Nowhere}]
  BY <1>1, <1>2 DEF MenusTyped
<1>4. ASSUME NEW o \in Objects, BeginDrag(o) PROVE MenusInv'
  <2>1. /\ drag = Nowhere /\ drag' = o /\ panelOf[o] \in Panels /\ o # Nowhere
        /\ disablersOf' = Push(disablersOf, panelOf[o])
    BY <1>3, <1>4 DEF BeginDrag, MenusAssumption
  <2>2. disablersOf' \in [Panels -> Nat] BY <1>3, <2>1, PushPop
  <2>3. ASSUME NEW q \in Panels,
               Counted(disablersOf, menus, panelOf, dialogs, drag, mainMenus, q)
        PROVE  Counted(disablersOf', menus, panelOf, dialogs', drag', mainMenus', q)
    <3>1. disablersOf'[q] - disablersOf[q] = Dragged(drag', panelOf, q) - Dragged(drag, panelOf, q)
      <4>1. Dragged(drag, panelOf, q) = 0 BY <2>1 DEF Dragged
      <4>2. disablersOf[q] \in Nat BY <1>3
      <4>3. CASE q = panelOf[o]
        <5>1. Dragged(drag', panelOf, q) = 1 BY <2>1, <4>3 DEF Dragged
        <5>2. disablersOf'[q] = disablersOf[q] + 1 BY <1>3, <2>1, <4>3, PushPop
        <5> QED BY <4>1, <4>2, <5>1, <5>2
      <4>4. CASE q # panelOf[o]
        <5>1. Dragged(drag', panelOf, q) = 0 BY <2>1, <4>4 DEF Dragged
        <5>2. q \in Panels \ {panelOf[o]} BY <4>4
        <5>3. disablersOf'[q] = disablersOf[q] BY <1>3, <2>1, <5>2, PushPop
        <5> QED BY <4>1, <4>2, <5>1, <5>3
      <4> QED BY <4>3, <4>4
    <3>2. Dragged(drag', panelOf, q) \in {0, 1} /\ disablersOf'[q] \in Nat BY <2>2 DEF Dragged
    <3> QED BY <1>1, <1>2, <2>3, <3>1, <3>2, CountsAreNumbers DEF Counted
  <2>4. drag' \in Objects \cup {Nowhere} /\ panelOf[drag'] # Nowhere
    BY <2>1 DEF MenusAssumption
  <2> QED BY <1>2, <1>3, <2>2, <2>3, <2>4, OthersInv
<1>5. ASSUME EndDrag PROVE MenusInv'
  <2>1. /\ drag # Nowhere /\ drag' = Nowhere
        /\ disablersOf' = Pop(disablersOf, panelOf[drag])
    BY <1>5 DEF EndDrag
  <2>2. panelOf[drag] \in Panels
    BY <1>1, <1>2, <1>3, <2>1 DEF MenusInv, MenusTyped, MenusAreOfObjects
  <2>3. disablersOf' \in [Panels -> Nat] BY <1>3, <2>1, <2>2, PushPop
  <2>4. ASSUME NEW q \in Panels,
               Counted(disablersOf, menus, panelOf, dialogs, drag, mainMenus, q)
        PROVE  Counted(disablersOf', menus, panelOf, dialogs', drag', mainMenus', q)
    <3>1. Dragged(drag', panelOf, q) = 0 BY <2>1 DEF Dragged
    <3>2. CASE q = panelOf[drag]
      <4>1. Dragged(drag, panelOf, q) = 1 BY <2>1, <3>2 DEF Dragged
      <4>2. disablersOf[q] > 0 BY <1>1, <2>4, <4>1, CountsAreNumbers DEF Counted
      <4>3. disablersOf'[q] = disablersOf[q] - 1 BY <1>3, <2>1, <3>2, <4>2, PushPop
      <4> QED BY <1>1, <1>2, <2>4, <3>1, <4>1, <4>3, CountsAreNumbers DEF Counted
    <3>3. CASE q # panelOf[drag]
      <4>1. Dragged(drag, panelOf, q) = 0 BY <3>3 DEF Dragged
      <4>2. q \in Panels \ {panelOf[drag]} BY <3>3
      <4>3. disablersOf'[q] = disablersOf[q] BY <1>3, <2>1, <2>2, <4>2, PushPop
      <4> QED BY <1>2, <2>4, <3>1, <4>1, <4>3 DEF Counted
    <3> QED BY <3>2, <3>3
  <2> QED BY <1>2, <1>3, <2>1, <2>3, <2>4, OthersInv
<1> QED BY <1>4, <1>5

\* The drag goes on to another panel: the disabler goes with it.
LEMMA DragAcrossInv ==
  ASSUME MenusAssumption, MenusInv, NEW p \in Panels, DragAcross(p)
  PROVE  MenusInv'
<1>1. /\ MenusTyped /\ MenusAreOfObjects /\ DisablersAreHolders /\ MenusAreAllowed
  BY DEF MenusInv, MenusHoldThePanel, DragAcross, Ends
<1>2. /\ ~broken /\ drag # Nowhere /\ p # panelOf[drag]
      /\ panelOf' = [panelOf EXCEPT ![drag] = p]
      /\ disablersOf' = Push(Pop(disablersOf, panelOf[drag]), p)
      /\ crossed' = (crossed \/ Visible(MenusOf(drag)) # {})
      /\ UNCHANGED <<panels, lockdown, menus, grab, dialogs, drag, mainMenus, broken>>
  BY DEF DragAcross, Ends
<1> DEFINE from == panelOf[drag]
           popped == Pop(disablersOf, from)
<1>3. /\ panelOf \in [Objects -> Panels \cup {Nowhere}] /\ disablersOf \in [Panels -> Nat]
      /\ drag \in Objects
  BY <1>1, <1>2 DEF MenusTyped
<1>4. from \in Panels BY <1>1, <1>2, <1>3 DEF MenusAreOfObjects
<1>5. /\ panelOf'[drag] = p /\ \A o \in Objects \ {drag} : panelOf'[o] = panelOf[o]
      /\ panelOf' \in [Objects -> Panels \cup {Nowhere}]
  BY <1>2, <1>3
<1>6. popped \in [Panels -> Nat] BY <1>3, <1>4, PushPop
<1>7. disablersOf' \in [Panels -> Nat] /\ disablersOf'[p] = popped[p] + 1
      /\ \A q \in Panels \ {p} : disablersOf'[q] = popped[q]
  <2> HIDE DEF popped
  <2>1. disablersOf' = Push(popped, p) BY <1>2 DEF popped
  <2> QED BY <1>6, <2>1, PushPop
<1>8. \A q \in Panels \ {from} : popped[q] = disablersOf[q] BY <1>3, <1>4, PushPop
<1>9. disablersOf[from] > 0 => popped[from] = disablersOf[from] - 1 BY <1>3, <1>4, PushPop
<1> HIDE DEF popped, from
<1>10. MenusTyped'
  BY <1>1, <1>2, <1>5, <1>7 DEF MenusTyped
<1>11. MenusAreOfObjects'
  <2>1. Nowhere # p BY DEF MenusAssumption
  <2>2. ASSUME NEW id \in MenuIds, menus'[id].there
        PROVE  id[1] = "context" \/ panelOf'[id[2]] # Nowhere
    BY <1>1, <1>2, <1>5, <2>1, <2>2, MenuIdIs DEF MenusAreOfObjects
  <2>3. drag' # Nowhere => panelOf'[drag'] # Nowhere BY <1>2, <1>5, <2>1
  <2> QED BY <1>1, <1>2, <2>2, <2>3 DEF MenusAreOfObjects
<1>12. ASSUME ~crossed', NEW q \in Panels,
              Counted(disablersOf, menus, panelOf, dialogs, drag, mainMenus, q)
       PROVE  Counted(disablersOf', menus', panelOf', dialogs', drag', mainMenus', q)
  <2>1. \A id \in MenusOf(drag) : ~menus[id].visible
    BY <1>2, <1>3, <1>12, MenuIdIs DEF Visible
  <2>2. ASSUME NEW id \in MenuIds, menus[id].visible, id[1] # "context"
        PROVE  panelOf'[id[2]] = panelOf[id[2]]
    <3>1. id \notin MenusOf(drag) BY <2>1, <2>2
    <3>2. id[2] \in Objects /\ id[2] # drag BY <2>2, <3>1, MenuIdIs DEF MenusOf
    <3> QED BY <1>5, <3>2
  <2>3. Up(menus', panelOf', q) = Up(menus, panelOf, q) BY <1>2, <2>2 DEF Up
  <2>4. Dragged(drag', panelOf', q) = IF q = p THEN 1 ELSE 0 BY <1>2, <1>5 DEF Dragged
  <2>5. Dragged(drag, panelOf, q) = IF q = from THEN 1 ELSE 0 BY <1>2 DEF Dragged, from
  <2>6. p # from BY <1>2 DEF from
  <2>7. disablersOf'[q] = disablersOf[q] + Dragged(drag', panelOf', q) - Dragged(drag, panelOf, q)
    <3>1. disablersOf[q] \in Nat BY <1>3
    <3>2. CASE q = p
      <4>1. popped[q] = disablersOf[q] BY <1>8, <2>6, <3>2
      <4> QED BY <1>7, <2>4, <2>5, <2>6, <3>1, <3>2, <4>1
    <3>3. CASE q = from
      <4>1. disablersOf[q] > 0 BY <1>1, <1>12, <2>5, <3>3, CountsAreNumbers DEF Counted
      <4>2. popped[q] = disablersOf[q] - 1 BY <1>9, <3>3, <4>1
      <4>3. disablersOf'[q] = popped[q] BY <1>7, <2>6, <3>3
      <4> QED BY <2>4, <2>5, <2>6, <3>1, <3>3, <4>2, <4>3
    <3>4. CASE q # p /\ q # from
      <4>1. disablersOf'[q] = disablersOf[q] BY <1>7, <1>8, <3>4
      <4> QED BY <2>4, <2>5, <3>1, <3>4, <4>1
    <3> QED BY <3>2, <3>3, <3>4
  <2>8. Dragged(drag', panelOf', q) \in {0, 1} BY <2>4
  <2> QED BY <1>1, <1>2, <1>12, <2>3, <2>7, <2>8, CountsAreNumbers DEF Counted
<1>13. DisablersAreHolders' BY <1>1, <1>2, <1>12, CountsKept
<1>14. MenusAreAllowed'
  <2>1. \A o \in Objects : Allowed(o, lockdown)' = Allowed(o, lockdown) BY <1>2 DEF Allowed
  <2> QED BY <1>1, <1>2, <2>1 DEF MenusAreAllowed
<1> QED BY <1>10, <1>11, <1>13, <1>14 DEF MenusInv, MenusHoldThePanel

-----------------------------------------------------------------------------
(* Menus that go down. *)
LEMMA DownCounts ==
  ASSUME MenusAssumption, MenusInv, ~broken, NEW ids,
         disablersOf' = Popped(ids),
         \A id \in MenuIds : menus'[id].visible <=> menus[id].visible /\ id \notin ids,
         UNCHANGED <<panelOf, dialogs, drag, mainMenus, crossed>>
  PROVE  DisablersAreHolders' /\ disablersOf' \in [Panels -> Nat]
<1>1. MenusTyped /\ DisablersAreHolders BY DEF MenusInv, MenusHoldThePanel
<1>2. ASSUME NEW p \in Panels,
             Counted(disablersOf, menus, panelOf, dialogs, drag, mainMenus, p)
      PROVE  Counted(disablersOf', menus', panelOf', dialogs', drag', mainMenus', p)
  <2> DEFINE x == Cardinality(dialogs[p]) + Dragged(drag, panelOf, p) + mainMenus[p]
  <2>1. x \in Nat BY <1>1, CountsAreNumbers
  <2>2. disablersOf[p] = Cardinality(Up(menus, panelOf, p)) + x
    BY <1>1, <1>2, CountsAreNumbers DEF Counted
  <2>3. disablersOf'[p] = Cardinality(Up(menus, panelOf, p) \ ids) + x
    <3> HIDE DEF x
    <3> QED BY <1>1, <2>1, <2>2, PoppedCounts
  <2>4. Up(menus', panelOf', p) = Up(menus, panelOf, p) \ ids BY DEF Up
  <2>5. Cardinality(Up(menus', panelOf', p)) \in Nat BY UpFinite
  <2> QED BY <1>1, <2>3, <2>4, <2>5, CountsAreNumbers DEF Counted
<1>3. disablersOf' \in [Panels -> Nat]
  <2>1. PICK p \in Panels : TRUE BY DEF MenusAssumption
  <2> QED BY <1>1, <2>1, PoppedCounts
<1> QED BY <1>1, <1>2, <1>3, CountsKept

LEMMA DeactivateInv ==
  ASSUME MenusAssumption, MenusInv, Deactivate PROVE MenusInv'
<1>1. /\ ~broken /\ MenusTyped /\ MenusAreOfObjects /\ MenusAreAllowed
  BY DEF MenusInv, MenusHoldThePanel, Deactivate, Ends
<1>2. /\ grab' = Nowhere /\ disablersOf' = Popped({grab})
      /\ menus' = [id \in MenuIds |->
                     IF id = grab THEN [menus[id] EXCEPT !.visible = FALSE] ELSE menus[id]]
      /\ UNCHANGED <<panels, panelOf, lockdown, dialogs, drag, mainMenus, crossed, broken>>
  BY DEF Deactivate
<1>3. ASSUME NEW id \in MenuIds
      PROVE  /\ menus'[id] \in MenuTypes
             /\ menus'[id].there = menus[id].there /\ menus'[id].items = menus[id].items
             /\ menus'[id].visible <=> menus[id].visible /\ id # grab
  <2>1. menus[id] \in MenuTypes BY <1>1 DEF MenusTyped
  <2>2. menus'[id] = IF id = grab THEN [menus[id] EXCEPT !.visible = FALSE] ELSE menus[id]
    BY <1>2
  <2> QED BY <2>1, <2>2 DEF MenuTypes
<1>4. DisablersAreHolders' /\ disablersOf' \in [Panels -> Nat]
  <2>1. \A id \in MenuIds : menus'[id].visible <=> menus[id].visible /\ id \notin {grab} BY <1>3
  <2> QED BY <1>1, <1>2, <2>1, DownCounts
<1>5. MenusTyped'
  <2>1. menus' \in [MenuIds -> MenuTypes] BY <1>2, <1>3
  <2> QED BY <1>1, <1>2, <1>4, <2>1 DEF MenusTyped
<1>6. MenusAreOfObjects' BY <1>1, <1>2, <1>3 DEF MenusAreOfObjects, MenusAssumption
<1>7. MenusAreAllowed'
  <2>1. \A o \in Objects : Allowed(o, lockdown)' = Allowed(o, lockdown) BY <1>2 DEF Allowed
  <2>2. \A o \in Objects : <<"menu", o>> \in MenuIds BY MenuIdIs
  <2>3. \A o \in Objects : menus'[<<"menu", o>>].there =>
          menus'[<<"menu", o>>].items = Allowed(o, lockdown)'
    BY <1>1, <1>3, <2>1, <2>2 DEF MenusAreAllowed
  <2>4. Locked \in lockdown' => \A id \in MenuIds : menus'[id].there => id[1] = "menu"
    BY <1>1, <1>2, <1>3 DEF MenusAreAllowed
  <2> QED BY <2>3, <2>4 DEF MenusAreAllowed
<1> QED BY <1>4, <1>5, <1>6, <1>7 DEF MenusInv, MenusHoldThePanel

LEMMA ChangeLockdownInv ==
  ASSUME MenusAssumption, MenusInv, NEW k \in LockdownKeys, ChangeLockdown(k)
  PROVE  MenusInv'
<1> DEFINE lock == SymDiff(lockdown, {k})
           locks == k = Locked /\ k \in lock
           hit == Notified(locks)
<1>1. /\ ~broken /\ MenusTyped /\ MenusAreOfObjects /\ MenusAreAllowed
  BY DEF MenusInv, MenusHoldThePanel, ChangeLockdown, Begins
<1>2. /\ lockdown' = lock
      /\ menus' = [id \in MenuIds |-> IF id \in hit THEN Rebuilt(id, lock) ELSE menus[id]]
      /\ disablersOf' = Popped(hit)
      /\ grab' = IF grab \in hit THEN Nowhere ELSE grab
      /\ UNCHANGED <<panels, panelOf, dialogs, drag, mainMenus, crossed>>
  BY DEF ChangeLockdown, TakenDown
<1>3. /\ lock \subseteq LockdownKeys
      /\ \A x \in LockdownKeys : x # k => (x \in lock <=> x \in lockdown)
  BY <1>1 DEF MenusTyped, SymDiff
<1>4. \A id \in MenuIds : id \in hit <=> menus[id].there /\ (id[1] # "edit" \/ locks)
  BY DEF Notified
<1> HIDE DEF lock, hit
<1>5. ASSUME NEW id \in hit \cap MenuIds
      PROVE  /\ menus'[id] \in MenuTypes /\ ~menus'[id].visible
             /\ id[1] = "menu" => menus'[id].items = Allowed(id[2], lock)
             /\ id[1] # "menu" => ~menus'[id].there
  <2>1. menus'[id] = Rebuilt(id, lock) BY <1>2
  <2>2. CASE id[1] = "menu"
    <3>1. id[2] \in Objects BY <2>2, MenuIdIs
    <3>2. menus'[id] = ObjectMenu(id[2], lock) BY <2>1, <2>2 DEF Rebuilt
    <3> QED BY <2>2, <3>1, <3>2, MadeMenus
  <2>3. CASE id[1] # "menu"
    <3>1. menus'[id] = NoMenu BY <2>1, <2>3 DEF Rebuilt
    <3> QED BY <2>3, <3>1, MadeMenus
  <2> QED BY <2>2, <2>3
<1>6. \A id \in MenuIds \ hit : menus'[id] = menus[id] BY <1>2
<1>7. DisablersAreHolders' /\ disablersOf' \in [Panels -> Nat]
  <2>1. \A id \in MenuIds : menus'[id].visible <=> menus[id].visible /\ id \notin hit
    BY <1>5, <1>6
  <2> QED BY <1>1, <1>2, <2>1, DownCounts
<1>8. MenusTyped'
  <2>1. ASSUME NEW id \in MenuIds PROVE menus'[id] \in MenuTypes
    BY <1>1, <1>5, <1>6 DEF MenusTyped
  <2>2. menus' \in [MenuIds -> MenuTypes] BY <1>2, <2>1
  <2> QED BY <1>1, <1>2, <1>3, <1>7, <2>2 DEF MenusTyped
<1>9. MenusAreOfObjects'
  <2>1. ASSUME NEW id \in MenuIds
        PROVE  /\ menus'[id].visible => menus'[id].there
               /\ menus'[id].there => menus[id].there
    BY <1>1, <1>4, <1>5, <1>6 DEF MenusAreOfObjects
  <2>2. grab' \in MenuIds => menus'[grab'].visible
    BY <1>1, <1>2, <1>6 DEF MenusAreOfObjects, MenusAssumption
  <2> QED BY <1>1, <1>2, <2>1, <2>2 DEF MenusAreOfObjects
<1>10. MenusAreAllowed'
  <2>1. ASSUME NEW o \in Objects, menus'[<<"menu", o>>].there
        PROVE  menus'[<<"menu", o>>].items = Allowed(o, lockdown)'
    <3> DEFINE id == <<"menu", o>>
    <3>1. id \in MenuIds /\ id[1] = "menu" /\ id[2] = o BY MenuIdIs
    <3> HIDE DEF id
    <3>2. id \in hit BY <1>4, <1>6, <2>1, <3>1 DEF id
    <3>3. menus'[id].items = Allowed(o, lock) BY <1>5, <3>1, <3>2
    <3>4. Allowed(o, lockdown)' = Allowed(o, lock) BY <1>2 DEF Allowed
    <3> QED BY <3>3, <3>4 DEF id
  <2>2. ASSUME Locked \in lock, NEW id \in MenuIds, menus'[id].there, id[1] # "menu"
        PROVE  FALSE
    <3>1. id \notin hit /\ menus[id].there BY <1>5, <1>6, <2>2
    <3>2. id[1] = "edit" /\ ~locks BY <1>4, <3>1
    <3>3. k # Locked BY <2>2, <3>2
    <3>4. Locked \in lockdown BY <1>3, <2>2, <3>3 DEF LockdownKeys
    <3> QED BY <1>1, <2>2, <3>1, <3>4 DEF MenusAreAllowed
  <2> QED BY <1>2, <2>1, <2>2 DEF MenusAreAllowed
<1> QED BY <1>7, <1>8, <1>9, <1>10 DEF MenusInv, MenusHoldThePanel

-----------------------------------------------------------------------------
(* Objects and panels that come and go. *)
LEMMA RegisterAppletInv ==
  ASSUME MenusAssumption, MenusInv, NEW o \in Objects, NEW p \in Panels, RegisterApplet(o, p)
  PROVE  MenusInv'
<1> DEFINE made == <<"menu", o>>
<1>1. /\ ~broken /\ MenusTyped /\ MenusAreOfObjects /\ DisablersAreHolders /\ MenusAreAllowed
  BY DEF MenusInv, MenusHoldThePanel, RegisterApplet, Begins
<1>2. /\ panelOf[o] = Nowhere
      /\ panelOf' = [panelOf EXCEPT ![o] = p]
      /\ menus' = [menus EXCEPT ![made] = ObjectMenu(o, lockdown)]
      /\ UNCHANGED <<panels, lockdown, grab, dialogs, drag, disablersOf, mainMenus, crossed, broken>>
  BY DEF RegisterApplet
<1>3. made \in MenuIds /\ made[1] = "menu" /\ made[2] = o BY MenuIdIs
<1> HIDE DEF made
<1>4. /\ menus \in [MenuIds -> MenuTypes] /\ panelOf \in [Objects -> Panels \cup {Nowhere}]
  BY <1>1 DEF MenusTyped
<1>5. /\ menus'[made] = ObjectMenu(o, lockdown)
      /\ \A id \in MenuIds \ {made} : menus'[id] = menus[id]
      /\ menus' \in [MenuIds -> MenuTypes]
  BY <1>2, <1>3, <1>4, MadeMenus
<1>5a. ~menus'[made].visible BY <1>5, MadeMenus
<1>6. /\ panelOf'[o] = p /\ p # Nowhere /\ \A x \in Objects \ {o} : panelOf'[x] = panelOf[x]
      /\ panelOf' \in [Objects -> Panels \cup {Nowhere}]
  BY <1>2, <1>4 DEF MenusAssumption
<1>7. ASSUME NEW id \in MenuIds, id[1] # "context", id[2] = o
      PROVE  ~menus[id].there /\ ~menus[id].visible
  BY <1>1, <1>2, <1>7 DEF MenusAreOfObjects
<1>8. MenusTyped' BY <1>1, <1>2, <1>5, <1>6 DEF MenusTyped
<1>9. MenusAreOfObjects'
  <2>1. ASSUME NEW id \in MenuIds
        PROVE  /\ menus'[id].visible => menus'[id].there
               /\ menus'[id].there => id[1] = "context" \/ panelOf'[id[2]] # Nowhere
    <3>1. CASE id = made BY <1>3, <1>5a, <1>6, <3>1
    <3>2. CASE id # made
      BY <1>1, <1>5, <1>6, <3>2, MenuIdIs DEF MenusAreOfObjects
    <3> QED BY <3>1, <3>2
  <2>2. grab' \in MenuIds => menus'[grab'].visible
    BY <1>1, <1>2, <1>3, <1>5, <1>7 DEF MenusAreOfObjects
  <2>3. drag' # Nowhere => panelOf'[drag'] # Nowhere
    BY <1>1, <1>2, <1>6 DEF MenusAreOfObjects, MenusTyped
  <2> QED BY <2>1, <2>2, <2>3 DEF MenusAreOfObjects
<1>10. DisablersAreHolders'
  <2>1. ASSUME NEW q \in Panels PROVE Up(menus', panelOf', q) = Up(menus, panelOf, q)
    <3>1. ASSUME NEW id \in MenuIds
          PROVE  /\ menus'[id].visible <=> menus[id].visible
                 /\ menus[id].visible /\ id[1] # "context" => panelOf'[id[2]] = panelOf[id[2]]
      <4>1. CASE id = made BY <1>3, <1>5a, <1>7, <4>1
      <4>2. CASE id # made BY <1>5, <1>6, <1>7, <4>2, MenuIdIs
      <4> QED BY <4>1, <4>2
    <3> QED BY <3>1 DEF Up
  <2>2. ASSUME NEW q \in Panels PROVE Dragged(drag', panelOf', q) = Dragged(drag, panelOf, q)
    <3>1. drag # Nowhere => panelOf'[drag] = panelOf[drag]
      BY <1>1, <1>2, <1>6 DEF MenusAreOfObjects, MenusTyped
    <3> QED BY <1>2, <3>1 DEF Dragged
  <2>3. ASSUME NEW q \in Panels,
               Counted(disablersOf, menus, panelOf, dialogs, drag, mainMenus, q)
        PROVE  Counted(disablersOf', menus', panelOf', dialogs', drag', mainMenus', q)
    BY <1>2, <2>1, <2>2, <2>3 DEF Counted
  <2> QED BY <1>1, <1>2, <2>3, CountsKept
<1>11. MenusAreAllowed'
  <2>1. ASSUME NEW x \in Objects, menus'[<<"menu", x>>].there
        PROVE  menus'[<<"menu", x>>].items = Allowed(x, lockdown)'
    <3>1. Allowed(x, lockdown)' = Allowed(x, lockdown) BY <1>2 DEF Allowed
    <3>2. CASE x = o BY <1>5, <3>1, <3>2, MadeMenus DEF made
    <3>3. CASE x # o
      <4>1. <<"menu", x>> \in MenuIds \ {made} BY <3>3, MenuIdIs DEF made
      <4> QED BY <1>1, <1>5, <2>1, <3>1, <4>1 DEF MenusAreAllowed
    <3> QED BY <3>2, <3>3
  <2>2. ASSUME Locked \in lockdown', NEW id \in MenuIds, menus'[id].there
        PROVE  id[1] = "menu"
    BY <1>1, <1>2, <1>3, <1>5, <2>2 DEF MenusAreAllowed
  <2> QED BY <2>1, <2>2 DEF MenusAreAllowed
<1> QED BY <1>8, <1>9, <1>10, <1>11 DEF MenusInv, MenusHoldThePanel

\* What goes with the objects os, and with a panel: menus that are not up are
\* destroyed, and nothing else that holds a panel is touched.
LEMMA GoneInv ==
  ASSUME MenusAssumption, MenusInv, ~broken, NEW os \in SUBSET Objects, NEW ids,
         Gone(os),
         \A o \in os : MenusOf(o) \subseteq ids,
         menus' = [id \in MenuIds |-> IF id \in ids THEN NoMenu ELSE menus[id]],
         panels' \in Seq(Panels), panels' # <<>>,
         grab' \in {Nowhere, grab}, grab \in ids => grab' = Nowhere \/ broken',
         dialogs' \in [Panels -> SUBSET Dialogs],
         disablersOf' \in [Panels -> Nat], mainMenus' \in [Panels -> Nat],
         UNCHANGED <<lockdown, crossed>>,
         ~broken' => DisablersAreHolders'
  PROVE  MenusInv'
<1>1. /\ MenusTyped /\ MenusAreOfObjects /\ MenusAreAllowed
  BY DEF MenusInv, MenusHoldThePanel
<1>2. /\ panelOf' = [o \in Objects |-> IF o \in os THEN Nowhere ELSE panelOf[o]]
      /\ drag' = IF drag \in os THEN Nowhere ELSE drag
  BY DEF Gone
<1>3. /\ menus \in [MenuIds -> MenuTypes] /\ panelOf \in [Objects -> Panels \cup {Nowhere}]
      /\ drag \in Objects \cup {Nowhere}
  BY <1>1 DEF MenusTyped
<1>4. ASSUME NEW id \in MenuIds
      PROVE  /\ menus'[id] \in MenuTypes
             /\ id \in ids => ~menus'[id].there /\ ~menus'[id].visible
             /\ id \notin ids => menus'[id] = menus[id]
  BY <1>3, MadeMenus
<1>5. MenusTyped'
  <2>1. menus' \in [MenuIds -> MenuTypes] BY <1>4
  <2>2. panelOf' \in [Objects -> Panels \cup {Nowhere}] BY <1>2, <1>3
  <2>3. drag' \in Objects \cup {Nowhere} BY <1>2, <1>3
  <2>4. grab' \in MenuIds \cup ({"main"} \X Panels) \cup {Nowhere} BY <1>1 DEF MenusTyped
  <2> QED BY <1>1, <2>1, <2>2, <2>3, <2>4 DEF MenusTyped
<1>6. ASSUME ~broken' PROVE MenusAreOfObjects'
  <2>1. ASSUME NEW id \in MenuIds
        PROVE  /\ menus'[id].visible => menus'[id].there
               /\ menus'[id].there => id[1] = "context" \/ panelOf'[id[2]] # Nowhere
    <3>1. CASE id \in ids BY <1>4, <3>1
    <3>2. CASE id \notin ids
      <4>1. menus'[id] = menus[id] BY <1>4, <3>2
      <4>2. id[1] # "context" => id[2] \in Objects \ os
        BY <3>2, MenuIdIs DEF MenusOf
      <4>3. id[1] # "context" => panelOf'[id[2]] = panelOf[id[2]] BY <1>2, <4>2
      <4> QED BY <1>1, <4>1, <4>3 DEF MenusAreOfObjects
    <3> QED BY <3>1, <3>2
  <2>2. grab' \in MenuIds => menus'[grab'].visible
    BY <1>1, <1>4, <1>6 DEF MenusAreOfObjects, MenusAssumption
  <2>3. drag' # Nowhere => panelOf'[drag'] # Nowhere
    BY <1>1, <1>2, <1>3 DEF MenusAreOfObjects
  <2> QED BY <2>1, <2>2, <2>3 DEF MenusAreOfObjects
<1>7. MenusAreAllowed'
  <2>1. \A o \in Objects : Allowed(o, lockdown)' = Allowed(o, lockdown) BY DEF Allowed
  <2>2. ASSUME NEW o \in Objects, menus'[<<"menu", o>>].there
        PROVE  menus'[<<"menu", o>>].items = Allowed(o, lockdown)'
    <3>1. <<"menu", o>> \in MenuIds BY MenuIdIs
    <3>2. menus'[<<"menu", o>>] = menus[<<"menu", o>>] BY <1>4, <2>2, <3>1
    <3> QED BY <1>1, <2>1, <2>2, <3>2 DEF MenusAreAllowed
  <2>3. ASSUME Locked \in lockdown', NEW id \in MenuIds, menus'[id].there
        PROVE  id[1] = "menu"
    BY <1>1, <1>4, <2>3 DEF MenusAreAllowed
  <2> QED BY <2>2, <2>3 DEF MenusAreAllowed
<1> QED BY <1>5, <1>6, <1>7 DEF MenusInv, MenusHoldThePanel

LEMMA DestroyAppletInv ==
  ASSUME MenusAssumption, MenusInv, NEW o \in Objects, DestroyApplet(o) PROVE MenusInv'
<1> DEFINE ids == MenusOf(o)
<1>1. /\ ~broken /\ MenusTyped /\ MenusAreOfObjects /\ DisablersAreHolders
  BY DEF MenusInv, MenusHoldThePanel, DestroyApplet, Begins
<1>2. /\ panelOf[o] # Nowhere /\ Gone({o})
      /\ menus' = [id \in MenuIds |-> IF id \in ids THEN NoMenu ELSE menus[id]]
      /\ disablersOf' = IF drag = o THEN Pop(disablersOf, panelOf[o]) ELSE disablersOf
      /\ UNCHANGED <<panels, lockdown, grab, dialogs, mainMenus, crossed>>
  BY DEF DestroyApplet
<1>3. /\ panelOf' = [x \in Objects |-> IF x \in {o} THEN Nowhere ELSE panelOf[x]]
      /\ drag' = IF drag = o THEN Nowhere ELSE drag
      /\ broken' = (Visible(UNION {MenusOf(x) : x \in {o}}) # {})
  BY <1>2 DEF Gone
<1>4. broken' = (Visible(ids) # {})
  <2>1. UNION {MenusOf(x) : x \in {o}} = ids OBVIOUS
  <2> QED BY <1>3, <2>1
<1>5. ids \subseteq MenuIds BY MenuIdIs
<1>6. ~broken' => \A id \in ids : ~menus[id].visible BY <1>4, <1>5 DEF Visible
<1>7. /\ disablersOf \in [Panels -> Nat] /\ panelOf \in [Objects -> Panels \cup {Nowhere}]
      /\ drag \in Objects \cup {Nowhere} /\ panelOf[o] \in Panels /\ o # Nowhere
  BY <1>1, <1>2 DEF MenusTyped, MenusAssumption
<1>8. grab \in ids => broken' BY <1>1, <1>5, <1>6 DEF MenusAreOfObjects
<1>9. disablersOf' \in [Panels -> Nat] BY <1>2, <1>7, PushPop
<1>10. ASSUME ~broken' PROVE DisablersAreHolders'
  <2>1. ASSUME NEW q \in Panels PROVE Up(menus', panelOf', q) = Up(menus, panelOf, q)
    <3>1. ASSUME NEW id \in MenuIds
          PROVE  /\ menus'[id].visible <=> menus[id].visible
                 /\ menus[id].visible /\ id[1] # "context" => panelOf'[id[2]] = panelOf[id[2]]
      <4>1. CASE id \in ids
        <5>1. menus'[id] = NoMenu /\ ~menus[id].visible BY <1>2, <1>6, <1>10, <4>1
        <5>2. ~NoMenu.visible BY MadeMenus
        <5> QED BY <5>1, <5>2
      <4>2. CASE id \notin ids
        <5>1. menus'[id] = menus[id] BY <1>2, <4>2
        <5>2. id[1] # "context" => id[2] \in Objects /\ id[2] # o BY <4>2, MenuIdIs DEF MenusOf
        <5>3. id[1] # "context" => panelOf'[id[2]] = panelOf[id[2]] BY <1>3, <5>2
        <5> QED BY <5>1, <5>3
      <4> QED BY <4>1, <4>2
    <3> HIDE DEF ids
    <3> QED BY <3>1 DEF Up
  <2>2. ASSUME NEW q \in Panels,
               Counted(disablersOf, menus, panelOf, dialogs, drag, mainMenus, q)
        PROVE  Counted(disablersOf', menus', panelOf', dialogs', drag', mainMenus', q)
    <3>1. CASE drag = o
      <4>1. Dragged(drag', panelOf', q) = 0 BY <1>3, <3>1 DEF Dragged
      <4>2. CASE q = panelOf[o]
        <5>1. Dragged(drag, panelOf, q) = 1 BY <1>7, <3>1, <4>2 DEF Dragged
        <5>2. disablersOf[q] > 0 BY <1>1, <2>2, <5>1, CountsAreNumbers DEF Counted
        <5>3. disablersOf'[q] = disablersOf[q] - 1 BY <1>2, <1>7, <3>1, <4>2, <5>2, PushPop
        <5> QED BY <1>1, <1>2, <2>1, <2>2, <4>1, <5>1, <5>3, CountsAreNumbers DEF Counted
      <4>3. CASE q # panelOf[o]
        <5>1. Dragged(drag, panelOf, q) = 0 BY <3>1, <4>3 DEF Dragged
        <5>2. q \in Panels \ {panelOf[o]} BY <4>3
        <5>3. disablersOf'[q] = disablersOf[q] BY <1>2, <1>7, <3>1, <5>2, PushPop
        <5> QED BY <1>2, <2>1, <2>2, <4>1, <5>1, <5>3 DEF Counted
      <4> QED BY <4>2, <4>3
    <3>2. CASE drag # o
      <4>1. Dragged(drag', panelOf', q) = Dragged(drag, panelOf, q)
        BY <1>3, <1>7, <3>2 DEF Dragged
      <4> QED BY <1>2, <2>1, <2>2, <3>2, <4>1 DEF Counted
    <3> QED BY <3>1, <3>2
  <2> QED BY <1>1, <1>2, <2>2, CountsKept
<1>11. /\ panels' \in Seq(Panels) /\ panels' # <<>> /\ dialogs' \in [Panels -> SUBSET Dialogs]
       /\ mainMenus' \in [Panels -> Nat]
  BY <1>1, <1>2 DEF MenusTyped
<1>12. \A x \in {o} : MenusOf(x) \subseteq ids OBVIOUS
<1>13. {o} \in SUBSET Objects OBVIOUS
<1> HIDE DEF ids
<1> QED BY <1>1, <1>2, <1>8, <1>9, <1>10, <1>11, <1>12, <1>13, GoneInv

LEMMA DestroyPanelInv ==
  ASSUME MenusAssumption, MenusInv, NEW p \in Panels, DestroyPanel(p) PROVE MenusInv'
<1> DEFINE os == On(p)
           ids == {<<"context", p>>} \cup UNION {MenusOf(o) : o \in os}
<1>1. /\ ~broken /\ MenusTyped /\ MenusAreOfObjects /\ DisablersAreHolders
  BY DEF MenusInv, MenusHoldThePanel, DestroyPanel, Begins
<1>2. /\ Len(panels) > 1 /\ Gone(os)
      /\ menus' = [id \in MenuIds |-> IF id \in ids THEN NoMenu ELSE menus[id]]
      /\ grab' = IF grab \in ids THEN Nowhere ELSE grab
      /\ dialogs' = [dialogs EXCEPT ![p] = {}]
      /\ disablersOf' = [disablersOf EXCEPT ![p] = 0]
      /\ mainMenus' = [mainMenus EXCEPT ![p] = 0]
      /\ UNCHANGED <<lockdown, crossed>>
  BY DEF DestroyPanel
<1>3. /\ panelOf' = [x \in Objects |-> IF x \in os THEN Nowhere ELSE panelOf[x]]
      /\ drag' = IF drag \in os THEN Nowhere ELSE drag
      /\ broken' = (Visible(UNION {MenusOf(x) : x \in os}) # {})
  BY <1>2 DEF Gone
<1>4. /\ os \in SUBSET Objects /\ \A o \in Objects : o \in os <=> panelOf[o] = p
  BY DEF On
<1>5. /\ \A o \in os : MenusOf(o) \subseteq ids
      /\ \A id \in MenuIds :
           id \in ids <=> IF id[1] = "context" THEN id[2] = p ELSE id[2] \in os
  BY <1>4, MenuIdIs DEF MenusOf
<1>6. ASSUME ~broken', NEW id \in MenuIds, id[1] # "context", id[2] \in os
      PROVE  ~menus[id].visible
  <2>1. id \in MenusOf(id[2]) BY <1>6, MenuIdIs DEF MenusOf
  <2> QED BY <1>3, <1>6, <2>1 DEF Visible
<1> HIDE DEF os, ids
<1>7. /\ disablersOf \in [Panels -> Nat] /\ panelOf \in [Objects -> Panels \cup {Nowhere}]
      /\ drag \in Objects \cup {Nowhere} /\ mainMenus \in [Panels -> Nat]
      /\ dialogs \in [Panels -> SUBSET Dialogs]
  BY <1>1 DEF MenusTyped
<1>8. /\ disablersOf' \in [Panels -> Nat] /\ mainMenus' \in [Panels -> Nat]
      /\ dialogs' \in [Panels -> SUBSET Dialogs]
  BY <1>2, <1>7
<1>9. panels' \in Seq(Panels) /\ panels' # <<>>
  <2>1. PICK i \in DOMAIN panels : panels' = RemoveAt(panels, i) BY DEF DestroyPanel
  <2>2. panels \in Seq(Panels) /\ i \in 1 .. Len(panels) BY <1>1 DEF MenusTyped
  <2>3. panels' \in Seq(Panels) /\ Len(panels') = Len(panels) - 1 BY <2>1, <2>2, RemoveAtIs
  <2> QED BY <1>2, <2>2, <2>3
<1>10. ASSUME ~broken' PROVE DisablersAreHolders'
  <2>1. ASSUME NEW id \in MenuIds
        PROVE  menus'[id] = IF id \in ids THEN NoMenu ELSE menus[id]
    BY <1>2
  <2>2. ASSUME NEW o \in Objects PROVE panelOf'[o] = IF o \in os THEN Nowhere ELSE panelOf[o]
    BY <1>3
  <2>3. p # Nowhere BY DEF MenusAssumption
  <2>4. ASSUME NEW id \in MenuIds, NEW q \in Panels
        PROVE  id \in Up(menus', panelOf', q) <=> q # p /\ id \in Up(menus, panelOf, q)
    <3>1. CASE id \in ids
      <4>1. ~menus'[id].visible BY <2>1, <3>1, MadeMenus
      <4>2. id \notin Up(menus', panelOf', q) BY <4>1 DEF Up
      <4>3. CASE id[1] = "context"
        <5>1. id[2] = p BY <1>5, <3>1, <4>3
        <5> QED BY <4>2, <4>3, <5>1 DEF Up
      <4>4. CASE id[1] # "context"
        <5>1. ~menus[id].visible BY <1>5, <1>6, <1>10, <3>1, <4>4
        <5> QED BY <4>2, <5>1 DEF Up
      <4> QED BY <4>3, <4>4
    <3>2. CASE id \notin ids
      <4>1. menus'[id] = menus[id] BY <2>1, <3>2
      <4>2. CASE id[1] = "context"
        <5>1. id[2] # p BY <1>5, <3>2, <4>2
        <5> QED BY <4>1, <4>2, <5>1 DEF Up
      <4>3. CASE id[1] # "context"
        <5>1. id[2] \in Objects /\ id[2] \notin os BY <1>5, <3>2, <4>3, MenuIdIs
        <5>2. panelOf'[id[2]] = panelOf[id[2]] /\ panelOf[id[2]] # p BY <1>4, <2>2, <5>1
        <5> QED BY <4>1, <4>3, <5>2 DEF Up
      <4> QED BY <4>2, <4>3
    <3> QED BY <3>1, <3>2
  <2>5. ASSUME NEW q \in Panels
        PROVE  Up(menus', panelOf', q) = IF q = p THEN {} ELSE Up(menus, panelOf, q)
    <3>1. Up(menus', panelOf', q) \subseteq MenuIds /\ Up(menus, panelOf, q) \subseteq MenuIds
      BY DEF Up
    <3> QED BY <2>4, <3>1
  <2>6. ASSUME NEW q \in Panels
        PROVE  Dragged(drag', panelOf', q) = IF q = p THEN 0 ELSE Dragged(drag, panelOf, q)
    <3>1. CASE drag = Nowhere BY <1>3, <1>4, <3>1 DEF Dragged, MenusAssumption
    <3>2. CASE drag # Nowhere
      <4>1. drag \in Objects BY <1>7, <3>2
      <4>2. CASE drag \in os
        <5>1. panelOf[drag] = p /\ drag' = Nowhere BY <1>3, <1>4, <4>1, <4>2
        <5> QED BY <5>1 DEF Dragged
      <4>3. CASE drag \notin os
        <5>1. drag' = drag /\ panelOf'[drag] = panelOf[drag] /\ panelOf[drag] # p
          BY <1>3, <1>4, <2>2, <4>1, <4>3
        <5> QED BY <5>1 DEF Dragged
      <4> QED BY <4>2, <4>3
    <3> QED BY <3>1, <3>2
  <2>7. ASSUME NEW q \in Panels,
               Counted(disablersOf, menus, panelOf, dialogs, drag, mainMenus, q)
        PROVE  Counted(disablersOf', menus', panelOf', dialogs', drag', mainMenus', q)
    <3>1. CASE q = p
      <4>1. disablersOf'[q] = 0 /\ mainMenus'[q] = 0 /\ dialogs'[q] = {} BY <1>2, <1>7, <3>1
      <4>2. Cardinality(Up(menus', panelOf', q)) = 0 /\ Cardinality(dialogs'[q]) = 0
        BY <2>5, <3>1, <4>1, FS_EmptySet
      <4> QED BY <2>6, <3>1, <4>1, <4>2 DEF Counted
    <3>2. CASE q # p
      <4>1. /\ disablersOf'[q] = disablersOf[q] /\ mainMenus'[q] = mainMenus[q]
            /\ dialogs'[q] = dialogs[q]
        BY <1>2, <1>7, <3>2
      <4> QED BY <2>5, <2>6, <2>7, <3>2, <4>1 DEF Counted
    <3> QED BY <3>1, <3>2
  <2> QED BY <1>1, <1>2, <2>7, CountsKept
<1>11. grab' \in {Nowhere, grab} /\ (grab \in ids => grab' = Nowhere) BY <1>2
<1> QED BY <1>1, <1>2, <1>4, <1>5, <1>8, <1>9, <1>10, <1>11, GoneInv

-----------------------------------------------------------------------------
\* MenusInv is inductive.
LEMMA MenusStep == ASSUME MenusAssumption, MenusInv, [MenusNext]_menuOpVars PROVE MenusInv'
<1>1. CASE MenusNext
  <2>1. \A p \in Panels :
          /\ OpenProperties(p) \/ OpenAddTo(p) \/ AskDeletion(p) =>
               \E d \in Dialogs : Opened(p, d)
    BY DEF OpenProperties, OpenAddTo, AskDeletion, Dialogs
  <2>2. \A p \in Panels, d \in Dialogs : Opened(p, d) \/ CloseDialog(p, d) => MenusInv'
    BY DialogsInv
  <2> QED BY <1>1, <2>1, <2>2, RegisterAppletInv, PopUpInv, PopUpMainMenuInv, ChangeLockdownInv,
             DestroyAppletInv, DragsInv, NewPanelInv, DestroyPanelInv, DragAcrossInv, DeactivateInv
          DEF MenusNext
<1>2. CASE UNCHANGED menuOpVars
  <2>1. /\ MenusTyped' BY <1>2 DEF menuOpVars, MenusInv, MenusTyped
  <2>2. ~broken' => MenusAreOfObjects' BY <1>2 DEF menuOpVars, MenusInv, MenusAreOfObjects
  <2>3. ~broken' => DisablersAreHolders'
    BY <1>2, DisablersCount, DisablersCountNext DEF menuOpVars, MenusInv, MenusHoldThePanel
  <2>4. ~broken' => MenusAreAllowed'
    BY <1>2 DEF menuOpVars, MenusInv, MenusHoldThePanel, MenusAreAllowed, Allowed
  <2> QED BY <2>1, <2>2, <2>3, <2>4 DEF MenusInv, MenusHoldThePanel
<1> QED BY <1>1, <1>2

\* A panel is kept from hiding by exactly the menus, dialogs and drags it has,
\* and menus offer what the lockdown allows, for any panels and objects and any
\* number of steps (panel_toplevel_push_autohide_disabler, panel_applet_destroy,
\* panel_destroy, panel_lockdown_on_notify).
THEOREM MenusHold == ASSUME MenusAssumption PROVE MenusSpec => []MenusHoldThePanel
<1>1. MenusInit => MenusInv BY MenusInitInv
<1>2. MenusInv /\ [MenusNext]_menuOpVars => MenusInv' BY MenusStep
<1>3. MenusInv => MenusHoldThePanel
  BY DEF MenusInv, MenusHoldThePanel, DisablersAreHolders, MenusAreAllowed
<1> QED BY <1>1, <1>2, <1>3, PTL DEF MenusSpec
=============================================================================
