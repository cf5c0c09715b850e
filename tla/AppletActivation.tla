-------------------------- MODULE AppletActivation --------------------------
(***************************************************************************)
(* What the container of an applet promises the panel, whatever happens to *)
(* the applet and to its factory: a frame waits for the factory, asks it   *)
(* once, and is then shown or gone; it may break, and never comes back.    *)
(* Only a call made while the frame is shown may still report, and only as *)
(* long as it is shown.                                                    *)
(*                                                                         *)
(* The panel may yet run into freed memory; only while the factory's name  *)
(* is watched by a frame that asked already, or when the last call about a *)
(* background ends after its frame is gone.                                *)
(***************************************************************************)
EXTENDS Naturals

VARIABLES
  life,  \* "waiting", "asked", "shown", "broken", "gone"
  live,  \* the calls whose callbacks may still use the frame
  last,  \* the number of the last call
  ok     \* the panel has not run into freed memory

vars == <<life, live, last, ok>>

Init == life = "waiting" /\ live = {} /\ last = 0 /\ ok = TRUE

Becomes(from, to) == life \in from /\ life' = to /\ live' = {} /\ UNCHANGED <<last, ok>>

Ask == Becomes({"waiting"}, "asked")
Fail == Becomes({"asked"}, "gone")
Break == Becomes({"shown"}, "broken")
Remove == Becomes({"shown", "broken"}, "gone")

\* New calls, which may take the place of earlier ones.
MakeCalls ==
  /\ last' \in Nat /\ last' >= last
  /\ live' \subseteq live \cup (last + 1 .. last')
  /\ UNCHANGED ok

Show == life = "asked" /\ life' = "shown" /\ MakeCalls
Call == life = "shown" /\ MakeCalls /\ UNCHANGED life

\* A call ends.
Hear == live' \subseteq live /\ UNCHANGED <<life, last, ok>>

RunIntoFreed ==
  /\ life \in {"asked", "shown", "gone"}
  /\ ok' = FALSE /\ UNCHANGED <<life, live, last>>

Next == ok /\ (Ask \/ Fail \/ Show \/ Call \/ Hear \/ Break \/ Remove \/ RunIntoFreed)

Spec == Init /\ [][Next]_vars
=============================================================================
