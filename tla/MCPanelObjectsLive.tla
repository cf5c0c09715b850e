------------------------- MODULE MCPanelObjectsLive -------------------------
(***************************************************************************)
(* PanelObjects with a history variable, for the liveness run.             *)
(*                                                                         *)
(* A widget that was moved is saved a second later.  If the widget is      *)
(* destroyed before (its panel goes, or its crashed applet is reloaded),   *)
(* the save is dropped: the object's keys still name the old panel, and    *)
(* once the new one is gone nothing loads the object on the old one until  *)
(* the list of objects changes.  lost holds the objects of dropped saves.  *)
(***************************************************************************)
EXTENDS MCPanelObjects

VARIABLE lost

LostNow == {frame[f].id : f \in {g \in saveQueue \ saveQueue' :
                                   home'[frame[g].id] # frame[g].on}}

LiveInit == Init /\ lost = {}
LiveNext == Next /\ lost' = (lost \cup LostNow) \cap layoutObjects'
LiveSpec == LiveInit /\ [][LiveNext]_<<vars, lost>>
            /\ Fairness

Shown(o) == \E f \in Frames : /\ frame[f].id = o
                               /\ frame[f].st \in {"activating", "registered"}

\* When edits cease, every object of the layout whose panel exists ends up
\* with a widget, or with an activation under way; except one that cannot
\* load, that failed before, or whose move was lost.
LayoutShown ==
  \A o \in Objects :
    <>[](o \in layoutObjects /\ home[o] \in panels =>
           \/ Shown(o) \/ Kind[o] = "unloadable" \/ noReload[o] > 0
           \/ o \in lost)
=============================================================================
