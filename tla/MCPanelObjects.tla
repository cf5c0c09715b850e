--------------------------- MODULE MCPanelObjects ---------------------------
(***************************************************************************)
(* Instances of PanelObjects for TLC: two panels, in one run a third whose *)
(* screen is not there, and two objects, one of them an applet whose       *)
(* activation takes time.                                                  *)
(***************************************************************************)
EXTENDS PanelObjects, TLC

CONSTANTS o1, o2, o3

\* Two objects: an applet, whose activation takes time, and a launcher.
AppletAndLauncher == o1 :> "applet" @@ o2 :> "internal"

\* Three: the third has an iid the panel can make nothing of.
OneOfEach == AppletAndLauncher @@ o3 :> "unloadable"

\* The panels that can be there are interchangeable in everything but the
\* liveness run.
PanelSymmetry == Permutations(Toplevels \ Offscreen)
=============================================================================
