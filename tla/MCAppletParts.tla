---------------------------- MODULE MCAppletParts ----------------------------
(***************************************************************************)
(* The applets: the factories in the panel's process, an applet's side of  *)
(* the conversation with the panel, the calendar and the places of the     *)
(* clock, and the notification area, each with its module.  Which of them  *)
(* a behaviour is about is chosen at the start; the others stand still.    *)
(***************************************************************************)
EXTENDS MCAppletFactories, AppletParts

CONSTANTS s1, s2, t1, a1, b1, k1, z1, z2, w1, w2, w3

VARIABLE part

ASSUME SidesAssumption

-----------------------------------------------------------------------------
\* A calendar with an entry in each month, one with an entry in the second, and
\* a task list.  The uid of a1 begins that of b1.
MCSourceOf == (a1 :> s1) @@ (b1 :> s2) @@ (k1 :> t1)
MCMonthOf == (a1 :> 1) @@ (b1 :> 2) @@ (k1 :> 1)
MCUidPrefix == {<<a1, a1>>, <<b1, b1>>, <<k1, k1>>, <<a1, b1>>}

\* Three places in two zones, two of them there at first.
MCFirstPlaces == <<"p1", "p2">>
MCZoneOf == [p \in {"p1", "p2", "p3"} |-> IF p = "p2" THEN z2 ELSE z1]
MCTwin == {<<z1, z1>>, <<z2, z2>>}
MCConfFiles == <<"timezone", "rc">>

\* A window without a known role and two with one.
MCRolePosition == (w1 :> 0) @@ (w2 :> 2) @@ (w3 :> 4)

-----------------------------------------------------------------------------
appletVars == <<part, vars, libVars, calVars, placeVars, trayVars>>

\* Of the parts, only q may take a step.
Only(q) ==
  /\ part = q /\ UNCHANGED part
  /\ q # "factories" => UNCHANGED vars
  /\ q # "library" => UNCHANGED libVars
  /\ q # "calendar" => UNCHANGED calVars
  /\ q # "places" => UNCHANGED placeVars
  /\ q # "trays" => UNCHANGED trayVars

AppletsInit ==
  /\ part \in {"factories", "library", "calendar", "places", "trays"}
  /\ Init /\ LibInit /\ CalInit /\ PlaceInit /\ TrayInit

AppletsNext ==
  \/ Only("factories") /\ Next
  \/ Only("library") /\ LibNext
  \/ Only("calendar") /\ CalNext
  \/ Only("places") /\ PlaceNext
  \/ Only("trays") /\ TrayNext

\* The timer of a backend that died runs out, as timers of the main loop do.
AppletsSpec ==
  /\ AppletsInit /\ [][AppletsNext]_appletVars
  /\ \A k \in Kinds : WF_appletVars(Only("calendar") /\ BackendRestart(k))

-----------------------------------------------------------------------------
(* A calendar whose server died is loaded again once its timer runs out, or it *)
(* is not in the window any more (backend_died_cb, backend_restart).           *)
DeadIsReplaced == dead # {} ~> dead = {}
=============================================================================
