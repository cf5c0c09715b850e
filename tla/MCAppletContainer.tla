------------------------- MODULE MCAppletContainer -------------------------
(***************************************************************************)
(* Instances of AppletContainer for TLC.                                   *)
(***************************************************************************)
EXTENDS AppletContainer

CONSTANT top
=============================================================================
