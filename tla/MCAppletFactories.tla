------------------------- MODULE MCAppletFactories -------------------------
(***************************************************************************)
(* Instances of AppletFactories for TLC.  Frames are interchangeable, and  *)
(* so are factory objects.                                                 *)
(***************************************************************************)
EXTENDS AppletFactories, TLC

FactorySymmetry == Permutations(Frames) \cup Permutations(Objects)
=============================================================================
