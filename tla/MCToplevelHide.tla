-------------------------- MODULE MCToplevelHide ----------------------------
(***************************************************************************)
(* ToplevelHide for TLC: every orientation, floating or not, with every    *)
(* setting, and one or two changes of the settings.                        *)
(***************************************************************************)
EXTENDS ToplevelHide
=============================================================================
