---------------------------- MODULE MCPanelWidget ----------------------------
(* Three objects on two panels, the second of which does not expand.         *)
EXTENDS PanelWidget

CONSTANTS a1, a2, a3, top, bottom

MCApplets == {a1, a2, a3}
MCPanels == <<top, bottom>>
MCPacked == {bottom}
Symmetry == Permutations(MCApplets)
=============================================================================
