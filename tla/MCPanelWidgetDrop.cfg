SPECIFICATION Spec
CONSTANTS
  a1 = a1
  a2 = a2
  a3 = a3
  top = top
  bottom = bottom
  Applets <- MCApplets
  Panels <- MCPanels
  Packed <- MCPacked
  MenuButtons <- MCApplets
  DropsOnOwnPanel = TRUE
  MaxIndex = 3
  MaxEdits = 4
  None = None
SYMMETRY Symmetry
CHECK_DEADLOCK FALSE
INVARIANTS
  Sorted
