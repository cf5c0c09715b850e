SPECIFICATION Spec
CONSTANTS
  top = top
  clock = clock
  NoName = NoName
  Invalid = Invalid
  Files <- MCFiles
  Displays <- MCDisplays
  MaxNumber = 2
  MaxEdits = 4
CHECK_DEADLOCK FALSE
PROPERTIES
  NewIdHasNoKeys
