SPECIFICATION FairSpec
CONSTANTS
  top = top
  Orients = {top, bottom}
  Top = top
  Looks = {small, large}
  NoLook = NoLook
  MaxFactories = 2
  MaxChanges = 1
INVARIANTS
  TypeOK
  LiveCallHasFrame
  SettingsReachApplet
PROPERTIES
  ActivationEnds
  BrokenNoticed
  ActivationPromise
CHECK_DEADLOCK FALSE
