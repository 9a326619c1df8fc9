CONSTANTS
  Posts = {w1, w2}
  DockActions = {d1}
  BusCap = 1
  MaxFaults = 1
SPECIFICATION FairSpec
INVARIANTS
  OkMeansSwitched
  SwitchesInOrder
PROPERTIES
  OutcomeFinal
  EmittedSettles
CHECK_DEADLOCK FALSE
