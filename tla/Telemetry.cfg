CONSTANTS
  Sockets = {c1}
  AutoDetect = TRUE
  Setups <- MCSetups
  MaxLaunches = 2
  MaxFaults = 1
SPECIFICATION FairSpec
INVARIANTS
  ConnectedIsFirsthand
PROPERTIES
  OutageShown
  RecoveryShown
  QuitEnds
CHECK_DEADLOCK FALSE
