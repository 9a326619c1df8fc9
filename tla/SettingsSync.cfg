CONSTANTS
  Actions = {a1, a2}
  Settings = {auto_scene_switch}
  Asked = {auto_scene_switch, "mode", "status"}
  Values = {on, off}
  MaxFaults = 1
  MaxThemes = 0
  EvtBound = 1
SPECIFICATION Spec
SYMMETRY Symmetry
INVARIANTS
  OneTerminalResult
  LatestHolds
  ViewIsCurrent
CHECK_DEADLOCK FALSE
