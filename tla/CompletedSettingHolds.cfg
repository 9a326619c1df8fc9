CONSTANTS
  Actions = {a1, a2, a3}
  Settings = {auto_scene_switch}
  Asked = {auto_scene_switch}
  Values = {on, off}
  MaxFaults = 1
  MaxThemes = 0
  EvtBound = 1
SPECIFICATION Spec
SYMMETRY Symmetry
INVARIANT CompletedSettingHolds
CHECK_DEADLOCK FALSE
