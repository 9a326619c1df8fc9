CONSTANTS
  Actions = {a1}
  Settings = {auto_scene_switch}
  Asked = {auto_scene_switch, "mode", "status"}
  Values = {on, off}
  MaxFaults = 1
  MaxThemes = 1
  EvtBound = 1
SPECIFICATION FairSpec
PROPERTIES
  ActionsSettle
  ViewRepaired
CHECK_DEADLOCK FALSE
