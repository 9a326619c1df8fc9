CONSTANTS
  Clients = {plugin, other}
  Foreign = {other}
  HeartbeatTimeout = 2
  Window = 1
  Threshold = 1
  BodyWords = 2
  EvtCap = 15
  MaxQueued = 1
  MaxSwitches = 1
  MaxHangs = 1
  MaxCuts = 1
  Nobody = nobody
SPECIFICATION FairSpec
INVARIANTS
  PairMatched
  NotWedged
PROPERTIES
  EndsDeserved
  LinkRecovers
CHECK_DEADLOCK FALSE
