CONSTANTS
  Users = {u1}
  Sessions = {s1}
  Instances = {i1}
  NoUser = NoUser
  NoInstance = NoInstance
  Cycle <- MCCycle
  MaxTime = 2
  Skew = 1
  MaxUptime = 2
  MaxEvents = 2
  MaxFaults = 1
SPECIFICATION FairSpec
INVARIANTS
  TypeOK
  BillVouched
  StoppedMeterRests
PROPERTIES
  MetersGrow
  UsageSettles
CHECK_DEADLOCK FALSE
