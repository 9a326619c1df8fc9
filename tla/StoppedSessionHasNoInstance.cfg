CONSTANTS
  Users = {u1}
  Keys = {k1}
  Hashes = {h1}
  Sessions = {s1, s2}
  Instances = {i1, i2}
  StartReqs = {a1, a2}
  StopReqs = {b1, b2}
  NoUser = NoUser
  NoKey = NoKey
  NoHash = NoHash
  NoSession = NoSession
  NoInstance = NoInstance
  MaxFaults = 0
SPECIFICATION Spec
INVARIANT StoppedSessionHasNoInstance
CHECK_DEADLOCK FALSE
