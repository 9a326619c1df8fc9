CONSTANTS
  Reqs = {r1, r2}
  Outputs = {o1}
  Bodies <- MCBodies
  Files <- MCFiles
  Envs <- MCEnvs
  CliKeys = {}
  MaxRuns = 1
  Tokens <- MCTokens
  MaxFaults = 1
  Sessions = {s1, s2}
  User = User
  NoUser = NoUser
  NoInstance = NoInstance
  NoSession = NoSession
  NoAnswer = NoAnswer
SPECIFICATION FairSpec
INVARIANTS
  AnswersAreCurrent
  StopStops
  CacheCurrent
PROPERTY
  HandlersAnswer
CHECK_DEADLOCK FALSE
