CONSTANTS
  Reqs = {r1, r2}
  Outputs = {o1, o2}
  Bodies <- MCBodies
  Files <- MCFiles
  Envs <- MCEnvs
  CliKeys = {"obs_password"}
  MaxRuns = 2
  Tokens <- MCTokens
  MaxFaults = 1
SPECIFICATION StoreSpec
SYMMETRY Symmetry
INVARIANTS
  StoreTypeOK
  AckedSettingsHold
  AlwaysRestarts
  ReferencedSecretsStored
PROPERTY
  TokenStable
CHECK_DEADLOCK FALSE
