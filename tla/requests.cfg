SPECIFICATION Spec
CONSTANTS
  Accounts = {a1, a2}
  NoAccount = NoAccount
  Requests = {r1, r2}
  Kinds <- MCKinds
  Configs <- MCConfigs
  MaxRepairs = 1
INVARIANTS ActiveAccounted OneSource StreamsClosed WorkspaceLifetime NoAgentUntold
CHECK_DEADLOCK FALSE
