SPECIFICATION FairSpec
CONSTANTS
  Accounts = {a1}
  NoAccount = NoAccount
  Requests = {r1}
  Kinds <- AllKinds
  Configs <- MCConfigs
  MaxRepairs = 2
PROPERTY RequestsEnd
CHECK_DEADLOCK FALSE
