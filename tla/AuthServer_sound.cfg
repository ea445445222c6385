CONSTANTS
  Names = {"root", "bootstrap"}
  Secrets = {w1, w2}
  MaxAccounts = 4
  Tokens = {0, 1, 2}
  Kinds = {"login", "register", "adminCreate", "adminDelete", "adminSetLevel",
           "consoleCreate", "consoleDelete", "consoleLevel"}
  MaxRequests = 2
  MaxSqlErrors = 0
  MaxLinkLosses = 0
  Root = "root"
  Bootstrap = "bootstrap"
SPECIFICATION FairSpec
INVARIANT SuccessIsTrue
INVARIANT RefusalIsTrue
PROPERTY LeftoverRemoved
CHECK_DEADLOCK FALSE
