CONSTANTS
  Names = {"root", "bootstrap"}
  Secrets = {w1, w2}
  MaxAccounts = 4
  Tokens = {0, 1, 2}
  Kinds = {"login", "adminSetLevel", "consoleCreate"}
  MaxRequests = 2
  MaxSqlErrors = 1
  MaxLinkLosses = 1
  Root = "root"
  Bootstrap = "bootstrap"
SPECIFICATION FairSpec
INVARIANT TokenOpensOwnAccount
PROPERTY EveryRequestAnswered
CHECK_DEADLOCK FALSE
