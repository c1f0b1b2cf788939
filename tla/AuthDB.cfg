SPECIFICATION FairSpec
CONSTANTS
  Char <- Characters
  Bar = 124
  User <- Users
  Token <- Tokens
  Name <- Characters
  ScopeName <- ScopeNames
  Nil = Nil
  Client = {server, tool, pager}
  Call <- Calls
  MayFail = TRUE
  Pager = {pager}
  Dead = Dead
  MaxDead = 1
INVARIANT TypeOK WalksAreCurrent
PROPERTY ImplementsAuthSpec CallsGetTheirTurn
CHECK_DEADLOCK FALSE
