SPECIFICATION EndpointsSpec
CONSTANTS
  Char <- Characters
  Bar = "|"
  User <- OneUser
  Token <- BarToken
  Name <- Names
  ScopeName <- ScopeNames
  Nil = Nil
  None = Nil
  Account <- OneUser
  Path <- OnePath
  Slash = "/"
  Dot = "."
  Public = "public"
  Grant <- TwoGrants
  Method = {"GET"}
  MayFail = FALSE
PROPERTY UnknownUsersAreNotFound
