SPECIFICATION EndpointsSpec
CONSTANTS
  Char <- Characters
  Bar = "|"
  User <- TwoUsers
  Token <- TwoTokens
  Name <- Names
  ScopeName <- ScopeNames
  Nil = Nil
  None = Nil
  Account <- TwoUsers
  Path <- OnePath
  Slash = "/"
  Dot = "."
  Public = "public"
  Grant <- OneGrant
  Method = {"GET"}
  MayFail = TRUE
VIEW WithoutFound
INVARIANT AuthorizationsAreOwn
PROPERTY DocumentsAreJson UsersAreFound
