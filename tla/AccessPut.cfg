SPECIFICATION Spec
CONSTANTS
  Char <- Characters
  Bar = "|"
  User <- OneUser
  Token <- BarToken
  Name <- Names
  ScopeName <- ScopeNames
  Nil = Nil
  Path <- OnePath
  Slash = "/"
  Dot = "."
  Public = "public"
  Grant <- TwoGrants
  Method = {"GET", "PUT"}
  MayFail = FALSE
PROPERTY PutSurvivesUserRemoval
