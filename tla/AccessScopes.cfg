SPECIFICATION FairSpec
CONSTANTS
  Char <- Characters
  Bar = "|"
  User <- OneUser
  Token <- BarToken
  Name <- Names
  ScopeName <- ScopeNames
  Nil = Nil
  Path <- Paths
  Slash = "/"
  Dot = "."
  Public = "public"
  Grant <- ThreeGrants
  Method = {"OPTIONS", "GET", "HEAD", "PUT", "DELETE", "POST"}
  MayFail = TRUE
INVARIANT TypeOK GrantsAreNotMerged
PROPERTY AnswersAreJustified EveryRequestAnswered
