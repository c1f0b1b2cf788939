SPECIFICATION FairSpec
CONSTANTS
  Char <- Characters
  Bar = "|"
  User <- TwoUsers
  Token <- OneToken
  Name = {"root", "x"}
  ScopeName <- ScopeNames
  Nil = Nil
  Tab = {t1}
  Xhr = {1, 2}
  SessionToken = {s1, s2}
  Asked <- OneApp
INVARIANT TypeOK SessionsAreOwn
PROPERTY LogoutEndsSession  EveryRequestEnds
