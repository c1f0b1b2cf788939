SPECIFICATION FairSpec
CONSTANTS
  Path <- DeepPath
  NameOrder <- Names
  Content = {"", "a"}
  Empty = ""
  Absent = Absent
  Dir = Dir
  Nil = Nil
  Partial <- MCPartial
  MayCrash = TRUE
  MayFail = TRUE
  MaxEdits = 2
INVARIANT TypeOK Confined CrashDamage
PROPERTY AtomicUnlessFull ConditionalIO ErrorKeepsDocument GetIsConsistent EveryRequestEnds
