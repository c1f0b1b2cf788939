SPECIFICATION FairSpec
CONSTANTS
  Pid = {p1, p2, p3}
  Nil = Nil
  Everyone = Everyone
  Command <- Commands
  MayFail = TRUE
  MaxOthers = 1
  MayHang = TRUE
  MayCrash = TRUE
  Script = TRUE
INVARIANT TypeOK ServersAreRegistered OnlyDeathLeavesFile StopNeverServes
PROPERTY StoppedServerEnds
