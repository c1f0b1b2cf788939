SPECIFICATION Spec
CONSTANTS
  Pid = {p1, p2, p3}
  Nil = Nil
  Everyone = Everyone
  Command <- StartAndStop
  MayFail = FALSE
  MaxOthers = 1
  MayHang = FALSE
  MayCrash = FALSE
  Script = FALSE
PROPERTY StopFindsServer
