CONSTANTS
  Engine = {e1}
  Caller = {c1, c2}
  NoCaller = NoCaller
  NoEngine = NoEngine
SPECIFICATION Spec
PROPERTY
  NotReusedByLoad
CHECK_DEADLOCK FALSE
