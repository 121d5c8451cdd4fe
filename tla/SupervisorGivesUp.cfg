SPECIFICATION Spec
CONSTANTS
  Pids = {p1, p2}
  NoChild = NoChild
PROPERTIES
  UnexpectedExitTriggersRestart
