SPECIFICATION Spec
CONSTANTS
  Pids = {p1, p2}
  NoChild = NoChild
INVARIANTS
  TypeOK
  OneSupervisedCore
  StopIsFinal
  AlwaysSupervised
PROPERTIES
  CrashLoopBacksOff
  StopEndsTheCore
  ExitIsFollowedByRestart
