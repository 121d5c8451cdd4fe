SPECIFICATION Spec
CONSTANTS
  p1 = p1
  p2 = p2
  p3 = p3
  None = None
  NoFile = NoFile
  Stale = Stale
  Foreign = Foreign
  Procs <- MCProcs
PROPERTY
  BothListenersOrNone
