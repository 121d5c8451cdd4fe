SPECIFICATION Spec
CONSTANTS
  k1 = k1
  k2 = k2
  d1 = d1
  badKey = badKey
  badValue = badValue
  Absent = Absent
  Null = Null
  NoFocus = NoFocus
  MaxConnections = 3
  PluginTypes <- MCPluginTypes
  Texts <- MCTexts
  Icons <- MCIcons
  KeyStates <- MCKeyStates
  Positions <- MCPositions
  Declarations <- MCDeclarations
  Reports <- MCReports
INVARIANTS
  TypeOK
  FocusedIsAuthenticated
  OutsidersHearOnlyRefusal
  OneDisplayIsPainted
PROPERTIES
  LifecycleOnlyForward
  DeclarationsAreOnesOwn
  ImplementsFocusArbiter
