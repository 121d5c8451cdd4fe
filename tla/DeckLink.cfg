SPECIFICATION LinkSpec
CONSTANTS
  k1 = k1
  k2 = k2
  Absent = Absent
  Null = Null
  NoFocus = NoFocus
  NoSocket = NoSocket
  MaxConnections = 3
  MaxUnread = 1
  PluginTypes <- MCPluginTypes
  Texts <- MCTexts
  Icons <- MCIcons
  KeyStates <- MCKeyStates
  Positions <- MCPositions
  Declarations <- MCDeclarations
  Reports <- MCReports
INVARIANTS
  UpdatesAmountToTheState
  CoreLearnsTheDevices
PROPERTIES
  QuietPressAnswersScreen
  ScreenSettles
