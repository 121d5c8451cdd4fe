SPECIFICATION PartsSpec
CONSTANTS
  MaxLength = 8
  Others <- MCOthers
  Json <- MCJson
  d1 = d1
  d2 = d2
  Unreported = Unreported
  Devices <- MCDevices
  Models <- MCModels
  home = home
  page = page
  dial = dial
  at = at
  Absent = Absent
  Null = Null
  MaxPending = 2
  Instances <- MCInstances
  SlotOf <- MCSlotOf
  Texts <- MCTexts
  Icons <- MCIcons
  KeyStates <- MCKeyStates
  Unset = Unset
  Pieces <- MCPieces
  Lists <- MCLists
  Origins <- MCOrigins
  Inherited <- MCInherited
INVARIANTS
  CoreReadsEveryLine
  ClientReadsEveryMessage
  NothingTwice
  LabelsFollowTheDevice
  TitleIsNeverStale
  LastRenderingWins
  GrantedAsConfigured
