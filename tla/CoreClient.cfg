SPECIFICATION Spec
CONSTANTS
  SocketIds = {s1, s2}
  NoSocket = NoSocket
  empty = empty
  plus = plus
  Capacities <- MCCapacities
  EmptyCapacity <- MCEmptyCapacity
  Unreported = Unreported
  MaxCores = 3
INVARIANTS
  TypeOK
  OneAttemptAtATime
  StopIsFinal
  ConnectedMeansRegistered
  CoreKnowsTheDevices
PROPERTIES
  EventuallyRegistered
