------------------------- MODULE CoreClientProofs -------------------------
(***************************************************************************)
(* Theorems about CoreClient, for any set of capacities, any number of     *)
(* core restarts and any number of names for sockets: one attempt at a     *)
(* time, a stop() that is final, a connected state that means what it      *)
(* says, and a core that knows the devices.                                *)
(*                                                                         *)
(* They stand on one inductive invariant: the client waits for one thing,  *)
(* and while it is not stopped its socket is that thing's name.            *)
(***************************************************************************)
EXTENDS CoreClient, FiniteSetTheorems, TLAPS

-----------------------------------------------------------------------------
(* The inductive invariant.                                                *)

(* TypeOK, its sets taken element by element.                              *)
FlagsOK ==
  stopped \in BOOLEAN /\ cancelPendingReconnect \in BOOLEAN /\ started \in BOOLEAN

ClientOK ==
  /\ state \in ClientStates
  /\ reconnectAttempt \in Attempts
  /\ socket \in SocketIds \union {NoSocket}
  /\ devices \in Capacities /\ lastReportedCapacity \in Capacities

SocketsOK ==
  /\ sockets = [id \in DOMAIN sockets |-> sockets[id]]
  /\ DOMAIN sockets \subseteq SocketIds
  /\ \A id \in DOMAIN sockets : IsSocket(sockets[id])

WorldOK ==
  /\ core \in {"down", "starting", "binding", "listening"}
  /\ coreToken \in 0..MaxCores /\ tokenFile \in 0..Torn

(* What the client waits for is one thing, from start() to stop() exactly  *)
(* one, and a timer can be cancelled.                                      *)
OneWait ==
  /\ reads \in {0, 1} /\ timers \in {0, 1}
  /\ \A i, j \in DOMAIN sockets : i = j
  /\ reads = 1 => timers = 0 /\ DOMAIN sockets = {}
  /\ timers = 1 => DOMAIN sockets = {}
  /\ (started /\ ~stopped) => (reads = 1 \/ timers = 1 \/ DOMAIN sockets # {})
  /\ ~started => reads = 0 /\ timers = 0 /\ DOMAIN sockets = {} /\ ~stopped
  /\ cancelPendingReconnect <=> timers = 1

(* `socket` is the socket there is, unless stop() has let go of it.        *)
SocketIsCurrent ==
  /\ socket # NoSocket => socket \in DOMAIN sockets
  /\ ~stopped => \A id \in DOMAIN sockets : id = socket

(* What a socket's phase says of its token, of the client and of what the  *)
(* core was told.                                                          *)
PhasesMean ==
  \A id \in DOMAIN sockets :
    /\ sockets[id].phase \in {"acked", "registered"} => sockets[id].token = sockets[id].peer
    /\ sockets[id].phase = "registered" =>
         /\ state = "connected"
         /\ sockets[id].told = devices
         /\ lastReportedCapacity = devices

ClientInv ==
  /\ FlagsOK /\ ClientOK /\ SocketsOK /\ WorldOK
  /\ OneWait
  /\ SocketIsCurrent
  /\ StopIsFinal
  /\ PhasesMean
  /\ ConnectedMeansRegistered

LEMMA TypeParts ==
  ClientInv => TypeOK
<1> SUFFICES ASSUME ClientInv PROVE TypeOK
  OBVIOUS
<1>1. {stopped, cancelPendingReconnect, started} \subseteq BOOLEAN
  BY Zenon DEF ClientInv, FlagsOK
<1>2. {devices, lastReportedCapacity} \subseteq Capacities
  BY DEF ClientInv, ClientOK
<1>3. reads \in Nat /\ timers \in Nat
  BY DEF ClientInv, OneWait
<1> QED
  BY <1>1, <1>2, <1>3 DEF ClientInv, ClientOK, SocketsOK, WorldOK, TypeOK

(* What the waits amount to, counted.                                      *)
LEMMA OneWaitCounted ==
  ClientInv => OneAttemptAtATime
<1> SUFFICES ASSUME ClientInv PROVE OneAttemptAtATime
  OBVIOUS
<1>1. reads \in {0, 1} /\ timers \in {0, 1}
  BY DEF ClientInv, OneWait
<1>2. CASE DOMAIN sockets = {}
  <2>1. Cardinality(DOMAIN sockets) = 0
    BY <1>2, FS_EmptySet
  <2> QED
    BY <1>1, <1>2, <2>1 DEF ClientInv, OneWait, OneAttemptAtATime, Pending
<1>3. CASE DOMAIN sockets # {}
  <2>1. PICK id \in DOMAIN sockets : TRUE
    BY <1>3
  <2>2. DOMAIN sockets = {id}
    BY <2>1 DEF ClientInv, OneWait
  <2>3. Cardinality(DOMAIN sockets) = 1
    BY <2>2, FS_Singleton
  <2>4. reads = 0 /\ timers = 0
    BY <1>1, <1>3 DEF ClientInv, OneWait
  <2> QED
    BY <2>3, <2>4 DEF OneAttemptAtATime, Pending
<1> QED
  BY <1>2, <1>3

LEMMA ClientInvInit == Init => ClientInv
<1> SUFFICES ASSUME Init PROVE ClientInv
  OBVIOUS
<1>1. DOMAIN sockets = {} /\ SocketsOK
  BY DEF Init, SocketsOK
<1>2. FlagsOK
  BY DEF Init, FlagsOK
<1>3. ClientOK
  BY ClientAssumption DEF Init, ClientOK, ClientStates, Attempts, SaturatedAttempt
<1>4. WorldOK
  BY ClientAssumption DEF Init, WorldOK, NoFile, Torn
<1>5. OneWait
  BY <1>1 DEF Init, OneWait
<1> QED
  BY <1>1, <1>2, <1>3, <1>4, <1>5 DEF Init, ClientInv, SocketIsCurrent, StopIsFinal, PhasesMean,
     ConnectedMeansRegistered

-----------------------------------------------------------------------------
(* What the pieces of the methods do.                                      *)

LEMMA NextAttemptCounts ==
  ASSUME NEW attempt \in Attempts PROVE NextAttempt(attempt) \in Attempts
  BY DEF Attempts, SaturatedAttempt, NextAttempt

(* A socket that has moved, field by field.                                *)
LEMMA MoveToMoves ==
  ASSUME SocketsOK, NEW id \in DOMAIN sockets, NEW phase \in SocketPhases,
         NEW moved, moved = MoveTo(id, phase)
  PROVE  /\ moved = [i \in DOMAIN moved |-> moved[i]]
         /\ DOMAIN moved = DOMAIN sockets
         /\ \A i \in DOMAIN sockets : IsSocket(moved[i])
         /\ \A i \in DOMAIN sockets \ {id} : moved[i] = sockets[i]
         /\ moved[id].phase = phase
         /\ moved[id].token = sockets[id].token
         /\ moved[id].peer = sockets[id].peer
         /\ moved[id].told = sockets[id].told
<1>1. moved = [sockets EXCEPT ![id] = [sockets[id] EXCEPT !.phase = phase]]
  BY DEF MoveTo
<1>2. IsSocket(sockets[id])
  BY DEF SocketsOK
<1>3. moved[id] = [phase |-> phase, token |-> sockets[id].token,
                   peer |-> sockets[id].peer, told |-> sockets[id].told]
  BY <1>1, <1>2 DEF IsSocket
<1>4. IsSocket(moved[id])
  BY <1>2, <1>3 DEF IsSocket
<1>5. /\ moved = [i \in DOMAIN moved |-> moved[i]]
      /\ DOMAIN moved = DOMAIN sockets
      /\ \A i \in DOMAIN sockets \ {id} : moved[i] = sockets[i]
  BY <1>1 DEF SocketsOK
<1> QED
  BY <1>3, <1>4, <1>5 DEF SocketsOK

(* A socket moves on, or is closed, and nothing else happens.              *)
LEMMA MoveKeepsInv ==
  ASSUME ClientInv, NEW id \in DOMAIN sockets, NEW phase \in SocketPhases \ {"registered"},
         sockets' = MoveTo(id, phase),
         phase = "acked" => sockets[id].token = sockets[id].peer,
         stopped \/ state = "connected" => phase = "closed",
         UNCHANGED <<state, stopped, reconnectAttempt, socket, cancelPendingReconnect, reads,
                     timers, pluginVars, coreVars>>
  PROVE  ClientInv'
<1>1. /\ sockets' = [i \in DOMAIN sockets' |-> sockets'[i]]
      /\ DOMAIN sockets' = DOMAIN sockets
      /\ \A i \in DOMAIN sockets : IsSocket(sockets'[i])
      /\ \A i \in DOMAIN sockets \ {id} : sockets'[i] = sockets[i]
      /\ sockets'[id].phase = phase
      /\ sockets'[id].token = sockets[id].token
      /\ sockets'[id].peer = sockets[id].peer
      /\ sockets'[id].told = sockets[id].told
  BY MoveToMoves DEF ClientInv
<1>2. \A i \in DOMAIN sockets : i = id
  BY DEF ClientInv, OneWait
<1>3. UNCHANGED <<started, devices, lastReportedCapacity, core, coreToken, tokenFile>>
  BY DEF pluginVars, coreVars
<1>4. (FlagsOK /\ ClientOK /\ WorldOK)'
  BY <1>3 DEF ClientInv, FlagsOK, ClientOK, WorldOK
<1>5. SocketsOK'
  BY <1>1 DEF ClientInv, SocketsOK
<1>6. OneWait' /\ SocketIsCurrent'
  BY <1>1, <1>3 DEF ClientInv, OneWait, SocketIsCurrent
<1>7. StopIsFinal'
  BY <1>1, <1>2 DEF ClientInv, StopIsFinal
<1>8. PhasesMean'
  BY <1>1, <1>2 DEF PhasesMean
<1>9. ConnectedMeansRegistered'
  BY <1>1, <1>2 DEF ClientInv, ConnectedMeansRegistered
<1> QED
  BY <1>4, <1>5, <1>6, <1>7, <1>8, <1>9 DEF ClientInv

(* Nothing the client looks at changes but its reads and timers, and there *)
(* is no socket before or after.                                           *)
LEMMA NoSocketKeepsInv ==
  ASSUME ClientInv, DOMAIN sockets = {}, UNCHANGED <<sockets, socket, devices,
         lastReportedCapacity, core, coreToken, tokenFile>>,
         (FlagsOK /\ OneWait)', state' \in ClientStates, state' # "connected",
         reconnectAttempt' \in Attempts,
         stopped' => state' = "disconnected" /\ timers' = 0
  PROVE  ClientInv'
<1>1. ClientOK' /\ SocketsOK' /\ WorldOK'
  BY DEF ClientInv, ClientOK, SocketsOK, WorldOK
<1>2. SocketIsCurrent' /\ StopIsFinal' /\ PhasesMean' /\ ConnectedMeansRegistered'
  BY DEF ClientInv, SocketIsCurrent, StopIsFinal, PhasesMean, ConnectedMeansRegistered
<1> QED
  BY <1>1, <1>2 DEF ClientInv

LEMMA NotConnectedAlone ==
  ASSUME ClientInv, DOMAIN sockets = {} PROVE state # "connected"
  BY DEF ClientInv, ConnectedMeansRegistered

-----------------------------------------------------------------------------
(* Each step of the client keeps the invariant.                            *)

LEMMA StartKeepsInv == ClientInv /\ Start => ClientInv'
<1> SUFFICES ASSUME ClientInv, Start PROVE ClientInv'
  OBVIOUS
<1>1. reads = 0 /\ timers = 0 /\ DOMAIN sockets = {} /\ ~stopped
  BY DEF Start, ClientInv, OneWait
<1>2. /\ state' = "connecting" /\ reads' = 1 /\ timers' = 0
      /\ started' = TRUE /\ stopped' = FALSE
      /\ UNCHANGED <<reconnectAttempt, socket, cancelPendingReconnect, sockets, devices,
                     lastReportedCapacity, core, coreToken, tokenFile>>
  BY <1>1 DEF Start, ConnectOnce, coreVars
<1>3. FlagsOK' /\ OneWait'
  BY <1>1, <1>2 DEF ClientInv, FlagsOK, OneWait
<1>4. state' \in ClientStates /\ state' # "connected" /\ reconnectAttempt' \in Attempts
  BY <1>2 DEF ClientInv, ClientOK, ClientStates
<1> QED
  BY <1>1, <1>2, <1>3, <1>4, NoSocketKeepsInv

LEMMA RetryTimerFiresKeepsInv == ClientInv /\ RetryTimerFires => ClientInv'
<1> SUFFICES ASSUME ClientInv, RetryTimerFires PROVE ClientInv'
  OBVIOUS
<1>1. reads = 0 /\ timers = 1 /\ DOMAIN sockets = {} /\ ~stopped /\ started
  BY DEF RetryTimerFires, ClientInv, OneWait, StopIsFinal
<1>2. /\ state' = "connecting" /\ reads' = 1 /\ timers' = 0 /\ cancelPendingReconnect' = FALSE
      /\ UNCHANGED <<started, stopped, reconnectAttempt, socket, sockets, devices,
                     lastReportedCapacity, core, coreToken, tokenFile>>
  BY <1>1 DEF RetryTimerFires, ConnectOnce, pluginVars, coreVars
<1>3. FlagsOK' /\ OneWait'
  <2>1. FlagsOK'
    BY <1>2 DEF ClientInv, FlagsOK
  <2>2. OneWait'
    BY <1>1, <1>2 DEF OneWait
  <2> QED
    BY <2>1, <2>2
<1>4. state' \in ClientStates /\ state' # "connected" /\ reconnectAttempt' \in Attempts
  BY <1>2 DEF ClientInv, ClientOK, ClientStates
<1> QED
  BY <1>1, <1>2, <1>3, <1>4, NoSocketKeepsInv

(* scheduleRetry() when nothing is waited for any more.                    *)
LEMMA ScheduleRetryWaits ==
  ASSUME ClientInv, ScheduleRetry, timers = 0, started, stopped' = stopped, started' = started,
         reads' = 0, DOMAIN sockets' = {}
  PROVE  /\ (FlagsOK /\ OneWait)'
         /\ reconnectAttempt' \in Attempts
         /\ stopped' => timers' = 0
<1>1. CASE stopped
  BY <1>1 DEF ScheduleRetry, ClientInv, FlagsOK, ClientOK, OneWait
<1>2. CASE ~stopped
  <2>1. timers' = 1 /\ cancelPendingReconnect' = TRUE /\ reconnectAttempt' \in Attempts
    BY <1>2, NextAttemptCounts DEF ScheduleRetry, ClientInv, ClientOK
  <2> QED
    BY <1>2, <2>1 DEF ClientInv, FlagsOK, OneWait
<1> QED
  BY <1>1, <1>2

LEMMA AttemptFailsKeepsInv == ClientInv /\ AttemptFails => ClientInv'
<1> SUFFICES ASSUME ClientInv, AttemptFails PROVE ClientInv'
  OBVIOUS
<1>1. reads = 1 /\ timers = 0 /\ DOMAIN sockets = {} /\ started
  BY DEF AttemptFails, ClientInv, OneWait
<1>2. /\ state' = "disconnected" /\ reads' = 0
      /\ ScheduleRetry
      /\ UNCHANGED <<started, stopped, socket, sockets, devices, lastReportedCapacity,
                     core, coreToken, tokenFile>>
  BY <1>1 DEF AttemptFails, pluginVars, coreVars
<1>3. /\ (FlagsOK /\ OneWait)'
      /\ reconnectAttempt' \in Attempts
      /\ stopped' => timers' = 0
  BY <1>1, <1>2, ScheduleRetryWaits
<1>4. state' \in ClientStates /\ state' # "connected"
  BY <1>2 DEF ClientStates
<1> QED
  BY <1>1, <1>2, <1>3, <1>4, NoSocketKeepsInv

(* A socket is opened when there was none.                                 *)
LEMMA DialKeepsInv ==
  ASSUME ClientInv, Dial, DOMAIN sockets = {}, ~stopped, started, tokenFile # NoFile,
         reads' = 0, timers = 0,
         UNCHANGED <<state, started, stopped, reconnectAttempt, cancelPendingReconnect, timers,
                     devices, lastReportedCapacity, core, coreToken, tokenFile>>
  PROVE  ClientInv'
<1>1. PICK id \in SocketIds :
        /\ socket' = id
        /\ sockets' = [i \in {id} |-> [phase |-> "dialing", token |-> tokenFile,
                                       peer |-> NoPeer, told |-> Unreported]]
  <2>1. PICK id \in SocketIds \ DOMAIN sockets :
          /\ socket' = id
          /\ sockets' = [i \in DOMAIN sockets \union {id} |->
                           IF i = id
                             THEN [phase |-> "dialing", token |-> tokenFile,
                                   peer |-> NoPeer, told |-> Unreported]
                             ELSE sockets[i]]
    BY DEF Dial
  <2>2. DOMAIN sockets \union {id} = {id}
    OBVIOUS
  <2> QED
    BY <2>1, <2>2
<1>2. DOMAIN sockets' = {id} /\ sockets'[id].phase = "dialing"
  BY <1>1
<1>3. IsSocket(sockets'[id])
  BY <1>1, ClientAssumption
  DEF IsSocket, SocketPhases, ClientInv, WorldOK, Torn, NoFile, NoPeer
<1>4. SocketsOK'
  BY <1>1, <1>2, <1>3 DEF SocketsOK
<1>5. FlagsOK' /\ ClientOK' /\ WorldOK'
  BY <1>1 DEF ClientInv, FlagsOK, ClientOK, WorldOK
<1>6. OneWait' /\ SocketIsCurrent' /\ StopIsFinal'
  BY <1>1, <1>2 DEF ClientInv, OneWait, SocketIsCurrent, StopIsFinal
<1>7. state # "connected"
  BY NotConnectedAlone
<1>8. PhasesMean' /\ ConnectedMeansRegistered'
  BY <1>2, <1>7 DEF PhasesMean, ConnectedMeansRegistered
<1> QED
  BY <1>4, <1>5, <1>6, <1>8 DEF ClientInv

LEMMA OpenSocketKeepsInv == ClientInv /\ OpenSocket => ClientInv'
<1> SUFFICES ASSUME ClientInv, OpenSocket PROVE ClientInv'
  OBVIOUS
<1>1. reads = 1 /\ timers = 0 /\ DOMAIN sockets = {} /\ started
  BY DEF OpenSocket, ClientInv, OneWait
<1>2. /\ reads' = 0
      /\ UNCHANGED <<state, started, stopped, reconnectAttempt, cancelPendingReconnect, timers,
                     devices, lastReportedCapacity, core, coreToken, tokenFile>>
  BY <1>1 DEF OpenSocket, pluginVars, coreVars
<1>3. CASE stopped
  <2>1. UNCHANGED <<socket, sockets>>
    BY <1>3 DEF OpenSocket
  <2>2. FlagsOK' /\ OneWait'
    BY <1>1, <1>2, <1>3, <2>1 DEF ClientInv, FlagsOK, OneWait
  <2>3. state' = "disconnected" /\ reconnectAttempt' \in Attempts
    BY <1>2, <1>3 DEF ClientInv, StopIsFinal, ClientOK
  <2>4. state' \in ClientStates /\ state' # "connected"
    BY <2>3 DEF ClientStates
  <2> QED
    BY <1>1, <1>2, <2>1, <2>2, <2>3, <2>4, NoSocketKeepsInv
<1>4. CASE ~stopped
  BY <1>1, <1>2, <1>4, DialKeepsInv DEF OpenSocket
<1> QED
  BY <1>3, <1>4

-----------------------------------------------------------------------------
(* Socket events.                                                          *)

(* While stop() has not been called, a socket is the only one, and the     *)
(* current one.                                                            *)
LEMMA TheSocket ==
  ASSUME ClientInv, NEW id \in SocketIds, NEW phase, phase # "closed", InPhase(id, phase)
  PROVE  /\ id \in DOMAIN sockets /\ sockets[id].phase = phase
         /\ DOMAIN sockets = {id} /\ socket = id /\ socket # NoSocket
         /\ ~stopped /\ started /\ reads = 0 /\ timers = 0
         /\ state = "connected" => phase = "registered"
<1>1. id \in DOMAIN sockets /\ sockets[id].phase = phase
  BY DEF InPhase
<1>2. DOMAIN sockets = {id} /\ reads = 0 /\ timers = 0 /\ started
  BY <1>1 DEF ClientInv, OneWait
<1>3. ~stopped
  BY <1>1 DEF ClientInv, StopIsFinal
<1>4. socket = id /\ socket # NoSocket
  BY <1>1, <1>3, ClientAssumption DEF ClientInv, SocketIsCurrent
<1>5. state = "connected" => phase = "registered"
  BY <1>1, <1>4 DEF ClientInv, ConnectedMeansRegistered
<1> QED
  BY <1>1, <1>2, <1>3, <1>4, <1>5

LEMMA SocketConnectsKeepsInv ==
  ASSUME ClientInv, NEW id \in SocketIds, SocketConnects(id) PROVE ClientInv'
<1>1. /\ id \in DOMAIN sockets /\ sockets[id].phase = "dialing"
      /\ DOMAIN sockets = {id} /\ socket = id /\ ~stopped /\ started /\ reads = 0 /\ timers = 0
  BY TheSocket DEF SocketConnects
<1>2. IsSocket(sockets[id])
  BY <1>1 DEF ClientInv, SocketsOK
<1>3. /\ state' = "authenticating"
      /\ UNCHANGED <<started, stopped, reconnectAttempt, socket, cancelPendingReconnect, reads,
                     timers, devices, lastReportedCapacity, core, coreToken, tokenFile>>
      /\ sockets' = [sockets EXCEPT ![id].phase = "registering", ![id].peer = coreToken]
  BY DEF SocketConnects, pluginVars, coreVars
<1>4. /\ sockets' = [i \in DOMAIN sockets' |-> sockets'[i]]
      /\ DOMAIN sockets' = {id}
      /\ sockets'[id] = [phase |-> "registering", token |-> sockets[id].token,
                         peer |-> coreToken, told |-> sockets[id].told]
  BY <1>1, <1>2, <1>3 DEF ClientInv, SocketsOK, IsSocket
<1>5. IsSocket(sockets'[id]) /\ sockets'[id].phase = "registering"
  BY <1>2, <1>4 DEF IsSocket, SocketPhases, ClientInv, WorldOK
<1>6. SocketsOK'
  BY <1>4, <1>5 DEF ClientInv, SocketsOK
<1>7. FlagsOK' /\ ClientOK' /\ WorldOK'
  BY <1>3 DEF ClientInv, FlagsOK, ClientOK, ClientStates, WorldOK
<1>8. OneWait' /\ SocketIsCurrent' /\ StopIsFinal'
  BY <1>1, <1>3, <1>4 DEF ClientInv, OneWait, SocketIsCurrent, StopIsFinal
<1>9. PhasesMean' /\ ConnectedMeansRegistered'
  BY <1>3, <1>4, <1>5 DEF PhasesMean, ConnectedMeansRegistered
<1> QED
  BY <1>6, <1>7, <1>8, <1>9 DEF ClientInv

LEMMA RegisterAckArrivesKeepsInv ==
  ASSUME ClientInv, NEW id \in SocketIds, RegisterAckArrives(id) PROVE ClientInv'
<1> DEFINE moved == MoveTo(id, "registered")
<1>1. /\ id \in DOMAIN sockets /\ sockets[id].phase = "acked" /\ DOMAIN sockets = {id}
      /\ socket = id /\ socket # NoSocket /\ ~stopped /\ started /\ reads = 0 /\ timers = 0
  BY TheSocket DEF RegisterAckArrives
<1>2. /\ state' = "connected" /\ reconnectAttempt' = 0
      /\ lastReportedCapacity' = devices
      /\ sockets' = [moved EXCEPT ![id].told = devices]
      /\ UNCHANGED <<started, stopped, socket, cancelPendingReconnect, reads, timers, devices,
                     core, coreToken, tokenFile>>
  BY <1>1 DEF RegisterAckArrives, ReportDeviceCapacity, coreVars
<1>3. /\ moved = [i \in DOMAIN moved |-> moved[i]]
      /\ DOMAIN moved = {id}
      /\ IsSocket(moved[id])
      /\ moved[id].phase = "registered"
      /\ moved[id].token = sockets[id].token
      /\ moved[id].peer = sockets[id].peer
  BY <1>1, MoveToMoves DEF ClientInv, SocketPhases
<1>4. sockets[id].token = sockets[id].peer
  BY <1>1 DEF ClientInv, PhasesMean
<1> HIDE DEF moved
<1>5. /\ sockets' = [i \in DOMAIN sockets' |-> sockets'[i]]
      /\ DOMAIN sockets' = {id}
      /\ sockets'[id] = [phase |-> "registered", token |-> moved[id].token,
                         peer |-> moved[id].peer, told |-> devices]
  BY <1>2, <1>3 DEF IsSocket
<1>6. IsSocket(sockets'[id])
  BY <1>3, <1>5 DEF IsSocket, ClientInv, ClientOK
<1>7. SocketsOK'
  BY <1>1, <1>5, <1>6 DEF ClientInv, SocketsOK
<1>8. FlagsOK' /\ ClientOK' /\ WorldOK'
  BY <1>2 DEF ClientInv, FlagsOK, ClientOK, ClientStates, WorldOK, Attempts, SaturatedAttempt
<1>9. OneWait' /\ SocketIsCurrent' /\ StopIsFinal'
  BY <1>1, <1>2, <1>5 DEF ClientInv, OneWait, SocketIsCurrent, StopIsFinal
<1>10. PhasesMean' /\ ConnectedMeansRegistered'
  BY <1>1, <1>2, <1>3, <1>4, <1>5 DEF PhasesMean, ConnectedMeansRegistered
<1> QED
  BY <1>7, <1>8, <1>9, <1>10 DEF ClientInv

LEMMA RefusalArrivesKeepsInv ==
  ASSUME ClientInv, NEW id \in SocketIds, RefusalArrives(id) PROVE ClientInv'
<1>1. /\ id \in DOMAIN sockets /\ DOMAIN sockets = {id}
      /\ socket = id /\ socket # NoSocket /\ ~stopped /\ started /\ reads = 0 /\ timers = 0
  BY TheSocket DEF RefusalArrives
<1>2. /\ state' = "disconnected"
      /\ sockets' = MoveTo(id, "closed")
      /\ UNCHANGED <<started, stopped, reconnectAttempt, socket, cancelPendingReconnect, reads,
                     timers, devices, lastReportedCapacity, core, coreToken, tokenFile>>
  BY <1>1 DEF RefusalArrives, pluginVars, coreVars
<1>3. /\ sockets' = [i \in DOMAIN sockets' |-> sockets'[i]]
      /\ DOMAIN sockets' = {id}
      /\ IsSocket(sockets'[id])
      /\ sockets'[id].phase = "closed"
  BY <1>1, <1>2, MoveToMoves DEF ClientInv, SocketPhases
<1>4. SocketsOK'
  BY <1>1, <1>3 DEF ClientInv, SocketsOK
<1>5. FlagsOK' /\ ClientOK' /\ WorldOK'
  BY <1>2 DEF ClientInv, FlagsOK, ClientOK, ClientStates, WorldOK
<1>6. OneWait' /\ SocketIsCurrent' /\ StopIsFinal'
  BY <1>1, <1>2, <1>3 DEF ClientInv, OneWait, SocketIsCurrent, StopIsFinal
<1>7. PhasesMean' /\ ConnectedMeansRegistered'
  BY <1>2, <1>3 DEF PhasesMean, ConnectedMeansRegistered
<1> QED
  BY <1>4, <1>5, <1>6, <1>7 DEF ClientInv

LEMMA SocketClosesKeepsInv ==
  ASSUME ClientInv, NEW id \in SocketIds, SocketCloses(id) PROVE ClientInv'
<1>1. id \in DOMAIN sockets /\ DOMAIN sockets = {id} /\ started /\ reads = 0 /\ timers = 0
  BY DEF SocketCloses, InPhase, ClientInv, OneWait
<1>2. sockets' = [i \in {} |-> sockets[i]]
  BY <1>1 DEF SocketCloses
<1>3. /\ ScheduleRetry
      /\ socket' = NoSocket
      /\ state' = IF stopped THEN state ELSE "disconnected"
      /\ UNCHANGED <<started, stopped, reads, devices, lastReportedCapacity, core, coreToken,
                     tokenFile>>
  BY DEF SocketCloses, pluginVars, coreVars
<1>4. DOMAIN sockets' = {} /\ SocketsOK'
  BY <1>2 DEF SocketsOK
<1>5. /\ (FlagsOK /\ OneWait)'
      /\ reconnectAttempt' \in Attempts
      /\ stopped' => timers' = 0
  BY <1>1, <1>3, <1>4, ScheduleRetryWaits
<1>6. state' = "disconnected"
  BY <1>3 DEF ClientInv, StopIsFinal
<1>7. ClientOK' /\ WorldOK'
  BY <1>3, <1>5, <1>6 DEF ClientInv, ClientOK, ClientStates, WorldOK
<1>8. SocketIsCurrent' /\ StopIsFinal' /\ PhasesMean' /\ ConnectedMeansRegistered'
  BY <1>3, <1>4, <1>5, <1>6 DEF SocketIsCurrent, StopIsFinal, PhasesMean, ConnectedMeansRegistered
<1> QED
  BY <1>4, <1>5, <1>7, <1>8 DEF ClientInv

LEMMA CoreAnswersRegisterKeepsInv ==
  ASSUME ClientInv, NEW id \in SocketIds, CoreAnswersRegister(id) PROVE ClientInv'
<1> DEFINE answer == IF sockets[id].token = coreToken THEN "acked" ELSE "refused"
<1>1. InPhase(id, "registering") /\ sockets' = MoveTo(id, answer)
  BY DEF CoreAnswersRegister
<1>2. answer \in SocketPhases \ {"registered"}
  BY DEF SocketPhases
<1>3. answer = "acked" => sockets[id].token = sockets[id].peer
  BY DEF CoreAnswersRegister, PeerLives
<1> HIDE DEF answer
<1>4. id \in DOMAIN sockets /\ ~stopped
  BY <1>1, TheSocket
<1>5. state # "connected"
  <2>1. sockets[socket].phase = "registering"
    BY <1>1, TheSocket
  <2> QED
    BY <2>1 DEF ClientInv, ConnectedMeansRegistered
<1> QED
  BY <1>1, <1>2, <1>3, <1>4, <1>5, MoveKeepsInv DEF CoreAnswersRegister

LEMMA SocketEventKeepsInv ==
  ASSUME ClientInv, NEW id \in SocketIds, SocketEvent(id) PROVE ClientInv'
<1>1. CASE DialRefused(id)
  BY <1>1, MoveKeepsInv DEF DialRefused, InPhase, SocketPhases
<1>2. CASE ConnectionBreaks(id)
  BY <1>2, MoveKeepsInv DEF ConnectionBreaks, SocketPhases
<1> QED
  BY <1>1, <1>2, SocketConnectsKeepsInv, RegisterAckArrivesKeepsInv, RefusalArrivesKeepsInv,
     SocketClosesKeepsInv, CoreAnswersRegisterKeepsInv DEF SocketEvent

-----------------------------------------------------------------------------
(* stop(), the devices and the world.                                      *)

LEMMA StopKeepsInv == ClientInv /\ Stop => ClientInv'
<1> SUFFICES ASSUME ClientInv, Stop PROVE ClientInv'
  OBVIOUS
<1>1. /\ state' = "disconnected" /\ stopped' = TRUE /\ socket' = NoSocket
      /\ cancelPendingReconnect' = FALSE
      /\ UNCHANGED <<started, reconnectAttempt, reads, devices, lastReportedCapacity, core,
                     coreToken, tokenFile>>
  BY DEF Stop, pluginVars, coreVars
<1>2. timers' = 0 /\ started
  BY DEF Stop, ClientInv, OneWait
<1>3. /\ DOMAIN sockets' = DOMAIN sockets /\ SocketsOK'
      /\ \A id \in DOMAIN sockets : sockets'[id].phase = "closed"
  <2>1. CASE socket = NoSocket
    <3>1. \A id \in DOMAIN sockets : sockets[id].phase = "closed"
      BY <2>1, ClientAssumption DEF ClientInv, SocketIsCurrent, StopIsFinal, SocketsOK
    <3> QED
      BY <2>1, <3>1 DEF Stop, ClientInv, SocketsOK
  <2>2. CASE socket # NoSocket
    <3>1. socket \in DOMAIN sockets /\ sockets' = MoveTo(socket, "closed")
      BY <2>2 DEF Stop, ClientInv, SocketIsCurrent
    <3>2. /\ sockets' = [i \in DOMAIN sockets' |-> sockets'[i]]
          /\ DOMAIN sockets' = DOMAIN sockets
          /\ \A i \in DOMAIN sockets : IsSocket(sockets'[i])
          /\ sockets'[socket].phase = "closed"
      BY <3>1, MoveToMoves DEF ClientInv, SocketPhases
    <3>3. \A id \in DOMAIN sockets : id = socket
      BY <3>1 DEF ClientInv, OneWait
    <3> QED
      BY <3>2, <3>3 DEF ClientInv, SocketsOK
  <2> QED
    BY <2>1, <2>2
<1>4. FlagsOK' /\ ClientOK' /\ WorldOK'
  BY <1>1 DEF ClientInv, FlagsOK, ClientOK, ClientStates, WorldOK
<1>5. OneWait'
  BY <1>1, <1>2, <1>3 DEF ClientInv, OneWait
<1>6. SocketIsCurrent' /\ StopIsFinal' /\ PhasesMean' /\ ConnectedMeansRegistered'
  BY <1>1, <1>2, <1>3 DEF SocketIsCurrent, StopIsFinal, PhasesMean, ConnectedMeansRegistered
<1> QED
  BY <1>3, <1>4, <1>5, <1>6 DEF ClientInv

(* A report is remembered; it is written when the client is connected, and *)
(* then to the one socket.                                                 *)
LEMMA DeviceEventKeepsInv ==
  ASSUME ClientInv, NEW capacity \in Capacities, DeviceEvent(capacity) PROVE ClientInv'
<1>1. /\ devices' = capacity
      /\ UNCHANGED <<state, started, stopped, reconnectAttempt, socket, cancelPendingReconnect,
                     reads, timers, core, coreToken, tokenFile>>
  BY DEF DeviceEvent, coreVars
<1>2. lastReportedCapacity' = capacity
  BY DEF DeviceEvent, ReportDeviceCapacity
<1>3. FlagsOK' /\ ClientOK' /\ WorldOK'
  BY <1>1, <1>2 DEF ClientInv, FlagsOK, ClientOK, WorldOK
<1>4. CASE sockets' = sockets /\ ~(state = "connected" /\ socket # NoSocket)
  <2>1. \A id \in DOMAIN sockets : sockets[id].phase # "registered"
    <3>1. state # "connected"
      BY <1>4, ClientAssumption DEF ClientInv, ConnectedMeansRegistered, SocketsOK
    <3> QED
      BY <3>1 DEF ClientInv, PhasesMean
  <2> QED
    BY <1>1, <1>3, <1>4, <2>1 DEF ClientInv, SocketsOK, OneWait, SocketIsCurrent, StopIsFinal,
       PhasesMean, ConnectedMeansRegistered
<1>5. CASE sockets' = sockets /\ capacity = lastReportedCapacity
  BY <1>1, <1>2, <1>3, <1>5 DEF ClientInv, SocketsOK, OneWait, SocketIsCurrent, StopIsFinal,
     PhasesMean, ConnectedMeansRegistered
<1>6. CASE /\ state = "connected" /\ socket # NoSocket
           /\ sockets' = [sockets EXCEPT ![socket].told = capacity]
  <2>1. socket \in DOMAIN sockets /\ DOMAIN sockets = {socket} /\ IsSocket(sockets[socket])
    BY <1>6 DEF ClientInv, SocketIsCurrent, OneWait, SocketsOK
  <2>2. /\ sockets' = [i \in DOMAIN sockets' |-> sockets'[i]]
        /\ DOMAIN sockets' = DOMAIN sockets
        /\ sockets'[socket] = [phase |-> sockets[socket].phase, token |-> sockets[socket].token,
                               peer |-> sockets[socket].peer, told |-> capacity]
    BY <1>6, <2>1 DEF ClientInv, SocketsOK, IsSocket
  <2>3. IsSocket(sockets'[socket])
    BY <2>1, <2>2 DEF IsSocket
  <2>4. /\ sockets'[socket].phase = sockets[socket].phase
        /\ sockets'[socket].token = sockets[socket].token
        /\ sockets'[socket].peer = sockets[socket].peer
        /\ sockets'[socket].told = capacity
    BY <2>2
  <2>5. SocketsOK'
    BY <2>1, <2>2, <2>3 DEF ClientInv, SocketsOK
  <2>6. OneWait' /\ SocketIsCurrent' /\ StopIsFinal'
    BY <1>1, <2>1, <2>2, <2>4 DEF ClientInv, OneWait, SocketIsCurrent, StopIsFinal
  <2>7. PhasesMean' /\ ConnectedMeansRegistered'
    BY <1>1, <1>2, <1>6, <2>1, <2>2, <2>4 DEF ClientInv, PhasesMean, ConnectedMeansRegistered
  <2> QED
    BY <1>3, <2>5, <2>6, <2>7 DEF ClientInv
<1> QED
  BY <1>4, <1>5, <1>6 DEF DeviceEvent, ReportDeviceCapacity

(* The core's own steps touch neither the client nor a socket.             *)
LEMMA WorldKeepsInv ==
  ASSUME ClientInv, UNCHANGED <<clientVars, pluginVars>>, WorldOK'
  PROVE  ClientInv'
<1>1. UNCHANGED <<state, stopped, reconnectAttempt, socket, cancelPendingReconnect, reads, timers,
                  sockets, started, devices, lastReportedCapacity>>
  BY DEF clientVars, pluginVars
<1>2. FlagsOK' /\ ClientOK' /\ SocketsOK' /\ OneWait' /\ SocketIsCurrent'
  BY <1>1 DEF ClientInv, FlagsOK, ClientOK, SocketsOK, OneWait, SocketIsCurrent
<1>3. StopIsFinal' /\ PhasesMean' /\ ConnectedMeansRegistered'
  BY <1>1 DEF ClientInv, StopIsFinal, PhasesMean, ConnectedMeansRegistered
<1> QED
  BY <1>2, <1>3 DEF ClientInv

LEMMA CoreStepKeepsInv ==
  ASSUME ClientInv, CoreStarts \/ CoreWritesToken \/ CoreListens \/ CoreDies
  PROVE  ClientInv'
<1>1. WorldOK'
  BY ClientAssumption
     DEF ClientInv, WorldOK, CoreStarts, CoreWritesToken, CoreListens, CoreDies, Torn
<1> QED
  BY <1>1, WorldKeepsInv DEF CoreStarts, CoreWritesToken, CoreListens, CoreDies

LEMMA ClientInvStep == ClientInv /\ [Next]_vars => ClientInv'
<1> SUFFICES ASSUME ClientInv, [Next]_vars PROVE ClientInv'
  OBVIOUS
<1>1. CASE UNCHANGED vars
  <2>1. UNCHANGED <<clientVars, pluginVars>> /\ UNCHANGED <<core, coreToken, tokenFile>>
    BY <1>1 DEF vars, coreVars
  <2>2. WorldOK'
    BY <2>1 DEF ClientInv, WorldOK
  <2> QED
    BY <2>1, <2>2, WorldKeepsInv
<1>2. CASE Start \/ RetryTimerFires \/ AttemptFails \/ OpenSocket \/ Stop
  BY <1>2, StartKeepsInv, RetryTimerFiresKeepsInv, AttemptFailsKeepsInv, OpenSocketKeepsInv,
     StopKeepsInv
<1> QED
  BY <1>1, <1>2, SocketEventKeepsInv, DeviceEventKeepsInv, CoreStepKeepsInv DEF Next

LEMMA ClientInvAlways == Spec => []ClientInv
  BY ClientInvInit, ClientInvStep, PTL DEF Spec

-----------------------------------------------------------------------------
(* The theorems.                                                           *)

(* Every variable of the client, of the plugin's reports and of the core   *)
(* it meets is well typed.                                                 *)
THEOREM ClientTypeCorrect == Spec => []TypeOK
  BY ClientInvAlways, TypeParts, PTL

(* The client never gives up and never makes two attempts at once, however *)
(* reads, timers, socket events, stop() and core restarts interleave.      *)
THEOREM OneAttempt == Spec => []OneAttemptAtATime
  BY ClientInvAlways, OneWaitCounted, PTL

(* After stop() nothing is left that could connect again.                  *)
THEOREM ClientStopFinal == Spec => []StopIsFinal
<1>1. ClientInv => StopIsFinal
  BY DEF ClientInv
<1> QED
  BY <1>1, ClientInvAlways, PTL

(* What is written while `connected` goes to a core that acknowledged the  *)
(* plugin by that core's own token.                                        *)
THEOREM ConnectedIsRegistered == Spec => []ConnectedMeansRegistered
<1>1. ClientInv => ConnectedMeansRegistered
  BY DEF ClientInv
<1> QED
  BY <1>1, ClientInvAlways, PTL

(* The core the plugin is registered with knows the devices' capacity.     *)
THEOREM DevicesKnown == Spec => []CoreKnowsTheDevices
<1>1. ClientInv => CoreKnowsTheDevices
  BY DEF ClientInv, PhasesMean, CoreKnowsTheDevices
<1> QED
  BY <1>1, ClientInvAlways, PTL
=============================================================================
