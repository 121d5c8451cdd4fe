---------------------------- MODULE CoreClient ----------------------------
(***************************************************************************)
(* coreClient/coreClient.ts, the Stream Deck plugin's connection to        *)
(* gatoway-core, with the part of plugin.ts that reports the device's      *)
(* capacity over it.  Around them: the token file and the core process,    *)
(* which dies and comes back with a new token (index.ts, token.ts).        *)
(*                                                                         *)
(* Everything the client waits for is a step of its own: reading the token *)
(* file, the socket's connect, data and close events, the retry timer.     *)
(* Between any two of them the core may die or start, the device may       *)
(* change, and stop() may be called.                                       *)
(*                                                                         *)
(* Tokens are random; here the n-th core that starts has token n.  A read  *)
(* token that is no core's is Torn: the file was read while it was being   *)
(* written.                                                                *)
(***************************************************************************)
EXTENDS Backoff, FiniteSets

CONSTANTS
  SocketIds,        (* names for the sockets that exist at one time        *)
  NoSocket,         (* socket = undefined                                  *)
  Capacities,       (* what computeDeviceCapacity may return               *)
  EmptyCapacity,    (* no buttons, no dials: lastReportedCapacity at first *)
  Unreported,       (* no device_capacity has been written yet             *)
  MaxCores          (* bound: how many times the core is started           *)

ASSUME ClientAssumption ==
  /\ NoSocket \notin SocketIds
  /\ EmptyCapacity \in Capacities /\ Unreported \notin Capacities
  /\ MaxCores \in Nat

VARIABLES
  (* CoreClient *)
  state, stopped, reconnectAttempt,
  socket,                   (* the current socket's name                   *)
  cancelPendingReconnect,   (* is there a function to cancel the timer?    *)
  (* what the client waits for *)
  reads,                    (* token reads under way                       *)
  timers,                   (* retry timers running                        *)
  sockets,                  (* the sockets that have not closed            *)
  (* plugin.ts *)
  started, devices, lastReportedCapacity,
  (* the world *)
  core,                     (* what the core process does                  *)
  coreToken,                (* the token of the core started last          *)
  tokenFile                 (* what the token file holds                   *)

clientVars == <<state, stopped, reconnectAttempt, socket, cancelPendingReconnect,
                reads, timers, sockets>>
pluginVars == <<started, devices, lastReportedCapacity>>
coreVars == <<core, coreToken, tokenFile>>
vars == <<clientVars, pluginVars, coreVars>>

ClientStates == {"disconnected", "connecting", "authenticating", "connected"}

NoFile == 0
Torn == MaxCores + 1
NoPeer == 0

(* A socket is `dialing` until it connects; `registering` while register   *)
(* is on its way; `acked` or `refused` while the answer is; `registered`   *)
(* when the ack was read; `closed` while the close event is.  Its peer is  *)
(* the core it reached, by its token, or NoPeer.                           *)
SocketPhases == {"dialing", "registering", "acked", "refused", "registered", "closed"}

Init ==
  /\ state = "disconnected" /\ stopped = FALSE /\ reconnectAttempt = 0
  /\ socket = NoSocket /\ cancelPendingReconnect = FALSE
  /\ reads = 0 /\ timers = 0
  /\ sockets = [id \in {} |-> NoSocket]
  /\ started = FALSE
  /\ devices \in Capacities
  /\ lastReportedCapacity = EmptyCapacity
  /\ core = "down" /\ coreToken = 0 /\ tokenFile = NoFile

-----------------------------------------------------------------------------
(* The pieces of the client's methods.                                     *)

InPhase(id, phase) == id \in DOMAIN sockets /\ sockets[id].phase = phase

MoveTo(id, phase) == [sockets EXCEPT ![id].phase = phase]

(* connectOnce() up to its await.                                          *)
ConnectOnce ==
  IF stopped
    THEN UNCHANGED <<state, reads>>
    ELSE state' = "connecting" /\ reads' = reads + 1

(* scheduleRetry(): a second timer would leave the first uncancellable.    *)
ScheduleRetry ==
  IF stopped
    THEN UNCHANGED <<reconnectAttempt, timers, cancelPendingReconnect>>
    ELSE /\ reconnectAttempt' = NextAttempt(reconnectAttempt)
         /\ timers' = timers + 1
         /\ cancelPendingReconnect' = TRUE

(* reportDeviceCapacity() of plugin.ts, once the client is in nextState and *)
(* the sockets are nextSockets: what was reported is remembered also when  *)
(* sendDeviceCapacity() drops it.                                          *)
ReportDeviceCapacity(force, capacity, nextState, nextSockets) ==
  IF ~force /\ capacity = lastReportedCapacity
    THEN sockets' = nextSockets /\ UNCHANGED lastReportedCapacity
    ELSE /\ lastReportedCapacity' = capacity
         /\ sockets' = IF nextState = "connected" /\ socket # NoSocket
                         THEN [nextSockets EXCEPT ![socket].told = capacity]
                         ELSE nextSockets

-----------------------------------------------------------------------------
(* The client.                                                             *)

Start ==
  /\ ~started
  /\ started' = TRUE
  /\ stopped' = FALSE
  /\ ConnectOnce
  /\ UNCHANGED <<reconnectAttempt, socket, cancelPendingReconnect, timers, sockets,
                 devices, lastReportedCapacity, coreVars>>

RetryTimerFires ==
  /\ timers > 0
  /\ timers' = timers - 1
  /\ cancelPendingReconnect' = FALSE
  /\ ConnectOnce
  /\ UNCHANGED <<stopped, reconnectAttempt, socket, sockets, pluginVars, coreVars>>

(* Mutant: a failed attempt is not tried again.                            *)
AttemptFailsForGood ==
  /\ reads > 0
  /\ reads' = reads - 1
  /\ state' = "disconnected"
  /\ UNCHANGED <<stopped, reconnectAttempt, cancelPendingReconnect, timers, socket, sockets,
                 pluginVars, coreVars>>

(* The token file cannot be read, or connectFn throws.                     *)
AttemptFails ==
  /\ reads > 0
  /\ reads' = reads - 1
  /\ state' = "disconnected"
  /\ ScheduleRetry
  /\ UNCHANGED <<stopped, socket, sockets, pluginVars, coreVars>>

(* A socket is opened under a free name, to register with the token read.  *)
Dial ==
  \E id \in SocketIds \ DOMAIN sockets :
    /\ socket' = id
    /\ sockets' = [i \in DOMAIN sockets \union {id} |->
                     IF i = id
                       THEN [phase |-> "dialing", token |-> tokenFile,
                             peer |-> NoPeer, told |-> Unreported]
                       ELSE sockets[i]]

(* Mutant: stop() is not looked at again after the await.                  *)
OpenSocketRegardless ==
  /\ reads > 0 /\ tokenFile # NoFile
  /\ reads' = reads - 1
  /\ Dial
  /\ UNCHANGED <<state, stopped, reconnectAttempt, cancelPendingReconnect, timers,
                 pluginVars, coreVars>>

(* Mutant: a token file that is not there counts as an empty token.        *)
OpenSocketWithoutToken ==
  /\ reads > 0
  /\ reads' = reads - 1
  /\ IF stopped THEN UNCHANGED <<socket, sockets>> ELSE Dial
  /\ UNCHANGED <<state, stopped, reconnectAttempt, cancelPendingReconnect, timers,
                 pluginVars, coreVars>>

(* The token has been read.                                                *)
OpenSocket ==
  /\ reads > 0 /\ tokenFile # NoFile
  /\ reads' = reads - 1
  /\ IF stopped THEN UNCHANGED <<socket, sockets>> ELSE Dial
  /\ UNCHANGED <<state, stopped, reconnectAttempt, cancelPendingReconnect, timers,
                 pluginVars, coreVars>>

(* The connect event: register is written.                                 *)
SocketConnects(id) ==
  /\ InPhase(id, "dialing") /\ core = "listening"
  /\ state' = "authenticating"
  /\ sockets' = [sockets EXCEPT ![id].phase = "registering", ![id].peer = coreToken]
  /\ UNCHANGED <<stopped, reconnectAttempt, socket, cancelPendingReconnect, reads, timers,
                 pluginVars, coreVars>>

(* Mutant: the report at registration is left out when it repeats the last. *)
RegisterAckArrivesUnforced(id) ==
  /\ InPhase(id, "acked")
  /\ reconnectAttempt' = 0
  /\ state' = "connected"
  /\ ReportDeviceCapacity(FALSE, devices, state', MoveTo(id, "registered"))
  /\ UNCHANGED <<stopped, socket, cancelPendingReconnect, reads, timers,
                 started, devices, coreVars>>

(* register_ack "ok" is read; onRegistered reports the capacity.           *)
RegisterAckArrives(id) ==
  /\ InPhase(id, "acked")
  /\ reconnectAttempt' = 0
  /\ state' = "connected"
  /\ ReportDeviceCapacity(TRUE, devices, state', MoveTo(id, "registered"))
  /\ UNCHANGED <<stopped, socket, cancelPendingReconnect, reads, timers,
                 started, devices, coreVars>>

(* Mutant: the refusal schedules a retry, and so does the close event.     *)
RefusalRetriesTwice(id) ==
  /\ InPhase(id, "refused")
  /\ state' = "disconnected"
  /\ sockets' = IF socket = NoSocket THEN sockets ELSE MoveTo(socket, "closed")
  /\ ScheduleRetry
  /\ UNCHANGED <<stopped, socket, reads, pluginVars, coreVars>>

(* register_ack "rejected" is read: the retry is left to the close event.  *)
RefusalArrives(id) ==
  /\ InPhase(id, "refused")
  /\ state' = "disconnected"
  /\ sockets' = IF socket = NoSocket THEN sockets ELSE MoveTo(socket, "closed")
  /\ UNCHANGED <<stopped, reconnectAttempt, socket, cancelPendingReconnect, reads, timers,
                 pluginVars, coreVars>>

(* Mutant: the state is left to the next attempt.                          *)
SocketClosesUnnoticed(id) ==
  /\ InPhase(id, "closed")
  /\ sockets' = [i \in DOMAIN sockets \ {id} |-> sockets[i]]
  /\ socket' = NoSocket
  /\ ScheduleRetry
  /\ UNCHANGED <<state, stopped, reads, pluginVars, coreVars>>

(* The close event, after an error or a destroy() too.                     *)
SocketCloses(id) ==
  /\ InPhase(id, "closed")
  /\ sockets' = [i \in DOMAIN sockets \ {id} |-> sockets[i]]
  /\ socket' = NoSocket
  /\ state' = IF stopped THEN state ELSE "disconnected"
  /\ ScheduleRetry
  /\ UNCHANGED <<stopped, reads, pluginVars, coreVars>>

(* stop(), for every exit or signal that plugin.ts hears of.               *)
Stop ==
  /\ started
  /\ stopped' = TRUE
  /\ timers' = IF cancelPendingReconnect THEN timers - 1 ELSE timers
  /\ cancelPendingReconnect' = FALSE
  /\ sockets' = IF socket = NoSocket THEN sockets ELSE MoveTo(socket, "closed")
  /\ socket' = NoSocket
  /\ state' = "disconnected"
  /\ UNCHANGED <<reconnectAttempt, reads, pluginVars, coreVars>>

(* A device comes, goes or is swapped, or the SDK says so needlessly.      *)
DeviceEvent(capacity) ==
  /\ devices' = capacity
  /\ ReportDeviceCapacity(FALSE, capacity, state, sockets)
  /\ UNCHANGED <<state, stopped, reconnectAttempt, socket, cancelPendingReconnect, reads,
                 timers, started, coreVars>>

-----------------------------------------------------------------------------
(* The core process, as far as the client meets it.                        *)

(* It has a new token, and is about to write it or fails to open the file. *)
CoreStarts ==
  /\ core = "down" /\ coreToken < MaxCores
  /\ core' = "starting"
  /\ coreToken' = coreToken + 1
  /\ tokenFile' \in {tokenFile, Torn}
  /\ UNCHANGED <<clientVars, pluginVars>>

(* A write that fails is logged and no more.                               *)
CoreWritesToken ==
  /\ core = "starting"
  /\ core' = "binding"
  /\ tokenFile' \in {tokenFile, coreToken}
  /\ UNCHANGED <<coreToken, clientVars, pluginVars>>

CoreListens ==
  /\ core = "binding"
  /\ core' = "listening"
  /\ UNCHANGED <<coreToken, tokenFile, clientVars, pluginVars>>

CoreDies ==
  /\ core # "down"
  /\ core' = "down"
  /\ UNCHANGED <<coreToken, tokenFile, clientVars, pluginVars>>

PeerLives(id) == core = "listening" /\ sockets[id].peer = coreToken

(* The client hears of its core's death, perhaps after an answer the core  *)
(* had still given, perhaps when the next core is up.                      *)
ConnectionBreaks(id) ==
  /\ id \in DOMAIN sockets
  /\ sockets[id].phase \notin {"dialing", "closed"} /\ ~PeerLives(id)
  /\ sockets' = MoveTo(id, "closed")
  /\ UNCHANGED <<state, stopped, reconnectAttempt, socket, cancelPendingReconnect, reads,
                 timers, pluginVars, coreVars>>

(* handleRegister() of messageHandler.ts, for a TCP connection.            *)
CoreAnswersRegister(id) ==
  /\ InPhase(id, "registering") /\ PeerLives(id)
  /\ sockets' = MoveTo(id, IF sockets[id].token = coreToken THEN "acked" ELSE "refused")
  /\ UNCHANGED <<state, stopped, reconnectAttempt, socket, cancelPendingReconnect, reads,
                 timers, pluginVars, coreVars>>

(* Nobody listens at the port.                                             *)
DialRefused(id) ==
  /\ InPhase(id, "dialing") /\ core # "listening"
  /\ sockets' = MoveTo(id, "closed")
  /\ UNCHANGED <<state, stopped, reconnectAttempt, socket, cancelPendingReconnect, reads,
                 timers, pluginVars, coreVars>>

-----------------------------------------------------------------------------

SocketEvent(id) ==
  \/ SocketConnects(id)
  \/ RegisterAckArrives(id)
  \/ RefusalArrives(id)
  \/ SocketCloses(id)
  \/ CoreAnswersRegister(id)
  \/ DialRefused(id)
  \/ ConnectionBreaks(id)

Next ==
  \/ Start \/ RetryTimerFires \/ AttemptFails \/ OpenSocket \/ Stop
  \/ \E id \in SocketIds : SocketEvent(id)
  \/ \E capacity \in Capacities : DeviceEvent(capacity)
  \/ CoreStarts \/ CoreWritesToken \/ CoreListens \/ CoreDies

(* Timers fire, reads end, socket events are delivered, a listening core   *)
(* answers.  Reading a token file that is there does not fail for ever.    *)
(* Nothing is assumed of the core's starting or staying up.                *)
Fairness ==
  /\ WF_vars(RetryTimerFires)
  /\ WF_vars(AttemptFails \/ OpenSocket)
  /\ SF_vars(OpenSocket)
  /\ \A id \in SocketIds : WF_vars(SocketEvent(id))

Spec == Init /\ [][Next]_vars /\ Fairness

-----------------------------------------------------------------------------

IsSocket(s) ==
  /\ s = [phase |-> s.phase, token |-> s.token, peer |-> s.peer, told |-> s.told]
  /\ s.phase \in SocketPhases
  /\ s.token \in 1..Torn /\ s.peer \in 0..MaxCores
  /\ s.told \in Capacities \union {Unreported}

TypeOK ==
  /\ state \in ClientStates
  /\ {stopped, cancelPendingReconnect, started} \subseteq BOOLEAN
  /\ reconnectAttempt \in Attempts
  /\ socket \in SocketIds \union {NoSocket}
  /\ reads \in Nat /\ timers \in Nat
  /\ DOMAIN sockets \subseteq SocketIds
  /\ \A id \in DOMAIN sockets : IsSocket(sockets[id])
  /\ {devices, lastReportedCapacity} \subseteq Capacities
  /\ core \in {"down", "starting", "binding", "listening"}
  /\ coreToken \in 0..MaxCores /\ tokenFile \in 0..Torn

(* Between start() and stop() there is always exactly one thing to wait    *)
(* for that leads to the next connection attempt or away from the present  *)
(* one: the client neither gives up nor ever makes two attempts at once.   *)
(* After stop() nothing begins any more.                                   *)
Pending == reads + timers + Cardinality(DOMAIN sockets)

OneAttemptAtATime ==
  /\ Pending <= 1
  /\ (started /\ ~stopped) => Pending = 1

(* A stop() during the token read, a timer, a handshake or a connection    *)
(* is final: no timer is left, no socket stays open or is opened again,    *)
(* and no late event makes the client believe it is connected.             *)
StopIsFinal ==
  stopped =>
    /\ state = "disconnected"
    /\ timers = 0
    /\ \A id \in DOMAIN sockets : sockets[id].phase = "closed"

(* What `state = "connected"` lets through (input_event, device_capacity)  *)
(* is written to a socket on which its core has acknowledged the plugin by *)
(* that core's own token, never to one still in its handshake: or the      *)
(* socket has just been closed.                                            *)
ConnectedMeansRegistered ==
  state = "connected" =>
    /\ socket \in DOMAIN sockets
    /\ sockets[socket].phase \in {"registered", "closed"}
    /\ sockets[socket].phase = "registered" =>
         sockets[socket].token = sockets[socket].peer

(* The core a plugin is registered with has been told the capacity the     *)
(* devices have now, also when they changed while there was no connection, *)
(* and when the report was dropped but remembered as sent.                 *)
CoreKnowsTheDevices ==
  \A id \in DOMAIN sockets :
    sockets[id].phase = "registered" => sockets[id].told = devices

(* If from some time on a core listens whose token is in the file, the     *)
(* plugin ends up registered with it and stays so: a torn or outdated      *)
(* token, a lost handshake or a backed-off timer only delays it.           *)
CoreStaysUp == started /\ ~stopped /\ core = "listening" /\ tokenFile = coreToken

EventuallyRegistered == <>[]CoreStaysUp => <>[](state = "connected")
=============================================================================
