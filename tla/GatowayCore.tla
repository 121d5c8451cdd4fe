---------------------------- MODULE GatowayCore ----------------------------
(***************************************************************************)
(* gatoway-core as one state machine: messageHandler.ts drives             *)
(* ConnectionManager, FocusTracker and ProfileRouter, as wired by          *)
(* index.ts.  Node runs every handler to its end before the next one       *)
(* starts, so a handler is one action.  The clients are not modelled: any  *)
(* connection may send any message at any time, and may go at any time.    *)
(***************************************************************************)
EXTENDS ProfileRouter

CONSTANTS
  Declarations,   (* the maps a register message may declare as content    *)
  Reports         (* the reports a device_capacity message may carry       *)

ASSUME InputsAssumption ==
  /\ \A d \in Declarations : d = [key \in DOMAIN d |-> d[key]]
  /\ Absent \notin Declarations /\ Null \notin Declarations
  /\ Reports \subseteq Report
  /\ NoFocus \notin ConnId

VARIABLES
  accepted,    (* how many connections have been accepted so far           *)
  conns,       (* ConnectionManager.connections                            *)
  focused,     (* FocusTracker.focusedConnectionId                         *)
  capacity,    (* ProfileRouter.latestCapacity                             *)
  out          (* what the last handler wrote to each connection           *)

vars == <<accepted, conns, focused, capacity, out>>

Declared == Declarations \union {Absent, Null}

Init ==
  /\ accepted = 0
  /\ conns = [c \in {} |-> Absent]
  /\ focused = NoFocus
  /\ capacity = Absent
  /\ out = Silence

(* A socket is accepted (tcp), or an upgrade has passed its Origin check.  *)
AcceptConnection(transport) ==
  /\ accepted < MaxConnections
  /\ accepted' = accepted + 1
  /\ conns' = Accept(conns, accepted + 1, transport)
  /\ out' = Silence
  /\ UNCHANGED <<focused, capacity>>

(* The connection is forgotten after `reply` was written to it: manager's  *)
(* disconnect() calls the router's handleDisconnect before it returns.     *)
Drop(c, reply) ==
  /\ conns' = Disconnect(conns, c)
  /\ focused' = ClearIfFocused(focused, c)
  /\ out' = Then(SendTo(c, reply), HandleDisconnect(conns', focused, focused', capacity))
  /\ UNCHANGED <<accepted, capacity>>

(* The socket's close event.  For a connection the core has dropped itself *)
(* the event comes later and finds nothing to do.                          *)
SocketClosed(c) ==
  /\ c \in DOMAIN conns
  /\ Drop(c, <<>>)

(* A line that decodeMessage refuses.                                      *)
MalformedBeforeAuth(c) ==
  /\ c \in DOMAIN conns
  /\ conns[c].state = "authenticating"
  /\ Drop(c, <<>>)

MalformedMessage(c) ==
  /\ Authenticated(conns, c)
  /\ out' = SendTo(c, <<ErrorMessage({})>>)
  /\ UNCHANGED <<accepted, conns, focused, capacity>>

NonRegisterBeforeAuth(c) ==
  /\ c \in DOMAIN conns
  /\ conns[c].state = "authenticating"
  /\ Drop(c, <<>>)

(* register with a token that is not the current one, before the           *)
(* connection is authenticated.                                            *)
RegisterRefused(c) ==
  /\ c \in DOMAIN conns
  /\ conns[c].state = "authenticating"
  /\ Drop(c, <<RegisterAck("rejected")>>)

(* What a successful register is answered with: the ack, an error that     *)
(* names the refused entries if there are any, then the router's share.    *)
RegistrationReply(c, rejected) ==
  SendTo(c, <<RegisterAck("ok")>> \o
            (IF rejected = {} THEN <<>> ELSE <<ErrorMessage(rejected)>>))

(* register with the right token, or on a connection already authenticated *)
(* (where the token is not looked at).                                     *)
Register(c, pluginType, declared) ==
  /\ c \in DOMAIN conns
  /\ LET resolved == ResolveContent(declared, conns[c].content, GetSlotCapacity(capacity))
         informed == SetPluginInfo(conns, c, pluginType, resolved.content)
     IN /\ conns' = IF conns[c].state = "authenticated" THEN informed
                    ELSE Transition(informed, c, "authenticated")
        /\ out' = Then(RegistrationReply(c, resolved.rejected),
                       HandleRegistered(conns', focused, capacity, c))
  /\ UNCHANGED <<accepted, focused, capacity>>

(* Mutant: the focus is taken before the connection has authenticated.     *)
FocusOfAnyone(c, gained) ==
  /\ c \in DOMAIN conns
  /\ focused' = ReportFocus(focused, c, gained)
  /\ out' = HandleFocus(conns, focused, focused', capacity)
  /\ UNCHANGED <<accepted, conns, capacity>>

Focus(c, gained) ==
  /\ Authenticated(conns, c)
  /\ focused' = ReportFocus(focused, c, gained)
  /\ out' = HandleFocus(conns, focused, focused', capacity)
  /\ UNCHANGED <<accepted, conns, capacity>>

(* input_event: whoever sends it.                                          *)
InputEvent(c, ctrl, position) ==
  /\ Authenticated(conns, c)
  /\ out' = HandleInputEvent(conns, focused, capacity, ctrl, position)
  /\ UNCHANGED <<accepted, conns, focused, capacity>>

(* device_capacity, from a connection that registered as the Stream Deck.  *)
DeviceCapacity(c, report) ==
  /\ IsStreamDeck(conns, c)
  /\ capacity' = report
  /\ out' = BroadcastSlotCapacity(conns, report)
  /\ UNCHANGED <<accepted, conns, focused>>

(* Messages without effect: device_capacity from another plugin, error,    *)
(* the core's own message types, anything on a dropped connection.         *)
Ignored(c) ==
  /\ \/ Authenticated(conns, c)
     \/ c \in 1..accepted /\ c \notin DOMAIN conns
  /\ out' = Silence
  /\ UNCHANGED <<accepted, conns, focused, capacity>>

Handle(c) ==
  \/ SocketClosed(c)
  \/ MalformedBeforeAuth(c)
  \/ MalformedMessage(c)
  \/ NonRegisterBeforeAuth(c)
  \/ RegisterRefused(c)
  \/ \E pluginType \in PluginTypes, declared \in Declared : Register(c, pluginType, declared)
  \/ \E gained \in BOOLEAN : Focus(c, gained)
  \/ \E ctrl \in Controllers, position \in Positions : InputEvent(c, ctrl, position)
  \/ \E report \in Reports : DeviceCapacity(c, report)
  \/ Ignored(c)

Next ==
  \/ \E transport \in Transports : AcceptConnection(transport)
  \/ \E c \in ConnId : Handle(c)

Spec == Init /\ [][Next]_vars

-----------------------------------------------------------------------------
(* What the messages of a step are.                                        *)
Messages(box, c) == {box[c][i] : i \in DOMAIN box[c]}
Renders(box, c) == {m \in Messages(box, c) : m.type = "render_update"}

(* Every variable holds what the code can put there.  A record's content   *)
(* is valid whatever was declared: each key a canonical label, each value  *)
(* well-shaped, no state on a dial.                                        *)
TypeOK ==
  /\ accepted \in 0..MaxConnections
  /\ conns = [c \in DOMAIN conns |-> conns[c]]
  /\ DOMAIN conns \subseteq 1..accepted
  /\ \A c \in DOMAIN conns : IsRecord(conns[c])
  /\ focused \in ConnId \union {NoFocus}
  /\ capacity \in Capacity
  /\ DOMAIN out = ConnId

(* The focus never rests on a connection that has gone or was never        *)
(* authenticated, whichever way it went: the "focused connection missing"  *)
(* branch of handleInputEvent is dead, and no sweep shows a ghost.         *)
FocusedIsAuthenticated ==
  focused # NoFocus => Authenticated(conns, focused)

(* A peer that is not authenticated when a handler ends was written        *)
(* nothing by it, or the one refusal of its token: no broadcast, sweep,    *)
(* command or error reaches a connection still authenticating or gone.     *)
OutsidersHearOnlyRefusal ==
  \A c \in ConnId :
    ~Authenticated(conns, c) => out[c] \in {<<>>, <<RegisterAck("rejected")>>}

(* A handler paints at most one display, and only a registered one: with   *)
(* two Stream Deck connections tracked, one sweep never splits.            *)
OneDisplayIsPainted ==
  \A c, d \in ConnId :
    Renders(out, c) # {} =>
      /\ IsStreamDeck(conns, c)
      /\ Renders(out, d) # {} => c = d

(* PROTOCOL.md: "Until `register` is sent, the connection is also          *)
(* unauthenticated and cannot send any other message type (it is simply    *)
(* disconnected if it tries)".  A WebSocket is authenticated as soon as it *)
(* is accepted, and may take the focus without ever registering.           *)
UnregisteredHoldsNoFocus ==
  Authenticated(conns, focused) => conns[focused].pluginType # Absent

(* Where a connection stands in STATE_ORDER, 0 before it is accepted.      *)
Rank(c) ==
  IF c > accepted THEN 0
  ELSE IF c \notin DOMAIN conns THEN 4
  ELSE IF conns[c].state = "authenticated" THEN 3
  ELSE 2

(* A connection only ever moves forward in STATE_ORDER; no handler brings  *)
(* one back that was disconnected, or makes it authenticate twice.         *)
LifecycleOnlyForward == [][\A c \in ConnId : Rank(c)' >= Rank(c)]_vars

(* Nobody else's message changes what a connection declared: its type and  *)
(* its content differ after a step only if the step acknowledged a         *)
(* register to that very connection.                                       *)
DeclarationsAreOnesOwn ==
  [][\A c \in DOMAIN conns \intersect DOMAIN conns' :
       \/ conns'[c].pluginType = conns[c].pluginType /\ conns'[c].content = conns[c].content
       \/ RegisterAck("ok") \in Messages(out', c)]_vars

-----------------------------------------------------------------------------
(* What focus tracking promises, with everything else forgotten.           *)
Arbiter == INSTANCE FocusArbiter
             WITH live <- {c \in DOMAIN conns : Authenticated(conns, c)},
                  gone <- (1..accepted) \ DOMAIN conns,
                  holder <- focused

(* The core is a focus arbiter.                                            *)
ImplementsFocusArbiter == Arbiter!Spec
=============================================================================
