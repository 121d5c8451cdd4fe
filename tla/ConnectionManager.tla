------------------------- MODULE ConnectionManager -------------------------
(***************************************************************************)
(* connection/connectionManager.ts: the connections gatoway-core tracks.   *)
(* `conns` is the Map from connection id to record, a function whose       *)
(* domain is the set of tracked ids.  Each operator below is the effect of *)
(* one method on it; the handlers of GatowayCore apply several of them in  *)
(* one step, in the order the code calls them.                             *)
(*                                                                         *)
(* Ids are random UUIDs.  Here the n-th accepted connection is number n,   *)
(* so that the Map's insertion order, which list() follows, is <.          *)
(***************************************************************************)
EXTENDS SlotContent

CONSTANTS
  MaxConnections,  (* bound: how many connections are ever accepted        *)
  PluginTypes      (* the strings register.pluginType may be               *)

ASSUME ConnectionsAssumption ==
  /\ MaxConnections \in Nat
  /\ Absent \notin PluginTypes

ConnId == 1..MaxConnections

(* The states of a tracked connection.  A record is born `connected`, but  *)
(* accept() walks it on before it returns; once `disconnected` it is in    *)
(* the Map no more.  Its transport is read by nothing but the log.         *)
LiveStates == {"authenticating", "authenticated"}

Transports == {"tcp", "websocket"}

IsRecord(record) ==
  /\ record = [state      |-> record.state,
               pluginType |-> record.pluginType,
               content    |-> record.content]
  /\ record.state \in LiveStates
  /\ record.pluginType \in PluginTypes \union {Absent}
  /\ IsContent(record.content)

Authenticated(conns, c) ==
  c \in DOMAIN conns /\ conns[c].state = "authenticated"

(* accept(): a WebSocket has passed the Origin check of its upgrade and is *)
(* walked straight through to authenticated; a TCP socket must register.   *)
Accept(conns, c, transport) ==
  [id \in DOMAIN conns \union {c} |->
     IF id = c
       THEN [state      |-> IF transport = "websocket" THEN "authenticated" ELSE "authenticating",
             pluginType |-> Absent,
             content    |-> NoContent]
       ELSE conns[id]]

Transition(conns, c, next) ==
  [id \in DOMAIN conns |->
     IF id = c THEN [conns[id] EXCEPT !.state = next] ELSE conns[id]]

(* Mutant: the record is built anew, and has to authenticate again.        *)
SetPluginInfoAfresh(conns, c, pluginType, content) ==
  [id \in DOMAIN conns |->
     IF id = c
       THEN [state |-> "authenticating", pluginType |-> pluginType, content |-> content]
       ELSE conns[id]]

(* Mutant: the content is kept by plugin type, not by connection.          *)
SetPluginInfoOfType(conns, c, pluginType, content) ==
  [id \in DOMAIN conns |->
     IF id = c \/ conns[id].pluginType = pluginType
       THEN [conns[id] EXCEPT !.pluginType = pluginType, !.content = content]
       ELSE conns[id]]

SetPluginInfo(conns, c, pluginType, content) ==
  [id \in DOMAIN conns |->
     IF id = c
       THEN [state |-> conns[id].state, pluginType |-> pluginType, content |-> content]
       ELSE conns[id]]

(* disconnect(): forgets the record.  An id that is not tracked has none.  *)
Disconnect(conns, c) == [id \in DOMAIN conns \ {c} |-> conns[id]]
=============================================================================
