------------------------- MODULE GatowayCoreProofs -------------------------
(***************************************************************************)
(* Theorems about GatowayCore, for any number of connections and whatever  *)
(* they send.                                                              *)
(*                                                                         *)
(* The first half is about its state: the variables are well typed, the    *)
(* focus is always with an authenticated connection, a connection only     *)
(* moves forward through its lifecycle, and the core implements a focus    *)
(* arbiter.  The lemmas follow the modules: what an operator of            *)
(* SlotContent, ConnectionManager, FocusTracker or ProfileRouter returns.  *)
(* The theorems then have one step per action of GatowayCore.              *)
(*                                                                         *)
(* The second half is about what it writes: nobody unauthenticated hears   *)
(* anything but a refusal, a step paints one display at most, and who      *)
(* declares something is told so.  The lemmas in between say what an       *)
(* outbox holds for everyone, what every step writes (StepWrites), and     *)
(* what a RenderStore shows once a sequence of messages is read:           *)
(* PeerViewsProofs and DeckLinkProofs rest on them.                        *)
(***************************************************************************)
EXTENDS GatowayCore, DeckFace, SequenceTheorems, WellFoundedInduction, TLAPS

(* The connection map of a core that has accepted n connections.           *)
Tracked(cs, n) ==
  /\ cs = [c \in DOMAIN cs |-> cs[c]]
  /\ DOMAIN cs \subseteq 1..n
  /\ \A c \in DOMAIN cs : IsRecord(cs[c])

-----------------------------------------------------------------------------
(* What the connection manager's operators return.                         *)

(* Whatever a register message declares, the content kept is valid.        *)
LEMMA ResolveContentIsContent ==
  ASSUME NEW declared, NEW current, NEW counts, IsContent(current)
  PROVE  IsContent(ResolveContent(declared, current, counts).content)
<1>1. IsContent(NoContent)
  BY DEF IsContent, NoContent
<1>2. ASSUME declared # Absent, declared # Null
      PROVE  IsContent([key \in Accepted(declared, counts) |-> declared[key]])
  BY DEF IsContent, Accepted, ValidateSlotContentEntry
<1> QED
  BY <1>1, <1>2 DEF ResolveContent

(* A map stays one of valid records when a connection is accepted.         *)
LEMMA AcceptTracked ==
  ASSUME NEW cs, NEW n \in Nat, Tracked(cs, n), NEW transport \in Transports
  PROVE  Tracked(Accept(cs, n + 1, transport), n + 1)
<1> DEFINE ds == Accept(cs, n + 1, transport)
<1>1. IsContent(NoContent)
  BY DEF IsContent, NoContent
<1>2. DOMAIN ds = DOMAIN cs \union {n + 1}
  BY DEF Accept
<1>3. IsRecord(ds[n + 1])
  BY <1>1 DEF Accept, IsRecord, LiveStates
<1>4. ASSUME NEW c \in DOMAIN cs PROVE IsRecord(ds[c])
  BY DEF Tracked, Accept
<1> QED
  BY <1>2, <1>3, <1>4 DEF Tracked, Accept

(* ... when a connection moves to another state it may be tracked in.      *)
LEMMA TransitionTracked ==
  ASSUME NEW cs, NEW n \in Nat, Tracked(cs, n), NEW c, NEW next \in LiveStates
  PROVE  Tracked(Transition(cs, c, next), n)
<1>1. ASSUME NEW id \in DOMAIN cs PROVE IsRecord(Transition(cs, c, next)[id])
  BY DEF Tracked, Transition, IsRecord
<1> QED
  BY <1>1 DEF Tracked, Transition

(* ... when a connection declares itself.                                  *)
LEMMA SetPluginInfoTracked ==
  ASSUME NEW cs, NEW n \in Nat, Tracked(cs, n), NEW c,
         NEW pluginType \in PluginTypes, NEW content, IsContent(content)
  PROVE  Tracked(SetPluginInfo(cs, c, pluginType, content), n)
<1>1. ASSUME NEW id \in DOMAIN cs
      PROVE  IsRecord(SetPluginInfo(cs, c, pluginType, content)[id])
  BY DEF Tracked, SetPluginInfo, IsRecord
<1> QED
  BY <1>1 DEF Tracked, SetPluginInfo

(* ... and when a connection is forgotten.                                 *)
LEMMA DisconnectTracked ==
  ASSUME NEW cs, NEW n \in Nat, Tracked(cs, n), NEW c
  PROVE  Tracked(Disconnect(cs, c), n)
  BY DEF Tracked, Disconnect

-----------------------------------------------------------------------------
(* Every handler answers with an outbox: a sequence for each connection.   *)

LEMMA OutboxOperators ==
  /\ DOMAIN Silence = ConnId
  /\ \A c, messages : DOMAIN SendTo(c, messages) = ConnId
  /\ \A first, second : DOMAIN Then(first, second) = ConnId
  BY DEF Silence, SendTo, Then

LEMMA HandlersAnswer ==
  ASSUME NEW cs, NEW before, NEW after, NEW cap, NEW c, NEW ctrl, NEW position
  PROVE  /\ DOMAIN HandleFocus(cs, before, after, cap) = ConnId
         /\ DOMAIN HandleInputEvent(cs, before, cap, ctrl, position) = ConnId
         /\ DOMAIN BroadcastSlotCapacity(cs, cap) = ConnId
  BY OutboxOperators DEF HandleFocus, HandleInputEvent, BroadcastSlotCapacity

-----------------------------------------------------------------------------
(* Type correctness.                                                       *)

LEMMA InitTypeOK == Init => TypeOK
  BY OutboxOperators, ConnectionsAssumption
  DEF Init, TypeOK, Capacity

LEMMA DropTypeOK ==
  ASSUME TypeOK, NEW c \in ConnId, NEW reply, Drop(c, reply)
  PROVE  TypeOK'
<1>1. accepted \in Nat /\ Tracked(conns, accepted)
  BY ConnectionsAssumption DEF TypeOK, Tracked
<1>2. Tracked(conns', accepted)
  BY <1>1, DisconnectTracked DEF Drop
<1>3. focused' \in ConnId \union {NoFocus}
  BY DEF TypeOK, Drop, ClearIfFocused
<1>4. DOMAIN out' = ConnId
  BY OutboxOperators DEF Drop
<1> QED
  BY <1>2, <1>3, <1>4 DEF TypeOK, Drop, Tracked

LEMMA RegisterTypeOK ==
  ASSUME TypeOK, NEW c \in ConnId, NEW pluginType \in PluginTypes,
         NEW declared \in Declared, Register(c, pluginType, declared)
  PROVE  TypeOK'
<1> DEFINE content == ResolveContent(declared, conns[c].content, GetSlotCapacity(capacity)).content
           informed == SetPluginInfo(conns, c, pluginType, content)
<1>1. accepted \in Nat /\ Tracked(conns, accepted)
  BY ConnectionsAssumption DEF TypeOK, Tracked
<1>2. IsContent(content)
  BY <1>1, ResolveContentIsContent DEF Register, Tracked, IsRecord
<1>3. Tracked(informed, accepted)
  BY <1>1, <1>2, SetPluginInfoTracked
<1>4. Tracked(Transition(informed, c, "authenticated"), accepted)
  BY <1>1, <1>3, TransitionTracked DEF LiveStates
<1>5. Tracked(conns', accepted)
  BY <1>3, <1>4 DEF Register
<1>6. DOMAIN out' = ConnId
  BY OutboxOperators DEF Register
<1> QED
  BY <1>5, <1>6 DEF TypeOK, Register, Tracked

LEMMA HandleTypeOK ==
  ASSUME TypeOK, NEW c \in ConnId, Handle(c)
  PROVE  TypeOK'
<1>1. CASE SocketClosed(c) \/ MalformedBeforeAuth(c) \/ NonRegisterBeforeAuth(c)
           \/ RegisterRefused(c)
  BY <1>1, DropTypeOK
  DEF SocketClosed, MalformedBeforeAuth, NonRegisterBeforeAuth, RegisterRefused
<1>2. CASE MalformedMessage(c)
  BY <1>2, OutboxOperators DEF MalformedMessage, TypeOK
<1>3. CASE \E pluginType \in PluginTypes, declared \in Declared : Register(c, pluginType, declared)
  BY <1>3, RegisterTypeOK
<1>4. ASSUME NEW gained \in BOOLEAN, Focus(c, gained) PROVE TypeOK'
  <2>1. focused' \in ConnId \union {NoFocus}
    BY <1>4 DEF Focus, TypeOK, ReportFocus
  <2>2. DOMAIN out' = ConnId
    BY <1>4, HandlersAnswer DEF Focus
  <2> QED
    BY <1>4, <2>1, <2>2 DEF Focus, TypeOK
<1>5. ASSUME NEW ctrl \in Controllers, NEW position \in Positions, InputEvent(c, ctrl, position)
      PROVE  TypeOK'
  BY <1>5, HandlersAnswer DEF InputEvent, TypeOK
<1>6. ASSUME NEW report \in Reports, DeviceCapacity(c, report) PROVE TypeOK'
  BY <1>6, HandlersAnswer, InputsAssumption DEF DeviceCapacity, TypeOK, Capacity
<1>7. CASE Ignored(c)
  BY <1>7, OutboxOperators DEF Ignored, TypeOK
<1> QED
  BY <1>1, <1>2, <1>3, <1>4, <1>5, <1>6, <1>7 DEF Handle

LEMMA NextTypeOK == TypeOK /\ [Next]_vars => TypeOK'
<1> SUFFICES ASSUME TypeOK, [Next]_vars PROVE TypeOK'
  OBVIOUS
<1>1. ASSUME NEW transport \in Transports, AcceptConnection(transport) PROVE TypeOK'
  <2>1. accepted \in Nat /\ Tracked(conns, accepted)
    BY ConnectionsAssumption DEF TypeOK, Tracked
  <2>2. Tracked(conns', accepted')
    BY <1>1, <2>1, AcceptTracked DEF AcceptConnection
  <2>3. accepted' \in 0..MaxConnections
    BY <1>1, ConnectionsAssumption DEF AcceptConnection, TypeOK
  <2> QED
    BY <1>1, <2>2, <2>3, OutboxOperators DEF AcceptConnection, TypeOK, Tracked
<1>2. ASSUME NEW c \in ConnId, Handle(c) PROVE TypeOK'
  BY <1>2, HandleTypeOK
<1>3. CASE UNCHANGED vars
  BY <1>3 DEF vars, TypeOK
<1> QED
  BY <1>1, <1>2, <1>3 DEF Next

(* Every variable of the core is well typed, and the content of every      *)
(* connection is valid, whatever the clients send and in whatever order.   *)
THEOREM TypeCorrect == Spec => []TypeOK
<1>1. Init => TypeOK
  BY InitTypeOK
<1>2. TypeOK /\ [Next]_vars => TypeOK'
  BY NextTypeOK
<1> QED
  BY <1>1, <1>2, PTL DEF Spec

-----------------------------------------------------------------------------
(* What each operation does to who is authenticated, and to who is tracked. *)

LEMMA AcceptEffect ==
  ASSUME NEW cs, NEW n, n \notin DOMAIN cs, NEW transport \in Transports
  PROVE  /\ DOMAIN Accept(cs, n, transport) = DOMAIN cs \union {n}
         /\ Authenticated(Accept(cs, n, transport), n) <=> transport = "websocket"
         /\ \A id : id # n => (Authenticated(Accept(cs, n, transport), id) <=> Authenticated(cs, id))
  BY DEF Accept, Authenticated

LEMMA DisconnectEffect ==
  ASSUME NEW cs, NEW c
  PROVE  /\ DOMAIN Disconnect(cs, c) = DOMAIN cs \ {c}
         /\ \A id : Authenticated(Disconnect(cs, c), id) <=> (id # c /\ Authenticated(cs, id))
  BY DEF Disconnect, Authenticated

LEMMA RegisterEffect ==
  ASSUME TypeOK, NEW c \in ConnId, NEW pluginType \in PluginTypes, NEW declared \in Declared,
         Register(c, pluginType, declared)
  PROVE  /\ DOMAIN conns' = DOMAIN conns
         /\ c \in DOMAIN conns
         /\ Authenticated(conns', c) /\ conns'[c].pluginType = pluginType
         /\ \A id : id # c => (Authenticated(conns', id) <=> Authenticated(conns, id))
         /\ \A id \in DOMAIN conns \ {c} : conns'[id] = conns[id]
<1> DEFINE content == ResolveContent(declared, conns[c].content, GetSlotCapacity(capacity)).content
           informed == SetPluginInfo(conns, c, pluginType, content)
<1>1. /\ DOMAIN informed = DOMAIN conns
      /\ \A id \in DOMAIN conns \ {c} : informed[id] = conns[id]
      /\ c \in DOMAIN conns
      /\ informed[c].state = conns[c].state
      /\ informed[c] = [state |-> conns[c].state, pluginType |-> pluginType, content |-> content]
  BY DEF SetPluginInfo, Register
<1>2. CASE conns[c].state = "authenticated"
  <2>1. conns' = informed
    BY <1>2 DEF Register
  <2> HIDE DEF informed
  <2> QED
    BY <1>1, <1>2, <2>1 DEF Authenticated
<1>3. CASE conns[c].state # "authenticated"
  <2>1. conns' = Transition(informed, c, "authenticated")
    BY <1>3 DEF Register
  <2> HIDE DEF informed
  <2>2. /\ DOMAIN conns' = DOMAIN conns
        /\ \A id \in DOMAIN conns \ {c} : conns'[id] = conns[id]
        /\ conns'[c] = [informed[c] EXCEPT !.state = "authenticated"]
    BY <1>1, <2>1 DEF Transition
  <2>3. conns'[c].state = "authenticated"
    BY <1>1, <2>2
  <2> QED
    BY <1>1, <2>2, <2>3 DEF Authenticated
<1> QED
  BY <1>2, <1>3

(* The steps that leave the connections and the focus alone.               *)
Inert(c) ==
  \/ MalformedMessage(c)
  \/ \E ctrl \in Controllers, position \in Positions : InputEvent(c, ctrl, position)
  \/ \E report \in Reports : DeviceCapacity(c, report)
  \/ Ignored(c)

(* The steps in which the core forgets a connection.                       *)
Gone(c) == c \in DOMAIN conns /\ \E reply : Drop(c, reply)

LEMMA HandleCases ==
  ASSUME NEW c \in ConnId, Handle(c)
  PROVE  \/ Gone(c)
         \/ \E pluginType \in PluginTypes, declared \in Declared : Register(c, pluginType, declared)
         \/ \E gained \in BOOLEAN : Focus(c, gained)
         \/ Inert(c)
  BY DEF Handle, Gone, Inert, SocketClosed, MalformedBeforeAuth, NonRegisterBeforeAuth,
         RegisterRefused

LEMMA InertFrame ==
  ASSUME NEW c \in ConnId, Inert(c)
  PROVE  UNCHANGED <<accepted, conns, focused>>
  BY DEF Inert, MalformedMessage, InputEvent, DeviceCapacity, Ignored

-----------------------------------------------------------------------------
(* The focus is with an authenticated connection.                          *)

FocusInv == TypeOK /\ FocusedIsAuthenticated

LEMMA InitFocusInv == Init => FocusInv
  BY InitTypeOK DEF Init, FocusInv, FocusedIsAuthenticated

LEMMA NextFocusInv == FocusInv /\ [Next]_vars => FocusInv'
<1> SUFFICES ASSUME FocusInv, [Next]_vars PROVE FocusedIsAuthenticated'
  BY NextTypeOK DEF FocusInv
<1> USE DEF FocusInv
<1>1. ASSUME NEW transport \in Transports, AcceptConnection(transport)
      PROVE  FocusedIsAuthenticated'
  <2>1. accepted + 1 \notin DOMAIN conns
    BY ConnectionsAssumption DEF TypeOK
  <2>2. focused # accepted + 1 \/ focused = NoFocus
    BY <2>1 DEF FocusedIsAuthenticated, Authenticated
  <2> QED
    BY <1>1, <2>1, <2>2, AcceptEffect DEF AcceptConnection, FocusedIsAuthenticated
<1>2. ASSUME NEW c \in ConnId, Handle(c) PROVE FocusedIsAuthenticated'
  <2>1. CASE Gone(c)
    <3>1. conns' = Disconnect(conns, c) /\ focused' = ClearIfFocused(focused, c)
      BY <2>1 DEF Gone, Drop
    <3>2. \A id : Authenticated(conns', id) <=> (id # c /\ Authenticated(conns, id))
      BY <3>1, DisconnectEffect
    <3>3. CASE focused = c
      BY <3>1, <3>3 DEF ClearIfFocused, FocusedIsAuthenticated
    <3>4. CASE focused # c
      BY <3>1, <3>2, <3>4 DEF ClearIfFocused, FocusedIsAuthenticated
    <3> QED
      BY <3>3, <3>4
  <2>2. ASSUME NEW pluginType \in PluginTypes, NEW declared \in Declared,
               Register(c, pluginType, declared)
        PROVE  FocusedIsAuthenticated'
    <3>1. focused' = focused
      BY <2>2 DEF Register
    <3>2. \A id : Authenticated(conns, id) => Authenticated(conns', id)
      BY <2>2, RegisterEffect
    <3> QED
      BY <3>1, <3>2 DEF FocusedIsAuthenticated
  <2>3. ASSUME NEW gained \in BOOLEAN, Focus(c, gained) PROVE FocusedIsAuthenticated'
    BY <2>3 DEF Focus, ReportFocus, FocusedIsAuthenticated
  <2>4. CASE Inert(c)
    BY <2>4, InertFrame DEF FocusedIsAuthenticated
  <2> QED
    BY <1>2, <2>1, <2>2, <2>3, <2>4, HandleCases
<1>3. CASE UNCHANGED vars
  BY <1>3 DEF vars, FocusedIsAuthenticated
<1> QED
  BY <1>1, <1>2, <1>3 DEF Next

(* The focus never rests on a connection that is gone, however it went, or *)
(* that never authenticated.                                               *)
THEOREM FocusCorrect == Spec => []FocusedIsAuthenticated
<1>1. Init => FocusInv
  BY InitFocusInv
<1>2. FocusInv /\ [Next]_vars => FocusInv'
  BY NextFocusInv
<1>3. FocusInv => FocusedIsAuthenticated
  BY DEF FocusInv
<1> QED
  BY <1>1, <1>2, <1>3, PTL DEF Spec

-----------------------------------------------------------------------------
(* A connection's lifecycle.                                               *)

(* A rank is made of how many connections were accepted, who is tracked    *)
(* and who is authenticated: it grows if none of these takes anything back. *)
LEMMA RankGrows ==
  ASSUME TypeOK, accepted' \in Nat, accepted <= accepted', NEW c \in ConnId,
         c \in 1..accepted /\ c \notin DOMAIN conns => c \notin DOMAIN conns',
         Authenticated(conns, c) => c \notin DOMAIN conns' \/ Authenticated(conns', c)
  PROVE  Rank(c)' >= Rank(c)
<1>1. accepted \in Nat /\ c \in Nat /\ 1 <= c
  BY ConnectionsAssumption DEF TypeOK, ConnId
<1>2. Rank(c) \in {0, 2, 3, 4} /\ Rank(c)' \in {0, 2, 3, 4}
  BY DEF Rank
<1>3. CASE c > accepted
  BY <1>1, <1>2, <1>3 DEF Rank
<1>4. CASE c <= accepted /\ c \notin DOMAIN conns
  BY <1>1, <1>4 DEF Rank
<1>5. CASE c <= accepted /\ c \in DOMAIN conns
  BY <1>1, <1>2, <1>5 DEF Rank, Authenticated
<1> QED
  BY <1>1, <1>3, <1>4, <1>5

LEMMA NextForward ==
  TypeOK /\ [Next]_vars => [\A c \in ConnId : Rank(c)' >= Rank(c)]_vars
<1> SUFFICES ASSUME TypeOK, Next, NEW id \in ConnId PROVE Rank(id)' >= Rank(id)
  OBVIOUS
<1>1. accepted \in Nat /\ DOMAIN conns \subseteq 1..accepted
  BY ConnectionsAssumption DEF TypeOK
<1>2. ASSUME NEW transport \in Transports, AcceptConnection(transport)
      PROVE  Rank(id)' >= Rank(id)
  <2>1. accepted' = accepted + 1 /\ conns' = Accept(conns, accepted + 1, transport)
    BY <1>2 DEF AcceptConnection
  <2>2. accepted + 1 \notin DOMAIN conns /\ ~Authenticated(conns, accepted + 1)
    BY <1>1 DEF Authenticated
  <2>3. DOMAIN conns' = DOMAIN conns \union {accepted + 1}
    BY <2>1, <2>2, AcceptEffect
  <2>4. id # accepted + 1 => (Authenticated(conns', id) <=> Authenticated(conns, id))
    BY <2>1, <2>2, AcceptEffect
  <2> QED
    BY <1>1, <2>1, <2>2, <2>3, <2>4, RankGrows
<1>3. ASSUME NEW c \in ConnId, Handle(c) PROVE Rank(id)' >= Rank(id)
  <2>1. CASE Gone(c)
    <3>1. accepted' = accepted /\ conns' = Disconnect(conns, c)
      BY <2>1 DEF Gone, Drop
    <3>2. DOMAIN conns' = DOMAIN conns \ {c}
      BY <3>1, DisconnectEffect
    <3>3. Authenticated(conns', id) <=> (id # c /\ Authenticated(conns, id))
      BY <3>1, DisconnectEffect
    <3> QED
      BY <1>1, <3>1, <3>2, <3>3, RankGrows
  <2>2. ASSUME NEW pluginType \in PluginTypes, NEW declared \in Declared,
               Register(c, pluginType, declared)
        PROVE  Rank(id)' >= Rank(id)
    <3>1. accepted' = accepted
      BY <2>2 DEF Register
    <3>2. /\ DOMAIN conns' = DOMAIN conns
          /\ Authenticated(conns, id) => Authenticated(conns', id)
      BY <2>2, RegisterEffect
    <3> QED
      BY <1>1, <3>1, <3>2, RankGrows
  <2>3. CASE UNCHANGED <<accepted, conns>>
    BY <1>1, <2>3, RankGrows
  <2>4. ASSUME NEW gained \in BOOLEAN, Focus(c, gained) PROVE UNCHANGED <<accepted, conns>>
    BY <2>4 DEF Focus
  <2> QED
    BY <1>3, <2>1, <2>2, <2>3, <2>4, HandleCases, InertFrame
<1> QED
  BY <1>2, <1>3 DEF Next

(* A connection only moves forward through its lifecycle: who is gone      *)
(* never comes back, who is authenticated never has to be again.           *)
THEOREM LifecycleForward == Spec => LifecycleOnlyForward
<1>1. TypeOK /\ [Next]_vars => [\A c \in ConnId : Rank(c)' >= Rank(c)]_vars
  BY NextForward
<1> QED
  BY <1>1, TypeCorrect, PTL DEF Spec, LifecycleOnlyForward

-----------------------------------------------------------------------------
(* The core implements a focus arbiter.                                    *)

LEMMA InitArbiter == Init => Arbiter!Init
<1> SUFFICES ASSUME Init PROVE Arbiter!Init
  OBVIOUS
<1>1. DOMAIN conns = {} /\ 1..accepted = {}
  BY DEF Init
<1> QED
  BY <1>1 DEF Init, Arbiter!Init

(* Who is live and who is gone stays the same while the same connections   *)
(* are tracked and authenticated.                                          *)
LEMMA SameArbiter ==
  ASSUME accepted' = accepted, DOMAIN conns' = DOMAIN conns,
         \A id : Authenticated(conns', id) <=> Authenticated(conns, id)
  PROVE  /\ {id \in DOMAIN conns' : Authenticated(conns', id)}
              = {id \in DOMAIN conns : Authenticated(conns, id)}
         /\ (1..accepted') \ DOMAIN conns' = (1..accepted) \ DOMAIN conns
  OBVIOUS

LEMMA NextArbiter == TypeOK /\ [Next]_vars => [Arbiter!Next]_(Arbiter!vars)
<1> SUFFICES ASSUME TypeOK, [Next]_vars PROVE [Arbiter!Next]_(Arbiter!vars)
  OBVIOUS
<1>1. accepted \in Nat /\ DOMAIN conns \subseteq 1..accepted
  BY ConnectionsAssumption DEF TypeOK
<1>2. ASSUME NEW transport \in Transports, AcceptConnection(transport)
      PROVE  [Arbiter!Next]_(Arbiter!vars)
  <2> DEFINE n == accepted + 1
  <2>1. /\ accepted' = n /\ conns' = Accept(conns, n, transport)
        /\ focused' = focused /\ n \in ConnId
    BY <1>1, <1>2, ConnectionsAssumption DEF AcceptConnection, ConnId
  <2>2. n \notin DOMAIN conns /\ n \notin 1..accepted
    BY <1>1
  <2>3. /\ DOMAIN conns' = DOMAIN conns \union {n}
        /\ Authenticated(conns', n) <=> transport = "websocket"
        /\ \A id : id # n => (Authenticated(conns', id) <=> Authenticated(conns, id))
    BY <2>1, <2>2, AcceptEffect
  <2> HIDE DEF n
  <2>4. (1..accepted') \ DOMAIN conns' = (1..accepted) \ DOMAIN conns
    BY <1>1, <2>1, <2>2, <2>3 DEF n
  <2>5. CASE transport = "websocket"
    <3>1. {id \in DOMAIN conns' : Authenticated(conns', id)}
            = {id \in DOMAIN conns : Authenticated(conns, id)} \union {n}
      BY <2>3, <2>5
    <3>2. Arbiter!Join(n)
      BY <2>1, <2>2, <2>4, <3>1 DEF Arbiter!Join
    <3> QED
      BY <2>1, <3>2 DEF Arbiter!Next
  <2>6. CASE transport # "websocket"
    <3>1. {id \in DOMAIN conns' : Authenticated(conns', id)}
            = {id \in DOMAIN conns : Authenticated(conns, id)}
      BY <2>2, <2>3, <2>6 DEF Authenticated
    <3> QED
      BY <2>1, <2>4, <3>1 DEF Arbiter!vars
  <2> QED
    BY <2>5, <2>6
<1>3. ASSUME NEW c \in ConnId, Handle(c) PROVE [Arbiter!Next]_(Arbiter!vars)
  <2>1. CASE Gone(c)
    <3>1. /\ accepted' = accepted /\ conns' = Disconnect(conns, c)
          /\ focused' = ClearIfFocused(focused, c) /\ c \in DOMAIN conns
      BY <2>1 DEF Gone, Drop
    <3>2. /\ DOMAIN conns' = DOMAIN conns \ {c}
          /\ \A id : Authenticated(conns', id) <=> (id # c /\ Authenticated(conns, id))
      BY <3>1, DisconnectEffect
    <3>3. {id \in DOMAIN conns' : Authenticated(conns', id)}
            = {id \in DOMAIN conns : Authenticated(conns, id)} \ {c}
      BY <3>2
    <3>4. (1..accepted') \ DOMAIN conns' = ((1..accepted) \ DOMAIN conns) \union {c}
      BY <1>1, <3>1, <3>2
    <3>5. Arbiter!Leave(c)
      BY <3>1, <3>3, <3>4 DEF Arbiter!Leave, ClearIfFocused
    <3> QED
      BY <3>5 DEF Arbiter!Next
  <2>2. ASSUME NEW pluginType \in PluginTypes, NEW declared \in Declared,
               Register(c, pluginType, declared)
        PROVE  [Arbiter!Next]_(Arbiter!vars)
    <3>1. accepted' = accepted /\ focused' = focused
      BY <2>2 DEF Register
    <3>2. /\ DOMAIN conns' = DOMAIN conns /\ c \in DOMAIN conns /\ Authenticated(conns', c)
          /\ \A id : id # c => (Authenticated(conns', id) <=> Authenticated(conns, id))
      BY <2>2, RegisterEffect
    <3>3. CASE Authenticated(conns, c)
      BY <3>1, <3>2, <3>3, SameArbiter DEF Arbiter!vars
    <3>4. CASE ~Authenticated(conns, c)
      <4>1. {id \in DOMAIN conns' : Authenticated(conns', id)}
              = {id \in DOMAIN conns : Authenticated(conns, id)} \union {c}
        BY <3>2
      <4>2. Arbiter!Join(c)
        BY <3>1, <3>2, <3>4, <4>1 DEF Arbiter!Join
      <4> QED
        BY <4>2 DEF Arbiter!Next
    <3> QED
      BY <3>3, <3>4
  <2>3. ASSUME NEW gained \in BOOLEAN, Focus(c, gained)
        PROVE  [Arbiter!Next]_(Arbiter!vars)
    <3>1. /\ accepted' = accepted /\ conns' = conns
          /\ c \in DOMAIN conns /\ Authenticated(conns, c)
          /\ focused' = ReportFocus(focused, c, gained)
      BY <2>3 DEF Focus, Authenticated
    <3>2. CASE gained
      BY <3>1, <3>2 DEF ReportFocus, Arbiter!Gain, Arbiter!Next
    <3>3. CASE ~gained /\ focused = c
      BY <3>1, <3>3 DEF ReportFocus, Arbiter!Blur, Arbiter!Next
    <3>4. CASE ~gained /\ focused # c
      BY <3>1, <3>4 DEF ReportFocus, Arbiter!vars
    <3> QED
      BY <3>2, <3>3, <3>4
  <2>4. CASE Inert(c)
    BY <2>4, InertFrame DEF Arbiter!vars
  <2> QED
    BY <1>3, <2>1, <2>2, <2>3, <2>4, HandleCases
<1>4. CASE UNCHANGED vars
  BY <1>4 DEF vars, Arbiter!vars
<1> QED
  BY <1>2, <1>3, <1>4 DEF Next

(* With everything but focus and presence forgotten, the core is a focus   *)
(* arbiter: a client gets the focus by its own report only, and loses it   *)
(* to another's, to its own blur, or when it goes.                         *)
THEOREM ArbiterImplemented == Spec => ImplementsFocusArbiter
<1>1. Init => Arbiter!Init
  BY InitArbiter
<1>2. TypeOK /\ [Next]_vars => [Arbiter!Next]_(Arbiter!vars)
  BY NextArbiter
<1> QED
  BY <1>1, <1>2, TypeCorrect, PTL DEF Spec, ImplementsFocusArbiter, Arbiter!Spec

-----------------------------------------------------------------------------
(* The lowest number of a set of connections exists.                       *)
LEMMA LeastExists ==
  ASSUME NEW S, S \subseteq Nat, S # {}
  PROVE  \E d \in S : \A e \in S : d <= e
<1>1. PICK d \in S : \A e \in S : ~ (<<e, d>> \in OpToRel(<, Nat))
  BY WFMin, NatLessThanWellFounded
<1>2. ASSUME NEW e \in S, e < d PROVE FALSE
  <2>1. <<e, d>> \in Nat \X Nat
    OBVIOUS
  <2>2. <<e, d>>[1] < <<e, d>>[2]
    BY <1>2
  <2>3. <<e, d>> \in OpToRel(<, Nat)
    BY <2>1, <2>2, Zenon DEF OpToRel
  <2> QED
    BY <1>1, <2>3
<1>3. \A e \in S : d <= e
  BY <1>2
<1> QED
  BY <1>3

(* The display the router finds is a display.                              *)
LEMMA FoundIsStreamDeck ==
  ASSUME NEW cs, DOMAIN cs \subseteq Nat, StreamDecks(cs) # {}
  PROVE  FindStreamDeckConnection(cs) \in StreamDecks(cs)
<1>1. \E d \in StreamDecks(cs) : \A e \in StreamDecks(cs) : d <= e
  BY LeastExists DEF StreamDecks
<1> QED
  BY <1>1 DEF FindStreamDeckConnection

-----------------------------------------------------------------------------
(* Whom the operators of ProfileRouter write to.                           *)

LEMMA SendToReaches ==
  ASSUME NEW c \in ConnId, NEW d, NEW messages
  PROVE  /\ Silence[c] = <<>>
         /\ d # c => SendTo(d, messages)[c] = <<>>
         /\ d = c => SendTo(d, messages)[c] = messages
  BY DEF Silence, SendTo

LEMMA SingletonSeq ==
  ASSUME NEW m
  PROVE  <<m>> \in Seq({m})
  OBVIOUS

LEMMA ThenSilent ==
  ASSUME NEW c \in ConnId, NEW first, NEW second, first[c] = <<>>, second[c] = <<>>
  PROVE  Then(first, second)[c] = <<>>
  BY DEF Then

LEMMA BroadcastReaches ==
  ASSUME NEW cs, DOMAIN cs \subseteq Nat, NEW c \in ConnId, NEW cap, NEW holder
  PROVE  BroadcastForFocusChange(cs, cap, holder)[c] # <<>> =>
           /\ StreamDecks(cs) # {}
           /\ c = FindStreamDeckConnection(cs)
           /\ IsStreamDeck(cs, c)
<1>1. CASE StreamDecks(cs) = {}
  BY <1>1, SendToReaches DEF BroadcastForFocusChange
<1>2. CASE StreamDecks(cs) # {} /\ c # FindStreamDeckConnection(cs)
  BY <1>2, SendToReaches DEF BroadcastForFocusChange, SendSweepTo
<1>3. CASE StreamDecks(cs) # {} /\ c = FindStreamDeckConnection(cs)
  BY <1>3, FoundIsStreamDeck DEF StreamDecks
<1> QED
  BY <1>1, <1>2, <1>3

(* A router's handler writes nothing to a connection that is not           *)
(* authenticated.                                                          *)
LEMMA HandlersSpareOutsiders ==
  ASSUME NEW cs, DOMAIN cs \subseteq Nat, NEW c \in ConnId, ~Authenticated(cs, c),
         NEW before, NEW after, NEW cap, NEW d
  PROVE  /\ HandleDisconnect(cs, before, after, cap)[c] = <<>>
         /\ BroadcastSlotCapacity(cs, cap)[c] = <<>>
         /\ after # c => HandleFocus(cs, before, after, cap)[c] = <<>>
         /\ d # c => HandleRegistered(cs, before, cap, d)[c] = <<>>
         /\ before # c => \A ctrl, position :
              HandleInputEvent(cs, before, cap, ctrl, position)[c] = <<>>
<1>1. \A holder : BroadcastForFocusChange(cs, cap, holder)[c] = <<>>
  BY BroadcastReaches DEF IsStreamDeck
<1>2. HandleDisconnect(cs, before, after, cap)[c] = <<>>
  BY <1>1, SendToReaches DEF HandleDisconnect
<1>3. BroadcastSlotCapacity(cs, cap)[c] = <<>>
  BY DEF BroadcastSlotCapacity, IsApplication
<1>4. ASSUME after # c PROVE HandleFocus(cs, before, after, cap)[c] = <<>>
  <2>1. CASE after = before
    BY <2>1, SendToReaches DEF HandleFocus
  <2>2. CASE after # before
    <3> DEFINE told == IF after \in DOMAIN cs THEN SendSlotCapacity(cap, after) ELSE Silence
    <3>1. told[c] = <<>>
      BY <1>4, SendToReaches DEF SendSlotCapacity
    <3>2. HandleFocus(cs, before, after, cap)
            = Then(BroadcastForFocusChange(cs, cap, after), told)
      BY <2>2 DEF HandleFocus
    <3> HIDE DEF told
    <3> QED
      BY <1>1, <3>1, <3>2, ThenSilent
  <2> QED
    BY <2>1, <2>2
<1>5. ASSUME d # c PROVE HandleRegistered(cs, before, cap, d)[c] = <<>>
  <2>1. CASE IsStreamDeck(cs, d)
    BY <1>5, <2>1, SendToReaches DEF HandleRegistered, SendSweepTo
  <2>2. CASE ~IsStreamDeck(cs, d)
    <3> DEFINE swept == IF before = d THEN BroadcastForFocusChange(cs, cap, d) ELSE Silence
    <3>1. swept[c] = <<>> /\ SendSlotCapacity(cap, d)[c] = <<>>
      BY <1>1, <1>5, SendToReaches DEF SendSlotCapacity
    <3>2. HandleRegistered(cs, before, cap, d) = Then(SendSlotCapacity(cap, d), swept)
      BY <2>2 DEF HandleRegistered
    <3> HIDE DEF swept
    <3> QED
      BY <3>1, <3>2, ThenSilent
  <2> QED
    BY <2>1, <2>2
<1>6. ASSUME before # c, NEW ctrl, NEW position
      PROVE  HandleInputEvent(cs, before, cap, ctrl, position)[c] = <<>>
  BY <1>6, SendToReaches DEF HandleInputEvent
<1> QED
  BY <1>2, <1>3, <1>4, <1>5, <1>6

-----------------------------------------------------------------------------
(* Outsiders hear only a refusal.                                          *)

LEMMA DropSparesOutsiders ==
  ASSUME FocusInv, NEW c \in ConnId, c \in DOMAIN conns,
         NEW reply \in {<<>>, <<RegisterAck("rejected")>>}, Drop(c, reply)
  PROVE  OutsidersHearOnlyRefusal'
<1> SUFFICES ASSUME NEW d \in ConnId, ~Authenticated(conns', d)
             PROVE  out'[d] \in {<<>>, <<RegisterAck("rejected")>>}
  BY DEF OutsidersHearOnlyRefusal
<1> DEFINE swept == HandleDisconnect(conns', focused, focused', capacity)
<1>1. DOMAIN conns' \subseteq Nat
  <2>1. DOMAIN conns \subseteq Nat
    BY ConnectionsAssumption DEF FocusInv, TypeOK
  <2>2. DOMAIN conns' = DOMAIN conns \ {c}
    BY DisconnectEffect DEF Drop
  <2> QED
    BY <2>1, <2>2
<1>2. swept[d] = <<>>
  BY <1>1, HandlersSpareOutsiders
<1>3. out'[d] = SendTo(c, reply)[d] \o swept[d]
  BY DEF Drop, Then
<1> HIDE DEF swept
<1>4. CASE d = c
  <2>1. SendTo(c, reply)[d] = reply
    BY <1>4, SendToReaches
  <2>2. reply \in Seq({RegisterAck("rejected")})
    BY EmptySeq, SingletonSeq
  <2>3. reply \o <<>> = reply
    BY <2>2, ConcatEmptySeq
  <2> QED
    BY <1>2, <1>3, <2>1, <2>3
<1>5. CASE d # c
  <2>1. SendTo(c, reply)[d] = <<>>
    BY <1>5, SendToReaches
  <2> QED
    BY <1>2, <1>3, <2>1
<1> QED
  BY <1>4, <1>5

LEMMA RegisterSparesOutsiders ==
  ASSUME FocusInv, NEW c \in ConnId, NEW pluginType \in PluginTypes, NEW declared \in Declared,
         Register(c, pluginType, declared)
  PROVE  OutsidersHearOnlyRefusal'
<1> SUFFICES ASSUME NEW d \in ConnId, ~Authenticated(conns', d) PROVE out'[d] = <<>>
  BY DEF OutsidersHearOnlyRefusal
<1>1. PICK rejected :
        out' = Then(RegistrationReply(c, rejected), HandleRegistered(conns', focused, capacity, c))
  BY DEF Register
<1>2. d # c /\ DOMAIN conns' = DOMAIN conns
  BY RegisterEffect DEF FocusInv
<1>3. DOMAIN conns' \subseteq Nat
  BY <1>2, ConnectionsAssumption DEF FocusInv, TypeOK
<1>4. RegistrationReply(c, rejected)[d] = <<>>
  BY <1>2, SendToReaches DEF RegistrationReply
<1>5. HandleRegistered(conns', focused, capacity, c)[d] = <<>>
  BY <1>2, <1>3, HandlersSpareOutsiders
<1> QED
  BY <1>1, <1>4, <1>5, ThenSilent

LEMMA NextSparesOutsiders ==
  ASSUME FocusInv, Next, FocusedIsAuthenticated'
  PROVE  OutsidersHearOnlyRefusal'
<1>1. DOMAIN conns \subseteq Nat
  BY ConnectionsAssumption DEF FocusInv, TypeOK
<1>2. ASSUME NEW transport \in Transports, AcceptConnection(transport)
      PROVE  OutsidersHearOnlyRefusal'
  BY <1>2, SendToReaches DEF AcceptConnection, OutsidersHearOnlyRefusal
<1>3. ASSUME NEW c \in ConnId, Handle(c) PROVE OutsidersHearOnlyRefusal'
  <2>1. CASE SocketClosed(c) \/ MalformedBeforeAuth(c) \/ NonRegisterBeforeAuth(c)
             \/ RegisterRefused(c)
    BY <2>1, DropSparesOutsiders
    DEF SocketClosed, MalformedBeforeAuth, NonRegisterBeforeAuth, RegisterRefused
  <2>2. ASSUME NEW pluginType \in PluginTypes, NEW declared \in Declared,
               Register(c, pluginType, declared)
        PROVE  OutsidersHearOnlyRefusal'
    BY <2>2, RegisterSparesOutsiders
  <2>3. CASE MalformedMessage(c)
    <3>1. ASSUME NEW d \in ConnId, ~Authenticated(conns', d) PROVE out'[d] = <<>>
      BY <2>3, <3>1, SendToReaches DEF MalformedMessage
    <3> QED
      BY <3>1 DEF OutsidersHearOnlyRefusal
  <2>4. ASSUME NEW gained \in BOOLEAN, Focus(c, gained) PROVE OutsidersHearOnlyRefusal'
    <3>1. conns' = conns /\ out' = HandleFocus(conns, focused, focused', capacity)
      BY <2>4 DEF Focus
    <3>2. ASSUME NEW d \in ConnId, ~Authenticated(conns', d) PROVE out'[d] = <<>>
      <4>1. focused' # d
        BY <3>2, InputsAssumption DEF FocusedIsAuthenticated
      <4> QED
        BY <1>1, <3>1, <3>2, <4>1, HandlersSpareOutsiders
    <3> QED
      BY <3>2 DEF OutsidersHearOnlyRefusal
  <2>5. ASSUME NEW ctrl \in Controllers, NEW position \in Positions, InputEvent(c, ctrl, position)
        PROVE  OutsidersHearOnlyRefusal'
    <3>1. conns' = conns /\ out' = HandleInputEvent(conns, focused, capacity, ctrl, position)
      BY <2>5 DEF InputEvent
    <3>2. ASSUME NEW d \in ConnId, ~Authenticated(conns', d) PROVE out'[d] = <<>>
      <4>1. focused # d
        BY <3>1, <3>2, InputsAssumption DEF FocusInv, FocusedIsAuthenticated
      <4> QED
        BY <1>1, <3>1, <3>2, <4>1, HandlersSpareOutsiders
    <3> QED
      BY <3>2 DEF OutsidersHearOnlyRefusal
  <2>6. ASSUME NEW report \in Reports, DeviceCapacity(c, report)
        PROVE  OutsidersHearOnlyRefusal'
    <3>1. conns' = conns /\ out' = BroadcastSlotCapacity(conns, report)
      BY <2>6 DEF DeviceCapacity
    <3>2. ASSUME NEW d \in ConnId, ~Authenticated(conns', d) PROVE out'[d] = <<>>
      BY <1>1, <3>1, <3>2, HandlersSpareOutsiders
    <3> QED
      BY <3>2 DEF OutsidersHearOnlyRefusal
  <2>7. CASE Ignored(c)
    BY <2>7, SendToReaches DEF Ignored, OutsidersHearOnlyRefusal
  <2> QED
    BY <1>3, <2>1, <2>2, <2>3, <2>4, <2>5, <2>6, <2>7 DEF Handle
<1> QED
  BY <1>2, <1>3 DEF Next

(* A connection that is not authenticated, or is gone, hears nothing of    *)
(* what the core does, except the refusal of its own token.                *)
THEOREM OutsidersSpared == Spec => []OutsidersHearOnlyRefusal
<1> DEFINE HearInv == FocusInv /\ OutsidersHearOnlyRefusal
<1>1. Init => HearInv
  BY InitFocusInv, SendToReaches DEF Init, OutsidersHearOnlyRefusal
<1>2. HearInv /\ [Next]_vars => HearInv'
  <2> SUFFICES ASSUME HearInv, [Next]_vars PROVE HearInv'
    OBVIOUS
  <2>1. FocusInv'
    BY NextFocusInv
  <2>2. CASE Next
    BY <2>1, <2>2, NextSparesOutsiders DEF FocusInv
  <2>3. CASE UNCHANGED vars
    BY <2>1, <2>3 DEF vars, OutsidersHearOnlyRefusal, Authenticated
  <2> QED
    BY <2>2, <2>3
<1>3. HearInv => OutsidersHearOnlyRefusal
  OBVIOUS
<1> QED
  BY <1>1, <1>2, <1>3, PTL DEF Spec

-----------------------------------------------------------------------------
(* Sequences, whatever their elements.                                     *)

IsSequence(s) == \E S : s \in Seq(S)

LEMMA SequenceWitness ==
  ASSUME NEW S, NEW s \in Seq(S)
  PROVE  IsSequence(s)
  BY DEF IsSequence

LEMMA SequenceShape ==
  ASSUME NEW s, IsSequence(s)
  PROVE  Len(s) \in Nat /\ DOMAIN s = 1..Len(s)
  BY LenProperties DEF IsSequence

LEMMA JoinedShape ==
  ASSUME NEW s, NEW t, IsSequence(s), IsSequence(t)
  PROVE  /\ IsSequence(s \o t)
         /\ Len(s) \in Nat /\ Len(t) \in Nat /\ Len(s \o t) = Len(s) + Len(t)
         /\ DOMAIN s = 1..Len(s) /\ DOMAIN t = 1..Len(t)
         /\ DOMAIN (s \o t) = 1..(Len(s) + Len(t))
         /\ \A k \in DOMAIN s : (s \o t)[k] = s[k]
         /\ \A k \in DOMAIN t : (s \o t)[Len(s) + k] = t[k]
<1>1. PICK S : s \in Seq(S)
  BY DEF IsSequence
<1>2. PICK T : t \in Seq(T)
  BY DEF IsSequence
<1>3. s \in Seq(S \union T) /\ t \in Seq(S \union T)
  BY <1>1, <1>2, SeqMonotonic
<1>4. /\ s \o t \in Seq(S \union T) /\ Len(s \o t) = Len(s) + Len(t)
      /\ \A k \in 1..(Len(s) + Len(t)) :
           (s \o t)[k] = IF k <= Len(s) THEN s[k] ELSE t[k - Len(s)]
  BY <1>3, ConcatProperties
<1>5. /\ Len(s) \in Nat /\ Len(t) \in Nat
      /\ DOMAIN s = 1..Len(s) /\ DOMAIN t = 1..Len(t)
      /\ DOMAIN (s \o t) = 1..(Len(s) + Len(t))
  BY <1>3, <1>4, LenProperties
<1>6. ASSUME NEW k \in DOMAIN s PROVE (s \o t)[k] = s[k]
  <2>1. k \in 1..(Len(s) + Len(t)) /\ k <= Len(s)
    BY <1>5
  <2> QED
    BY <1>4, <2>1
<1>7. ASSUME NEW k \in DOMAIN t PROVE (s \o t)[Len(s) + k] = t[k]
  <2>1. /\ Len(s) + k \in 1..(Len(s) + Len(t)) /\ ~(Len(s) + k <= Len(s))
        /\ (Len(s) + k) - Len(s) = k
    BY <1>5
  <2> QED
    BY <1>4, <2>1
<1> QED
  BY <1>4, <1>5, <1>6, <1>7 DEF IsSequence

LEMMA TailShape ==
  ASSUME NEW s, IsSequence(s), s # <<>>
  PROVE  /\ IsSequence(Tail(s)) /\ Len(s) \in Nat \ {0} /\ Head(s) = s[1]
         /\ DOMAIN s = 1..Len(s) /\ DOMAIN Tail(s) = 1..(Len(s) - 1)
         /\ \A k \in DOMAIN Tail(s) : Tail(s)[k] = s[k + 1]
<1>1. PICK S : s \in Seq(S)
  BY DEF IsSequence
<1>2. /\ Tail(s) \in Seq(S) /\ Len(Tail(s)) = Len(s) - 1
      /\ \A k \in 1..Len(Tail(s)) : Tail(s)[k] = s[k + 1]
  BY <1>1, HeadTailProperties
<1>3. /\ Len(s) \in Nat \ {0} /\ DOMAIN s = 1..Len(s)
      /\ DOMAIN Tail(s) = 1..Len(Tail(s))
  BY <1>1, <1>2, LenProperties, EmptySeq
<1>4. Head(s) = s[1]
  BY <1>1
<1> QED
  BY <1>2, <1>3, <1>4 DEF IsSequence

LEMMA AppendShape ==
  ASSUME NEW s, IsSequence(s), NEW m
  PROVE  /\ IsSequence(Append(s, m)) /\ Len(s) \in Nat
         /\ DOMAIN s = 1..Len(s) /\ DOMAIN Append(s, m) = 1..(Len(s) + 1)
         /\ Append(s, m)[Len(s) + 1] = m
         /\ \A k \in DOMAIN s : Append(s, m)[k] = s[k]
<1>1. PICK S : s \in Seq(S)
  BY DEF IsSequence
<1>2. s \in Seq(S \union {m}) /\ m \in S \union {m}
  BY <1>1, SeqMonotonic
<1>3. /\ Append(s, m) \in Seq(S \union {m})
      /\ Len(Append(s, m)) = Len(s) + 1
      /\ \A k \in 1..Len(s) : Append(s, m)[k] = s[k]
      /\ Append(s, m)[Len(s) + 1] = m
  BY <1>2, AppendProperties
<1>4. /\ Len(s) \in Nat /\ DOMAIN s = 1..Len(s) /\ DOMAIN Append(s, m) = 1..Len(Append(s, m))
  BY <1>2, <1>3, LenProperties
<1> QED
  BY <1>3, <1>4 DEF IsSequence

(* The highest of a bounded set of numbers is its last.                    *)
LEMMA LastExists ==
  ASSUME NEW n \in Nat, NEW S, S \subseteq 1..n, S # {}
  PROVE  Store!LastOf(S) \in S /\ \A k \in S : k <= Store!LastOf(S)
<1> DEFINE T == {n - k : k \in S}
<1>1. T \subseteq Nat /\ T # {}
  <2>1. ASSUME NEW k \in S PROVE n - k \in Nat
    OBVIOUS
  <2> QED
    BY <2>1
<1>2. PICK d \in T : \A e \in T : d <= e
  BY <1>1, LeastExists
<1>3. PICK m \in S : d = n - m
  BY <1>2
<1>4. ASSUME NEW k \in S PROVE k <= m
  <2>1. n - m <= n - k
    BY <1>2, <1>3, <1>4
  <2> QED
    BY <1>3, <1>4, <2>1
<1> QED
  BY <1>3, <1>4 DEF Store!LastOf

LEMMA LastIs ==
  ASSUME NEW S, S \subseteq Nat, NEW m \in S, \A k \in S : k <= m
  PROVE  Store!LastOf(S) = m
<1>1. ASSUME NEW l \in S, \A k \in S : k <= l PROVE l = m
  <2>1. l <= m /\ m <= l /\ l \in Nat /\ m \in Nat
    BY <1>1
  <2> QED
    BY <2>1
<1> QED
  BY <1>1 DEF Store!LastOf

-----------------------------------------------------------------------------
(* The messages of an outbox.                                              *)

Elements(s) == {s[k] : k \in DOMAIN s}
IsOutbox(box) == \A c \in ConnId : IsSequence(box[c])

(* The updates of a sweep.                                                 *)
FullSweep(cap, content) ==
  UNION {{RenderSlot(ctrl, PositionsFor(cap, ctrl)[i], LabelFor(ctrl, i), content) :
            i \in DOMAIN PositionsFor(cap, ctrl)} : ctrl \in Controllers}

LEMMA ElementsJoined ==
  ASSUME NEW s, NEW t, IsSequence(s), IsSequence(t)
  PROVE  Elements(s \o t) = Elements(s) \union Elements(t)
<1>1. /\ Len(s) \in Nat /\ Len(t) \in Nat
      /\ DOMAIN s = 1..Len(s) /\ DOMAIN t = 1..Len(t)
      /\ DOMAIN (s \o t) = 1..(Len(s) + Len(t))
      /\ \A k \in DOMAIN s : (s \o t)[k] = s[k]
      /\ \A k \in DOMAIN t : (s \o t)[Len(s) + k] = t[k]
  BY JoinedShape
<1>2. ASSUME NEW k \in DOMAIN (s \o t) PROVE (s \o t)[k] \in Elements(s) \union Elements(t)
  <2>1. CASE k \in DOMAIN s
    BY <1>1, <2>1 DEF Elements
  <2>2. CASE k \notin DOMAIN s
    <3>1. k - Len(s) \in DOMAIN t /\ k = Len(s) + (k - Len(s))
      BY <1>1, <2>2
    <3>2. (s \o t)[k] = t[k - Len(s)]
      BY <1>1, <3>1
    <3> QED
      BY <3>1, <3>2 DEF Elements
  <2> QED
    BY <2>1, <2>2
<1>3. ASSUME NEW k \in DOMAIN s PROVE s[k] \in Elements(s \o t)
  <2>1. k \in DOMAIN (s \o t) /\ (s \o t)[k] = s[k]
    BY <1>1
  <2> QED
    BY <2>1 DEF Elements
<1>4. ASSUME NEW k \in DOMAIN t PROVE t[k] \in Elements(s \o t)
  <2>1. Len(s) + k \in DOMAIN (s \o t)
    BY <1>1
  <2>2. (s \o t)[Len(s) + k] = t[k]
    BY <1>1
  <2> QED
    BY <2>1, <2>2 DEF Elements
<1>5. Elements(s \o t) \subseteq Elements(s) \union Elements(t)
  BY <1>2 DEF Elements
<1>6. Elements(s) \subseteq Elements(s \o t) /\ Elements(t) \subseteq Elements(s \o t)
  BY <1>3, <1>4 DEF Elements
<1> QED
  BY <1>5, <1>6

LEMMA ElementsOfTuples ==
  /\ Elements(<<>>) = {} /\ IsSequence(<<>>)
  /\ \A m : Elements(<<m>>) = {m} /\ IsSequence(<<m>>)
<1>1. Elements(<<>>) = {} /\ IsSequence(<<>>)
  <2>1. <<>> \in Seq({})
    BY EmptySeq
  <2> QED
    BY <2>1 DEF Elements, IsSequence
<1>2. ASSUME NEW m PROVE Elements(<<m>>) = {m} /\ IsSequence(<<m>>)
  <2>1. <<m>> \in Seq({m})
    BY SingletonSeq
  <2>2. DOMAIN <<m>> = {1} /\ <<m>>[1] = m
    OBVIOUS
  <2> QED
    BY <2>1, <2>2 DEF Elements, IsSequence
<1> QED
  BY <1>1, <1>2

LEMMA ControllerSweepIsSequence ==
  ASSUME NEW cap \in Capacity, NEW content, NEW ctrl \in Controllers
  PROVE  IsSequence(SweepForController(cap, ctrl, content))
<1> DEFINE positions == PositionsFor(cap, ctrl)
           sweep == SweepForController(cap, ctrl, content)
           S == {sweep[i] : i \in DOMAIN positions}
<1>1. positions \in Seq(Positions)
  <2>1. <<>> \in Seq(Positions)
    BY EmptySeq
  <2> QED
    BY <2>1 DEF PositionsFor, Capacity, Report, Controllers
<1>2. Len(positions) \in Nat /\ DOMAIN positions = 1..Len(positions)
  BY <1>1, LenProperties
<1>3. sweep = [i \in DOMAIN positions |-> sweep[i]]
  BY DEF SweepForController
<1> HIDE DEF positions, sweep
<1>4. sweep \in Seq(S)
  BY <1>2, <1>3
<1> QED
  BY <1>4, SequenceWitness DEF sweep

LEMMA SweepElements ==
  ASSUME NEW cap \in Capacity, NEW content
  PROVE  IsSequence(Sweep(cap, content)) /\ Elements(Sweep(cap, content)) = FullSweep(cap, content)
<1> DEFINE keys == SweepForController(cap, "keypad", content)
           dials == SweepForController(cap, "encoder", content)
<1>1. IsSequence(keys) /\ IsSequence(dials)
  BY ControllerSweepIsSequence DEF Controllers
<1>2. \A ctrl : Elements(SweepForController(cap, ctrl, content))
                  = {RenderSlot(ctrl, PositionsFor(cap, ctrl)[i], LabelFor(ctrl, i), content) :
                       i \in DOMAIN PositionsFor(cap, ctrl)}
  BY DEF Elements, SweepForController
<1>3. FullSweep(cap, content) = Elements(keys) \union Elements(dials)
  BY <1>2 DEF FullSweep, Controllers
<1> HIDE DEF keys, dials
<1>4. Elements(keys \o dials) = Elements(keys) \union Elements(dials)
  BY <1>1, ElementsJoined
<1>5. IsSequence(keys \o dials)
  BY <1>1, JoinedShape
<1> QED
  BY <1>3, <1>4, <1>5 DEF Sweep, keys, dials

LEMMA OutboxOfSilence ==
  IsOutbox(Silence) /\ \A c \in ConnId : Messages(Silence, c) = {}
  BY ElementsOfTuples DEF IsOutbox, Silence, Messages, Elements

LEMMA OutboxOfSendTo ==
  ASSUME NEW d, NEW messages, IsSequence(messages)
  PROVE  /\ IsOutbox(SendTo(d, messages))
         /\ \A c \in ConnId :
              Messages(SendTo(d, messages), c) = IF c = d THEN Elements(messages) ELSE {}
<1>1. ASSUME NEW c \in ConnId
      PROVE  /\ IsSequence(SendTo(d, messages)[c])
             /\ Messages(SendTo(d, messages), c) = IF c = d THEN Elements(messages) ELSE {}
  <2>1. Messages(SendTo(d, messages), c) = Elements(SendTo(d, messages)[c])
    BY DEF Messages, Elements
  <2>2. CASE c = d
    BY <2>1, <2>2, SendToReaches
  <2>3. CASE c # d
    BY <2>1, <2>3, SendToReaches, ElementsOfTuples
  <2> QED
    BY <2>2, <2>3
<1> QED
  BY <1>1 DEF IsOutbox

LEMMA OutboxOfThen ==
  ASSUME NEW first, NEW second, IsOutbox(first), IsOutbox(second)
  PROVE  /\ IsOutbox(Then(first, second))
         /\ \A c \in ConnId :
              Messages(Then(first, second), c) = Messages(first, c) \union Messages(second, c)
<1>1. ASSUME NEW c \in ConnId
      PROVE  /\ IsSequence(Then(first, second)[c])
             /\ Messages(Then(first, second), c) = Messages(first, c) \union Messages(second, c)
  <2>1. IsSequence(first[c]) /\ IsSequence(second[c])
    BY DEF IsOutbox
  <2>2. Then(first, second)[c] = first[c] \o second[c]
    BY DEF Then
  <2>3. /\ Messages(Then(first, second), c) = Elements(Then(first, second)[c])
        /\ Messages(first, c) = Elements(first[c]) /\ Messages(second, c) = Elements(second[c])
    BY DEF Messages, Elements
  <2> QED
    BY <2>1, <2>2, <2>3, JoinedShape, ElementsJoined
<1> QED
  BY <1>1 DEF IsOutbox

(* The display a broadcast finds.                                          *)
Display(cs) == IF StreamDecks(cs) = {} THEN {} ELSE {FindStreamDeckConnection(cs)}

(* The sweep that is written to a connection when `holder` has the focus:  *)
(* the display's, if there is one.                                         *)
Swept(cs, cap, holder, c) ==
  IF c \in Display(cs) THEN FullSweep(cap, DisplayedContent(cs, holder)) ELSE {}

(* The counts that are told to the connections of S.                       *)
Told(cap, S, c) == IF c \in S THEN {SlotCapacityMessage(cap)} ELSE {}

(* What c is written when the focus goes over to `after`, and when d       *)
(* registers.                                                              *)
OnFocus(cs, cap, after, c) ==
  Swept(cs, cap, after, c) \union Told(cap, {after} \intersect DOMAIN cs, c)

OnRegistered(cs, cap, holder, d, c) ==
  IF IsStreamDeck(cs, d)
    THEN IF c = d THEN FullSweep(cap, DisplayedContent(cs, holder)) ELSE {}
    ELSE Told(cap, {d}, c) \union IF holder = d THEN Swept(cs, cap, holder, c) ELSE {}

LEMMA OutboxOfBroadcast ==
  ASSUME NEW cs, NEW cap \in Capacity, NEW holder
  PROVE  /\ IsOutbox(BroadcastForFocusChange(cs, cap, holder))
         /\ \A c \in ConnId :
              Messages(BroadcastForFocusChange(cs, cap, holder), c) = Swept(cs, cap, holder, c)
<1>1. CASE StreamDecks(cs) = {}
  BY <1>1, OutboxOfSilence DEF BroadcastForFocusChange, Swept, Display
<1>2. CASE StreamDecks(cs) # {}
  <2> DEFINE deck == FindStreamDeckConnection(cs)
             sweep == Sweep(cap, DisplayedContent(cs, holder))
  <2>1. BroadcastForFocusChange(cs, cap, holder) = SendTo(deck, sweep)
    BY <1>2 DEF BroadcastForFocusChange, SendSweepTo
  <2>2. IsSequence(sweep) /\ Elements(sweep) = FullSweep(cap, DisplayedContent(cs, holder))
    BY SweepElements
  <2> HIDE DEF sweep
  <2> QED
    BY <1>2, <2>1, <2>2, OutboxOfSendTo DEF Swept, Display
<1> QED
  BY <1>1, <1>2

LEMMA OutboxOfCounts ==
  ASSUME NEW cap, NEW d
  PROVE  /\ IsOutbox(SendSlotCapacity(cap, d))
         /\ \A c \in ConnId :
              Messages(SendSlotCapacity(cap, d), c) = Told(cap, {d}, c)
  BY OutboxOfSendTo, ElementsOfTuples DEF SendSlotCapacity, Told

LEMMA OutboxOfCountsToAll ==
  ASSUME NEW cs, NEW cap
  PROVE  /\ IsOutbox(BroadcastSlotCapacity(cs, cap))
         /\ \A c \in ConnId :
              Messages(BroadcastSlotCapacity(cs, cap), c)
                = Told(cap, {a \in ConnId : IsApplication(cs, a)}, c)
  BY ElementsOfTuples DEF BroadcastSlotCapacity, IsOutbox, Messages, Elements, Told

LEMMA OutboxOfDisconnect ==
  ASSUME NEW cs, NEW before, NEW after, NEW cap \in Capacity
  PROVE  /\ IsOutbox(HandleDisconnect(cs, before, after, cap))
         /\ \A c \in ConnId :
              Messages(HandleDisconnect(cs, before, after, cap), c)
                = IF after = before THEN {} ELSE Swept(cs, cap, after, c)
  BY OutboxOfSilence, OutboxOfBroadcast DEF HandleDisconnect

LEMMA OutboxOfFocus ==
  ASSUME NEW cs, NEW before, NEW after, NEW cap \in Capacity
  PROVE  /\ IsOutbox(HandleFocus(cs, before, after, cap))
         /\ \A c \in ConnId :
              Messages(HandleFocus(cs, before, after, cap), c)
                = IF after = before THEN {}
                  ELSE OnFocus(cs, cap, after, c)
<1>1. CASE after = before
  BY <1>1, OutboxOfSilence DEF HandleFocus
<1>2. CASE after # before
  <2> DEFINE swept == BroadcastForFocusChange(cs, cap, after)
             counts == IF after \in DOMAIN cs THEN SendSlotCapacity(cap, after) ELSE Silence
  <2>1. /\ IsOutbox(swept)
        /\ \A c \in ConnId : Messages(swept, c) = Swept(cs, cap, after, c)
    BY OutboxOfBroadcast
  <2>2. /\ IsOutbox(counts)
        /\ \A c \in ConnId :
             Messages(counts, c) = Told(cap, {after} \intersect DOMAIN cs, c)
    <3>1. CASE after \in DOMAIN cs
      BY <3>1, OutboxOfCounts
    <3>2. CASE after \notin DOMAIN cs
      BY <3>2, OutboxOfSilence DEF Told
    <3> QED
      BY <3>1, <3>2
  <2>3. HandleFocus(cs, before, after, cap) = Then(swept, counts)
    BY <1>2 DEF HandleFocus
  <2> HIDE DEF swept, counts
  <2> QED
    BY <1>2, <2>1, <2>2, <2>3, OutboxOfThen DEF OnFocus
<1> QED
  BY <1>1, <1>2

LEMMA OutboxOfRegistered ==
  ASSUME NEW cs, NEW holder, NEW cap \in Capacity, NEW d
  PROVE  /\ IsOutbox(HandleRegistered(cs, holder, cap, d))
         /\ \A c \in ConnId :
              Messages(HandleRegistered(cs, holder, cap, d), c)
                = OnRegistered(cs, cap, holder, d, c)
<1>1. CASE IsStreamDeck(cs, d)
  <2> DEFINE sweep == Sweep(cap, DisplayedContent(cs, holder))
  <2>1. IsSequence(sweep) /\ Elements(sweep) = FullSweep(cap, DisplayedContent(cs, holder))
    BY SweepElements
  <2>2. HandleRegistered(cs, holder, cap, d) = SendTo(d, sweep)
    BY <1>1 DEF HandleRegistered, SendSweepTo
  <2> HIDE DEF sweep
  <2> QED
    BY <1>1, <2>1, <2>2, OutboxOfSendTo DEF OnRegistered
<1>2. CASE ~IsStreamDeck(cs, d)
  <2> DEFINE swept == IF holder = d THEN BroadcastForFocusChange(cs, cap, d) ELSE Silence
             counts == SendSlotCapacity(cap, d)
  <2>1. /\ IsOutbox(swept)
        /\ \A c \in ConnId :
             Messages(swept, c) = IF holder = d THEN Swept(cs, cap, holder, c) ELSE {}
    BY OutboxOfBroadcast, OutboxOfSilence
  <2>2. /\ IsOutbox(counts)
        /\ \A c \in ConnId : Messages(counts, c) = Told(cap, {d}, c)
    BY OutboxOfCounts
  <2>3. HandleRegistered(cs, holder, cap, d) = Then(counts, swept)
    BY <1>2 DEF HandleRegistered
  <2> HIDE DEF swept, counts
  <2> QED
    BY <1>2, <2>1, <2>2, <2>3, OutboxOfThen DEF OnRegistered
<1> QED
  BY <1>1, <1>2

LEMMA OutboxOfInputEvent ==
  ASSUME NEW cs, NEW holder, NEW cap, NEW ctrl, NEW position
  PROVE  /\ IsOutbox(HandleInputEvent(cs, holder, cap, ctrl, position))
         /\ \A c \in ConnId :
              \A m \in Messages(HandleInputEvent(cs, holder, cap, ctrl, position), c) :
                Reported(cap, ctrl, position) /\ m = Command(LabelAt(cap, ctrl, position))
  BY OutboxOfSilence, OutboxOfSendTo, ElementsOfTuples DEF HandleInputEvent

LEMMA OutboxOfReply ==
  ASSUME NEW d, NEW rejected
  PROVE  /\ IsOutbox(RegistrationReply(d, rejected))
         /\ \A c \in ConnId : \A m \in Messages(RegistrationReply(d, rejected), c) :
              m.type \in {"register_ack", "error"}
         /\ d \in ConnId => RegisterAck("ok") \in Messages(RegistrationReply(d, rejected), d)
<1> DEFINE refused == IF rejected = {} THEN <<>> ELSE <<ErrorMessage(rejected)>>
           ack == <<RegisterAck("ok")>>
<1>1. /\ IsSequence(refused) /\ IsSequence(ack)
      /\ \A m \in Elements(refused) : m.type = "error"
      /\ \A m \in Elements(ack) : m.type = "register_ack"
      /\ RegisterAck("ok") \in Elements(ack)
  BY ElementsOfTuples DEF ErrorMessage, RegisterAck
<1>2. RegistrationReply(d, rejected) = SendTo(d, ack \o refused)
  BY DEF RegistrationReply
<1> HIDE DEF refused, ack
<1>3. /\ IsSequence(ack \o refused)
      /\ Elements(ack \o refused) = Elements(ack) \union Elements(refused)
  BY <1>1, JoinedShape, ElementsJoined
<1> QED
  BY <1>1, <1>2, <1>3, OutboxOfSendTo

-----------------------------------------------------------------------------
(* What a step writes.                                                     *)

IsAnswer(m) == m.type \in {"register_ack", "error"}

(* The messages of a step that leaves the capacity at cap.                 *)
IsWritten(m, cap) ==
  \/ IsAnswer(m)
  \/ m = SlotCapacityMessage(cap)
  \/ m.type = "render_update"
  \/ \E ctrl \in Controllers, position \in Positions :
       Reported(cap, ctrl, position) /\ m = Command(LabelAt(cap, ctrl, position))

(* The sweep of the present state that a display has to have shown.        *)
CurrentSweep == FullSweep(capacity, DisplayedContent(conns, focused))

(* Nothing is rendered, and nothing of what was due has changed; or one    *)
(* display is swept, in full.                                              *)
Repaints ==
  \/ /\ capacity' # capacity
     /\ \A c \in ConnId : Renders(out', c) = {}
  \/ /\ capacity' = capacity
     /\ \A c \in ConnId : Renders(out', c) = {}
     /\ StreamDecks(conns') \subseteq StreamDecks(conns)
     /\ \/ DisplayedContent(conns', focused') = DisplayedContent(conns, focused)
        \/ StreamDecks(conns') = {}
  \/ /\ capacity' = capacity
     /\ \E d \in StreamDecks(conns') :
          /\ Renders(out', d) = CurrentSweep'
          /\ \A c \in ConnId \ {d} : Renders(out', c) = {}

(* Every application knows the counts, or is told them.                    *)
Informs ==
  \A c \in ConnId : IsApplication(conns', c) =>
    \/ IsApplication(conns, c) /\ capacity' = capacity
    \/ SlotCapacityMessage(capacity') \in Messages(out', c)

StepWrites ==
  /\ IsOutbox(out')
  /\ \A c \in ConnId : \A m \in Messages(out', c) : IsWritten(m, capacity')
  /\ Repaints
  /\ Informs

LEMMA MessageTypes ==
  /\ \A cap, content : \A m \in FullSweep(cap, content) : m.type = "render_update"
  /\ \A cs, cap, holder, c : \A m \in Swept(cs, cap, holder, c) : m.type = "render_update"
  /\ \A cap, S, c : \A m \in Told(cap, S, c) : m.type # "render_update"
  /\ \A m : IsAnswer(m) => m.type # "render_update"
<1>1. \A ctrl, position, label, content :
        RenderSlot(ctrl, position, label, content).type = "render_update"
  BY DEF RenderSlot, RenderUpdate
<1>2. \A cap, content : \A m \in FullSweep(cap, content) : m.type = "render_update"
  BY <1>1 DEF FullSweep
<1>3. \A cap, S, c : \A m \in Told(cap, S, c) : m.type # "render_update"
  BY DEF Told, SlotCapacityMessage
<1> QED
  BY <1>2, <1>3 DEF Swept, IsAnswer

LEMMA SweptRepaints ==
  ASSUME TypeOK', capacity' = capacity,
         \A c \in ConnId : Renders(out', c) = Swept(conns', capacity', focused', c)
  PROVE  Repaints
<1>1. DOMAIN conns' \subseteq Nat
  BY ConnectionsAssumption DEF TypeOK
<1>2. CASE StreamDecks(conns') = {}
  BY <1>2 DEF Repaints, Swept, Display
<1>3. CASE StreamDecks(conns') # {}
  <2>1. PICK d : d = FindStreamDeckConnection(conns')
    OBVIOUS
  <2>2. d \in StreamDecks(conns')
    BY <1>1, <1>3, <2>1, FoundIsStreamDeck
  <2>3. d \in ConnId
    <3>1. d \in DOMAIN conns' /\ DOMAIN conns' \subseteq 1..accepted'
      BY <2>2 DEF StreamDecks, TypeOK
    <3>2. accepted' \in 0..MaxConnections
      BY DEF TypeOK
    <3> QED
      BY <3>1, <3>2, ConnectionsAssumption DEF ConnId
  <2>4. Display(conns') = {d}
    BY <1>3, <2>1 DEF Display
  <2>5. /\ Renders(out', d) = CurrentSweep'
        /\ \A c \in ConnId \ {d} : Renders(out', c) = {}
    BY <2>3, <2>4 DEF Swept, CurrentSweep
  <2> QED
    BY <2>2, <2>5 DEF Repaints
<1> QED
  BY <1>2, <1>3
LEMMA AcceptWrites ==
  ASSUME FocusInv, NEW transport \in Transports, AcceptConnection(transport)
  PROVE  StepWrites
<1> DEFINE n == accepted + 1
<1>1. /\ out' = Silence /\ capacity' = capacity /\ focused' = focused
      /\ conns' = Accept(conns, n, transport)
  BY DEF AcceptConnection
<1>2. n \notin DOMAIN conns /\ n \in ConnId
  <2>1. accepted \in Nat /\ accepted < MaxConnections /\ DOMAIN conns \subseteq 1..accepted
    BY ConnectionsAssumption DEF AcceptConnection, FocusInv, TypeOK
  <2> QED
    BY <2>1, ConnectionsAssumption DEF ConnId
<1>3. \A c \in ConnId : Messages(out', c) = {} /\ Renders(out', c) = {}
  BY <1>1, OutboxOfSilence DEF Renders
<1> HIDE DEF n
<1>4. /\ DOMAIN conns' = DOMAIN conns \union {n}
      /\ conns'[n].pluginType = Absent
      /\ \A id \in DOMAIN conns : conns'[id] = conns[id]
  BY <1>1, <1>2 DEF Accept
<1>5. StreamDecks(conns') \subseteq StreamDecks(conns)
  BY <1>4, FaceAssumption DEF StreamDecks, IsStreamDeck, Authenticated
<1>6. focused # n
  BY <1>2, InputsAssumption DEF FocusInv, FocusedIsAuthenticated, Authenticated
<1>7. DisplayedContent(conns', focused') = DisplayedContent(conns, focused)
  BY <1>1, <1>4, <1>6 DEF DisplayedContent
<1>8. Repaints
  BY <1>1, <1>3, <1>5, <1>7 DEF Repaints
<1>9. Informs
  BY <1>1, <1>4 DEF Informs, IsApplication, Authenticated
<1> QED
  BY <1>1, <1>3, <1>8, <1>9, OutboxOfSilence DEF StepWrites

(* A connection goes, with or without a refusal.                           *)
LEMMA DropWrites ==
  ASSUME FocusInv, TypeOK', NEW d \in ConnId, d \in DOMAIN conns,
         NEW reply \in {<<>>, <<RegisterAck("rejected")>>}, Drop(d, reply)
  PROVE  StepWrites
<1> DEFINE swept == HandleDisconnect(conns', focused, focused', capacity)
<1>1. /\ conns' = Disconnect(conns, d) /\ focused' = ClearIfFocused(focused, d)
      /\ capacity' = capacity
      /\ out' = Then(SendTo(d, reply), swept)
  BY DEF Drop
<1>2. capacity \in Capacity
  BY DEF FocusInv, TypeOK
<1>3. IsSequence(reply) /\ \A m \in Elements(reply) : IsAnswer(m)
  BY ElementsOfTuples DEF RegisterAck, IsAnswer
<1>4. /\ IsOutbox(swept)
      /\ \A c \in ConnId : Messages(swept, c)
           = IF focused' = focused THEN {} ELSE Swept(conns', capacity, focused', c)
  BY <1>2, OutboxOfDisconnect
<1> HIDE DEF swept
<1>5. /\ IsOutbox(out')
      /\ \A c \in ConnId : Messages(out', c) =
           (IF c = d THEN Elements(reply) ELSE {})
             \union (IF focused' = focused THEN {} ELSE Swept(conns', capacity, focused', c))
  BY <1>1, <1>3, <1>4, OutboxOfSendTo, OutboxOfThen
<1>6. \A c \in ConnId : Renders(out', c) =
        IF focused' = focused THEN {} ELSE Swept(conns', capacity, focused', c)
  BY <1>3, <1>5, MessageTypes DEF Renders
<1>7. \A c \in ConnId : \A m \in Messages(out', c) : IsWritten(m, capacity')
  BY <1>3, <1>5, MessageTypes DEF IsWritten
<1>8. /\ DOMAIN conns' = DOMAIN conns \ {d}
      /\ \A id \in DOMAIN conns' : conns'[id] = conns[id]
  BY <1>1 DEF Disconnect
<1>9. Repaints
  <2>1. CASE focused' # focused
    BY <1>1, <1>6, <2>1, SweptRepaints
  <2>2. CASE focused' = focused
    <3>1. focused # d
      BY <1>1, <2>2, InputsAssumption DEF ClearIfFocused
    <3>2. DisplayedContent(conns', focused') = DisplayedContent(conns, focused)
      BY <1>8, <2>2, <3>1 DEF DisplayedContent
    <3>3. StreamDecks(conns') \subseteq StreamDecks(conns)
      BY <1>8 DEF StreamDecks, IsStreamDeck, Authenticated
    <3> QED
      BY <1>1, <1>6, <2>2, <3>2, <3>3 DEF Repaints
  <2> QED
    BY <2>1, <2>2
<1>10. Informs
  BY <1>1, <1>8 DEF Informs, IsApplication, Authenticated
<1> QED
  BY <1>5, <1>7, <1>9, <1>10 DEF StepWrites

LEMMA RegisterWrites ==
  ASSUME FocusInv, TypeOK', NEW d \in ConnId, NEW pluginType \in PluginTypes,
         NEW declared \in Declared, Register(d, pluginType, declared)
  PROVE  StepWrites
<1>1. PICK rejected :
        out' = Then(RegistrationReply(d, rejected), HandleRegistered(conns', focused, capacity, d))
  BY DEF Register
<1>2. focused' = focused /\ capacity' = capacity /\ capacity \in Capacity
  BY DEF Register, FocusInv, TypeOK
<1>3. /\ DOMAIN conns' = DOMAIN conns /\ d \in DOMAIN conns /\ Authenticated(conns', d)
      /\ \A id : id # d => (Authenticated(conns', id) <=> Authenticated(conns, id))
      /\ \A id \in DOMAIN conns \ {d} : conns'[id] = conns[id]
  BY RegisterEffect DEF FocusInv
<1> DEFINE reply == RegistrationReply(d, rejected)
           routed == HandleRegistered(conns', focused, capacity, d)
<1>4. IsOutbox(reply) /\ \A c \in ConnId : \A m \in Messages(reply, c) : IsAnswer(m)
  BY OutboxOfReply DEF IsAnswer
<1>5. /\ IsOutbox(routed)
      /\ \A c \in ConnId : Messages(routed, c)
           = OnRegistered(conns', capacity, focused, d, c)
  BY <1>2, OutboxOfRegistered
<1>6. out' = Then(reply, routed)
  BY <1>1
<1> HIDE DEF reply, routed
<1>7. /\ IsOutbox(out')
      /\ \A c \in ConnId : Messages(out', c) = Messages(reply, c) \union Messages(routed, c)
  BY <1>4, <1>5, <1>6, OutboxOfThen
<1>8. \A c \in ConnId : \A m \in Messages(out', c) : IsWritten(m, capacity')
  BY <1>2, <1>4, <1>5, <1>7, MessageTypes DEF IsWritten, Told, OnRegistered
<1>9. \A id \in DOMAIN conns \ {d} :
        /\ IsStreamDeck(conns', id) <=> IsStreamDeck(conns, id)
        /\ IsApplication(conns', id) <=> IsApplication(conns, id)
  BY <1>3 DEF IsStreamDeck, IsApplication
<1>10. CASE IsStreamDeck(conns', d)
  <2>1. /\ Renders(out', d) = CurrentSweep'
        /\ \A c \in ConnId \ {d} : Renders(out', c) = {}
    BY <1>2, <1>4, <1>5, <1>7, <1>10, MessageTypes DEF Renders, CurrentSweep, OnRegistered
  <2>2. d \in StreamDecks(conns')
    BY <1>3, <1>10 DEF StreamDecks
  <2>3. Repaints
    BY <1>2, <2>1, <2>2 DEF Repaints
  <2>4. Informs
    <3>1. ~IsApplication(conns', d)
      BY <1>10 DEF IsStreamDeck, IsApplication
    <3> QED
      BY <1>2, <1>3, <1>9, <3>1 DEF Informs, IsApplication, Authenticated
  <2> QED
    BY <1>7, <1>8, <2>3, <2>4 DEF StepWrites
<1>11. CASE ~IsStreamDeck(conns', d)
  <2>1. \A c \in ConnId : Renders(out', c) =
          IF focused = d THEN Swept(conns', capacity', focused', c) ELSE {}
    BY <1>2, <1>4, <1>5, <1>7, <1>11, MessageTypes DEF Renders, OnRegistered
  <2>2. Repaints
    <3>1. CASE focused = d
      BY <1>2, <2>1, <3>1, SweptRepaints
    <3>2. CASE focused # d
      <4>1. DisplayedContent(conns', focused') = DisplayedContent(conns, focused)
        BY <1>2, <1>3, <3>2 DEF DisplayedContent
      <4>2. StreamDecks(conns') \subseteq StreamDecks(conns)
        BY <1>3, <1>9, <1>11 DEF StreamDecks
      <4> QED
        BY <1>2, <2>1, <3>2, <4>1, <4>2 DEF Repaints
    <3> QED
      BY <3>1, <3>2
  <2>3. Informs
    <3>1. SlotCapacityMessage(capacity') \in Messages(out', d)
      BY <1>2, <1>5, <1>7, <1>11 DEF Told, OnRegistered
    <3> QED
      BY <1>2, <1>3, <1>9, <3>1 DEF Informs, IsApplication, Authenticated
  <2> QED
    BY <1>7, <1>8, <2>2, <2>3 DEF StepWrites
<1> QED
  BY <1>10, <1>11

LEMMA FocusWrites ==
  ASSUME FocusInv, TypeOK', NEW d \in ConnId, NEW gained \in BOOLEAN, Focus(d, gained)
  PROVE  StepWrites
<1>1. /\ conns' = conns /\ capacity' = capacity /\ capacity \in Capacity
      /\ out' = HandleFocus(conns, focused, focused', capacity)
  BY DEF Focus, FocusInv, TypeOK
<1>2. /\ IsOutbox(out')
      /\ \A c \in ConnId : Messages(out', c)
           = IF focused' = focused THEN {}
             ELSE OnFocus(conns, capacity, focused', c)
  BY <1>1, OutboxOfFocus
<1>3. \A c \in ConnId : \A m \in Messages(out', c) : IsWritten(m, capacity')
  BY <1>1, <1>2, MessageTypes DEF IsWritten, Told, OnFocus
<1>4. \A c \in ConnId : Renders(out', c)
        = IF focused' = focused THEN {} ELSE Swept(conns', capacity', focused', c)
  BY <1>1, <1>2, MessageTypes DEF Renders, OnFocus
<1>5. Repaints
  <2>1. CASE focused' = focused
    BY <1>1, <1>4, <2>1 DEF Repaints
  <2>2. CASE focused' # focused
    BY <1>1, <1>4, <2>2, SweptRepaints
  <2> QED
    BY <2>1, <2>2
<1>6. Informs
  BY <1>1 DEF Informs
<1> QED
  BY <1>2, <1>3, <1>5, <1>6 DEF StepWrites

LEMMA InertWrites ==
  ASSUME FocusInv, TypeOK', NEW d \in ConnId, Inert(d)
  PROVE  StepWrites
<1>1. conns' = conns /\ focused' = focused
  BY InertFrame
<1>2. CASE MalformedMessage(d)
  <2>1. capacity' = capacity /\ out' = SendTo(d, <<ErrorMessage({})>>)
    BY <1>2 DEF MalformedMessage
  <2>2. /\ IsOutbox(out')
        /\ \A c \in ConnId : \A m \in Messages(out', c) : IsAnswer(m)
    BY <2>1, OutboxOfSendTo, ElementsOfTuples DEF IsAnswer, ErrorMessage
  <2>3. \A c \in ConnId : Renders(out', c) = {}
    BY <2>2, MessageTypes DEF Renders
  <2> QED
    BY <1>1, <2>1, <2>2, <2>3 DEF StepWrites, Repaints, Informs, IsWritten
<1>3. ASSUME NEW ctrl \in Controllers, NEW position \in Positions, InputEvent(d, ctrl, position)
      PROVE  StepWrites
  <2>1. capacity' = capacity /\ out' = HandleInputEvent(conns, focused, capacity, ctrl, position)
    BY <1>3 DEF InputEvent
  <2>2. /\ IsOutbox(out')
        /\ \A c \in ConnId : \A m \in Messages(out', c) :
             /\ Reported(capacity, ctrl, position)
             /\ m = Command(LabelAt(capacity, ctrl, position))
    BY <2>1, OutboxOfInputEvent
  <2>3. \A c \in ConnId : Renders(out', c) = {}
    BY <2>2 DEF Renders, Command
  <2>4. \A c \in ConnId : \A m \in Messages(out', c) : IsWritten(m, capacity')
    BY <2>1, <2>2 DEF IsWritten
  <2> QED
    BY <1>1, <2>1, <2>2, <2>3, <2>4 DEF StepWrites, Repaints, Informs
<1>4. ASSUME NEW report \in Reports, DeviceCapacity(d, report) PROVE StepWrites
  <2>1. capacity' = report /\ out' = BroadcastSlotCapacity(conns', capacity')
    BY <1>1, <1>4 DEF DeviceCapacity
  <2>2. /\ IsOutbox(out')
        /\ \A c \in ConnId :
             Messages(out', c) = Told(capacity', {a \in ConnId : IsApplication(conns', a)}, c)
    BY <2>1, OutboxOfCountsToAll
  <2>3. \A c \in ConnId : Renders(out', c) = {}
    BY <2>2, MessageTypes DEF Renders
  <2>4. \A c \in ConnId : \A m \in Messages(out', c) : IsWritten(m, capacity')
    BY <2>2 DEF IsWritten, Told
  <2>5. Informs
    BY <2>2 DEF Informs, Told
  <2>6. Repaints
    BY <1>1, <2>3 DEF Repaints
  <2> QED
    BY <2>2, <2>4, <2>5, <2>6 DEF StepWrites
<1>5. CASE Ignored(d)
  <2>1. capacity' = capacity /\ out' = Silence
    BY <1>5 DEF Ignored
  <2>2. IsOutbox(out') /\ \A c \in ConnId : Messages(out', c) = {} /\ Renders(out', c) = {}
    BY <2>1, OutboxOfSilence DEF Renders
  <2> QED
    BY <1>1, <2>1, <2>2 DEF StepWrites, Repaints, Informs
<1> QED
  BY <1>2, <1>3, <1>4, <1>5 DEF Inert

LEMMA NextWrites ==
  ASSUME FocusInv, Next
  PROVE  StepWrites
<1>1. TypeOK'
  BY NextFocusInv DEF FocusInv
<1>2. ASSUME NEW transport \in Transports, AcceptConnection(transport) PROVE StepWrites
  BY <1>2, AcceptWrites
<1>3. ASSUME NEW c \in ConnId, Handle(c) PROVE StepWrites
  <2>1. CASE SocketClosed(c) \/ MalformedBeforeAuth(c) \/ NonRegisterBeforeAuth(c)
             \/ RegisterRefused(c)
    BY <1>1, <2>1, DropWrites
    DEF SocketClosed, MalformedBeforeAuth, NonRegisterBeforeAuth, RegisterRefused
  <2>2. ASSUME NEW pluginType \in PluginTypes, NEW declared \in Declared,
               Register(c, pluginType, declared)
        PROVE  StepWrites
    BY <1>1, <2>2, RegisterWrites
  <2>3. ASSUME NEW gained \in BOOLEAN, Focus(c, gained) PROVE StepWrites
    BY <1>1, <2>3, FocusWrites
  <2>4. CASE Inert(c)
    BY <1>1, <2>4, InertWrites
  <2> QED
    BY <1>3, <2>1, <2>2, <2>3, <2>4 DEF Handle, Inert
<1> QED
  BY <1>2, <1>3 DEF Next

(* A step renders to at most one connection, and that one has registered   *)
(* as a Stream Deck, however many of them there are.                       *)
THEOREM OneDisplay == Spec => []OneDisplayIsPainted
<1>1. Init => OneDisplayIsPainted
  BY OutboxOfSilence DEF Init, OneDisplayIsPainted, Renders
<1>2. FocusInv /\ OneDisplayIsPainted /\ [Next]_vars => OneDisplayIsPainted'
  <2> SUFFICES ASSUME FocusInv, OneDisplayIsPainted, [Next]_vars PROVE OneDisplayIsPainted'
    OBVIOUS
  <2>1. CASE Next
    <3>1. Repaints
      BY <2>1, NextWrites DEF StepWrites
    <3>2. CASE \A c \in ConnId : Renders(out', c) = {}
      BY <3>2 DEF OneDisplayIsPainted
    <3>3. ASSUME NEW d \in StreamDecks(conns'), \A c \in ConnId \ {d} : Renders(out', c) = {}
          PROVE  OneDisplayIsPainted'
      BY <3>3 DEF OneDisplayIsPainted, StreamDecks
    <3> QED
      BY <3>1, <3>2, <3>3 DEF Repaints
  <2>2. CASE UNCHANGED vars
    BY <2>2 DEF vars, OneDisplayIsPainted, Renders, Messages, IsStreamDeck, Authenticated
  <2> QED
    BY <2>1, <2>2
<1> QED
  BY <1>1, <1>2, InitFocusInv, NextFocusInv, PTL DEF Spec

-----------------------------------------------------------------------------
(* Declarations are one's own.                                             *)

(* Who registers successfully is told so.                                  *)
LEMMA RegisterAcknowledged ==
  ASSUME TypeOK, NEW c \in ConnId, NEW pluginType \in PluginTypes, NEW declared \in Declared,
         Register(c, pluginType, declared)
  PROVE  RegisterAck("ok") \in Messages(out', c)
<1>1. PICK rejected :
        out' = Then(RegistrationReply(c, rejected), HandleRegistered(conns', focused, capacity, c))
  BY DEF Register
<1> DEFINE reply == RegistrationReply(c, rejected)
           routed == HandleRegistered(conns', focused, capacity, c)
<1>2. IsOutbox(reply) /\ RegisterAck("ok") \in Messages(reply, c)
  BY OutboxOfReply
<1>3. IsOutbox(routed)
  BY OutboxOfRegistered DEF TypeOK
<1>4. out' = Then(reply, routed)
  BY <1>1
<1> HIDE DEF reply, routed
<1> QED
  BY <1>2, <1>3, <1>4, OutboxOfThen

(* A record is the one it was, or its connection was told "ok".            *)
OwnRecord(c) == conns'[c] = conns[c] \/ RegisterAck("ok") \in Messages(out', c)

LEMMA NextOwnRecords ==
  ASSUME TypeOK, Next, NEW id \in DOMAIN conns, id \in DOMAIN conns'
  PROVE  OwnRecord(id)
<1>1. accepted \in Nat /\ DOMAIN conns \subseteq 1..accepted
  BY ConnectionsAssumption DEF TypeOK
<1>2. ASSUME NEW transport \in Transports, AcceptConnection(transport) PROVE OwnRecord(id)
  <2>1. id # accepted + 1
    BY <1>1
  <2> QED
    BY <1>2, <2>1 DEF AcceptConnection, Accept, OwnRecord
<1>3. ASSUME NEW c \in ConnId, Handle(c) PROVE OwnRecord(id)
  <2>1. CASE Gone(c)
    BY <2>1 DEF Gone, Drop, Disconnect, OwnRecord
  <2>2. ASSUME NEW pluginType \in PluginTypes, NEW declared \in Declared,
               Register(c, pluginType, declared)
        PROVE  OwnRecord(id)
    <3>1. CASE id = c
      BY <2>2, <3>1, RegisterAcknowledged DEF OwnRecord
    <3>2. CASE id # c
      BY <2>2, <3>2, RegisterEffect DEF OwnRecord
    <3> QED
      BY <3>1, <3>2
  <2>3. ASSUME NEW gained \in BOOLEAN, Focus(c, gained) PROVE OwnRecord(id)
    BY <2>3 DEF Focus, OwnRecord
  <2>4. CASE Inert(c)
    BY <2>4, InertFrame DEF OwnRecord
  <2> QED
    BY <1>3, <2>1, <2>2, <2>3, <2>4, HandleCases
<1> QED
  BY <1>2, <1>3 DEF Next

(* What a connection declared changes only in a step that tells that very  *)
(* connection its registration has succeeded.                              *)
THEOREM DeclarationsOwned == Spec => DeclarationsAreOnesOwn
<1> DEFINE Owned == \A c \in DOMAIN conns \intersect DOMAIN conns' :
              \/ conns'[c].pluginType = conns[c].pluginType /\ conns'[c].content = conns[c].content
              \/ RegisterAck("ok") \in Messages(out', c)
<1>1. TypeOK /\ [Next]_vars => [Owned]_vars
  BY NextOwnRecords DEF OwnRecord
<1> QED
  BY <1>1, TypeCorrect, PTL DEF Spec, DeclarationsAreOnesOwn

-----------------------------------------------------------------------------
(* What a store shows after a sequence of messages.                        *)

LEMMA GetAfter ==
  ASSUME NEW store, NEW messages, NEW slot
  PROVE  LET shown == Store!Get(Store!ApplyAll(store, messages), slot)
         IN /\ shown.icon = Store!After(store, messages, slot, "icon")
            /\ shown.text = Store!After(store, messages, slot, "text")
<1>1. CASE slot \in DOMAIN store \union Store!SlotsIn(messages)
  BY <1>1 DEF Store!Get, Store!ApplyAll
<1>2. CASE slot \notin DOMAIN store \union Store!SlotsIn(messages)
  <2>1. \A field : Store!Setting(messages, slot, field) = {}
    BY <1>2 DEF Store!Setting, Store!SlotsIn
  <2>2. /\ Store!Get(Store!ApplyAll(store, messages), slot) = Store!NeverRendered
        /\ Store!Get(store, slot) = Store!NeverRendered
    BY <1>2 DEF Store!Get, Store!ApplyAll
  <2>3. \A field : Store!After(store, messages, slot, field) = Store!NeverRendered[field]
    BY <2>1, <2>2 DEF Store!After
  <2> QED
    BY <2>2, <2>3
<1> QED
  BY <1>1, <1>2

LEMMA SettingIndices ==
  ASSUME NEW messages, IsSequence(messages), NEW slot, NEW field
  PROVE  LET S == Store!Setting(messages, slot, field)
         IN /\ S \subseteq 1..Len(messages) /\ S \subseteq Nat
            /\ S # {} => Store!LastOf(S) \in S /\ \A k \in S : k <= Store!LastOf(S)
<1> DEFINE S == Store!Setting(messages, slot, field)
<1>1. Len(messages) \in Nat /\ S \subseteq 1..Len(messages)
  BY SequenceShape DEF Store!Setting
<1> HIDE DEF S
<1>2. S # {} => Store!LastOf(S) \in S /\ \A k \in S : k <= Store!LastOf(S)
  BY <1>1, LastExists
<1>3. S \subseteq Nat
  BY <1>1
<1> QED
  BY <1>1, <1>2, <1>3 DEF S

(* Updates written behind others decide, where there are any.              *)
LEMMA LaterUpdatesDecide ==
  ASSUME NEW store, NEW a, NEW b, IsSequence(a), IsSequence(b), NEW slot, NEW field, NEW value,
         Store!Setting(b, slot, field) # {},
         \A k \in Store!Setting(b, slot, field) : b[k][field] = value
  PROVE  Store!After(store, a \o b, slot, field) = value
<1> DEFINE ab == a \o b
           S == Store!Setting(ab, slot, field)
           B == Store!Setting(b, slot, field)
<1>1. /\ IsSequence(ab)
      /\ Len(a) \in Nat /\ Len(b) \in Nat
      /\ DOMAIN b = 1..Len(b) /\ DOMAIN ab = 1..(Len(a) + Len(b))
      /\ \A k \in DOMAIN b : ab[Len(a) + k] = b[k]
  BY JoinedShape
<1> HIDE DEF ab
<1>2. ASSUME NEW k \in B PROVE Len(a) + k \in S
  <2>1. k \in DOMAIN b /\ ab[Len(a) + k] = b[k]
    BY <1>1 DEF Store!Setting
  <2>2. Len(a) + k \in DOMAIN ab
    BY <1>1, <2>1
  <2> QED
    BY <2>1, <2>2 DEF Store!Setting
<1> DEFINE last == Store!LastOf(S)
<1>3. PICK first : first \in B
  OBVIOUS
<1>4. last \in S /\ Len(a) + first <= last
  BY <1>1, <1>2, <1>3, SettingIndices
<1>5. last \in DOMAIN ab /\ first \in DOMAIN b
  BY <1>3, <1>4 DEF Store!Setting
<1> HIDE DEF last
<1>6. last - Len(a) \in DOMAIN b /\ last = Len(a) + (last - Len(a))
  BY <1>1, <1>4, <1>5
<1>7. ab[last] = b[last - Len(a)]
  BY <1>1, <1>6
<1>8. last - Len(a) \in B
  BY <1>4, <1>6, <1>7 DEF Store!Setting
<1>9. ab[last][field] = value
  BY <1>7, <1>8
<1> QED
  BY <1>4, <1>9 DEF Store!After, last, ab

LEMMA QuietUpdatesChangeNothing ==
  ASSUME NEW store, NEW a, NEW b, IsSequence(a), IsSequence(b), NEW slot, NEW field,
         Store!Setting(b, slot, field) = {}
  PROVE  Store!After(store, a \o b, slot, field) = Store!After(store, a, slot, field)
<1> DEFINE ab == a \o b
           S == Store!Setting(ab, slot, field)
           A == Store!Setting(a, slot, field)
<1>1. /\ IsSequence(ab)
      /\ Len(a) \in Nat /\ Len(b) \in Nat
      /\ DOMAIN a = 1..Len(a) /\ DOMAIN b = 1..Len(b) /\ DOMAIN ab = 1..(Len(a) + Len(b))
      /\ \A k \in DOMAIN a : ab[k] = a[k]
      /\ \A k \in DOMAIN b : ab[Len(a) + k] = b[k]
  BY JoinedShape
<1> HIDE DEF ab
<1>2. ASSUME NEW k \in S PROVE k \in A
  <2>1. k \in DOMAIN ab
    BY DEF Store!Setting
  <2>2. CASE k \in DOMAIN a
    BY <1>1, <2>2 DEF Store!Setting
  <2>3. CASE k \notin DOMAIN a
    <3>1. k - Len(a) \in DOMAIN b /\ k = Len(a) + (k - Len(a))
      BY <1>1, <2>1, <2>3
    <3>2. ab[k] = b[k - Len(a)]
      BY <1>1, <3>1
    <3>3. k - Len(a) \in Store!Setting(b, slot, field)
      BY <3>1, <3>2 DEF Store!Setting
    <3> QED
      BY <3>3
  <2> QED
    BY <2>2, <2>3
<1>3. ASSUME NEW k \in A PROVE k \in S
  <2>1. k \in DOMAIN a /\ ab[k] = a[k]
    BY <1>1 DEF Store!Setting
  <2>2. k \in DOMAIN ab
    BY <1>1, <2>1
  <2> QED
    BY <2>1, <2>2 DEF Store!Setting
<1>4. S = A
  BY <1>2, <1>3
<1>5. CASE A = {}
  BY <1>4, <1>5 DEF Store!After, ab
<1>6. CASE A # {}
  <2>1. Store!LastOf(A) \in DOMAIN a
    BY <1>6, SettingIndices DEF Store!Setting
  <2>2. ab[Store!LastOf(A)] = a[Store!LastOf(A)]
    BY <1>1, <2>1
  <2> QED
    BY <1>4, <1>6, <2>2 DEF Store!After, ab
<1> QED
  BY <1>5, <1>6

(* Reading the first message moves its update from the sequence into the   *)
(* store.                                                                  *)
LEMMA TailSetting ==
  ASSUME NEW messages, IsSequence(messages), messages # <<>>, NEW slot, NEW field
  PROVE  \A k \in Nat \ {0} :
           k \in Store!Setting(Tail(messages), slot, field)
             <=> k + 1 \in Store!Setting(messages, slot, field)
<1> SUFFICES ASSUME NEW k \in Nat \ {0}
             PROVE  k \in Store!Setting(Tail(messages), slot, field)
                      <=> k + 1 \in Store!Setting(messages, slot, field)
  OBVIOUS
<1>1. k \in DOMAIN Tail(messages) <=> k + 1 \in DOMAIN messages
  BY TailShape
<1>2. k \in DOMAIN Tail(messages) => Tail(messages)[k] = messages[k + 1]
  BY TailShape
<1> QED
  BY <1>1, <1>2 DEF Store!Setting

LEMMA FirstIsRead ==
  ASSUME NEW store, NEW messages, IsSequence(messages), messages # <<>>, NEW slot, NEW field,
         NEW next, Store!Setting(Tail(messages), slot, field) = {} =>
                     Store!Get(next, slot)[field] =
                       IF 1 \in Store!Setting(messages, slot, field) THEN messages[1][field]
                       ELSE Store!Get(store, slot)[field]
  PROVE  Store!After(next, Tail(messages), slot, field)
           = Store!After(store, messages, slot, field)
<1> DEFINE S == Store!Setting(messages, slot, field)
           T == Store!Setting(Tail(messages), slot, field)
<1>1. \A k \in Nat \ {0} : k \in T <=> k + 1 \in S
  BY TailSetting
<1>2. IsSequence(Tail(messages)) /\ DOMAIN Tail(messages) = 1..(Len(messages) - 1)
      /\ \A k \in DOMAIN Tail(messages) : Tail(messages)[k] = messages[k + 1]
  BY TailShape
<1>3. S \subseteq 1..Len(messages) /\ Len(messages) \in Nat
  BY SettingIndices, SequenceShape
<1>4. T \subseteq DOMAIN Tail(messages)
  BY DEF Store!Setting
<1> HIDE DEF S, T
<1>5. ASSUME NEW k \in S, k # 1 PROVE k - 1 \in T /\ k = (k - 1) + 1
  <2>1. k - 1 \in Nat \ {0} /\ k = (k - 1) + 1
    BY <1>3, <1>5
  <2> QED
    BY <1>1, <2>1
<1>6. CASE T = {}
  <2>1. S \subseteq {1}
    BY <1>5, <1>6
  <2>2. CASE S = {}
    BY <1>6, <2>2 DEF Store!After, S, T
  <2>3. CASE S = {1}
    <3>1. Store!LastOf(S) = 1
      BY <2>3, LastIs
    <3> QED
      BY <1>6, <2>3, <3>1 DEF Store!After, S, T
  <2> QED
    BY <2>1, <2>2, <2>3
<1>7. CASE T # {}
  <2> DEFINE last == Store!LastOf(T)
  <2>1. last \in T /\ \A k \in T : k <= last
    BY <1>2, <1>7, SettingIndices DEF T
  <2>2. last \in Nat \ {0} /\ last \in DOMAIN Tail(messages) /\ T \subseteq Nat
    BY <1>2, <1>3, <1>4, <2>1
  <2> HIDE DEF last
  <2>3. last + 1 \in S
    BY <1>1, <2>1, <2>2
  <2>4. ASSUME NEW k \in S PROVE k <= last + 1
    <3>1. CASE k = 1
      BY <2>2, <3>1
    <3>2. CASE k # 1
      <4>1. k - 1 <= last /\ k \in Nat
        BY <1>3, <1>5, <2>1, <3>2
      <4> QED
        BY <2>2, <4>1
    <3> QED
      BY <3>1, <3>2
  <2>5. Store!LastOf(S) = last + 1
    <3>1. S \subseteq Nat
      BY <1>3
    <3> QED
      BY <2>3, <2>4, <3>1, LastIs
  <2>6. Tail(messages)[last] = messages[last + 1]
    BY <1>2, <2>2
  <2>7. S # {}
    BY <2>3
  <2> QED
    BY <1>7, <2>5, <2>6, <2>7 DEF Store!After, S, T, last
<1> QED
  BY <1>6, <1>7

LEMMA UpdateIsRead ==
  ASSUME NEW store, NEW messages, IsSequence(messages), messages # <<>>,
         Head(messages).type = "render_update", NEW slot, NEW field \in {"icon", "text"}
  PROVE  Store!After(Store!Apply(store, Head(messages)), Tail(messages), slot, field)
           = Store!After(store, messages, slot, field)
<1> DEFINE h == Head(messages)
           at == <<h.controller, h.position>>
           next == Store!Apply(store, h)
<1>1. h = messages[1] /\ 1 \in DOMAIN messages
  BY TailShape
<1>2. 1 \in Store!Setting(messages, slot, field) <=> (at = slot /\ h[field] # Absent)
  BY <1>1 DEF Store!Setting
<1>3. CASE at # slot
  <2>1. Store!Get(next, slot) = Store!Get(store, slot)
    BY <1>3 DEF Store!Apply, Store!Get
  <2>2. Store!Get(next, slot)[field] =
          IF 1 \in Store!Setting(messages, slot, field) THEN messages[1][field]
          ELSE Store!Get(store, slot)[field]
    BY <1>2, <1>3, <2>1
  <2> HIDE DEF next
  <2>3. Store!After(next, Tail(messages), slot, field)
          = Store!After(store, messages, slot, field)
    BY <2>2, FirstIsRead
  <2> QED
    BY <2>3 DEF next
<1>4. CASE at = slot
  <2>1. Store!Get(next, slot) = Store!Merge(Store!Get(store, slot), h)
    BY <1>4 DEF Store!Apply, Store!Get
  <2>2. Store!Merge(Store!Get(store, slot), h)[field]
          = IF h[field] = Absent THEN Store!Get(store, slot)[field] ELSE h[field]
    <3>1. CASE field = "icon"
      BY <3>1 DEF Store!Merge
    <3>2. CASE field = "text"
      BY <3>2 DEF Store!Merge
    <3> QED
      BY <3>1, <3>2
  <2>3. Store!Get(next, slot)[field] =
          IF 1 \in Store!Setting(messages, slot, field) THEN messages[1][field]
          ELSE Store!Get(store, slot)[field]
    BY <1>1, <1>2, <1>4, <2>1, <2>2
  <2> HIDE DEF next
  <2>4. Store!After(next, Tail(messages), slot, field)
          = Store!After(store, messages, slot, field)
    BY <2>3, FirstIsRead
  <2> QED
    BY <2>4 DEF next
<1> QED
  BY <1>3, <1>4

LEMMA OtherIsRead ==
  ASSUME NEW store, NEW messages, IsSequence(messages), messages # <<>>,
         Head(messages).type # "render_update", NEW slot, NEW field
  PROVE  Store!After(store, Tail(messages), slot, field)
           = Store!After(store, messages, slot, field)
<1>1. 1 \notin Store!Setting(messages, slot, field)
  BY TailShape DEF Store!Setting
<1> QED
  BY <1>1, FirstIsRead

-----------------------------------------------------------------------------
(* What a display shows.                                                   *)

(* A store shows the icons and texts of the sweep of a capacity.           *)
Shows(store, cap, content) ==
  \A ctrl \in Controllers : \A i \in DOMAIN PositionsFor(cap, ctrl) :
    LET position == PositionsFor(cap, ctrl)[i]
        shown == Store!Get(store, <<ctrl, position>>)
        due == RenderSlot(ctrl, position, LabelFor(ctrl, i), content)
    IN shown.icon = due.icon /\ shown.text = due.text

Renderings(s) == {m \in Elements(s) : m.type = "render_update"}

CapacityIsKnown(cap) == cap \in Reports \union {Absent}

LEMMA NextCapacityIsKnown ==
  ASSUME CapacityIsKnown(capacity), Next
  PROVE  CapacityIsKnown(capacity')
<1>1. capacity' = capacity \/ capacity' \in Reports
  BY DEF Next, Handle, AcceptConnection, SocketClosed, MalformedBeforeAuth, MalformedMessage,
         NonRegisterBeforeAuth, RegisterRefused, Drop, Register, Focus, InputEvent,
         DeviceCapacity, Ignored
<1> QED
  BY <1>1 DEF CapacityIsKnown

LEMMA PositionsShape ==
  ASSUME NEW cap, CapacityIsKnown(cap), NEW ctrl \in Controllers
  PROVE  LET positions == PositionsFor(cap, ctrl)
         IN /\ Len(positions) \in Nat /\ DOMAIN positions = 1..Len(positions)
            /\ positions \in Seq(Positions)
            /\ \A i, j \in DOMAIN positions : positions[i] = positions[j] => i = j
<1> DEFINE positions == PositionsFor(cap, ctrl)
<1>1. CASE cap = Absent
  BY <1>1, EmptySeq DEF PositionsFor
<1>2. CASE cap \in Reports /\ cap # Absent
  <2>1. positions \in Seq(Positions)
    BY <1>2, InputsAssumption DEF PositionsFor, Report, Controllers
  <2>2. \A i, j \in DOMAIN positions : positions[i] = positions[j] => i = j
    BY <1>2, FaceAssumption DEF PositionsFor
  <2> HIDE DEF positions
  <2>3. Len(positions) \in Nat /\ DOMAIN positions = 1..Len(positions)
    BY <2>1, LenProperties
  <2> QED
    BY <2>1, <2>2, <2>3 DEF positions
<1> QED
  BY <1>1, <1>2 DEF CapacityIsKnown

LEMMA RenderSlotShape ==
  ASSUME NEW ctrl, NEW position, NEW label, NEW content, IsContent(content)
  PROVE  LET m == RenderSlot(ctrl, position, label, content)
         IN /\ m.type = "render_update" /\ m.controller = ctrl /\ m.position = position
            /\ m.icon # Absent /\ m.text # Absent
            /\ m["icon"] = m.icon /\ m["text"] = m.text
            /\ label \in DOMAIN content => m.text = content[label].label
            /\ label \notin DOMAIN content => m.text = IdleLabel
<1>1. CASE label \in DOMAIN content
  <2>1. content[label].label \in Texts
    BY <1>1 DEF IsContent, ShapeFits, Entry
  <2> QED
    BY <1>1, <2>1, MarkersAssumption DEF RenderSlot, RenderUpdate
<1>2. CASE label \notin DOMAIN content
  BY <1>2, MarkersAssumption, FaceAssumption DEF RenderSlot, RenderUpdate
<1> QED
  BY <1>1, <1>2

LEMMA DisplayedContentIsContent ==
  ASSUME NEW cs, NEW holder, \A c \in DOMAIN cs : IsContent(cs[c].content)
  PROVE  IsContent(DisplayedContent(cs, holder))
  BY DEF DisplayedContent, IsContent, NoContent

LEMMA TypedDisplay ==
  /\ TypeOK => IsContent(DisplayedContent(conns, focused))
  /\ TypeOK' => IsContent(DisplayedContent(conns', focused'))
  BY DisplayedContentIsContent DEF TypeOK, IsRecord

LEMMA TypedConnections ==
  /\ TypeOK => DOMAIN conns \subseteq ConnId
  /\ TypeOK' => DOMAIN conns' \subseteq ConnId
<1>1. \A n \in 0..MaxConnections : 1..n \subseteq ConnId
  BY ConnectionsAssumption DEF ConnId
<1> QED
  BY <1>1 DEF TypeOK

(* A full sweep behind whatever else is shown.                             *)
LEMMA SweptShows ==
  ASSUME NEW cap, CapacityIsKnown(cap), NEW content, IsContent(content),
         NEW store, NEW a, NEW b, IsSequence(a), IsSequence(b),
         Renderings(b) = FullSweep(cap, content)
  PROVE  Shows(Store!ApplyAll(store, a \o b), cap, content)
<1> SUFFICES ASSUME NEW ctrl \in Controllers, NEW i \in DOMAIN PositionsFor(cap, ctrl)
             PROVE  LET position == PositionsFor(cap, ctrl)[i]
                        shown == Store!Get(Store!ApplyAll(store, a \o b), <<ctrl, position>>)
                        due == RenderSlot(ctrl, position, LabelFor(ctrl, i), content)
                    IN shown.icon = due.icon /\ shown.text = due.text
  BY DEF Shows
<1> DEFINE position == PositionsFor(cap, ctrl)[i]
           slot == <<ctrl, position>>
           due == RenderSlot(ctrl, position, LabelFor(ctrl, i), content)
<1>1. /\ due.type = "render_update" /\ due.controller = ctrl /\ due.position = position
      /\ due["icon"] # Absent /\ due["text"] # Absent
  BY RenderSlotShape
<1>2. due \in FullSweep(cap, content)
  BY DEF FullSweep
<1>3. PICK n \in DOMAIN b : b[n] = due
  BY <1>2 DEF Renderings, Elements
<1>4. ASSUME NEW field, NEW k \in Store!Setting(b, slot, field) PROVE b[k] = due
  <2>1. /\ k \in DOMAIN b /\ b[k].type = "render_update"
        /\ b[k].controller = ctrl /\ b[k].position = position
    BY DEF Store!Setting
  <2>2. b[k] \in FullSweep(cap, content)
    BY <2>1 DEF Renderings, Elements
  <2>3. PICK other \in Controllers :
          \E j \in DOMAIN PositionsFor(cap, other) :
            b[k] = RenderSlot(other, PositionsFor(cap, other)[j], LabelFor(other, j), content)
    BY <2>2 DEF FullSweep
  <2>4. PICK j \in DOMAIN PositionsFor(cap, other) :
          b[k] = RenderSlot(other, PositionsFor(cap, other)[j], LabelFor(other, j), content)
    BY <2>3
  <2>5. other = ctrl /\ PositionsFor(cap, other)[j] = position
    BY <2>1, <2>4, RenderSlotShape
  <2>6. j = i
    BY <2>5, PositionsShape
  <2> QED
    BY <2>4, <2>5, <2>6
<1> HIDE DEF due, position
<1>5. n \in Store!Setting(b, slot, "icon") /\ n \in Store!Setting(b, slot, "text")
  BY <1>1, <1>3 DEF Store!Setting
<1>6. Store!After(store, a \o b, slot, "icon") = due["icon"]
  <2>1. Store!Setting(b, slot, "icon") # {}
    BY <1>5
  <2>2. \A k \in Store!Setting(b, slot, "icon") : b[k]["icon"] = due["icon"]
    BY <1>4
  <2> QED
    BY <2>1, <2>2, LaterUpdatesDecide
<1>7. Store!After(store, a \o b, slot, "text") = due["text"]
  <2>1. Store!Setting(b, slot, "text") # {}
    BY <1>5
  <2>2. \A k \in Store!Setting(b, slot, "text") : b[k]["text"] = due["text"]
    BY <1>4
  <2> QED
    BY <2>1, <2>2, LaterUpdatesDecide
<1>8. /\ Store!Get(Store!ApplyAll(store, a \o b), slot).icon = due["icon"]
      /\ Store!Get(Store!ApplyAll(store, a \o b), slot).text = due["text"]
  BY <1>6, <1>7, GetAfter
<1> QED
  BY <1>8 DEF due, position

(* Messages that render nothing leave what is shown.                       *)
LEMMA QuietShows ==
  ASSUME NEW cap, NEW content, NEW store, NEW a, NEW b, IsSequence(a), IsSequence(b),
         Renderings(b) = {}, Shows(Store!ApplyAll(store, a), cap, content)
  PROVE  Shows(Store!ApplyAll(store, a \o b), cap, content)
<1>1. \A slot, field : Store!Setting(b, slot, field) = {}
  BY DEF Store!Setting, Renderings, Elements
<1>2. \A slot : /\ Store!Get(Store!ApplyAll(store, a \o b), slot).icon
                     = Store!Get(Store!ApplyAll(store, a), slot).icon
                /\ Store!Get(Store!ApplyAll(store, a \o b), slot).text
                     = Store!Get(Store!ApplyAll(store, a), slot).text
  <2>1. \A slot, field : Store!After(store, a \o b, slot, field) = Store!After(store, a, slot, field)
    BY <1>1, QuietUpdatesChangeNothing
  <2> QED
    BY <2>1, GetAfter
<1> QED
  BY <1>2 DEF Shows

(* The first of the messages that are under way is read.                   *)
LEMMA ReadShows ==
  ASSUME NEW cap, NEW content, NEW store, NEW messages, IsSequence(messages), messages # <<>>,
         Shows(Store!ApplyAll(store, messages), cap, content),
         NEW next, next = IF Head(messages).type = "render_update"
                            THEN Store!Apply(store, Head(messages)) ELSE store
  PROVE  Shows(Store!ApplyAll(next, Tail(messages)), cap, content)
<1>1. \A slot : \A field \in {"icon", "text"} :
        Store!After(next, Tail(messages), slot, field) = Store!After(store, messages, slot, field)
  BY UpdateIsRead, OtherIsRead
<1>2. \A slot : /\ Store!Get(Store!ApplyAll(next, Tail(messages)), slot).icon
                     = Store!Get(Store!ApplyAll(store, messages), slot).icon
                /\ Store!Get(Store!ApplyAll(next, Tail(messages)), slot).text
                     = Store!Get(Store!ApplyAll(store, messages), slot).text
  BY <1>1, GetAfter
<1> QED
  BY <1>2 DEF Shows

(* A press on a position goes to whom the sweep of the position is of.     *)
LEMMA PressFollowsSweep ==
  ASSUME NEW cap, CapacityIsKnown(cap), NEW ctrl \in Controllers,
         NEW i \in DOMAIN PositionsFor(cap, ctrl), NEW cs, NEW holder,
         IsContent(DisplayedContent(cs, holder))
  PROVE  LET position == PositionsFor(cap, ctrl)[i]
             label == LabelFor(ctrl, i)
             due == RenderSlot(ctrl, position, label, DisplayedContent(cs, holder))
             answer == HandleInputEvent(cs, holder, cap, ctrl, position)
         IN \/ answer = Silence /\ due.text = IdleLabel
            \/ /\ answer = SendTo(holder, <<Command(label)>>)
               /\ due.text = cs[holder].content[label].label
<1> DEFINE positions == PositionsFor(cap, ctrl)
           label == LabelFor(ctrl, i)
           content == DisplayedContent(cs, holder)
           answer == HandleInputEvent(cs, holder, cap, ctrl, positions[i])
<1>1. /\ i \in DOMAIN positions
      /\ DOMAIN positions = 1..Len(positions) /\ Len(positions) \in Nat
      /\ \A k, j \in DOMAIN positions : positions[k] = positions[j] => k = j
  BY PositionsShape
<1>2. Reported(cap, ctrl, positions[i])
  BY DEF Reported
<1>3. FirstIndex(positions, positions[i]) = i
  <2> HIDE DEF positions
  <2>1. \A j \in 1..(i - 1) : positions[j] # positions[i]
    <3>1. \A j \in 1..(i - 1) : j \in DOMAIN positions /\ j # i
      BY <1>1
    <3> QED
      BY <1>1, <3>1
  <2> QED
    BY <1>1, <2>1 DEF FirstIndex
<1>4. LabelAt(cap, ctrl, positions[i]) = label
  BY <1>3 DEF LabelAt
<1>5. /\ label \in DOMAIN content =>
           RenderSlot(ctrl, positions[i], label, content).text = content[label].label
      /\ label \notin DOMAIN content =>
           RenderSlot(ctrl, positions[i], label, content).text = IdleLabel
  BY RenderSlotShape
<1>6. /\ label \in DOMAIN content => holder \in DOMAIN cs
      /\ holder \in DOMAIN cs => content = cs[holder].content
  BY DEF DisplayedContent, NoContent
<1>7. answer = IF label \in DOMAIN content THEN SendTo(holder, <<Command(label)>>) ELSE Silence
  BY <1>2, <1>4, <1>6 DEF HandleInputEvent
<1> HIDE DEF positions, label, content
<1> QED
  BY <1>5, <1>6, <1>7 DEF positions, label, content
=============================================================================
