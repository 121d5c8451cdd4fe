--------------------------- MODULE DeckLinkProofs ---------------------------
(***************************************************************************)
(* Theorems about gatoway-core and the Stream Deck plugin with messages    *)
(* under way and a core that restarts, for any number of connections,      *)
(* devices and declarations, and any amount of unread messages.            *)
(***************************************************************************)
EXTENDS DeckLink, GatowayCoreProofs

(* What the plugin sends.                                                  *)
IsToCore(m) ==
  /\ m.type \in {"register", "device_capacity", "input_event"}
  /\ m.type = "device_capacity" => m.report \in Reports
  /\ m.type = "input_event" => m.controller \in Controllers /\ m.position \in Positions

LinkTypeOK ==
  /\ socket \in ConnId \union {NoSocket}
  /\ devices \in Reports
  /\ IsSequence(toCore) /\ \A n \in DOMAIN toCore : IsToCore(toCore[n])
  /\ IsSequence(toDeck)

(* The plugin's connection is the core's only display.                     *)
OnePlugin ==
  /\ StreamDecks(conns) \subseteq {socket}
  /\ painted => socket \in StreamDecks(conns)
  /\ socket = NoSocket => toDeck = <<>> /\ ~connected

LinkInv ==
  /\ FocusInv
  /\ CapacityIsKnown(capacity)
  /\ LinkTypeOK
  /\ OnePlugin
  /\ connected => lastReportedCapacity = devices
  /\ CoreLearnsTheDevices
  /\ UpdatesAmountToTheState

-----------------------------------------------------------------------------
(* The capacity a core that has `cap` comes to when it reads a queue.      *)

ReportsIn(queue) == {n \in DOMAIN queue : queue[n].type = "device_capacity"}

ToCome(cap, queue) ==
  IF ReportsIn(queue) = {} THEN cap ELSE queue[Store!LastOf(ReportsIn(queue))].report

LEMMA ReportAppended ==
  ASSUME NEW queue, IsSequence(queue), NEW cap, NEW m, m.type = "device_capacity"
  PROVE  ToCome(cap, Append(queue, m)) = m.report
<1> DEFINE longer == Append(queue, m)
           n == Len(queue) + 1
<1>1. Len(queue) \in Nat /\ DOMAIN longer = 1..n /\ longer[n] = m
  BY AppendShape
<1> HIDE DEF longer
<1>2. n \in ReportsIn(longer)
  <2>1. n \in 1..n
    BY <1>1
  <2> QED
    BY <1>1, <2>1 DEF ReportsIn
<1>3. ReportsIn(longer) \subseteq Nat /\ \A k \in ReportsIn(longer) : k <= n
  <2>1. \A k \in 1..n : k \in Nat /\ k <= n
    BY <1>1
  <2> QED
    BY <1>1, <2>1 DEF ReportsIn
<1>4. Store!LastOf(ReportsIn(longer)) = n
  BY <1>2, <1>3, LastIs
<1> QED
  BY <1>1, <1>2, <1>4 DEF ToCome, longer

LEMMA OtherAppended ==
  ASSUME NEW queue, IsSequence(queue), NEW cap, NEW m, m.type # "device_capacity"
  PROVE  ToCome(cap, Append(queue, m)) = ToCome(cap, queue)
<1> DEFINE longer == Append(queue, m)
           n == Len(queue) + 1
<1>1. /\ Len(queue) \in Nat /\ DOMAIN queue = 1..Len(queue)
      /\ DOMAIN longer = 1..n /\ longer[n] = m
      /\ \A k \in DOMAIN queue : longer[k] = queue[k]
  BY AppendShape
<1> HIDE DEF longer
<1>2. DOMAIN longer = DOMAIN queue \union {n}
  BY <1>1
<1> HIDE DEF n
<1>3. ReportsIn(longer) = ReportsIn(queue)
  BY <1>1, <1>2 DEF ReportsIn
<1>4. CASE ReportsIn(queue) = {}
  BY <1>3, <1>4 DEF ToCome, longer
<1>5. CASE ReportsIn(queue) # {}
  <2>1. Store!LastOf(ReportsIn(queue)) \in ReportsIn(queue)
    BY <1>1, <1>5, LastExists DEF ReportsIn
  <2>2. longer[Store!LastOf(ReportsIn(queue))] = queue[Store!LastOf(ReportsIn(queue))]
    BY <1>1, <2>1 DEF ReportsIn
  <2> QED
    BY <1>3, <1>5, <2>2 DEF ToCome, longer
<1> QED
  BY <1>4, <1>5

(* Reading the first message brings the core on its way, and changes       *)
(* nothing in where it goes.                                               *)
LEMMA HeadRead ==
  ASSUME NEW queue, IsSequence(queue), queue # <<>>, NEW cap,
         NEW next, next = IF Head(queue).type = "device_capacity" THEN Head(queue).report ELSE cap
  PROVE  ToCome(next, Tail(queue)) = ToCome(cap, queue)
<1> DEFINE rest == Tail(queue)
           R == ReportsIn(rest)
           Q == ReportsIn(queue)
<1>1. /\ Len(queue) \in Nat \ {0} /\ Head(queue) = queue[1]
      /\ DOMAIN queue = 1..Len(queue) /\ DOMAIN rest = 1..(Len(queue) - 1)
      /\ \A k \in DOMAIN rest : rest[k] = queue[k + 1]
  BY TailShape
<1> HIDE DEF rest
<1>2. ASSUME NEW k \in R PROVE k + 1 \in Q /\ rest[k] = queue[k + 1] /\ k \in Nat
  <2>1. k \in DOMAIN rest /\ rest[k].type = "device_capacity"
    BY DEF ReportsIn
  <2>2. k + 1 \in DOMAIN queue /\ k \in Nat
    BY <1>1, <2>1
  <2> QED
    BY <1>1, <2>1, <2>2 DEF ReportsIn
<1>3. ASSUME NEW k \in Q, k # 1 PROVE k - 1 \in R /\ k \in Nat
  <2>1. k \in DOMAIN queue /\ queue[k].type = "device_capacity"
    BY DEF ReportsIn
  <2>2. k - 1 \in DOMAIN rest /\ k = (k - 1) + 1 /\ k \in Nat
    BY <1>1, <1>3, <2>1
  <2> QED
    BY <1>1, <2>1, <2>2 DEF ReportsIn
<1>4. 1 \in Q <=> Head(queue).type = "device_capacity"
  BY <1>1 DEF ReportsIn
<1>5. CASE R = {}
  <2>1. Q \subseteq {1}
    BY <1>3, <1>5
  <2>2. CASE Q = {}
    BY <1>4, <1>5, <2>2 DEF ToCome, rest
  <2>3. CASE Q = {1}
    <3>1. Store!LastOf(Q) = 1
      <4>1. Q \subseteq Nat /\ 1 \in Q /\ \A k \in Q : k <= 1
        BY <2>3
      <4> HIDE DEF Q
      <4> QED
        BY <4>1, LastIs
    <3> QED
      BY <1>1, <1>4, <1>5, <2>3, <3>1 DEF ToCome, rest
  <2> QED
    BY <2>1, <2>2, <2>3
<1>6. CASE R # {}
  <2> DEFINE last == Store!LastOf(R)
  <2>1. last \in R /\ \A k \in R : k <= last
    <3>1. R \subseteq 1..(Len(queue) - 1) /\ Len(queue) - 1 \in Nat
      BY <1>1 DEF ReportsIn
    <3> HIDE DEF R
    <3> QED
      BY <1>6, <3>1, LastExists
  <2> HIDE DEF last
  <2>2. last \in Nat /\ last + 1 \in Q /\ rest[last] = queue[last + 1]
    BY <1>2, <2>1
  <2>3. ASSUME NEW k \in Q PROVE k <= last + 1 /\ k \in Nat
    <3>1. CASE k = 1
      BY <2>2, <3>1
    <3>2. CASE k # 1
      <4>1. k - 1 <= last /\ k \in Nat
        BY <1>3, <2>1, <3>2
      <4> QED
        BY <2>2, <4>1
    <3> QED
      BY <3>1, <3>2
  <2>4. Store!LastOf(Q) = last + 1
    <3>1. Q \subseteq Nat
      BY <2>3
    <3> HIDE DEF Q
    <3> QED
      BY <2>2, <2>3, <3>1, LastIs
  <2> QED
    BY <1>6, <2>2, <2>4 DEF ToCome, rest, last
<1> QED
  BY <1>5, <1>6

LEMMA CapacityComes ==
  /\ CapacityToCome = ToCome(capacity, toCore)
  /\ CapacityToCome' = ToCome(capacity', toCore')
  BY DEF CapacityToCome, ToCome, ReportsIn, UnreadReports

-----------------------------------------------------------------------------
(* The display of a core is the plugin, as long as the core runs.          *)

KeepsPlugin ==
  /\ StreamDecks(conns') \subseteq {socket}
  /\ socket \in StreamDecks(conns) => socket \in StreamDecks(conns')

LEMMA AcceptKeepsPlugin ==
  ASSUME TypeOK, StreamDecks(conns) \subseteq {socket},
         NEW transport \in Transports, AcceptConnection(transport)
  PROVE  KeepsPlugin
<1>1. accepted + 1 \notin DOMAIN conns
  BY ConnectionsAssumption DEF TypeOK
<1>2. /\ DOMAIN conns' = DOMAIN conns \union {accepted + 1}
      /\ conns'[accepted + 1].pluginType = Absent
      /\ \A id \in DOMAIN conns : conns'[id] = conns[id]
  BY <1>1 DEF AcceptConnection, Accept
<1>3. Absent # STREAM_DECK_PLUGIN_TYPE
  BY FaceAssumption
<1> QED
  BY <1>2, <1>3 DEF KeepsPlugin, StreamDecks, IsStreamDeck, Authenticated

LEMMA RegisterKeepsPlugin ==
  ASSUME TypeOK, StreamDecks(conns) \subseteq {socket},
         NEW c \in ConnId, NEW pluginType \in PluginTypes, NEW declared \in Declared,
         Register(c, pluginType, declared),
         c = socket <=> pluginType = STREAM_DECK_PLUGIN_TYPE
  PROVE  KeepsPlugin
<1>1. /\ DOMAIN conns' = DOMAIN conns
      /\ c \in DOMAIN conns
      /\ Authenticated(conns', c) /\ conns'[c].pluginType = pluginType
      /\ \A id \in DOMAIN conns \ {c} : conns'[id] = conns[id]
  BY RegisterEffect
<1>2. \A id \in DOMAIN conns \ {c} : id \in StreamDecks(conns') <=> id \in StreamDecks(conns)
  BY <1>1 DEF StreamDecks, IsStreamDeck, Authenticated
<1>3. c \in StreamDecks(conns') <=> c = socket
  BY <1>1 DEF StreamDecks, IsStreamDeck
<1>4. StreamDecks(conns') \subseteq DOMAIN conns /\ StreamDecks(conns) \subseteq DOMAIN conns
  BY <1>1 DEF StreamDecks
<1> QED
  BY <1>2, <1>3, <1>4 DEF KeepsPlugin

LEMMA ApplicationKeepsPlugin ==
  ASSUME TypeOK, StreamDecks(conns) \subseteq {socket}, NEW c \in ConnId, ApplicationActs(c)
  PROVE  KeepsPlugin /\ Handle(c)
<1>1. c # socket
  BY DEF ApplicationActs
<1>2. ASSUME NEW pluginType \in PluginTypes \ {STREAM_DECK_PLUGIN_TYPE},
             NEW declared \in Declarations, Register(c, pluginType, declared)
      PROVE  KeepsPlugin /\ Handle(c)
  <2>1. declared \in Declared
    BY DEF Declared
  <2> QED
    BY <1>1, <1>2, <2>1, RegisterKeepsPlugin DEF Handle
<1>3. ASSUME NEW gained \in BOOLEAN, Focus(c, gained) PROVE KeepsPlugin /\ Handle(c)
  BY <1>3 DEF Handle, KeepsPlugin, Focus
<1>4. CASE SocketClosed(c)
  <2>1. /\ DOMAIN conns' = DOMAIN conns \ {c}
        /\ \A id \in DOMAIN conns' : conns'[id] = conns[id]
    BY <1>4 DEF SocketClosed, Drop, Disconnect
  <2>2. KeepsPlugin
    BY <1>1, <2>1 DEF KeepsPlugin, StreamDecks, IsStreamDeck, Authenticated
  <2> QED
    BY <1>4, <2>2 DEF Handle
<1> QED
  BY <1>2, <1>3, <1>4 DEF ApplicationActs

-----------------------------------------------------------------------------
(* Steps of the plugin leave the core as it is.                            *)

LEMMA CoreAtRest ==
  ASSUME FocusInv, UNCHANGED <<accepted, conns, focused, capacity>>, out' = Silence
  PROVE  FocusInv'
<1>1. DOMAIN out' = ConnId
  BY DEF Silence
<1>2. TypeOK'
  BY <1>1 DEF FocusInv, TypeOK
<1> QED
  BY <1>2 DEF FocusInv, FocusedIsAuthenticated

(* What a step of the core puts under way keeps the deck's future right.   *)
LEMMA CoreStepPaints ==
  ASSUME LinkInv, Next, Written, UNCHANGED pluginVars, KeepsPlugin
  PROVE  /\ FocusInv' /\ CapacityIsKnown(capacity')
         /\ IsSequence(toDeck')
         /\ OnePlugin'
         /\ UpdatesAmountToTheState'
<1>1. /\ FocusInv /\ FocusInv' /\ CapacityIsKnown(capacity) /\ CapacityIsKnown(capacity')
      /\ StepWrites
  BY NextFocusInv, NextCapacityIsKnown, NextWrites DEF LinkInv
<1>2. socket' = socket /\ screen' = screen /\ connected' = connected
  BY DEF pluginVars
<1>3. socket \in ConnId => IsSequence(out'[socket]) /\ IsSequence(toDeck \o out'[socket])
  BY <1>1, JoinedShape DEF StepWrites, IsOutbox, LinkInv, LinkTypeOK
<1>4. IsSequence(toDeck')
  BY <1>3, ElementsOfTuples DEF Written, LinkInv, LinkTypeOK
<1>5. painted' => capacity' = capacity /\ socket \in StreamDecks(conns') /\ socket \in ConnId
  <2> SUFFICES ASSUME painted' PROVE /\ capacity' = capacity
                                     /\ socket \in StreamDecks(conns') /\ socket \in ConnId
    OBVIOUS
  <2>1. capacity' = capacity /\ (painted \/ (socket # NoSocket /\ Renders(out', socket) # {}))
    BY DEF Written
  <2>2. StreamDecks(conns') \subseteq ConnId
    BY <1>1, TypedConnections DEF StreamDecks, FocusInv
  <2>3. CASE painted
    BY <2>1, <2>2, <2>3 DEF LinkInv, OnePlugin, KeepsPlugin
  <2>4. CASE socket # NoSocket /\ Renders(out', socket) # {}
    <3>1. socket \in ConnId
      BY <2>4 DEF LinkInv, LinkTypeOK
    <3>2. \E d \in StreamDecks(conns') : \A c \in ConnId \ {d} : Renders(out', c) = {}
      BY <1>1, <2>1, <2>4, <3>1 DEF StepWrites, Repaints
    <3> QED
      BY <2>1, <2>4, <3>1, <3>2
  <2> QED
    BY <2>1, <2>3, <2>4
<1>6. OnePlugin'
  BY <1>2, <1>5 DEF Written, LinkInv, OnePlugin, KeepsPlugin
<1>7. ASSUME painted'
      PROVE  Shows(Store!ApplyAll(screen, toDeck \o out'[socket]), capacity,
                   DisplayedContent(conns', focused'))
  <2>1. capacity' = capacity /\ socket \in StreamDecks(conns') /\ socket \in ConnId
    BY <1>5, <1>7
  <2>2. IsSequence(toDeck) /\ IsSequence(out'[socket])
    BY <1>3, <2>1 DEF LinkInv, LinkTypeOK
  <2>3. Renderings(out'[socket]) = Renders(out', socket)
    BY DEF Renderings, Renders, Messages, Elements
  <2>4. painted \/ Renders(out', socket) # {}
    BY <1>7 DEF Written
  <2>5. painted => Shows(Store!ApplyAll(screen, toDeck), capacity, DisplayedContent(conns, focused))
    BY DEF LinkInv, UpdatesAmountToTheState, Agrees, Due, Shows
  <2>6. CASE /\ \A c \in ConnId : Renders(out', c) = {}
             /\ \/ DisplayedContent(conns', focused') = DisplayedContent(conns, focused)
                \/ StreamDecks(conns') = {}
    <3>1. painted /\ Renderings(out'[socket]) = {}
      BY <2>1, <2>3, <2>4, <2>6
    <3>2. Shows(Store!ApplyAll(screen, toDeck \o out'[socket]), capacity,
                DisplayedContent(conns, focused))
      BY <2>2, <2>5, <3>1, QuietShows
    <3> QED
      BY <2>1, <2>6, <3>2
  <2>7. ASSUME NEW d \in StreamDecks(conns'), Renders(out', d) = CurrentSweep'
        PROVE  Shows(Store!ApplyAll(screen, toDeck \o out'[socket]), capacity,
                     DisplayedContent(conns', focused'))
    <3>1. d = socket
      BY DEF KeepsPlugin
    <3>2. Renderings(out'[socket]) = FullSweep(capacity, DisplayedContent(conns', focused'))
      BY <2>1, <2>3, <2>7, <3>1 DEF CurrentSweep
    <3>3. IsContent(DisplayedContent(conns', focused'))
      BY <1>1, TypedDisplay DEF FocusInv
    <3> QED
      BY <1>1, <2>2, <3>2, <3>3, SweptShows
  <2> QED
    BY <1>1, <2>1, <2>6, <2>7 DEF StepWrites, Repaints
<1>8. UpdatesAmountToTheState'
  <2> SUFFICES ASSUME painted' PROVE Agrees(Store!ApplyAll(screen, toDeck))'
    BY DEF UpdatesAmountToTheState
  <2>1. capacity' = capacity /\ socket \in ConnId
    BY <1>5
  <2>2. socket # NoSocket
    BY <2>1, LinkAssumption
  <2>3. toDeck' = toDeck \o out'[socket]
    BY <2>2 DEF Written
  <2> QED
    BY <1>2, <1>7, <2>1, <2>3 DEF Agrees, Due, Shows
<1> QED
  BY <1>1, <1>4, <1>6, <1>8

-----------------------------------------------------------------------------
(* The invariant is inductive.                                             *)

LEMMA InitLinkInv == LinkInit => LinkInv
<1> SUFFICES ASSUME LinkInit PROVE LinkInv
  OBVIOUS
<1>1. FocusInv /\ CapacityIsKnown(capacity)
  BY InitFocusInv DEF LinkInit, Init, CapacityIsKnown
<1>2. LinkTypeOK
  BY ElementsOfTuples DEF LinkInit, LinkTypeOK
<1>3. OnePlugin
  BY DEF LinkInit, Init, OnePlugin, StreamDecks
<1>4. CoreLearnsTheDevices /\ UpdatesAmountToTheState
  BY DEF LinkInit, CoreLearnsTheDevices, UpdatesAmountToTheState
<1> QED
  BY <1>1, <1>2, <1>3, <1>4 DEF LinkInv, LinkInit

LEMMA RestartLinkInv ==
  ASSUME LinkInv, CoreRestarts
  PROVE  LinkInv'
<1>1. TypeOK'
  <2>1. MaxConnections \in Nat
    BY ConnectionsAssumption
  <2>2. DOMAIN out' = ConnId
    BY DEF CoreRestarts, Silence
  <2> QED
    BY <2>1, <2>2 DEF CoreRestarts, TypeOK, Capacity
<1>2. FocusInv' /\ CapacityIsKnown(capacity')
  BY <1>1 DEF FocusInv, FocusedIsAuthenticated, CoreRestarts, CapacityIsKnown
<1>3. LinkTypeOK'
  BY ElementsOfTuples DEF LinkInv, LinkTypeOK, CoreRestarts
<1>4. OnePlugin'
  BY DEF CoreRestarts, OnePlugin, StreamDecks
<1>5. CoreLearnsTheDevices' /\ UpdatesAmountToTheState' /\ ~connected'
  BY DEF CoreRestarts, CoreLearnsTheDevices, UpdatesAmountToTheState
<1> QED
  BY <1>2, <1>3, <1>4, <1>5 DEF LinkInv

LEMMA ConnectLinkInv ==
  ASSUME LinkInv, Connect
  PROVE  LinkInv'
<1>1. FocusInv /\ TypeOK /\ ~connected /\ ~painted
  <2>1. NoSocket \notin StreamDecks(conns)
    BY TypedConnections, LinkAssumption DEF LinkInv, FocusInv, StreamDecks
  <2> QED
    BY <2>1 DEF LinkInv, FocusInv, OnePlugin, Connect
<1>2. Next
  BY DEF Connect, Next, Transports
<1>3. FocusInv' /\ CapacityIsKnown(capacity')
  BY <1>1, <1>2, NextFocusInv, NextCapacityIsKnown DEF LinkInv
<1>4. LinkTypeOK'
  <2>1. socket' \in ConnId
    BY <1>1, ConnectionsAssumption DEF Connect, AcceptConnection, TypeOK, ConnId
  <2>2. IsSequence(toCore') /\ DOMAIN toCore' = {1} /\ toCore'[1].type = "register"
    BY ElementsOfTuples DEF Connect
  <2>3. \A n \in DOMAIN toCore' : IsToCore(toCore'[n])
    BY <2>2 DEF IsToCore
  <2> QED
    BY <2>1, <2>2, <2>3 DEF LinkInv, LinkTypeOK, Connect
<1>5. OnePlugin'
  <2>1. StreamDecks(conns') \subseteq {NoSocket}
    BY <1>1, AcceptKeepsPlugin DEF LinkInv, OnePlugin, Connect, KeepsPlugin, Transports
  <2>2. NoSocket \notin StreamDecks(conns')
    BY <1>3, TypedConnections, LinkAssumption DEF FocusInv, StreamDecks
  <2>3. socket' # NoSocket
    <3>1. socket' \in ConnId
      BY <1>1, ConnectionsAssumption DEF Connect, AcceptConnection, TypeOK, ConnId
    <3> QED
      BY <3>1, LinkAssumption
  <2> QED
    BY <1>1, <2>1, <2>2, <2>3 DEF Connect, OnePlugin
<1>6. CoreLearnsTheDevices' /\ UpdatesAmountToTheState' /\ ~connected'
  BY <1>1 DEF Connect, CoreLearnsTheDevices, UpdatesAmountToTheState
<1> QED
  BY <1>3, <1>4, <1>5, <1>6 DEF LinkInv

(* What the plugin writes joins what the core has still to read.           *)
LEMMA PluginWrites ==
  ASSUME LinkTypeOK, NEW m, IsToCore(m), toCore' = Append(toCore, m)
  PROVE  /\ IsSequence(toCore') /\ \A n \in DOMAIN toCore' : IsToCore(toCore'[n])
         /\ m.type = "device_capacity" => CapacityToCome' = m.report
         /\ m.type # "device_capacity" /\ capacity' = capacity =>
              CapacityToCome' = CapacityToCome
<1>1. IsSequence(toCore)
  BY DEF LinkTypeOK
<1>2. /\ IsSequence(toCore') /\ DOMAIN toCore' = 1..(Len(toCore) + 1)
      /\ DOMAIN toCore = 1..Len(toCore) /\ Len(toCore) \in Nat
      /\ toCore'[Len(toCore) + 1] = m
      /\ \A k \in DOMAIN toCore : toCore'[k] = toCore[k]
  BY <1>1, AppendShape
<1>3. \A n \in DOMAIN toCore' : n \in DOMAIN toCore \/ n = Len(toCore) + 1
  BY <1>2
<1>4. \A n \in DOMAIN toCore' : IsToCore(toCore'[n])
  BY <1>2, <1>3 DEF LinkTypeOK
<1>5. m.type = "device_capacity" => CapacityToCome' = m.report
  BY <1>1, ReportAppended, CapacityComes
<1>6. m.type # "device_capacity" /\ capacity' = capacity => CapacityToCome' = CapacityToCome
  BY <1>1, OtherAppended, CapacityComes
<1> QED
  BY <1>2, <1>4, <1>5, <1>6

LEMMA PluginReadsLinkInv ==
  ASSUME LinkInv, PluginReads
  PROVE  LinkInv'
<1>1. FocusInv' /\ CapacityIsKnown(capacity')
  BY CoreAtRest DEF LinkInv, PluginReads
<1>2. /\ IsSequence(toDeck) /\ toDeck # <<>> /\ toDeck' = Tail(toDeck)
      /\ IsSequence(toDeck')
  BY TailShape DEF LinkInv, LinkTypeOK, PluginReads
<1>3. socket # NoSocket
  BY <1>2 DEF LinkInv, OnePlugin
<1>4. OnePlugin'
  BY <1>3 DEF LinkInv, OnePlugin, PluginReads
<1>5. screen' = IF Head(toDeck).type = "render_update" THEN Store!Apply(screen, Head(toDeck))
                ELSE screen
  BY DEF PluginReads, ReadRegisterAck, ReadRenderUpdate
<1>6. UpdatesAmountToTheState'
  <2> SUFFICES ASSUME painted'
               PROVE  Shows(Store!ApplyAll(screen', toDeck'), capacity',
                            DisplayedContent(conns', focused'))
    BY DEF UpdatesAmountToTheState, Agrees, Due, Shows
  <2>1. Shows(Store!ApplyAll(screen, toDeck), capacity, DisplayedContent(conns, focused))
    BY DEF PluginReads, LinkInv, UpdatesAmountToTheState, Agrees, Due, Shows
  <2>2. Shows(Store!ApplyAll(screen', Tail(toDeck)), capacity, DisplayedContent(conns, focused))
    BY <1>2, <1>5, <2>1, ReadShows
  <2> QED
    BY <1>2, <2>2 DEF PluginReads
<1>7. CASE ReadRegisterAck(Head(toDeck))
  <2>1. /\ toCore' = Append(toCore, CapacityReport(devices)) /\ lastReportedCapacity' = devices
        /\ devices' = devices /\ socket' = socket
    BY <1>7 DEF ReadRegisterAck, PluginReads
  <2>2. IsToCore(CapacityReport(devices)) /\ CapacityReport(devices).type = "device_capacity"
        /\ CapacityReport(devices).report = devices
    BY DEF IsToCore, CapacityReport, LinkInv, LinkTypeOK
  <2>3. LinkTypeOK' /\ CapacityToCome' = devices
    BY <1>2, <2>1, <2>2, PluginWrites DEF LinkInv, LinkTypeOK
  <2> QED
    BY <1>1, <1>4, <1>6, <2>1, <2>3 DEF LinkInv, CoreLearnsTheDevices
<1>8. CASE ReadRenderUpdate(Head(toDeck))
  <2>1. UNCHANGED <<capacity, connected, devices, lastReportedCapacity, toCore, socket>>
    BY <1>8 DEF ReadRenderUpdate, PluginReads
  <2>2. LinkTypeOK'
    BY <1>2, <2>1 DEF LinkInv, LinkTypeOK
  <2>3. CapacityToCome' = CapacityToCome
    BY <2>1 DEF CapacityToCome, UnreadReports
  <2> QED
    BY <1>1, <1>4, <1>6, <2>1, <2>2, <2>3 DEF LinkInv, CoreLearnsTheDevices
<1> QED
  BY <1>7, <1>8 DEF PluginReads

(* Where nothing reaches the deck and the core rests, the deck's part of   *)
(* the invariant stays.                                                    *)
LEMMA DeckAtRest ==
  ASSUME LinkInv, out' = Silence,
         UNCHANGED <<accepted, conns, focused, capacity, socket, connected, screen,
                     toDeck, painted>>
  PROVE  FocusInv' /\ CapacityIsKnown(capacity') /\ OnePlugin' /\ UpdatesAmountToTheState'
<1>1. FocusInv' /\ CapacityIsKnown(capacity')
  BY CoreAtRest DEF LinkInv
<1>2. OnePlugin'
  BY DEF LinkInv, OnePlugin
<1>3. UpdatesAmountToTheState'
  BY DEF LinkInv, UpdatesAmountToTheState, Agrees, Due
<1> QED
  BY <1>1, <1>2, <1>3

LEMMA DeviceChangesLinkInv ==
  ASSUME LinkInv, NEW report \in Reports, DeviceChanges(report)
  PROVE  LinkInv'
<1>1. FocusInv' /\ CapacityIsKnown(capacity') /\ OnePlugin' /\ UpdatesAmountToTheState'
  BY DeckAtRest DEF DeviceChanges
<1>2. /\ devices' = report /\ report # devices
      /\ UNCHANGED <<capacity, connected, socket, toDeck>>
  BY DEF DeviceChanges
<1>3. CASE toCore' = toCore
  <2>1. LinkTypeOK' /\ CapacityToCome' = CapacityToCome
    BY <1>2, <1>3 DEF LinkInv, LinkTypeOK, CapacityToCome, UnreadReports
  <2>2. ~connected \/ (connected /\ report # lastReportedCapacity)
    BY <1>2 DEF LinkInv
  <2>3. CASE ~connected
    BY <1>1, <1>2, <2>1, <2>3 DEF LinkInv, CoreLearnsTheDevices
  <2>4. CASE connected /\ report # lastReportedCapacity
    <3>1. toCore' = Append(toCore, CapacityReport(report)) /\ IsSequence(toCore)
      BY <2>4 DEF DeviceChanges, LinkInv, LinkTypeOK
    <3>2. FALSE
      BY <1>3, <3>1, AppendShape
    <3> QED
      BY <3>2
  <2> QED
    BY <2>2, <2>3, <2>4
<1>4. CASE toCore' # toCore
  <2>1. /\ toCore' = Append(toCore, CapacityReport(report))
        /\ lastReportedCapacity' = report
    BY <1>4 DEF DeviceChanges
  <2>2. /\ IsToCore(CapacityReport(report)) /\ CapacityReport(report).type = "device_capacity"
        /\ CapacityReport(report).report = report
    BY DEF IsToCore, CapacityReport
  <2>3. LinkTypeOK' /\ CapacityToCome' = report
    BY <1>2, <2>1, <2>2, PluginWrites DEF LinkInv, LinkTypeOK
  <2> QED
    BY <1>1, <1>2, <2>1, <2>3 DEF LinkInv, CoreLearnsTheDevices
<1> QED
  BY <1>3, <1>4

LEMMA PressLinkInv ==
  ASSUME LinkInv, NEW ctrl \in Controllers, NEW position \in Positions, Press(ctrl, position)
  PROVE  LinkInv'
<1>1. FocusInv' /\ CapacityIsKnown(capacity') /\ OnePlugin' /\ UpdatesAmountToTheState'
  BY DeckAtRest DEF Press, pluginVars
<1>2. UNCHANGED <<capacity, socket, connected, devices, lastReportedCapacity, toDeck>>
  BY DEF Press, pluginVars
<1>3. PICK m : /\ toCore' = Append(toCore, m) /\ m.type = "input_event"
               /\ m.controller = ctrl /\ m.position = position
  BY DEF Press
<1>4. IsToCore(m)
  BY <1>3 DEF IsToCore
<1>5. LinkTypeOK' /\ CapacityToCome' = CapacityToCome
  BY <1>2, <1>3, <1>4, PluginWrites DEF LinkInv, LinkTypeOK
<1> QED
  BY <1>1, <1>2, <1>5 DEF LinkInv, CoreLearnsTheDevices

LEMMA ApplicationsLinkInv ==
  ASSUME LinkInv, Applications
  PROVE  LinkInv'
<1>1. TypeOK /\ StreamDecks(conns) \subseteq {socket}
  BY DEF LinkInv, FocusInv, OnePlugin
<1>2. Next /\ KeepsPlugin
  <2>1. CASE AcceptConnection("websocket")
    BY <1>1, <2>1, AcceptKeepsPlugin DEF Next, Transports
  <2>2. ASSUME NEW c \in ConnId, ApplicationActs(c) PROVE Next /\ KeepsPlugin
    BY <1>1, <2>2, ApplicationKeepsPlugin DEF Next
  <2> QED
    BY <2>1, <2>2 DEF Applications
<1>3. UNCHANGED <<capacity, socket, connected, devices, lastReportedCapacity, toCore>>
  BY DEF Applications, pluginVars, ApplicationActs, AcceptConnection, Register, Focus,
         SocketClosed, Drop
<1>4. /\ FocusInv' /\ CapacityIsKnown(capacity') /\ OnePlugin' /\ UpdatesAmountToTheState'
      /\ IsSequence(toDeck')
  BY <1>2, CoreStepPaints DEF Applications
<1>5. LinkTypeOK' /\ CapacityToCome' = CapacityToCome
  BY <1>3, <1>4 DEF LinkInv, LinkTypeOK, CapacityToCome, UnreadReports
<1> QED
  BY <1>3, <1>4, <1>5 DEF LinkInv, CoreLearnsTheDevices

LEMMA CoreReadsLinkInv ==
  ASSUME LinkInv, CoreReads
  PROVE  LinkInv'
<1>1. TypeOK /\ StreamDecks(conns) \subseteq {socket}
  BY DEF LinkInv, FocusInv, OnePlugin
<1>2. /\ IsSequence(toCore) /\ toCore # <<>> /\ toCore' = Tail(toCore)
      /\ IsSequence(toCore') /\ IsToCore(Head(toCore))
      /\ \A n \in DOMAIN toCore' : IsToCore(toCore'[n])
  <2>1. IsSequence(toCore) /\ toCore # <<>> /\ toCore' = Tail(toCore)
    BY DEF LinkInv, LinkTypeOK, CoreReads
  <2>2. /\ IsSequence(Tail(toCore)) /\ Len(toCore) \in Nat \ {0} /\ Head(toCore) = toCore[1]
        /\ DOMAIN toCore = 1..Len(toCore) /\ DOMAIN Tail(toCore) = 1..(Len(toCore) - 1)
        /\ \A k \in DOMAIN Tail(toCore) : Tail(toCore)[k] = toCore[k + 1]
    BY <2>1, TailShape
  <2>3. 1 \in DOMAIN toCore /\ \A k \in DOMAIN Tail(toCore) : k + 1 \in DOMAIN toCore
    BY <2>2
  <2> QED
    BY <2>1, <2>2, <2>3 DEF LinkInv, LinkTypeOK
<1>3. UNCHANGED <<socket, connected, devices, lastReportedCapacity>>
  BY DEF CoreReads, pluginVars
<1> DEFINE m == Head(toCore)
<1>4. /\ Next /\ KeepsPlugin
      /\ capacity' = IF m.type = "device_capacity" THEN m.report ELSE capacity
  <2>1. socket \in DOMAIN conns
    BY DEF CoreReads, Register, DeviceCapacity, InputEvent, IsStreamDeck, Authenticated
  <2>2. socket \in ConnId
    BY <1>1, <2>1, TypedConnections
  <2>3. CASE m.type = "register" /\ Register(socket, STREAM_DECK_PLUGIN_TYPE, Absent)
    <3>1. STREAM_DECK_PLUGIN_TYPE \in PluginTypes /\ Absent \in Declared
      BY LinkAssumption DEF Declared
    <3>2. Handle(socket)
      BY <2>3, <3>1 DEF Handle
    <3>3. KeepsPlugin
      BY <1>1, <2>2, <2>3, <3>1, RegisterKeepsPlugin
    <3>4. capacity' = capacity
      BY <2>3 DEF Register
    <3> QED
      BY <2>2, <2>3, <3>2, <3>3, <3>4 DEF Next
  <2>4. CASE m.type = "device_capacity" /\ DeviceCapacity(socket, m.report)
    <3>1. m.report \in Reports
      BY <1>2, <2>4 DEF IsToCore
    <3>2. Handle(socket)
      BY <2>4, <3>1 DEF Handle
    <3> QED
      BY <1>1, <2>2, <2>4, <3>2 DEF Next, DeviceCapacity, KeepsPlugin
  <2>5. CASE m.type = "input_event" /\ InputEvent(socket, m.controller, m.position)
    <3>1. m.controller \in Controllers /\ m.position \in Positions
      BY <1>2, <2>5 DEF IsToCore
    <3>2. Handle(socket)
      BY <2>5, <3>1 DEF Handle
    <3> QED
      BY <1>1, <2>2, <2>5, <3>2 DEF Next, InputEvent, KeepsPlugin
  <2> QED
    BY <2>3, <2>4, <2>5 DEF CoreReads
<1>5. /\ FocusInv' /\ CapacityIsKnown(capacity') /\ OnePlugin' /\ UpdatesAmountToTheState'
      /\ IsSequence(toDeck')
  BY <1>4, CoreStepPaints DEF CoreReads
<1>6. CapacityToCome' = CapacityToCome
  BY <1>2, <1>4, HeadRead, CapacityComes
<1>7. LinkTypeOK'
  BY <1>2, <1>3, <1>5 DEF LinkInv, LinkTypeOK
<1> QED
  BY <1>3, <1>5, <1>6, <1>7 DEF LinkInv, CoreLearnsTheDevices

LEMMA NextLinkInv == LinkInv /\ [LinkNext]_linkVars => LinkInv'
<1> SUFFICES ASSUME LinkInv, [LinkNext]_linkVars PROVE LinkInv'
  OBVIOUS
<1>1. CASE UNCHANGED linkVars
  <2>1. UNCHANGED <<accepted, conns, focused, capacity, out, socket, connected, devices,
                    lastReportedCapacity, screen, toCore, toDeck, painted>>
    BY <1>1 DEF linkVars, vars, pluginVars
  <2>2. FocusInv'
    BY <2>1, NextFocusInv DEF LinkInv, vars
  <2>3. CapacityIsKnown(capacity') /\ LinkTypeOK' /\ OnePlugin'
    BY <2>1 DEF LinkInv, LinkTypeOK, OnePlugin
  <2>4. CoreLearnsTheDevices' /\ UpdatesAmountToTheState'
    BY <2>1 DEF LinkInv, CoreLearnsTheDevices, CapacityToCome, UnreadReports,
                UpdatesAmountToTheState, Agrees, Due
  <2> QED
    BY <2>1, <2>2, <2>3, <2>4 DEF LinkInv
<1> QED
  BY <1>1, ConnectLinkInv, PluginReadsLinkInv, CoreReadsLinkInv, DeviceChangesLinkInv,
     PressLinkInv, ApplicationsLinkInv, RestartLinkInv DEF LinkNext

LEMMA LinkInvHolds == LinkSpec => []LinkInv
  BY InitLinkInv, NextLinkInv, PTL DEF LinkSpec

-----------------------------------------------------------------------------

(* Of a core that has painted the deck, the deck's store and the updates   *)
(* under way always amount to what is due: no order in which messages are  *)
(* written, read or lost with a core makes a sweep cancel another.         *)
THEOREM UpdatesAmount == LinkSpec => []UpdatesAmountToTheState
<1>1. LinkInv => UpdatesAmountToTheState
  BY DEF LinkInv
<1> QED
  BY <1>1, LinkInvHolds, PTL

(* A connected plugin's latest report is the core's capacity, or on its    *)
(* way, after any number of restarts and changes of device.                *)
THEOREM CoreLearns == LinkSpec => []CoreLearnsTheDevices
<1>1. LinkInv => CoreLearnsTheDevices
  BY DEF LinkInv
<1> QED
  BY <1>1, LinkInvHolds, PTL

(* A store with no update under way for a position shows there what all    *)
(* the updates under way amount to.                                        *)
LEMMA NoUpdateForIt ==
  ASSUME NEW store, NEW messages, NEW slot, slot \notin Store!SlotsIn(messages)
  PROVE  Store!Get(Store!ApplyAll(store, messages), slot).text = Store!Get(store, slot).text
<1>1. Store!Setting(messages, slot, "text") = {}
  BY DEF Store!Setting, Store!SlotsIn
<1>2. Store!After(store, messages, slot, "text") = Store!Get(store, slot)["text"]
  BY <1>1 DEF Store!After
<1>3. Store!Get(store, slot)["text"] = Store!Get(store, slot).text
  OBVIOUS
<1> QED
  BY <1>2, <1>3, GetAfter

(* A press of a position that shows what it showed when it was pressed,    *)
(* with nothing under way for it, is answered by that content.             *)
THEOREM QuietPressIsAnswered == LinkSpec => QuietPressAnswersScreen
<1> DEFINE Answers ==
      \A ctrl \in Controllers : \A i \in DOMAIN PositionsFor(capacity, ctrl) :
        LET position == PositionsFor(capacity, ctrl)[i]
        IN (/\ CoreReads /\ painted
            /\ Head(toCore).type = "input_event"
            /\ Head(toCore).controller = ctrl /\ Head(toCore).position = position
            /\ Head(toCore).seen = Store!Get(screen, <<ctrl, position>>).text
            /\ <<ctrl, position>> \notin Store!SlotsIn(toDeck)) =>
           \/ out' = Silence /\ Head(toCore).seen = IdleLabel
           \/ /\ out' = SendTo(focused, <<Command(LabelFor(ctrl, i))>>)
              /\ Head(toCore).seen = conns[focused].content[LabelFor(ctrl, i)].label
<1>1. LinkInv => Answers
  <2> SUFFICES ASSUME LinkInv, NEW ctrl \in Controllers,
                      NEW i \in DOMAIN PositionsFor(capacity, ctrl),
                      NEW position, position = PositionsFor(capacity, ctrl)[i],
                      CoreReads, painted, Head(toCore).type = "input_event",
                      Head(toCore).controller = ctrl, Head(toCore).position = position,
                      Head(toCore).seen = Store!Get(screen, <<ctrl, position>>).text,
                      <<ctrl, position>> \notin Store!SlotsIn(toDeck)
               PROVE  \/ out' = Silence /\ Head(toCore).seen = IdleLabel
                      \/ /\ out' = SendTo(focused, <<Command(LabelFor(ctrl, i))>>)
                         /\ Head(toCore).seen = conns[focused].content[LabelFor(ctrl, i)].label
    OBVIOUS
  <2> DEFINE due == RenderSlot(ctrl, position, LabelFor(ctrl, i), DisplayedContent(conns, focused))
  <2>1. out' = HandleInputEvent(conns, focused, capacity, ctrl, position)
    BY DEF CoreReads, InputEvent
  <2>2. Store!Get(Store!ApplyAll(screen, toDeck), <<ctrl, position>>).text = due.text
    BY DEF LinkInv, UpdatesAmountToTheState, Agrees, Due
  <2>3. Head(toCore).seen = due.text
    BY <2>2, NoUpdateForIt
  <2>4. IsContent(DisplayedContent(conns, focused)) /\ CapacityIsKnown(capacity)
    BY TypedDisplay DEF LinkInv, FocusInv
  <2>5. \/ out' = Silence /\ due.text = IdleLabel
        \/ /\ out' = SendTo(focused, <<Command(LabelFor(ctrl, i))>>)
           /\ due.text = conns[focused].content[LabelFor(ctrl, i)].label
    BY <2>1, <2>4, PressFollowsSweep
  <2> QED
    BY <2>3, <2>5
<1>2. LinkInv /\ [LinkNext]_linkVars => [Answers]_linkVars
  BY <1>1
<1> QED
  BY <1>2, LinkInvHolds, PTL DEF LinkSpec, QuietPressAnswersScreen
=============================================================================
