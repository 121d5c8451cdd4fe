------------------------------ MODULE DeckLink ------------------------------
(***************************************************************************)
(* gatoway-core and the Stream Deck plugin with messages under way between *)
(* them, and a core that may crash and be started again: coreClient.ts and *)
(* plugin.ts at one end, the handlers of GatowayCore at the other.         *)
(*                                                                         *)
(* The connection is a queue in each direction.  The core forgets all it   *)
(* knew when it crashes, what is under way is lost, and the applications   *)
(* have to connect again; the plugin keeps its RenderStore and registers   *)
(* with the next core.  While a core runs it never drops a registered      *)
(* plugin and the plugin never leaves, so there is one plugin connection   *)
(* per core.  The handshake is CoreClient's; here it succeeds.             *)
(***************************************************************************)
EXTENDS DeckFace

CONSTANTS
  NoSocket,        (* the plugin has no connection                         *)
  MaxUnread        (* bound: how much may be under way for anything new to *)
                   (* happen at an end                                     *)

ASSUME LinkAssumption ==
  /\ NoSocket \notin ConnId
  /\ STREAM_DECK_PLUGIN_TYPE \in PluginTypes
  /\ MaxUnread \in Nat

VARIABLES
  (* the plugin *)
  socket,                  (* its connection, by the core's id for it      *)
  connected,               (* CoreClient.state = "connected"               *)
  devices,                 (* what computeDeviceCapacity would return      *)
  lastReportedCapacity,    (* of plugin.ts                                 *)
  screen,                  (* its RenderStore                              *)
  (* the connection *)
  toCore, toDeck,
  (* history *)
  painted                  (* has this core swept for its present capacity? *)

pluginVars == <<socket, connected, devices, lastReportedCapacity, screen>>
linkVars == <<vars, pluginVars, toCore, toDeck, painted>>

NoDevice == [keypad |-> <<>>, encoder |-> <<>>]

LinkInit ==
  /\ Init
  /\ socket = NoSocket /\ connected = FALSE
  /\ devices \in Reports
  /\ lastReportedCapacity = NoDevice
  /\ screen = Store!EmptyStore
  /\ toCore = <<>> /\ toDeck = <<>>
  /\ painted = FALSE

(* What the core's handler wrote to the plugin gets under way.             *)
Written ==
  /\ toDeck' = IF socket = NoSocket THEN <<>> ELSE toDeck \o out'[socket]
  /\ painted' = /\ capacity' = capacity
                /\ painted \/ (socket # NoSocket /\ Renders(out', socket) # {})

-----------------------------------------------------------------------------
(* The plugin's end.                                                       *)

(* The client connects to the core, and its register is on its way.        *)
Connect ==
  /\ socket = NoSocket
  /\ AcceptConnection("tcp")
  /\ socket' = accepted'
  /\ toCore' = <<[type |-> "register"]>>
  /\ UNCHANGED <<connected, devices, lastReportedCapacity, screen, toDeck, painted>>

CapacityReport(report) == [type |-> "device_capacity", report |-> report]

(* Mutant: the report is left out when it repeats the last.                *)
ReadRegisterAckUnforced(m) ==
  /\ m.type = "register_ack"
  /\ connected' = TRUE
  /\ lastReportedCapacity' = devices
  /\ toCore' = IF lastReportedCapacity = devices THEN toCore
               ELSE Append(toCore, CapacityReport(devices))
  /\ UNCHANGED screen

(* register_ack: the plugin reports its devices, whatever it reported last. *)
ReadRegisterAck(m) ==
  /\ m.type = "register_ack"
  /\ connected' = TRUE
  /\ lastReportedCapacity' = devices
  /\ toCore' = Append(toCore, CapacityReport(devices))
  /\ UNCHANGED screen

(* Mutant: the update takes the position's place in the store.             *)
ReadRenderUpdateAtOnce(m) ==
  /\ m.type = "render_update"
  /\ screen' = Store!Apply(Store!EmptyStore, m)
  /\ UNCHANGED <<connected, lastReportedCapacity, toCore>>

ReadRenderUpdate(m) ==
  /\ m.type = "render_update"
  /\ screen' = Store!Apply(screen, m)
  /\ UNCHANGED <<connected, lastReportedCapacity, toCore>>

PluginReads ==
  /\ toDeck # <<>>
  /\ toDeck' = Tail(toDeck)
  /\ ReadRegisterAck(Head(toDeck)) \/ ReadRenderUpdate(Head(toDeck))
  /\ out' = Silence
  /\ UNCHANGED <<accepted, conns, focused, capacity, socket, devices, painted>>

(* Another device is connected.  An unchanged capacity is not reported.    *)
DeviceChanges(report) ==
  /\ report # devices
  /\ Len(toCore) < MaxUnread
  /\ devices' = report
  /\ IF report = lastReportedCapacity
       THEN UNCHANGED <<lastReportedCapacity, toCore>>
       ELSE /\ lastReportedCapacity' = report
            /\ toCore' = IF connected THEN Append(toCore, CapacityReport(report)) ELSE toCore
  /\ out' = Silence
  /\ UNCHANGED <<accepted, conns, focused, capacity, socket, connected, screen, toDeck, painted>>

(* A key is pressed or released, a dial turned or pushed; `seen` is what   *)
(* the position showed.  Nothing is sent when not connected.               *)
Press(ctrl, position) ==
  /\ connected
  /\ position \in {devices[ctrl][i] : i \in DOMAIN devices[ctrl]}
  /\ Len(toCore) < MaxUnread
  /\ toCore' = Append(toCore, [type |-> "input_event", controller |-> ctrl, position |-> position,
                               seen |-> Store!Get(screen, <<ctrl, position>>).text])
  /\ out' = Silence
  /\ UNCHANGED <<accepted, conns, focused, capacity, pluginVars, toDeck, painted>>

-----------------------------------------------------------------------------
(* The core's end.                                                         *)

CoreReads ==
  /\ toCore # <<>>
  /\ toCore' = Tail(toCore)
  /\ LET m == Head(toCore)
     IN \/ m.type = "register" /\ Register(socket, STREAM_DECK_PLUGIN_TYPE, Absent)
        \/ m.type = "device_capacity" /\ DeviceCapacity(socket, m.report)
        \/ m.type = "input_event" /\ InputEvent(socket, m.controller, m.position)
  /\ Written
  /\ UNCHANGED pluginVars

(* The applications: they connect, declare content, report focus and go.   *)
(* (GatowayCore has the registers that declare none.)                      *)
ApplicationActs(c) ==
  /\ c # socket
  /\ \/ \E pluginType \in PluginTypes \ {STREAM_DECK_PLUGIN_TYPE}, declared \in Declarations :
          Register(c, pluginType, declared)
     \/ \E gained \in BOOLEAN : Focus(c, gained)
     \/ SocketClosed(c)

Applications ==
  /\ Len(toDeck) < MaxUnread
  /\ \/ AcceptConnection("websocket")
     \/ \E c \in ConnId : ApplicationActs(c)
  /\ Written
  /\ UNCHANGED <<pluginVars, toCore>>

(* The core's process ends and is started again; the client's close event  *)
(* is part of the step.  Connections are numbered per life of the core.    *)
CoreRestarts ==
  /\ accepted' = 0
  /\ conns' = [c \in {} |-> Absent]
  /\ focused' = NoFocus
  /\ capacity' = Absent
  /\ out' = Silence
  /\ socket' = NoSocket /\ connected' = FALSE
  /\ toCore' = <<>> /\ toDeck' = <<>>
  /\ painted' = FALSE
  /\ UNCHANGED <<devices, lastReportedCapacity, screen>>

LinkNext ==
  \/ Connect
  \/ PluginReads
  \/ CoreReads
  \/ \E report \in Reports : DeviceChanges(report)
  \/ \E ctrl \in Controllers, position \in Positions : Press(ctrl, position)
  \/ Applications
  \/ CoreRestarts

(* Both ends read what has arrived, and the client connects again.         *)
LinkFairness == WF_linkVars(Connect) /\ WF_linkVars(PluginReads) /\ WF_linkVars(CoreReads)

LinkSpec == LinkInit /\ [][LinkNext]_linkVars /\ LinkFairness

-----------------------------------------------------------------------------

(* What the deck shows and what is under way to it together always amount  *)
(* to the core's present state: no sweep overtakes or cancels another, and *)
(* nothing shown for an earlier core, capacity or focus survives.          *)
UpdatesAmountToTheState == painted => Agrees(Store!ApplyAll(screen, toDeck))

(* The capacity the core has, or will have when it has read what is under  *)
(* way, is that of the devices: after every restart of the core too.       *)
UnreadReports == {n \in DOMAIN toCore : toCore[n].type = "device_capacity"}

CapacityToCome ==
  IF UnreadReports = {} THEN capacity ELSE toCore[Store!LastOf(UnreadReports)].report

CoreLearnsTheDevices == connected => devices = CapacityToCome

(* A press is answered by what the user saw, unless the deck is being      *)
(* painted: if the position still shows what it showed when it was pressed *)
(* and no update for it is under way, the command belongs to that.         *)
QuietPressAnswersScreen ==
  [][\A ctrl \in Controllers : \A i \in DOMAIN PositionsFor(capacity, ctrl) :
       LET position == PositionsFor(capacity, ctrl)[i]
       IN (/\ CoreReads /\ painted
           /\ Head(toCore).type = "input_event"
           /\ Head(toCore).controller = ctrl /\ Head(toCore).position = position
           /\ Head(toCore).seen = Store!Get(screen, <<ctrl, position>>).text
           /\ <<ctrl, position>> \notin Store!SlotsIn(toDeck)) =>
          \/ out' = Silence /\ Head(toCore).seen = IdleLabel
          \/ /\ out' = SendTo(focused, <<Command(LabelFor(ctrl, i))>>)
             /\ Head(toCore).seen = conns[focused].content[LabelFor(ctrl, i)].label
    ]_linkVars

(* Once the applications and the devices are left alone, the deck comes to *)
(* show the state of a core that has swept it, and goes on showing it.     *)
LeftAlone == <>[][Connect \/ PluginReads \/ CoreReads]_linkVars

ScreenSettles == LeftAlone => <>[](painted => Agrees(screen))
=============================================================================
