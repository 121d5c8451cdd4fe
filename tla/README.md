# A TLA+ model of Gatoway

Gatoway lets an Elgato Stream Deck drive several applications. One process,
`gatoway-core`, stands in the middle: a Stream Deck plugin and any number of
applications (browser extensions, desktop programs) connect to it, applications
declare what should be on each slot of the deck, and whichever application has
the focus owns the deck. This directory holds the TLA+ modules that model it, the
TLC configurations that check them, and proofs for TLAPS.

Paths below are relative to the repository. `core/` is short for
`gatoway-core/src/` and `plugin/` for `stream-deck-plugin/src/`. `PROJECT.json`
lists every definition with the source lines it models.

## The system

| Component | Code | State it keeps | Operations |
|---|---|---|---|
| Connection manager | `core/connection/connectionManager.ts` | the tracked connections: state, plugin type, content | accept, transition, setPluginInfo, disconnect |
| Message handler | `core/connection/messageHandler.ts` | none | one entry per message or malformed line |
| Focus tracker | `core/focus/focusTracker.ts` | the focused connection | reportFocus, clearIfFocused |
| Profile router | `core/routing/profileRouter.ts` | the latest device capacity | handleRegistered, handleFocus, handleDisconnect, handleDeviceCapacity, handleInputEvent |
| Slot content validation | `core/protocol/slotContentValidation.ts` | none | validate one declared entry |
| Listeners | `core/connection/tcpListener.ts`, `wsListener.ts` | open sockets | accept, data, close |
| Framing | `core/protocol/tcpFraming.ts`, `plugin/coreClient/protocol.ts` | an incomplete line, per connection and end | feed a chunk |
| Token, start-up | `core/auth/token.ts`, `core/index.ts` | the token and its file | generate, write, bind |
| Core client | `plugin/coreClient/coreClient.ts` | state, socket, retry timer | start, stop, every socket event |
| Core supervisor | `plugin/coreLifecycle/coreProcessSupervisor.ts` | child process, restart timer | start, stop, spawn, exit |
| Backoff | `plugin/backoff.ts` | none | the delay of an attempt |
| Render store | `plugin/actions/renderStore.ts` | appearance per position | apply, get |
| Plugin wiring | `plugin/plugin.ts` | last reported capacity | report capacity, shut down |
| Device capacity | `plugin/coreClient/deviceCapacity.ts` | none | positions of the connected devices, comparison |
| Actions and renderers | `plugin/actions/` | the visible instances, renderings under way | appear, disappear, apply an update, forward a press |
| Origin allowlist | `plugin/coreLifecycle/allowedOriginsConfig.ts`, `config.ts`, `core/config.ts`, `core/auth/originAllowlist.ts` | the list, in the plugin, the child's environment and the core | load, join, parse, decide on an upgrade |

How they interact: a listener hands each line to the message handler, which calls
the connection manager, the focus tracker and the router *synchronously*, in one
run to completion of Node's event loop; the router writes to sockets. The plugin
is a second process: its supervisor spawns the core, its client finds the core's
token in a file, registers over TCP, reports the deck's capacity and sends key
presses, and puts what the core renders into its store.

What is hard here, and what makes each part correct:

- *Core.* Handlers are atomic, but their order is anybody's: a display may
  register before or after an application, twice, or not at all; capacity may
  come before or after content is declared; the focused application may vanish,
  register again, or lose the focus to one that never registered. Correct means:
  the focus is always with a live connection, nobody unauthenticated hears
  anything, nobody changes another's declarations, and what the deck shows and
  the applications believe agrees with the state of the core.
- *Client.* Every wait (token read, connect, answer, close, timer) is a place
  where the core can die, a new core with a new token can appear and `stop()` can be
  called. Correct means: one attempt at a time and never none, nothing after
  `stop()`, and registered in the end if a core stays up.
- *Supervisor.* An exit event comes after the exit; a spawn may throw, a launch
  may fail without an exit. Correct means: never two cores, always one or a
  timer for one, backing off, none left after `stop()`.
- *All processes together.* A core going down and one coming up share two ports and
  one file; each step of a start can fail and the plugin can go without a
  word. Correct means: who reads the file can register with whoever listens, the
  client is with its own child, and left alone it gets there.
- *The link.* Messages under way while focus, devices or the core itself change.
  Correct means: what is shown and what is under way amount to the core's state,
  a new core learns the devices, a press on a key at rest reaches what it showed.
- *The edges.* Chunks cut anywhere and a line that throws; renderings of one key
  that overlap in their awaits; a list of Origins that is joined in one process and
  split in another. Correct means: nothing lost, doubled, joined or stale.

The hazards are listed one by one, at their lines, in `PROJECT.json`.

## The modules

| Module | Models | Uses |
|---|---|---|
| `SlotContent` | declared content, its validation, labels and positions | |
| `ConnectionManager` | each method's effect on the connection map | `SlotContent` |
| `FocusTracker` | each method's effect on the focus | |
| `ProfileRouter` | what each handler writes, and to whom | `ConnectionManager`, `FocusTracker` |
| `GatowayCore` | the core as a state machine | `ProfileRouter` |
| `FocusArbiter` | abstract: what focus tracking promises | |
| `RenderStore` | the plugin's memory of the deck | |
| `DeckFace` | what the deck has to show for the state of the core | `GatowayCore`, `RenderStore` |
| `PeerViews` | the core composed with what its peers have read | `DeckFace` |
| `Backoff` | the retry delay | |
| `CoreClient` | the plugin's client, with the token file and a core that dies | `Backoff` |
| `CoreProcessSupervisor` | the plugin's supervisor and its child processes | `Backoff` |
| `DeckLink` | the core and the plugin with messages under way and restarts of the core | `DeckFace` |
| `CoreLifecycle` | plugin, supervisor, core start-up, token file, ports and client together | |
| `Framing` | both NDJSON decoders on one connection | |
| `DeviceCapacity` | the capacity computed from devices, and when it is sent | |
| `DeckActions` | key and dial instances and their overlapping renderings | `RenderStore` |
| `OriginAllowlist` | the Origins from the file to the upgrade | |
| `GatowayCoreProofs` | theorems about `GatowayCore`, and lemmas about what it writes | |
| `PeerViewsProofs` | theorems about `PeerViews` | `GatowayCoreProofs` |
| `DeckLinkProofs` | theorems about `DeckLink` | `GatowayCoreProofs` |
| `CoreClientProofs` | theorems about `CoreClient` | |
| `CoreProcessSupervisorProofs` | theorems about `CoreProcessSupervisor` | |
| `CoreLifecycleProofs` | theorems about `CoreLifecycle` | |
| `DeckActionsProofs` | theorems about `DeckActions` | |
| `PartsProofs` | theorems about `DeviceCapacity`, `Framing` and `OriginAllowlist` | |

The `MC` modules give the constants of the module in their name values for TLC.
`MCParts` does so for the four modules of the edges (`Framing`, `DeviceCapacity`,
`DeckActions`, `OriginAllowlist`), which share no state with one another.

### The core

The state of `GatowayCore` is the state of the process: `conns` is the
connection map, `focused` the tracker's field, `capacity` the router's latest
report. `accepted` numbers the connections (the code draws random ids; the number
keeps the order in which the `Map` lists them), and `out` is what the last
handler wrote to every connection, in order.

Node runs a handler to its end before the next one starts, so one handler is one
action, with everything it calls. The pure operators of `ConnectionManager`,
`FocusTracker` and `ProfileRouter` are the methods, and the action applies them
in the code's order. For example, `Register` validates the content against the
capacity, stores it, transitions a TCP connection to authenticated, acknowledges,
reports refused entries, and lets the router sweep the deck or send the slot
counts. `Drop` is `disconnect()` with its listener, and happens on a closed
socket, a malformed line before authentication, any other message before
`register`, and a wrong token. The `connected` state does not appear: `accept()`
leaves it before it returns, and a `disconnected` record is in the map no more.

The clients are not modelled in `GatowayCore`: any connection may send any message
at any time. A TCP connection must register with the right token; a WebSocket,
once its Origin passed, is authenticated from the start.

Data is abstract: a label `B3` is `<<"keypad", 3>>`; anything that is not a label,
and any value of the wrong shape, is one model value each; an input event's type
and delta are not looked at by the core and left out; log lines and error texts
are left out.

`PeerViews` adds what has been read at the other end: `told` (the slot counts each
connection heard last), `screen` (the plugin's render store, which
survives reconnects) and `painted` (the deck was swept since the capacity last
changed). It restricts the peers to what the repository's own clients do
(`ClientsBehave`): one Stream Deck plugin at a time, which neither takes the
focus nor declares content, and nobody changes its plugin type. Messages are read
in the step they are written in; messages under way are in `DeckLink`.

What the deck must show is defined once, in `DeckFace`: at every position the focused
connection's entry for the label it has, or idle (`Due`, `Agrees`). `RenderStore` gives
the effect of one update (`Apply`) and of a sequence of them (`ApplyAll`: each field is as
the last update that sets it says).

`FocusArbiter` forgets everything but presence and focus. `live` is the set of
authenticated connections, `gone` those accepted and no longer tracked.

### The plugin

In `CoreClient` each event of `coreClient.ts` is an action: the timer callback, the
end of the token read (in failure or success), connect, `register_ack`, close, and
`stop()`. A socket is a record with its phase, the token it registers with, the
core it reached, and the capacity written to it. `reads` and `timers` count what is
under way, so that two of them would be seen. `reportDeviceCapacity` of
`plugin.ts` is part of the actions that call it. The core is a process that
starts with a fresh token, opens (and truncates) the file, writes it, listens, and
may die at any point; a token read in between is `Torn`, a write may fail. A
connection is lost in the model only when its core dies: both ends are on
the loopback interface.

In `CoreProcessSupervisor`, `processes` are the child processes that exist, each
`spawned`, `running`, `killed` or `exited`; the exit event is handled in a step of
its own. The variable `stable` says whether `stableAfterMs` have passed since the
spawn, the clock itself is left out.

### Core and plugin together

`DeckLink` is `GatowayCore` with a queue in each direction between it and the
plugin: `toCore` and `toDeck`. `CoreReads` is the core's data handler: it takes one
message and runs the core's own action for it, and what that writes to the plugin goes
on the queue. `PluginReads` is the client's handler with `onRegistered` and
`onRenderUpdate` of `plugin.ts`. Device events and presses put messages on the
other queue when connected. `CoreRestarts` is a crash at any point: the core's state
is the initial one, both queues are lost, and `screen` and
`lastReportedCapacity` stay, which is where the plugin could be wrong. A press
carries, for the property only, what the position showed (`seen`). Connections are
numbered from one in each life of the core.

`CoreLifecycle` is coarser and wider. A core process goes through the steps of
`startGatowayCore`: it opens and truncates the token file, writes it, binds TCP, binds
WebSocket; each can fail, and what a failure leads to is the code's: a token that
cannot be written is only logged, a TCP port that is taken ends the process, a
WebSocket port that is taken leaves it `half` up. A token is the name of its process;
`Stale` is one whose process has gone, or a truncated file. `PluginStops` runs
`shutdown()`, `PluginKilled` does not: it leaves an orphaned core, which the history
variable `unplanned` records. Other programs take and free ports, and may accept the client's connection and never answer. The client is
reduced to waiting, dialing, registering and connected, the supervisor to its child;
`CoreClient` and `CoreProcessSupervisor` have the rest of them.

### The edges

`Framing` gives one stream, cut into chunks of any length, to both decoders. A stream
is made of newlines, carriage returns and other pieces of text; which pieces there are
and which lines are JSON are constants. `Turn` and `ParsingTurn` are the bodies of the two
decoders' loops, `Push` and `PushParsing` do as many turns as a text can take. `lost`
keeps what the client had decoded when `JSON.parse` threw. The reference is stated
without a decoder: a line is the text from one newline of the stream to the next.

`DeviceCapacity` runs the loops of `deviceCapacity.ts` over devices with rows, columns
and a type (`OfConnected` is the outer one, which passes over a device that has gone); `ReportDeviceCapacity` is `plugin.ts`'s, forced or not. One
device or more may be connected. With more than one their positions are concatenated, as
in the code, which documents one as its limit; `LabelsFollowTheDevice` speaks of a device
that is the only one connected, whatever was connected before.

In `DeckActions` a rendering is a row of setter calls of which the first happens at
once and each next one after an await. `pending` holds the renderings of an instance
that are under way. The calls for one instance are answered in the order they were
made, which is assumed of the SDK: all go through one WebSocket. Every update is one
the core writes (`Updates`): it always has a text and an icon or null.

`OriginAllowlist` follows strings made of commas, spaces, stars and uncut pieces
through validation, `join`, the environment, `split`, `trim` and the match. The file is
read when the plugin starts, the environment is parsed by each core.

## The runs

| Run | Module, configuration | Shows |
|---|---|---|
| `core` | `MCGatowayCore`, `GatowayCore.cfg` | `FocusedIsAuthenticated`, `OutsidersHearOnlyRefusal`, `OneDisplayIsPainted`, `LifecycleOnlyForward`, `DeclarationsAreOnesOwn`; the core implements `FocusArbiter` |
| `peer_views` | `MCPeerViews`, `PeerViews.cfg` | every registered application knows the current counts (`SlotCapacityFresh`), the deck shows the focused application or idle (`ScreenShowsFocus`), a press reaches whoever is shown (`PressAnswersScreen`), no command beyond the counts told (`CommandsWithinToldCapacity`) |
| `core_client` | `MCCoreClient`, `CoreClient.cfg` | `OneAttemptAtATime`, `StopIsFinal`, `ConnectedMeansRegistered`, `CoreKnowsTheDevices`, and `EventuallyRegistered` |
| `supervisor` | `CoreProcessSupervisor`, `CoreProcessSupervisor.cfg` | `OneSupervisedCore`, `StopIsFinal`, `AlwaysSupervised`, `CrashLoopBacksOff`, `StopEndsTheCore`, `ExitIsFollowedByRestart` |
| `deck_link` | `MCDeckLink`, `DeckLink.cfg` | once a core has swept for its capacity, what is shown and what is under way amount to its state (`UpdatesAmountToTheState`); its capacity is or will be the devices' (`CoreLearnsTheDevices`); a press reaches what its key showed unless the key is being painted (`QuietPressAnswersScreen`); left alone, the deck ends up right (`ScreenSettles`) |
| `core_lifecycle` | `MCCoreLifecycle`, `CoreLifecycle.cfg` | until a plugin is killed: a listening core owns the token file (`ListenerOwnsTokenFile`), the client is with its own child (`PeerIsOwnChild`); left alone it connects (`LeftAloneItConnects`); whoever was killed, once the plugin's child listens and the file is its, the client finds it (`ClientFindsStableCore`) |
| `parts` | `MCParts`, `Parts.cfg` | the core reads exactly the complete lines (`CoreReadsEveryLine`), the client every message of a sound stream (`ClientReadsEveryMessage`), and of any other stream each message once, in order, except those that the exception of a later bad line took with it (`NothingTwice`); `B`n and `D`n are the n-th key and the n-th dial of the only device connected (`LabelsFollowTheDevice`); of overlapping renderings the last one wins (`LastRenderingWins`, `TitleIsNeverStale`); an upgrade is granted just as the file says (`GrantedAsConfigured`) |

A behaviour of `parts` is one of one of the four modules, chosen at the start: the run
has the sum of their states, not the product.

Three properties show a limit as well. `NothingTwice` names the messages that are
`lost` with the exception: a bad line does cost the good ones before it in its
chunk, and complete lines behind it wait in the buffer until a push that does not throw. And `QuietPressAnswersScreen` has to exclude a key with an update under way:
a press sent before the update is seen goes to the new holder of the focus. And
three properties of `core_lifecycle` hold as long as every plugin ran its shutdown:
a plugin that is killed leaves its core listening, the next plugin starts a core
that has not written its token yet, finds the old token in the file and may
register with the old core, while its own child cannot bind and is started over and
over.

Five more runs show that the code does not do what a document or a comment says;
they end with the counterexample.

| Run | What the text says | What the code does |
|---|---|---|
| `capacity_rerender` | Decision D9 of the slot content design: content is "simply re-rendered" when the capacity becomes known | `handleDeviceCapacity` renders nothing; the deck waits for the next focus change or registration |
| `sticky_state` | `profileRouter.ts`: a sweep is "a full, authoritative statement" | an entry without `state` leaves the state another entry had at that key |
| `unregistered_focus` | `PROTOCOL.md`: until `register` is sent no other message is accepted | a WebSocket is authenticated by its Origin and may take the focus without registering |
| `half_up` | `PROTOCOL.md`: the core "exposes two listeners" | if the WebSocket port is taken, the start fails with the TCP listener open; the process stays, and nobody binds the other port when it gets free |
| `supervisor_gives_up` | the lifecycle specification: an unexpected exit is followed by a new core | if the one restart throws, or its launch fails without an exit event, supervision ends |

### Bounds

- `MaxConnections = 3`: a display, the focused application and another; or two
  displays and one application. Every action involves at most the connection it
  comes from, the display and the holder of the focus, so three connections
  meet all combinations, and the third may be a reconnect of the first.
- Declarations: one map (two in `sticky_state`) that has good entries and each kind
  of bad one: not a label, a label out of range of one report and in range of the
  other, a bad value, and (in `core`) a `state` on a dial. With an absent map and a
  `content` that is no map, `ResolveContent` meets every case.
- Reports: two, chosen so that a position has different labels in them and a label
  valid in one is out of range in the other.
- `MaxCores = 3`: the client can be registered, lose its core, meet a second with a
  torn or outdated token, lose that too, and end with the third.
- `SocketIds`, `Pids`: two names each. One is enough as `OneAttemptAtATime` and
  `OneSupervisedCore` show; the second lets TLC find a violation of them.
- `SaturatedAttempt = 6` in `Backoff`: from the sixth attempt the delay is the
  maximum, so larger counts behave the same.
- `DeckLink`: `MaxConnections = 3` in each life of the core (the plugin, an
  application with the focus, another that takes it), and no bound on lives;
  `MaxUnread = 1`: an end does something new only when at most that much is under
  way, but one handler writes a whole sweep, and a registration and the report it
  causes overlap, so several updates are under way at once. The two devices share a
  position under different labels; one application declares an icon and one key, the other no icon and two.
- `CoreLifecycle`: three processes at one time (one going down or orphaned, the
  child, and one more orphan); names are used again without limit.
- `Framing`: one piece of text besides CR and LF. A line of one and a line of two of it are
  JSON, so that two messages differ and one can be cut in two; a line with a CR in it
  or of three pieces is not. `MaxLength = 8` is enough for two different messages with
  `\r\n`, or two of them and a bad line before or after, cut in every way; reconnects without limit.
- `DeviceCapacity`: two devices, alone or together, and seven models, of equal counts and different
  layouts, equal layouts and different dials, without keys, and of an unlisted type.
- `DeckActions`: a key with an instance on each of two pages, or the first of them and a
  dial, so that one slot's updates meet another's renderings (`AtRest` leaves out the
  third); one text, one icon or null, two states or none; `MaxPending = 2`
  renderings under way of each instance.
- `OriginAllowlist`: every entry of up to three characters out of five, pairs of
  entries of up to two that a join could confuse, six Origin headers; one edit of the
  file between two starts of the plugin.

Deadlock is checked in every run.

### Fairness

The core only reacts, and nothing is assumed of its clients: its specification has
no fairness and its properties are safety properties.

The client's specification assumes that Node delivers what it owes: timers fire, a file
read ends, an event of a socket is handled, a listening core answers `register`
(weak fairness). Reading a token file that exists succeeds if tried over and over
(strong fairness of `OpenSocket`), since a read error of an existing file is
transient. It does not assume that a core starts or stays up: `EventuallyRegistered`
has that as its premise.

The supervisor's specification assumes the same of timers and exit events, that a
launch ends in success or failure, and that a killed process dies. A spawn or a launch
tried infinitely often succeeds once (strong fairness); it does not help where
the code stops trying, which is what `supervisor_gives_up` shows.

In `DeckLink` both ends read what has arrived and the client connects again (weak
fairness of `PluginReads`, `CoreReads`, `Connect`). Nothing is assumed of users,
devices and applications: `ScreenSettles` has as its premise that they, and crashes,
come to rest.

In `CoreLifecycle` a start goes on, a signalled process ends, the restart timer fires
and the client's steps are taken (weak fairness); that nobody interferes for ever,
that ports get free and that the file can be written are premises of the
properties, not assumptions. The four modules of `parts` have safety properties only.

## The proofs

The theorems hold for every value of the constants that meets the modules' named
assumptions, which TLC evaluates in the runs. They say what the inputs are made of,
and that markers are no ordinary values: `Absent`, `Null`, `Unset` and the like stand for
a missing field or value, and no text, icon, state, count or string is one of them.
Two of them are about the world: a report has no position twice (`FaceAssumption`; it comes
from one device), and the SDK lists no device twice (`DevicesAssumption`).

`GatowayCoreProofs` holds theorems about `GatowayCore` for any number of connections and
any plugin types, declarations and reports.

| Theorem | States |
|---|---|
| `TypeCorrect` | `Spec => []TypeOK` |
| `FocusCorrect` | `Spec => []FocusedIsAuthenticated` |
| `LifecycleForward` | `Spec => LifecycleOnlyForward` |
| `ArbiterImplemented` | `Spec => ImplementsFocusArbiter` |
| `OutsidersSpared` | `Spec => []OutsidersHearOnlyRefusal` |
| `OneDisplay` | `Spec => []OneDisplayIsPainted` |
| `DeclarationsOwned` | `Spec => DeclarationsAreOnesOwn` |

So every property of the `core` run holds for every instance, and the run is what
found them true before they were proved.

The map of connections is a function whose domain grows and shrinks, so type
correctness is stated through `Tracked`: the domain is within `1..accepted` and
every record is well typed. Each operator of `ConnectionManager` gets a lemma that
it preserves `Tracked`, and `ResolveContentIsContent` says that content is
valid whatever was declared; `TypeCorrect` follows action by action.

`FocusedIsAuthenticated` is not inductive by itself: that accepting connection
`accepted + 1` does not disturb a tracked one needs `DOMAIN conns` to lie in
`1..accepted`. `FocusInv` adds `TypeOK`. The
lemmas `AcceptEffect`, `DisconnectEffect` and `RegisterEffect` say who is
authenticated after each operation, `HandleCases` reduces the ten messages to four
cases (gone, registered, focus, inert), and the remaining theorems reuse both.
`ArbiterImplemented` maps: acceptance of a WebSocket and the first registration of
a TCP connection to `Join`, every way of going to `Leave`, a focus message
to `Gain`, `Blur` or nothing, and everything else to a stutter.

The theorems about `out` follow the outbox through the operators of
`ProfileRouter`. `HandlersSpareOutsiders` says that no handler writes to a
connection that is not authenticated; it needs `FocusedIsAuthenticated` of the state
*after* the step, because a focus report is answered to the new holder, and that
the display `FindStreamDeckConnection` chooses exists (`LeastExists`: a set of
numbers has a least one). `StepWrites` says all a step may write: to each connection
answers, the counts as they are after the step, a command at the label a position of the
capacity has, or one full sweep for the state after the step; and that nothing a
sweep or the counts depend on changes without them (`Repaints`, `Informs`). It is
proved action by action (`AcceptWrites`, `DropWrites`, `RegisterWrites`, `FocusWrites`,
`InertWrites`), from one lemma for each handler of the router. `OneDisplay` follows, and
so does what the peers make of what they read. `RegisterAcknowledged` finds the
acknowledgement at the head of what a registration writes.

`PeerViewsProofs` and `DeckLinkProofs` prove what the two compositions promise, without
`ClientsBehave` being needed for an invariant of `PeerViews`, and without a bound on the
messages under way in `DeckLink`.

| Theorem | States |
|---|---|
| `CapacityIsFresh`, `CommandsAreWithin`, `ScreenFollowsFocus`, `PressesAnswerScreen` | `SlotCapacityFresh`, `CommandsWithinToldCapacity`, `ScreenShowsFocus`, `PressAnswersScreen` of `PeerViews` |
| `UpdatesAmount`, `CoreLearns`, `QuietPressIsAnswered` | `UpdatesAmountToTheState`, `CoreLearnsTheDevices`, `QuietPressAnswersScreen` of `DeckLink` |

*Views.* `ViewInv` is the conjunction of the three invariants, `FocusInv`, and that the
capacity is a report or none (`CapacityIsKnown`). Each step falls into one of three cases:
it changes the capacity, and the deck counts as swept no more; it sweeps, and the screen is the sweep whatever it was before (`SweptShows`, by
`LaterUpdatesDecide`: of two updates of a field the later counts); or it writes no
update and changes nothing a sweep depends on (`QuietShows`).

*Link.* `ApplyAll` is a closed form; `UpdateIsRead` and `OtherIsRead` show that it is one
`apply()` after another: taking the head of the queue into the store leaves unchanged what
store and queue amount to. So the plugin may read whenever it likes, and what a core's
step appends is the case split of the views again. `LinkInv` adds that the plugin is
the only Stream Deck and its socket the one it registered on (`OnePlugin`), and
that a connected client's `lastReportedCapacity` is the devices': this is what `CoreLearns`
rests on, with `ToCome`, the capacity the core comes to when it reads its queue
(`ReportAppended`, `OtherAppended`, `HeadRead`: the last report in the queue counts).

`CoreProcessSupervisorProofs` and `CoreClientProofs` prove the safety properties of
the two halves of the plugin, for any set of process ids, sockets and capacities
and any number of cores; `CoreLifecycleProofs` those of all of them together, for any
number of processes. They assume what the modules name.

| Theorem | States |
|---|---|
| `SupervisorTypeCorrect`, `OneCore`, `StopFinal`, `NeverUnsupervised`, `CrashLoopSpaced` | `TypeOK`, `OneSupervisedCore`, `StopIsFinal`, `AlwaysSupervised`, `CrashLoopBacksOff` of `CoreProcessSupervisor` |
| `ClientTypeCorrect`, `OneAttempt`, `ClientStopFinal`, `ConnectedIsRegistered`, `DevicesKnown` | `TypeOK`, `OneAttemptAtATime`, `StopIsFinal`, `ConnectedMeansRegistered`, `CoreKnowsTheDevices` of `CoreClient` |
| `LifecycleTypeCorrect` | `TypeOK` of `CoreLifecycle`, plugins killed or not |
| `TokenFileOwned`, `PeerIsSupervised` | `ListenerOwnsTokenFile`, `PeerIsOwnChild` of `CoreLifecycle`, as long as no plugin was killed |

*Supervisor.* `SupervisorInv` adds to the properties that a pending timer can be
cancelled (`TimerIsCancellable`: otherwise `stop()` would leave one), that nothing
exists before `start()`, and that `delay` is that of the present attempt
(`DelayOfAttempt`). The last is what backing off needs: `DelayDoubles` says that the
next attempt's delay is twice the present one's or the maximum, by cases over the
seven attempts that `Backoff` tells apart.

*Client.* `OneAttemptAtATime` counts reads, sockets and timers. `OneWait` says the
same without counting: of a read, a timer and a socket there is one, and one of
each at most. `SocketIsCurrent` says that the socket there is, is `this.socket`, unless
`stop()` has let go of it, which is why a late event cannot be taken for
that of another socket. `PhasesMean` ties a socket's phase to the token it
presented, to `state`, and to the capacity written to it; `CoreKnowsTheDevices` follows
because a registered socket means a connected state, so that no report is dropped.

*Lifecycle.* The argument is `OnlyTheChildLives`: a process that nobody told to end is
the child of a plugin that runs. So only the child opens or writes the token
file, binds or answers; `WriterOwnsTokenFile` follows its start from the write on,
and `PeerIsTheChild` says whom the client can be with. The three make up `PlannedInv`,
which a killed plugin breaks: the invariant is `~unplanned => PlannedInv`, and
`UnplannedStays` says that the premise, once lost, is lost for good.

`DeckActionsProofs` and `PartsProofs` prove the safety properties of the edges.

| Theorem | States |
|---|---|
| `TitleFollowsStore`, `LastRenderingHasWon` | `TitleIsNeverStale`, `LastRenderingWins` of `DeckActions` |
| `LabelsFollow` | `LabelsFollowTheDevice` of `DeviceCapacity` |
| `EveryLineIsRead`, `EveryMessageIsRead`, `NoneTwice` | `CoreReadsEveryLine`, `ClientReadsEveryMessage`, `NothingTwice` of `Framing` |
| `OnlyConfiguredOrigins` | `GrantedAsConfigured` of `OriginAllowlist` |

*Actions.* `LastRenderingWins` speaks of an instance with no rendering under way.
`ActionsInv` says of any moment what the instance shows when all its renderings are
answered: what the store remembers. Renderings are rows that are answered one
call at a time, in any interleaving that keeps the order of the calls; `RemainderShape`
and the `Answered` lemmas say that one answer leaves that outcome as it was, for the icon
and for the state, which are set by different calls; `RenderSettles` that a new rendering
decides it.

*Devices.* `CapacityInv` says that what was reported is what `ComputeDeviceCapacity` gives
now, for however many devices. What that is when a single one is on, `CapacityIs` says: the keys of
that device, `KeysInReadingOrder` (the n-th is in row n divided by the columns), and
its dials. The library's flattening of a sequence of sequences is a recursive function;
`FlatteningExists` and `FlattenSteps` give the equations it satisfies. All induction here
is over sets of numbers (`Inductive`: a set that has 0, and with n always n + 1, is `Nat`,
since otherwise there were a least number outside), which needs no operator as a
parameter.

*Framing.* `FramingInv` says of each decoder that its buffer is the text after the last line
it took (`CoreHasRead`, `ClientHasRead`). One turn of the loop takes the next
line of the stream and keeps this (`TurnReads`, `ParsingTurnReads`), so the loop does
(`PushReads`, `PushParsingReads`: induction over turns), and when it ends there is no
newline left, or it threw. For `NothingTwice` the invariant has a set of line ends, the messages that are
gone: those handled are the other messages before the buffer, those `lost` are these, each in
order (`Accounted`). One push takes further lines and either handles what it decoded or throws; then
the line that threw is the last one it took (`HasParsed`), so that it comes
after every message the push lost (`MoreIsAccounted`). Nothing is assumed about what is JSON, or about the length of a stream.

*Origins.* The property says what the file means without any of the code's operations:
by positions of characters (`NamesIn`, `Means`). The two meet at the text between two commas
(`HasPart`): a string's names are its trimmed parts (`NamesHave`), the parts of a joined list
are those of its strings (`JoinHas`, from `CommaBehind` and `BehindComma`), and `split` gives
exactly the parts (`SplitHas`: `SplitTurns` is one turn of its loop, over one character),
so `ParseHas` and `NamesOfJoin` give the names back; `MatchesMeans` is the match. `OriginInv`
says that the environment and the running core's list are those of the file as it was read,
through edits and restarts. That an entry with a comma means two Origins, and that `"*"`
means any, is part of what is proved, not excluded.

So every safety property of a passing run is a theorem, invariants and action properties.
Only model-checked is liveness (`EventuallyRegistered`, `StopEndsTheCore`,
`ExitIsFollowedByRestart`, `ScreenSettles`, `LeftAloneItConnects`,
`ClientFindsStableCore`), since the prover has no reasoning about fairness here. The five
runs with a violation need no more than their counterexample.

## Not modelled

- *`decodeMessage`, `encodeMessage`, `encodeWsFrame`* (`core/protocol/`): whether a text
  is a well-formed envelope is a choice of the model between a malformed line
  and a message; the shape of JSON has no state.
- *The rest of the configuration* (`core/config.ts`, `plugin/coreLifecycle/config.ts`,
  `locateCoreEntryPoint.ts`): ports, paths and log options are parsed once and never
  change; both sides of the model use the same port and file.
- *Loggers*: output only. *File permissions*: not observable in the model. *The Elgato
  SDK*: modelled by the events it delivers. *`close()` of the listeners' handles*: only
  tests call it. *The manual test clients*: tools.
- *Which of two Stream Decks a label means while both are connected*: the code documents
  one as its limit and concatenates the positions of both. `DeviceCapacity` has these states,
  and claims nothing of them but that they leave no trace.
- *A message whose payload is outside the protocol's types* (an `input_event` without
  position): it makes the handler throw, which would end the process.
- *A token write that overtakes a later core's*: with killed plugins an orphan may write
  its token after the next core has; the model admits it, `ClientFindsStableCore` has
  the right token as a premise, and nothing in the code makes it come true.
