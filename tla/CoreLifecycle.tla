--------------------------- MODULE CoreLifecycle ---------------------------
(***************************************************************************)
(* Who runs gatoway-core, who holds its ports, and whose token the token   *)
(* file has: index.ts, token.ts and the two listeners' binding at one end, *)
(* the Stream Deck plugin with its supervisor and client at the other.     *)
(*                                                                         *)
(* The parts are coarse here, to be seen together: CoreProcessSupervisor   *)
(* has the restart timer and the spawns that fail, CoreClient the client's *)
(* callbacks.  What is new is more than one core: the plugin may go        *)
(* without its shutdown handlers, and then its child stays; and other      *)
(* programs may hold the ports.                                            *)
(***************************************************************************)
EXTENDS FiniteSets

CONSTANTS
  Procs,        (* names for the core processes that exist at one time     *)
  None,         (* no process, or one that has ended                       *)
  NoFile,       (* there is no token file yet                              *)
  Stale,        (* a token of no process: its core has ended, or the read  *)
                (* met a file just truncated                               *)
  Foreign       (* another program                                         *)

ASSUME LifecycleAssumption ==
  /\ Procs \intersect {None, NoFile, Stale, Foreign} = {}
  /\ Cardinality({None, NoFile, Stale, Foreign}) = 4

VARIABLES
  plugin,       (* is the plugin running?                                  *)
  child,        (* the supervisor's child; None while a restart is pending *)
  client,       (* the client's step, the token it read, whom it reached   *)
  cores,        (* how far startGatowayCore has come in each process       *)
  unwritten,    (* the processes whose token file could not be written     *)
  tokenFile,    (* whose token the file holds                              *)
  foreign,      (* the ports another program holds                         *)
  unplanned     (* history: has a plugin gone without its shutdown?        *)

vars == <<plugin, child, client, cores, unwritten, tokenFile, foreign, unplanned>>

Ports == {"tcp", "ws"}

(* `starting`, `writing` the token file, `binding` the TCP port, then with *)
(* it the WebSocket port; `up` with both, `half` up when the second was    *)
(* taken.  A `killed` process holds its ports until it has ended.          *)
CorePhases == {"starting", "writing", "binding", "tcp", "up", "half"}

IsCore(core) ==
  core.phase \in CorePhases /\ core.killed \in BOOLEAN /\ DOMAIN core = {"phase", "killed"}

Alive(p) == p \in DOMAIN cores /\ ~cores[p].killed
At(p, phase) == Alive(p) /\ cores[p].phase = phase

Moved(p, phase) == [cores EXCEPT ![p].phase = phase]

(* Who holds a port.                                                       *)
TcpHolders == {p \in DOMAIN cores : cores[p].phase \in {"tcp", "up", "half"}}
WsHolders == {p \in DOMAIN cores : cores[p].phase = "up"}
Free(port) ==
  /\ port \notin foreign
  /\ (IF port = "tcp" THEN TcpHolders ELSE WsHolders) = {}

Waiting == [step |-> "waiting", token |-> NoFile, peer |-> None]

Init ==
  /\ plugin = FALSE
  /\ child = None
  /\ client = Waiting
  /\ cores = [p \in {} |-> None]
  /\ unwritten = {}
  /\ tokenFile = NoFile
  /\ foreign = {}
  /\ unplanned = FALSE

-----------------------------------------------------------------------------
(* The processes.                                                          *)

(* spawnNow(): a process, with a token nobody has had before.              *)
Spawn(p) ==
  /\ p \notin DOMAIN cores
  /\ cores' = [q \in DOMAIN cores \union {p} |->
                 IF q = p THEN [phase |-> "starting", killed |-> FALSE] ELSE cores[q]]
  /\ child' = p

(* The plugin starts: supervisor.start(), then coreClient.start().         *)
PluginStarts ==
  /\ ~plugin
  /\ plugin' = TRUE
  /\ client' = Waiting
  /\ \E p \in Procs : Spawn(p)
  /\ UNCHANGED <<unwritten, tokenFile, foreign, unplanned>>

(* The supervisor's restart timer.                                         *)
Restart ==
  /\ plugin /\ child = None
  /\ \E p \in Procs : Spawn(p)
  /\ UNCHANGED <<plugin, client, unwritten, tokenFile, foreign, unplanned>>

(* The plugin is gone, and the client's socket with it.                    *)
PluginEnds ==
  /\ plugin
  /\ plugin' = FALSE
  /\ child' = None
  /\ client' = Waiting
  /\ UNCHANGED <<unwritten, tokenFile, foreign>>

(* Mutant: the child is left running.                                      *)
PluginStopsLeavingCore == PluginEnds /\ UNCHANGED <<cores, unplanned>>

(* shutdown() of plugin.ts: the child is sent a signal.                    *)
PluginStops ==
  /\ PluginEnds
  /\ cores' = [p \in DOMAIN cores |->
                 IF p = child THEN [cores[p] EXCEPT !.killed = TRUE] ELSE cores[p]]
  /\ UNCHANGED unplanned

(* The plugin is killed, or crashes hard: nobody tells the child.          *)
PluginKilled ==
  /\ PluginEnds
  /\ unplanned' = TRUE
  /\ UNCHANGED cores

(* A process has ended: its ports are free, its token is nobody's, and the *)
(* supervisor hears of it if it is the child.                              *)
Ends(p) ==
  /\ cores' = [q \in DOMAIN cores \ {p} |-> cores[q]]
  /\ unwritten' = unwritten \ {p}
  /\ tokenFile' = IF tokenFile = p THEN Stale ELSE tokenFile
  /\ client' = [client EXCEPT !.token = IF @ = p THEN Stale ELSE @,
                              !.peer  = IF @ = p THEN None ELSE @]

(* Mutant: the exit of the child goes unnoticed.                           *)
ProcessEndsUnnoticed(p) ==
  Ends(p) /\ UNCHANGED <<plugin, child, foreign, unplanned>>

ProcessEnds(p) ==
  /\ Ends(p)
  /\ child' = IF child = p THEN None ELSE child
  /\ UNCHANGED <<plugin, foreign, unplanned>>

(* A crash, or the signal does its work.                                   *)
Crashes(p) == Alive(p) /\ ProcessEnds(p)
KillTakesEffect(p) == p \in DOMAIN cores /\ cores[p].killed /\ ProcessEnds(p)

-----------------------------------------------------------------------------
(* startGatowayCore().                                                     *)

(* writeTokenFile() opens, and so truncates, the file, or cannot.          *)
OpensTokenFile(p) ==
  /\ At(p, "starting")
  /\ \/ /\ cores' = Moved(p, "writing")
        /\ tokenFile' = Stale
        /\ UNCHANGED unwritten
     \/ /\ cores' = Moved(p, "binding")
        /\ unwritten' = unwritten \union {p}
        /\ UNCHANGED tokenFile
  /\ UNCHANGED <<plugin, child, client, foreign, unplanned>>

(* The token is written, or is not; the start goes on either way.          *)
WritesToken(p) ==
  /\ At(p, "writing")
  /\ cores' = Moved(p, "binding")
  /\ \/ tokenFile' = p /\ UNCHANGED unwritten
     \/ unwritten' = unwritten \union {p} /\ UNCHANGED tokenFile
  /\ UNCHANGED <<plugin, child, client, foreign, unplanned>>

BindsTcp(p) ==
  /\ At(p, "binding") /\ Free("tcp")
  /\ cores' = Moved(p, "tcp")
  /\ UNCHANGED <<plugin, child, client, unwritten, tokenFile, foreign, unplanned>>

(* The start is given up; nothing keeps the process running.               *)
TcpPortTaken(p) ==
  /\ At(p, "binding") /\ ~Free("tcp")
  /\ ProcessEnds(p)

(* When the port is taken the start is given up, too, and process.exitCode *)
(* set; but the TCP listener keeps the process running.                    *)
BindsWs(p) ==
  /\ At(p, "tcp")
  /\ cores' = Moved(p, IF Free("ws") THEN "up" ELSE "half")
  /\ UNCHANGED <<plugin, child, client, unwritten, tokenFile, foreign, unplanned>>

Starting(p) ==
  OpensTokenFile(p) \/ WritesToken(p) \/ BindsTcp(p) \/ TcpPortTaken(p) \/ BindsWs(p)

-----------------------------------------------------------------------------
(* The client.                                                             *)

(* Mutant: the token is read for the first attempt only.                   *)
ReadsTokenOnce ==
  /\ plugin /\ client.step = "waiting" /\ tokenFile # NoFile
  /\ client' = [step |-> "dialing", peer |-> None,
                token |-> IF client.token = NoFile THEN tokenFile ELSE client.token]
  /\ UNCHANGED <<plugin, child, cores, unwritten, tokenFile, foreign, unplanned>>

(* A retry, up to connectFn: the file as it is now.                        *)
ReadsToken ==
  /\ plugin /\ client.step = "waiting" /\ tokenFile # NoFile
  /\ client' = [step |-> "dialing", peer |-> None, token |-> tokenFile]
  /\ UNCHANGED <<plugin, child, cores, unwritten, tokenFile, foreign, unplanned>>

(* Whoever listens accepts, and gets the register; or the dial is refused. *)
Dials ==
  /\ client.step = "dialing"
  /\ \/ \E p \in TcpHolders : client' = [client EXCEPT !.step = "registering", !.peer = p]
     \/ "tcp" \in foreign /\ client' = [client EXCEPT !.step = "registering", !.peer = Foreign]
     \/ Free("tcp") /\ client' = [client EXCEPT !.step = "waiting"]
  /\ UNCHANGED <<plugin, child, cores, unwritten, tokenFile, foreign, unplanned>>

(* The core compares the token with its own.  Another program may never    *)
(* answer, and the client has no timeout.                                  *)
Answered ==
  /\ client.step = "registering" /\ Alive(client.peer)
  /\ client' = IF client.token = client.peer
                 THEN [client EXCEPT !.step = "connected"]
                 ELSE [client EXCEPT !.step = "waiting", !.peer = None]
  /\ UNCHANGED <<plugin, child, cores, unwritten, tokenFile, foreign, unplanned>>

(* The socket's close event.                                               *)
ConnectionLost ==
  /\ client.step \in {"registering", "connected"} /\ client.peer = None
  /\ client' = [client EXCEPT !.step = "waiting"]
  /\ UNCHANGED <<plugin, child, cores, unwritten, tokenFile, foreign, unplanned>>

ClientSteps == ReadsToken \/ Dials \/ Answered \/ ConnectionLost

-----------------------------------------------------------------------------
(* Other programs.                                                         *)

ForeignTakes(port) ==
  /\ Free(port)
  /\ foreign' = foreign \union {port}
  /\ UNCHANGED <<plugin, child, client, cores, unwritten, tokenFile, unplanned>>

ForeignLeaves(port) ==
  /\ port \in foreign
  /\ foreign' = foreign \ {port}
  /\ client' = [client EXCEPT !.peer = IF @ = Foreign /\ port = "tcp" THEN None ELSE @]
  /\ UNCHANGED <<plugin, child, cores, unwritten, tokenFile, unplanned>>

Next ==
  \/ PluginStarts \/ PluginStops \/ PluginKilled \/ Restart
  \/ \E p \in Procs : Starting(p) \/ Crashes(p) \/ KillTakesEffect(p)
  \/ ClientSteps
  \/ \E port \in Ports : ForeignTakes(port) \/ ForeignLeaves(port)

(* A start goes on, a signal does its work, timers and answers come.       *)
(* Nothing says when anybody starts, stops, crashes or frees a port.       *)
Fairness ==
  /\ WF_vars(Restart)
  /\ WF_vars(ClientSteps)
  /\ \A p \in Procs : WF_vars(Starting(p)) /\ WF_vars(KillTakesEffect(p))

Spec == Init /\ [][Next]_vars /\ Fairness

-----------------------------------------------------------------------------

TypeOK ==
  /\ plugin \in BOOLEAN
  /\ child \in DOMAIN cores \union {None}
  /\ DOMAIN cores \subseteq Procs
  /\ \A p \in DOMAIN cores : IsCore(cores[p])
  /\ client.step \in {"waiting", "dialing", "registering", "connected"}
  /\ client.token \in DOMAIN cores \union {NoFile, Stale}
  /\ client.peer \in DOMAIN cores \union {None, Foreign}
  /\ unwritten \subseteq DOMAIN cores
  /\ tokenFile \in DOMAIN cores \union {NoFile, Stale}
  /\ foreign \subseteq Ports
  /\ unplanned \in BOOLEAN

(* As long as every plugin ran its shutdown, whoever reads the token file  *)
(* can register with the core that listens, if that core could write it: a *)
(* core on its way down and one on its way up never mix their tokens.      *)
ListenerOwnsTokenFile ==
  ~unplanned => \A p \in TcpHolders \ unwritten : Alive(p) => tokenFile = p

(* As long as every plugin ran its shutdown, the client is registered with *)
(* the core its own supervisor runs: the stop of a plugin and the start of *)
(* the next, a crash and the restart leave none that would answer it.      *)
PeerIsOwnChild ==
  (~unplanned /\ client.step = "connected" /\ client.peer # None) => client.peer = child

(* Whatever went before (stale tokens, files half written, other cores and *)
(* programs on the port), once the plugin's core listens, and the file is  *)
(* its, for good, the client registers with it and stays.                  *)
ClientFindsStableCore ==
  \A p \in Procs :
    <>[](plugin /\ child = p /\ p \in TcpHolders /\ Alive(p) /\ tokenFile = p)
      => <>[](client.step = "connected" /\ client.peer = p)

(* A step that only lets go on what is going on.                           *)
Undisturbed == [][Restart \/ ClientSteps \/ \E p \in Procs : Starting(p) \/ KillTakesEffect(p)]_vars

(* Once nothing interferes, the ports are free of others, and the token    *)
(* files can be written, the plugin ends up registered with its own core,  *)
(* if every plugin ran its shutdown.                                       *)
LeftAloneItConnects ==
  (<>Undisturbed /\ <>[](plugin /\ foreign = {} /\ unwritten = {} /\ ~unplanned))
    => <>[](client.step = "connected" /\ client.peer = child)

(* PROTOCOL.md: "Gatoway core exposes two listeners", and openspec: "both  *)
(* listeners are bound".  Once nobody else holds the WebSocket port, a     *)
(* core that listens on TCP comes to listen on both, or ends.              *)
BothListenersOrNone ==
  <>[]("ws" \notin foreign) =>
    \A p \in Procs : (p \in TcpHolders) ~> (p \in WsHolders \/ p \notin DOMAIN cores)
=============================================================================
