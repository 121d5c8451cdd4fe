------------------------ MODULE CoreLifecycleProofs ------------------------
(***************************************************************************)
(* Theorems about CoreLifecycle, for any number of core processes: its     *)
(* variables are well typed; and when every plugin runs its shutdown, the  *)
(* listener owns the token file and the client's peer is its own child.    *)
(*                                                                         *)
(* What the last two rest on is that a process nobody has told to end is   *)
(* the child of the plugin that runs, so that only the child writes the    *)
(* token file, binds and answers.  A plugin that is killed takes just that *)
(* away: PlannedInv holds until the first goes.                            *)
(***************************************************************************)
EXTENDS CoreLifecycle, TLAPS

-----------------------------------------------------------------------------
(* The inductive invariants.                                               *)

CoresOK ==
  /\ cores = [p \in DOMAIN cores |-> cores[p]]
  /\ DOMAIN cores \subseteq Procs
  /\ \A p \in DOMAIN cores :
       /\ cores[p] = [phase |-> cores[p].phase, killed |-> cores[p].killed]
       /\ cores[p].phase \in CorePhases /\ cores[p].killed \in BOOLEAN

ClientOK ==
  /\ client = [step |-> client.step, token |-> client.token, peer |-> client.peer]
  /\ client.step \in {"waiting", "dialing", "registering", "connected"}
  /\ client.token \in DOMAIN cores \union {NoFile, Stale}
  /\ client.peer \in DOMAIN cores \union {None, Foreign}

PluginOK == plugin \in BOOLEAN /\ child \in DOMAIN cores \union {None}

FilesOK ==
  /\ unwritten \subseteq DOMAIN cores
  /\ tokenFile \in DOMAIN cores \union {NoFile, Stale}
  /\ foreign \subseteq Ports
  /\ unplanned \in BOOLEAN

TypeInv == CoresOK /\ ClientOK /\ PluginOK /\ FilesOK

(* A process nobody has told to end is the child of the running plugin.    *)
OnlyTheChildLives ==
  /\ \A p \in DOMAIN cores : ~cores[p].killed => p = child
  /\ ~plugin => child = None

(* From its write on, the living process's token is in the file.           *)
WriterOwnsTokenFile ==
  \A p \in DOMAIN cores \ unwritten :
    (~cores[p].killed /\ cores[p].phase \in {"binding", "tcp", "up", "half"}) => tokenFile = p

PeerIsTheChild ==
  (client.step = "connected" /\ client.peer # None) => client.peer = child

PlannedInv ==
  /\ TypeInv
  /\ OnlyTheChildLives
  /\ WriterOwnsTokenFile
  /\ PeerIsTheChild

LEMMA TypeInvSays == TypeInv => TypeOK
<1> SUFFICES ASSUME TypeInv PROVE TypeOK
  OBVIOUS
<1>1. \A p \in DOMAIN cores : IsCore(cores[p])
  <2> TAKE p \in DOMAIN cores
  <2>1. /\ cores[p] = [phase |-> cores[p].phase, killed |-> cores[p].killed]
        /\ cores[p].phase \in CorePhases /\ cores[p].killed \in BOOLEAN
    BY DEF TypeInv, CoresOK
  <2> QED
    BY <2>1 DEF IsCore
<1> QED
  BY <1>1 DEF TypeInv, CoresOK, ClientOK, PluginOK, FilesOK, TypeOK

LEMMA LifecycleInit == Init => PlannedInv
<1> SUFFICES ASSUME Init PROVE PlannedInv
  OBVIOUS
<1>1. DOMAIN cores = {} /\ CoresOK
  BY DEF Init, CoresOK
<1>2. ClientOK
  BY <1>1 DEF Init, ClientOK, Waiting
<1>3. PluginOK /\ FilesOK
  BY <1>1 DEF Init, PluginOK, FilesOK
<1>4. PeerIsTheChild
  BY DEF Init, Waiting, PeerIsTheChild
<1> QED
  BY <1>1, <1>2, <1>3, <1>4 DEF Init, PlannedInv, TypeInv, OnlyTheChildLives, WriterOwnsTokenFile

-----------------------------------------------------------------------------
(* What the pieces of the steps do.                                        *)

LEMMA SpawnSpawns ==
  ASSUME CoresOK, NEW p \in Procs, Spawn(p)
  PROVE  /\ CoresOK' /\ child' = p
         /\ DOMAIN cores' = DOMAIN cores \union {p} /\ p \notin DOMAIN cores
         /\ cores'[p].phase = "starting" /\ cores'[p].killed = FALSE
         /\ \A q \in DOMAIN cores : cores'[q] = cores[q]
<1>1. /\ p \notin DOMAIN cores /\ child' = p
      /\ cores' = [q \in DOMAIN cores \union {p} |->
                     IF q = p THEN [phase |-> "starting", killed |-> FALSE] ELSE cores[q]]
  BY DEF Spawn
<1>2. /\ DOMAIN cores' = DOMAIN cores \union {p}
      /\ cores'[p] = [phase |-> "starting", killed |-> FALSE]
      /\ \A q \in DOMAIN cores : cores'[q] = cores[q]
  BY <1>1
<1>3. CoresOK'
  BY <1>1, <1>2 DEF CoresOK, CorePhases
<1> QED
  BY <1>1, <1>2, <1>3

LEMMA MovedMoves ==
  ASSUME CoresOK, NEW p \in DOMAIN cores, NEW phase \in CorePhases, cores' = Moved(p, phase)
  PROVE  /\ CoresOK'
         /\ DOMAIN cores' = DOMAIN cores
         /\ cores'[p].phase = phase /\ cores'[p].killed = cores[p].killed
         /\ \A q \in DOMAIN cores \ {p} : cores'[q] = cores[q]
<1>1. cores' = [cores EXCEPT ![p] = [cores[p] EXCEPT !.phase = phase]]
  BY DEF Moved
<1>2. /\ cores[p] = [phase |-> cores[p].phase, killed |-> cores[p].killed]
      /\ cores[p].killed \in BOOLEAN
  BY DEF CoresOK
<1>3. /\ cores'[p] = [phase |-> phase, killed |-> cores[p].killed]
      /\ DOMAIN cores' = DOMAIN cores
      /\ cores' = [q \in DOMAIN cores' |-> cores'[q]]
      /\ \A q \in DOMAIN cores \ {p} : cores'[q] = cores[q]
  BY <1>1, <1>2 DEF CoresOK
<1>4. CoresOK'
  BY <1>2, <1>3 DEF CoresOK
<1> QED
  BY <1>3, <1>4

(* Whatever a client step makes of the client, it leaves the rest alone.   *)
LEMMA ClientTypeChange ==
  ASSUME TypeInv, ClientOK', UNCHANGED <<plugin, child, cores, unwritten, tokenFile, unplanned>>,
         foreign' \subseteq Ports
  PROVE  TypeInv'
  BY DEF TypeInv, CoresOK, PluginOK, FilesOK

(* The processes' own changes, none of which goes.                         *)
LEMMA CoresGrow ==
  ASSUME TypeInv, CoresOK', DOMAIN cores \subseteq DOMAIN cores',
         UNCHANGED <<client, foreign, unplanned>>, PluginOK',
         unwritten' \subseteq DOMAIN cores', tokenFile' \in DOMAIN cores' \union {NoFile, Stale}
  PROVE  TypeInv'
  BY DEF TypeInv, ClientOK, FilesOK

LEMMA WaitingIsOK == ASSUME client' = Waiting PROVE ClientOK' /\ PeerIsTheChild'
  BY DEF Waiting, ClientOK, PeerIsTheChild

-----------------------------------------------------------------------------
(* The plugin and its child: types.                                        *)

LEMMA PluginStartsType ==
  ASSUME TypeInv, PluginStarts PROVE TypeInv'
<1>1. PICK p \in Procs : Spawn(p)
  BY DEF PluginStarts
<1>2. CoresOK' /\ child' = p /\ DOMAIN cores' = DOMAIN cores \union {p}
  BY <1>1, SpawnSpawns DEF TypeInv
<1>3. ClientOK'
  BY WaitingIsOK DEF PluginStarts
<1> QED
  BY <1>2, <1>3 DEF PluginStarts, TypeInv, PluginOK, FilesOK

LEMMA RestartType ==
  ASSUME TypeInv, Restart PROVE TypeInv'
<1>1. PICK p \in Procs : Spawn(p)
  BY DEF Restart
<1>2. CoresOK' /\ child' = p /\ DOMAIN cores' = DOMAIN cores \union {p}
  BY <1>1, SpawnSpawns DEF TypeInv
<1>3. /\ PluginOK' /\ unwritten' \subseteq DOMAIN cores'
      /\ tokenFile' \in DOMAIN cores' \union {NoFile, Stale}
  BY <1>2 DEF Restart, TypeInv, PluginOK, FilesOK
<1> QED
  BY <1>2, <1>3, CoresGrow DEF Restart

(* shutdown() signals the child and nobody else.                           *)
LEMMA StopSignals ==
  ASSUME TypeInv, PluginStops
  PROVE  /\ CoresOK' /\ DOMAIN cores' = DOMAIN cores
         /\ \A p \in DOMAIN cores \ {child} : cores'[p] = cores[p]
         /\ child \in DOMAIN cores => cores'[child].killed
<1>1. cores' = [p \in DOMAIN cores |->
                  IF p = child THEN [cores[p] EXCEPT !.killed = TRUE] ELSE cores[p]]
  BY DEF PluginStops
<1>2. ASSUME child \in DOMAIN cores
      PROVE  cores'[child] = [phase |-> cores[child].phase, killed |-> TRUE]
  <2>1. cores[child] = [phase |-> cores[child].phase, killed |-> cores[child].killed]
    BY <1>2 DEF TypeInv, CoresOK
  <2> QED
    BY <1>1, <1>2, <2>1
<1>3. /\ DOMAIN cores' = DOMAIN cores
      /\ cores' = [p \in DOMAIN cores' |-> cores'[p]]
      /\ \A p \in DOMAIN cores \ {child} : cores'[p] = cores[p]
  BY <1>1
<1>4. \A p \in DOMAIN cores :
        /\ cores'[p] = [phase |-> cores'[p].phase, killed |-> cores'[p].killed]
        /\ cores'[p].phase \in CorePhases /\ cores'[p].killed \in BOOLEAN
  <2> TAKE p \in DOMAIN cores
  <2>1. CASE p = child
    <3>1. cores'[p] = [phase |-> cores[p].phase, killed |-> TRUE]
      BY <1>2, <2>1
    <3>2. cores[p].phase \in CorePhases
      BY DEF TypeInv, CoresOK
    <3> QED
      BY <3>1, <3>2
  <2>2. CASE p # child
    BY <1>3, <2>2 DEF TypeInv, CoresOK
  <2> QED
    BY <2>1, <2>2
<1>5. CoresOK'
  BY <1>3, <1>4 DEF TypeInv, CoresOK
<1> QED
  BY <1>2, <1>3, <1>5

LEMMA PluginEndsType ==
  ASSUME TypeInv, PluginStops \/ PluginKilled PROVE TypeInv'
<1>1. CoresOK' /\ DOMAIN cores' = DOMAIN cores
  BY StopSignals DEF PluginKilled, TypeInv, CoresOK
<1>2. /\ plugin' = FALSE /\ child' = None /\ client' = Waiting
      /\ UNCHANGED <<unwritten, tokenFile, foreign>> /\ unplanned' \in BOOLEAN
  BY DEF TypeInv, FilesOK, PluginStops, PluginKilled, PluginEnds
<1>3. ClientOK'
  BY <1>2, WaitingIsOK
<1> QED
  BY <1>1, <1>2, <1>3 DEF TypeInv, PluginOK, FilesOK

(* A process that has ended is gone from everywhere.                       *)
LEMMA ProcessEndsType ==
  ASSUME TypeInv, NEW p \in DOMAIN cores, ProcessEnds(p)
  PROVE  /\ TypeInv'
         /\ DOMAIN cores' = DOMAIN cores \ {p}
         /\ \A q \in DOMAIN cores' : cores'[q] = cores[q]
         /\ client'.step = client.step
         /\ client'.peer = IF client.peer = p THEN None ELSE client.peer
<1>1. /\ cores' = [q \in DOMAIN cores \ {p} |-> cores[q]]
      /\ unwritten' = unwritten \ {p}
      /\ tokenFile' = IF tokenFile = p THEN Stale ELSE tokenFile
      /\ client' = [client EXCEPT !.token = IF @ = p THEN Stale ELSE @,
                                  !.peer  = IF @ = p THEN None ELSE @]
      /\ child' = IF child = p THEN None ELSE child
      /\ UNCHANGED <<plugin, foreign, unplanned>>
  BY DEF ProcessEnds, Ends
<1>2. DOMAIN cores' = DOMAIN cores \ {p} /\ \A q \in DOMAIN cores' : cores'[q] = cores[q]
  BY <1>1
<1>3. CoresOK'
  BY <1>1, <1>2 DEF TypeInv, CoresOK
<1>4. client = [step |-> client.step, token |-> client.token, peer |-> client.peer]
  BY DEF TypeInv, ClientOK
<1>5. client' = [step |-> client.step,
                 token |-> IF client.token = p THEN Stale ELSE client.token,
                 peer |-> IF client.peer = p THEN None ELSE client.peer]
  BY <1>1, <1>4
<1>6. ClientOK'
  BY <1>2, <1>5 DEF TypeInv, ClientOK
<1>7. PluginOK' /\ FilesOK'
  BY <1>1, <1>2 DEF TypeInv, PluginOK, FilesOK
<1> QED
  BY <1>2, <1>3, <1>5, <1>6, <1>7 DEF TypeInv

-----------------------------------------------------------------------------
(* startGatowayCore(): types.                                              *)

(* A start goes from one phase to the next, its token file apart.          *)
StartMoves(p, phase) ==
  /\ At(p, phase)
  /\ \E next \in CorePhases :
       /\ cores' = Moved(p, next)
       /\ next \in {"binding", "tcp", "up", "half"} => \/ p \in unwritten'
                                                       \/ tokenFile' = p
                                                       \/ phase \in {"binding", "tcp"}
  /\ UNCHANGED <<plugin, child, client, foreign, unplanned>>
  /\ unwritten' \in {unwritten, unwritten \union {p}}
  /\ tokenFile' \in {tokenFile, Stale, p}
  /\ phase \in {"binding", "tcp"} => UNCHANGED <<unwritten, tokenFile>>

LEMMA StartingMoves ==
  ASSUME NEW p \in Procs, Starting(p)
  PROVE  TcpPortTaken(p) \/ \E phase \in CorePhases : StartMoves(p, phase)
<1>1. CASE OpensTokenFile(p)
  <2>1. StartMoves(p, "starting")
    BY <1>1 DEF OpensTokenFile, StartMoves, CorePhases
  <2> QED
    BY <2>1 DEF CorePhases
<1>2. CASE WritesToken(p)
  <2>1. StartMoves(p, "writing")
    BY <1>2 DEF WritesToken, StartMoves, CorePhases
  <2> QED
    BY <2>1 DEF CorePhases
<1>3. CASE BindsTcp(p)
  <2>1. StartMoves(p, "binding")
    BY <1>3 DEF BindsTcp, StartMoves, CorePhases
  <2> QED
    BY <2>1 DEF CorePhases
<1>4. CASE BindsWs(p)
  <2>1. StartMoves(p, "tcp")
    BY <1>4 DEF BindsWs, StartMoves, CorePhases
  <2> QED
    BY <2>1 DEF CorePhases
<1> QED
  BY <1>1, <1>2, <1>3, <1>4 DEF Starting

LEMMA StartMovesType ==
  ASSUME TypeInv, NEW p \in Procs, NEW phase \in CorePhases, StartMoves(p, phase)
  PROVE  TypeInv'
<1>1. p \in DOMAIN cores
  BY DEF StartMoves, At, Alive
<1>2. PICK next \in CorePhases : cores' = Moved(p, next)
  BY DEF StartMoves
<1>3. CoresOK' /\ DOMAIN cores' = DOMAIN cores
  BY <1>1, <1>2, MovedMoves DEF TypeInv
<1>4. /\ PluginOK' /\ unwritten' \subseteq DOMAIN cores'
      /\ tokenFile' \in DOMAIN cores' \union {NoFile, Stale}
  BY <1>1, <1>3 DEF StartMoves, TypeInv, PluginOK, FilesOK
<1> QED
  BY <1>3, <1>4, CoresGrow DEF StartMoves

-----------------------------------------------------------------------------
(* The client and other programs: types.                                   *)

LEMMA ClientStepsType ==
  ASSUME TypeInv, ClientSteps PROVE TypeInv'
<1>1. client = [step |-> client.step, token |-> client.token, peer |-> client.peer]
  BY DEF TypeInv, ClientOK
<1>2. UNCHANGED <<plugin, child, cores, unwritten, tokenFile, foreign, unplanned>>
  BY DEF ClientSteps, ReadsToken, Dials, Answered, ConnectionLost
<1>3. ClientOK'
  <2>1. CASE ReadsToken
    BY <1>2, <2>1 DEF ReadsToken, TypeInv, FilesOK, ClientOK
  <2>2. CASE Dials
    <3>1. CASE \E p \in TcpHolders : client' = [client EXCEPT !.step = "registering", !.peer = p]
      <4>1. PICK p \in TcpHolders : client' = [client EXCEPT !.step = "registering", !.peer = p]
        BY <3>1
      <4>2. client' = [step |-> "registering", token |-> client.token, peer |-> p]
        BY <1>1, <4>1
      <4> QED
        BY <1>2, <4>2 DEF TcpHolders, TypeInv, ClientOK
    <3>2. CASE client' = [client EXCEPT !.step = "registering", !.peer = Foreign]
      <4>1. client' = [step |-> "registering", token |-> client.token, peer |-> Foreign]
        BY <1>1, <3>2
      <4> QED
        BY <1>2, <4>1 DEF TypeInv, ClientOK
    <3>3. CASE client' = [client EXCEPT !.step = "waiting"]
      <4>1. client' = [step |-> "waiting", token |-> client.token, peer |-> client.peer]
        BY <1>1, <3>3
      <4> QED
        BY <1>2, <4>1 DEF TypeInv, ClientOK
    <3> QED
      BY <2>2, <3>1, <3>2, <3>3 DEF Dials
  <2>3. CASE Answered
    <3>1. \/ client' = [step |-> "connected", token |-> client.token, peer |-> client.peer]
          \/ client' = [step |-> "waiting", token |-> client.token, peer |-> None]
      BY <1>1, <2>3 DEF Answered
    <3> QED
      BY <1>2, <3>1 DEF TypeInv, ClientOK
  <2>4. CASE ConnectionLost
    <3>1. client' = [step |-> "waiting", token |-> client.token, peer |-> client.peer]
      BY <1>1, <2>4 DEF ConnectionLost
    <3> QED
      BY <1>2, <3>1 DEF TypeInv, ClientOK
  <2> QED
    BY <2>1, <2>2, <2>3, <2>4 DEF ClientSteps
<1> QED
  BY <1>2, <1>3, ClientTypeChange DEF TypeInv, FilesOK

LEMMA ForeignType ==
  ASSUME TypeInv, NEW port \in Ports, ForeignTakes(port) \/ ForeignLeaves(port)
  PROVE  /\ TypeInv'
         /\ client'.step = client.step
         /\ client'.peer \in {client.peer, None}
<1>1. client = [step |-> client.step, token |-> client.token, peer |-> client.peer]
  BY DEF TypeInv, ClientOK
<1>2. /\ UNCHANGED <<plugin, child, cores, unwritten, tokenFile, unplanned>>
      /\ foreign' \subseteq Ports
  BY DEF ForeignTakes, ForeignLeaves, TypeInv, FilesOK
<1>3. \/ client' = client
      \/ client' = [step |-> client.step, token |-> client.token,
                    peer |-> IF client.peer = Foreign /\ port = "tcp" THEN None ELSE client.peer]
  BY <1>1 DEF ForeignTakes, ForeignLeaves
<1>4. ClientOK' /\ client'.step = client.step /\ client'.peer \in {client.peer, None}
  BY <1>2, <1>3 DEF TypeInv, ClientOK
<1> QED
  BY <1>2, <1>4, ClientTypeChange

LEMMA TypeInvStep == TypeInv /\ [Next]_vars => TypeInv'
<1> SUFFICES ASSUME TypeInv, [Next]_vars PROVE TypeInv'
  OBVIOUS
<1>1. CASE UNCHANGED vars
  BY <1>1 DEF vars, TypeInv, CoresOK, ClientOK, PluginOK, FilesOK
<1>2. ASSUME NEW p \in Procs, Starting(p) PROVE TypeInv'
  <2>1. CASE TcpPortTaken(p)
    BY <2>1, ProcessEndsType DEF TcpPortTaken, At, Alive
  <2> QED
    BY <1>2, <2>1, StartingMoves, StartMovesType
<1>3. ASSUME NEW p \in Procs, Crashes(p) \/ KillTakesEffect(p) PROVE TypeInv'
  BY <1>3, ProcessEndsType DEF Crashes, KillTakesEffect, Alive
<1> QED
  BY <1>1, <1>2, <1>3, PluginStartsType, RestartType, PluginEndsType, ClientStepsType, ForeignType
  DEF Next

(* Every variable is well typed, with plugins killed or not.               *)
THEOREM LifecycleTypeCorrect == Spec => []TypeOK
<1>1. Init => TypeInv
  BY LifecycleInit DEF PlannedInv
<1> QED
  BY <1>1, TypeInvStep, TypeInvSays, PTL DEF Spec

-----------------------------------------------------------------------------
(* When every plugin runs its shutdown.                                    *)

(* A new child, of a plugin that has none: nobody else is left living.     *)
LEMMA SpawnKeepsPlanned ==
  ASSUME PlannedInv, child = None, plugin', UNCHANGED <<unwritten, tokenFile>>,
         NEW p \in Procs, Spawn(p)
  PROVE  OnlyTheChildLives' /\ WriterOwnsTokenFile'
<1>1. /\ child' = p /\ DOMAIN cores' = DOMAIN cores \union {p} /\ p \notin DOMAIN cores
      /\ cores'[p].phase = "starting"
      /\ \A q \in DOMAIN cores : cores'[q] = cores[q]
  BY SpawnSpawns DEF PlannedInv, TypeInv
<1>2. \A q \in DOMAIN cores : cores[q].killed
  <2>1. \A q \in DOMAIN cores : q # None
    BY LifecycleAssumption DEF PlannedInv, TypeInv, CoresOK
  <2> QED
    BY <2>1 DEF PlannedInv, OnlyTheChildLives
<1>3. OnlyTheChildLives'
  BY <1>1, <1>2 DEF OnlyTheChildLives
<1>4. WriterOwnsTokenFile'
  BY <1>1, <1>2 DEF WriterOwnsTokenFile
<1> QED
  BY <1>3, <1>4

LEMMA PluginStartsPlanned ==
  ASSUME PlannedInv, PluginStarts PROVE PlannedInv'
<1>1. child = None
  BY DEF PluginStarts, PlannedInv, OnlyTheChildLives
<1>2. OnlyTheChildLives' /\ WriterOwnsTokenFile'
  BY <1>1, SpawnKeepsPlanned DEF PluginStarts
<1> QED
  BY <1>2, PluginStartsType, WaitingIsOK DEF PluginStarts, PlannedInv

LEMMA RestartPlanned ==
  ASSUME PlannedInv, Restart PROVE PlannedInv'
<1>1. OnlyTheChildLives' /\ WriterOwnsTokenFile'
  BY SpawnKeepsPlanned DEF Restart
<1>2. ~(client.step = "connected" /\ client.peer # None)
  BY DEF Restart, PlannedInv, PeerIsTheChild
<1>3. PeerIsTheChild'
  BY <1>2 DEF Restart, PeerIsTheChild
<1> QED
  BY <1>1, <1>3, RestartType DEF PlannedInv

LEMMA PluginStopsPlanned ==
  ASSUME PlannedInv, PluginStops PROVE PlannedInv'
<1>1. /\ DOMAIN cores' = DOMAIN cores
      /\ \A p \in DOMAIN cores \ {child} : cores'[p] = cores[p]
      /\ child \in DOMAIN cores => cores'[child].killed
  BY StopSignals DEF PlannedInv
<1>2. \A p \in DOMAIN cores' : cores'[p].killed
  BY <1>1 DEF PlannedInv, OnlyTheChildLives
<1>3. plugin' = FALSE /\ child' = None /\ client' = Waiting
  BY DEF PluginStops, PluginEnds
<1>4. OnlyTheChildLives' /\ WriterOwnsTokenFile'
  BY <1>2, <1>3 DEF OnlyTheChildLives, WriterOwnsTokenFile
<1> QED
  BY <1>3, <1>4, PluginEndsType, WaitingIsOK DEF PlannedInv

LEMMA ProcessEndsPlanned ==
  ASSUME PlannedInv, NEW p \in DOMAIN cores, ProcessEnds(p) PROVE PlannedInv'
<1>1. /\ TypeInv'
      /\ DOMAIN cores' = DOMAIN cores \ {p}
      /\ \A q \in DOMAIN cores' : cores'[q] = cores[q]
      /\ client'.step = client.step
      /\ client'.peer = IF client.peer = p THEN None ELSE client.peer
  BY ProcessEndsType DEF PlannedInv
<1>2. /\ child' = IF child = p THEN None ELSE child
      /\ unwritten' = unwritten \ {p}
      /\ tokenFile' = IF tokenFile = p THEN Stale ELSE tokenFile
      /\ UNCHANGED plugin
  BY DEF ProcessEnds, Ends
<1>3. OnlyTheChildLives'
  BY <1>1, <1>2 DEF PlannedInv, OnlyTheChildLives
<1>4. WriterOwnsTokenFile'
  BY <1>1, <1>2 DEF PlannedInv, WriterOwnsTokenFile
<1>5. PeerIsTheChild'
  BY <1>1, <1>2 DEF PlannedInv, PeerIsTheChild
<1> QED
  BY <1>1, <1>3, <1>4, <1>5 DEF PlannedInv

(* Only the child goes on with its start: nobody else touches the file.    *)
LEMMA StartMovesPlanned ==
  ASSUME PlannedInv, NEW p \in Procs, NEW phase \in CorePhases, StartMoves(p, phase)
  PROVE  PlannedInv'
<1>1. p \in DOMAIN cores /\ ~cores[p].killed /\ cores[p].phase = phase
  BY DEF StartMoves, At, Alive
<1>2. PICK next \in CorePhases :
        /\ cores' = Moved(p, next)
        /\ next \in {"binding", "tcp", "up", "half"} => \/ p \in unwritten'
                                                        \/ tokenFile' = p
                                                        \/ phase \in {"binding", "tcp"}
  BY DEF StartMoves
<1>3. /\ DOMAIN cores' = DOMAIN cores
      /\ cores'[p].phase = next /\ cores'[p].killed = cores[p].killed
      /\ \A q \in DOMAIN cores \ {p} : cores'[q] = cores[q]
  BY <1>1, <1>2, MovedMoves DEF PlannedInv, TypeInv
<1>4. \A q \in DOMAIN cores \ {p} : cores[q].killed
  BY <1>1 DEF PlannedInv, OnlyTheChildLives
<1>5. OnlyTheChildLives'
  BY <1>1, <1>3 DEF StartMoves, PlannedInv, OnlyTheChildLives
<1>6. WriterOwnsTokenFile'
  <2>1. CASE phase \in {"binding", "tcp"}
    <3>1. p \in unwritten' \/ tokenFile' = p
      BY <1>1, <2>1 DEF StartMoves, PlannedInv, WriterOwnsTokenFile
    <3> QED
      BY <1>3, <1>4, <3>1 DEF WriterOwnsTokenFile
  <2>2. CASE phase \notin {"binding", "tcp"}
    BY <1>2, <1>3, <1>4, <2>2 DEF WriterOwnsTokenFile
  <2> QED
    BY <2>1, <2>2
<1>7. PeerIsTheChild'
  BY DEF StartMoves, PlannedInv, PeerIsTheChild
<1> QED
  BY <1>5, <1>6, <1>7, StartMovesType DEF PlannedInv

(* Whoever answers has not been told to end, and so is the child.          *)
LEMMA ClientStepsPlanned ==
  ASSUME PlannedInv, ClientSteps PROVE PlannedInv'
<1>1. UNCHANGED <<plugin, child, cores, unwritten, tokenFile, foreign, unplanned>>
  BY DEF ClientSteps, ReadsToken, Dials, Answered, ConnectionLost
<1>2. client = [step |-> client.step, token |-> client.token, peer |-> client.peer]
  BY DEF PlannedInv, TypeInv, ClientOK
<1>3. PeerIsTheChild'
  <2>1. CASE Answered
    <3>1. client.peer = child
      BY <2>1 DEF Answered, Alive, PlannedInv, OnlyTheChildLives
    <3>2. client'.peer \in {client.peer, None}
      BY <1>2, <2>1 DEF Answered
    <3> QED
      BY <1>1, <3>1, <3>2 DEF PeerIsTheChild
  <2>2. CASE ReadsToken \/ Dials \/ ConnectionLost
    <3>1. client'.step # "connected"
      <4>1. CASE ReadsToken
        BY <4>1 DEF ReadsToken
      <4>2. CASE Dials
        BY <1>2, <4>2 DEF Dials
      <4>3. CASE ConnectionLost
        BY <1>2, <4>3 DEF ConnectionLost
      <4> QED
        BY <2>2, <4>1, <4>2, <4>3
    <3> QED
      BY <3>1 DEF PeerIsTheChild
  <2> QED
    BY <2>1, <2>2 DEF ClientSteps
<1>4. OnlyTheChildLives' /\ WriterOwnsTokenFile'
  BY <1>1 DEF PlannedInv, OnlyTheChildLives, WriterOwnsTokenFile
<1> QED
  BY <1>3, <1>4, ClientStepsType DEF PlannedInv

LEMMA ForeignPlanned ==
  ASSUME PlannedInv, NEW port \in Ports, ForeignTakes(port) \/ ForeignLeaves(port)
  PROVE  PlannedInv'
<1>1. UNCHANGED <<plugin, child, cores, unwritten, tokenFile>>
  BY DEF ForeignTakes, ForeignLeaves
<1>2. TypeInv' /\ client'.step = client.step /\ client'.peer \in {client.peer, None}
  BY ForeignType DEF PlannedInv
<1>3. PeerIsTheChild'
  BY <1>1, <1>2 DEF PlannedInv, PeerIsTheChild
<1> QED
  BY <1>1, <1>2, <1>3 DEF PlannedInv, OnlyTheChildLives, WriterOwnsTokenFile

LEMMA PlannedInvStep ==
  PlannedInv /\ ~unplanned' /\ [Next]_vars => PlannedInv'
<1> SUFFICES ASSUME PlannedInv, ~unplanned', [Next]_vars PROVE PlannedInv'
  OBVIOUS
<1>1. CASE UNCHANGED vars
  <2>1. TypeInv'
    BY <1>1, TypeInvStep DEF PlannedInv
  <2> QED
    BY <1>1, <2>1 DEF vars, PlannedInv, OnlyTheChildLives, WriterOwnsTokenFile, PeerIsTheChild
<1>2. ASSUME NEW p \in Procs, Starting(p) PROVE PlannedInv'
  <2>1. CASE TcpPortTaken(p)
    BY <2>1, ProcessEndsPlanned DEF TcpPortTaken, At, Alive
  <2> QED
    BY <1>2, <2>1, StartingMoves, StartMovesPlanned
<1>3. ASSUME NEW p \in Procs, Crashes(p) \/ KillTakesEffect(p) PROVE PlannedInv'
  BY <1>3, ProcessEndsPlanned DEF Crashes, KillTakesEffect, Alive
<1>4. ~PluginKilled
  BY DEF PluginKilled
<1> QED
  BY <1>1, <1>2, <1>3, <1>4, PluginStartsPlanned, RestartPlanned, PluginStopsPlanned,
     ClientStepsPlanned, ForeignPlanned DEF Next

(* What a plugin that was killed has left stays a fact.                    *)
LEMMA UnplannedStays ==
  TypeInv /\ [Next]_vars /\ unplanned => unplanned'
<1> SUFFICES ASSUME TypeInv, [Next]_vars, unplanned PROVE unplanned'
  OBVIOUS
<1>1. ASSUME NEW p \in Procs, Starting(p) PROVE unplanned'
  BY <1>1 DEF Starting, OpensTokenFile, WritesToken, BindsTcp, TcpPortTaken, BindsWs, ProcessEnds
<1>2. ASSUME NEW p \in Procs, Crashes(p) \/ KillTakesEffect(p) PROVE unplanned'
  BY <1>2 DEF Crashes, KillTakesEffect, ProcessEnds
<1>3. ASSUME ClientSteps PROVE unplanned'
  BY <1>3 DEF ClientSteps, ReadsToken, Dials, Answered, ConnectionLost
<1>4. ASSUME NEW port \in Ports, ForeignTakes(port) \/ ForeignLeaves(port) PROVE unplanned'
  BY <1>4 DEF ForeignTakes, ForeignLeaves
<1>5. ASSUME PluginStarts \/ PluginStops \/ PluginKilled \/ Restart PROVE unplanned'
  BY <1>5 DEF PluginStarts, PluginStops, PluginKilled, Restart
<1>6. CASE UNCHANGED vars
  BY <1>6 DEF vars
<1> QED
  BY <1>1, <1>2, <1>3, <1>4, <1>5, <1>6 DEF Next

LEMMA PlannedInvAlways == Spec => [](~unplanned => PlannedInv)
<1>1. Init => TypeInv /\ (~unplanned => PlannedInv)
  BY LifecycleInit DEF PlannedInv
<1>2. TypeInv /\ (~unplanned => PlannedInv) /\ [Next]_vars
        => TypeInv' /\ (~unplanned' => PlannedInv')
  BY TypeInvStep, PlannedInvStep, UnplannedStays
<1> QED
  BY <1>1, <1>2, PTL DEF Spec

(* With plugins that shut down, a core that listens and could write its    *)
(* token has it in the file: old and new cores never mix their tokens.     *)
THEOREM TokenFileOwned == Spec => []ListenerOwnsTokenFile
<1>1. (~unplanned => PlannedInv) => ListenerOwnsTokenFile
  BY DEF PlannedInv, WriterOwnsTokenFile, ListenerOwnsTokenFile, TcpHolders, Alive
<1> QED
  BY <1>1, PlannedInvAlways, PTL

(* With plugins that shut down, the core the client is registered with is  *)
(* the one its own supervisor runs.                                        *)
THEOREM PeerIsSupervised == Spec => []PeerIsOwnChild
<1>1. (~unplanned => PlannedInv) => PeerIsOwnChild
  BY DEF PlannedInv, PeerIsTheChild, PeerIsOwnChild
<1> QED
  BY <1>1, PlannedInvAlways, PTL
=============================================================================
