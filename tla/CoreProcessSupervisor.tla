----------------------- MODULE CoreProcessSupervisor -----------------------
(***************************************************************************)
(* coreLifecycle/coreProcessSupervisor.ts: the Stream Deck plugin spawns   *)
(* gatoway-core as a child process, restarts it after a delay when it      *)
(* exits, and kills it when the plugin shuts down.                         *)
(*                                                                         *)
(* A process dies in one step and its `exit` event is handled in a later   *)
(* one, so stop() may come between the two; so may it between a timer and  *)
(* its callback.                                                           *)
(***************************************************************************)
EXTENDS Backoff

CONSTANTS
  Pids,        (* names for the processes that exist at one time           *)
  NoChild      (* child = undefined                                        *)

ASSUME PidsAssumption == NoChild \notin Pids

VARIABLES
  started,                (* start() has been called                       *)
  stopping,
  child,                  (* the current child process                     *)
  processes,              (* what each existing child process does         *)
  stable,                 (* stableAfterMs have passed since spawnedAt     *)
  restartAttempt,
  timers,                 (* how many restart timers are running           *)
  cancelPendingRestart,   (* is there a function to cancel the last one?   *)
  delay,                  (* the delay the last restart was given          *)
  spawnFailed             (* a spawn has thrown, or its child never ran    *)

vars == <<started, stopping, child, processes, stable, restartAttempt, timers,
          cancelPendingRestart, delay, spawnFailed>>

(* `spawned` until the operating system has started or refused it, `exited` *)
(* until the plugin has handled its exit event.                            *)
Phases == {"spawned", "running", "killed", "exited"}

Live == {p \in DOMAIN processes : processes[p] # "exited"}

With(p, phase) ==
  [q \in DOMAIN processes \union {p} |-> IF q = p THEN phase ELSE processes[q]]

Without(p) == [q \in DOMAIN processes \ {p} |-> processes[q]]

Init ==
  /\ started = FALSE /\ stopping = FALSE
  /\ child = NoChild
  /\ processes = [p \in {} |-> "exited"]
  /\ stable = FALSE
  /\ restartAttempt = 0
  /\ timers = 0 /\ cancelPendingRestart = FALSE
  /\ delay = 0
  /\ spawnFailed = FALSE

(* spawnNow() when the entry point is found and spawn() returns.           *)
SpawnReturns(p) ==
  /\ p \in Pids \ DOMAIN processes
  /\ processes' = With(p, "spawned")
  /\ child' = p
  /\ stable' = FALSE
  /\ UNCHANGED spawnFailed

(* spawnNow() when locateEntryPoint() or spawnChild() throws: it returns.  *)
SpawnThrows ==
  /\ spawnFailed' = TRUE
  /\ UNCHANGED <<processes, child, stable>>

SpawnNow == (\E p \in Pids : SpawnReturns(p)) \/ SpawnThrows

(* start(), once.                                                          *)
Start ==
  /\ ~started
  /\ started' = TRUE
  /\ stopping' = FALSE
  /\ SpawnNow
  /\ UNCHANGED <<restartAttempt, timers, cancelPendingRestart, delay>>

TimerFires ==
  /\ timers > 0
  /\ timers' = timers - 1
  /\ cancelPendingRestart' = FALSE
  /\ UNCHANGED <<started, stopping, restartAttempt, delay>>

Restart == TimerFires /\ SpawnNow

(* Mutant: the child is left to end by itself.                             *)
StopWithoutKill ==
  /\ started
  /\ stopping' = TRUE
  /\ timers' = IF cancelPendingRestart THEN timers - 1 ELSE timers
  /\ cancelPendingRestart' = FALSE
  /\ UNCHANGED <<started, child, processes, stable, restartAttempt, delay, spawnFailed>>

(* stop(), for every exit or signal that plugin.ts hears of.  The kill is  *)
(* a signal, the process ends later.                                       *)
Stop ==
  /\ started
  /\ stopping' = TRUE
  /\ timers' = IF cancelPendingRestart THEN timers - 1 ELSE timers
  /\ cancelPendingRestart' = FALSE
  /\ processes' = IF child \in Live THEN With(child, "killed") ELSE processes
  /\ UNCHANGED <<started, child, stable, restartAttempt, delay, spawnFailed>>

(* Mutant: the error event schedules a restart, and so does the exit.      *)
LaunchFailsAndRestarts(p) ==
  /\ p \in DOMAIN processes /\ processes[p] = "spawned"
  /\ processes' = With(p, "exited")
  /\ timers' = timers + 1
  /\ UNCHANGED <<started, stopping, child, stable, restartAttempt,
                 cancelPendingRestart, delay, spawnFailed>>

(* The operating system starts the process, or cannot: the child emits     *)
(* `error`, which is only logged, and `exit` may or may not follow.        *)
Launched(p) ==
  /\ p \in DOMAIN processes /\ processes[p] = "spawned"
  /\ processes' = With(p, "running")
  /\ UNCHANGED <<started, stopping, child, stable, restartAttempt, timers,
                 cancelPendingRestart, delay, spawnFailed>>

LaunchFails(p) ==
  /\ p \in DOMAIN processes /\ processes[p] = "spawned"
  /\ \/ processes' = With(p, "exited") /\ UNCHANGED spawnFailed
     \/ processes' = Without(p) /\ spawnFailed' = TRUE
  /\ UNCHANGED <<started, stopping, child, stable, restartAttempt, timers,
                 cancelPendingRestart, delay>>

Dies(p) ==
  /\ p \in DOMAIN processes /\ processes[p] \in {"running", "killed"}
  /\ processes' = With(p, "exited")
  /\ UNCHANGED <<started, stopping, child, stable, restartAttempt, timers,
                 cancelPendingRestart, delay, spawnFailed>>

(* The child has been up for stableAfterMs.                                *)
Ages(p) ==
  /\ p = child
  /\ stable' = TRUE
  /\ UNCHANGED <<started, stopping, child, processes, restartAttempt, timers,
                 cancelPendingRestart, delay, spawnFailed>>

(* Mutant: every exit is the first.                                        *)
FirstAttemptAlways == NextAttempt(0)

(* The attempt an exit counts as: a stable run starts the count over.      *)
AttemptAfterExit == NextAttempt(IF stable THEN 0 ELSE restartAttempt)

(* Mutant: an exit is only logged.                                         *)
HandleExitForGood(p) ==
  /\ p \in DOMAIN processes /\ processes[p] = "exited"
  /\ processes' = Without(p)
  /\ child' = NoChild
  /\ UNCHANGED <<started, stopping, stable, restartAttempt, timers, cancelPendingRestart,
                 delay, spawnFailed>>

(* Mutant: a planned exit is like any other.                               *)
HandleExitRegardless(p) ==
  /\ p \in DOMAIN processes /\ processes[p] = "exited"
  /\ processes' = Without(p)
  /\ child' = NoChild
  /\ restartAttempt' = AttemptAfterExit
  /\ delay' = NextBackoffDelayMs(restartAttempt')
  /\ timers' = timers + 1
  /\ cancelPendingRestart' = TRUE
  /\ UNCHANGED <<started, stopping, stable, spawnFailed>>

HandleExit(p) ==
  /\ p \in DOMAIN processes /\ processes[p] = "exited"
  /\ processes' = Without(p)
  /\ child' = NoChild
  /\ IF stopping
       THEN UNCHANGED <<restartAttempt, timers, cancelPendingRestart, delay>>
       ELSE /\ restartAttempt' = AttemptAfterExit
            /\ delay' = NextBackoffDelayMs(restartAttempt')
            /\ timers' = timers + 1
            /\ cancelPendingRestart' = TRUE
  /\ UNCHANGED <<started, stopping, stable, spawnFailed>>

Next ==
  \/ Start
  \/ Restart
  \/ Stop
  \/ \E p \in Pids :
       Launched(p) \/ LaunchFails(p) \/ Dies(p) \/ Ages(p) \/ HandleExit(p)

(* Timers fire and events are handled; a killed process ends; launching    *)
(* ends one way or the other.  Nothing says that a process ever dies by    *)
(* itself, or that stop() is called.  What can succeed again and again     *)
(* succeeds once: a retried spawn, a launch.                               *)
Fairness ==
  /\ WF_vars(Restart)
  /\ SF_vars(TimerFires /\ \E p \in Pids : SpawnReturns(p))
  /\ \A p \in Pids :
       /\ WF_vars(HandleExit(p))
       /\ WF_vars(Launched(p) \/ LaunchFails(p))
       /\ SF_vars(Launched(p))
       /\ WF_vars(p \in DOMAIN processes /\ processes[p] = "killed" /\ Dies(p))

Spec == Init /\ [][Next]_vars /\ Fairness

-----------------------------------------------------------------------------

TypeOK ==
  /\ {started, stopping, stable, cancelPendingRestart, spawnFailed} \subseteq BOOLEAN
  /\ child \in Pids \union {NoChild}
  /\ DOMAIN processes \subseteq Pids
  /\ \A p \in DOMAIN processes : processes[p] \in Phases
  /\ restartAttempt \in Attempts
  /\ timers \in Nat
  /\ delay \in 0..MaxDelayMs

(* The plugin never runs two gatoway-cores (they would fight for the token *)
(* file and the port), never loses sight of one that runs, and never waits *)
(* to start one while it has one.                                          *)
OneSupervisedCore ==
  /\ \A p \in DOMAIN processes : p = child
  /\ timers > 0 => timers = 1 /\ DOMAIN processes = {}

(* Once stop() was called nothing is started any more, and the core that   *)
(* still runs has been told to end: whatever event was on its way.         *)
StopIsFinal ==
  stopping => timers = 0 /\ \A p \in Live : processes[p] = "killed"

(* Until stop() or a failed spawn, the core runs or is about to be run: no *)
(* exit goes by without a restart.                                         *)
AlwaysSupervised ==
  (started /\ ~stopping /\ ~spawnFailed) => (DOMAIN processes # {} \/ timers > 0)

(* A crash loop backs off: a restart is never sooner than the one before,  *)
(* unless the core had been stable, and the waits reach the upper bound in *)
(* as many restarts as the doubling takes.                                 *)
CrashLoopBacksOff ==
  [][timers' > timers =>
       /\ delay' >= InitialDelayMs
       /\ ~stable => (delay' >= 2 * delay \/ delay' = MaxDelayMs)]_vars

(* After stop() no core is left running, even one just being launched.     *)
StopEndsTheCore == stopping ~> (Live = {})

(* A core that exits is replaced by a running one, unless the plugin stops *)
(* or a spawn fails in the meantime.                                       *)
ExitIsFollowedByRestart ==
  \A p \in Pids :
    (p \in DOMAIN processes /\ processes[p] = "exited") ~>
      (stopping \/ spawnFailed \/ \E q \in DOMAIN processes : processes[q] = "running")

(* The lifecycle specification's scenario: "WHEN the Gatoway core child    *)
(* process exits unexpectedly while the Stream Deck plugin is still        *)
(* running THEN the Stream Deck plugin spawns a new Gatoway core child     *)
(* process after a backoff delay".  spawnNow() gives up for good when one  *)
(* attempt throws, and when a launch fails without an exit event.          *)
UnexpectedExitTriggersRestart ==
  \A p \in Pids :
    (~stopping /\ p \in DOMAIN processes /\ processes[p] = "exited") ~>
      (stopping \/ \E q \in DOMAIN processes : processes[q] = "running")
=============================================================================
