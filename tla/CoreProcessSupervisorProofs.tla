-------------------- MODULE CoreProcessSupervisorProofs --------------------
(***************************************************************************)
(* Theorems about CoreProcessSupervisor, for any number of processes that  *)
(* may exist at one time: the plugin supervises one core, stops for good,  *)
(* and backs off in a crash loop.                                          *)
(*                                                                         *)
(* One invariant carries all of them: a process, a restart timer or a      *)
(* failed spawn, and never two of the first two.                           *)
(***************************************************************************)
EXTENDS CoreProcessSupervisor, TLAPS

-----------------------------------------------------------------------------
(* What backoff.ts returns, attempt by attempt.                            *)

LEMMA DelaysAreNat == InitialDelayMs \in Nat /\ MaxDelayMs \in Nat
  BY DEF InitialDelayMs, MaxDelayMs

LEMMA DelayTable ==
  /\ NextBackoffDelayMs(0) = 1000 /\ NextBackoffDelayMs(1) = 1000
  /\ NextBackoffDelayMs(2) = 2000 /\ NextBackoffDelayMs(3) = 4000
  /\ NextBackoffDelayMs(4) = 8000 /\ NextBackoffDelayMs(5) = 16000
  /\ NextBackoffDelayMs(6) = 30000
<1>1. /\ 2 ^ 0 = 1 /\ 2 ^ 1 = 2 /\ 2 ^ 2 = 4 /\ 2 ^ 3 = 8 /\ 2 ^ 4 = 16 /\ 2 ^ 5 = 32
  OBVIOUS
<1>2. NextBackoffDelayMs(0) = 1000 /\ NextBackoffDelayMs(1) = 1000
  BY <1>1 DEF NextBackoffDelayMs, InitialDelayMs, MaxDelayMs
<1>3. NextBackoffDelayMs(2) = 2000 /\ NextBackoffDelayMs(3) = 4000
  BY <1>1 DEF NextBackoffDelayMs, InitialDelayMs, MaxDelayMs
<1>4. NextBackoffDelayMs(4) = 8000 /\ NextBackoffDelayMs(5) = 16000
  BY <1>1 DEF NextBackoffDelayMs, InitialDelayMs, MaxDelayMs
<1>5. NextBackoffDelayMs(6) = 30000
  BY <1>1 DEF NextBackoffDelayMs, InitialDelayMs, MaxDelayMs
<1> QED
  BY <1>2, <1>3, <1>4, <1>5

LEMMA AttemptCases ==
  ASSUME NEW attempt \in Attempts
  PROVE  attempt \in {0, 1, 2, 3, 4, 5, 6}
  BY DEF Attempts, SaturatedAttempt

(* The next attempt waits twice as long, or as long as any.                *)
LEMMA DelayDoubles ==
  ASSUME NEW attempt \in Attempts
  PROVE  /\ NextAttempt(attempt) \in Attempts \ {0}
         /\ NextBackoffDelayMs(NextAttempt(attempt)) \in InitialDelayMs..MaxDelayMs
         /\ \/ attempt = 0
            \/ NextBackoffDelayMs(NextAttempt(attempt)) = MaxDelayMs
            \/ NextBackoffDelayMs(NextAttempt(attempt)) = 2 * NextBackoffDelayMs(attempt)
<1>1. NextAttempt(attempt) = IF attempt = 6 THEN 6 ELSE attempt + 1
  BY DEF NextAttempt, SaturatedAttempt
<1>2. \/ attempt = 0 /\ NextAttempt(attempt) = 1
      \/ attempt = 1 /\ NextAttempt(attempt) = 2
      \/ attempt = 2 /\ NextAttempt(attempt) = 3
      \/ attempt = 3 /\ NextAttempt(attempt) = 4
      \/ attempt = 4 /\ NextAttempt(attempt) = 5
      \/ attempt = 5 /\ NextAttempt(attempt) = 6
      \/ attempt = 6 /\ NextAttempt(attempt) = 6
  BY <1>1, AttemptCases
<1>3. NextAttempt(attempt) \in Attempts \ {0}
  BY <1>2 DEF Attempts, SaturatedAttempt
<1>4. \/ attempt = 0 /\ NextBackoffDelayMs(NextAttempt(attempt)) = 1000
      \/ attempt = 1 /\ NextBackoffDelayMs(NextAttempt(attempt)) = 2000
      \/ attempt = 2 /\ NextBackoffDelayMs(NextAttempt(attempt)) = 4000
      \/ attempt = 3 /\ NextBackoffDelayMs(NextAttempt(attempt)) = 8000
      \/ attempt = 4 /\ NextBackoffDelayMs(NextAttempt(attempt)) = 16000
      \/ NextBackoffDelayMs(NextAttempt(attempt)) = 30000
  BY <1>2, DelayTable
<1>5. NextBackoffDelayMs(NextAttempt(attempt)) \in InitialDelayMs..MaxDelayMs
  <2>1. /\ NextBackoffDelayMs(NextAttempt(attempt)) \in Nat
        /\ InitialDelayMs <= NextBackoffDelayMs(NextAttempt(attempt))
        /\ NextBackoffDelayMs(NextAttempt(attempt)) <= MaxDelayMs
    BY <1>4 DEF InitialDelayMs, MaxDelayMs
  <2> QED
    BY <2>1, DelaysAreNat
<1>6. \/ attempt = 0
      \/ NextBackoffDelayMs(NextAttempt(attempt)) = MaxDelayMs
      \/ NextBackoffDelayMs(NextAttempt(attempt)) = 2 * NextBackoffDelayMs(attempt)
  BY <1>4, DelayTable DEF MaxDelayMs
<1> QED
  BY <1>3, <1>5, <1>6

-----------------------------------------------------------------------------
(* The inductive invariant.                                                *)

(* TypeOK with its flags taken one by one.                                 *)
FlagsOK ==
  /\ started \in BOOLEAN /\ stopping \in BOOLEAN /\ stable \in BOOLEAN
  /\ cancelPendingRestart \in BOOLEAN /\ spawnFailed \in BOOLEAN

RestOK ==
  /\ child \in Pids \union {NoChild}
  /\ DOMAIN processes \subseteq Pids
  /\ \A p \in DOMAIN processes : processes[p] \in Phases
  /\ restartAttempt \in Attempts
  /\ timers \in Nat
  /\ delay \in 0..MaxDelayMs

LEMMA TypeParts == TypeOK <=> FlagsOK /\ RestOK
<1>1. {started, stopping, stable, cancelPendingRestart, spawnFailed} \subseteq BOOLEAN <=> FlagsOK
  BY Zenon DEF FlagsOK
<1> QED
  BY <1>1 DEF TypeOK, RestOK

(* Before start() there is nothing, and nothing can be cancelled that is   *)
(* not there.                                                              *)
NothingBeforeStart ==
  ~started => DOMAIN processes = {} /\ timers = 0 /\ ~stopping

TimerIsCancellable == cancelPendingRestart <=> timers > 0

(* The last delay is the one of the last attempt.                          *)
DelayOfAttempt ==
  delay = IF restartAttempt = 0 THEN 0 ELSE NextBackoffDelayMs(restartAttempt)

ProcessesMap == processes = [p \in DOMAIN processes |-> processes[p]]

SupervisorInv ==
  /\ FlagsOK
  /\ RestOK
  /\ ProcessesMap
  /\ OneSupervisedCore
  /\ StopIsFinal
  /\ AlwaysSupervised
  /\ NothingBeforeStart
  /\ TimerIsCancellable
  /\ DelayOfAttempt

LEMMA SupervisorInvInit == Init => SupervisorInv
<1> SUFFICES ASSUME Init PROVE SupervisorInv
  OBVIOUS
<1>1. DOMAIN processes = {} /\ ProcessesMap
  BY DEF Init, ProcessesMap
<1>2. FlagsOK
  BY DEF Init, FlagsOK
<1>3. timers \in Nat /\ delay \in 0..MaxDelayMs /\ restartAttempt \in Attempts
  BY DelaysAreNat DEF Init, Attempts, SaturatedAttempt
<1>4. RestOK
  BY <1>1, <1>3 DEF Init, RestOK
<1> QED
  BY <1>1, <1>2, <1>4 DEF Init, SupervisorInv, OneSupervisedCore, StopIsFinal, AlwaysSupervised,
     NothingBeforeStart, TimerIsCancellable, DelayOfAttempt

(* What the processes are after With and Without.                          *)
LEMMA WithP ==
  ASSUME NEW p, NEW phase, processes' = With(p, phase)
  PROVE  /\ DOMAIN processes' = DOMAIN processes \union {p}
         /\ ProcessesMap'
         /\ processes'[p] = phase
         /\ \A q \in DOMAIN processes \ {p} : processes'[q] = processes[q]
<1>1. processes' = [q \in DOMAIN processes \union {p} |-> IF q = p THEN phase ELSE processes[q]]
  BY DEF With
<1> QED
  BY <1>1 DEF ProcessesMap

LEMMA WithoutP ==
  ASSUME NEW p, processes' = Without(p)
  PROVE  /\ DOMAIN processes' = DOMAIN processes \ {p}
         /\ ProcessesMap'
         /\ \A q \in DOMAIN processes' : processes'[q] = processes[q]
<1>1. processes' = [q \in DOMAIN processes \ {p} |-> processes[q]]
  BY DEF Without
<1> QED
  BY <1>1 DEF ProcessesMap

(* A step that changes the processes only to p's new phase, which counts   *)
(* as live only if p did not have to end.                                  *)
LEMMA PhaseChange ==
  ASSUME SupervisorInv, NEW p \in DOMAIN processes, NEW phase \in Phases,
         processes' = With(p, phase),
         stopping => phase \in {"killed", "exited"},
         UNCHANGED <<started, stopping, child, stable, restartAttempt, timers,
                     cancelPendingRestart, delay, spawnFailed>>
  PROVE  SupervisorInv'
<1>1. /\ DOMAIN processes' = DOMAIN processes
      /\ ProcessesMap'
      /\ processes'[p] = phase
  BY WithP
<1>2. \A q \in DOMAIN processes : q = p
  BY DEF SupervisorInv, OneSupervisedCore
<1>3. (FlagsOK /\ RestOK)'
  BY <1>1, <1>2 DEF SupervisorInv, FlagsOK, RestOK
<1>4. OneSupervisedCore' /\ AlwaysSupervised' /\ NothingBeforeStart'
  BY <1>1 DEF SupervisorInv, OneSupervisedCore, AlwaysSupervised, NothingBeforeStart
<1>5. StopIsFinal'
  BY <1>1, <1>2 DEF SupervisorInv, StopIsFinal, Live, Phases
<1> QED
  BY <1>1, <1>3, <1>4, <1>5 DEF SupervisorInv, TimerIsCancellable, DelayOfAttempt

(* spawnNow() with nothing there yet, not after stop(): one process, or a  *)
(* failed spawn.                                                           *)
LEMMA SpawnKeepsInv ==
  ASSUME SupervisorInv, SpawnNow, DOMAIN processes = {},
         started', ~stopping', started' \in BOOLEAN, stopping' \in BOOLEAN,
         timers' = 0, ~cancelPendingRestart', cancelPendingRestart' \in BOOLEAN,
         UNCHANGED <<restartAttempt, delay>>
  PROVE  SupervisorInv'
<1>1. CASE SpawnThrows
  BY <1>1 DEF SpawnThrows, SupervisorInv, FlagsOK, RestOK, ProcessesMap, OneSupervisedCore, StopIsFinal,
     AlwaysSupervised, NothingBeforeStart, TimerIsCancellable, DelayOfAttempt
<1>2. ASSUME NEW p \in Pids, SpawnReturns(p)
      PROVE  SupervisorInv'
  <2>1. /\ DOMAIN processes' = {p}
        /\ ProcessesMap'
        /\ processes'[p] = "spawned"
        /\ child' = p /\ stable' = FALSE /\ spawnFailed' = spawnFailed
    BY <1>2, WithP DEF SpawnReturns
  <2>2. (FlagsOK /\ RestOK)'
    BY <2>1 DEF SupervisorInv, FlagsOK, RestOK, Phases
  <2> QED
    BY <2>1, <2>2 DEF SupervisorInv, OneSupervisedCore, StopIsFinal, AlwaysSupervised,
       NothingBeforeStart, TimerIsCancellable, DelayOfAttempt
<1> QED
  BY <1>1, <1>2 DEF SpawnNow

-----------------------------------------------------------------------------
(* Each step keeps the invariant.                                          *)

LEMMA StartKeepsInv == SupervisorInv /\ Start => SupervisorInv'
<1> SUFFICES ASSUME SupervisorInv, Start PROVE SupervisorInv'
  OBVIOUS
<1>1. DOMAIN processes = {} /\ timers = 0 /\ ~cancelPendingRestart
  BY DEF Start, SupervisorInv, NothingBeforeStart, TimerIsCancellable
<1> QED
  BY <1>1, SpawnKeepsInv DEF Start, SupervisorInv, FlagsOK, RestOK

LEMMA RestartKeepsInv == SupervisorInv /\ Restart => SupervisorInv'
<1> SUFFICES ASSUME SupervisorInv, Restart PROVE SupervisorInv'
  OBVIOUS
<1>1. timers = 1 /\ DOMAIN processes = {} /\ ~stopping /\ started
  BY DEF Restart, TimerFires, SupervisorInv, FlagsOK, RestOK, OneSupervisedCore, StopIsFinal,
         NothingBeforeStart
<1>2. /\ timers' = 0 /\ cancelPendingRestart' = FALSE
      /\ UNCHANGED <<started, stopping, restartAttempt, delay>>
      /\ SpawnNow
  BY <1>1 DEF Restart, TimerFires
<1>3. started' \in BOOLEAN /\ stopping' \in BOOLEAN /\ started' /\ ~stopping'
  BY <1>1, <1>2 DEF SupervisorInv, FlagsOK
<1> QED
  BY <1>1, <1>2, <1>3, SpawnKeepsInv

LEMMA StopKeepsInv == SupervisorInv /\ Stop => SupervisorInv'
<1> SUFFICES ASSUME SupervisorInv, Stop PROVE SupervisorInv'
  OBVIOUS
<1>1. timers' = 0 /\ cancelPendingRestart' = FALSE
  BY DEF Stop, SupervisorInv, FlagsOK, RestOK, OneSupervisedCore, TimerIsCancellable
<1>2. /\ DOMAIN processes' = DOMAIN processes
      /\ ProcessesMap'
      /\ \A p \in DOMAIN processes : processes'[p] \in {"killed", "exited"}
  <2>1. \A p \in DOMAIN processes : p = child
    BY DEF SupervisorInv, OneSupervisedCore
  <2>2. CASE child \in Live
    <3>1. child \in DOMAIN processes /\ processes' = With(child, "killed")
      BY <2>2 DEF Stop, Live
    <3>2. /\ DOMAIN processes' = DOMAIN processes \union {child}
          /\ ProcessesMap' /\ processes'[child] = "killed"
      BY <3>1, WithP
    <3> QED
      BY <2>1, <3>1, <3>2
  <2>3. CASE child \notin Live
    BY <2>1, <2>3 DEF Stop, Live, SupervisorInv, ProcessesMap
  <2> QED
    BY <2>2, <2>3
<1>3. FlagsOK'
  BY <1>1 DEF Stop, SupervisorInv, FlagsOK
<1>4. RestOK'
  BY <1>1, <1>2 DEF Stop, SupervisorInv, RestOK, Phases
<1>5. StopIsFinal'
  BY <1>1, <1>2 DEF StopIsFinal, Live
<1> QED
  BY <1>1, <1>2, <1>3, <1>4, <1>5 DEF Stop, SupervisorInv, OneSupervisedCore, AlwaysSupervised,
     NothingBeforeStart, TimerIsCancellable, DelayOfAttempt

LEMMA LaunchedKeepsInv ==
  ASSUME SupervisorInv, NEW p \in Pids, Launched(p) PROVE SupervisorInv'
<1>1. ~stopping
  BY DEF Launched, SupervisorInv, StopIsFinal, Live
<1> QED
  BY <1>1, PhaseChange DEF Launched, Phases

LEMMA LaunchFailsKeepsInv ==
  ASSUME SupervisorInv, NEW p \in Pids, LaunchFails(p) PROVE SupervisorInv'
<1>1. CASE processes' = With(p, "exited") /\ UNCHANGED spawnFailed
  BY <1>1, PhaseChange DEF LaunchFails, Phases
<1>2. CASE processes' = Without(p) /\ spawnFailed' = TRUE
  <2>1. /\ DOMAIN processes' = DOMAIN processes \ {p}
        /\ ProcessesMap'
        /\ \A q \in DOMAIN processes' : processes'[q] = processes[q]
    BY <1>2, WithoutP
  <2>2. (FlagsOK /\ RestOK)'
    BY <1>2, <2>1 DEF LaunchFails, SupervisorInv, FlagsOK, RestOK
  <2> QED
    BY <1>2, <2>1, <2>2 DEF LaunchFails, SupervisorInv, OneSupervisedCore, StopIsFinal, Live,
       AlwaysSupervised, NothingBeforeStart, TimerIsCancellable, DelayOfAttempt
<1> QED
  BY <1>1, <1>2 DEF LaunchFails

LEMMA DiesKeepsInv ==
  ASSUME SupervisorInv, NEW p \in Pids, Dies(p) PROVE SupervisorInv'
  BY PhaseChange DEF Dies, Phases

LEMMA AgesKeepsInv ==
  ASSUME SupervisorInv, NEW p \in Pids, Ages(p) PROVE SupervisorInv'
  BY DEF Ages, SupervisorInv, FlagsOK, RestOK, ProcessesMap, OneSupervisedCore, StopIsFinal, Live,
         AlwaysSupervised, NothingBeforeStart, TimerIsCancellable, DelayOfAttempt

LEMMA LongerThanNone ==
  ASSUME NEW wait \in InitialDelayMs..MaxDelayMs, NEW before, before = 0
  PROVE  wait >= 2 * before
  BY DelaysAreNat

(* The attempt an exit counts as, and its delay.                           *)
LEMMA ExitAttempt ==
  ASSUME SupervisorInv,
         NEW next, next = AttemptAfterExit,
         NEW wait, wait = NextBackoffDelayMs(next)
  PROVE  /\ next \in Attempts \ {0}
         /\ wait \in InitialDelayMs..MaxDelayMs
         /\ ~stable => (wait >= 2 * delay \/ wait = MaxDelayMs)
<1> DEFINE attempt == IF stable THEN 0 ELSE restartAttempt
<1>1. attempt \in Attempts /\ next = NextAttempt(attempt)
  BY DEF SupervisorInv, RestOK, Attempts, SaturatedAttempt, AttemptAfterExit
<1>2. ~stable => attempt = restartAttempt
  OBVIOUS
<1> HIDE DEF attempt
<1>3. /\ next \in Attempts \ {0}
      /\ wait \in InitialDelayMs..MaxDelayMs
      /\ attempt = 0 \/ wait = MaxDelayMs \/ wait = 2 * NextBackoffDelayMs(attempt)
  BY <1>1, DelayDoubles
<1>4. delay = IF restartAttempt = 0 THEN 0 ELSE NextBackoffDelayMs(restartAttempt)
  BY DEF SupervisorInv, DelayOfAttempt
<1>5. ASSUME ~stable
      PROVE  wait >= 2 * delay \/ wait = MaxDelayMs
  <2>1. CASE restartAttempt = 0
    <3>1. delay = 0
      BY <2>1, <1>4
    <3> QED
      BY <3>1, <1>3, LongerThanNone
  <2>2. CASE restartAttempt # 0
    <3>1. wait = MaxDelayMs \/ wait = 2 * delay
      BY <2>2, <1>2, <1>3, <1>4, <1>5
    <3>2. delay \in Nat
      BY DelaysAreNat DEF SupervisorInv, RestOK
    <3>3. wait = 2 * delay => wait >= 2 * delay
      BY <3>2
    <3> QED
      BY <3>1, <3>3
  <2> QED
    BY <2>1, <2>2
<1> QED
  BY <1>3, <1>5

LEMMA HandleExitKeepsInv ==
  ASSUME SupervisorInv, NEW p \in Pids, HandleExit(p) PROVE SupervisorInv'
<1>1. /\ DOMAIN processes' = {}
      /\ ProcessesMap'
      /\ timers = 0 /\ ~cancelPendingRestart /\ child' = NoChild /\ started
  <2>1. p \in DOMAIN processes /\ processes' = Without(p) /\ child' = NoChild
    BY DEF HandleExit
  <2>2. DOMAIN processes = {p}
    BY <2>1 DEF SupervisorInv, OneSupervisedCore
  <2>3. DOMAIN processes' = {} /\ ProcessesMap'
    BY <2>1, <2>2, WithoutP
  <2> QED
    BY <2>1, <2>2, <2>3 DEF SupervisorInv, FlagsOK, RestOK, OneSupervisedCore, TimerIsCancellable,
       NothingBeforeStart
<1>2. CASE stopping
  BY <1>1, <1>2 DEF HandleExit, SupervisorInv, FlagsOK, RestOK, OneSupervisedCore, StopIsFinal, Live,
     AlwaysSupervised, NothingBeforeStart, TimerIsCancellable, DelayOfAttempt
<1>3. CASE ~stopping
  <2>1. /\ restartAttempt' = AttemptAfterExit
        /\ delay' = NextBackoffDelayMs(restartAttempt')
        /\ timers' = 1 /\ cancelPendingRestart' = TRUE
        /\ UNCHANGED <<started, stopping, stable, spawnFailed>>
    BY <1>1, <1>3 DEF HandleExit
  <2>2. restartAttempt' \in Attempts \ {0} /\ delay' \in 0..MaxDelayMs
    <3>1. /\ AttemptAfterExit \in Attempts \ {0}
          /\ NextBackoffDelayMs(AttemptAfterExit) \in InitialDelayMs..MaxDelayMs
      BY ExitAttempt
    <3>2. restartAttempt' \in Attempts \ {0} /\ delay' \in InitialDelayMs..MaxDelayMs
      BY <2>1, <3>1
    <3> QED
      BY <3>2, DelaysAreNat
  <2>3. (FlagsOK /\ RestOK)'
    BY <1>1, <2>1, <2>2 DEF SupervisorInv, FlagsOK, RestOK
  <2> QED
    BY <1>1, <1>3, <2>1, <2>2, <2>3 DEF SupervisorInv, OneSupervisedCore, StopIsFinal,
       AlwaysSupervised, NothingBeforeStart, TimerIsCancellable, DelayOfAttempt
<1> QED
  BY <1>2, <1>3

LEMMA StutterKeepsInv == SupervisorInv /\ UNCHANGED vars => SupervisorInv'
  BY DEF vars, SupervisorInv, FlagsOK, RestOK, ProcessesMap, OneSupervisedCore, StopIsFinal, Live,
         AlwaysSupervised, NothingBeforeStart, TimerIsCancellable, DelayOfAttempt

LEMMA SupervisorInvStep == SupervisorInv /\ [Next]_vars => SupervisorInv'
<1> SUFFICES ASSUME SupervisorInv, [Next]_vars PROVE SupervisorInv'
  OBVIOUS
<1>1. ASSUME NEW p \in Pids, Launched(p) \/ LaunchFails(p) \/ Dies(p) \/ Ages(p) \/ HandleExit(p)
      PROVE  SupervisorInv'
  BY <1>1, LaunchedKeepsInv, LaunchFailsKeepsInv, DiesKeepsInv, AgesKeepsInv, HandleExitKeepsInv
<1> QED
  BY <1>1, StartKeepsInv, RestartKeepsInv, StopKeepsInv, StutterKeepsInv DEF Next

LEMMA SupervisorInvAlways == Spec => []SupervisorInv
  BY SupervisorInvInit, SupervisorInvStep, PTL DEF Spec

-----------------------------------------------------------------------------
(* The theorems.                                                           *)

(* Whatever the processes do and however many of them may exist, every     *)
(* variable of the supervisor is well typed; no delay is beyond the bound. *)
THEOREM SupervisorTypeCorrect == Spec => []TypeOK
<1>1. SupervisorInv => TypeOK
  BY TypeParts DEF SupervisorInv
<1> QED
  BY <1>1, SupervisorInvAlways, PTL

(* The plugin never runs two cores, and never waits to start one while it  *)
(* has one.                                                                *)
THEOREM OneCore == Spec => []OneSupervisedCore
<1>1. SupervisorInv => OneSupervisedCore
  BY DEF SupervisorInv
<1> QED
  BY <1>1, SupervisorInvAlways, PTL

(* After stop() nothing is started, and what still runs was told to end.   *)
THEOREM StopFinal == Spec => []StopIsFinal
<1>1. SupervisorInv => StopIsFinal
  BY DEF SupervisorInv
<1> QED
  BY <1>1, SupervisorInvAlways, PTL

(* Until stop() or a failed spawn, a core runs or is about to be started.  *)
THEOREM NeverUnsupervised == Spec => []AlwaysSupervised
<1>1. SupervisorInv => AlwaysSupervised
  BY DEF SupervisorInv
<1> QED
  BY <1>1, SupervisorInvAlways, PTL

(* Only an exit starts a restart timer, with the delay of its attempt.     *)
LEMMA TimersBackOff ==
  ASSUME SupervisorInv, Next, timers' > timers
  PROVE  /\ delay' >= InitialDelayMs
         /\ ~stable => (delay' >= 2 * delay \/ delay' = MaxDelayMs)
<1>1. timers \in Nat
  BY DEF SupervisorInv, FlagsOK, RestOK
<1>2. PICK p \in Pids : HandleExit(p) /\ ~stopping
  BY <1>1 DEF Next, Start, Restart, TimerFires, Stop, Launched, LaunchFails, Dies, Ages, HandleExit
<1>3. restartAttempt' = AttemptAfterExit /\ delay' = NextBackoffDelayMs(restartAttempt')
  BY <1>2 DEF HandleExit
<1>4. /\ delay' \in InitialDelayMs..MaxDelayMs
      /\ ~stable => (delay' >= 2 * delay \/ delay' = MaxDelayMs)
  BY <1>3, ExitAttempt
<1> QED
  BY <1>4, DelaysAreNat

(* Restarts of a core that keeps crashing are spaced out, up to the bound. *)
THEOREM CrashLoopSpaced == Spec => CrashLoopBacksOff
<1>1. SupervisorInv /\ [Next]_vars =>
        [timers' > timers =>
           /\ delay' >= InitialDelayMs
           /\ ~stable => (delay' >= 2 * delay \/ delay' = MaxDelayMs)]_vars
  BY TimersBackOff
<1> QED
  BY <1>1, SupervisorInvAlways, PTL DEF Spec, CrashLoopBacksOff
=============================================================================
