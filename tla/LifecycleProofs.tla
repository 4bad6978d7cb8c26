---------------------------- MODULE LifecycleProofs ---------------------------
(***************************************************************************)
(* TLAPS proof that Reducer implements Lifecycle: every event, whatever    *)
(* its order, moves each service by one step of the promised life cycle    *)
(* or not at all.                                                          *)
(***************************************************************************)
EXTENDS ReducerProofs

(* What Lifecycle sees of the services other than svc does not move.       *)
OthersRest(svc) ==
    \A t \in Service \ {svc} :
        state'[t] = state[t] /\ desired'[t] = desired[t] /\ retry_count'[t] = retry_count[t]

LEMMA LifeOfOne ==
    ASSUME NEW svc \in Service, OthersRest(svc), Life!Step(svc) \/ Life!Rest(svc)
    PROVE  Life!Next
<1>1. ASSUME NEW t \in Service \ {svc} PROVE Life!Rest(t)
  BY DEF OthersRest, Life!Rest, Life!Keep
<1> QED
  BY <1>1 DEF Life!Next

LEMMA LifeOfNone ==
    ASSUME UNCHANGED <<state, desired, retry_count>>
    PROVE  Life!Next
BY DEF Life!Next, Life!Rest, Life!Keep

LEMMA LifeOfIgnored ==
    ASSUME ignored
    PROVE  Life!Next
BY LifeOfNone DEF ignored, app, status

(* An attempt ends in Starting or Error.                                   *)
LEMMA AttemptMoves ==
    ASSUME IInv, NEW svc \in Service, NEW err \in BOOLEAN, NEW then, begin_start(svc, err, then)
    PROVE  /\ state'[svc] \in {"Starting", "Error"}
           /\ \A t \in Service \ {svc} : state'[t] = state[t]
BY BeginStart DEF IInv

(* StartService and RestartService of a service that is down; the restart  *)
(* that ends a stop.                                                       *)
LEMMA LifeOfFreshAttempt ==
    ASSUME IInv, NEW svc \in Service, NEW err \in BOOLEAN, NEW then, begin_start(svc, err, then),
           state[svc] \in Startable \/ (state[svc] = "Stopping" /\ desired[svc] = "Running"),
           desired' = [desired EXCEPT ![svc] = "Running"],
           retry_count' = [retry_count EXCEPT ![svc] = 0]
    PROVE  Life!Next
<1>1. /\ state'[svc] \in {"Starting", "Error"} /\ desired'[svc] = "Running" /\ retry_count'[svc] = 0
      /\ OthersRest(svc)
  BY AttemptMoves DEF IInv, StateTyped, OthersRest
<1>2. CASE state[svc] \in Startable
  BY <1>1, <1>2, LifeOfOne, RetryAssumption
     DEF Startable, Life!Step, Life!Start, Life!Attempted, Life!Down
<1>3. CASE state[svc] = "Stopping" /\ desired[svc] = "Running"
  BY <1>1, <1>3, LifeOfOne, RetryAssumption DEF Life!Step, Life!Restarted, Life!Attempted
<1> QED
  BY <1>2, <1>3

LEMMA LifeOfCrash ==
    ASSUME IInv, NEW svc \in Service, state[svc] \in Active, crash_and_retry(svc)
    PROVE  Life!Next
<1>1. /\ desired[svc] = "Running" /\ StateTyped
      /\ retry_count[svc] \in Nat /\ retry_count[svc] <= MAX_RETRIES
  BY DEF IInv, LocalInv, StateTyped
<1>2. UNCHANGED desired
  BY DEF crash_and_retry
<1>3. CASE may_retry(svc)
  <2>1. /\ state' = [state EXCEPT ![svc] = "Crashed"]
        /\ retry_count' = [retry_count EXCEPT ![svc] = @ + 1]
    BY <1>1, <1>3 DEF crash_and_retry, leave_to
  <2>2. OthersRest(svc)
    BY <1>1, <1>2, <2>1 DEF OthersRest, StateTyped
  <2>3. Life!Crash(svc)
    BY <1>1, <1>2, <1>3, <2>1, RetryAssumption
       DEF StateTyped, may_retry, Active, Life!Crash, Life!Up
  <2> QED
    BY <2>2, <2>3, LifeOfOne DEF Life!Step
<1>4. CASE ~may_retry(svc)
  <2>1. /\ state' = [state EXCEPT ![svc] = "Error"]
        /\ retry_count' = [retry_count EXCEPT ![svc] = @]
    BY <1>1, <1>4 DEF crash_and_retry, leave_to
  <2>2. OthersRest(svc)
    BY <1>1, <1>2, <2>1 DEF OthersRest, StateTyped
  <2>3. Life!GiveUp(svc)
    BY <1>1, <1>2, <1>4, <2>1, RetryAssumption
       DEF StateTyped, may_retry, Active, Life!GiveUp, Life!Up, Life!Keep
  <2> QED
    BY <2>2, <2>3, LifeOfOne DEF Life!Step
<1> QED
  BY <1>3, <1>4

(* Anything may fail: ProcessSpawnFailed, FatalError, PortConflictDetected.*)
LEMMA LifeOfFailure ==
    ASSUME IInv, NEW svc \in Service, leave_to(svc, "Error"), UNCHANGED <<desired, retry_count>>
    PROVE  Life!Next
<1>1. state'[svc] = "Error" /\ OthersRest(svc)
  BY DEF IInv, StateTyped, leave_to, OthersRest
<1> QED
  BY <1>1, LifeOfOne DEF Life!Step, Life!Fail, Life!Keep

-------------------------------------------------------------------------------
LEMMA LifeOfCommands ==
    ASSUME IInv, NEW svc \in Service,
           StartService(svc) \/ StopService(svc) \/ RestartService(svc) \/ DismissError(svc)
    PROVE  Life!Next
<1>0. StateTyped
  BY DEF IInv
<1>1. CASE StartService(svc)
  <2>1. CASE state[svc] \in Startable
    BY <1>1, <2>1, LifeOfFreshAttempt DEF StartService
  <2>2. CASE state[svc] \notin Startable
    BY <1>1, <2>2, LifeOfIgnored DEF StartService
  <2> QED
    BY <2>1, <2>2
<1>2. CASE StopService(svc)
  <2>1. CASE state[svc] \in Active
    <3>1. state'[svc] = "Stopping" /\ retry_count' = retry_count /\ OthersRest(svc)
      BY <1>0, <1>2, <2>1 DEF StopService, Active, leave_to, StateTyped, OthersRest
    <3> QED
      BY <2>1, <3>1, LifeOfOne DEF Active, Life!Step, Life!Stop, Life!Up
  <2>2. CASE state[svc] \in {"Crashed", "Error"}
    <3>1. /\ state'[svc] = "Stopped" /\ desired'[svc] = "Stopped"
          /\ retry_count' = retry_count /\ OthersRest(svc)
      BY <1>0, <1>2, <2>2 DEF StopService, Active, StateTyped, OthersRest
    <3> QED
      BY <2>2, <3>1, LifeOfOne DEF Life!Step, Life!Stopped
  <2>3. CASE state[svc] \in {"Stopped", "Stopping"}
    BY <1>2, <2>3, LifeOfIgnored DEF StopService, Active
  <2> QED
    BY <1>2, <2>1, <2>2, <2>3 DEF StopService
<1>3. CASE RestartService(svc)
  <2>1. CASE state[svc] \in Active
    <3>1. state'[svc] = "Stopping" /\ retry_count' = retry_count /\ OthersRest(svc)
      BY <1>0, <1>3, <2>1 DEF RestartService, Active, Startable, leave_to, StateTyped, OthersRest
    <3> QED
      BY <2>1, <3>1, LifeOfOne DEF Active, Life!Step, Life!Stop, Life!Up
  <2>2. CASE state[svc] \in Startable
    BY <1>3, <2>2, LifeOfFreshAttempt DEF RestartService, Active, Startable
  <2>3. CASE state[svc] = "Stopping"
    <3>1. /\ state' = state /\ desired'[svc] = "Running"
          /\ retry_count' = retry_count /\ OthersRest(svc)
      BY <1>0, <1>3, <2>3 DEF RestartService, Active, Startable, StateTyped, OthersRest
    <3> QED
      BY <2>3, <3>1, LifeOfOne DEF Life!Step, Life!ChangeMind, Life!Up
  <2> QED
    BY <1>3, <2>1, <2>2, <2>3 DEF RestartService
<1>4. CASE DismissError(svc)
  BY <1>4, LifeOfNone DEF DismissError
<1> QED
  BY <1>1, <1>2, <1>3, <1>4

LEMMA LifeOfReports ==
    ASSUME IInv, NEW svc \in Service, NEW n,
           ProcessReady(svc, n) \/ ReadinessTimeout(svc, n) \/ ProcessExit(svc)
    PROVE  Life!Next
<1>0. StateTyped
  BY DEF IInv
<1>1. CASE ProcessReady(svc, n)
  <2>1. CASE state[svc] = "Starting" /\ attempt[svc] = n
    <3>1. /\ state' = [state EXCEPT ![svc] = "Running"] /\ desired' = desired
          /\ retry_count' = [retry_count EXCEPT ![svc] = 0]
      BY <1>1, <2>1 DEF of_this_attempt, ProcessReady, clear_record
    <3>2. /\ state'[svc] = "Running" /\ retry_count'[svc] = 0 /\ OthersRest(svc)
      BY <1>0, <3>1 DEF StateTyped, OthersRest
    <3> QED
      BY <2>1, <3>1, <3>2, LifeOfOne, RetryAssumption DEF Life!Step, Life!Ready
  <2>2. CASE ~(state[svc] = "Starting" /\ attempt[svc] = n)
    BY <1>1, <2>2, LifeOfIgnored DEF of_this_attempt, ProcessReady
  <2> QED
    BY <2>1, <2>2
<1>2. CASE ReadinessTimeout(svc, n)
  <2>1. CASE state[svc] = "Starting" /\ attempt[svc] = n
    BY <1>2, <2>1, LifeOfCrash DEF of_this_attempt, ReadinessTimeout, Active
  <2>2. CASE ~(state[svc] = "Starting" /\ attempt[svc] = n)
    BY <1>2, <2>2, LifeOfIgnored DEF of_this_attempt, ReadinessTimeout
  <2> QED
    BY <2>1, <2>2
<1>3. CASE ProcessExit(svc)
  <2>1. CASE state[svc] = "Stopping" /\ desired[svc] = "Running"
    <3>1. /\ begin_start(svc, last_error[svc], <<>>) /\ last_error[svc] \in BOOLEAN
          /\ retry_count' = [retry_count EXCEPT ![svc] = 0]
          /\ desired' = [desired EXCEPT ![svc] = "Running"]
      BY <1>0, <1>3, <2>1 DEF ProcessExit, Active, Startable, StateTyped
    <3> QED
      BY <2>1, <3>1, LifeOfFreshAttempt
  <2>2. CASE state[svc] = "Stopping" /\ desired[svc] = "Stopped"
    <3>1. /\ state' = [state EXCEPT ![svc] = "Stopped"]
          /\ UNCHANGED <<desired, retry_count>>
      BY <1>3, <2>2 DEF ProcessExit, leave_to, Active, Startable
    <3>2. state'[svc] = "Stopped" /\ OthersRest(svc)
      BY <1>0, <3>1 DEF StateTyped, OthersRest
    <3> QED
      BY <2>2, <3>1, <3>2, LifeOfOne DEF Life!Step, Life!Stopped, Life!Keep
  <2>3. CASE state[svc] \in Active
    BY <1>3, <2>3, LifeOfCrash DEF ProcessExit, Active, Startable
  <2>4. CASE state[svc] \in Startable
    BY <1>3, <2>4, LifeOfIgnored DEF ProcessExit, Active, Startable
  <2> QED
    BY <1>3, <2>1, <2>2, <2>3, <2>4 DEF ProcessExit
<1> QED
  BY <1>1, <1>2, <1>3

LEMMA LifeOfTheRest ==
    ASSUME IInv, NEW svc \in Service, NEW port,
           \/ ProcessSpawnFailed(svc) \/ FatalError(svc) \/ PortConflictDetected(svc)
           \/ AutoRetry(svc) \/ HealthCheckPass(svc) \/ HealthCheckFail(svc)
           \/ PortUnavailable(svc, port)
    PROVE  Life!Next
<1>0. StateTyped
  BY DEF IInv
<1>1. CASE ProcessSpawnFailed(svc) \/ FatalError(svc) \/ PortConflictDetected(svc)
  BY <1>1, LifeOfFailure DEF ProcessSpawnFailed, FatalError, PortConflictDetected
<1>2. CASE AutoRetry(svc)
  <2>1. CASE retry_due(svc)
    <3>1. /\ state'[svc] \in {"Starting", "Error"} /\ UNCHANGED <<desired, retry_count>>
          /\ OthersRest(svc)
      BY <1>0, <1>2, <2>1, AttemptMoves DEF AutoRetry, StateTyped, OthersRest
    <3> QED
      BY <2>1, <3>1, LifeOfOne DEF retry_due, Life!Step, Life!Retry, Life!Attempted, Life!Keep
  <2>2. CASE ~retry_due(svc)
    BY <1>2, <2>2, LifeOfIgnored DEF AutoRetry
  <2> QED
    BY <2>1, <2>2
<1>3. CASE HealthCheckPass(svc)
  BY <1>3, LifeOfNone, LifeOfIgnored DEF HealthCheckPass
<1>4. CASE HealthCheckFail(svc)
  BY <1>4, LifeOfNone, LifeOfIgnored, LifeOfCrash DEF HealthCheckFail, Active
<1>5. CASE PortUnavailable(svc, port)
  <2>1. CASE ignored
    BY <2>1, LifeOfIgnored
  <2>2. CASE ~ignored
    <3>1. UNCHANGED <<desired, retry_count>> /\ (UNCHANGED state \/ leave_to(svc, "Error"))
      BY <1>5, <2>2 DEF PortUnavailable
    <3> QED
      BY <3>1, LifeOfNone, LifeOfFailure
  <2> QED
    BY <2>1, <2>2
<1> QED
  BY <1>1, <1>2, <1>3, <1>4, <1>5

(* What a shutdown or a reconcile stops was up; the rest of the services   *)
(* only learn that they are unwanted.                                      *)
LEMMA LifeOfStopping ==
    ASSUME IInv, NEW S \in SUBSET ActiveServices, stopping(S), UNCHANGED retry_count,
           \A t \in Service \ S :
               desired'[t] = desired[t] \/ (t \notin ActiveServices /\ desired'[t] = "Stopped")
    PROVE  Life!Next
<1>1. ASSUME NEW t \in Service PROVE Life!Step(t) \/ Life!Rest(t)
  <2>1. CASE t \in S
    <3>1. state[t] \in Active /\ state'[t] = "Stopping"
      BY <2>1 DEF stopping, ActiveServices
    <3> QED
      BY <3>1 DEF Active, Life!Step, Life!Stop, Life!Up
  <2>2. CASE t \notin S
    <3>1. state'[t] = state[t]
      BY <2>2 DEF stopping
    <3>2. CASE desired'[t] = desired[t]
      BY <3>1, <3>2 DEF Life!Rest, Life!Keep
    <3>3. CASE t \notin ActiveServices /\ desired'[t] = "Stopped"
      BY <3>1, <3>3 DEF ActiveServices, Active, Life!Step, Life!ChangeMind, Life!Up
    <3> QED
      BY <2>2, <3>2, <3>3
  <2> QED
    BY <2>1, <2>2
<1> QED
  BY <1>1 DEF Life!Next

LEMMA LifeOfRestartUp ==
    ASSUME IInv, NEW S \in SUBSET Service, NEW first, restart_up(S, first)
    PROVE  Life!Next
<1> DEFINE up == S \cap ActiveServices
<1>1. /\ up \in SUBSET ActiveServices /\ stopping(up) /\ UNCHANGED retry_count
      /\ desired' = [svc \in Service |-> IF svc \in up THEN "Running" ELSE desired[svc]]
  BY DEF restart_up
<1>2. \A t \in Service \ up : desired'[t] = desired[t]
  BY <1>1
<1> HIDE DEF up
<1> QED
  BY <1>1, <1>2, LifeOfStopping

LEMMA LifeOfAppEvents ==
    ASSUME IInv, AppEvent
    PROVE  Life!Next
<1>1. ASSUME NEW h \in HomeConfigs, NEW root \in DocumentRoots, NEW dir \in BOOLEAN,
             ConfigReloaded(h, root, dir)
      PROVE  Life!Next
  BY <1>1, LifeOfNone DEF ConfigReloaded, status
<1>2. ASSUME NEW changed \in SUBSET Service, NEW spawning, ConfigsReconciled(changed, spawning)
      PROVE  Life!Next
  <2>1. changed \ spawning \in SUBSET Service
    OBVIOUS
  <2> QED
    BY <1>2, <2>1, LifeOfRestartUp DEF ConfigsReconciled
<1>3. ASSUME NEW root \in DocumentRoots, SetDocumentRoot(root)
      PROVE  Life!Next
  <2>1. {"Apache"} \in SUBSET Service
    BY ServiceAssumption
  <2> QED
    BY <1>3, <2>1, LifeOfRestartUp DEF SetDocumentRoot
<1>4. CASE TogglePhpMyAdmin
  BY <1>4, LifeOfNone, LifeOfIgnored DEF TogglePhpMyAdmin, status
<1>5. ASSUME NEW b \in BOOLEAN, PhpMyAdminToggled(b) \/ PhpMyAdminDirChanged(b)
      PROVE  Life!Next
  BY <1>5, LifeOfNone DEF PhpMyAdminToggled, PhpMyAdminDirChanged, status
<1>6. CASE OpenPhpMyAdmin \/ Tick
  BY <1>6, LifeOfNone DEF OpenPhpMyAdmin, Tick, ignored, app, status
<1>7. CASE ShutdownAll
  <2>1. /\ stopping(ActiveServices) /\ UNCHANGED retry_count
        /\ \A t \in Service \ ActiveServices : desired'[t] = "Stopped"
    BY <1>7 DEF ShutdownAll
  <2> QED
    BY <2>1, LifeOfStopping
<1> QED
  BY <1>1, <1>2, <1>3, <1>4, <1>5, <1>6, <1>7 DEF AppEvent

(* The reducer implements the documented life cycle, with MAX_RETRIES      *)
(* minus the retries spent as the budget.                                  *)
THEOREM ReducerImplementsLifecycle == Spec => ImplementsLifecycle
<1>1. Init => Life!Init
  <2> SUFFICES ASSUME Init PROVE Life!Init
    OBVIOUS
  <2>1. /\ state \in [Service -> {"Stopped", "Error"}]
        /\ desired \in [Service -> {"Running", "Stopped"}]
        /\ \A svc \in Service : retry_count[svc] = 0
    BY DEF Init, DesiredState
  <2> QED
    BY <2>1, RetryAssumption DEF Life!Init
<1>2. IInv /\ [Next]_vars => [Life!Next]_(Life!life)
  <2> SUFFICES ASSUME IInv, [Next]_vars PROVE [Life!Next]_(Life!life)
    OBVIOUS
  <2>1. ASSUME NEW svc \in Service, ServiceEvent(svc) PROVE Life!Next
    BY <2>1, LifeOfCommands, LifeOfReports, LifeOfTheRest DEF ServiceEvent
  <2>2. CASE AppEvent
    BY <2>2, LifeOfAppEvents
  <2>3. CASE UNCHANGED vars
    BY <2>3 DEF vars, app, status, Life!life
  <2> QED
    BY <2>1, <2>2, <2>3 DEF Next
<1> QED
  BY <1>1, <1>2, Inductive, PTL DEF Spec, ImplementsLifecycle, Life!Spec
===============================================================================
