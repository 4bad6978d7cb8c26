------------------------------ MODULE ProcessProofs ------------------------------
(***************************************************************************)
(* What TLAPS proves of EventLoop about processes: who owns one, who is    *)
(* going to kill it, who reports its end, and on which configuration it    *)
(* runs.  There are three parts.                                           *)
(*                                                                         *)
(* The first is about the instances in which a spawn that is asked for     *)
(* succeeds: RAMPP owns its configuration files, can write them, and finds *)
(* its ports free.  Processes may still die at any time, be slow or        *)
(* unhealthy or be taken for one another, and commands come in any order.  *)
(* Without the assumption the code does leave a process behind (the run    *)
(* orphan) or a service in Stopping (stuck_in_stopping).                   *)
(*                                                                         *)
(* The second is about the phpMyAdmin switch, in the same instances.       *)
(*                                                                         *)
(* The third assumes nothing of the instance: what still holds of a        *)
(* service that is Running where spawns fail and ports are taken, as long  *)
(* as the attempt tokens are not used up.                                  *)
(***************************************************************************)
EXTENDS RecoveryProofs

SpawnsSucceed == ~SpawnMayFail /\ ~PortMayBeTaken

-------------------------------------------------------------------------------
(* The inductive invariant, one service at a time.                         *)

(* A process belongs to a service that is up, or is about to be killed.    *)
Owned(svc) ==
    handle[svc].watcher # "none" => state[svc] \in Active \/ KillService(svc) \in ToDo

(* The end of a process is going to be reported, or was taken for a crash. *)
Reported(svc) ==
    handle[svc].watcher = "gone" =>
        Coming("ProcessExit", svc) \/ state[svc] \in {"Crashed", "Error"}

(* Stopping ends: the kill is still to come, or its exit is.               *)
Stops(svc) ==
    loop # "ended" /\ state[svc] = "Stopping" =>
        KillService(svc) \in ToDo \/ Coming("ProcessExit", svc)

(* Once it is spawned, a service runs on the process of its attempt.       *)
OnIt(svc) ==
    /\ handle[svc].watcher # "none"
    /\ handle[svc].port = assigned[svc] /\ handle[svc].born = attempt[svc]
Spawned(svc) ==
    state[svc] = "Starting" => SpawnService(svc, assigned[svc]) \in ToDo \/ OnIt(svc)
Up(svc) ==
    state[svc] = "Running" => OnIt(svc) /\ handle[svc].became_ready /\ handle[svc].checked

(* What has no watcher has no handle, and after ShutdownAll nothing is up. *)
Empty(svc) == handle[svc].watcher = "none" => handle[svc] = NoHandle
(* Until it is killed a process that is given up keeps its port in the     *)
(* ledger, but for the last retry, which goes to Error.                    *)
PortKept(svc) ==
    handle[svc].watcher # "none" /\ state[svc] \notin Active \cup {"Error"} =>
        handle[svc].port = assigned[svc]
Over(svc)  == loop # "running" => state[svc] \notin Active

ServiceRight(svc) ==
    /\ Owned(svc) /\ Reported(svc) /\ Stops(svc) /\ Spawned(svc) /\ Up(svc)
    /\ Empty(svc) /\ PortKept(svc) /\ Over(svc)

(* What is left of the effects still fits the state they were asked for in.*)
ListRight ==
    /\ \A e : Asks(effects, e) /\ e.type = "SpawnService" =>
           state[e.service] = "Starting" /\ assigned[e.service] = e.port
    /\ \A svc \in Service :
           Asks(effects, StopHealthCheck(svc)) \/ Asks(effects, KillService(svc)) =>
               state[svc] \notin Active

PInv == ListRight /\ \A svc \in Service : ServiceRight(svc)

-------------------------------------------------------------------------------
(* Events.  Why a service changes state when the loop handles one.         *)
LEMMA CrashKills ==
    ASSUME StateTyped, NEW svc \in Service, crash_and_retry(svc)
    PROVE  /\ state'[svc] \in {"Crashed", "Error"} /\ Asks(effects', KillService(svc))
           /\ \A t \in Service \ {svc} : state'[t] = state[t]
<1>1. PICK rest \in {<<ScheduleRetry(svc)>>, <<>>} : effects' = kill(svc) \o rest
  BY DEF crash_and_retry, schedule
<1>2. kill(svc) \in Seq(Effect) /\ rest \in Seq(Effect)
  BY EffectTypes
<1>3. Asks(effects', KillService(svc))
  BY <1>1, <1>2, AsksConcat, AsksKill
<1> QED
  BY <1>3 DEF crash_and_retry, leave_to, StateTyped

(* A start moves no service but its own.                                   *)
LEMMA BeginsElsewhere ==
    ASSUME StateTyped, NEW svc \in Service, NEW err, NEW then, begin_start(svc, err, then)
    PROVE  /\ state'[svc] \in {"Starting", "Error"}
           /\ \A t \in Service \ {svc} : state'[t] = state[t]
BY DEF begin_start, set_starting, leave_to, StateTyped

(* Apart from the two reports that SpawnsSucceed rules out.                *)
Expected(e) == e.type \notin {"ProcessSpawnFailed", "PortUnavailable"}

(* With spawns that succeed, no report of a failed one is in the channel.  *)
LEMMA MessagesExpected ==
    ASSUME SpawnsSucceed, NEW e \in Message
    PROVE  Expected(e)
BY DEF SpawnsSucceed, Expected, Message, Command, ServiceMessage, ExitMessage, PortMessage,
       PollerMessage, FilesMessage, SwitchMessage, TickMessage

(* A service changes state because its process answered, because it is     *)
(* being stopped, because it is given up and killed, or because it was     *)
(* down and begins.                                                        *)
LEMMA WhyMoved ==
    ASSUME LInv, NEW e \in Message, Expected(e), reducer(e), NEW svc \in Service,
           state'[svc] # state[svc]
    PROVE  \/ e.type = "ProcessReady" /\ e.service = svc /\ state'[svc] = "Running"
           \/ state'[svc] = "Stopping"
           \/ state'[svc] \in {"Crashed", "Error"} /\ Asks(effects', KillService(svc))
           \/ state[svc] \notin Active /\ state'[svc] # "Running"
<1>1. StateTyped
  BY DEF LInv, IInv
<1>2. ASSUME NEW t \in Service, crash_and_retry(t)
      PROVE  state'[svc] \in {"Crashed", "Error"} /\ Asks(effects', KillService(svc))
  BY <1>1, <1>2, CrashKills
<1>3. ASSUME NEW t \in Service, NEW err, NEW then, begin_start(t, err, then), state[t] \notin Active
      PROVE  state[svc] \notin Active /\ state'[svc] # "Running"
  BY <1>1, <1>3, BeginsElsewhere
<1>4. ASSUME NEW t \in Service, NEW st, leave_to(t, st) \/ state' = [state EXCEPT ![t] = st]
      PROVE  svc = t /\ state'[svc] = st
  BY <1>1, <1>4 DEF leave_to, StateTyped
<1>5. ASSUME NEW S, stopping(S) PROVE state'[svc] = "Stopping"
  BY <1>5 DEF stopping
<1>6. CASE UNCHANGED state
  BY <1>6
<1>7. CASE e.type \in {"StartService", "StopService", "RestartService", "AutoRetry"}
  <2>1. e.service \in Service
    BY <1>7 DEF Message, Command, ServiceMessage, ExitMessage, PortMessage, PollerMessage,
                FilesMessage, SwitchMessage, TickMessage
  <2> DEFINE t == e.service
  <2>2. StartService(t) \/ StopService(t) \/ RestartService(t) \/ AutoRetry(t)
    BY <1>7 DEF reducer
  <2> HIDE DEF t
  <2>3. t \in Service
    BY <2>1 DEF t
  <2>4. CASE StartService(t) \/ AutoRetry(t)
    BY <1>3, <1>6, <2>3, <2>4
       DEF StartService, AutoRetry, retry_due, ignored, app, status, Startable, Active
  <2>5. CASE StopService(t)
    BY <1>4, <1>6, <2>3, <2>5 DEF StopService, ignored, app, status, Active
  <2>6. CASE RestartService(t)
    BY <1>3, <1>4, <1>6, <2>3, <2>6 DEF RestartService, ignored, app, status, Active, Startable
  <2> QED
    BY <2>2, <2>4, <2>5, <2>6
<1>8. CASE e.type \in {"ProcessReady", "ReadinessTimeout", "ProcessExit", "HealthCheckPass",
                       "HealthCheckFail"}
  <2>1. e.service \in Service
    BY <1>8 DEF Message, Command, ServiceMessage, ExitMessage, PortMessage, PollerMessage,
                FilesMessage, SwitchMessage, TickMessage
  <2> DEFINE t == e.service
  <2>2. CASE e.type = "ProcessReady"
    <3>1. ProcessReady(t, e.attempt)
      BY <2>2 DEF reducer
    <3> QED
      BY <1>4, <1>6, <2>1, <2>2, <3>1 DEF ProcessReady, ignored, app, status
  <2>3. CASE e.type = "ReadinessTimeout"
    <3>1. ReadinessTimeout(t, e.attempt)
      BY <2>3 DEF reducer
    <3> QED
      BY <1>2, <1>6, <2>1, <3>1 DEF ReadinessTimeout, ignored, app, status
  <2>4. CASE e.type = "ProcessExit"
    <3>1. ProcessExit(t)
      BY <2>4 DEF reducer
    <3> HIDE DEF t
    <3>2. t \in Service
      BY <2>1 DEF t
    <3> QED
      BY <1>2, <1>3, <1>4, <1>6, <3>1, <3>2 DEF ProcessExit, ignored, app, status, Active
  <2>5. CASE e.type = "HealthCheckPass"
    BY <1>6, <2>5 DEF reducer, HealthCheckPass, ignored, app, status
  <2>6. CASE e.type = "HealthCheckFail"
    <3>1. HealthCheckFail(t)
      BY <2>6 DEF reducer
    <3> QED
      BY <1>2, <1>6, <2>1, <3>1 DEF HealthCheckFail, ignored, app, status
  <2> QED
    BY <1>8, <2>2, <2>3, <2>4, <2>5, <2>6
<1>9. CASE e.type \in {"ShutdownAll", "ConfigsReconciled", "SetDocumentRoot"}
  BY <1>5, <1>9 DEF reducer, ShutdownAll, ConfigsReconciled, SetDocumentRoot, restart_up
<1>10. CASE e.type \in {"ConfigReloaded", "TogglePhpMyAdmin", "PhpMyAdminToggled",
                        "PhpMyAdminDirChanged", "Tick"}
  BY <1>6, <1>10 DEF reducer, ConfigReloaded, TogglePhpMyAdmin, PhpMyAdminToggled,
                     PhpMyAdminDirChanged, Tick, ignored, app, status
<1> QED
  BY <1>7, <1>8, <1>9, <1>10 DEF reducer, Expected

(* An exit ends Stopping, and is a crash of a service that is up.          *)
LEMMA ExitMoves ==
    ASSUME StateTyped, NEW svc \in Service, ProcessExit(svc)
    PROVE  /\ state[svc] = "Stopping" => state'[svc] # "Stopping"
           /\ state[svc] \in Active => state'[svc] \in {"Crashed", "Error"}
<1>1. CASE state[svc] \in Active
  BY <1>1, CrashKills DEF ProcessExit, Active, Startable
<1>2. CASE state[svc] = "Stopping"
  <2>1. \/ begin_start(svc, last_error[svc], <<>>)
        \/ leave_to(svc, "Stopped")
    BY <1>2 DEF ProcessExit, Active, Startable
  <2> QED
    BY <1>2, <2>1, BeginsElsewhere DEF leave_to, StateTyped, Active
<1> QED
  BY <1>1, <1>2

-------------------------------------------------------------------------------
(* Steps.  A step that leaves a service, its handle and what is under way  *)
(* for it alone.                                                           *)
LEMMA LeftAlone ==
    ASSUME NEW svc \in Service, ServiceRight(svc), UNCHANGED <<vars, loop>>,
           handle'[svc] = handle[svc],
           Coming("ProcessExit", svc) => Coming("ProcessExit", svc)',
           KillService(svc) \in ToDo => KillService(svc) \in ToDo',
           SpawnService(svc, assigned[svc]) \in ToDo => SpawnService(svc, assigned[svc]) \in ToDo'
    PROVE  ServiceRight(svc)'
<1>1. UNCHANGED <<state, assigned, attempt, loop>>
  BY DEF vars, app, status, ledger
<1> QED
  BY <1>1 DEF ServiceRight, Owned, Reported, Stops, Spawned, Up, Empty, PortKept, Over, OnIt

(* Sending keeps what is on its way.                                       *)
LEMMA ComingKept ==
    ASSUME Event \subseteq Event', NEW svc
    PROVE  Coming("ProcessExit", svc) => Coming("ProcessExit", svc)'
BY DEF Coming

(* So does a step that leaves the reducer alone keep the list fitting.     *)
LEMMA ListKept ==
    ASSUME ListRight, UNCHANGED vars
    PROVE  ListRight'
<1>1. UNCHANGED <<state, assigned, effects>>
  BY DEF vars, app, status, ledger
<1> QED
  BY <1>1 DEF ListRight, Asks

(* A kill, of a process that is there, has ended or was never there.       *)
LEMMA KillRight ==
    ASSUME LInv, NEW svc \in Service, ServiceRight(svc), state[svc] \notin Active,
           UNCHANGED <<vars, loop>>, do_kill_effect(svc), Event \subseteq Event'
    PROVE  ServiceRight(svc)'
<1>1. UNCHANGED <<state, assigned, attempt, loop>>
  BY DEF vars, app, status, ledger
<1>2. handle'[svc] = NoHandle /\ NoHandle.watcher = "none"
  BY DEF do_kill_effect, NoHandle, LInv, ExecutorTyped
<1>3. queue \in Seq(Message) /\ handle[svc].watcher \in {"none", "live", "gone"}
  BY DEF LInv, LoopTyped, ExecutorTyped, HandleTyped
<1>4. ASSUME NEW n, process_exit(svc, n) \in Message, send(<<process_exit(svc, n)>>)
      PROVE  Coming("ProcessExit", svc)'
  <2>1. process_exit(svc, n) \in Event'
    BY <1>3, <1>4, SendOne
  <2>2. process_exit(svc, n).type = "ProcessExit" /\ process_exit(svc, n).service = svc
    BY DEF process_exit
  <2> QED
    BY <2>1, <2>2 DEF Coming
<1>5. state[svc] = "Stopping" => Coming("ProcessExit", svc)'
  <2>1. CASE handle[svc] = NoHandle
    BY <1>4, <2>1, HandlesTyped DEF do_kill_effect
  <2>2. CASE handle[svc] # NoHandle /\ Live(svc)
    BY <1>4, <2>2, HandlesTyped DEF do_kill_effect, kill_reports
  <2>3. CASE handle[svc] # NoHandle /\ ~Live(svc)
    <3>1. handle[svc].watcher = "gone"
      BY <1>3, <2>3 DEF ServiceRight, Empty, Live
    <3> QED
      BY <3>1, ComingKept DEF ServiceRight, Reported
  <2> QED
    BY <2>1, <2>2, <2>3
<1> QED
  BY <1>1, <1>2, <1>5
     DEF ServiceRight, Owned, Reported, Stops, Spawned, Up, Empty, PortKept, Over, Active

(* Ending a health check that is not there changes nothing.                *)
LEMMA SameValue ==
    ASSUME NEW D, NEW R, NEW f \in [D -> R], NEW x \in D, NEW v, f[x] = v
    PROVE  [f EXCEPT ![x] = v] = f
OBVIOUS

(* StopHealthCheck does nothing to a service without a handle.             *)
LEMMA NothingToStop == [NoHandle EXCEPT !.checked = FALSE] = NoHandle
<1> DEFINE D == DOMAIN NoHandle
           R == {NoHandle[x] : x \in D}
<1>1. NoHandle = [x \in D |-> NoHandle[x]]
  BY DEF NoHandle
<1>2. "checked" \in D /\ NoHandle["checked"] = FALSE
  BY DEF NoHandle
<1>3. NoHandle \in [D -> R]
  BY <1>1
<1> HIDE DEF D, R
<1> QED
  BY <1>2, <1>3, SameValue

(* The end of a health check, of a service that is down.                   *)
LEMMA StillStopped ==
    ASSUME NEW svc \in Service, ServiceRight(svc), UNCHANGED <<vars, loop>>,
           state[svc] \notin Active, handle'[svc] = [handle[svc] EXCEPT !.checked = FALSE],
           Coming("ProcessExit", svc) => Coming("ProcessExit", svc)',
           KillService(svc) \in ToDo => KillService(svc) \in ToDo'
    PROVE  ServiceRight(svc)'
<1>1. UNCHANGED <<state, assigned, attempt, loop>>
  BY DEF vars, app, status, ledger
<1>2. handle'[svc].watcher = handle[svc].watcher
  OBVIOUS
<1>3. handle'[svc].watcher = "none" => handle'[svc] = NoHandle
  <2>1. [NoHandle EXCEPT !.checked = FALSE] = NoHandle
    BY NothingToStop
  <2> QED
    BY <1>2, <2>1 DEF ServiceRight, Empty
<1> QED
  BY <1>1, <1>2, <1>3
     DEF ServiceRight, Owned, Reported, Stops, Spawned, Up, Empty, PortKept, Over, Active

(* A spawn, as far as this step takes it.                                  *)
LEMMA SpawnRight ==
    ASSUME SpawnsSucceed, LInv, NEW svc \in Service, ServiceRight(svc), state[svc] = "Starting",
           UNCHANGED <<vars, loop>>, NEW e, e \in ToDo, e = SpawnService(svc, assigned[svc]),
           do_spawn(svc, assigned[svc]), Event \subseteq Event',
           \A f \in ToDo : f \in ToDo' \/ (done /\ f = e)
    PROVE  ServiceRight(svc)'
<1>1. UNCHANGED <<state, assigned, attempt, loop>>
  BY DEF vars, app, status, ledger
<1>2. DOMAIN handle = Service /\ stage # "refuse" /\ loop \in {"running", "joining", "ended"}
      /\ KillService(svc) # e
  BY DEF LInv, ExecutorTyped, LoopTyped, StageTyped, SpawnsSucceed, KillService, SpawnService
<1>3. CASE stage = "begin" /\ prepare_spawn(svc, assigned[svc])
  <2>1. ~fault("port busy") /\ ~user_owned_blocking(svc)
    BY DEF SpawnsSucceed, PortMayBeTaken, SpawnMayFail, fault, user_owned_blocking
  <2>2. UNCHANGED <<handle, executed>>
    BY <1>3, <2>1 DEF prepare_spawn, go_on
  <2>3. ToDo' = ToDo
    BY <2>2 DEF ToDo, vars
  <2> QED
    BY <2>2, <2>3, LeftAlone, ComingKept
<1>4. CASE handle' = [handle EXCEPT ![svc] = NoHandle] /\ go_on("launch")
  <2>1. handle'[svc] = NoHandle /\ NoHandle.watcher = "none"
    BY <1>2, <1>4 DEF NoHandle
  <2>2. ToDo' = ToDo
    BY <1>4 DEF ToDo, vars, go_on
  <2> QED
    BY <1>1, <2>1, <2>2
       DEF ServiceRight, Owned, Reported, Stops, Spawned, Up, Empty, PortKept, Over, Active
<1>5. CASE handle' = [handle EXCEPT ![svc] = launch(svc, assigned[svc])]
  <2>1. /\ handle'[svc].watcher = "live" /\ handle'[svc].port = assigned[svc]
        /\ handle'[svc].born = attempt[svc]
    BY <1>2, <1>5 DEF launch
  <2> QED
    BY <1>1, <2>1
       DEF ServiceRight, Owned, Reported, Stops, Spawned, OnIt, Up, Empty, PortKept, Over, Active
<1>6. ~fault("spawn fails")
  BY DEF SpawnsSucceed, SpawnMayFail, fault
<1> QED
  BY <1>2, <1>3, <1>4, <1>5, <1>6 DEF do_spawn

(* An effect keeps the invariant: a spawn makes the process of its         *)
(* attempt, a kill ends what it was asked to and reports it.               *)
LEMMA ExecuteRight ==
    ASSUME SpawnsSucceed, LInv, PInv, ExecuteEffect
    PROVE  PInv'
<1>1. /\ UNCHANGED <<vars, loop>> /\ Event \subseteq Event'
      /\ \A f \in ToDo : f \in ToDo' \/ (done /\ f = effects[executed + 1])
  BY ExecuteLeaves
<1>2. /\ effects \in Seq(Effect) /\ executed \in 0..Len(effects) /\ executed < Len(effects)
      /\ DOMAIN handle = Service
  BY DEF LInv, LoopTyped, EffectsTyped, ExecutorTyped, ExecuteEffect, execute
<1> DEFINE e == effects[executed + 1]
<1>3. e \in Effect /\ Asks(effects, e) /\ e \in ToDo
  <2>1. executed + 1 \in 1..Len(effects) /\ executed + 1 \in executed + 1..Len(effects)
    BY <1>2
  <2> QED
    BY <1>2, <2>1 DEF Asks, ToDo
<1>4. \/ done /\ execute_at_once(e)
      \/ e.type = "SpawnService" /\ do_spawn(e.service, e.port)
      \/ e.type = "TogglePhpMyAdmin" /\ do_toggle_phpmyadmin(e.enable)
  BY DEF ExecuteEffect, execute
<1>5. \A f \in ToDo : f \in ToDo' \/ (done /\ f = e)
  BY <1>1
<1> HIDE DEF e
<1>6. ASSUME NEW svc \in Service PROVE ServiceRight(svc)'
  <2>1. ServiceRight(svc) /\ (Coming("ProcessExit", svc) => Coming("ProcessExit", svc)')
    BY <1>1, ComingKept DEF PInv
  <2>2. /\ KillService(svc).type = "KillService" /\ KillService(svc).service = svc
        /\ SpawnService(svc, assigned[svc]).type = "SpawnService"
        /\ SpawnService(svc, assigned[svc]).service = svc
    BY DEF KillService, SpawnService
  <2>3. CASE e.type = "KillService" /\ e.service = svc
    <3>1. e = KillService(svc)
      BY <1>3, <2>3 DEF Effect, KillService
    <3>2. state[svc] \notin Active
      BY <1>3, <3>1 DEF PInv, ListRight
    <3>3. do_kill_effect(svc)
      BY <1>4, <2>3 DEF execute_at_once, do_persist, do_persist_config
    <3> QED
      BY <1>1, <2>1, <3>2, <3>3, KillRight
  <2>4. CASE e.type = "SpawnService" /\ e.service = svc
    <3>1. state[svc] = "Starting" /\ assigned[svc] = e.port
      BY <1>3, <2>4 DEF PInv, ListRight
    <3>2. e = SpawnService(svc, assigned[svc])
      BY <1>3, <2>4, <3>1 DEF Effect, SpawnService
    <3>3. do_spawn(svc, assigned[svc])
      BY <1>4, <2>4, <3>1 DEF execute_at_once, do_persist, do_persist_config
    <3> QED
      BY <1>1, <1>3, <1>5, <2>1, <3>1, <3>2, <3>3, SpawnRight
  <2>5. CASE e.type = "StopHealthCheck" /\ e.service = svc
    <3>1. e = StopHealthCheck(svc)
      BY <1>3, <2>5 DEF Effect, StopHealthCheck
    <3>2. state[svc] \notin Active
      BY <1>3, <3>1 DEF PInv, ListRight
    <3>3. do_stop_health(svc)
      BY <1>4, <2>5 DEF execute_at_once, do_persist, do_persist_config
    <3>4. /\ handle'[svc] = [handle[svc] EXCEPT !.checked = FALSE]
      BY <1>2, <3>3 DEF do_stop_health
    <3>5. KillService(svc) \in ToDo => KillService(svc) \in ToDo'
      BY <1>5, <2>2, <2>5
    <3> QED
      BY <1>1, <2>1, <3>2, <3>4, <3>5, StillStopped
  <2>6. CASE e.type \notin {"KillService", "SpawnService", "StopHealthCheck"} \/ e.service # svc
    <3>1. handle'[svc] = handle[svc]
      <4>1. CASE e.type = "KillService" /\ do_kill_effect(e.service)
        BY <1>2, <2>6, <4>1 DEF do_kill_effect
      <4>2. CASE e.type = "StopHealthCheck" /\ do_stop_health(e.service)
        BY <1>2, <2>6, <4>2 DEF do_stop_health
      <4>3. CASE e.type = "SpawnService" /\ do_spawn(e.service, e.port)
        BY <1>2, <2>6, <4>3 DEF do_spawn, prepare_spawn, refuse
      <4>4. CASE UNCHANGED handle
        BY <4>4
      <4> QED
        BY <1>4, <4>1, <4>2, <4>3, <4>4
           DEF execute_at_once, do_readiness_check, do_schedule_retry, do_persist,
               do_persist_config, do_toggle_phpmyadmin
    <3>2. /\ KillService(svc) \in ToDo => KillService(svc) \in ToDo'
          /\ SpawnService(svc, assigned[svc]) \in ToDo => SpawnService(svc, assigned[svc]) \in ToDo'
      BY <1>5, <2>2, <2>6
    <3> QED
      BY <1>1, <2>1, <3>1, <3>2, LeftAlone
  <2> QED
    BY <2>3, <2>4, <2>5, <2>6
<1> QED
  BY <1>1, <1>6, ListKept DEF PInv

(* An event.  When the loop takes one, nothing of the list before it is    *)
(* left to do.                                                             *)
AtRest(svc) ==
    /\ handle[svc].watcher # "none" => state[svc] \in Active
    /\ handle[svc].watcher = "gone" => Coming("ProcessExit", svc)
    /\ state[svc] = "Stopping" => Coming("ProcessExit", svc)
    /\ state[svc] = "Starting" => OnIt(svc)
    /\ Up(svc) /\ Empty(svc)

(* Between two events, with no effect left, each service is where its      *)
(* handle says.                                                            *)
LEMMA RestsBetween ==
    ASSUME NEW svc \in Service, ServiceRight(svc), ToDo = {}, loop # "ended"
    PROVE  AtRest(svc)
BY DEF ServiceRight, AtRest, Owned, Reported, Stops, Spawned, Active

(* The report of the poller that the service was waiting for.              *)
LEMMA ReadyRight ==
    ASSUME LInv, NEW svc \in Service, AtRest(svc), Moves(svc), state[svc] # "Running",
           state'[svc] = "Running", start_health_check(svc), loop' = "running",
           Coming("ProcessExit", svc) => Coming("ProcessExit", svc)'
    PROVE  ServiceRight(svc)'
<1>1. state[svc] = "Starting" /\ SameAttempt(svc) /\ OnIt(svc)
  BY DEF Moves, Active, AtRest
<1>2. /\ handle'[svc].watcher = handle[svc].watcher /\ handle'[svc].port = handle[svc].port
      /\ handle'[svc].born = handle[svc].born /\ handle'[svc].became_ready
      /\ handle'[svc].checked
  BY <1>1 DEF start_health_check, OnIt, LInv, ExecutorTyped, HandleTyped
<1> QED
  BY <1>1, <1>2
     DEF ServiceRight, Owned, Reported, Stops, Spawned, OnIt, Up, Empty, PortKept, Over, Active, SameAttempt,
         AtRest

(* Any other event leaves the handle of the service alone.                 *)
LEMMA EventRight ==
    ASSUME LInv, NEW svc \in Service, AtRest(svc), Right(svc), handle'[svc] = handle[svc],
           \A e : Asks(effects', e) => e \in ToDo',
           \/ state'[svc] = state[svc] \/ state'[svc] = "Stopping"
           \/ state'[svc] \in {"Crashed", "Error"} /\ Asks(effects', KillService(svc))
           \/ state[svc] \notin Active /\ state'[svc] # "Running",
           \/ Coming("ProcessExit", svc) => Coming("ProcessExit", svc)'
           \/ /\ state[svc] = "Stopping" => state'[svc] # "Stopping"
              /\ state[svc] \in Active => state'[svc] \in {"Crashed", "Error"},
           Over(svc)'
    PROVE  ServiceRight(svc)'
<1>1. Owned(svc)'
  <2>1. SUFFICES ASSUME handle[svc].watcher # "none", state'[svc] \notin Active
                 PROVE  KillService(svc) \in ToDo'
    BY DEF Owned
  <2>2. state[svc] \in Active
    BY <2>1 DEF AtRest
  <2> QED
    BY <2>1, <2>2 DEF Right, Kills
<1>2. Reported(svc)'
  BY DEF Reported, AtRest
<1>3. Stops(svc)'
  BY DEF Stops, AtRest, Right, Moves, Kills
<1>4. Spawned(svc)'
  <2>1. SUFFICES ASSUME state'[svc] = "Starting"
                 PROVE  SpawnService(svc, assigned'[svc]) \in ToDo' \/ OnIt(svc)'
    BY DEF Spawned
  <2>2. CASE state[svc] = "Starting" /\ SameAttempt(svc)
    BY <2>2 DEF AtRest, OnIt, SameAttempt
  <2> QED
    BY <2>1, <2>2 DEF Right, Checks
<1>5. Up(svc)'
  <2>1. SUFFICES ASSUME state'[svc] = "Running"
                 PROVE  OnIt(svc)' /\ handle'[svc].became_ready /\ handle'[svc].checked
    BY DEF Up
  <2>2. state[svc] = "Running" /\ SameAttempt(svc)
    BY <2>1 DEF Right, Moves, Active
  <2> QED
    BY <2>2 DEF AtRest, Up, OnIt, SameAttempt
<1>6. PortKept(svc)'
  <2>1. SUFFICES ASSUME handle[svc].watcher # "none", state'[svc] \notin Active \cup {"Error"}
                 PROVE  handle[svc].port = assigned'[svc]
    BY DEF PortKept
  <2>2. state[svc] \in Active /\ handle[svc].port = assigned[svc]
    BY <2>1 DEF AtRest, Up, OnIt, Active
  <2>3. SameAttempt(svc)
    BY <2>1, <2>2 DEF Right, Moves
  <2> QED
    BY <2>2, <2>3 DEF SameAttempt
<1> QED
  BY <1>1, <1>2, <1>3, <1>4, <1>5, <1>6 DEF ServiceRight, AtRest, Empty

(* The event the loop takes keeps the invariant, by why a service moved.   *)
LEMMA HandleRight ==
    ASSUME SpawnsSucceed, LInv, PInv, HandleEvent
    PROVE  PInv'
<1> DEFINE e == Head(queue)
<1>1. /\ ToDo = {} /\ StepRight /\ (\A f \in Event : f = e \/ f \in Event')
      /\ (\A f : Asks(effects', f) => f \in ToDo') /\ e \in Message /\ reducer(e)
      /\ loop = "running"
  BY HandleLeaves
<1>2. /\ loop' = IF e.type = "ShutdownAll" THEN "joining" ELSE loop
      /\ IF e.type = "ProcessReady" /\ state[e.service] # "Running" /\ state'[e.service] = "Running"
         THEN start_health_check(e.service) ELSE UNCHANGED handle
  BY DEF HandleEvent
<1> HIDE DEF e
<1>3. StateTyped /\ DOMAIN handle = Service /\ Expected(e)
  BY <1>1, MessagesExpected DEF LInv, IInv, ExecutorTyped
<1>4. ListRight'
  BY <1>1 DEF StepRight, SpawnsMatch, KillsMatch, ListRight
<1>5. ASSUME NEW svc \in Service PROVE ServiceRight(svc)'
  <2>1. AtRest(svc) /\ Right(svc)
    BY <1>1, RestsBetween DEF PInv, StepRight
  <2>2. Over(svc)'
    <3>1. CASE e.type = "ShutdownAll"
      <4>1. ShutdownAll
        BY <1>1, <3>1 DEF reducer
      <4> QED
        BY <4>1 DEF ShutdownAll, stopping, ActiveServices, Over, Active
    <3> QED
      BY <1>1, <1>2, <3>1 DEF Over
  <2>3. \/ Coming("ProcessExit", svc) => Coming("ProcessExit", svc)'
        \/ e.type = "ProcessExit" /\ e.service = svc
    BY <1>1 DEF Coming
  <2>4. CASE e.type = "ProcessReady" /\ e.service = svc
             /\ state[svc] # "Running" /\ state'[svc] = "Running"
    BY <1>1, <1>2, <2>1, <2>3, <2>4, ReadyRight DEF Right
  <2>5. CASE ~(e.type = "ProcessReady" /\ e.service = svc
               /\ state[svc] # "Running" /\ state'[svc] = "Running")
    <3>1. handle'[svc] = handle[svc]
      <4>1. CASE start_health_check(e.service) /\ e.service # svc
        BY <1>3, <4>1 DEF start_health_check
      <4> QED
        BY <1>2, <2>5, <4>1
    <3>2. \/ state'[svc] = state[svc] \/ state'[svc] = "Stopping"
          \/ state'[svc] \in {"Crashed", "Error"} /\ Asks(effects', KillService(svc))
          \/ state[svc] \notin Active /\ state'[svc] # "Running"
      BY <1>1, <1>3, <2>5, WhyMoved
    <3>3. ASSUME e.type = "ProcessExit", e.service = svc
          PROVE  /\ state[svc] = "Stopping" => state'[svc] # "Stopping"
                 /\ state[svc] \in Active => state'[svc] \in {"Crashed", "Error"}
      BY <1>1, <1>3, <3>3, ExitMoves DEF reducer
    <3> QED
      BY <1>1, <2>1, <2>2, <2>3, <3>1, <3>2, <3>3, EventRight
  <2> QED
    BY <2>4, <2>5
<1> QED
  BY <1>4, <1>5 DEF PInv

(* What happens around the loop: a process may end, and is then reported.  *)
LEMMA EndRight ==
    ASSUME LInv, NEW svc \in Service, ServiceRight(svc), UNCHANGED <<vars, executed, loop>>,
           ProcessEnds(svc), SpawnsSucceed, Event \subseteq Event'
    PROVE  ServiceRight(svc)'
<1>1. UNCHANGED <<state, assigned, attempt, loop>> /\ ToDo' = ToDo
  BY DEF vars, app, status, ledger, ToDo
<1>2. /\ DOMAIN handle = Service /\ queue \in Seq(Message)
      /\ DOMAIN handle[svc] = {"watcher", "port", "born", "conf", "became_ready", "checked"}
  BY DEF LInv, ExecutorTyped, HandleTyped, LoopTyped
<1>3. /\ handle[svc].watcher = "live" /\ handle'[svc].watcher = "gone"
      /\ handle'[svc].port = handle[svc].port /\ handle'[svc].born = handle[svc].born
      /\ handle'[svc].became_ready = handle[svc].became_ready
      /\ handle'[svc].checked = handle[svc].checked
  BY <1>2 DEF ProcessEnds, Live
<1>4. Coming("ProcessExit", svc)'
  <2>1. send(<<process_exit(svc, handle[svc].born)>>)
    BY DEF ProcessEnds, SpawnsSucceed, PortMayBeTaken, fault
  <2>2. process_exit(svc, handle[svc].born) \in Event'
    BY <1>2, <2>1, HandlesTyped, SendOne
  <2>3. /\ process_exit(svc, handle[svc].born).type = "ProcessExit"
        /\ process_exit(svc, handle[svc].born).service = svc
    BY DEF process_exit
  <2> QED
    BY <2>2, <2>3 DEF Coming
<1> QED
  BY <1>1, <1>3, <1>4
     DEF ServiceRight, Owned, Reported, Stops, Spawned, OnIt, Up, Empty, PortKept, Over

(* The threads keep the invariant: a watcher ends by reporting.            *)
LEMMA OutsideRight ==
    ASSUME SpawnsSucceed, LInv, PInv, OutsideStep
    PROVE  PInv'
<1>1. UNCHANGED <<vars, executed, loop>> /\ Event \subseteq Event'
  BY OutsideLeaves
<1>2. ToDo' = ToDo /\ DOMAIN handle = Service
  BY <1>1 DEF ToDo, vars, LInv, ExecutorTyped
<1>3. ASSUME NEW svc \in Service PROVE ServiceRight(svc)'
  <2>1. CASE Watcher(svc)
    BY <1>1, <2>1, EndRight DEF Watcher, ThreadStep, PInv
  <2>2. CASE ~Watcher(svc)
    <3>1. handle'[svc] = handle[svc]
      <4>1. ASSUME NEW t \in Service, t # svc, Watcher(t) PROVE handle'[svc] = handle[svc]
        BY <1>2, <4>1 DEF Watcher, ThreadStep, ProcessEnds
      <4>2. ASSUME NEW t \in Service, Poller(t) \/ Timer(t) \/ CheckPasses(t) \/ CheckFails(t)
            PROVE  UNCHANGED handle
        BY <4>2 DEF Poller, Timer, CheckPasses, CheckFails, ThreadStep, PollerReports, TimerFires,
                    HealthPasses, HealthFails
      <4>3. CASE DirChanges \/ TickFires \/ UserCommand
        BY <4>3 DEF DirChanges, TickFires, UserCommand
      <4> QED
        BY <2>2, <4>1, <4>2, <4>3 DEF OutsideStep
    <3> QED
      BY <1>1, <1>2, <3>1, LeftAlone, ComingKept DEF PInv
  <2> QED
    BY <2>1, <2>2
<1> QED
  BY <1>1, <1>3, ListKept DEF PInv

(* The debounce keeps it: no report is a command.                          *)
LEMMA DropRight ==
    ASSUME LInv, PInv, DropCommand
    PROVE  PInv'
<1>1. /\ UNCHANGED <<vars, executed, handle, loop>>
      /\ \A e \in Event : e \in Event' \/ e.type \in {"StartService", "StopService", "RestartService"}
  BY DropLeaves
<1>2. ToDo' = ToDo
  BY <1>1 DEF ToDo, vars
<1>3. ASSUME NEW svc \in Service PROVE ServiceRight(svc)'
  <2>1. Coming("ProcessExit", svc) => Coming("ProcessExit", svc)'
    BY <1>1 DEF Coming
  <2> QED
    BY <1>1, <1>2, <2>1, LeftAlone DEF PInv
<1> QED
  BY <1>1, <1>3, ListKept DEF PInv

(* The joins find nothing to do.                                           *)
LEMMA JoinRight ==
    ASSUME LInv, PInv, Shutdown
    PROVE  PInv'
<1>1. /\ UNCHANGED vars /\ loop' = "ended" /\ loop = "joining"
      /\ handle' = [svc \in Service |-> NoHandle]
  BY DEF Shutdown, shutdown_and_join
<1>2. state' = state /\ NoHandle.watcher = "none"
  BY <1>1 DEF vars, app, status, NoHandle
<1>3. ASSUME NEW svc \in Service PROVE ServiceRight(svc)'
  <2>1. state[svc] \notin Active
    BY <1>1 DEF PInv, ServiceRight, Over
  <2> QED
    BY <1>1, <1>2, <2>1
       DEF ServiceRight, Owned, Reported, Stops, Spawned, Up, Empty, PortKept, Over, Active
<1>4. ListRight'
  BY <1>1, ListKept DEF PInv
<1> QED
  BY <1>3, <1>4 DEF PInv

(* At the start nothing is up and nothing is under way.                    *)
LEMMA StartsRight ==
    ASSUME LoopInit
    PROVE  PInv
<1>1. effects = <<>> /\ loop = "running" /\ handle = [svc \in Service |-> NoHandle]
      /\ \A svc \in Service : state[svc] \in {"Stopped", "Error"}
  BY DEF LoopInit, Init
<1>2. NoHandle.watcher = "none" /\ \A e : ~Asks(effects, e)
  BY <1>1, AsksShort DEF NoHandle
<1> QED
  BY <1>1, <1>2
     DEF PInv, ListRight, ServiceRight, Owned, Reported, Stops, Spawned, Up, Empty, PortKept, Over

(* The invariant holds of every behaviour of the loop in which a spawn     *)
(* that is asked for succeeds.                                             *)
THEOREM ProcessesInductive ==
    ASSUME SpawnsSucceed
    PROVE  LoopSpec => []PInv
<1>1. LInv /\ PInv /\ [LoopNext]_all_vars => PInv'
  <2> SUFFICES ASSUME LInv, PInv, [LoopNext]_all_vars
               PROVE  PInv'
    OBVIOUS
  <2>1. CASE UNCHANGED all_vars
    <3>1. UNCHANGED <<vars, executed, queue, handle, loop>>
      BY <2>1 DEF all_vars, machine, loop_vars
    <3>2. ToDo' = ToDo /\ Event' = Event
      BY <3>1 DEF ToDo, Event, vars
    <3> QED
      BY <3>1, <3>2, LeftAlone, ComingKept, ListKept DEF PInv
  <2>2. CASE OutsideStep
    BY <2>2, OutsideRight
  <2>3. CASE LoopStep
    BY <2>3, HandleRight, ExecuteRight, DropRight, JoinRight DEF LoopStep
  <2> QED
    BY <2>1, <2>2, <2>3 DEF LoopNext, OutsideStep
<1>2. LoopInit => PInv
  BY StartsRight
<1> QED
  BY <1>1, <1>2, LoopInductive, PTL DEF LoopSpec

(* Once the loop has carried a stop, a crash or a last retry through, no   *)
(* process of that service is left behind, whatever it was and is said to  *)
(* be, Error included (executor.rs, KillService; reducer.rs,               *)
(* crash_and_retry and StopService).                                       *)
THEOREM DownIsDead ==
    ASSUME SpawnsSucceed
    PROVE  LoopSpec => []DownMeansDead
<1>1. LInv /\ PInv => DownMeansDead
  BY IdleHasNothing DEF PInv, ServiceRight, Owned, DownMeansDead, Live, Active
<1> QED
  BY <1>1, LoopInductive, ProcessesInductive, PTL

(* A kill finds in the ledger the port the process listens on, where       *)
(* do_kill looks it up to ask MySQL for a clean shutdown, but for the kill *)
(* after the last retry (executor.rs:316; reducer.rs, crash_and_retry).    *)
THEOREM KillsFindPorts ==
    ASSUME SpawnsSucceed
    PROVE  LoopSpec => []KillFindsPort
<1>1. LInv /\ PInv => KillFindsPort
  <2> SUFFICES ASSUME LInv, PInv, NEW svc \in Service, KillService(svc) \in ToDo, Live(svc),
                      state[svc] # "Error"
               PROVE  assigned[svc] = handle[svc].port
    BY DEF KillFindsPort
  <2>1. Asks(effects, KillService(svc))
    BY DEF ToDo, Asks, LInv, LoopTyped, EffectsTyped
  <2> QED
    BY <2>1 DEF PInv, ListRight, ServiceRight, PortKept, Live
<1> QED
  BY <1>1, LoopInductive, ProcessesInductive, PTL

(* A shutdown kills every process by its effects: shutdown_and_join finds  *)
(* nothing left to do (executor.rs, shutdown_and_join).                    *)
THEOREM ShutdownLeavesNothing ==
    ASSUME SpawnsSucceed
    PROVE  LoopSpec => []ShutdownIsClean
<1>1. LInv /\ PInv => ShutdownIsClean
  BY IdleHasNothing DEF PInv, ServiceRight, Owned, Over, ShutdownIsClean, Live
<1> QED
  BY <1>1, LoopInductive, ProcessesInductive, PTL

(* A service is Running only on the process of its own attempt and port,   *)
(* with its health checked: no stale poller, no repeated attempt token and *)
(* no foreign server brings it there without one.                          *)
THEOREM RunsOnItsProcess ==
    ASSUME SpawnsSucceed
    PROVE  LoopSpec => []RunningHasHandle
<1>1. PInv => RunningHasHandle
  BY DEF PInv, ServiceRight, Up, OnIt, RunningHasHandle
<1> QED
  BY <1>1, ProcessesInductive, PTL

(* A service that is Stopping has its kill still to come, or its exit in   *)
(* the channel, real or made up: it never stays there (executor.rs,        *)
(* do_kill).                                                               *)
THEOREM StopsAreFinished ==
    ASSUME SpawnsSucceed
    PROVE  LoopSpec => []StoppingResolves
<1>1. PInv => StoppingResolves
  BY DEF PInv, ServiceRight, Stops, StoppingResolves
<1> QED
  BY <1>1, ProcessesInductive, PTL
-------------------------------------------------------------------------------
(* Configuration.  A process that is up runs on what is on the disk, or    *)
(* its restart is in the channel.                                          *)
RestartComes(svc) ==
    \E e \in Event : e.type = "ConfigsReconciled" /\ svc \in e.changed \ e.spawning
ConfRight(svc) ==
    Live(svc) /\ state[svc] \in Active =>
        handle[svc].conf = conf_of(svc, disk) \/ RestartComes(svc)

(* A spawn is the first effect of its list, and what it starts is not      *)
(* there yet.  So the one service a reconcile does not restart is the one  *)
(* that is spawned from the files it wrote.                                *)
SpawnFirst == \A i \in 1..Len(effects) : effects[i].type = "SpawnService" => i = 1
Unspawned == \A e \in ToDo : e.type = "SpawnService" => ~Live(e.service)

CInv == SpawnFirst /\ Unspawned /\ \A svc \in Service : ConfRight(svc)

(* A start has its spawn at the head of the list, and no other.            *)
LEMMA BeginsFirst ==
    ASSUME LInv, NEW svc \in Service, NEW err \in BOOLEAN, NEW then \in {<<>>, <<PersistDesiredState>>},
           begin_start(svc, err, then)
    PROVE  /\ SpawnFirst'
           /\ \A e : Asks(effects', e) /\ e.type = "SpawnService" => e.service = svc
<1>1. NoSpawn(then) /\ (then = <<>> \/ then = <<PersistDesiredState>>)
  BY AsksOne DEF Plain
<1>2. CASE effects' = then
  BY <1>1, <1>2 DEF NoSpawn, SpawnFirst, Asks
<1>3. ASSUME NEW port, effects' = spawn(svc, port) \o then
      PROVE  /\ SpawnFirst'
             /\ \A e : Asks(effects', e) /\ e.type = "SpawnService" => e.service = svc
  <2> DEFINE a == SpawnService(svc, port)
             b == StartReadinessCheck(svc, port, attempt'[svc])
  <2>1. /\ b.type # "SpawnService" /\ a.service = svc
        /\ PersistDesiredState.type # "SpawnService"
    BY DEF StartReadinessCheck, SpawnService, PersistDesiredState
  <2>2. effects' = <<a, b>> \o then
    BY <1>3 DEF spawn
  <2> HIDE DEF a, b
  <2>3. /\ Len(effects') \in 2..3 /\ effects'[1] = a /\ effects'[2] = b
        /\ Len(effects') = 3 => effects'[3] = PersistDesiredState
    <3>1. CASE then = <<>>
      BY <2>2, <3>1
    <3>2. CASE then = <<PersistDesiredState>>
      BY <2>2, <3>2
    <3> QED
      BY <1>1, <3>1, <3>2
  <2> QED
    BY <2>1, <2>3 DEF SpawnFirst, Asks
<1> QED
  BY <1>2, <1>3 DEF begin_start

(* A service that is spawned was not up.                                   *)
LEMMA CrashSpawnsNothing ==
    ASSUME NEW svc \in Service, crash_and_retry(svc)
    PROVE  NoSpawn(effects')
<1>1. PICK rest \in {<<ScheduleRetry(svc)>>, <<>>} : effects' = kill(svc) \o rest
  BY DEF crash_and_retry, schedule
<1>2. kill(svc) \in Seq(Effect) /\ rest \in Seq(Effect) /\ NoSpawn(kill(svc)) /\ NoSpawn(rest)
  BY EffectTypes, AsksKill, AsksOne DEF Plain
<1> QED
  BY <1>1, <1>2, NoSpawnConcat

BeginsAtRest ==
    \E svc \in Service, err \in BOOLEAN, then \in {<<>>, <<PersistDesiredState>>} :
        begin_start(svc, err, then) /\ state[svc] \notin Active

(* Who asks for a spawn begins a service that rests.                       *)
LEMMA WhySpawned ==
    ASSUME LInv, NEW e \in Message, Expected(e), reducer(e)
    PROVE  NoSpawn(effects') \/ BeginsAtRest
<1>1. StateTyped /\ last_error \in [Service -> BOOLEAN]
  BY DEF LInv, IInv, StateTyped
<1>2. /\ NoSpawn(<<>>) /\ NoSpawn(<<PersistDesiredState>>) /\ NoSpawn(<<PersistConfig>>)
      /\ NoSpawn(<<OpenPhpMyAdminBrowser>>) /\ \A b : NoSpawn(<<ToggleEffect(b)>>)
      /\ \A svc \in Service : NoSpawn(kill(svc)) /\ kill(svc) \in Seq(Effect)
      /\ \A S \in SUBSET Service : NoSpawn(kill_all(S)) /\ kill_all(S) \in Seq(Effect)
      /\ <<>> \in Seq(Effect) /\ <<PersistDesiredState>> \in Seq(Effect) /\ <<PersistConfig>> \in Seq(Effect)
  BY AsksOne, AsksKill, AsksKillAll, EffectTypes, KillAllTyped DEF Plain
<1>3. CASE ignored
  BY <1>2, <1>3 DEF ignored
<1>4. CASE e.type \in {"StartService", "StopService", "RestartService", "AutoRetry"}
  <2> DEFINE svc == e.service
  <2>1. /\ svc \in Service
        /\ StartService(svc) \/ StopService(svc) \/ RestartService(svc) \/ AutoRetry(svc)
    BY <1>4 DEF reducer, Message, Command, ServiceMessage, ExitMessage, PortMessage,
                PollerMessage, FilesMessage, SwitchMessage, TickMessage
  <2> HIDE DEF svc
  <2>2. CASE StartService(svc) \/ AutoRetry(svc)
    BY <1>1, <1>3, <2>1, <2>2
       DEF StartService, AutoRetry, retry_due, Startable, Active, BeginsAtRest
  <2>3. CASE StopService(svc)
    <3>1. NoSpawn(kill(svc) \o <<PersistDesiredState>>)
      BY <1>2, <2>1, NoSpawnConcat
    <3> QED
      BY <1>2, <1>3, <2>3, <3>1 DEF StopService, stop_effects
  <2>4. CASE RestartService(svc)
    BY <1>1, <1>2, <2>1, <2>4 DEF RestartService, Startable, Active, BeginsAtRest
  <2> QED
    BY <2>1, <2>2, <2>3, <2>4
<1>5. CASE e.type \in {"ProcessReady", "ReadinessTimeout", "ProcessExit", "HealthCheckPass",
                       "HealthCheckFail"}
  <2> DEFINE svc == e.service
  <2>1. /\ svc \in Service
        /\ \/ ProcessReady(svc, e.attempt) \/ ReadinessTimeout(svc, e.attempt)
           \/ ProcessExit(svc) \/ HealthCheckPass(svc) \/ HealthCheckFail(svc)
    BY <1>5 DEF reducer, Message, Command, ServiceMessage, ExitMessage, PortMessage,
                PollerMessage, FilesMessage, SwitchMessage, TickMessage
  <2> HIDE DEF svc
  <2>2. CASE ProcessReady(svc, e.attempt) \/ ReadinessTimeout(svc, e.attempt)
    BY <1>2, <1>3, <2>1, <2>2, CrashSpawnsNothing DEF ProcessReady, ReadinessTimeout
  <2>3. CASE ProcessExit(svc)
    BY <1>1, <1>2, <1>3, <2>1, <2>3, CrashSpawnsNothing DEF ProcessExit, Active, BeginsAtRest
  <2>4. CASE HealthCheckPass(svc) \/ HealthCheckFail(svc)
    BY <1>2, <1>3, <2>1, <2>4, CrashSpawnsNothing DEF HealthCheckPass, HealthCheckFail
  <2> QED
    BY <2>1, <2>2, <2>3, <2>4
<1>6. CASE e.type = "ShutdownAll"
  <2>1. ActiveServices \in SUBSET Service /\ ShutdownAll
    BY <1>6 DEF ActiveServices, reducer
  <2>2. NoSpawn(kill_all(ActiveServices) \o <<PersistDesiredState>>)
    BY <1>2, <2>1, NoSpawnConcat
  <2> QED
    BY <2>1, <2>2 DEF ShutdownAll
<1>7. ASSUME NEW S, NEW first \in {<<>>, <<PersistConfig>>}, restart_up(S, first)
      PROVE  NoSpawn(effects')
  <2> DEFINE up == S \cap ActiveServices
  <2>1. up \in SUBSET Service /\ effects' = first \o kill_all(up)
    BY <1>7 DEF restart_up, ActiveServices
  <2> HIDE DEF up
  <2> QED
    BY <1>2, <2>1, NoSpawnConcat
<1>8. CASE e.type \in {"ConfigsReconciled", "SetDocumentRoot"}
  BY <1>7, <1>8 DEF reducer, ConfigsReconciled, SetDocumentRoot
<1>9. CASE e.type \in {"ConfigReloaded", "TogglePhpMyAdmin", "PhpMyAdminToggled",
                       "PhpMyAdminDirChanged", "Tick"}
  BY <1>2, <1>3, <1>9
     DEF reducer, ConfigReloaded, TogglePhpMyAdmin, PhpMyAdminToggled, PhpMyAdminDirChanged, Tick
<1> QED
  BY <1>4, <1>5, <1>6, <1>8, <1>9 DEF reducer, Expected

(* A pass over the disk tells of every service whose files it changes,     *)
(* except the one that is being spawned.                                   *)
LEMMA ReconcileTells ==
    ASSUME NEW svc \in Service, NEW want, NEW changed, NEW spawning, svc \notin spawning,
           disk' = reconciled(disk, want, changed), DOMAIN disk = ManagedFile,
           configs_reconciled(changed, spawning) \in Event'
    PROVE  conf_of(svc, disk') = conf_of(svc, disk) \/ RestartComes(svc)'
<1> DEFINE m == configs_reconciled(changed, spawning)
<1>1. CASE \E f \in changed : Reader(f) = svc
  <2>1. m.type = "ConfigsReconciled" /\ svc \in m.changed /\ svc \notin m.spawning
    BY <1>1 DEF configs_reconciled
  <2> QED
    BY <2>1 DEF RestartComes
<1>2. CASE ~\E f \in changed : Reader(f) = svc
  <2>1. \A f \in ManagedFile : Reader(f) = svc => disk'[f] = disk[f]
    BY <1>2 DEF reconciled
  <2> QED
    BY <2>1 DEF conf_of
<1> QED
  BY <1>1, <1>2

(* Every effect keeps the disk, or tells.                                  *)
LEMMA DiskTells ==
    ASSUME LInv, NEW svc \in Service, ExecuteEffect,
           effects[executed + 1].type = "SpawnService" => effects[executed + 1].service # svc
    PROVE  conf_of(svc, disk') = conf_of(svc, disk) \/ RestartComes(svc)'
<1> DEFINE e == effects[executed + 1]
<1>1. /\ \/ done /\ execute_at_once(e)
         \/ e.type = "SpawnService" /\ do_spawn(e.service, e.port)
         \/ e.type = "TogglePhpMyAdmin" /\ do_toggle_phpmyadmin(e.enable)
      /\ executed < Len(effects)
  BY DEF ExecuteEffect, execute
<1>2. /\ e.type = "SpawnService" => e.service # svc /\ e.service \in Service
      /\ queue \in Seq(Message) /\ DOMAIN disk = ManagedFile
  <2>1. effects \in Seq(Effect) /\ executed \in 0..Len(effects)
    BY DEF LInv, EffectsTyped, LoopTyped
  <2>2. e \in Effect
    BY <1>1, <2>1
  <2> QED
    BY <2>2 DEF Effect, LInv, LoopTyped, ExecutorTyped
<1> HIDE DEF e
<1>3. CASE UNCHANGED disk
  BY <1>3
<1>4. ASSUME NEW want, NEW changed, NEW spawning \in {{}, {e.service}}, svc \notin spawning,
             spawning = {} \/ e.service \in Service,
             disk' = reconciled(disk, want, changed), send(<<configs_reconciled(changed, spawning)>>)
      PROVE  conf_of(svc, disk') = conf_of(svc, disk) \/ RestartComes(svc)'
  <2>1. configs_reconciled(changed, spawning) \in Message
    BY <1>4, MessagesTyped, OtherMessagesTyped
  <2>2. configs_reconciled(changed, spawning) \in Event'
    BY <1>2, <1>4, <2>1, SendOne
  <2> QED
    BY <1>2, <1>4, <2>2, ReconcileTells
<1>5. CASE e.type = "SpawnService" /\ do_spawn(e.service, e.port)
  <2>1. CASE UNCHANGED disk
    BY <2>1
  <2>2. ASSUME NEW changed, write_configs(phpmyadmin_enabled, changed),
               send(<<configs_reconciled(changed, {e.service})>>)
        PROVE  conf_of(svc, disk') = conf_of(svc, disk) \/ RestartComes(svc)'
    BY <1>2, <1>4, <1>5, <2>2 DEF write_configs
  <2> QED
    BY <1>5, <2>1, <2>2 DEF do_spawn, prepare_spawn, refuse
<1>6. CASE do_toggle_phpmyadmin(e.enable)
  <2>1. ASSUME NEW changed, write_configs(e.enable, changed), send(<<configs_reconciled(changed, {})>>)
        PROVE  conf_of(svc, disk') = conf_of(svc, disk) \/ RestartComes(svc)'
    BY <1>4, <2>1 DEF write_configs
  <2> QED
    BY <1>3, <1>6, <2>1 DEF do_toggle_phpmyadmin, reconcile_toggled
<1>7. CASE do_persist_config
  BY <1>3, <1>4, <1>7 DEF do_persist_config
<1> QED
  BY <1>1, <1>3, <1>5, <1>6, <1>7
     DEF execute_at_once, do_kill_effect, do_readiness_check, do_stop_health, do_schedule_retry,
         do_persist

(* Sending keeps a restart on its way.                                     *)
LEMMA RestartKept ==
    ASSUME Event \subseteq Event', NEW svc
    PROVE  RestartComes(svc) => RestartComes(svc)'
BY DEF RestartComes

(* An effect keeps the processes on the disk: what rewrites a file         *)
(* announces it, and spares only the service it is about to spawn.         *)
LEMMA ExecuteApplies ==
    ASSUME LInv, CInv, ExecuteEffect
    PROVE  CInv'
<1> DEFINE e == effects[executed + 1]
<1>1. /\ \/ done /\ execute_at_once(e)
         \/ e.type = "SpawnService" /\ do_spawn(e.service, e.port)
         \/ e.type = "TogglePhpMyAdmin" /\ do_toggle_phpmyadmin(e.enable)
      /\ UNCHANGED vars /\ executed < Len(effects) /\ Event \subseteq Event'
  BY ExecuteLeaves DEF ExecuteEffect, execute
<1>2. /\ executed \in Nat /\ Len(effects) \in Nat /\ DOMAIN handle = Service
      /\ e \in ToDo /\ \A svc \in Service : HandleTyped(handle[svc])
  <2>1. effects \in Seq(Effect) /\ executed \in 0..Len(effects)
    BY DEF LInv, EffectsTyped, LoopTyped
  <2>2. executed + 1 \in executed + 1..Len(effects)
    BY <1>1, <2>1
  <2> QED
    BY <2>1, <2>2 DEF ToDo, LInv, ExecutorTyped
<1>3. UNCHANGED <<state, effects>> /\ executed' \in {executed, executed + 1}
  BY <1>1 DEF vars, app, status, done, do_spawn, prepare_spawn, refuse, go_on, do_toggle_phpmyadmin
<1>4. ToDo' \subseteq ToDo /\ (executed' = executed + 1 => \A f \in ToDo' : f.type # "SpawnService")
  <2>1. executed' + 1..Len(effects') \subseteq executed + 1..Len(effects)
    BY <1>2, <1>3
  <2>2. ASSUME executed' = executed + 1, NEW i \in executed' + 1..Len(effects')
        PROVE  effects'[i].type # "SpawnService"
    BY <1>2, <1>3, <2>2 DEF CInv, SpawnFirst
  <2> QED
    BY <1>3, <2>1, <2>2 DEF ToDo
<1>5. ASSUME NEW svc \in Service, Live(svc)', e.type = "SpawnService" => e.service # svc
      PROVE  Live(svc) /\ handle'[svc].conf = handle[svc].conf
  <2>1. handle'[svc].watcher = "live" /\ NoHandle.watcher # "live"
    BY <1>5 DEF Live, NoHandle
  <2>2. CASE do_kill_effect(e.service)
    BY <1>2, <2>1, <2>2 DEF do_kill_effect, Live
  <2>3. CASE do_stop_health(e.service)
    BY <1>2, <2>1, <2>3 DEF do_stop_health, Live, HandleTyped
  <2>4. CASE e.type = "SpawnService" /\ do_spawn(e.service, e.port)
    BY <1>2, <1>5, <2>1, <2>4 DEF do_spawn, prepare_spawn, refuse, Live
  <2>5. CASE UNCHANGED handle
    BY <2>1, <2>5 DEF Live
  <2> QED
    BY <1>1, <2>2, <2>3, <2>4, <2>5
       DEF execute_at_once, do_readiness_check, do_schedule_retry, do_persist, do_persist_config,
           do_toggle_phpmyadmin
<1>6. ASSUME NEW svc \in Service, Live(svc)', e.type = "SpawnService", e.service = svc
      PROVE  handle'[svc].conf = conf_of(svc, disk') /\ executed' = executed + 1
  <2>1. ~Live(svc) /\ handle'[svc].watcher = "live" /\ NoHandle.watcher # "live"
    BY <1>2, <1>6 DEF CInv, Unspawned, Live, NoHandle
  <2>2. do_spawn(svc, e.port)
    BY <1>1, <1>6 DEF execute_at_once, do_persist, do_persist_config
  <2>3. handle' = [handle EXCEPT ![svc] = launch(svc, e.port)] /\ done /\ UNCHANGED disk
    BY <1>2, <2>1, <2>2 DEF do_spawn, prepare_spawn, refuse, Live
  <2> QED
    BY <1>2, <2>3 DEF launch, done
<1>7. SpawnFirst'
  BY <1>3 DEF CInv, SpawnFirst
<1>8. Unspawned'
  <2> SUFFICES ASSUME NEW f \in ToDo', f.type = "SpawnService", Live(f.service)'
               PROVE  FALSE
    BY DEF Unspawned
  <2>1. f \in ToDo /\ ~Live(f.service)
    BY <1>4 DEF CInv, Unspawned
  <2>2. f.service \in Service
    <3>1. effects \in Seq(Effect) /\ executed \in Nat
      BY <1>2 DEF LInv, EffectsTyped
    <3>2. f \in Effect
      BY <2>1, <3>1 DEF ToDo
    <3> QED
      BY <3>2 DEF Effect
  <2>3. executed' # executed + 1
    BY <1>4
  <2> QED
    BY <1>5, <1>6, <2>1, <2>2, <2>3
<1>9. ASSUME NEW svc \in Service PROVE ConfRight(svc)'
  <2> SUFFICES ASSUME Live(svc)', state[svc] \in Active
               PROVE  handle'[svc].conf = conf_of(svc, disk') \/ RestartComes(svc)'
    BY <1>3 DEF ConfRight
  <2>1. CASE e.type = "SpawnService" => e.service # svc
    <3>1. Live(svc) /\ handle'[svc].conf = handle[svc].conf
      BY <1>5, <2>1
    <3>2. handle[svc].conf = conf_of(svc, disk) \/ RestartComes(svc)'
      BY <1>1, <3>1, RestartKept DEF CInv, ConfRight
    <3>3. conf_of(svc, disk') = conf_of(svc, disk) \/ RestartComes(svc)'
      BY <2>1, DiskTells
    <3> QED
      BY <3>1, <3>2, <3>3
  <2> QED
    BY <1>6, <2>1
<1> QED
  BY <1>7, <1>8, <1>9 DEF CInv

(* The event the loop takes keeps them there: it restarts who is named, or *)
(* begins and ends others.                                                 *)
LEMMA HandleApplies ==
    ASSUME SpawnsSucceed, LInv, PInv, CInv, HandleEvent
    PROVE  CInv'
<1> DEFINE e == Head(queue)
<1>1. /\ ToDo = {} /\ (\A f \in Event : f = e \/ f \in Event') /\ StepRight
      /\ e \in Message /\ reducer(e) /\ loop = "running"
  BY HandleLeaves
<1>2. /\ \/ start_health_check(e.service)
         \/ UNCHANGED handle
      /\ disk' = disk /\ executed' = 0
  BY DEF HandleEvent
<1> HIDE DEF e
<1>3. DOMAIN handle = Service /\ Expected(e) /\ \A svc \in Service : HandleTyped(handle[svc])
  BY <1>1, MessagesExpected DEF LInv, ExecutorTyped
<1>4. ASSUME NEW svc \in Service, Live(svc)'
      PROVE  Live(svc) /\ handle'[svc].conf = handle[svc].conf
  BY <1>2, <1>3, <1>4 DEF start_health_check, Live, HandleTyped
<1>5. ASSUME NEW svc \in Service, Live(svc)
      PROVE  state[svc] \in Active
  BY <1>1, <1>5 DEF PInv, ServiceRight, Owned, Live
<1>6. /\ SpawnFirst'
      /\ \A f : Asks(effects', f) /\ f.type = "SpawnService" =>
             f.service \in Service /\ state[f.service] \notin Active
  <2>1. CASE NoSpawn(effects')
    BY <2>1 DEF NoSpawn, SpawnFirst, Asks
  <2>2. CASE BeginsAtRest
    BY <2>2, BeginsFirst DEF BeginsAtRest
  <2> QED
    BY <1>1, <1>3, <2>1, <2>2, WhySpawned
<1>7. Unspawned'
  <2>1. \A f \in ToDo' : Asks(effects', f)
    BY <1>2 DEF ToDo, Asks
  <2> QED
    BY <1>4, <1>5, <1>6, <2>1 DEF Unspawned
<1>8. ASSUME NEW svc \in Service PROVE ConfRight(svc)'
  <2> SUFFICES ASSUME Live(svc)', state'[svc] \in Active
               PROVE  handle'[svc].conf = conf_of(svc, disk') \/ RestartComes(svc)'
    BY DEF ConfRight
  <2>1. Live(svc) /\ handle'[svc].conf = handle[svc].conf /\ state[svc] \in Active
    BY <1>4, <1>5
  <2>2. handle[svc].conf = conf_of(svc, disk) \/ RestartComes(svc)
    BY <2>1 DEF CInv, ConfRight
  <2>3. ASSUME e.type = "ConfigsReconciled", svc \in e.changed \ e.spawning
        PROVE  FALSE
    <3>1. restart_up(e.changed \ e.spawning, <<>>)
      BY <1>1, <2>3 DEF reducer, ConfigsReconciled
    <3>2. state'[svc] = "Stopping"
      BY <2>1, <2>3, <3>1 DEF restart_up, stopping, ActiveServices
    <3> QED
      BY <3>2 DEF Active
  <2>4. RestartComes(svc) => RestartComes(svc)'
    BY <1>1, <2>3 DEF RestartComes
  <2> QED
    BY <1>2, <2>1, <2>2, <2>4
<1> QED
  BY <1>6, <1>7, <1>8 DEF CInv

(* Nothing else touches the disk, the list or what a process runs on.      *)
LEMMA AppliedKept ==
    ASSUME CInv, UNCHANGED <<vars, executed, disk>>,
           \A svc \in Service : RestartComes(svc) => RestartComes(svc)',
           \A svc \in Service : Live(svc)' => Live(svc) /\ handle'[svc].conf = handle[svc].conf,
           LInv
    PROVE  CInv'
<1>1. UNCHANGED <<state, effects>>
  BY DEF vars, app, status
<1>2. ToDo' = ToDo
  BY <1>1 DEF ToDo
<1>3. ASSUME NEW f \in ToDo, f.type = "SpawnService" PROVE f.service \in Service
  <2>1. effects \in Seq(Effect) /\ executed \in 0..Len(effects)
    BY DEF LInv, EffectsTyped, LoopTyped
  <2>2. f \in Effect
    BY <2>1 DEF ToDo
  <2> QED
    BY <1>3, <2>2 DEF Effect
<1> QED
  BY <1>1, <1>2, <1>3 DEF CInv, SpawnFirst, Unspawned, ConfRight

(* The threads rewrite nothing.                                            *)
LEMMA OutsideApplies ==
    ASSUME LInv, CInv, OutsideStep
    PROVE  CInv'
<1>1. UNCHANGED <<vars, executed, disk>> /\ Event \subseteq Event'
  BY OutsideLeaves
<1>2. DOMAIN handle = Service /\ \A svc \in Service : HandleTyped(handle[svc])
  BY DEF LInv, ExecutorTyped
<1>3. ASSUME NEW svc \in Service, Live(svc)'
      PROVE  Live(svc) /\ handle'[svc].conf = handle[svc].conf
  <2>1. ASSUME NEW t \in Service, Watcher(t) PROVE handle' = [handle EXCEPT ![t].watcher = "gone"]
    BY <2>1 DEF Watcher, ThreadStep, ProcessEnds
  <2>2. ASSUME NEW t \in Service, Poller(t) \/ Timer(t) \/ CheckPasses(t) \/ CheckFails(t)
        PROVE  UNCHANGED handle
    BY <2>2 DEF Poller, Timer, CheckPasses, CheckFails, ThreadStep, PollerReports, TimerFires,
                HealthPasses, HealthFails
  <2>3. CASE DirChanges \/ TickFires \/ UserCommand
    BY <1>3, <2>3 DEF DirChanges, TickFires, UserCommand, Live
  <2>4. ASSUME NEW t \in Service, handle' = [handle EXCEPT ![t].watcher = "gone"]
        PROVE  Live(svc) /\ handle'[svc].conf = handle[svc].conf
    BY <1>2, <1>3, <2>4 DEF Live, HandleTyped
  <2>5. CASE UNCHANGED handle
    BY <1>3, <2>5 DEF Live
  <2> QED
    BY <2>1, <2>2, <2>3, <2>4, <2>5 DEF OutsideStep
<1> QED
  BY <1>1, <1>3, AppliedKept, RestartKept

(* Every step keeps the processes on the disk, or a restart on its way.    *)
LEMMA AppliedStep ==
    ASSUME SpawnsSucceed, LInv, PInv, CInv, [LoopNext]_all_vars
    PROVE  CInv'
<1>1. CASE DropCommand
  <2>1. /\ UNCHANGED <<vars, executed, disk, handle>>
        /\ \A e \in Event : e \in Event' \/ e.type \in {"StartService", "StopService", "RestartService"}
    BY <1>1, DropLeaves
  <2>2. \A svc \in Service : RestartComes(svc) => RestartComes(svc)'
    BY <2>1 DEF RestartComes
  <2> QED
    BY <2>1, <2>2, AppliedKept DEF Live
<1>2. CASE Shutdown
  <2>1. UNCHANGED <<vars, executed, disk>> /\ \A svc \in Service : ~Live(svc)'
    BY <1>2 DEF Shutdown, shutdown_and_join, Live, NoHandle
  <2>2. UNCHANGED <<effects, executed>>
    BY <2>1 DEF vars
  <2>3. ToDo' = {}
    BY <1>2, <2>2, IdleHasNothing DEF ToDo, Shutdown
  <2> QED
    BY <2>1, <2>2, <2>3 DEF CInv, SpawnFirst, Unspawned, ConfRight
<1>3. CASE UNCHANGED all_vars
  <2>1. UNCHANGED <<vars, executed, disk, handle, queue>>
    BY <1>3 DEF all_vars, machine
  <2>2. \A svc \in Service : RestartComes(svc) => RestartComes(svc)'
    BY <2>1 DEF RestartComes, Event
  <2> QED
    BY <2>1, <2>2, AppliedKept DEF Live
<1> QED
  BY <1>1, <1>2, <1>3, HandleApplies, ExecuteApplies, OutsideApplies
     DEF LoopNext, LoopStep, OutsideStep

(* That much holds of every behaviour of the loop: no live process lags    *)
(* behind the disk without its restart in the channel (provision.rs,       *)
(* reconcile; reducer.rs, ConfigsReconciled).                              *)
THEOREM ConfigsInductive ==
    ASSUME SpawnsSucceed
    PROVE  LoopSpec => []CInv
<1>1. LoopInit => CInv
  <2> SUFFICES ASSUME LoopInit PROVE CInv
    OBVIOUS
  <2>1. effects = <<>> /\ executed = 0 /\ \A svc \in Service : handle[svc] = NoHandle
    BY DEF LoopInit, Init
  <2>0. NoHandle.watcher = "none"
    BY DEF NoHandle
  <2>2. \A svc \in Service : ~Live(svc)
    BY <2>0, <2>1 DEF Live
  <2>3. ToDo = {}
    BY <2>1 DEF ToDo
  <2> QED
    BY <2>1, <2>2, <2>3 DEF CInv, SpawnFirst, Unspawned, ConfRight
<1>2. LInv /\ PInv /\ CInv /\ [LoopNext]_all_vars => CInv'
  BY AppliedStep
<1> QED
  BY <1>1, <1>2, LoopInductive, ProcessesInductive, PTL DEF LoopSpec

(* When nothing is under way every process runs on the configuration that  *)
(* is on disk (provision.rs, reconcile; reducer.rs, ConfigsReconciled:     *)
(* every service whose file was rewritten is restarted, and the one that   *)
(* is left out is the one being spawned).                                  *)
THEOREM ConfigsReachProcesses ==
    ASSUME SpawnsSucceed
    PROVE  LoopSpec => []ConfigsApplied
<1>1. CInv => ConfigsApplied
  <2>1. queue = <<>> => \A svc \in Service : ~RestartComes(svc)
    BY DEF RestartComes, Event
  <2> QED
    BY <2>1 DEF CInv, ConfRight, ConfigsApplied, Settled, Active
<1> QED
  BY <1>1, ConfigsInductive, PTL

-------------------------------------------------------------------------------
(* The phpMyAdmin switch.  Position i of the channel says that the switch  *)
(* is b; position 0 is what the reducer knows.                             *)
Says(i, b) ==
    \/ i = 0 /\ phpmyadmin_enabled = b
    \/ i \in 1..Len(queue) /\ queue[i].type = "PhpMyAdminToggled" /\ queue[i].value = b

(* From position i on nothing says otherwise; what the last one says is    *)
(* what the switch is going to be.                                         *)
Agreed(i, b)  == \A k \in i..Len(queue), c \in BOOLEAN : Says(k, c) => c = b
Settles(i, b) == Says(i, b) /\ Agreed(i, b)
Finally(b)    == \E i \in 0..Len(queue) : Settles(i, b)

(* A restart of Apache that is in the channel: one after which Apache is   *)
(* spawned by the switch as it is going to be, and one that the loop takes *)
(* while the switch is on.                                                 *)
Restarts(j) ==
    /\ j \in 1..Len(queue) /\ queue[j].type = "ConfigsReconciled"
    /\ "Apache" \in queue[j].changed \ queue[j].spawning
Restart(b, j) == Restarts(j) /\ \E i \in 0..j - 1 : Settles(i, b)
Early(j) ==
    Restarts(j) /\ \E i \in 0..j - 1 : Says(i, TRUE) /\ \A k \in i..j : ~Says(k, FALSE)

(* A service that will not be Running before the loop has taken event j.   *)
Ready(svc, i) ==
    /\ queue[i].type = "ProcessReady" /\ queue[i].service = svc
    /\ queue[i].attempt = attempt[svc]
Waits(svc, j) ==
    /\ state[svc] # "Running"
    /\ state[svc] = "Starting" => \A i \in 1..j : ~Ready(svc, i)

Silent(list) == \A i \in 1..Len(list) : list[i].type # "PhpMyAdminToggled"

(* Where the events of a channel that has grown come from.                 *)
LEMMA Grown ==
    ASSUME NEW s \in Seq(Message), NEW more \in Seq(Message)
    PROVE  /\ Len(s) \in Nat /\ Len(more) \in Nat /\ Len(s \o more) = Len(s) + Len(more)
           /\ \A i \in 1..Len(s) : i \in 1..Len(s \o more) /\ (s \o more)[i] = s[i]
           /\ \A i \in 1..Len(s \o more) :
                  i \in 1..Len(s) \/ (i - Len(s) \in 1..Len(more) /\ (s \o more)[i] = more[i - Len(s)])
<1>1. /\ Len(s) \in Nat /\ Len(more) \in Nat /\ Len(s \o more) = Len(s) + Len(more)
      /\ \A i \in 1..Len(s) : (s \o more)[i] = s[i]
      /\ \A i \in 1..Len(more) : (s \o more)[Len(s) + i] = more[i]
  OBVIOUS
<1>2. ASSUME NEW i \in 1..Len(s \o more), i \notin 1..Len(s)
      PROVE  i - Len(s) \in 1..Len(more) /\ (s \o more)[i] = more[i - Len(s)]
  <2>1. i - Len(s) \in 1..Len(more) /\ i = Len(s) + (i - Len(s))
    BY <1>1, <1>2
  <2> QED
    BY <1>1, <2>1
<1> QED
  BY <1>1, <1>2

(* Sending what does not speak of the switch leaves all of it in place.    *)
LEMMA SilentSend ==
    ASSUME queue \in Seq(Message), NEW more \in Seq(Message), send(more), Silent(more),
           UNCHANGED phpmyadmin_enabled
    PROVE  /\ \A i \in Nat, b \in BOOLEAN : Says(i, b)' <=> Says(i, b)
           /\ \A i \in 0..Len(queue), b \in BOOLEAN : Agreed(i, b) <=> Agreed(i, b)'
           /\ \A b \in BOOLEAN : Finally(b)' <=> Finally(b)
           /\ \A b \in BOOLEAN, j \in 1..Len(queue) : Restart(b, j) => Restart(b, j)'
           /\ \A j \in 1..Len(queue) : Early(j) => Early(j)'
           /\ \A j \in 1..Len(queue) : j \in 1..Len(queue')
<1>1. /\ Len(queue) \in Nat /\ Len(more) \in Nat /\ Len(queue') = Len(queue) + Len(more)
      /\ \A i \in 1..Len(queue) : i \in 1..Len(queue') /\ queue'[i] = queue[i]
      /\ \A i \in 1..Len(queue') :
             i \in 1..Len(queue) \/ (i - Len(queue) \in 1..Len(more) /\ queue'[i] = more[i - Len(queue)])
  BY Grown DEF send
<1>2. ASSUME NEW i \in Nat, NEW b \in BOOLEAN PROVE Says(i, b)' <=> Says(i, b)
  BY <1>1 DEF Says, Silent
<1>3. ASSUME NEW i \in Nat, NEW b \in BOOLEAN, Says(i, b)' PROVE i \in 0..Len(queue)
  BY <1>1, <1>2, <1>3 DEF Says
<1>4. ASSUME NEW i \in 0..Len(queue), NEW b \in BOOLEAN PROVE Agreed(i, b) <=> Agreed(i, b)'
  <2>1. i..Len(queue) \subseteq i..Len(queue') /\ i..Len(queue') \subseteq Nat
    BY <1>1
  <2>2. ASSUME NEW k \in i..Len(queue'), NEW c \in BOOLEAN, Says(k, c)' PROVE k \in i..Len(queue)
    BY <1>1, <1>3, <2>1, <2>2
  <2> QED
    BY <1>2, <2>1, <2>2 DEF Agreed
<1>5. ASSUME NEW i \in 0..Len(queue), NEW b \in BOOLEAN PROVE Settles(i, b) <=> Settles(i, b)'
  BY <1>1, <1>2, <1>4 DEF Settles
<1>6. ASSUME NEW b \in BOOLEAN PROVE Finally(b)' <=> Finally(b)
  <2>1. ASSUME NEW i \in 0..Len(queue'), Settles(i, b)' PROVE i \in 0..Len(queue)
    BY <1>1, <1>3, <2>1 DEF Settles
  <2>2. 0..Len(queue) \subseteq 0..Len(queue')
    BY <1>1
  <2> QED
    BY <1>5, <2>1, <2>2 DEF Finally
<1>7. ASSUME NEW j \in 1..Len(queue), Restarts(j) PROVE Restarts(j)' /\ j \in 1..Len(queue')
  BY <1>1, <1>7 DEF Restarts
<1>8. ASSUME NEW j \in 1..Len(queue), NEW i \in 0..j - 1
      PROVE  i \in 0..Len(queue) /\ \A k \in i..j : k \in Nat
  BY <1>1
<1>9. ASSUME NEW b \in BOOLEAN, NEW j \in 1..Len(queue), Restart(b, j) PROVE Restart(b, j)'
  BY <1>5, <1>7, <1>8, <1>9 DEF Restart
<1>10. ASSUME NEW j \in 1..Len(queue), Early(j) PROVE Early(j)'
  <2>1. PICK i \in 0..j - 1 : Says(i, TRUE) /\ \A k \in i..j : ~Says(k, FALSE)
    BY <1>10 DEF Early
  <2>2. i \in Nat /\ \A k \in i..j : k \in Nat
    BY <1>1, <1>8
  <2>3. Says(i, TRUE)'
    BY <1>2, <2>1, <2>2
  <2>4. \A k \in i..j : ~Says(k, FALSE)'
    BY <1>2, <2>1, <2>2
  <2> QED
    BY <1>7, <1>10, <2>3, <2>4 DEF Early
<1> QED
  BY <1>1, <1>2, <1>4, <1>6, <1>9, <1>10

(* A new word on the switch is the last one.                               *)
LEMMA SwitchSend ==
    ASSUME queue \in Seq(Message), NEW x \in BOOLEAN, send(<<switch_event("PhpMyAdminToggled", x)>>),
           UNCHANGED phpmyadmin_enabled
    PROVE  /\ Finally(x)' /\ \A b \in BOOLEAN : Finally(b)' => b = x
           /\ \A j \in 1..Len(queue) : j \in 1..Len(queue')
           /\ \A j \in 1..Len(queue) : Restart(x, j) => Restart(x, j)'
           /\ \A j \in 1..Len(queue) : Early(j) => Early(j)'
           /\ x = FALSE => \A j \in 1..Len(queue) : Restart(TRUE, j) => Early(j)'
<1> DEFINE m == switch_event("PhpMyAdminToggled", x)
<1>1. m.type = "PhpMyAdminToggled" /\ m.value = x /\ <<m>> \in Seq(Message) /\ Len(<<m>>) = 1
      /\ <<m>>[1] = m
  <2>1. m \in Message
    BY OtherMessagesTyped
  <2>2. <<m>> \in Seq(Message)
    BY <2>1
  <2> QED
    BY <2>2 DEF switch_event
<1> HIDE DEF m
<1>0. PICK n \in Nat : n = Len(queue) + 1
  OBVIOUS
<1>2. /\ Len(queue) \in Nat /\ n = Len(queue) + 1 /\ Len(queue') = n /\ n \in 1..Len(queue')
      /\ \A i \in 1..Len(queue) : i \in 1..Len(queue') /\ queue'[i] = queue[i]
      /\ \A i \in 1..Len(queue') : i \in 1..Len(queue) \/ i = n
      /\ queue'[n] = m
  <2>1. queue' = queue \o <<m>>
    BY DEF send, m
  <2>2. queue' = Append(queue, m)
    BY <1>1, <2>1
  <2> QED
    BY <1>0, <1>1, <2>2
<1>3. ASSUME NEW i \in 0..Len(queue), NEW b \in BOOLEAN PROVE Says(i, b)' <=> Says(i, b)
  BY <1>2 DEF Says
<1>4. ASSUME NEW b \in BOOLEAN PROVE Says(n, b)' <=> b = x
  <2>1. n # 0
    BY <1>2
  <2>2. Says(n, b)' <=> x = b
    BY <1>1, <1>2, <2>1 DEF Says
  <2> QED
    BY <2>2
<1>5. Settles(n, x)'
  <2>1. \A k \in n..Len(queue') : k = n
    BY <1>2
  <2>2. Agreed(n, x)'
    BY <1>4, <2>1 DEF Agreed
  <2> QED
    BY <1>4, <2>2 DEF Settles
<1>6. ASSUME NEW b \in BOOLEAN, Finally(b)' PROVE b = x
  <2>1. PICK i \in 0..Len(queue') : Settles(i, b)'
    BY <1>6 DEF Finally
  <2>2. n \in i..Len(queue')
    BY <1>2, <2>1
  <2> QED
    BY <1>4, <2>1, <2>2 DEF Settles, Agreed
<1>7. ASSUME NEW j \in 1..Len(queue), Restarts(j) PROVE Restarts(j)'
  BY <1>2, <1>7 DEF Restarts
<1>8. ASSUME NEW j \in 1..Len(queue), NEW i \in 0..j - 1
      PROVE  i \in 0..Len(queue) /\ \A k \in i..j : k \in 0..Len(queue) /\ k \in i..Len(queue)
  BY <1>2
<1>9. ASSUME NEW j \in 1..Len(queue), Restart(x, j) PROVE Restart(x, j)'
  <2>1. PICK i \in 0..j - 1 : Says(i, x) /\ Agreed(i, x)
    BY <1>9 DEF Restart, Settles
  <2>2. ASSUME NEW k \in i..Len(queue'), NEW c \in BOOLEAN, Says(k, c)' PROVE c = x
    <3>1. k = n \/ (k \in i..Len(queue) /\ k \in 0..Len(queue))
      BY <1>2, <1>8
    <3>2. CASE k = n
      BY <1>4, <2>2, <3>2
    <3>3. CASE k \in i..Len(queue) /\ k \in 0..Len(queue)
      BY <1>3, <2>1, <2>2, <3>3 DEF Agreed
    <3> QED
      BY <3>1, <3>2, <3>3
  <2>3. Settles(i, x)'
    BY <1>3, <1>8, <2>1, <2>2 DEF Settles, Agreed
  <2> QED
    BY <1>7, <1>9, <2>3 DEF Restart
<1>10. ASSUME NEW j \in 1..Len(queue), NEW i \in 0..j - 1, Restarts(j), Says(i, TRUE),
              \A k \in i..j : ~Says(k, FALSE)
       PROVE  Early(j)'
  <2>1. Says(i, TRUE)' /\ \A k \in i..j : ~Says(k, FALSE)'
    BY <1>3, <1>8, <1>10
  <2> QED
    BY <1>7, <1>10, <2>1 DEF Early
<1>11. ASSUME NEW j \in 1..Len(queue), Early(j) PROVE Early(j)'
  BY <1>10, <1>11 DEF Early
<1>12. ASSUME NEW j \in 1..Len(queue), Restart(TRUE, j) PROVE Early(j)'
  <2>1. PICK i \in 0..j - 1 : Says(i, TRUE) /\ Agreed(i, TRUE)
    BY <1>12 DEF Restart, Settles
  <2>2. \A k \in i..j : ~Says(k, FALSE)
    BY <1>8, <2>1 DEF Agreed
  <2> QED
    BY <1>10, <1>12, <2>1, <2>2 DEF Restart
<1>13. n \in 0..Len(queue')
  BY <1>2
<1>14. Finally(x)'
  BY <1>5, <1>13 DEF Finally
<1> QED
  BY <1>2, <1>6, <1>9, <1>11, <1>12, <1>14

(* Taking the first event moves the others up by one place.                *)
LEMMA TakesHead ==
    ASSUME queue \in Seq(Message), queue # <<>>, NEW more \in Seq(Message),
           queue' = Tail(queue) \o more
    PROVE  /\ Len(queue) \in Nat /\ Len(queue) >= 1 /\ Len(queue') \in Nat
           /\ Head(queue) = queue[1] /\ queue[1] \in Message
           /\ \A i \in 2..Len(queue) : i - 1 \in 1..Len(queue') /\ queue'[i - 1] = queue[i]
           /\ \A i \in 1..Len(queue') : \/ i + 1 \in 2..Len(queue) /\ queue'[i] = queue[i + 1]
                                        \/ \E k \in 1..Len(more) : queue'[i] = more[k]
<1>1. /\ Len(queue) \in Nat /\ Len(queue) >= 1 /\ Head(queue) = queue[1] /\ Tail(queue) \in Seq(Message)
      /\ queue[1] \in Message
      /\ Len(Tail(queue)) = Len(queue) - 1
      /\ \A i \in 1..Len(Tail(queue)) : Tail(queue)[i] = queue[i + 1]
  OBVIOUS
<1>2. /\ Len(more) \in Nat /\ Len(queue') = Len(Tail(queue)) + Len(more)
      /\ \A i \in 1..Len(Tail(queue)) : i \in 1..Len(queue') /\ queue'[i] = Tail(queue)[i]
      /\ \A i \in 1..Len(queue') :
             \/ i \in 1..Len(Tail(queue))
             \/ i - Len(Tail(queue)) \in 1..Len(more) /\ queue'[i] = more[i - Len(Tail(queue))]
  BY <1>1, Grown
<1>3. ASSUME NEW i \in 2..Len(queue) PROVE i - 1 \in 1..Len(queue') /\ queue'[i - 1] = queue[i]
  <2>1. i - 1 \in 1..Len(Tail(queue)) /\ (i - 1) + 1 = i
    BY <1>1
  <2> QED
    BY <1>1, <1>2, <2>1
<1>4. ASSUME NEW i \in 1..Len(queue')
      PROVE  \/ i + 1 \in 2..Len(queue) /\ queue'[i] = queue[i + 1]
             \/ \E k \in 1..Len(more) : queue'[i] = more[k]
  <2>1. i \in 1..Len(Tail(queue)) => i + 1 \in 2..Len(queue)
    BY <1>1
  <2> QED
    BY <1>1, <1>2, <2>1
<1> QED
  BY <1>1, <1>2, <1>3, <1>4

(* Taking the first event moves everything up by one place, and what it    *)
(* says of the switch is known.                                            *)
LEMMA Shift ==
    ASSUME queue \in Seq(Message), queue # <<>>, NEW more \in Seq(Message),
           queue' = Tail(queue) \o more, Silent(more), phpmyadmin_enabled \in BOOLEAN,
           phpmyadmin_enabled' = IF Head(queue).type = "PhpMyAdminToggled"
                                 THEN Head(queue).value ELSE phpmyadmin_enabled
    PROVE  /\ \A b \in BOOLEAN : Finally(b)' <=> Finally(b)
           /\ \A b \in BOOLEAN : Agreed(0, b) => Agreed(0, b)'
           /\ \A j \in 2..Len(queue) : j - 1 \in 1..Len(queue')
           /\ \A b \in BOOLEAN, j \in 2..Len(queue) : Restart(b, j) => Restart(b, j - 1)'
           /\ \A b \in BOOLEAN : Restart(b, 1) => Agreed(0, b)
           /\ \A j \in 2..Len(queue) : Early(j) => Early(j - 1)'
           /\ \A i \in 1..Len(queue') : \/ i + 1 \in 2..Len(queue) /\ queue'[i] = queue[i + 1]
                                        \/ \E k \in 1..Len(more) : queue'[i] = more[k]
           /\ \A k \in 1..Len(queue) : k = 1 \/ k \in 2..Len(queue)
<1>1. /\ Len(queue) \in Nat /\ Len(queue) >= 1 /\ Len(queue') \in Nat /\ Head(queue) = queue[1]
      /\ queue[1] \in Message
      /\ \A i \in 2..Len(queue) : i - 1 \in 1..Len(queue') /\ queue'[i - 1] = queue[i]
      /\ \A i \in 1..Len(queue') : \/ i + 1 \in 2..Len(queue) /\ queue'[i] = queue[i + 1]
                                   \/ \E k \in 1..Len(more) : queue'[i] = more[k]
  BY TakesHead
<1>2. ASSUME NEW i \in 2..Len(queue), NEW b \in BOOLEAN PROVE Says(i - 1, b)' <=> Says(i, b)
  <2>1. i # 0 /\ i - 1 # 0 /\ i \in 1..Len(queue)
    BY <1>1
  <2> QED
    BY <1>1, <2>1 DEF Says
<1>3. ASSUME NEW i \in 1..Len(queue'), NEW b \in BOOLEAN, Says(i, b)'
      PROVE  i + 1 \in 2..Len(queue) /\ Says(i + 1, b)
  <2>1. i # 0 /\ queue'[i].type = "PhpMyAdminToggled" /\ queue'[i].value = b
    BY <1>1, <1>3 DEF Says
  <2>2. i + 1 \in 2..Len(queue) /\ queue'[i] = queue[i + 1]
    BY <1>1, <2>1 DEF Silent
  <2>3. i + 1 \in 1..Len(queue)
    BY <1>1, <2>2
  <2> QED
    BY <2>1, <2>2, <2>3 DEF Says
<1>4. ASSUME NEW b \in BOOLEAN PROVE Says(1, b) <=> queue[1].type = "PhpMyAdminToggled" /\ queue[1].value = b
  BY <1>1 DEF Says
<1>5. ASSUME NEW b \in BOOLEAN PROVE (Says(0, b) <=> phpmyadmin_enabled = b) /\ (Says(0, b)' <=> phpmyadmin_enabled' = b)
  BY <1>1 DEF Says
<1>6. queue[1].type = "PhpMyAdminToggled" => queue[1].value \in BOOLEAN
  BY <1>1 DEF Message, Command, ServiceMessage, ExitMessage, PortMessage, PollerMessage,
              FilesMessage, SwitchMessage, TickMessage
<1>7. /\ \A b \in BOOLEAN : Says(1, b) => Says(0, b)'
      /\ \A b \in BOOLEAN : Says(0, b)' => Says(1, b) \/ Says(0, b)
      /\ \A b \in BOOLEAN : Says(0, b) => Says(0, b)' \/ \E c \in BOOLEAN : Says(1, c)
      /\ \A b, c \in BOOLEAN : Says(0, b)' /\ Says(0, c)' => b = c
      /\ \A b, c \in BOOLEAN : Says(0, b) /\ Says(0, c) => b = c
  BY <1>1, <1>4, <1>5, <1>6
<1>8. ASSUME NEW b \in BOOLEAN, Agreed(0, b) PROVE Agreed(0, b)'
  <2>1. ASSUME NEW k \in 0..Len(queue'), NEW c \in BOOLEAN, Says(k, c)' PROVE c = b
    <3>1. CASE k = 0
      <4>1. 0 \in 0..Len(queue) /\ 1 \in 0..Len(queue)
        BY <1>1
      <4>2. Says(0, c)'
        BY <2>1, <3>1
      <4> QED
        BY <1>7, <1>8, <4>1, <4>2 DEF Agreed
    <3>2. CASE k # 0
      <4>1. k \in 1..Len(queue')
        BY <1>1, <3>2
      <4>2. k + 1 \in 2..Len(queue) /\ Says(k + 1, c)
        BY <1>3, <2>1, <4>1
      <4>3. k + 1 \in 0..Len(queue)
        BY <1>1, <4>2
      <4> QED
        BY <1>8, <4>2, <4>3 DEF Agreed
    <3> QED
      BY <3>1, <3>2
  <2> QED
    BY <2>1 DEF Agreed
<1>9. ASSUME NEW b \in BOOLEAN, Settles(0, b) PROVE Settles(0, b)'
  <2>1. 1 \in 0..Len(queue)
    BY <1>1
  <2>2. Says(0, b)'
    BY <1>7, <1>9, <2>1 DEF Settles, Agreed
  <2> QED
    BY <1>8, <1>9, <2>2 DEF Settles
<1>10. ASSUME NEW b \in BOOLEAN, NEW i \in 1..Len(queue), Settles(i, b) PROVE Settles(i - 1, b)'
  <2>1. Says(i - 1, b)'
    <3>1. CASE i = 1
      BY <1>7, <1>10, <3>1 DEF Settles
    <3>2. CASE i # 1
      BY <1>1, <1>2, <1>10, <3>2 DEF Settles
    <3> QED
      BY <3>1, <3>2
  <2>2. ASSUME NEW k \in i - 1..Len(queue'), NEW c \in BOOLEAN, Says(k, c)' PROVE c = b
    <3>1. CASE k = 0
      <4>1. i = 1 /\ 0 = i - 1
        BY <1>1, <3>1
      <4> QED
        BY <1>7, <2>1, <2>2, <3>1, <4>1
    <3>2. CASE k # 0
      <4>1. k \in 1..Len(queue')
        BY <1>1, <3>2
      <4>2. k + 1 \in 2..Len(queue) /\ Says(k + 1, c)
        BY <1>3, <2>2, <4>1
      <4>3. k + 1 \in i..Len(queue)
        BY <1>1, <4>2
      <4> QED
        BY <1>10, <4>2, <4>3 DEF Settles, Agreed
    <3> QED
      BY <3>1, <3>2
  <2> QED
    BY <2>1, <2>2 DEF Settles, Agreed
<1>11. ASSUME NEW b \in BOOLEAN, NEW j \in 2..Len(queue), NEW i \in 0..j - 1, Settles(i, b)
       PROVE  \E k \in 0..(j - 1) - 1 : Settles(k, b)'
  <2>1. CASE i = 0
    <3>1. 0 \in 0..(j - 1) - 1
      BY <1>1
    <3> QED
      BY <1>9, <1>11, <2>1, <3>1
  <2>2. CASE i # 0
    <3>1. i - 1 \in 0..(j - 1) - 1 /\ i \in 1..Len(queue)
      BY <1>1, <2>2
    <3> QED
      BY <1>10, <1>11, <3>1
  <2> QED
    BY <2>1, <2>2
<1>12. ASSUME NEW j \in 2..Len(queue), Restarts(j) PROVE Restarts(j - 1)'
  BY <1>1, <1>12 DEF Restarts
<1>13. ASSUME NEW b \in BOOLEAN, Finally(b) PROVE Finally(b)'
  <2>1. PICK i \in 0..Len(queue) : Settles(i, b)
    BY <1>13 DEF Finally
  <2>2. CASE i = 0
    <3>1. 0 \in 0..Len(queue')
      BY <1>1
    <3> QED
      BY <1>9, <2>1, <2>2, <3>1 DEF Finally
  <2>3. CASE i = 1
    <3>1. 0 \in 0..Len(queue') /\ 1 \in 1..Len(queue) /\ 1 - 1 = 0
      BY <1>1
    <3>2. Settles(1 - 1, b)'
      BY <1>10, <2>1, <2>3, <3>1
    <3>3. Settles(0, b)'
      BY <3>1, <3>2
    <3> QED
      BY <3>1, <3>3 DEF Finally
  <2>4. CASE i # 0 /\ i # 1
    <3>1. i \in 2..Len(queue) /\ i \in 1..Len(queue)
      BY <1>1, <2>4
    <3>2. i - 1 \in 0..Len(queue')
      BY <1>1, <3>1
    <3> QED
      BY <1>10, <2>1, <3>1, <3>2 DEF Finally
  <2> QED
    BY <2>2, <2>3, <2>4
<1>14. ASSUME NEW b \in BOOLEAN, NEW i \in 0..Len(queue'), Settles(i, b)' PROVE Finally(b)
  <2>1. ASSUME NEW k \in 2..Len(queue), k - 1 \in i..Len(queue'), NEW c \in BOOLEAN, Says(k, c) PROVE c = b
    BY <1>2, <1>14, <2>1 DEF Settles, Agreed
  <2>2. CASE i # 0
    <3>1. i \in 1..Len(queue')
      BY <1>1, <2>2
    <3>2. i + 1 \in 2..Len(queue) /\ Says(i + 1, b)
      BY <1>3, <1>14, <3>1 DEF Settles
    <3>3. ASSUME NEW k \in i + 1..Len(queue), NEW c \in BOOLEAN, Says(k, c) PROVE c = b
      <4>1. k \in 2..Len(queue) /\ k - 1 >= i
        BY <1>1, <3>1, <3>3
      <4>2. k - 1 \in i..Len(queue')
        BY <1>1, <4>1
      <4> QED
        BY <2>1, <3>3, <4>1, <4>2
    <3>4. i + 1 \in 0..Len(queue)
      BY <1>1, <3>2
    <3> QED
      BY <3>2, <3>3, <3>4 DEF Settles, Agreed, Finally
  <2>3. CASE i = 0
    <3>1. Says(0, b)'
      BY <1>14, <2>3 DEF Settles
    <3>2. ASSUME NEW k \in 1..Len(queue), NEW c \in BOOLEAN, Says(k, c) PROVE c = b
      <4>1. CASE k = 1
        BY <1>7, <3>1, <3>2, <4>1
      <4>2. CASE k # 1
        <5>1. k \in 2..Len(queue)
          BY <1>1, <4>2
        <5>2. k - 1 \in i..Len(queue')
          BY <1>1, <2>3, <5>1
        <5> QED
          BY <2>1, <3>2, <5>1, <5>2
      <4> QED
        BY <4>1, <4>2
    <3>3. 0 \in 0..Len(queue) /\ 1 \in 0..Len(queue) /\ 1 \in 1..Len(queue)
          /\ \A k \in 0..Len(queue) : k = 0 \/ k \in 1..Len(queue)
      BY <1>1
    <3>4. CASE Says(1, b)
      BY <3>2, <3>3, <3>4 DEF Settles, Agreed, Finally
    <3>5. CASE Says(0, b)
      BY <1>7, <3>2, <3>3, <3>5 DEF Settles, Agreed, Finally
    <3> QED
      BY <1>7, <3>1, <3>4, <3>5
  <2> QED
    BY <2>2, <2>3
<1>15. ASSUME NEW b \in BOOLEAN, NEW j \in 2..Len(queue), Restart(b, j) PROVE Restart(b, j - 1)'
  BY <1>11, <1>12, <1>15 DEF Restart
<1>16. ASSUME NEW b \in BOOLEAN, Restart(b, 1) PROVE Agreed(0, b)
  <2>1. \A i \in 0..1 - 1 : i = 0
    BY <1>1
  <2> QED
    BY <1>16, <2>1 DEF Restart, Settles
<1>17. ASSUME NEW j \in 2..Len(queue), Early(j) PROVE Early(j - 1)'
  <2>1. PICK i \in 0..j - 1 : Says(i, TRUE) /\ \A k \in i..j : ~Says(k, FALSE)
    BY <1>17 DEF Early
  <2>2. ASSUME NEW k \in 1..j - 1, k + 1 \in i..j PROVE ~Says(k, FALSE)'
    <3>1. k + 1 \in 2..Len(queue) /\ (k + 1) - 1 = k
      BY <1>1
    <3>2. Says((k + 1) - 1, FALSE)' <=> Says(k + 1, FALSE)
      BY <1>2, <3>1
    <3> QED
      BY <2>1, <2>2, <3>1, <3>2
  <2>3. CASE i \in {0, 1}
    <3>1. Says(0, TRUE)'
      <4>1. CASE i = 1
        BY <1>7, <2>1, <4>1
      <4>2. CASE i = 0
        <5>1. 1 \in i..j
          BY <1>1, <4>2
        <5>2. ~Says(1, FALSE)
          BY <2>1, <5>1
        <5> QED
          BY <1>7, <2>1, <4>2, <5>2
      <4> QED
        BY <2>3, <4>1, <4>2
    <3>2. ~Says(0, FALSE)'
      BY <1>7, <3>1
    <3>3. ASSUME NEW k \in 0..j - 1 PROVE ~Says(k, FALSE)'
      <4>1. CASE k = 0
        BY <3>2, <4>1
      <4>2. CASE k # 0
        <5>1. k \in 1..j - 1 /\ k + 1 \in i..j
          BY <1>1, <2>3, <4>2
        <5> QED
          BY <2>2, <5>1
      <4> QED
        BY <4>1, <4>2
    <3>4. 0 \in 0..(j - 1) - 1
      BY <1>1
    <3>5. Restarts(j - 1)'
      BY <1>12, <1>17 DEF Early
    <3> QED
      BY <3>1, <3>3, <3>4, <3>5 DEF Early
  <2>4. CASE i \notin {0, 1}
    <3>1. i \in 2..Len(queue) /\ i - 1 \in 0..(j - 1) - 1
      BY <1>1, <2>4
    <3>2. Says(i - 1, TRUE)'
      BY <1>2, <2>1, <3>1
    <3>3. ASSUME NEW k \in i - 1..j - 1 PROVE ~Says(k, FALSE)'
      <4>1. k \in 1..j - 1 /\ k + 1 \in i..j
        BY <1>1, <3>1
      <4> QED
        BY <2>2, <4>1
    <3>5. Restarts(j - 1)'
      BY <1>12, <1>17 DEF Early
    <3> QED
      BY <3>1, <3>2, <3>3, <3>5 DEF Early
  <2> QED
    BY <2>3, <2>4
<1>18. \A k \in 1..Len(queue) : k = 1 \/ k \in 2..Len(queue)
  BY <1>1
<1>19. ASSUME NEW b \in BOOLEAN PROVE Finally(b)' <=> Finally(b)
  BY <1>13, <1>14 DEF Finally
<1>20. \A j \in 2..Len(queue) : j - 1 \in 1..Len(queue')
  BY <1>1
<1>21. \A i \in 1..Len(queue') : \/ i + 1 \in 2..Len(queue) /\ queue'[i] = queue[i + 1]
                                 \/ \E k \in 1..Len(more) : queue'[i] = more[k]
  BY <1>1
<1> QED
  BY <1>8, <1>15, <1>16, <1>17, <1>18, <1>19, <1>20, <1>21

-------------------------------------------------------------------------------
(* The inductive invariant.  What phpmyadmin.conf says, and a service that *)
(* is down or about to be spawned from what it will say.                   *)
OnDisk(b) == (b = TRUE) <=> disk["PhpMyAdminConf"] # <<>>
SpawnsApache == \E e \in ToDo : e.type = "SpawnService" /\ e.service = "Apache"
Down == state["Apache"] \notin Active \/ (stage = "begin" /\ SpawnsApache)

(* A restart on its way: any, one before which some service is not up, and *)
(* one that comes while the switch is on.                                  *)
Bridge(b) == \E j \in 1..Len(queue) : Restart(b, j)
Wait(b)   == \E j \in 1..Len(queue), svc \in Service : Restart(b, j) /\ Waits(svc, j)
Soon      == \E j \in 1..Len(queue) : Early(j)

(* The file follows the switch, or the restart that makes it follow comes. *)
Bridged ==
    stage # "reconcile" => \A b \in BOOLEAN :
        Finally(b) /\ ~Agreed(0, b) /\ (pma_dir = TRUE \/ (b = TRUE /\ OnDisk(TRUE))) => Bridge(b)
Followed ==
    stage # "reconcile" => \A b \in BOOLEAN :
        Finally(b) /\ pma_dir = TRUE /\ ~OnDisk(b) => Down \/ Wait(b)
Withdrawn ==
    stage # "reconcile" /\ Finally(FALSE) /\ pma_dir = FALSE /\ ~OnDisk(FALSE) =>
        Down \/ Soon \/ Wait(FALSE)

(* A toggle that is under way is the only effect; it was asked for with    *)
(* everything up, or because the directory is gone.                        *)
Toggling ==
    \A x \in BOOLEAN : ToggleEffect(x) \in ToDo =>
        /\ effects = <<ToggleEffect(x)>> /\ phpmyadmin_enabled # x
        /\ stage = "begin" =>
               /\ pma_dir = TRUE => \A svc \in Service : state[svc] = "Running"
               /\ x = TRUE => phpmyadmin_dir_exists
        /\ stage = "reconcile" =>
               /\ Finally(x)
               /\ pma_dir = TRUE => ~OnDisk(x) \/ Bridge(x)

(* The switch is not left on when the directory is known to be gone.       *)
Noticed ==
    Finally(TRUE) =>
        phpmyadmin_dir_exists \/ (stage = "begin" /\ ToggleEffect(FALSE) \in ToDo)

(* News of the directory: one message of it at a time, and what it says of *)
(* a directory that is gone is true until it is reduced.                   *)
Notice(i) == queue[i].type \in {"Tick", "PhpMyAdminDirChanged"}
Gone(k)   == queue[k].type = "PhpMyAdminDirChanged" /\ queue[k].value = FALSE
News ==
    /\ \A i, k \in 1..Len(queue) : Notice(i) /\ Notice(k) => i = k
    /\ \A k \in 1..Len(queue) : Gone(k) =>
           /\ pma_dir = FALSE /\ phpmyadmin_dir_exists
           /\ \A i \in k..Len(queue) : ~Says(i, TRUE)

(* No answer to an earlier use of the token of a service that is about to  *)
(* be spawned is outstanding.                                              *)
Outstanding(svc, n) ==
    \/ \E p \in pollers : p.service = svc /\ p.attempt = n
    \/ \E i \in 1..Len(queue) :
          queue[i].type = "ProcessReady" /\ queue[i].service = svc /\ queue[i].attempt = n
Fresh == \A e \in ToDo : e.type = "SpawnService" => ~Outstanding(e.service, attempt[e.service])

(* SetDocumentRoot stops Apache before the configuration is written, and   *)
(* a stage beyond the first is one of the effect that has it.              *)
Written == PersistConfig \in ToDo => state["Apache"] \notin Active
Staged ==
    /\ Idle => stage = "begin"
    /\ stage \in {"replace", "launch"} => effects[executed + 1].type = "SpawnService"
    /\ stage = "reconcile" => effects[executed + 1].type = "TogglePhpMyAdmin"

SwitchRight ==
    /\ \E b \in BOOLEAN : Finally(b)
    /\ Bridged /\ Followed /\ Withdrawn /\ Toggling /\ Noticed /\ News /\ Fresh /\ Written /\ Staged
SInv == loop # "ended" => SwitchRight

-------------------------------------------------------------------------------
(* Steps, as the switch sees them.                                         *)
LEMMA OneMore ==
    ASSUME NEW m \in Message
    PROVE  <<m>> \in Seq(Message) /\ Len(<<m>>) = 1 /\ \A i \in 1..Len(<<m>>) : <<m>>[i] = m
OBVIOUS

(* What the channel says of the switch, and the restarts in it, are kept.  *)
ChannelKept ==
    /\ \A b \in BOOLEAN : Finally(b)' <=> Finally(b)
    /\ \A b \in BOOLEAN : Agreed(0, b) <=> Agreed(0, b)'
    /\ \A b \in BOOLEAN : Bridge(b) => Bridge(b)'
    /\ \A b \in BOOLEAN : Wait(b) => Wait(b)'
    /\ Soon => Soon'

(* So it is when what is sent is about other matters.                      *)
LEMMA SilentKeeps ==
    ASSUME queue \in Seq(Message), NEW more \in Seq(Message), send(more), Silent(more),
           UNCHANGED <<phpmyadmin_enabled, state, attempt>>
    PROVE  ChannelKept
<1>1. /\ \A i \in 0..Len(queue), b \in BOOLEAN : Agreed(i, b) <=> Agreed(i, b)'
      /\ \A b \in BOOLEAN : Finally(b)' <=> Finally(b)
      /\ \A b \in BOOLEAN, j \in 1..Len(queue) : Restart(b, j) => Restart(b, j)'
      /\ \A j \in 1..Len(queue) : Early(j) => Early(j)'
      /\ \A j \in 1..Len(queue) : j \in 1..Len(queue')
  BY SilentSend
<1>2. /\ Len(queue) \in Nat /\ 0 \in 0..Len(queue)
      /\ \A j \in 1..Len(queue) : \A i \in 1..j : queue'[i] = queue[i]
  <2>1. Len(queue) \in Nat /\ \A i \in 1..Len(queue) : queue'[i] = queue[i]
    BY Grown DEF send
  <2> QED
    BY <2>1
<1>3. ASSUME NEW j \in 1..Len(queue), NEW svc \in Service, Waits(svc, j)
      PROVE  Waits(svc, j)'
  BY <1>2, <1>3 DEF Waits, Ready
<1> QED
  BY <1>1, <1>2, <1>3 DEF ChannelKept, Bridge, Wait, Soon

(* A step that leaves the file alone and loses no restart.                 *)
LEMMA SwitchKept ==
    ASSUME Bridged, Followed, Withdrawn, stage # "reconcile", UNCHANGED <<disk, pma_dir>>,
           \A b \in BOOLEAN : Finally(b)' => Finally(b),
           \A b \in BOOLEAN : Agreed(0, b) => Agreed(0, b)',
           \A b \in BOOLEAN : Bridge(b) => Agreed(0, b)' \/ Bridge(b)',
           \A b \in BOOLEAN : Wait(b) => Down' \/ Wait(b)',
           Soon => Down' \/ Soon', Down => Down'
    PROVE  Bridged' /\ Followed' /\ Withdrawn'
BY DEF Bridged, Followed, Withdrawn, OnDisk

(* Sending brings no news of the directory, or the only one.               *)
LEMMA NewsKept ==
    ASSUME queue \in Seq(Message), News, NEW m \in Message, send(<<m>>),
           UNCHANGED <<phpmyadmin_enabled, pma_dir, phpmyadmin_dir_exists>>,
           m.type # "PhpMyAdminDirChanged",
           m.type = "PhpMyAdminToggled" /\ m.value = TRUE => pma_dir = TRUE,
           m.type = "Tick" => \A i \in 1..Len(queue) : ~Notice(i)
    PROVE  News'
<1>0. PICK n \in Nat : n = Len(queue) + 1
  OBVIOUS
<1>1. /\ Len(queue) \in Nat /\ Len(queue') = n /\ n = Len(queue) + 1 /\ queue'[n] = m
      /\ \A i \in 1..Len(queue') : (i \in 1..Len(queue) /\ queue'[i] = queue[i]) \/ i = n
  <2>1. queue' = Append(queue, m)
    BY OneMore DEF send
  <2> QED
    BY <1>0, <2>1
<1>2. ASSUME NEW i \in 1..Len(queue'), NEW k \in 1..Len(queue'), Notice(i)', Notice(k)' PROVE i = k
  BY <1>1, <1>2 DEF News, Notice
<1>3. ASSUME NEW k \in 1..Len(queue'), Gone(k)'
      PROVE  /\ pma_dir = FALSE /\ phpmyadmin_dir_exists
             /\ \A i \in k..Len(queue') : ~Says(i, TRUE)'
  <2>1. k \in 1..Len(queue) /\ Gone(k)
    BY <1>1, <1>3 DEF Gone
  <2>2. pma_dir = FALSE /\ phpmyadmin_dir_exists /\ \A i \in k..Len(queue) : ~Says(i, TRUE)
    BY <2>1 DEF News
  <2>3. ASSUME NEW i \in k..Len(queue') PROVE ~Says(i, TRUE)'
    <3>1. i # 0 /\ i \in 1..Len(queue') /\ (i \in k..Len(queue) \/ i = n)
      BY <1>1, <2>1
    <3>2. CASE i = n
      BY <1>1, <2>2, <3>1, <3>2 DEF Says
    <3>3. CASE i \in k..Len(queue)
      <4>1. ~Says(i, TRUE)
        BY <2>2, <3>3
      <4>2. i \in 1..Len(queue) /\ i # n
        BY <1>1, <2>1, <3>3
      <4> QED
        BY <1>1, <3>1, <4>1, <4>2 DEF Says
    <3> QED
      BY <3>1, <3>2, <3>3
  <2> QED
    BY <2>2, <2>3
<1> QED
  BY <1>2, <1>3 DEF News

(* Sending leaves no answer outstanding that was not.                      *)
LEMMA OutstandingKept ==
    ASSUME queue \in Seq(Message), NEW m \in Message, send(<<m>>), pollers' \subseteq pollers,
           m.type = "ProcessReady" => \E p \in pollers : m = poller_report("ProcessReady", p),
           NEW svc, NEW n, Outstanding(svc, n)'
    PROVE  Outstanding(svc, n)
<1>1. \A i \in 1..Len(queue') : (i \in 1..Len(queue) /\ queue'[i] = queue[i]) \/ queue'[i] = m
  <2>1. queue' = Append(queue, m)
    BY OneMore DEF send
  <2> QED
    BY <2>1
<1> QED
  BY <1>1 DEF Outstanding, poller_report

(* A step that changes nothing the switch depends on.                      *)
LEMMA QuietRight ==
    ASSUME SwitchRight, UNCHANGED <<vars, disk, pma_dir>>, ToDo' \subseteq ToDo,
           ChannelKept, News', Fresh', Staged', Down => Down',
           \/ stage' = stage /\ \A x \in BOOLEAN : ToggleEffect(x) \in ToDo => ToggleEffect(x) \in ToDo'
           \/ /\ stage # "reconcile" /\ stage' # "reconcile"
              /\ \A x \in BOOLEAN : ToggleEffect(x) \notin ToDo
    PROVE  SwitchRight'
<1>1. UNCHANGED <<state, effects, phpmyadmin_enabled, phpmyadmin_dir_exists>>
  BY DEF vars, app, status, pma
<1>2. Bridged' /\ Followed' /\ Withdrawn'
  <2>1. CASE stage = "reconcile"
    BY <2>1 DEF Bridged, Followed, Withdrawn
  <2>2. CASE stage # "reconcile"
    BY <2>2, SwitchKept DEF SwitchRight, ChannelKept
  <2> QED
    BY <2>1, <2>2
<1>3. Toggling'
  <2> SUFFICES ASSUME NEW x \in BOOLEAN, ToggleEffect(x) \in ToDo'
               PROVE  /\ effects' = <<ToggleEffect(x)>> /\ phpmyadmin_enabled' # x
                      /\ stage' = "begin" =>
                             /\ pma_dir' = TRUE => \A svc \in Service : state'[svc] = "Running"
                             /\ x = TRUE => phpmyadmin_dir_exists'
                      /\ stage' = "reconcile" =>
                             /\ Finally(x)'
                             /\ pma_dir' = TRUE => ~OnDisk(x)' \/ Bridge(x)'
    BY <1>1 DEF Toggling, ToggleEffect
  <2>1. ToggleEffect(x) \in ToDo /\ stage' = stage
    OBVIOUS
  <2>2. OnDisk(x)' <=> OnDisk(x)
    BY DEF OnDisk
  <2> QED
    BY <1>1, <2>1, <2>2 DEF SwitchRight, Toggling, ChannelKept
<1>4. Noticed'
  BY <1>1 DEF SwitchRight, Noticed, ChannelKept
<1>5. Written'
  BY <1>1 DEF SwitchRight, Written, PersistConfig
<1> QED
  BY <1>2, <1>3, <1>4, <1>5 DEF SwitchRight, ChannelKept

(* What the threads, the user and the tick send.                           *)
LEMMA OutsideSends ==
    ASSUME LInv, OutsideStep, ~DirChanges
    PROVE  /\ UNCHANGED pma_dir /\ pollers' \subseteq pollers
           /\ \E m \in Message :
                 /\ send(<<m>>) /\ m.type \notin {"PhpMyAdminToggled", "PhpMyAdminDirChanged"}
                 /\ m.type = "Tick" => \A i \in 1..Len(queue) : ~Notice(i)
                 /\ m.type = "ProcessReady" => \E p \in pollers : m = poller_report("ProcessReady", p)
<1> DEFINE Fits(m) ==
        /\ send(<<m>>) /\ m.type \notin {"PhpMyAdminToggled", "PhpMyAdminDirChanged"}
        /\ m.type = "Tick" => \A i \in 1..Len(queue) : ~Notice(i)
        /\ m.type = "ProcessReady" => \E p \in pollers : m = poller_report("ProcessReady", p)
<1>1. ASSUME NEW svc \in Service, Watcher(svc)
      PROVE  UNCHANGED <<pma_dir, pollers>> /\ \E m \in Message : Fits(m)
  <2> DEFINE m1 == process_exit(svc, handle[svc].born)
             m2 == port_unavailable(svc, handle[svc].port, handle[svc].born)
  <2>1. ProcessEnds(svc) /\ UNCHANGED <<pma_dir, pollers>>
    BY <1>1 DEF Watcher, ThreadStep, ProcessEnds, threads
  <2>2. m1 \in Message /\ (PortMayBeTaken => m2 \in Message)
    BY HandlesTyped
  <2>3. m1.type = "ProcessExit" /\ m2.type = "PortUnavailable"
    BY DEF process_exit, port_unavailable
  <2>4. send(<<m1>>) \/ (send(<<m2>>) /\ PortMayBeTaken)
    BY <2>1 DEF ProcessEnds, fault, PortMayBeTaken
  <2> HIDE DEF m1, m2
  <2> QED
    BY <2>1, <2>2, <2>3, <2>4
<1>2. ASSUME NEW svc \in Service, Poller(svc)
      PROVE  UNCHANGED pma_dir /\ pollers' \subseteq pollers /\ \E m \in Message : Fits(m)
  <2>1. PICK p \in pollers : PollerReports(p)
    BY <1>2 DEF Poller, ThreadStep
  <2>2. UNCHANGED pma_dir /\ pollers' \subseteq pollers
    BY <1>2, <2>1 DEF Poller, ThreadStep, PollerReports
  <2>3. p \in PollerRecord
    BY <2>1 DEF LInv, ExecutorTyped
  <2> DEFINE m(t) == poller_report(t, p)
  <2>4. m("ProcessReady") \in Message /\ m("ReadinessTimeout") \in Message
    BY <2>3, OtherMessagesTyped
  <2>5. m("ProcessReady").type = "ProcessReady" /\ m("ReadinessTimeout").type = "ReadinessTimeout"
    BY DEF poller_report
  <2>6. send(<<m("ProcessReady")>>) \/ send(<<m("ReadinessTimeout")>>)
    BY <2>1 DEF PollerReports
  <2>7. CASE send(<<m("ProcessReady")>>)
    <3>1. Fits(m("ProcessReady"))
      BY <2>1, <2>5, <2>7
    <3> QED
      BY <2>2, <2>4, <3>1
  <2>8. CASE send(<<m("ReadinessTimeout")>>)
    <3>1. Fits(m("ReadinessTimeout"))
      BY <2>5, <2>8
    <3> QED
      BY <2>2, <2>4, <3>1
  <2> QED
    BY <2>6, <2>7, <2>8
<1>3. ASSUME NEW svc \in Service, Timer(svc) \/ CheckPasses(svc) \/ CheckFails(svc)
      PROVE  UNCHANGED <<pma_dir, pollers>> /\ \E m \in Message : Fits(m)
  <2>1. PICK t \in {"AutoRetry", "HealthCheckPass", "HealthCheckFail"} : send(<<event(t, svc)>>)
    BY <1>3 DEF Timer, CheckPasses, CheckFails, ThreadStep, TimerFires, HealthPasses, HealthFails
  <2>2. event(t, svc) \in Message /\ event(t, svc).type = t
    BY MessagesTyped DEF event
  <2>3. UNCHANGED <<pma_dir, pollers>>
    BY <1>3 DEF Timer, CheckPasses, CheckFails, ThreadStep, TimerFires, HealthPasses, HealthFails, threads
  <2>4. Fits(event(t, svc))
    BY <2>1, <2>2
  <2> QED
    BY <2>2, <2>3, <2>4
<1>4. ASSUME TickFires PROVE UNCHANGED <<pma_dir, pollers>> /\ \E m \in Message : Fits(m)
  <2> DEFINE m == [type |-> "Tick"]
  <2>1. m \in Message /\ m.type = "Tick"
    BY OtherMessagesTyped
  <2>2. send(<<m>>) /\ \A i \in 1..Len(queue) : ~Notice(i)
    BY <1>4 DEF TickFires, Notice
  <2>3. UNCHANGED <<pma_dir, pollers>>
    BY <1>4 DEF TickFires, threads
  <2> HIDE DEF m
  <2>4. Fits(m)
    BY <2>1, <2>2
  <2> QED
    BY <2>1, <2>3, <2>4
<1>5. ASSUME UserCommand PROVE UNCHANGED <<pma_dir, pollers>> /\ \E m \in Message : Fits(m)
  <2>1. PICK m \in Command : send(<<m>>)
    BY <1>5 DEF UserCommand
  <2>2. m \in Message /\ m.type \in {"StartService", "StopService", "RestartService", "TogglePhpMyAdmin",
                                     "ShutdownAll", "SetDocumentRoot", "ConfigReloaded"}
    BY OtherMessagesTyped DEF Command
  <2>3. UNCHANGED <<pma_dir, pollers>>
    BY <1>5 DEF UserCommand, threads
  <2>4. Fits(m)
    BY <2>1, <2>2
  <2> QED
    BY <2>2, <2>3, <2>4
<1> HIDE DEF Fits
<1>6. UNCHANGED pma_dir /\ pollers' \subseteq pollers /\ \E m \in Message : Fits(m)
  BY <1>1, <1>2, <1>3, <1>4, <1>5 DEF OutsideStep
<1> QED
  BY <1>6 DEF Fits

-------------------------------------------------------------------------------
(* The environment.  The directory comes back only once RAMPP has noticed  *)
(* that it was gone and has switched phpMyAdmin off, and a token is not    *)
(* used again while an answer to its earlier use is outstanding.           *)
ReturnsWhenOff ==
    pma_dir = FALSE /\ pma_dir' = TRUE =>
        ~phpmyadmin_dir_exists /\ \A i \in 0..Len(queue) : ~Says(i, TRUE)
TokensFresh ==
    \A svc \in Service :
        state'[svc] = "Starting" /\ (state[svc] # "Starting" \/ assigned'[svc] # assigned[svc]) =>
            ~Outstanding(svc, attempt'[svc])

(* The directory appears or disappears.                                    *)
LEMMA DirRight ==
    ASSUME LInv, SwitchRight, ReturnsWhenOff, DirChanges
    PROVE  SwitchRight'
<1>1. /\ UNCHANGED <<state, attempt, effects, phpmyadmin_enabled, phpmyadmin_dir_exists>>
      /\ UNCHANGED <<executed, stage, disk, queue, pollers>> /\ pma_dir' = ~pma_dir
  BY DEF DirChanges, Outside, vars, app, status, ledger, pma, threads
<1>2. pma_dir \in BOOLEAN /\ phpmyadmin_enabled \in BOOLEAN /\ Len(queue) \in Nat
  BY DEF LInv, IInv, StateTyped, ExecutorTyped, LoopTyped
<1>3. (pma_dir = TRUE /\ pma_dir' = FALSE) \/ (pma_dir = FALSE /\ pma_dir' = TRUE)
  BY <1>1, <1>2
<1>4. /\ ToDo' = ToDo /\ \A i, b : Says(i, b)' <=> Says(i, b)
  BY <1>1 DEF ToDo, Says
<1>5. /\ \A b \in BOOLEAN : Finally(b)' <=> Finally(b)
      /\ \A i : \A b \in BOOLEAN : Agreed(i, b)' <=> Agreed(i, b)
      /\ \A b \in BOOLEAN : Bridge(b)' <=> Bridge(b)
      /\ \A b \in BOOLEAN : Wait(b)' <=> Wait(b)
      /\ (Soon' <=> Soon) /\ (Down' <=> Down)
      /\ \A b : OnDisk(b)' <=> OnDisk(b)
  <2>1. /\ \A i : \A b \in BOOLEAN : Agreed(i, b)' <=> Agreed(i, b)
    BY <1>1, <1>4 DEF Agreed
  <2>2. /\ \A i : \A b \in BOOLEAN : Settles(i, b)' <=> Settles(i, b)
        /\ \A b \in BOOLEAN : Finally(b)' <=> Finally(b)
    BY <1>1, <1>4, <2>1 DEF Settles, Finally
  <2>3. /\ \A b \in BOOLEAN, j \in 1..Len(queue) : Restart(b, j)' <=> Restart(b, j)
        /\ \A j \in 1..Len(queue) : Early(j)' <=> Early(j)
        /\ \A j \in 1..Len(queue), svc \in Service : Waits(svc, j)' <=> Waits(svc, j)
    BY <1>1, <1>4, <2>2 DEF Restart, Restarts, Early, Waits, Ready
  <2>4. /\ \A b \in BOOLEAN : Bridge(b)' <=> Bridge(b)
        /\ \A b \in BOOLEAN : Wait(b)' <=> Wait(b)
        /\ Soon' <=> Soon
    BY <1>1, <2>3 DEF Bridge, Wait, Soon
  <2>5. (Down' <=> Down) /\ \A b : OnDisk(b)' <=> OnDisk(b)
    BY <1>1, <1>4 DEF Down, SpawnsApache, OnDisk
  <2> QED
    BY <2>1, <2>2, <2>4, <2>5
<1>6. /\ \E b \in BOOLEAN : Finally(b)'
      /\ Noticed' /\ Fresh' /\ Written' /\ Staged'
  BY <1>1, <1>4, <1>5
     DEF SwitchRight, Noticed, Fresh, Written, Staged, Outstanding, Idle, ToggleEffect, PersistConfig
<1>7. CASE pma_dir = TRUE /\ pma_dir' = FALSE
  <2>0. Bridged /\ Followed
    BY DEF SwitchRight
  <2>6. Bridged'
    BY <1>1, <1>5, <1>7, <2>0 DEF Bridged
  <2>7. Followed'
    BY <1>7 DEF Followed
  <2>8. Withdrawn'
    BY <1>1, <1>5, <1>7, <2>0 DEF Followed, Withdrawn
  <2>1. Bridged' /\ Followed' /\ Withdrawn'
    BY <2>6, <2>7, <2>8
  <2>2. Toggling'
    BY <1>1, <1>4, <1>5, <1>7 DEF SwitchRight, Toggling, ToggleEffect
  <2>3. News'
    BY <1>1, <1>4, <1>7 DEF SwitchRight, News, Notice, Gone
  <2> QED
    BY <1>6, <2>1, <2>2, <2>3 DEF SwitchRight
<1>8. CASE pma_dir = FALSE /\ pma_dir' = TRUE
  <2>1. ~phpmyadmin_dir_exists /\ \A i \in 0..Len(queue) : ~Says(i, TRUE)
    BY <1>8 DEF ReturnsWhenOff
  <2>2. ~Finally(TRUE) /\ Agreed(0, FALSE) /\ ~Soon /\ phpmyadmin_enabled = FALSE
    <3>1. ~Finally(TRUE)
      BY <2>1 DEF Finally, Settles
    <3>2. Agreed(0, FALSE)
      BY <2>1 DEF Agreed
    <3>3. ~Soon
      <4>1. \A j \in 1..Len(queue) : 0..j - 1 \subseteq 0..Len(queue)
        BY <1>2
      <4> QED
        BY <2>1, <4>1 DEF Soon, Early
    <3>4. phpmyadmin_enabled = FALSE
      <4>1. 0 \in 0..Len(queue)
        BY <1>2
      <4> QED
        BY <1>2, <2>1, <4>1 DEF Says
    <3> QED
      BY <3>1, <3>2, <3>3, <3>4
  <2>0. Withdrawn
    BY DEF SwitchRight
  <2>9. \A b \in BOOLEAN : Finally(b)' => b = FALSE
    BY <1>5, <2>2
  <2>6. Bridged'
    BY <1>5, <2>2, <2>9 DEF Bridged
  <2>7. Followed'
    BY <1>1, <1>5, <1>8, <2>0, <2>2, <2>9 DEF Followed, Withdrawn
  <2>8. Withdrawn'
    BY <1>8 DEF Withdrawn
  <2>3. Bridged' /\ Followed' /\ Withdrawn'
    BY <2>6, <2>7, <2>8
  <2>4. Toggling'
    <3>1. ASSUME NEW x \in BOOLEAN, ToggleEffect(x) \in ToDo
          PROVE  stage # "begin" /\ stage # "reconcile" /\ effects = <<ToggleEffect(x)>>
                 /\ phpmyadmin_enabled # x
      <4>1. x = TRUE
        BY <2>2, <3>1 DEF SwitchRight, Toggling
      <4> QED
        BY <2>1, <2>2, <3>1, <4>1 DEF SwitchRight, Toggling
    <3> QED
      BY <1>1, <1>4, <3>1 DEF Toggling, ToggleEffect
  <2>5. News'
    BY <1>1, <1>4, <1>8, <2>1 DEF SwitchRight, News, Notice, Gone
  <2> QED
    BY <1>6, <2>3, <2>4, <2>5 DEF SwitchRight
<1> QED
  BY <1>3, <1>7, <1>8

(* The other threads leave the switch alone.                               *)
LEMMA OutsideSwitch ==
    ASSUME LInv, SwitchRight, ReturnsWhenOff, OutsideStep
    PROVE  SwitchRight'
<1>1. CASE DirChanges
  BY <1>1, DirRight
<1>2. CASE ~DirChanges
  <2>1. PICK m \in Message :
           /\ UNCHANGED pma_dir /\ pollers' \subseteq pollers
           /\ send(<<m>>) /\ m.type \notin {"PhpMyAdminToggled", "PhpMyAdminDirChanged"}
           /\ m.type = "Tick" => \A i \in 1..Len(queue) : ~Notice(i)
           /\ m.type = "ProcessReady" => \E p \in pollers : m = poller_report("ProcessReady", p)
    BY <1>2, OutsideSends
  <2>2. UNCHANGED <<vars, executed, stage, disk>>
    BY OutsideLeaves
  <2>3. /\ UNCHANGED <<state, attempt, effects, phpmyadmin_enabled, phpmyadmin_dir_exists>>
        /\ queue \in Seq(Message)
    BY <2>2 DEF vars, app, status, ledger, pma, LInv, LoopTyped
  <2>4. ToDo' = ToDo
    BY <2>2, <2>3 DEF ToDo
  <2>5. ChannelKept
    BY <2>1, <2>3, OneMore, SilentKeeps DEF Silent
  <2>6. News'
    BY <2>1, <2>3, NewsKept DEF SwitchRight
  <2>7. Fresh'
    <3>1. \A svc, n : Outstanding(svc, n)' => Outstanding(svc, n)
      BY <2>1, <2>3, OutstandingKept
    <3> QED
      BY <2>3, <2>4, <3>1 DEF SwitchRight, Fresh
  <2>8. Staged' /\ (Down' <=> Down)
    BY <2>2, <2>3, <2>4 DEF SwitchRight, Staged, Idle, Down, SpawnsApache
  <2> QED
    BY <2>1, <2>2, <2>4, <2>5, <2>6, <2>7, <2>8, QuietRight
<1> QED
  BY <1>1, <1>2

-------------------------------------------------------------------------------
(* Effects.  The one the executor is at.                                   *)
Now == effects[executed + 1]

(* The executor carries out one effect, or a stage of it.                  *)
LEMMA ExecuteNow ==
    ASSUME LInv, SpawnFirst, ExecuteEffect
    PROVE  /\ Now \in Effect /\ Now \in ToDo /\ Asks(effects, Now)
           /\ UNCHANGED <<vars, pma_dir, loop>>
           /\ \/ done /\ execute_at_once(Now)
              \/ Now.type = "SpawnService" /\ do_spawn(Now.service, Now.port)
              \/ Now.type = "TogglePhpMyAdmin" /\ do_toggle_phpmyadmin(Now.enable)
           /\ executed' = executed + 1 =>
                  /\ ToDo' \subseteq ToDo
                  /\ \A f \in ToDo : f \in ToDo' \/ f = Now
                  /\ \A f \in ToDo' : f.type # "SpawnService"
           /\ executed' = executed => ToDo' = ToDo
<1>1. /\ executed < Len(effects) /\ UNCHANGED <<vars, loop>>
      /\ \/ done /\ execute_at_once(Now)
         \/ Now.type = "SpawnService" /\ do_spawn(Now.service, Now.port)
         \/ Now.type = "TogglePhpMyAdmin" /\ do_toggle_phpmyadmin(Now.enable)
  BY DEF ExecuteEffect, execute, Now
<1>2. effects \in Seq(Effect) /\ executed \in Nat /\ Len(effects) \in Nat /\ effects' = effects
  BY <1>1 DEF LInv, EffectsTyped, LoopTyped, vars
<1>3. executed + 1 \in 1..Len(effects) /\ executed + 1 \in executed + 1..Len(effects)
  BY <1>1, <1>2
<1>4. Now \in Effect /\ Now \in ToDo /\ Asks(effects, Now)
  BY <1>2, <1>3 DEF Now, ToDo, Asks
<1>5. UNCHANGED pma_dir
  BY <1>1 DEF execute_at_once, do_kill_effect, do_readiness_check, do_stop_health,
              do_schedule_retry, do_persist, do_persist_config, do_spawn, do_toggle_phpmyadmin, settings
<1>6. ASSUME executed' = executed + 1
      PROVE  /\ ToDo' \subseteq ToDo
             /\ \A f \in ToDo : f \in ToDo' \/ f = Now
             /\ \A f \in ToDo' : f.type # "SpawnService"
  <2>1. /\ executed' + 1..Len(effects') \subseteq executed + 1..Len(effects)
        /\ \A i \in executed + 1..Len(effects) : i \in executed' + 1..Len(effects') \/ i = executed + 1
        /\ \A i \in executed' + 1..Len(effects') : i \in 1..Len(effects) /\ i # 1
    BY <1>2, <1>6
  <2>2. \A i \in executed' + 1..Len(effects') : effects'[i].type # "SpawnService"
    BY <1>2, <2>1 DEF SpawnFirst
  <2> QED
    BY <1>2, <2>1, <2>2 DEF ToDo, Now
<1>7. ASSUME executed' = executed PROVE ToDo' = ToDo
  BY <1>2, <1>7 DEF ToDo
<1> QED
  BY <1>1, <1>4, <1>5, <1>6, <1>7

(* What carrying out an effect, or a stage of it, leaves to do.            *)
LEMMA ExecuteAt ==
    ASSUME LInv, CInv, SwitchRight, ExecuteEffect
    PROVE  /\ Now \in Effect /\ Now \in ToDo /\ UNCHANGED <<vars, pma_dir, loop>>
           /\ \/ done /\ execute_at_once(Now)
              \/ Now.type = "SpawnService" /\ do_spawn(Now.service, Now.port)
              \/ Now.type = "TogglePhpMyAdmin" /\ do_toggle_phpmyadmin(Now.enable)
           /\ executed' = executed + 1 =>
                  /\ ToDo' \subseteq ToDo
                  /\ \A f \in ToDo : f \in ToDo' \/ f = Now
                  /\ \A f \in ToDo' : f.type # "SpawnService"
           /\ executed' = executed => ToDo' = ToDo /\ ~Idle' /\ Now' = Now
           /\ \A x \in BOOLEAN : ToggleEffect(x) \in ToDo =>
                  Now = ToggleEffect(x) /\ (executed' = executed + 1 => ToDo' = {})
<1>1. /\ executed < Len(effects) /\ UNCHANGED <<vars, loop>>
      /\ \/ done /\ execute_at_once(Now)
         \/ Now.type = "SpawnService" /\ do_spawn(Now.service, Now.port)
         \/ Now.type = "TogglePhpMyAdmin" /\ do_toggle_phpmyadmin(Now.enable)
  BY DEF ExecuteEffect, execute, Now
<1>2. effects \in Seq(Effect) /\ executed \in Nat /\ Len(effects) \in Nat /\ effects' = effects
  BY <1>1 DEF LInv, EffectsTyped, LoopTyped, vars
<1>3. /\ Now \in Effect /\ Now \in ToDo /\ UNCHANGED pma_dir
      /\ executed' = executed + 1 =>
             /\ ToDo' \subseteq ToDo
             /\ \A f \in ToDo : f \in ToDo' \/ f = Now
             /\ \A f \in ToDo' : f.type # "SpawnService"
  BY ExecuteNow DEF CInv
<1>4. ASSUME executed' = executed PROVE ToDo' = ToDo /\ ~Idle' /\ Now' = Now
  BY <1>1, <1>2, <1>4 DEF ToDo, Idle, Now
<1>5. ASSUME NEW x \in BOOLEAN, ToggleEffect(x) \in ToDo
      PROVE  Now = ToggleEffect(x) /\ (executed' = executed + 1 => ToDo' = {})
  <2>1. effects = <<ToggleEffect(x)>>
    BY <1>5 DEF SwitchRight, Toggling
  <2>2. Len(effects) = 1 /\ effects[1] = ToggleEffect(x)
    BY <2>1
  <2>3. executed = 0
    BY <1>1, <1>2, <2>2
  <2> QED
    BY <1>2, <2>2, <2>3 DEF Now, ToDo
<1> QED
  BY <1>1, <1>3, <1>4, <1>5

(* With writes that succeed every file of RAMPP's is brought in line.      *)
LEMMA WritesSwitch ==
    ASSUME SpawnsSucceed, "PhpMyAdminConf" \in OwnedFiles, pma_dir \in BOOLEAN, NEW b \in BOOLEAN,
           NEW failing, failing_files(failing), NEW ports, NEW root, NEW held, NEW want,
           want = desired_configs(ports, root, held, b /\ pma_dir),
           disk' = reconciled(disk, want, changed_files(disk, OwnedFiles, want, failing))
    PROVE  /\ pma_dir = TRUE => (b = TRUE <=> disk'["PhpMyAdminConf"] # <<>>)
           /\ pma_dir = FALSE => disk'["PhpMyAdminConf"] = <<>>
           /\ disk'["PhpMyAdminConf"] # disk["PhpMyAdminConf"] =>
                  "PhpMyAdminConf" \in changed_files(disk, OwnedFiles, want, failing)
<1> DEFINE f == "PhpMyAdminConf"
<1>1. failing = {} /\ f \in ManagedFile
  BY DEF failing_files, fault, SpawnsSucceed, SpawnMayFail, ManagedFile
<1>2. disk'[f] = want[f] /\ (disk'[f] # disk[f] => f \in changed_files(disk, OwnedFiles, want, failing))
  BY <1>1 DEF reconciled, changed_files, Differing
<1>3. \A php : <<php>> # <<>>
  OBVIOUS
<1>4. want[f] = IF b /\ pma_dir
                THEN generate_phpmyadmin_apache_conf(port_for(ports, held, "Php"))
                ELSE generate_phpmyadmin_conf_disabled
  BY <1>1 DEF desired_configs
<1>5. IF b /\ pma_dir THEN disk'[f] # <<>> ELSE disk'[f] = <<>>
  BY <1>2, <1>3, <1>4 DEF generate_phpmyadmin_apache_conf, generate_phpmyadmin_conf_disabled
<1> QED
  BY <1>2, <1>5

(* Nothing sent.                                                           *)
LEMMA NothingSent ==
    ASSUME queue \in Seq(Message), News,
           UNCHANGED <<queue, phpmyadmin_enabled, pma_dir, phpmyadmin_dir_exists, state, attempt>>
    PROVE  ChannelKept /\ News'
<1>1. send(<<>>) /\ <<>> \in Seq(Message) /\ Silent(<<>>)
  BY DEF send, Silent
<1>2. \A i : \A b : Says(i, b)' <=> Says(i, b)
  BY DEF Says
<1> QED
  BY <1>1, <1>2, SilentKeeps DEF News, Notice, Gone

(* An effect that is carried out at once leaves the switch alone, unless   *)
(* it writes the configuration.                                            *)
LEMMA AtOnceRight ==
    ASSUME LInv, CInv, SwitchRight, ExecuteEffect, done, execute_at_once(Now),
           Now.type # "PersistConfig", ~SpawnMayFail
    PROVE  SwitchRight'
<1>1. /\ Now \in Effect /\ Now \in ToDo /\ UNCHANGED <<vars, pma_dir>>
      /\ ToDo' \subseteq ToDo
      /\ \A f \in ToDo : f \in ToDo' \/ f = Now
      /\ \A f \in ToDo' : f.type # "SpawnService"
      /\ \A x \in BOOLEAN : ToggleEffect(x) \in ToDo => Now = ToggleEffect(x)
      /\ executed' = executed + 1 /\ stage' = "begin"
  BY ExecuteAt DEF done
<1>2. Now.type \notin {"SpawnService", "TogglePhpMyAdmin"}
  BY DEF execute_at_once
<1>3. stage = "begin"
  BY <1>2 DEF SwitchRight, Staged, LInv, LoopTyped, StageTyped, Now
<1>4. /\ UNCHANGED <<state, attempt, effects, phpmyadmin_enabled, phpmyadmin_dir_exists>>
      /\ queue \in Seq(Message)
  BY <1>1 DEF vars, app, status, ledger, pma, LInv, LoopTyped
<1>5. UNCHANGED disk
  BY DEF execute_at_once, do_kill_effect, do_readiness_check, do_stop_health, do_schedule_retry,
         do_persist
<1>6. ChannelKept /\ News'
  <2>1. CASE UNCHANGED queue
    BY <1>1, <1>4, <2>1, NothingSent DEF SwitchRight
  <2>2. ASSUME NEW m \in Message, m.type = "ProcessExit", send(<<m>>)
        PROVE  ChannelKept /\ News'
    BY <1>1, <1>4, <2>2, OneMore, SilentKeeps, NewsKept DEF Silent, SwitchRight
  <2>3. CASE do_kill_effect(Now.service) /\ Now.type = "KillService"
    <3>1. Now.service \in Service
      BY <1>1, <2>3 DEF Effect
    <3> DEFINE m1 == process_exit(Now.service, attempt[Now.service])
               m2 == process_exit(Now.service, handle[Now.service].born)
    <3>2. m1 \in Message /\ m2 \in Message /\ m1.type = "ProcessExit" /\ m2.type = "ProcessExit"
      BY <3>1, HandlesTyped DEF process_exit
    <3>3. send(<<m1>>) \/ send(<<m2>>) \/ queue' = queue
      BY <1>4, <2>3 DEF do_kill_effect, kill_reports, send
    <3> HIDE DEF m1, m2
    <3> QED
      BY <2>1, <2>2, <3>2, <3>3
  <2> QED
    BY <2>1, <2>3
       DEF execute_at_once, do_readiness_check, do_stop_health, do_schedule_retry, do_persist
<1>7. Fresh' /\ Staged'
  BY <1>1 DEF Fresh, Staged
<1>8. Down => Down'
  BY <1>1, <1>2, <1>4 DEF Down, SpawnsApache
<1>9. \A x \in BOOLEAN : ToggleEffect(x) \notin ToDo
  <2>1. \A x \in BOOLEAN : ToggleEffect(x).type = "TogglePhpMyAdmin"
    BY DEF ToggleEffect
  <2> QED
    BY <1>1, <1>2, <2>1
<1> QED
  BY <1>1, <1>3, <1>5, <1>6, <1>7, <1>8, <1>9, QuietRight

(* A spawn: first the files are brought in line with the switch, as the    *)
(* reducer knows it.                                                       *)
LEMMA PrepareRight ==
    ASSUME SpawnsSucceed, "PhpMyAdminConf" \in OwnedFiles, LInv, PInv, CInv, SwitchRight,
           ExecuteEffect, Now.type = "SpawnService", stage = "begin",
           prepare_spawn(Now.service, Now.port), do_spawn(Now.service, Now.port)
    PROVE  SwitchRight'
<1>1. /\ Now \in Effect /\ Now \in ToDo /\ UNCHANGED <<vars, pma_dir>>
      /\ executed' = executed => ToDo' = ToDo /\ ~Idle' /\ Now' = Now
      /\ \A x \in BOOLEAN : ToggleEffect(x) \in ToDo => Now = ToggleEffect(x)
  BY ExecuteAt
<1>2. /\ UNCHANGED <<state, attempt, effects, phpmyadmin_enabled, phpmyadmin_dir_exists>>
      /\ queue \in Seq(Message) /\ phpmyadmin_enabled \in BOOLEAN /\ pma_dir \in BOOLEAN
      /\ Len(queue) \in Nat
  BY <1>1 DEF vars, app, status, ledger, pma, LInv, LoopTyped, IInv, StateTyped, ExecutorTyped
<1>3. PICK svc \in Service : svc = Now.service
  BY <1>1 DEF Effect
<1>4. PICK enabled \in BOOLEAN : enabled = phpmyadmin_enabled
  BY <1>2
<1>5. PICK failing, changed :
         /\ changed = changed_by(phpmyadmin_enabled, failing) /\ failing_files(failing)
         /\ write_configs(phpmyadmin_enabled, changed)
         /\ send(<<configs_reconciled(changed, {svc})>>)
         /\ go_on(IF failing = {} THEN "replace" ELSE "refuse")
  BY <1>3 DEF prepare_spawn, SpawnsSucceed, SpawnMayFail, PortMayBeTaken, fault, user_owned_blocking
<1>6. stage' = "replace" /\ UNCHANGED <<executed, pollers>>
  <2>1. failing = {}
    BY <1>5 DEF failing_files, fault, SpawnsSucceed, SpawnMayFail
  <2> QED
    BY <1>5, <2>1 DEF go_on, do_spawn, threads
<1>7. /\ pma_dir = TRUE => (enabled = TRUE <=> disk'["PhpMyAdminConf"] # <<>>)
      /\ pma_dir = FALSE => disk'["PhpMyAdminConf"] = <<>>
  BY <1>2, <1>4, <1>5, WritesSwitch DEF write_configs, changed_by, wanted_configs
<1> DEFINE m == configs_reconciled(changed, {svc})
<1>8. m \in Message /\ m.type = "ConfigsReconciled" /\ send(<<m>>)
  BY <1>5, MessagesTyped DEF configs_reconciled
<1> HIDE DEF m
<1>9. ChannelKept /\ News'
  BY <1>1, <1>2, <1>8, OneMore, SilentKeeps, NewsKept DEF Silent, SwitchRight
<1>10. \A x \in BOOLEAN : ToggleEffect(x) \notin ToDo
  <2>1. \A x \in BOOLEAN : ToggleEffect(x).type = "TogglePhpMyAdmin"
    BY DEF ToggleEffect
  <2> QED
    BY <1>1, <2>1
<1>11. Fresh' /\ Staged'
  <2>1. \A s, n : Outstanding(s, n)' => Outstanding(s, n)
    BY <1>2, <1>6, <1>8, OutstandingKept
  <2>2. Fresh'
    BY <1>1, <1>2, <1>6, <2>1 DEF SwitchRight, Fresh
  <2>3. Staged'
    BY <1>1, <1>6 DEF Staged, Now
  <2> QED
    BY <2>2, <2>3
<1>12. Toggling' /\ Noticed' /\ Written'
  <2>1. Toggling'
    BY <1>1, <1>6, <1>10 DEF Toggling, ToggleEffect
  <2>2. Finally(TRUE) => phpmyadmin_dir_exists
    BY <1>10 DEF SwitchRight, Noticed
  <2>3. Noticed'
    BY <1>2, <1>9, <2>2 DEF Noticed, ChannelKept
  <2>4. Written'
    BY <1>1, <1>2, <1>6 DEF SwitchRight, Written, PersistConfig
  <2> QED
    BY <2>1, <2>3, <2>4
<1>13. Bridged'
  <2>1. Bridged /\ stage # "reconcile"
    BY DEF SwitchRight
  <2>2. pma_dir = FALSE => ~OnDisk(TRUE)'
    BY <1>7 DEF OnDisk
  <2> QED
    BY <1>1, <1>2, <1>9, <2>1, <2>2 DEF Bridged, ChannelKept
<1>14. Followed'
  <2> SUFFICES ASSUME NEW b \in BOOLEAN, Finally(b)', pma_dir = TRUE, ~OnDisk(b)'
               PROVE  Wait(b)'
    BY <1>1 DEF Followed
  <2>1. b # enabled
    BY <1>7 DEF OnDisk
  <2>2. ~Agreed(0, b)
    <3>1. 0 \in 0..Len(queue) /\ Says(0, enabled)
      BY <1>2, <1>4 DEF Says
    <3> QED
      BY <2>1, <3>1 DEF Agreed
  <2>3. Bridge(b)
    BY <1>9, <2>2 DEF SwitchRight, Bridged, ChannelKept
  <2>4. PICK j \in 1..Len(queue) : Restart(b, j)
    BY <2>3 DEF Bridge
  <2>5. state[svc] = "Starting" /\ ~Outstanding(svc, attempt[svc])
    <3>1. Asks(effects, Now)
      <4>1. executed \in Nat /\ Len(effects) \in Nat
        BY DEF LInv, LoopTyped, EffectsTyped
      <4>2. executed + 1..Len(effects) \subseteq 1..Len(effects)
        BY <4>1
      <4> QED
        BY <1>1, <4>2 DEF ToDo, Asks
    <3> QED
      BY <1>1, <1>3, <3>1 DEF PInv, ListRight, SwitchRight, Fresh
  <2>6. Waits(svc, j)
    <3>1. \A i \in 1..j : i \in 1..Len(queue)
      BY <1>2
    <3> QED
      BY <2>5, <3>1 DEF Waits, Ready, Outstanding
  <2>7. Wait(b)
    BY <2>4, <2>6 DEF Wait
  <2> QED
    BY <1>9, <2>7 DEF ChannelKept
<1>15. Withdrawn'
  <2>1. pma_dir = FALSE => OnDisk(FALSE)'
    BY <1>7 DEF OnDisk
  <2> QED
    BY <1>1, <2>1 DEF Withdrawn
<1>16. \E b \in BOOLEAN : Finally(b)'
  BY <1>9 DEF SwitchRight, ChannelKept
<1> QED
  BY <1>9, <1>11, <1>12, <1>13, <1>14, <1>15, <1>16 DEF SwitchRight

(* Then the old process goes and the new one is launched.                  *)
LEMMA LaunchRight ==
    ASSUME LInv, CInv, SwitchRight, ExecuteEffect, ~SpawnMayFail,
           Now.type = "SpawnService", stage # "begin", do_spawn(Now.service, Now.port)
    PROVE  SwitchRight'
<1>1. /\ Now \in Effect /\ Now \in ToDo /\ UNCHANGED <<vars, pma_dir>>
      /\ executed' = executed + 1 =>
             /\ ToDo' \subseteq ToDo
             /\ \A f \in ToDo' : f.type # "SpawnService"
      /\ executed' = executed => ToDo' = ToDo /\ ~Idle' /\ Now' = Now
      /\ \A x \in BOOLEAN : ToggleEffect(x) \in ToDo => Now = ToggleEffect(x)
  BY ExecuteAt
<1>2. /\ UNCHANGED <<state, attempt, effects, phpmyadmin_enabled, phpmyadmin_dir_exists>>
      /\ queue \in Seq(Message)
  BY <1>1 DEF vars, app, status, ledger, pma, LInv, LoopTyped
<1>3. stage \in {"replace", "launch"}
  BY DEF SwitchRight, Staged, LInv, LoopTyped, StageTyped, Now, do_spawn
<1>4. /\ UNCHANGED <<disk, pollers>>
      /\ \/ executed' = executed + 1 /\ stage' = "begin" /\ UNCHANGED queue
         \/ executed' = executed /\ stage' = "launch" /\ send(kill_reports(Now.service))
  BY <1>3 DEF do_spawn, done, go_on, fault, SpawnMayFail, threads
<1>5. ChannelKept /\ News' /\ \A s, n : Outstanding(s, n)' => Outstanding(s, n)
  <2>1. CASE UNCHANGED queue
    BY <1>1, <1>2, <1>4, <2>1, NothingSent DEF SwitchRight, Outstanding
  <2>2. CASE send(kill_reports(Now.service))
    <3>1. Now.service \in Service
      BY <1>1 DEF Effect
    <3> DEFINE m == process_exit(Now.service, handle[Now.service].born)
    <3>2. m \in Message /\ m.type = "ProcessExit"
      BY <3>1, HandlesTyped DEF process_exit
    <3>3. send(<<m>>) \/ queue' = queue
      BY <1>2, <2>2 DEF kill_reports, send
    <3> HIDE DEF m
    <3>4. CASE send(<<m>>)
      BY <1>1, <1>2, <1>4, <3>2, <3>4, OneMore, SilentKeeps, NewsKept, OutstandingKept
         DEF Silent, SwitchRight
    <3> QED
      BY <2>1, <3>3, <3>4
  <2> QED
    BY <1>4, <2>1, <2>2
<1>6. Fresh'
  <2>1. CASE executed' = executed + 1
    BY <1>1, <2>1 DEF Fresh
  <2>2. CASE executed' = executed
    BY <1>1, <1>2, <1>5, <2>2 DEF Fresh, SwitchRight
  <2> QED
    BY <1>4, <2>1, <2>2
<1>7. Staged'
  BY <1>1, <1>4 DEF Staged, Now
<1>8. Down => Down'
  BY <1>2, <1>3 DEF Down
<1>9. \A x \in BOOLEAN : ToggleEffect(x) \notin ToDo
  <2>1. \A x \in BOOLEAN : ToggleEffect(x).type = "TogglePhpMyAdmin"
    BY DEF ToggleEffect
  <2> QED
    BY <1>1, <2>1
<1>10. ToDo' \subseteq ToDo /\ stage # "reconcile" /\ stage' # "reconcile"
  BY <1>1, <1>3, <1>4
<1> QED
  BY <1>1, <1>4, <1>5, <1>6, <1>7, <1>8, <1>9, <1>10, QuietRight

(* The configuration is written while Apache is down.                      *)
LEMMA PersistConfigRight ==
    ASSUME SpawnsSucceed, "PhpMyAdminConf" \in OwnedFiles, LInv, CInv, SwitchRight,
           ExecuteEffect, done, Now.type = "PersistConfig", do_persist_config
    PROVE  SwitchRight'
<1>1. /\ Now \in Effect /\ Now \in ToDo /\ UNCHANGED <<vars, pma_dir>>
      /\ ToDo' \subseteq ToDo
      /\ \A f \in ToDo' : f.type # "SpawnService"
      /\ \A x \in BOOLEAN : ToggleEffect(x) \in ToDo => Now = ToggleEffect(x)
      /\ executed' = executed + 1 /\ stage' = "begin"
  BY ExecuteAt DEF done
<1>2. /\ UNCHANGED <<state, attempt, effects, phpmyadmin_enabled, phpmyadmin_dir_exists>>
      /\ queue \in Seq(Message) /\ phpmyadmin_enabled \in BOOLEAN /\ pma_dir \in BOOLEAN
  BY <1>1 DEF vars, app, status, ledger, pma, LInv, LoopTyped, IInv, StateTyped, ExecutorTyped
<1>3. PICK enabled \in BOOLEAN : enabled = phpmyadmin_enabled
  BY <1>2
<1>4. PICK failing, want, changed :
         /\ want = desired_configs(home, document_root, assigned, phpmyadmin_enabled /\ pma_dir)
         /\ changed = changed_files(disk, OwnedFiles, want, failing) /\ failing_files(failing)
         /\ disk' = reconciled(disk, want, changed)
         /\ send(<<configs_reconciled(changed, {})>>)
  BY DEF do_persist_config, fault, SpawnsSucceed, SpawnMayFail
<1>5. pma_dir = FALSE => disk'["PhpMyAdminConf"] = <<>>
  BY <1>2, <1>3, <1>4, WritesSwitch
<1> DEFINE m == configs_reconciled(changed, {})
<1>6. m \in Message /\ m.type = "ConfigsReconciled" /\ send(<<m>>)
  BY <1>4, OtherMessagesTyped DEF configs_reconciled
<1> HIDE DEF m
<1>7. ChannelKept /\ News'
  BY <1>1, <1>2, <1>6, OneMore, SilentKeeps, NewsKept DEF Silent, SwitchRight
<1>8. Now = PersistConfig /\ \A x \in BOOLEAN : ToggleEffect(x) \notin ToDo
  <2>1. \A x \in BOOLEAN : ToggleEffect(x).type = "TogglePhpMyAdmin"
    BY DEF ToggleEffect
  <2>2. Now = PersistConfig
    BY <1>1 DEF Effect, PersistConfig
  <2> QED
    BY <1>1, <2>1, <2>2
<1>9. stage = "begin" /\ state["Apache"] \notin Active
  BY <1>1, <1>8 DEF SwitchRight, Staged, Written, LInv, LoopTyped, StageTyped, Now, SpawnsSucceed
<1>10. Down'
  BY <1>2, <1>9 DEF Down
<1>11. Fresh' /\ Staged' /\ Toggling' /\ Written' /\ Followed' /\ Withdrawn'
  <2>1. Toggling'
    BY <1>1, <1>8 DEF Toggling, ToggleEffect
  <2> QED
    BY <1>1, <1>2, <1>9, <1>10, <2>1 DEF Fresh, Staged, Written, Followed, Withdrawn
<1>12. Noticed'
  <2>1. Finally(TRUE) => phpmyadmin_dir_exists
    BY <1>8 DEF SwitchRight, Noticed
  <2> QED
    BY <1>2, <1>7, <2>1 DEF Noticed, ChannelKept
<1>13. Bridged'
  <2>1. Bridged /\ stage # "reconcile"
    BY <1>9 DEF SwitchRight
  <2>2. pma_dir = FALSE => ~OnDisk(TRUE)'
    BY <1>5 DEF OnDisk
  <2> QED
    BY <1>1, <1>2, <1>7, <2>1, <2>2 DEF Bridged, ChannelKept
<1> QED
  BY <1>7, <1>11, <1>12, <1>13 DEF SwitchRight, ChannelKept

(* Two words that nothing contradicts are the same.                        *)
LEMMA FinallyOne ==
    ASSUME Len(queue) \in Nat, NEW b \in BOOLEAN, NEW c \in BOOLEAN, Finally(b), Finally(c)
    PROVE  b = c
<1>1. PICK i \in 0..Len(queue) : Settles(i, b)
  BY DEF Finally
<1>2. PICK k \in 0..Len(queue) : Settles(k, c)
  BY DEF Finally
<1>3. i \in k..Len(queue) \/ k \in i..Len(queue)
  OBVIOUS
<1> QED
  BY <1>1, <1>2, <1>3 DEF Settles, Agreed

(* The toggle sends its word, before it touches the file.                  *)
LEMMA ToggleSends ==
    ASSUME LInv, CInv, SwitchRight, ExecuteEffect, NEW x \in BOOLEAN, Now = ToggleEffect(x),
           stage = "begin", do_toggle_phpmyadmin(x)
    PROVE  SwitchRight'
<1>1. /\ Now \in ToDo /\ UNCHANGED <<vars, pma_dir>>
      /\ executed' = executed => ToDo' = ToDo /\ ~Idle' /\ Now' = Now
      /\ executed' = executed + 1 => ToDo' = {}
  BY ExecuteAt
<1>2. /\ UNCHANGED <<state, attempt, effects, phpmyadmin_enabled, phpmyadmin_dir_exists>>
      /\ queue \in Seq(Message) /\ phpmyadmin_enabled \in BOOLEAN /\ pma_dir \in BOOLEAN
      /\ Len(queue) \in Nat
  BY <1>1 DEF vars, app, status, ledger, pma, LInv, LoopTyped, IInv, StateTyped, ExecutorTyped
<1>3. /\ effects = <<ToggleEffect(x)>> /\ phpmyadmin_enabled # x
      /\ pma_dir = TRUE => \A svc \in Service : state[svc] = "Running"
      /\ x = TRUE => phpmyadmin_dir_exists
  BY <1>1 DEF SwitchRight, Toggling
<1>4. UNCHANGED <<disk, pollers>>
  BY DEF do_toggle_phpmyadmin, threads
<1>5. ToDo = {ToggleEffect(x)} /\ ToggleEffect(x).type = "TogglePhpMyAdmin"
  <2>1. Len(effects) = 1 /\ effects[1] = ToggleEffect(x)
    BY <1>3
  <2>2. executed \in Nat
    BY DEF LInv, LoopTyped
  <2>3. \A i \in executed + 1..Len(effects) : i = 1
    BY <2>1, <2>2
  <2> QED
    BY <1>1, <2>1, <2>3 DEF ToDo, ToggleEffect
<1>6. ASSUME NEW y \in BOOLEAN, send(<<switch_event("PhpMyAdminToggled", y)>>), y = TRUE => pma_dir = TRUE
      PROVE  News' /\ (\A svc, n : Outstanding(svc, n)' => Outstanding(svc, n))
  <2> DEFINE m == switch_event("PhpMyAdminToggled", y)
  <2>1. m \in Message /\ m.type = "PhpMyAdminToggled" /\ m.value = y /\ send(<<m>>)
    BY <1>6, OtherMessagesTyped DEF switch_event
  <2> HIDE DEF m
  <2> QED
    BY <1>1, <1>2, <1>4, <1>6, <2>1, NewsKept, OutstandingKept DEF SwitchRight
<1>7. ASSUME NEW j \in 1..Len(queue), NEW svc \in Service, NEW y \in BOOLEAN, Waits(svc, j),
             send(<<switch_event("PhpMyAdminToggled", y)>>)
      PROVE  Waits(svc, j)'
  <2>1. \A i \in 1..j : queue'[i] = queue[i]
    <3> DEFINE m == switch_event("PhpMyAdminToggled", y)
    <3>1. m \in Message
      BY OtherMessagesTyped
    <3>2. send(<<m>>)
      BY <1>7
    <3> HIDE DEF m
    <3>3. \A i \in 1..Len(queue) : queue'[i] = queue[i]
      BY <1>2, <3>1, <3>2, OneMore, Grown DEF send
    <3> QED
      BY <1>2, <3>3
  <2> QED
    BY <1>2, <1>7, <2>1 DEF Waits, Ready
<1>8. CASE /\ x = TRUE /\ pma_dir = FALSE
           /\ send(<<switch_event("PhpMyAdminToggled", FALSE)>>) /\ done
  <2>1. /\ Finally(FALSE)' /\ \A b \in BOOLEAN : Finally(b)' => b = FALSE
        /\ \A j \in 1..Len(queue) : j \in 1..Len(queue')
        /\ \A j \in 1..Len(queue) : Restart(FALSE, j) => Restart(FALSE, j)'
        /\ \A j \in 1..Len(queue) : Early(j) => Early(j)'
        /\ \A j \in 1..Len(queue) : Restart(TRUE, j) => Early(j)'
    BY <1>2, <1>8, SwitchSend
  <2>2. ToDo' = {} /\ stage' = "begin"
    BY <1>1, <1>8 DEF done
  <2>3. Fresh' /\ Toggling' /\ Written' /\ Staged' /\ Bridged' /\ Followed' /\ Noticed'
    BY <1>1, <1>8, <2>1, <2>2
       DEF Fresh, Toggling, Written, Staged, Bridged, Followed, Noticed, ToggleEffect, PersistConfig
  <2>4. Withdrawn'
    <3> SUFFICES ASSUME ~OnDisk(FALSE)'
                 PROVE  Down' \/ Soon' \/ Wait(FALSE)'
      BY DEF Withdrawn
    <3>1. ~OnDisk(FALSE) /\ OnDisk(TRUE)
      BY <1>4 DEF OnDisk
    <3>2. CASE Finally(FALSE)
      <4>1. Down \/ Soon \/ Wait(FALSE)
        BY <1>8, <3>1, <3>2 DEF SwitchRight, Withdrawn
      <4>2. Down => Down'
        BY <1>2, <1>5 DEF Down, SpawnsApache
      <4>3. Soon => Soon'
        BY <2>1 DEF Soon
      <4>4. Wait(FALSE) => Wait(FALSE)'
        BY <1>7, <1>8, <2>1 DEF Wait
      <4> QED
        BY <4>1, <4>2, <4>3, <4>4
    <3>3. CASE ~Finally(FALSE)
      <4>1. Finally(TRUE)
        BY <3>3 DEF SwitchRight
      <4>2. ~Agreed(0, TRUE)
        <5>1. PICK enabled \in BOOLEAN : enabled = phpmyadmin_enabled
          BY <1>2
        <5>2. enabled # TRUE
          BY <1>3, <1>8, <5>1
        <5>3. 0 \in 0..Len(queue)
          BY <1>2
        <5>4. Says(0, enabled)
          BY <5>1 DEF Says
        <5> QED
          BY <5>2, <5>3, <5>4 DEF Agreed
      <4>3. Bridge(TRUE)
        BY <3>1, <4>1, <4>2 DEF SwitchRight, Bridged
      <4> QED
        BY <2>1, <4>3 DEF Bridge, Soon
    <3> QED
      BY <3>2, <3>3
  <2>5. News'
    BY <1>6, <1>8
  <2> QED
    BY <2>1, <2>3, <2>4, <2>5 DEF SwitchRight
<1>9. CASE /\ x = FALSE \/ pma_dir = TRUE
           /\ send(<<switch_event("PhpMyAdminToggled", x)>>) /\ go_on("reconcile")
  <2>1. /\ Finally(x)' /\ \A b \in BOOLEAN : Finally(b)' => b = x
        /\ \A j \in 1..Len(queue) : j \in 1..Len(queue')
        /\ \A j \in 1..Len(queue) : Restart(x, j) => Restart(x, j)'
    BY <1>2, <1>9, SwitchSend
  <2>2. stage' = "reconcile" /\ executed' = executed /\ ToDo' = ToDo /\ ~Idle' /\ Now' = Now
    BY <1>1, <1>9 DEF go_on
  <2>3. News' /\ (\A svc, n : Outstanding(svc, n)' => Outstanding(svc, n))
    BY <1>6, <1>9
  <2>4. Fresh' /\ Written' /\ Staged' /\ Bridged' /\ Followed' /\ Withdrawn'
    <3>1. Fresh'
      BY <1>2, <2>2, <2>3 DEF SwitchRight, Fresh
    <3>2. Now'.type = "TogglePhpMyAdmin"
      BY <1>5, <2>2
    <3> QED
      BY <1>2, <2>2, <3>1, <3>2 DEF SwitchRight, Written, Staged, Bridged, Followed, Withdrawn, PersistConfig, Now
  <2>5. Noticed'
    BY <1>2, <1>3, <2>1 DEF Noticed
  <2>6. pma_dir = TRUE => ~OnDisk(x) \/ Bridge(x)
    <3> SUFFICES ASSUME pma_dir = TRUE, OnDisk(x) PROVE Bridge(x)
      OBVIOUS
    <3>1. PICK enabled \in BOOLEAN : enabled = phpmyadmin_enabled
      BY <1>2
    <3>2. ~OnDisk(enabled)
      BY <1>3, <3>1 DEF OnDisk
    <3>3. ~Finally(enabled)
      <4>1. ~Down
        BY <1>3, <1>5, ServiceAssumption DEF Down, SpawnsApache, Active
      <4>2. ~Wait(enabled)
        BY <1>3 DEF Wait, Waits
      <4> QED
        BY <3>2, <4>1, <4>2 DEF SwitchRight, Followed
    <3>4. Finally(x)
      BY <1>3, <3>1, <3>3 DEF SwitchRight
    <3>5. ~Agreed(0, x)
      <4>1. 0 \in 0..Len(queue) /\ Says(0, enabled)
        BY <1>2, <3>1 DEF Says
      <4> QED
        BY <1>3, <3>1, <4>1 DEF Agreed
    <3> QED
      BY <3>4, <3>5 DEF SwitchRight, Bridged
  <2>7. Toggling'
    <3>1. ASSUME NEW y \in BOOLEAN, ToggleEffect(y) \in ToDo PROVE y = x
      BY <1>5, <3>1 DEF ToggleEffect
    <3>2. pma_dir' = TRUE => ~OnDisk(x)' \/ Bridge(x)'
      <4>1. Bridge(x) => Bridge(x)'
        BY <2>1 DEF Bridge
      <4> QED
        BY <1>1, <1>4, <2>6, <4>1 DEF OnDisk
    <3>3. effects' = <<ToggleEffect(x)>> /\ phpmyadmin_enabled' # x
      BY <1>2, <1>3
    <3> QED
      BY <2>1, <2>2, <3>1, <3>2, <3>3 DEF Toggling, ToggleEffect
  <2> QED
    BY <2>1, <2>3, <2>4, <2>5, <2>7 DEF SwitchRight
<1> QED
  BY <1>2, <1>8, <1>9 DEF do_toggle_phpmyadmin

(* Then it brings the file in line with that word, and tells of it.        *)
LEMMA ToggleReconciles ==
    ASSUME SpawnsSucceed, "PhpMyAdminConf" \in OwnedFiles, LInv, CInv, SwitchRight, ExecuteEffect,
           NEW x \in BOOLEAN, Now = ToggleEffect(x), stage = "reconcile", reconcile_toggled(x), done
    PROVE  SwitchRight'
<1>1. /\ Now \in ToDo /\ UNCHANGED <<vars, pma_dir>> /\ ToDo' = {} /\ stage' = "begin"
  BY ExecuteAt DEF done
<1>2. /\ UNCHANGED <<state, attempt, effects, phpmyadmin_enabled, phpmyadmin_dir_exists>>
      /\ queue \in Seq(Message) /\ phpmyadmin_enabled \in BOOLEAN /\ pma_dir \in BOOLEAN
      /\ Len(queue) \in Nat
  BY <1>1 DEF vars, app, status, ledger, pma, LInv, LoopTyped, IInv, StateTyped, ExecutorTyped
<1>3. Finally(x) /\ (pma_dir = TRUE => ~OnDisk(x) \/ Bridge(x))
  BY <1>1 DEF SwitchRight, Toggling
<1>4. PICK failing, changed :
         /\ changed = changed_by(x, failing) /\ failing_files(failing)
         /\ write_configs(x, changed)
         /\ send(<<configs_reconciled(changed, {})>>)
  BY DEF reconcile_toggled
<1>5. /\ pma_dir = TRUE => (x = TRUE <=> disk'["PhpMyAdminConf"] # <<>>)
      /\ pma_dir = FALSE => disk'["PhpMyAdminConf"] = <<>>
      /\ disk'["PhpMyAdminConf"] # disk["PhpMyAdminConf"] => "PhpMyAdminConf" \in changed
  BY <1>2, <1>4, WritesSwitch DEF write_configs, changed_by, wanted_configs
<1> DEFINE m == configs_reconciled(changed, {})
<1>6. /\ m \in Message /\ m.type = "ConfigsReconciled" /\ send(<<m>>)
      /\ "PhpMyAdminConf" \in changed => "Apache" \in m.changed \ m.spawning
  <2>1. Reader("PhpMyAdminConf") = "Apache"
    BY DEF Reader
  <2>2. m.changed = Service \cap {Reader(f) : f \in changed} /\ m.spawning = {}
        /\ m.type = "ConfigsReconciled"
    BY DEF configs_reconciled
  <2>3. m \in Message /\ send(<<m>>)
    BY <1>4, OtherMessagesTyped
  <2> HIDE DEF m
  <2> QED
    BY <2>1, <2>2, <2>3, ServiceAssumption
<1> HIDE DEF m
<1>7. ChannelKept /\ News'
  BY <1>1, <1>2, <1>6, OneMore, SilentKeeps, NewsKept DEF Silent, SwitchRight
<1>8. /\ \A i \in 0..Len(queue), b \in BOOLEAN : Agreed(i, b) <=> Agreed(i, b)'
      /\ \A i \in Nat, b \in BOOLEAN : Says(i, b)' <=> Says(i, b)
  BY <1>2, <1>6, OneMore, SilentSend DEF Silent
<1>0. PICK n \in Nat : n = Len(queue) + 1
  BY <1>2
<1>9. Len(queue') = n /\ queue'[n] = m /\ n \in 1..Len(queue') /\ n - 1 = Len(queue)
  <2>1. queue' = Append(queue, m)
    BY <1>2, <1>6, OneMore DEF send
  <2> QED
    BY <1>0, <1>2, <2>1
<1>10. "PhpMyAdminConf" \in changed => Bridge(x)'
  <2> SUFFICES ASSUME "PhpMyAdminConf" \in changed PROVE Bridge(x)'
    OBVIOUS
  <2>1. PICK i \in 0..Len(queue) : Settles(i, x)
    BY <1>3 DEF Finally
  <2>2. Settles(i, x)'
    BY <1>2, <1>8, <2>1 DEF Settles
  <2>3. i \in 0..n - 1
    BY <1>9
  <2>4. Restarts(n)'
    BY <1>6, <1>9 DEF Restarts
  <2>5. Restart(x, n)'
    BY <2>2, <2>3, <2>4 DEF Restart
  <2> QED
    BY <1>9, <2>5 DEF Bridge
<1>11. \A b \in BOOLEAN : Finally(b)' => b = x
  BY <1>2, <1>3, <1>7, FinallyOne DEF ChannelKept
<1>12. Fresh' /\ Toggling' /\ Written' /\ Staged'
  BY <1>1 DEF Fresh, Toggling, Written, Staged
<1>13. Noticed'
  BY <1>2, <1>7 DEF SwitchRight, Noticed, ChannelKept
<1>14. Bridged'
  <2>1. pma_dir = TRUE => Bridge(x)'
    <3>1. pma_dir = TRUE /\ ~OnDisk(x) => disk'["PhpMyAdminConf"] # disk["PhpMyAdminConf"]
      BY <1>5 DEF OnDisk
    <3> QED
      BY <1>3, <1>5, <1>7, <1>10, <3>1 DEF ChannelKept
  <2>2. pma_dir = FALSE => ~OnDisk(TRUE)'
    BY <1>5 DEF OnDisk
  <2> SUFFICES ASSUME NEW b \in BOOLEAN, Finally(b)', pma_dir' = TRUE \/ (b = TRUE /\ OnDisk(TRUE)')
               PROVE  Bridge(b)'
    BY DEF Bridged
  <2>3. b = x /\ pma_dir' = pma_dir
    BY <1>1, <1>11
  <2>4. pma_dir = TRUE
    BY <1>2, <2>2, <2>3
  <2> QED
    BY <2>1, <2>3, <2>4
<1>15. Followed'
  <2>1. pma_dir = TRUE => OnDisk(x)'
    BY <1>5 DEF OnDisk
  <2> QED
    BY <1>1, <1>11, <2>1 DEF Followed
<1>16. Withdrawn'
  <2>1. pma_dir = FALSE => OnDisk(FALSE)'
    BY <1>5 DEF OnDisk
  <2> QED
    BY <1>1, <2>1 DEF Withdrawn
<1> QED
  BY <1>7, <1>12, <1>13, <1>14, <1>15, <1>16 DEF SwitchRight, ChannelKept

(* Every effect, and every stage of one, keeps the invariant.              *)
LEMMA ExecuteSwitch ==
    ASSUME SpawnsSucceed, "PhpMyAdminConf" \in OwnedFiles, LInv, PInv, CInv, SwitchRight,
           ExecuteEffect
    PROVE  SwitchRight'
<1>1. /\ Now \in Effect /\ Now \in ToDo /\ ~SpawnMayFail
      /\ \/ done /\ execute_at_once(Now)
         \/ Now.type = "SpawnService" /\ do_spawn(Now.service, Now.port)
         \/ Now.type = "TogglePhpMyAdmin" /\ do_toggle_phpmyadmin(Now.enable)
  BY ExecuteAt DEF SpawnsSucceed
<1>2. CASE done /\ execute_at_once(Now)
  <2>1. CASE Now.type = "PersistConfig"
    <3>1. do_persist_config
      BY <1>2, <2>1 DEF execute_at_once
    <3> QED
      BY <1>2, <2>1, <3>1, PersistConfigRight
  <2>2. CASE Now.type # "PersistConfig"
    BY <1>1, <1>2, <2>2, AtOnceRight
  <2> QED
    BY <2>1, <2>2
<1>3. CASE Now.type = "SpawnService" /\ do_spawn(Now.service, Now.port)
  <2>1. CASE stage = "begin"
    <3>1. prepare_spawn(Now.service, Now.port)
      BY <1>3, <2>1 DEF do_spawn
    <3> QED
      BY <1>3, <2>1, <3>1, PrepareRight
  <2>2. CASE stage # "begin"
    BY <1>1, <1>3, <2>2, LaunchRight
  <2> QED
    BY <2>1, <2>2
<1>4. CASE Now.type = "TogglePhpMyAdmin" /\ do_toggle_phpmyadmin(Now.enable)
  <2>1. PICK x \in BOOLEAN : x = Now.enable
    BY <1>1, <1>4 DEF Effect
  <2>2. Now = ToggleEffect(x)
    BY <1>1, <1>4, <2>1 DEF Effect, ToggleEffect
  <2>3. do_toggle_phpmyadmin(x)
    BY <1>4, <2>1
  <2>4. CASE stage = "begin"
    BY <2>2, <2>3, <2>4, ToggleSends
  <2>5. CASE stage # "begin"
    <3>1. stage = "reconcile" /\ reconcile_toggled(x) /\ done
      BY <2>3, <2>5 DEF do_toggle_phpmyadmin
    <3> QED
      BY <2>2, <3>1, ToggleReconciles
  <2> QED
    BY <2>4, <2>5
<1> QED
  BY <1>1, <1>2, <1>3, <1>4

-------------------------------------------------------------------------------
(* Events.  A list that does not speak of the switch or of the written     *)
(* configuration.                                                          *)
Ordinary(list) == \A e : Asks(list, e) => e.type \notin {"TogglePhpMyAdmin", "PersistConfig"}

(* Such lists, one after the other, are one.                               *)
LEMMA OrdinaryConcat ==
    ASSUME NEW s \in Seq(Effect), NEW t \in Seq(Effect), Ordinary(s), Ordinary(t)
    PROVE  Ordinary(s \o t)
BY AsksConcat DEF Ordinary

(* The lists of the reducer's helpers.                                     *)
LEMMA OrdinaryLists ==
    /\ Ordinary(<<>>) /\ Ordinary(<<PersistDesiredState>>) /\ Ordinary(<<OpenPhpMyAdminBrowser>>)
    /\ \A svc : Ordinary(<<ScheduleRetry(svc)>>) /\ Ordinary(kill(svc))
    /\ \A S \in SUBSET Service : Ordinary(kill_all(S))
<1>1. /\ PersistDesiredState.type = "PersistDesiredState"
      /\ OpenPhpMyAdminBrowser.type = "OpenPhpMyAdminBrowser"
      /\ \A svc : /\ ScheduleRetry(svc).type = "ScheduleRetry"
                  /\ StopHealthCheck(svc).type = "StopHealthCheck"
                  /\ KillService(svc).type = "KillService"
  BY DEF PersistDesiredState, OpenPhpMyAdminBrowser, ScheduleRetry, StopHealthCheck, KillService
<1>2. ASSUME NEW a, a.type \notin {"TogglePhpMyAdmin", "PersistConfig"} PROVE Ordinary(<<a>>)
  BY <1>2, AsksShort DEF Ordinary
<1>3. Ordinary(<<>>) /\ \A svc : Ordinary(kill(svc))
  <2>1. \A e : ~Asks(<<>>, e)
    BY AsksShort
  <2>2. ASSUME NEW svc PROVE Ordinary(kill(svc))
    <3>1. \A e : Asks(kill(svc), e) <=> e = StopHealthCheck(svc) \/ e = KillService(svc)
      BY AsksShort DEF kill
    <3> QED
      BY <1>1, <3>1 DEF Ordinary
  <2> QED
    BY <2>1, <2>2 DEF Ordinary
<1>4. ASSUME NEW S \in SUBSET Service PROVE Ordinary(kill_all(S))
  <2> DEFINE apache == kill_if("Apache", S)
             mysql == kill_if("Mysql", S)
             php == kill_if("Php", S)
  <2>1. \A name : kill_if(name, S) \in Seq(Effect) /\ Ordinary(kill_if(name, S))
    BY <1>3, EffectTypes DEF kill_if
  <2>2. kill_all(S) = (apache \o mysql) \o php
    BY DEF kill_all
  <2>3. /\ apache \in Seq(Effect) /\ mysql \in Seq(Effect) /\ php \in Seq(Effect)
        /\ Ordinary(apache) /\ Ordinary(mysql) /\ Ordinary(php)
    BY <2>1
  <2> HIDE DEF apache, mysql, php
  <2>4. apache \o mysql \in Seq(Effect) /\ Ordinary(apache \o mysql)
    BY <2>3, OrdinaryConcat
  <2> QED
    BY <2>2, <2>3, <2>4, OrdinaryConcat
<1> QED
  BY <1>1, <1>2, <1>3, <1>4

(* A start and a crash ask for nothing of the kind.                        *)
LEMMA BeginsOrdinary ==
    ASSUME NEW svc \in Service, NEW err, NEW then \in {<<>>, <<PersistDesiredState>>},
           begin_start(svc, err, then)
    PROVE  Ordinary(effects')
<1>1. Ordinary(then)
  BY OrdinaryLists
<1>2. CASE effects' = then
  BY <1>1, <1>2
<1>3. ASSUME NEW port, effects' = spawn(svc, port) \o then
      PROVE  Ordinary(effects')
  <2> DEFINE a == SpawnService(svc, port)
             b == StartReadinessCheck(svc, port, attempt'[svc])
  <2>1. /\ a.type = "SpawnService" /\ b.type = "StartReadinessCheck"
        /\ PersistDesiredState.type = "PersistDesiredState"
    BY DEF StartReadinessCheck, SpawnService, PersistDesiredState
  <2>2. effects' = <<a, b>> \o then
    BY <1>3 DEF spawn
  <2> HIDE DEF a, b
  <2>3. /\ Len(effects') \in 2..3 /\ effects'[1] = a /\ effects'[2] = b
        /\ Len(effects') = 3 => effects'[3] = PersistDesiredState
    <3>1. CASE then = <<>>
      BY <2>2, <3>1
    <3>2. CASE then = <<PersistDesiredState>>
      BY <2>2, <3>2
    <3> QED
      BY <3>1, <3>2
  <2> QED
    BY <2>1, <2>3 DEF Ordinary, Asks
<1> QED
  BY <1>2, <1>3 DEF begin_start

(* What is given up is killed and may be retried.                          *)
LEMMA CrashOrdinary ==
    ASSUME NEW svc \in Service, crash_and_retry(svc)
    PROVE  Ordinary(effects')
<1>1. PICK rest \in {<<ScheduleRetry(svc)>>, <<>>} : effects' = kill(svc) \o rest
  BY DEF crash_and_retry, schedule
<1>2. kill(svc) \in Seq(Effect) /\ rest \in Seq(Effect) /\ Ordinary(kill(svc)) /\ Ordinary(rest)
  BY EffectTypes, OrdinaryLists
<1> QED
  BY <1>1, <1>2, OrdinaryConcat

(* The switch and the document root are the only matters that ask for more.*)
LEMMA EventsOrdinary ==
    ASSUME LInv, NEW e \in Message, Expected(e), reducer(e),
           e.type \notin {"TogglePhpMyAdmin", "PhpMyAdminDirChanged", "SetDocumentRoot",
                          "ConfigReloaded"}
    PROVE  Ordinary(effects')
<1>1. /\ Ordinary(<<>>) /\ Ordinary(<<PersistDesiredState>>) /\ Ordinary(<<OpenPhpMyAdminBrowser>>)
      /\ \A svc \in Service : Ordinary(kill(svc)) /\ kill(svc) \in Seq(Effect)
      /\ \A S \in SUBSET Service : Ordinary(kill_all(S)) /\ kill_all(S) \in Seq(Effect)
      /\ <<>> \in Seq(Effect) /\ <<PersistDesiredState>> \in Seq(Effect)
  BY OrdinaryLists, EffectTypes, KillAllTyped
<1>2. CASE ignored
  BY <1>1, <1>2 DEF ignored
<1>3. CASE e.type \in {"StartService", "StopService", "RestartService", "AutoRetry"}
  <2> DEFINE svc == e.service
  <2>1. /\ svc \in Service
        /\ StartService(svc) \/ StopService(svc) \/ RestartService(svc) \/ AutoRetry(svc)
    BY <1>3 DEF reducer, Message, Command, ServiceMessage, ExitMessage, PortMessage,
                PollerMessage, FilesMessage, SwitchMessage, TickMessage
  <2> HIDE DEF svc
  <2>2. CASE StartService(svc) \/ AutoRetry(svc)
    BY <1>2, <2>1, <2>2, BeginsOrdinary DEF StartService, AutoRetry
  <2>3. CASE StopService(svc)
    <3>1. Ordinary(kill(svc) \o <<PersistDesiredState>>)
      BY <1>1, <2>1, OrdinaryConcat
    <3> QED
      BY <1>1, <1>2, <2>3, <3>1 DEF StopService, stop_effects
  <2>4. CASE RestartService(svc)
    BY <1>1, <2>1, <2>4, BeginsOrdinary DEF RestartService
  <2> QED
    BY <2>1, <2>2, <2>3, <2>4
<1>4. CASE e.type \in {"ProcessReady", "ReadinessTimeout", "ProcessExit", "HealthCheckPass",
                       "HealthCheckFail"}
  <2> DEFINE svc == e.service
  <2>1. /\ svc \in Service
        /\ \/ ProcessReady(svc, e.attempt) \/ ReadinessTimeout(svc, e.attempt)
           \/ ProcessExit(svc) \/ HealthCheckPass(svc) \/ HealthCheckFail(svc)
    BY <1>4 DEF reducer, Message, Command, ServiceMessage, ExitMessage, PortMessage,
                PollerMessage, FilesMessage, SwitchMessage, TickMessage
  <2> HIDE DEF svc
  <2>2. CASE ProcessReady(svc, e.attempt) \/ ReadinessTimeout(svc, e.attempt)
    BY <1>1, <1>2, <2>1, <2>2, CrashOrdinary DEF ProcessReady, ReadinessTimeout
  <2>3. CASE ProcessExit(svc)
    BY <1>1, <1>2, <2>1, <2>3, CrashOrdinary, BeginsOrdinary DEF ProcessExit
  <2>4. CASE HealthCheckPass(svc) \/ HealthCheckFail(svc)
    BY <1>1, <1>2, <2>1, <2>4, CrashOrdinary DEF HealthCheckPass, HealthCheckFail
  <2> QED
    BY <2>1, <2>2, <2>3, <2>4
<1>5. CASE e.type = "ShutdownAll"
  <2>1. ActiveServices \in SUBSET Service /\ ShutdownAll
    BY <1>5 DEF ActiveServices, reducer
  <2>2. Ordinary(kill_all(ActiveServices) \o <<PersistDesiredState>>)
    BY <1>1, <2>1, OrdinaryConcat
  <2> QED
    BY <2>1, <2>2 DEF ShutdownAll
<1>6. CASE e.type = "ConfigsReconciled"
  <2> DEFINE up == (e.changed \ e.spawning) \cap ActiveServices
  <2>1. up \in SUBSET Service /\ effects' = <<>> \o kill_all(up)
    BY <1>6 DEF reducer, ConfigsReconciled, restart_up, ActiveServices
  <2> HIDE DEF up
  <2> QED
    BY <1>1, <2>1, OrdinaryConcat
<1>7. CASE e.type \in {"PhpMyAdminToggled", "Tick"}
  BY <1>1, <1>2, <1>7 DEF reducer, PhpMyAdminToggled, Tick
<1> QED
  BY <1>3, <1>4, <1>5, <1>6, <1>7 DEF reducer, Expected

(* What an event does to the switch, when no edited file is reloaded.      *)
LEMMA SwitchSteps ==
    ASSUME NEW e, e.type # "ConfigReloaded", reducer(e)
    PROVE  /\ phpmyadmin_enabled' = IF e.type = "PhpMyAdminToggled" THEN e.value
                                    ELSE phpmyadmin_enabled
           /\ phpmyadmin_dir_exists' = IF e.type = "PhpMyAdminDirChanged" THEN e.value
                                       ELSE phpmyadmin_dir_exists
<1>1. CASE e.type = "PhpMyAdminToggled"
  BY <1>1 DEF reducer, PhpMyAdminToggled
<1>2. CASE e.type = "PhpMyAdminDirChanged"
  BY <1>2 DEF reducer, PhpMyAdminDirChanged
<1>3. CASE e.type \notin {"PhpMyAdminToggled", "PhpMyAdminDirChanged"}
  <2>1. CASE ignored
    BY <1>3, <2>1 DEF ignored, app, pma
  <2>2. CASE UNCHANGED pma
    BY <1>3, <2>2 DEF pma
  <2>3. CASE e.type \in {"StartService", "StopService", "RestartService", "ShutdownAll",
                         "ReadinessTimeout", "ProcessExit"}
    BY <2>1, <2>2, <2>3
       DEF reducer, StartService, StopService, RestartService, ShutdownAll, ReadinessTimeout,
           ProcessExit
  <2>4. CASE e.type \in {"ProcessSpawnFailed", "AutoRetry", "HealthCheckPass", "HealthCheckFail",
                         "PortUnavailable", "ConfigsReconciled", "SetDocumentRoot", "Tick"}
    BY <2>1, <2>2, <2>4
       DEF reducer, ProcessSpawnFailed, AutoRetry, HealthCheckPass, HealthCheckFail,
           PortUnavailable, ConfigsReconciled, SetDocumentRoot, Tick
  <2>5. CASE e.type = "TogglePhpMyAdmin"
    BY <1>3, <2>1, <2>5 DEF reducer, TogglePhpMyAdmin
  <2>6. CASE e.type = "ProcessReady"
    BY <1>3, <2>1, <2>6 DEF reducer, ProcessReady
  <2> QED
    BY <1>3, <2>3, <2>4, <2>5, <2>6 DEF reducer
<1> QED
  BY <1>1, <1>2, <1>3

(* Who asks for a toggle, and of what.                                     *)
LEMMA WhyToggled ==
    ASSUME LInv, NEW e \in Message, Expected(e), reducer(e), e.type # "ConfigReloaded",
           NEW x \in BOOLEAN, Asks(effects', ToggleEffect(x))
    PROVE  /\ effects' = <<ToggleEffect(x)>> /\ UNCHANGED <<state, phpmyadmin_enabled>>
           /\ phpmyadmin_enabled # x
           /\ \/ /\ e.type = "TogglePhpMyAdmin" /\ phpmyadmin_dir_exists'
                 /\ \A svc \in Service : state[svc] = "Running"
              \/ e.type = "PhpMyAdminDirChanged" /\ e.value = FALSE /\ x = FALSE
<1>1. phpmyadmin_enabled \in BOOLEAN
  BY DEF LInv, IInv, StateTyped
<1>2. \A y \in BOOLEAN : ToggleEffect(y).type = "TogglePhpMyAdmin" /\ ToggleEffect(y).enable = y
  BY DEF ToggleEffect
<1>3. ~Ordinary(effects')
  BY <1>2 DEF Ordinary
<1>4. ASSUME NEW y \in BOOLEAN, effects' = <<ToggleEffect(y)>> PROVE x = y
  <2>1. ToggleEffect(x) = ToggleEffect(y)
    BY <1>4, AsksShort
  <2> QED
    BY <1>2, <2>1
<1>5. CASE e.type = "TogglePhpMyAdmin"
  <2>1. TogglePhpMyAdmin /\ ~ignored
    BY <1>3, <1>5, OrdinaryLists DEF reducer, ignored
  <2>2. /\ phpmyadmin_dir_exists /\ UNCHANGED <<state, phpmyadmin_enabled, phpmyadmin_dir_exists>>
        /\ \A svc \in Service : state[svc] = "Running"
        /\ effects' = <<ToggleEffect(~phpmyadmin_enabled)>>
    BY <2>1 DEF TogglePhpMyAdmin, status
  <2>3. PICK y \in BOOLEAN : y = ~phpmyadmin_enabled
    BY <1>1
  <2>4. x = y
    BY <1>4, <2>2, <2>3
  <2>5. phpmyadmin_enabled # y
    BY <1>1, <2>3
  <2> QED
    BY <1>5, <2>2, <2>3, <2>4, <2>5
<1>6. CASE e.type = "PhpMyAdminDirChanged"
  <2>1. PhpMyAdminDirChanged(e.value) /\ e.value \in BOOLEAN
    BY <1>6 DEF reducer, Message, Command, ServiceMessage, ExitMessage, PortMessage,
                PollerMessage, FilesMessage, SwitchMessage, TickMessage
  <2>2. e.value = FALSE /\ phpmyadmin_enabled /\ effects' = <<ToggleEffect(FALSE)>>
    BY <1>3, <2>1, OrdinaryLists DEF PhpMyAdminDirChanged
  <2>3. x = FALSE /\ UNCHANGED <<state, phpmyadmin_enabled>>
    BY <1>4, <2>1, <2>2 DEF PhpMyAdminDirChanged, status
  <2> QED
    BY <1>6, <2>2, <2>3
<1>7. CASE e.type = "SetDocumentRoot"
  <2> DEFINE up == {"Apache"} \cap ActiveServices
  <2>1. effects' = <<PersistConfig>> \o kill_all(up) /\ up \in SUBSET Service
    BY <1>7 DEF reducer, SetDocumentRoot, restart_up, ActiveServices
  <2> HIDE DEF up
  <2>2. /\ kill_all(up) \in Seq(Effect) /\ <<PersistConfig>> \in Seq(Effect)
        /\ Ordinary(kill_all(up))
    BY <2>1, EffectTypes, KillAllTyped, OrdinaryLists
  <2>3. Asks(<<PersistConfig>>, ToggleEffect(x)) \/ Asks(kill_all(up), ToggleEffect(x))
    BY <2>1, <2>2, AsksConcat
  <2>4. PersistConfig.type = "PersistConfig"
    BY DEF PersistConfig
  <2>5. ToggleEffect(x) # PersistConfig
    BY <1>2, <2>4
  <2> QED
    BY <1>2, <2>2, <2>3, <2>5, AsksShort DEF Ordinary
<1> QED
  BY <1>3, <1>5, <1>6, <1>7, EventsOrdinary

(* The configuration is written after Apache was told to stop.             *)
LEMMA WhyPersisted ==
    ASSUME LInv, NEW e \in Message, Expected(e), reducer(e), e.type # "ConfigReloaded",
           Asks(effects', PersistConfig)
    PROVE  state'["Apache"] \notin Active
<1>1. PersistConfig.type = "PersistConfig" /\ \A y : ToggleEffect(y).type = "TogglePhpMyAdmin"
  BY DEF PersistConfig, ToggleEffect
<1>2. ~Ordinary(effects') /\ \A y : effects' # <<ToggleEffect(y)>>
  <2>1. ASSUME NEW y, effects' = <<ToggleEffect(y)>> PROVE FALSE
    <3>1. PersistConfig = ToggleEffect(y)
      BY <2>1, AsksShort
    <3> QED
      BY <1>1, <3>1
  <2> QED
    BY <1>1, <2>1 DEF Ordinary
<1>3. CASE e.type \in {"TogglePhpMyAdmin", "PhpMyAdminDirChanged"}
  BY <1>2, <1>3, OrdinaryLists DEF reducer, TogglePhpMyAdmin, PhpMyAdminDirChanged, ignored
<1>4. CASE e.type = "SetDocumentRoot"
  <2>1. restart_up({"Apache"}, <<PersistConfig>>)
    BY <1>4 DEF reducer, SetDocumentRoot
  <2>2. state' = [svc \in Service |-> IF svc \in {"Apache"} \cap ActiveServices THEN "Stopping"
                                      ELSE state[svc]]
    BY <2>1 DEF restart_up, stopping
  <2>3. "Apache" \in Service
    BY ServiceAssumption
  <2> QED
    BY <2>2, <2>3 DEF ActiveServices, Active
<1> QED
  BY <1>2, <1>3, <1>4, EventsOrdinary

(* A service is spawned from where it rests.                               *)
LEMMA SpawnsAtRest ==
    ASSUME LInv, NEW e \in Message, Expected(e), reducer(e),
           NEW f, Asks(effects', f), f.type = "SpawnService"
    PROVE  f.service \in Service /\ state[f.service] \notin Active
<1>1. CASE NoSpawn(effects')
  BY <1>1 DEF NoSpawn
<1>2. CASE BeginsAtRest
  BY <1>2, BeginsFirst DEF BeginsAtRest
<1> QED
  BY <1>1, <1>2, WhySpawned

(* A restart that the loop takes ends Apache.                              *)
LEMMA RestartsNow ==
    ASSUME NEW e, e.type = "ConfigsReconciled", "Apache" \in e.changed \ e.spawning, reducer(e)
    PROVE  state'["Apache"] \notin Active
<1>1. restart_up(e.changed \ e.spawning, <<>>)
  BY DEF reducer, ConfigsReconciled
<1>2. "Apache" \in Service
  BY ServiceAssumption
<1> QED
  BY <1>1, <1>2 DEF restart_up, stopping, ActiveServices, Active

(* What is down stays down, or is spawned from the files of the spawn.     *)
LEMMA DownStays ==
    ASSUME StepRight, state["Apache"] \notin Active, stage' = "begin",
           \A f : Asks(effects', f) => f \in ToDo'
    PROVE  Down'
<1>1. Right("Apache")
  BY ServiceAssumption DEF StepRight
<1>2. CASE state'["Apache"] = "Starting"
  <2>1. SpawnService("Apache", assigned'["Apache"]) \in ToDo'
    BY <1>1, <1>2 DEF Right, Checks, Active
  <2>2. /\ SpawnService("Apache", assigned'["Apache"]).type = "SpawnService"
        /\ SpawnService("Apache", assigned'["Apache"]).service = "Apache"
    BY DEF SpawnService
  <2> QED
    BY <2>1, <2>2 DEF Down, SpawnsApache
<1>3. CASE state'["Apache"] # "Starting"
  BY <1>1, <1>3 DEF Right, Moves, Down, Active
<1> QED
  BY <1>2, <1>3

(* Who was not to be Running before an event was taken, still is not.      *)
LEMMA WaitsOn ==
    ASSUME LInv, TokensFresh, StepRight, NEW e \in Message, Expected(e), reducer(e),
           Len(queue) \in Nat, queue[1] = e,
           \A i \in 2..Len(queue) : queue'[i - 1] = queue[i],
           NEW svc \in Service, NEW j \in 2..Len(queue), Waits(svc, j)
    PROVE  Waits(svc, j - 1)'
<1>1. 1 \in 1..j /\ \A i \in 1..j - 1 : i + 1 \in 2..Len(queue) /\ i + 1 \in 1..j
                                       /\ i + 1 \in 1..Len(queue) /\ (i + 1) - 1 = i
  OBVIOUS
<1>2. StateTyped /\ Right(svc)
  BY DEF LInv, IInv, StepRight
<1>3. state'[svc] # "Running"
  <2> SUFFICES ASSUME state'[svc] = "Running" PROVE FALSE
    OBVIOUS
  <2>1. e.type = "ProcessReady" /\ e.service = svc /\ state'[svc] # state[svc]
    BY WhyMoved DEF Waits
  <2>2. ProcessReady(svc, e.attempt)
    BY <2>1 DEF reducer
  <2>3. of_this_attempt(svc, e.attempt)
    BY <2>1, <2>2 DEF ProcessReady, ignored, app, status
  <2>4. state[svc] = "Starting" /\ Ready(svc, 1)
    BY <2>1, <2>3 DEF of_this_attempt, Ready
  <2> QED
    BY <1>1, <2>4 DEF Waits
<1>4. ASSUME state'[svc] = "Starting", NEW i \in 1..j - 1, Ready(svc, i)' PROVE FALSE
  <2>1. PICK n : n = attempt'[svc]
    OBVIOUS
  <2>2. queue'[i] = queue[i + 1]
    BY <1>1
  <2>3. /\ queue[i + 1].type = "ProcessReady" /\ queue[i + 1].service = svc
        /\ queue[i + 1].attempt = n
    BY <1>4, <2>1, <2>2 DEF Ready
  <2>4. CASE state[svc] = "Starting" /\ SameAttempt(svc)
    <3>1. Ready(svc, i + 1)
      BY <2>1, <2>3, <2>4 DEF Ready, SameAttempt
    <3> QED
      BY <1>1, <2>4, <3>1 DEF Waits
  <2>5. CASE Asks(effects', SpawnService(svc, assigned'[svc]))
    <3>1. SpawnService(svc, assigned'[svc]).type = "SpawnService"
          /\ SpawnService(svc, assigned'[svc]).service = svc
      BY DEF SpawnService
    <3>2. state[svc] \notin Active
      BY <2>5, <3>1, SpawnsAtRest
    <3>3. ~Outstanding(svc, n)
      BY <1>4, <2>1, <3>2 DEF TokensFresh, Active
    <3> QED
      BY <1>1, <2>3, <3>3 DEF Outstanding
  <2> QED
    BY <1>2, <1>4, <2>4, <2>5 DEF Right, Checks
<1> QED
  BY <1>3, <1>4 DEF Waits

(* What the channel says of the directory, once its first event is taken.  *)
LEMMA NewsShift ==
    ASSUME queue \in Seq(Message), queue # <<>>, News, pma_dir \in BOOLEAN,
           phpmyadmin_dir_exists \in BOOLEAN, UNCHANGED pma_dir,
           NEW probe \in {<<>>, <<switch_event("PhpMyAdminDirChanged", pma_dir)>>},
           queue' = Tail(queue) \o probe,
           probe # <<>> => queue[1].type = "Tick" /\ pma_dir # phpmyadmin_dir_exists,
           queue[1].type # "PhpMyAdminDirChanged" => UNCHANGED phpmyadmin_dir_exists
    PROVE  News'
<1>1. /\ Len(queue) \in Nat /\ Len(queue) >= 1 /\ Tail(queue) \in Seq(Message)
      /\ Len(Tail(queue)) = Len(queue) - 1
      /\ \A i \in 1..Len(Tail(queue)) : Tail(queue)[i] = queue[i + 1]
  OBVIOUS
<1>2. PICK b \in BOOLEAN : b = pma_dir
  OBVIOUS
<1> DEFINE m == switch_event("PhpMyAdminDirChanged", b)
<1>3. m \in Message /\ m.type = "PhpMyAdminDirChanged" /\ m.value = b
  BY OtherMessagesTyped DEF switch_event
<1>4. probe = <<>> \/ probe = <<m>>
  BY <1>2
<1> HIDE DEF m
<1>5. PICK n \in Nat : n = Len(queue)
  BY <1>1
<1>6. /\ \A i \in 1..Len(queue') : \/ i + 1 \in 1..n /\ i + 1 # 1 /\ queue'[i] = queue[i + 1]
                                   \/ i = n /\ probe # <<>> /\ queue'[i] = m
      /\ Len(queue') <= n /\ Len(queue') \in Nat
  <2>1. CASE probe = <<>>
    <3>1. queue' = Tail(queue)
      BY <1>1, <2>1
    <3> QED
      BY <1>1, <1>5, <3>1
  <2>2. CASE probe = <<m>>
    <3>0. PICK t \in Seq(Message) : t = Tail(queue)
      BY <1>1
    <3>1. queue' = Append(t, m)
      <4>1. t \o <<m>> = Append(t, m)
        BY <1>3
      <4> QED
        BY <2>2, <3>0, <4>1
    <3>2. /\ Len(t) \in Nat /\ Len(queue') = Len(t) + 1 /\ queue'[Len(t) + 1] = m
          /\ \A i \in 1..Len(queue') : i = Len(t) + 1 \/ (i \in 1..Len(t) /\ queue'[i] = t[i])
      BY <1>3, <3>1
    <3>3. Len(t) + 1 = n /\ \A i \in 1..Len(t) : t[i] = queue[i + 1]
      BY <1>1, <1>5, <3>0
    <3>4. \A i \in 1..Len(t) : i + 1 \in 1..n /\ i + 1 # 1
      BY <3>2, <3>3
    <3>5. probe # <<>>
      BY <2>2
    <3> QED
      BY <3>2, <3>3, <3>4, <3>5
  <2> QED
    BY <1>4, <2>1, <2>2
<1>7. /\ 1 \in 1..n /\ (probe # <<>> => Notice(1))
      /\ \A i, k \in 1..n : Notice(i) /\ Notice(k) => i = k
  BY <1>1, <1>5 DEF Notice, News
<1>8. ASSUME NEW i \in 1..Len(queue'), NEW k \in 1..Len(queue'), Notice(i)', Notice(k)' PROVE i = k
  <2>1. CASE probe # <<>>
    <3>1. ASSUME NEW l \in 1..Len(queue'), Notice(l)' PROVE l = n
      <4>1. CASE l + 1 \in 1..n /\ l + 1 # 1 /\ queue'[l] = queue[l + 1]
        <5>1. Notice(l + 1)
          BY <3>1, <4>1 DEF Notice
        <5> QED
          BY <1>7, <2>1, <4>1, <5>1
      <4> QED
        BY <1>6, <4>1
    <3> QED
      BY <1>8, <3>1
  <2>2. CASE probe = <<>>
    <3>1. /\ i + 1 \in 1..n /\ k + 1 \in 1..n
          /\ queue'[i] = queue[i + 1] /\ queue'[k] = queue[k + 1]
      BY <1>6, <2>2
    <3>2. Notice(i + 1) /\ Notice(k + 1)
      BY <1>8, <3>1 DEF Notice
    <3>3. i + 1 = k + 1
      BY <1>7, <3>1, <3>2
    <3> QED
      BY <3>3
  <2> QED
    BY <2>1, <2>2
<1>9. ASSUME NEW k \in 1..Len(queue'), Gone(k)'
      PROVE  /\ pma_dir' = FALSE /\ phpmyadmin_dir_exists'
             /\ \A i \in k..Len(queue') : ~Says(i, TRUE)'
  <2>1. CASE k + 1 \in 1..n /\ k + 1 # 1 /\ queue'[k] = queue[k + 1]
    <3>1. Gone(k + 1) /\ Notice(k + 1)
      BY <1>9, <2>1 DEF Gone, Notice
    <3>2. /\ pma_dir = FALSE /\ phpmyadmin_dir_exists
          /\ \A i \in k + 1..n : ~Says(i, TRUE)
      BY <1>5, <2>1, <3>1 DEF News
    <3>3. ~Notice(1)
      BY <1>7, <2>1, <3>1
    <3>4. phpmyadmin_dir_exists'
      BY <3>2, <3>3 DEF Notice
    <3>5. ASSUME NEW i \in k..Len(queue'), Says(i, TRUE)' PROVE FALSE
      <4>1. i # 0 /\ i \in 1..Len(queue') /\ queue'[i].type = "PhpMyAdminToggled"
            /\ queue'[i].value = TRUE
        BY <1>6, <3>5 DEF Says
      <4>2. i + 1 \in 1..n /\ queue'[i] = queue[i + 1]
        BY <1>3, <1>6, <4>1
      <4>3. Says(i + 1, TRUE)
        BY <1>5, <4>1, <4>2 DEF Says
      <4>4. i + 1 \in k + 1..n
        BY <1>6, <3>5, <4>2
      <4> QED
        BY <3>2, <4>3, <4>4
    <3> QED
      BY <3>2, <3>4, <3>5
  <2>2. CASE k = n /\ probe # <<>> /\ queue'[k] = m
    <3>1. b = FALSE
      BY <1>3, <1>9, <2>2 DEF Gone
    <3>2. pma_dir = FALSE /\ phpmyadmin_dir_exists = TRUE
      BY <1>2, <2>2, <3>1
    <3>3. phpmyadmin_dir_exists' = phpmyadmin_dir_exists
      BY <2>2
    <3>4. ASSUME NEW i \in k..Len(queue'), Says(i, TRUE)' PROVE FALSE
      <4>1. i = n /\ i # 0
        <5>1. k = n /\ n >= 1 /\ Len(queue') <= n
          BY <1>1, <1>5, <1>6, <2>2
        <5> QED
          BY <1>6, <5>1
      <4> QED
        BY <1>3, <2>2, <3>4, <4>1 DEF Says
    <3> QED
      BY <3>2, <3>3, <3>4
  <2> QED
    BY <1>6, <2>1, <2>2
<1> QED
  BY <1>8, <1>9 DEF News

(* What is true of the loop whenever it takes an event.                    *)
LEMMA TakesEvent ==
    ASSUME LInv, SwitchRight, Idle, queue # <<>>
    PROVE  /\ queue \in Seq(Message) /\ Len(queue) \in Nat /\ Len(queue) >= 1
           /\ queue[1] = Head(queue) /\ Head(queue) \in Message
           /\ \A i \in 2..Len(queue) : Tail(queue)[i - 1] = queue[i]
           /\ stage = "begin" /\ ToDo = {}
           /\ phpmyadmin_enabled \in BOOLEAN /\ phpmyadmin_dir_exists \in BOOLEAN
           /\ pma_dir \in BOOLEAN
<1>1. queue \in Seq(Message)
  BY DEF LInv, LoopTyped
<1>2. /\ Len(queue) \in Nat /\ Len(queue) >= 1 /\ queue[1] = Head(queue) /\ Head(queue) \in Message
      /\ \A i \in 2..Len(queue) : Tail(queue)[i - 1] = queue[i]
  <2>1. /\ Len(queue) \in Nat /\ Len(queue) >= 1 /\ queue[1] = Head(queue)
        /\ Head(queue) \in Message /\ Len(Tail(queue)) = Len(queue) - 1
        /\ \A i \in 1..Len(Tail(queue)) : Tail(queue)[i] = queue[i + 1]
    BY <1>1
  <2>2. \A i \in 2..Len(queue) : i - 1 \in 1..Len(Tail(queue)) /\ (i - 1) + 1 = i
    BY <2>1
  <2> QED
    BY <2>1, <2>2
<1>3. stage = "begin" /\ ToDo = {}
  BY IdleHasNothing DEF SwitchRight, Staged
<1> QED
  BY <1>1, <1>2, <1>3 DEF LInv, IInv, StateTyped, ExecutorTyped

(* Restarts move up with the channel, until the loop takes them.           *)
LEMMA RestartsShift ==
    ASSUME queue \in Seq(Message), queue # <<>>, NEW more \in Seq(Message),
           queue' = Tail(queue) \o more, Silent(more), phpmyadmin_enabled \in BOOLEAN,
           phpmyadmin_enabled' = IF Head(queue).type = "PhpMyAdminToggled"
                                 THEN Head(queue).value ELSE phpmyadmin_enabled,
           Restarts(1) => Down',
           \A svc \in Service, j \in 2..Len(queue) : Waits(svc, j) => Waits(svc, j - 1)'
    PROVE  /\ \A b \in BOOLEAN : Finally(b)' <=> Finally(b)
           /\ \A b \in BOOLEAN : Agreed(0, b) => Agreed(0, b)'
           /\ \A b \in BOOLEAN : Bridge(b) => Agreed(0, b)' \/ Bridge(b)'
           /\ \A b \in BOOLEAN : Wait(b) => Down' \/ Wait(b)'
           /\ Soon => Down' \/ Soon'
<1>1. /\ \A b \in BOOLEAN : Finally(b)' <=> Finally(b)
      /\ \A b \in BOOLEAN : Agreed(0, b) => Agreed(0, b)'
      /\ \A j \in 2..Len(queue) : j - 1 \in 1..Len(queue')
      /\ \A b \in BOOLEAN, j \in 2..Len(queue) : Restart(b, j) => Restart(b, j - 1)'
      /\ \A b \in BOOLEAN : Restart(b, 1) => Agreed(0, b)
      /\ \A j \in 2..Len(queue) : Early(j) => Early(j - 1)'
      /\ \A k \in 1..Len(queue) : k = 1 \/ k \in 2..Len(queue)
  BY Shift
<1>2. ASSUME NEW b \in BOOLEAN, Bridge(b) PROVE Agreed(0, b)' \/ Bridge(b)'
  <2>1. PICK j \in 1..Len(queue) : Restart(b, j)
    BY <1>2 DEF Bridge
  <2>2. CASE j = 1
    BY <1>1, <2>1, <2>2
  <2>3. CASE j # 1
    <3>1. j - 1 \in 1..Len(queue') /\ Restart(b, j - 1)'
      BY <1>1, <2>1, <2>3
    <3> QED
      BY <3>1 DEF Bridge
  <2> QED
    BY <2>2, <2>3
<1>3. ASSUME NEW b \in BOOLEAN, Wait(b) PROVE Down' \/ Wait(b)'
  <2>1. PICK j \in 1..Len(queue), svc \in Service : Restart(b, j) /\ Waits(svc, j)
    BY <1>3 DEF Wait
  <2>2. CASE j = 1
    BY <2>1, <2>2 DEF Restart
  <2>3. CASE j # 1
    <3>1. j \in 2..Len(queue)
      BY <1>1, <2>3
    <3>2. j - 1 \in 1..Len(queue') /\ Restart(b, j - 1)' /\ Waits(svc, j - 1)'
      BY <1>1, <2>1, <3>1
    <3> QED
      BY <3>2 DEF Wait
  <2> QED
    BY <2>2, <2>3
<1>4. ASSUME Soon PROVE Down' \/ Soon'
  <2>1. PICK j \in 1..Len(queue) : Early(j)
    BY <1>4 DEF Soon
  <2>2. CASE j = 1
    BY <2>1, <2>2 DEF Early
  <2>3. CASE j # 1
    <3>1. j - 1 \in 1..Len(queue') /\ Early(j - 1)'
      BY <1>1, <2>1, <2>3
    <3> QED
      BY <3>1 DEF Soon
  <2> QED
    BY <2>2, <2>3
<1> QED
  BY <1>1, <1>2, <1>3, <1>4

(* The event the loop takes keeps the invariant.                           *)
LEMMA HandleSwitch ==
    ASSUME SpawnsSucceed, "ConfigReloaded" \notin UserCommands, LInv, PInv, CInv, SwitchRight,
           TokensFresh, HandleEvent
    PROVE  SwitchRight'
<1>1. /\ Idle /\ queue # <<>> /\ executed' = 0
      /\ UNCHANGED <<disk, pma_dir, pollers, stage>>
      /\ queue' = Tail(queue) \o tick_probe(Head(queue))
      /\ tick_probe(Head(queue)) \in Seq(Message)
  BY QueueTyped DEF HandleEvent, threads, settings
<1>2. /\ queue \in Seq(Message) /\ Len(queue) \in Nat /\ Len(queue) >= 1
      /\ queue[1] = Head(queue) /\ Head(queue) \in Message
      /\ \A i \in 2..Len(queue) : Tail(queue)[i - 1] = queue[i]
      /\ stage = "begin" /\ ToDo = {}
      /\ phpmyadmin_enabled \in BOOLEAN /\ phpmyadmin_dir_exists \in BOOLEAN
      /\ pma_dir \in BOOLEAN
  BY <1>1, TakesEvent
<1>3. PICK e \in Message : e = Head(queue)
  BY <1>2
<1>4. /\ StepRight /\ reducer(e) /\ Expected(e)
      /\ \A f : Asks(effects', f) => f \in ToDo'
  BY <1>3, HandleLeaves, MessagesExpected
<1>5. \A f \in ToDo' : Asks(effects', f)
  BY <1>1 DEF ToDo, Asks
<1>6. e.type # "ConfigReloaded"
  BY DEF Message, Command, ServiceMessage, ExitMessage, PortMessage, PollerMessage, FilesMessage,
         SwitchMessage, TickMessage
<1>7. /\ phpmyadmin_enabled' = IF e.type = "PhpMyAdminToggled" THEN e.value
                               ELSE phpmyadmin_enabled
      /\ phpmyadmin_dir_exists' = IF e.type = "PhpMyAdminDirChanged" THEN e.value
                                  ELSE phpmyadmin_dir_exists
  BY <1>4, <1>6, SwitchSteps
<1>8. PICK probe \in Seq(Message) : probe = tick_probe(Head(queue))
  BY <1>1
<1>9. /\ probe \in {<<>>, <<switch_event("PhpMyAdminDirChanged", pma_dir)>>}
      /\ probe # <<>> => e.type = "Tick" /\ pma_dir # phpmyadmin_dir_exists
  BY <1>3, <1>8 DEF tick_probe
<1>10. /\ Silent(probe)
       /\ \A i \in 1..Len(probe) : probe[i].type = "PhpMyAdminDirChanged"
  <2>1. CASE probe = <<>>
    BY <2>1 DEF Silent
  <2>2. PICK d \in BOOLEAN : d = pma_dir
    BY <1>2
  <2> DEFINE m == switch_event("PhpMyAdminDirChanged", d)
  <2>3. m \in Message /\ m.type = "PhpMyAdminDirChanged"
    BY OtherMessagesTyped DEF switch_event
  <2>4. probe = <<>> \/ probe = <<m>>
    BY <1>9, <2>2
  <2> HIDE DEF m
  <2>5. CASE probe = <<m>>
    BY <2>3, <2>5, OneMore DEF Silent
  <2> QED
    BY <2>1, <2>4, <2>5
<1>11. \A i \in 2..Len(queue) : queue'[i - 1] = queue[i]
  <2>1. Tail(queue) \in Seq(Message) /\ Len(Tail(queue)) = Len(queue) - 1
    BY <1>1, <1>2
  <2>2. \A i \in 1..Len(Tail(queue)) : queue'[i] = Tail(queue)[i]
    BY <1>1, <2>1, Grown
  <2>3. \A i \in 2..Len(queue) : i - 1 \in 1..Len(Tail(queue))
    BY <1>2, <2>1
  <2> QED
    BY <1>2, <2>2, <2>3
<1>12. \A svc \in Service, j \in 2..Len(queue) : Waits(svc, j) => Waits(svc, j - 1)'
  BY <1>2, <1>3, <1>4, <1>11, WaitsOn
<1>13. Restarts(1) => Down'
  <2>1. Restarts(1) => state'["Apache"] \notin Active
    BY <1>2, <1>3, <1>4, RestartsNow DEF Restarts
  <2> QED
    BY <2>1 DEF Down
<1>14. Down => Down'
  <2>1. stage' = "begin" /\ (Down => state["Apache"] \notin Active)
    BY <1>1, <1>2 DEF Down, SpawnsApache
  <2> QED
    BY <1>4, <2>1, DownStays
<1>15. /\ \A b \in BOOLEAN : Finally(b)' <=> Finally(b)
       /\ \A b \in BOOLEAN : Agreed(0, b) => Agreed(0, b)'
       /\ \A b \in BOOLEAN : Bridge(b) => Agreed(0, b)' \/ Bridge(b)'
       /\ \A b \in BOOLEAN : Wait(b) => Down' \/ Wait(b)'
       /\ Soon => Down' \/ Soon'
  BY <1>1, <1>2, <1>3, <1>7, <1>8, <1>10, <1>12, <1>13, RestartsShift
<1>16. Bridged' /\ Followed' /\ Withdrawn'
  BY <1>1, <1>2, <1>14, <1>15, SwitchKept DEF SwitchRight
<1>17. News'
  BY <1>1, <1>2, <1>3, <1>7, <1>8, <1>9, NewsShift DEF SwitchRight
<1>18. Gone(1) => pma_dir = FALSE /\ \A i \in 1..Len(queue) : ~Says(i, TRUE)
  <2>1. 1 \in 1..Len(queue)
    BY <1>2
  <2> QED
    BY <2>1 DEF SwitchRight, News
<1>19. \A x \in BOOLEAN : ToggleEffect(x).type = "TogglePhpMyAdmin"
  BY DEF ToggleEffect
<1>20. Toggling'
  <2> SUFFICES ASSUME NEW x \in BOOLEAN, ToggleEffect(x) \in ToDo'
               PROVE  /\ effects' = <<ToggleEffect(x)>> /\ phpmyadmin_enabled' # x
                      /\ pma_dir' = TRUE => \A svc \in Service : state'[svc] = "Running"
                      /\ x = TRUE => phpmyadmin_dir_exists'
    BY <1>1, <1>2 DEF Toggling, ToggleEffect
  <2>1. /\ effects' = <<ToggleEffect(x)>> /\ UNCHANGED <<state, phpmyadmin_enabled>>
        /\ phpmyadmin_enabled # x
        /\ \/ /\ e.type = "TogglePhpMyAdmin" /\ phpmyadmin_dir_exists'
              /\ \A svc \in Service : state[svc] = "Running"
           \/ e.type = "PhpMyAdminDirChanged" /\ e.value = FALSE /\ x = FALSE
    BY <1>4, <1>5, <1>6, WhyToggled
  <2>2. CASE e.type = "PhpMyAdminDirChanged" /\ e.value = FALSE /\ x = FALSE
    <3>1. pma_dir = FALSE
      BY <1>2, <1>3, <1>18, <2>2 DEF Gone
    <3> QED
      BY <1>1, <2>1, <2>2, <3>1
  <2> QED
    BY <2>1, <2>2
<1>21. Noticed'
  <2> SUFFICES ASSUME Finally(TRUE)'
               PROVE  phpmyadmin_dir_exists' \/ ToggleEffect(FALSE) \in ToDo'
    BY <1>1, <1>2 DEF Noticed, ToggleEffect
  <2>1. Finally(TRUE) /\ phpmyadmin_dir_exists
    BY <1>2, <1>15 DEF SwitchRight, Noticed
  <2>2. CASE e.type # "PhpMyAdminDirChanged"
    BY <1>7, <2>1, <2>2
  <2>3. CASE e.type = "PhpMyAdminDirChanged" /\ e.value = FALSE
    <3>1. \A i \in 1..Len(queue) : ~Says(i, TRUE)
      BY <1>2, <1>3, <1>18, <2>3 DEF Gone
    <3>2. PICK i \in 0..Len(queue) : Says(i, TRUE)
      BY <2>1 DEF Finally, Settles
    <3>3. i = 0
      <4>1. i = 0 \/ i \in 1..Len(queue)
        BY <1>2, <3>2
      <4> QED
        BY <3>1, <3>2, <4>1
    <3>4. phpmyadmin_enabled = TRUE
      BY <3>2, <3>3 DEF Says
    <3>5. effects' = <<ToggleEffect(FALSE)>>
      BY <1>4, <2>3, <3>4 DEF reducer, PhpMyAdminDirChanged
    <3> QED
      BY <1>4, <3>5, AsksShort
  <2>4. CASE e.type = "PhpMyAdminDirChanged" /\ e.value # FALSE
    <3>1. e.value \in BOOLEAN
      BY <2>4 DEF Message, Command, ServiceMessage, ExitMessage, PortMessage, PollerMessage,
                  FilesMessage, SwitchMessage, TickMessage
    <3> QED
      BY <1>7, <2>4, <3>1
  <2> QED
    BY <2>2, <2>3, <2>4
<1>22. Fresh'
  <2> SUFFICES ASSUME NEW f \in ToDo', f.type = "SpawnService"
               PROVE  ~Outstanding(f.service, attempt[f.service])'
    BY DEF Fresh
  <2>1. f.service \in Service /\ state[f.service] \notin Active
    BY <1>4, <1>5, SpawnsAtRest
  <2>2. state'[f.service] = "Starting"
    BY <1>4, <1>5 DEF StepRight, SpawnsMatch
  <2>3. PICK n : n = attempt'[f.service]
    OBVIOUS
  <2>4. ~Outstanding(f.service, n)
    BY <2>1, <2>2, <2>3 DEF TokensFresh, Active
  <2>5. \A i \in 1..Len(queue') : \/ i + 1 \in 1..Len(queue) /\ queue'[i] = queue[i + 1]
                                  \/ queue'[i].type = "PhpMyAdminDirChanged"
    <3>1. \A i \in 1..Len(queue') : \/ i + 1 \in 2..Len(queue) /\ queue'[i] = queue[i + 1]
                                    \/ \E k \in 1..Len(probe) : queue'[i] = probe[k]
      BY <1>1, <1>2, <1>3, <1>7, <1>8, <1>10, Shift
    <3>2. \A i \in 2..Len(queue) : i \in 1..Len(queue)
      BY <1>2
    <3> QED
      BY <1>10, <3>1, <3>2
  <2> QED
    BY <1>1, <2>3, <2>4, <2>5 DEF Outstanding
<1>23. Written'
  <2>1. PersistConfig \in ToDo' => state'["Apache"] \notin Active
    BY <1>4, <1>5, <1>6, WhyPersisted
  <2> QED
    BY <2>1 DEF Written, PersistConfig
<1>24. Staged'
  BY <1>1, <1>2 DEF Staged
<1> QED
  BY <1>15, <1>16, <1>17, <1>20, <1>21, <1>22, <1>23, <1>24 DEF SwitchRight

(* A command that the debounce drops changes nothing of it.                *)
LEMMA DropSwitch ==
    ASSUME LInv, SwitchRight, DropCommand
    PROVE  SwitchRight'
<1>1. /\ Idle /\ queue # <<>> /\ queue' = Tail(queue) /\ debounced(Head(queue))
      /\ UNCHANGED <<vars, executed, disk, pma_dir, pollers, stage>>
  BY DEF DropCommand, threads, settings
<1>2. /\ queue \in Seq(Message) /\ Len(queue) \in Nat /\ Len(queue) >= 1
      /\ queue[1] = Head(queue) /\ Head(queue) \in Message
      /\ \A i \in 2..Len(queue) : Tail(queue)[i - 1] = queue[i]
      /\ stage = "begin" /\ ToDo = {}
      /\ phpmyadmin_enabled \in BOOLEAN /\ phpmyadmin_dir_exists \in BOOLEAN
      /\ pma_dir \in BOOLEAN
  BY <1>1, TakesEvent
<1>3. /\ UNCHANGED <<state, attempt, effects, phpmyadmin_enabled, phpmyadmin_dir_exists>>
      /\ ToDo' = {}
  BY <1>1, <1>2 DEF vars, app, status, ledger, pma, ToDo
<1>4. Head(queue).type \in {"StartService", "StopService", "RestartService"}
  BY <1>1 DEF debounced
<1>5. <<>> \in Seq(Message) /\ queue' = Tail(queue) \o <<>> /\ Silent(<<>>)
  BY <1>1, <1>2 DEF Silent
<1>6. ASSUME NEW svc \in Service, NEW j \in 2..Len(queue), Waits(svc, j)
      PROVE  Waits(svc, j - 1)'
  <2>1. \A i \in 1..j - 1 : i + 1 \in 1..j /\ queue'[i] = queue[i + 1]
    <3>1. \A i \in 1..j - 1 : i + 1 \in 1..j /\ i + 1 \in 2..Len(queue) /\ (i + 1) - 1 = i
      OBVIOUS
    <3> QED
      BY <1>1, <1>2, <3>1
  <2> QED
    BY <1>3, <1>6, <2>1 DEF Waits, Ready
<1>7. ~Restarts(1)
  BY <1>2, <1>4 DEF Restarts
<1>8. /\ \A b \in BOOLEAN : Finally(b)' <=> Finally(b)
      /\ \A b \in BOOLEAN : Agreed(0, b) => Agreed(0, b)'
      /\ \A b \in BOOLEAN : Bridge(b) => Agreed(0, b)' \/ Bridge(b)'
      /\ \A b \in BOOLEAN : Wait(b) => Down' \/ Wait(b)'
      /\ Soon => Down' \/ Soon'
  <2>1. phpmyadmin_enabled' = IF Head(queue).type = "PhpMyAdminToggled"
                              THEN Head(queue).value ELSE phpmyadmin_enabled
    BY <1>3, <1>4
  <2>2. PICK more \in Seq(Message) : more = <<>>
    BY <1>5
  <2>3. queue' = Tail(queue) \o more /\ Silent(more)
    BY <1>5, <2>2
  <2>4. \A svc \in Service, j \in 2..Len(queue) : Waits(svc, j) => Waits(svc, j - 1)'
    BY <1>6
  <2> QED
    BY <1>1, <1>2, <1>7, <2>1, <2>3, <2>4, RestartsShift
<1>9. Down => Down'
  BY <1>2, <1>3 DEF Down, SpawnsApache
<1>10. Bridged' /\ Followed' /\ Withdrawn'
  BY <1>1, <1>2, <1>8, <1>9, SwitchKept DEF SwitchRight
<1>11. News'
  BY <1>1, <1>2, <1>3, <1>5, NewsShift DEF SwitchRight
<1>12. Noticed'
  BY <1>2, <1>3, <1>8 DEF SwitchRight, Noticed
<1>13. Toggling' /\ Fresh' /\ Written' /\ Staged'
  BY <1>1, <1>2, <1>3 DEF Toggling, Fresh, Written, Staged, ToggleEffect, PersistConfig
<1> QED
  BY <1>8, <1>10, <1>11, <1>12, <1>13 DEF SwitchRight

(* A step of something else changes nothing of it.                         *)
LEMMA StutterSwitch ==
    ASSUME SwitchRight, UNCHANGED all_vars
    PROVE  SwitchRight'
<1>1. /\ UNCHANGED <<vars, disk, pma_dir, queue, executed, stage, pollers>>
      /\ UNCHANGED <<state, attempt, effects, phpmyadmin_enabled, phpmyadmin_dir_exists>>
  BY DEF all_vars, machine, threads, settings, vars, app, status, ledger, pma
<1>2. \A i, b : Says(i, b)' <=> Says(i, b)
  BY <1>1 DEF Says
<1>3. \A i, b : Agreed(i, b)' <=> Agreed(i, b)
  BY <1>1, <1>2 DEF Agreed
<1>4. \A i, b : Settles(i, b)' <=> Settles(i, b)
  BY <1>2, <1>3 DEF Settles
<1>5. \A j : Restarts(j)' <=> Restarts(j)
  BY <1>1 DEF Restarts
<1>6. \A j, b : (Restart(b, j)' <=> Restart(b, j)) /\ (Early(j)' <=> Early(j))
  BY <1>2, <1>4, <1>5 DEF Restart, Early
<1>7. \A svc, j : Waits(svc, j)' <=> Waits(svc, j)
  BY <1>1 DEF Waits, Ready
<1>8. ChannelKept
  BY <1>1, <1>3, <1>4, <1>6, <1>7 DEF ChannelKept, Finally, Bridge, Wait, Soon
<1>9. ToDo' = ToDo
  BY <1>1 DEF ToDo
<1>10. News' /\ Fresh' /\ Staged'
  <2>1. News'
    BY <1>1, <1>2 DEF SwitchRight, News, Notice, Gone
  <2>2. \A svc, n : Outstanding(svc, n)' <=> Outstanding(svc, n)
    BY <1>1 DEF Outstanding
  <2>3. Fresh' /\ Staged'
    BY <1>1, <1>9, <2>2 DEF SwitchRight, Fresh, Staged, Idle
  <2> QED
    BY <2>1, <2>3
<1>11. Down => Down'
  BY <1>1, <1>9 DEF Down, SpawnsApache
<1> QED
  BY <1>1, <1>8, <1>9, <1>10, <1>11, QuietRight

(* The channel starts with the commands of the restored services.          *)
LEMMA StartsOnly ==
    ASSUME LoopInit
    PROVE  /\ queue \in Seq(Message) /\ Len(queue) \in Nat
           /\ \A i \in 1..Len(queue) : queue[i].type = "StartService"
<1> DEFINE Starts(s) == s \in Seq(Message) /\ \A i \in 1..Len(s) : s[i].type = "StartService"
           apache == start_if("Apache")
           mysql == start_if("Mysql")
           php == start_if("Php")
<1>1. ASSUME NEW svc \in Service PROVE Starts(<<event("StartService", svc)>>)
  <2>1. event("StartService", svc) \in Message /\ event("StartService", svc).type = "StartService"
    BY MessagesTyped DEF event
  <2> QED
    BY <2>1
<1>2. \A name : Starts(start_if(name))
  BY <1>1 DEF start_if, restore
<1>3. Starts(apache) /\ Starts(mysql) /\ Starts(php)
  BY <1>2
<1>4. queue = (apache \o mysql) \o php
  BY DEF LoopInit
<1>5. ASSUME NEW s, NEW t, Starts(s), Starts(t) PROVE Starts(s \o t)
  <2>1. s \in Seq(Message) /\ t \in Seq(Message) /\ s \o t \in Seq(Message)
    BY <1>5
  <2>2. \A i \in 1..Len(s \o t) : (s \o t)[i].type = "StartService"
    BY <1>5, <2>1, Grown
  <2> QED
    BY <2>1, <2>2
<1> HIDE DEF Starts, apache, mysql, php
<1>6. Starts(queue)
  BY <1>3, <1>4, <1>5
<1> QED
  BY <1>6 DEF Starts

(* The program starts with its files written by the switch it was left in. *)
LEMMA InitSwitch ==
    ASSUME LoopInit
    PROVE  SwitchRight
<1>1. /\ queue \in Seq(Message) /\ Len(queue) \in Nat
      /\ \A i \in 1..Len(queue) : queue[i].type = "StartService"
  BY StartsOnly
<1>2. /\ effects = <<>> /\ executed = 0 /\ stage = "begin"
      /\ pma_dir = phpmyadmin_dir_exists /\ phpmyadmin_dir_exists \in BOOLEAN
      /\ phpmyadmin_enabled \in {FALSE, phpmyadmin_dir_exists}
      /\ disk = desired_configs(home, document_root, assigned, phpmyadmin_enabled)
      /\ state["Apache"] = "Stopped"
  <2>1. "Apache" \in Service \ {"Mysql"}
    BY ServiceAssumption
  <2> QED
    BY <2>1 DEF LoopInit, Init
<1>3. PICK b \in BOOLEAN : b = phpmyadmin_enabled
  BY <1>2
<1>4. \A i, c : Says(i, c) <=> i = 0 /\ c = b
  BY <1>1, <1>3 DEF Says
<1>5. /\ \A c \in BOOLEAN : Finally(c) <=> c = b
      /\ Agreed(0, b)
  <2>1. Agreed(0, b) /\ 0 \in 0..Len(queue)
    BY <1>1, <1>4 DEF Agreed
  <2> QED
    BY <1>4, <2>1 DEF Finally, Settles
<1>6. ToDo = {} /\ Idle
  BY <1>2 DEF ToDo, Idle
<1>7. Down
  BY <1>2 DEF Down, Active
<1>8. News
  BY <1>1 DEF News, Notice, Gone
<1>9. Bridged /\ Followed /\ Withdrawn
  BY <1>5, <1>7 DEF Bridged, Followed, Withdrawn
<1>10. Noticed
  BY <1>2, <1>3, <1>5 DEF Noticed
<1>11. Toggling /\ Fresh /\ Written /\ Staged
  BY <1>2, <1>6 DEF Toggling, Fresh, Written, Staged
<1> QED
  BY <1>3, <1>5, <1>8, <1>9, <1>10, <1>11 DEF SwitchRight

(* Every step keeps the invariant until the loop has ended.                *)
LEMMA SwitchStep ==
    ASSUME SpawnsSucceed, "ConfigReloaded" \notin UserCommands, "PhpMyAdminConf" \in OwnedFiles,
           LInv, PInv, CInv, SInv, [LoopNext]_all_vars, [ReturnsWhenOff /\ TokensFresh]_all_vars
    PROVE  SInv'
<1>1. CASE UNCHANGED all_vars
  <2>1. loop' = loop
    BY <1>1 DEF all_vars, loop_vars
  <2> QED
    BY <1>1, <2>1, StutterSwitch DEF SInv
<1>2. CASE LoopNext /\ ReturnsWhenOff /\ TokensFresh
  <2>1. CASE DropCommand
    <3>1. loop = "running"
      BY <2>1 DEF DropCommand
    <3> QED
      BY <2>1, <3>1, DropSwitch DEF SInv
  <2>2. CASE HandleEvent
    <3>1. loop = "running"
      BY <2>2 DEF HandleEvent
    <3> QED
      BY <1>2, <2>2, <3>1, HandleSwitch DEF SInv
  <2>3. CASE ExecuteEffect
    <3>1. loop' = loop
      BY <2>3 DEF ExecuteEffect
    <3> QED
      BY <2>3, <3>1, ExecuteSwitch DEF SInv
  <2>4. CASE Shutdown
    BY <2>4 DEF Shutdown, SInv
  <2>5. CASE OutsideStep
    <3>1. loop' = loop
      BY <2>5, OutsideLeaves
    <3> QED
      BY <1>2, <2>5, <3>1, OutsideSwitch DEF SInv
  <2> QED
    BY <1>2, <2>1, <2>2, <2>3, <2>4, <2>5 DEF LoopNext, LoopStep, OutsideStep
<1> QED
  BY <1>1, <1>2

(* At rest the switch is what the reducer knows, the file says so, and     *)
(* Apache runs on the file.                                                *)
LEMMA HonestAtRest ==
    ASSUME LInv, PInv, CInv, SInv
    PROVE  SwitchIsHonest
<1> SUFFICES ASSUME Settled, pma_dir = phpmyadmin_dir_exists,
                    state["Apache"] = "Running", Live("Apache")
             PROVE  Serving <=> phpmyadmin_enabled
  BY DEF SwitchIsHonest
<1>1. Idle /\ queue = <<>> /\ Len(queue) = 0
  BY DEF Settled
<1>2. "Apache" \in Service /\ state["Apache"] \in Active
  BY ServiceAssumption DEF Active
<1>3. SwitchRight
  BY <1>2 DEF PInv, ServiceRight, Over, SInv
<1>4. phpmyadmin_enabled \in BOOLEAN /\ pma_dir \in BOOLEAN
  BY DEF LInv, IInv, StateTyped, ExecutorTyped
<1>5. PICK b \in BOOLEAN : b = phpmyadmin_enabled
  BY <1>4
<1>6. stage = "begin" /\ ToDo = {}
  BY <1>1, <1>3, IdleHasNothing DEF SwitchRight, Staged
<1>7. ~Down /\ ~Soon /\ \A c : ~Wait(c)
  BY <1>1, <1>2, <1>6 DEF Down, SpawnsApache, Soon, Wait
<1>8. \A i, c : Says(i, c) <=> i = 0 /\ c = b
  BY <1>1, <1>4, <1>5 DEF Says
<1>9. Finally(b)
  BY <1>1, <1>8 DEF Finally, Settles, Agreed
<1>10. pma_dir = FALSE => b = FALSE
  BY <1>3, <1>5, <1>6, <1>9 DEF SwitchRight, Noticed
<1>11. OnDisk(b)
  BY <1>3, <1>4, <1>6, <1>7, <1>9, <1>10 DEF SwitchRight, Followed, Withdrawn
<1>12. handle["Apache"].conf = conf_of("Apache", disk)
  <2>1. ~RestartComes("Apache")
    BY <1>1 DEF RestartComes, Event
  <2> QED
    BY <1>2, <2>1 DEF CInv, ConfRight
<1>13. <<"PhpMyAdminConf", <<>>>> \in conf_of("Apache", disk) <=> disk["PhpMyAdminConf"] = <<>>
  BY DEF conf_of, Reader, ManagedFile
<1> QED
  BY <1>5, <1>11, <1>12, <1>13 DEF Serving, OnDisk

(* The switch is honest however toggles, restarts, retries and changes of  *)
(* the directory interleave, as long as the directory comes back only once *)
(* RAMPP has noticed that it was gone and a token is not used again while  *)
(* an answer to its earlier use is outstanding.  ConfigReloaded is left    *)
(* out: it tells the reducer of the directory without a toggle (executor,  *)
(* do_toggle_phpmyadmin; reducer.rs, PhpMyAdminToggled and                 *)
(* PhpMyAdminDirChanged).                                                  *)
THEOREM SwitchesAreHonest ==
    ASSUME SpawnsSucceed, "ConfigReloaded" \notin UserCommands
    PROVE  LoopSpec /\ [][ReturnsWhenOff /\ TokensFresh]_all_vars => []SwitchIsHonest
<1>1. CASE "PhpMyAdminConf" \notin OwnedFiles
  <2>1. LInv => SwitchIsHonest
    BY <1>1 DEF SwitchIsHonest
  <2> QED
    BY <2>1, LoopInductive, PTL
<1>2. CASE "PhpMyAdminConf" \in OwnedFiles
  <2>1. LoopInit => SInv
    BY InitSwitch DEF SInv
  <2>2. LInv /\ PInv /\ CInv /\ SInv /\ [LoopNext]_all_vars
        /\ [ReturnsWhenOff /\ TokensFresh]_all_vars => SInv'
    BY <1>2, SwitchStep
  <2>3. LInv /\ PInv /\ CInv /\ SInv => SwitchIsHonest
    BY HonestAtRest
  <2> QED
    BY <2>1, <2>2, <2>3, LoopInductive, ProcessesInductive, ConfigsInductive, PTL DEF LoopSpec
<1> QED
  BY <1>1, <1>2

-------------------------------------------------------------------------------
(* Where spawns may fail and ports may be taken.  Event i ends the attempt *)
(* of a service, and nothing before it makes the service Running.          *)
Fails(svc, i) ==
    /\ queue[i].type \in {"ProcessSpawnFailed", "PortUnavailable"} /\ queue[i].service = svc
    /\ queue[i].type = "PortUnavailable" => queue[i].port = assigned[svc]
Doomed(svc) == \E j \in 1..Len(queue) : Fails(svc, j) /\ \A i \in 1..j : ~Ready(svc, i)

(* The process of the attempt, on the configuration on disk.               *)
Fit(svc) ==
    /\ OnIt(svc)
    /\ Live(svc) => handle[svc].conf = conf_of(svc, disk) \/ RestartComes(svc)
OwnRight(svc) ==
    /\ state[svc] = "Starting" =>
           SpawnService(svc, assigned[svc]) \in ToDo \/ Doomed(svc) \/ Fit(svc)
    /\ state[svc] = "Running" => Fit(svc) /\ handle[svc].became_ready /\ handle[svc].checked
    /\ Over(svc)

OInv == ListRight /\ SpawnFirst /\ Fresh /\ \A svc \in Service : OwnRight(svc)

(* What is sent later does not save a service that is doomed.              *)
LEMMA DoomedKept ==
    ASSUME queue \in Seq(Message), NEW more \in Seq(Message), send(more),
           UNCHANGED <<assigned, attempt>>, NEW svc, Doomed(svc)
    PROVE  Doomed(svc)'
<1>1. /\ Len(queue) \in Nat
      /\ \A i \in 1..Len(queue) : i \in 1..Len(queue') /\ queue'[i] = queue[i]
  BY Grown DEF send
<1>2. PICK j \in 1..Len(queue) : Fails(svc, j) /\ \A i \in 1..j : ~Ready(svc, i)
  BY DEF Doomed
<1>3. \A i \in 1..j : i \in 1..Len(queue)
  BY <1>1
<1> QED
  BY <1>1, <1>2, <1>3 DEF Doomed, Fails, Ready

(* A failure that is reported while no answer is outstanding decides the   *)
(* attempt.                                                                *)
LEMMA FailureDooms ==
    ASSUME queue \in Seq(Message), NEW m \in Message, send(<<m>>), UNCHANGED <<assigned, attempt>>,
           NEW svc, ~Outstanding(svc, attempt[svc]),
           m.type \in {"ProcessSpawnFailed", "PortUnavailable"}, m.service = svc,
           m.type = "PortUnavailable" => m.port = assigned[svc]
    PROVE  Doomed(svc)'
<1>0. PICK n \in Nat : n = Len(queue) + 1
  OBVIOUS
<1>1. /\ Len(queue) \in Nat /\ Len(queue') = n /\ n \in 1..Len(queue') /\ queue'[n] = m
      /\ \A i \in 1..n : (i \in 1..Len(queue) /\ queue'[i] = queue[i]) \/ i = n
  <2>1. queue' = Append(queue, m)
    BY OneMore DEF send
  <2> QED
    BY <1>0, <2>1
<1>2. Fails(svc, n)'
  BY <1>1 DEF Fails
<1>3. ASSUME NEW i \in 1..n PROVE ~Ready(svc, i)'
  BY <1>1, <1>3 DEF Ready, Outstanding
<1> QED
  BY <1>1, <1>2, <1>3 DEF Doomed

(* An effect, or a stage of it, sends at most one event, and none that     *)
(* makes a service Running.                                                *)
LEMMA EffectSends ==
    ASSUME LInv, SpawnFirst, ExecuteEffect
    PROVE  /\ done \/ UNCHANGED pollers
           /\ UNCHANGED queue \/ \E m \in Message : send(<<m>>) /\ m.type # "ProcessReady"
<1> DEFINE Quiet == UNCHANGED queue \/ \E m \in Message : send(<<m>>) /\ m.type # "ProcessReady"
<1>1. /\ Now \in Effect
      /\ \/ done /\ execute_at_once(Now)
         \/ Now.type = "SpawnService" /\ do_spawn(Now.service, Now.port)
         \/ Now.type = "TogglePhpMyAdmin" /\ do_toggle_phpmyadmin(Now.enable)
  BY ExecuteNow
<1>2. done \/ UNCHANGED pollers
  BY <1>1 DEF do_spawn, do_toggle_phpmyadmin, threads
<1>3. (UNCHANGED queue => Quiet) /\ (send(<<>>) => Quiet)
  BY DEF LInv, LoopTyped, send
<1>4. ASSUME NEW m \in Message, m.type # "ProcessReady", send(<<m>>)
      PROVE  Quiet
  BY <1>4
<1> HIDE DEF Quiet
<1>5. ASSUME NEW files
      PROVE  /\ configs_reconciled(files, {}) \in Message
             /\ configs_reconciled(files, {}).type # "ProcessReady"
             /\ \A svc \in Service : /\ configs_reconciled(files, {svc}) \in Message
                                     /\ configs_reconciled(files, {svc}).type # "ProcessReady"
  BY MessagesTyped, OtherMessagesTyped DEF configs_reconciled
<1>6. ASSUME NEW svc \in Service
      PROVE  /\ \A n : process_exit(svc, n).type # "ProcessReady"
             /\ process_exit(svc, handle[svc].born) \in Message
             /\ process_exit(svc, attempt[svc]) \in Message
  BY HandlesTyped DEF process_exit
<1>7. ASSUME execute_at_once(Now) PROVE Quiet
  <2>1. CASE Now.type = "KillService" /\ do_kill_effect(Now.service)
    <3>1. Now.service \in Service
      BY <1>1, <2>1 DEF Effect
    <3> QED
      BY <1>3, <1>4, <1>6, <2>1, <3>1 DEF do_kill_effect, kill_reports
  <2>2. CASE do_persist_config
    BY <1>3, <1>4, <1>5, <2>2 DEF do_persist_config
  <2> QED
    BY <1>3, <1>7, <2>1, <2>2
       DEF execute_at_once, do_readiness_check, do_stop_health, do_schedule_retry, do_persist
<1>8. ASSUME Now.type = "SpawnService", do_spawn(Now.service, Now.port) PROVE Quiet
  <2> DEFINE svc == Now.service
             port == Now.port
  <2>1. svc \in Service /\ port \in Port /\ do_spawn(svc, port)
    BY <1>1, <1>8 DEF Effect
  <2> HIDE DEF svc, port
  <2>2. spawn_failed(svc) = <<event("ProcessSpawnFailed", svc)>>
        /\ event("ProcessSpawnFailed", svc).type # "ProcessReady"
        /\ (SpawnMayFail => event("ProcessSpawnFailed", svc) \in Message)
    BY <2>1, MessagesTyped DEF spawn_failed, event
  <2>3. /\ \A n : port_unavailable(svc, port, n).type # "ProcessReady"
        /\ PortMayBeTaken => port_unavailable(svc, port, attempt[svc]) \in Message
    <3>1. attempt[svc] \in Token /\ port \in MaybePort
      BY <2>1 DEF LInv, IInv, StateTyped, Token, MaybePort
    <3> QED
      BY <2>1, <3>1, MessagesTyped DEF port_unavailable
  <2>4. stage = "refuse" \/ fault("spawn fails") \/ user_owned_blocking(svc) => SpawnMayFail
    BY DEF LInv, LoopTyped, StageTyped, fault, user_owned_blocking, SpawnMayFail
  <2>5. fault("port busy") => PortMayBeTaken
    BY DEF fault, PortMayBeTaken
  <2>6. CASE stage = "begin" /\ prepare_spawn(svc, port)
    BY <1>4, <1>5, <2>1, <2>2, <2>3, <2>4, <2>5, <2>6 DEF prepare_spawn, refuse
  <2>7. CASE stage # "begin"
    BY <1>3, <1>4, <1>6, <2>1, <2>2, <2>4, <2>7 DEF do_spawn, refuse, kill_reports
  <2> QED
    BY <2>1, <2>6, <2>7 DEF do_spawn
<1>9. ASSUME Now.type = "TogglePhpMyAdmin", do_toggle_phpmyadmin(Now.enable) PROVE Quiet
  <2>1. PICK x \in BOOLEAN : x = Now.enable
    BY <1>1, <1>9 DEF Effect
  <2>2. ASSUME NEW b \in BOOLEAN
        PROVE  /\ switch_event("PhpMyAdminToggled", b) \in Message
               /\ switch_event("PhpMyAdminToggled", b).type # "ProcessReady"
    BY OtherMessagesTyped DEF switch_event
  <2>3. do_toggle_phpmyadmin(x) /\ FALSE \in BOOLEAN
    BY <1>9, <2>1
  <2> QED
    BY <1>4, <1>5, <2>2, <2>3 DEF do_toggle_phpmyadmin, reconcile_toggled
<1>10. Quiet
  BY <1>1, <1>7, <1>8, <1>9
<1> QED
  BY <1>2, <1>10 DEF Quiet

(* What is Fit stays so while its handle is left alone.                    *)
LEMMA FitKept ==
    ASSUME NEW svc \in Service, Fit(svc), UNCHANGED <<assigned, attempt>>, handle'[svc] = handle[svc],
           conf_of(svc, disk') = conf_of(svc, disk) \/ RestartComes(svc)',
           RestartComes(svc) => RestartComes(svc)'
    PROVE  Fit(svc)'
BY DEF Fit, OnIt, Live

(* The end of a spawn: its process, or what dooms the attempt.             *)
LEMMA SpawnDecides ==
    ASSUME LInv, NEW svc \in Service, NEW port \in Port, port = assigned[svc], do_spawn(svc, port),
           executed' = executed + 1, UNCHANGED vars, ~Outstanding(svc, attempt[svc])
    PROVE  Doomed(svc)' \/ Fit(svc)'
<1>1. /\ UNCHANGED <<assigned, attempt>> /\ queue \in Seq(Message) /\ DOMAIN handle = Service
      /\ executed \in Nat /\ attempt[svc] \in Token /\ port \in MaybePort
  BY DEF vars, app, ledger, LInv, LoopTyped, ExecutorTyped, IInv, StateTyped, Token
<1>2. ASSUME SpawnMayFail, send(spawn_failed(svc)) PROVE Doomed(svc)'
  <2> DEFINE m == event("ProcessSpawnFailed", svc)
  <2>1. m \in Message /\ send(<<m>>) /\ m.type = "ProcessSpawnFailed" /\ m.service = svc
    BY <1>2, MessagesTyped DEF spawn_failed, event
  <2> HIDE DEF m
  <2> QED
    BY <1>1, <2>1, FailureDooms
<1>3. ASSUME PortMayBeTaken, send(<<port_unavailable(svc, port, attempt[svc])>>) PROVE Doomed(svc)'
  <2> DEFINE m == port_unavailable(svc, port, attempt[svc])
  <2>1. m \in Message /\ send(<<m>>) /\ m.type = "PortUnavailable" /\ m.service = svc
        /\ m.port = assigned[svc]
    BY <1>1, <1>3, MessagesTyped DEF port_unavailable
  <2> HIDE DEF m
  <2> QED
    BY <1>1, <2>1, FailureDooms
<1>4. stage = "refuse" \/ fault("spawn fails") \/ user_owned_blocking(svc) => SpawnMayFail
  BY DEF LInv, LoopTyped, StageTyped, fault, user_owned_blocking, SpawnMayFail
<1>5. fault("port busy") => PortMayBeTaken
  BY DEF fault, PortMayBeTaken
<1>6. ASSUME NEW next PROVE ~go_on(next)
  BY <1>1 DEF go_on
<1>7. CASE handle' = [handle EXCEPT ![svc] = launch(svc, port)] /\ UNCHANGED disk
  <2>1. handle'[svc] = launch(svc, port)
    BY <1>1, <1>7
  <2>2. /\ handle'[svc].watcher = "live" /\ handle'[svc].port = assigned'[svc]
        /\ handle'[svc].born = attempt'[svc] /\ handle'[svc].conf = conf_of(svc, disk')
    BY <1>1, <1>7, <2>1 DEF launch
  <2> QED
    BY <2>2 DEF Fit, OnIt
<1>8. CASE stage = "begin" /\ prepare_spawn(svc, port)
  BY <1>2, <1>3, <1>4, <1>5, <1>6, <1>8 DEF prepare_spawn, refuse
<1> QED
  BY <1>2, <1>4, <1>6, <1>7, <1>8 DEF do_spawn, refuse

(* An effect keeps the invariant: a spawn ends with the process of its     *)
(* attempt or with a report that dooms it.                                 *)
LEMMA ExecuteOwn ==
    ASSUME LInv, OInv, ExecuteEffect
    PROVE  OInv'
<1>1. /\ Now \in Effect /\ Now \in ToDo /\ Asks(effects, Now)
      /\ UNCHANGED <<vars, loop>>
      /\ \/ done /\ execute_at_once(Now)
         \/ Now.type = "SpawnService" /\ do_spawn(Now.service, Now.port)
         \/ Now.type = "TogglePhpMyAdmin" /\ do_toggle_phpmyadmin(Now.enable)
      /\ executed' = executed + 1 =>
             /\ \A f \in ToDo : f \in ToDo' \/ f = Now
             /\ \A f \in ToDo' : f.type # "SpawnService"
      /\ executed' = executed => ToDo' = ToDo
  BY ExecuteNow DEF OInv
<1>2. /\ UNCHANGED <<state, assigned, attempt, effects>> /\ Event \subseteq Event'
      /\ queue \in Seq(Message) /\ DOMAIN handle = Service
  BY <1>1, ExecuteLeaves DEF vars, app, status, ledger, LInv, LoopTyped, ExecutorTyped
<1>3. executed' \in {executed, executed + 1} /\ (done => executed' = executed + 1)
  BY <1>1 DEF done, do_spawn, prepare_spawn, refuse, go_on, do_toggle_phpmyadmin
<1>4. /\ done \/ UNCHANGED pollers
      /\ UNCHANGED queue \/ \E m \in Message : send(<<m>>) /\ m.type # "ProcessReady"
  BY EffectSends DEF OInv
<1>5. Fresh'
  <2>1. CASE executed' = executed + 1
    BY <1>1, <2>1 DEF Fresh
  <2>2. CASE executed' # executed + 1
    <3>1. UNCHANGED pollers /\ ToDo' = ToDo
      BY <1>1, <1>3, <1>4, <2>2
    <3>2. \A svc, n : Outstanding(svc, n)' => Outstanding(svc, n)
      <4>1. CASE UNCHANGED queue
        BY <3>1, <4>1 DEF Outstanding
      <4>2. CASE \E m \in Message : send(<<m>>) /\ m.type # "ProcessReady"
        BY <1>2, <3>1, <4>2, OutstandingKept
      <4> QED
        BY <1>4, <4>1, <4>2
    <3> QED
      BY <1>2, <3>1, <3>2 DEF OInv, Fresh
  <2> QED
    BY <2>1, <2>2
<1>6. ListRight' /\ SpawnFirst'
  BY <1>1, <1>2, ListKept DEF OInv, SpawnFirst
<1>7. ASSUME NEW svc \in Service, Doomed(svc) PROVE Doomed(svc)'
  <2>1. CASE UNCHANGED queue
    BY <1>2, <1>7, <2>1 DEF Doomed, Fails, Ready
  <2>2. ASSUME NEW m \in Message, send(<<m>>) PROVE Doomed(svc)'
    BY <1>2, <1>7, <2>2, OneMore, DoomedKept
  <2> QED
    BY <1>4, <2>1, <2>2
<1>8. ASSUME NEW svc \in Service PROVE OwnRight(svc)'
  <2>1. OwnRight(svc) /\ Over(svc)'
    BY <1>1, <1>2, <1>8 DEF OInv, OwnRight, Over
  <2>2. CASE Now.type \in {"KillService", "StopHealthCheck"} /\ Now.service = svc
    <3>1. Now = KillService(svc) \/ Now = StopHealthCheck(svc)
      BY <1>1, <2>2 DEF Effect, KillService, StopHealthCheck
    <3>2. state[svc] \notin Active
      BY <1>1, <3>1 DEF OInv, ListRight
    <3> QED
      BY <1>2, <2>1, <3>2 DEF OwnRight, Active
  <2>3. CASE Now.type = "SpawnService" /\ Now.service = svc
    <3>1. state[svc] = "Starting" /\ assigned[svc] = Now.port
      BY <1>1, <2>3 DEF OInv, ListRight
    <3>2. Now = SpawnService(svc, assigned[svc]) /\ Now.port \in Port
      BY <1>1, <2>3, <3>1 DEF Effect, SpawnService
    <3>3. CASE executed' = executed
      BY <1>1, <1>2, <2>1, <3>1, <3>2, <3>3 DEF OwnRight
    <3>4. CASE executed' = executed + 1
      <4>1. ~Outstanding(svc, attempt[svc])
        BY <1>1, <2>3 DEF OInv, Fresh
      <4>2. do_spawn(svc, assigned[svc]) /\ assigned[svc] \in Port
        BY <1>1, <2>3, <3>1, <3>2 DEF execute_at_once, do_persist, do_persist_config
      <4>3. Doomed(svc)' \/ Fit(svc)'
        BY <1>1, <3>4, <4>1, <4>2, SpawnDecides
      <4> QED
        BY <1>2, <2>1, <3>1, <4>3 DEF OwnRight
    <3> QED
      BY <1>3, <3>3, <3>4
  <2>4. CASE Now.type \notin {"KillService", "SpawnService", "StopHealthCheck"} \/ Now.service # svc
    <3>1. handle'[svc] = handle[svc]
      <4>1. CASE Now.type = "KillService" /\ do_kill_effect(Now.service)
        BY <1>2, <2>4, <4>1 DEF do_kill_effect
      <4>2. CASE Now.type = "StopHealthCheck" /\ do_stop_health(Now.service)
        BY <1>2, <2>4, <4>2 DEF do_stop_health
      <4>3. CASE Now.type = "SpawnService" /\ do_spawn(Now.service, Now.port)
        BY <1>2, <2>4, <4>3 DEF do_spawn, prepare_spawn, refuse
      <4>4. CASE UNCHANGED handle
        BY <4>4
      <4> QED
        BY <1>1, <4>1, <4>2, <4>3, <4>4
           DEF execute_at_once, do_readiness_check, do_schedule_retry, do_persist,
               do_persist_config, do_toggle_phpmyadmin
    <3>2. conf_of(svc, disk') = conf_of(svc, disk) \/ RestartComes(svc)'
      BY <2>4, DiskTells DEF Now
    <3>3. Fit(svc) => Fit(svc)'
      BY <1>2, <3>1, <3>2, FitKept, RestartKept
    <3>4. SpawnService(svc, assigned[svc]) \in ToDo => SpawnService(svc, assigned[svc]) \in ToDo'
      <4>1. /\ SpawnService(svc, assigned[svc]).type = "SpawnService"
            /\ SpawnService(svc, assigned[svc]).service = svc
        BY DEF SpawnService
      <4> QED
        BY <1>1, <1>3, <2>4, <4>1
    <3> QED
      BY <1>2, <1>7, <2>1, <3>1, <3>3, <3>4 DEF OwnRight
  <2> QED
    BY <2>2, <2>3, <2>4
<1> QED
  BY <1>5, <1>6, <1>8 DEF OInv

(* Whoever becomes Running does so by the answer to its own attempt.       *)
LEMMA AnswersItself ==
    ASSUME LInv, NEW e \in Message, reducer(e), NEW svc \in Service,
           state[svc] # "Running", state'[svc] = "Running"
    PROVE  /\ e.type = "ProcessReady" /\ e.service = svc /\ e.attempt = attempt[svc]
           /\ state[svc] = "Starting"
<1>1. StateTyped
  BY DEF LInv, IInv
<1>2. CASE Expected(e)
  <2>1. e.type = "ProcessReady" /\ e.service = svc
    BY <1>2, WhyMoved
  <2>2. ProcessReady(svc, e.attempt)
    BY <2>1 DEF reducer
  <2>3. of_this_attempt(svc, e.attempt)
    BY <2>2 DEF ProcessReady, ignored, app, status
  <2> QED
    BY <2>1, <2>3 DEF of_this_attempt
<1>3. CASE e.type = "ProcessSpawnFailed"
  <2>1. ProcessSpawnFailed(e.service)
    BY <1>3 DEF reducer
  <2> QED
    BY <1>1, <2>1 DEF ProcessSpawnFailed, leave_to, StateTyped
<1>4. CASE e.type = "PortUnavailable"
  <2>1. PortUnavailable(e.service, e.port)
    BY <1>4 DEF reducer
  <2> QED
    BY <1>1, <2>1 DEF PortUnavailable, leave_to, StateTyped, ignored, app, status
<1> QED
  BY <1>2, <1>3, <1>4 DEF Expected

(* A bind failure that is believed gives the service another port, and the *)
(* spawn on it is the first effect; or the service is given up.            *)
LEMMA MovesOn ==
    ASSUME LInv, NEW svc \in Service, NEW port, PortUnavailable(svc, port)
    PROVE  /\ SpawnFirst'
           /\ \A f : Asks(effects', f) /\ f.type = "SpawnService" =>
                  f.service = svc /\ assigned'[svc] # assigned[svc]
           /\ state[svc] = "Starting" /\ assigned[svc] = port /\ state'[svc] = "Starting" =>
                  Asks(effects', SpawnService(svc, assigned'[svc]))
<1>1. StateTyped
  BY DEF LInv, IInv
<1>2. CASE effects' = <<>> /\ (state'[svc] # "Starting" \/ state[svc] # "Starting" \/ assigned[svc] # port)
  BY <1>2 DEF SpawnFirst, Asks
<1>3. ASSUME NEW next, next = allocate_port(home, assigned, unavailable'[svc], svc), next # NoPort,
             assigned[svc] = port, assign(svc, next), effects' = spawn(svc, next),
             unavailable' = [unavailable EXCEPT ![svc] = @ \cup {port}]
      PROVE  /\ SpawnFirst'
             /\ \A f : Asks(effects', f) /\ f.type = "SpawnService" =>
                    f.service = svc /\ assigned'[svc] # assigned[svc]
             /\ Asks(effects', SpawnService(svc, assigned'[svc]))
  <2> DEFINE a == SpawnService(svc, next)
             b == StartReadinessCheck(svc, next, attempt'[svc])
  <2>1. PICK u : u = unavailable'[svc]
    OBVIOUS
  <2>2. port \in u
    BY <1>1, <1>3, <2>1 DEF StateTyped
  <2>3. /\ home \in HomeConfigs /\ assigned \in [Service -> Port \cup {NoPort}]
        /\ DOMAIN assigned = Service
    BY <1>1 DEF StateTyped, MaybePort
  <2>4. next \notin u
    BY <1>3, <2>1, <2>3, AllocateIsFree
  <2>5. assigned'[svc] = next /\ next # assigned[svc]
    BY <1>3, <2>2, <2>3, <2>4 DEF assign
  <2>6. effects' = <<a, b>>
    BY <1>3 DEF spawn
  <2>7. a.type = "SpawnService" /\ a.service = svc /\ b.type # "SpawnService"
        /\ a = SpawnService(svc, assigned'[svc])
    BY <2>5 DEF SpawnService, StartReadinessCheck
  <2> HIDE DEF a, b
  <2>8. Len(effects') = 2 /\ effects'[1] = a /\ effects'[2] = b
    BY <2>6
  <2> QED
    BY <2>5, <2>7, <2>8 DEF SpawnFirst, Asks
<1>4. CASE ignored /\ (state[svc] # "Starting" \/ assigned[svc] # port)
  BY <1>2, <1>4 DEF ignored
<1> DEFINE next == allocate_port(home, assigned, unavailable'[svc], svc)
<1>5. CASE next = NoPort /\ leave_to(svc, "Error") /\ effects' = <<>>
  BY <1>1, <1>2, <1>5 DEF leave_to, StateTyped
<1>6. CASE /\ next # NoPort /\ assigned[svc] = port /\ assign(svc, next) /\ effects' = spawn(svc, next)
           /\ unavailable' = [unavailable EXCEPT ![svc] = @ \cup {port}]
  BY <1>3, <1>6
<1> HIDE DEF next
<1>7. \/ ignored /\ (state[svc] # "Starting" \/ assigned[svc] # port)
      \/ next = NoPort /\ leave_to(svc, "Error") /\ effects' = <<>>
      \/ /\ next # NoPort /\ assigned[svc] = port /\ assign(svc, next) /\ effects' = spawn(svc, next)
         /\ unavailable' = [unavailable EXCEPT ![svc] = @ \cup {port}]
  BY DEF PortUnavailable, next
<1> QED
  BY <1>4, <1>5, <1>6, <1>7

(* Whoever is spawned begins, or moves to another port; either way its     *)
(* token is a new one.                                                     *)
LEMMA SpawnsAnew ==
    ASSUME LInv, NEW e \in Message, reducer(e)
    PROVE  /\ SpawnFirst'
           /\ \A f : Asks(effects', f) /\ f.type = "SpawnService" =>
                  /\ f.service \in Service
                  /\ state[f.service] # "Starting" \/ assigned'[f.service] # assigned[f.service]
<1>1. CASE Expected(e)
  <2>1. CASE NoSpawn(effects')
    BY <2>1 DEF NoSpawn, SpawnFirst, Asks
  <2>2. CASE BeginsAtRest
    BY <2>2, BeginsFirst DEF BeginsAtRest, Active
  <2> QED
    BY <1>1, <2>1, <2>2, WhySpawned
<1>2. CASE e.type = "ProcessSpawnFailed"
  <2>1. effects' = <<>>
    BY <1>2 DEF reducer, ProcessSpawnFailed
  <2> QED
    BY <2>1 DEF SpawnFirst, Asks
<1>3. CASE e.type = "PortUnavailable"
  <2>1. e.service \in Service
    BY <1>3 DEF Message, Command, ServiceMessage, ExitMessage, PortMessage, PollerMessage,
                FilesMessage, SwitchMessage, TickMessage
  <2>2. PortUnavailable(e.service, e.port)
    BY <1>3 DEF reducer
  <2> QED
    BY <2>1, <2>2, MovesOn
<1> QED
  BY <1>1, <1>2, <1>3 DEF Expected

(* What dooms a service comes one place nearer with each event taken.      *)
LEMMA DoomShifts ==
    ASSUME queue \in Seq(Message), queue # <<>>, NEW more \in Seq(Message),
           queue' = Tail(queue) \o more,
           NEW svc, assigned'[svc] = assigned[svc], attempt'[svc] = attempt[svc],
           NEW j \in 2..Len(queue), Fails(svc, j), \A i \in 1..j : ~Ready(svc, i)
    PROVE  Doomed(svc)'
<1>1. /\ Len(queue) \in Nat
      /\ \A i \in 2..Len(queue) : i - 1 \in 1..Len(queue') /\ queue'[i - 1] = queue[i]
  BY TakesHead
<1>2. PICK k \in 1..Len(queue') : k = j - 1
  BY <1>1
<1>3. Fails(svc, k)'
  BY <1>1, <1>2 DEF Fails
<1>4. ASSUME NEW i \in 1..k PROVE ~Ready(svc, i)'
  <2>1. i + 1 \in 1..j /\ i + 1 \in 2..Len(queue) /\ (i + 1) - 1 = i
    BY <1>1, <1>2
  <2>2. queue'[i] = queue[i + 1]
    BY <1>1, <2>1
  <2> QED
    BY <2>1, <2>2 DEF Ready
<1> QED
  BY <1>3, <1>4 DEF Doomed

(* Taking an event adds no answer.                                         *)
LEMMA OutstandingTaken ==
    ASSUME queue \in Seq(Message), queue # <<>>, NEW more \in Seq(Message),
           queue' = Tail(queue) \o more, \A k \in 1..Len(more) : more[k].type # "ProcessReady",
           UNCHANGED pollers, NEW svc, NEW n, Outstanding(svc, n)'
    PROVE  Outstanding(svc, n)
<1>1. /\ Len(queue) \in Nat
      /\ \A i \in 1..Len(queue') : \/ i + 1 \in 2..Len(queue) /\ queue'[i] = queue[i + 1]
                                   \/ \E k \in 1..Len(more) : queue'[i] = more[k]
  BY TakesHead
<1>2. \A i \in 2..Len(queue) : i \in 1..Len(queue)
  BY <1>1
<1> QED
  BY <1>1, <1>2 DEF Outstanding

(* The event the loop takes keeps the invariant: it is the answer that a   *)
(* service waited for, or the report that ends it, or it leaves the        *)
(* attempt as it was.                                                      *)
LEMMA HandleOwn ==
    ASSUME LInv, OInv, TokensFresh, HandleEvent
    PROVE  OInv'
<1>1. /\ queue # <<>> /\ executed' = 0 /\ UNCHANGED <<disk, pollers>>
      /\ queue' = Tail(queue) \o tick_probe(Head(queue))
      /\ tick_probe(Head(queue)) \in Seq(Message)
  BY QueueTyped DEF HandleEvent, threads, settings
<1>2. /\ ToDo = {} /\ StepRight /\ (\A f \in Event : f = Head(queue) \/ f \in Event')
      /\ (\A f : Asks(effects', f) => f \in ToDo')
      /\ Head(queue) \in Message /\ reducer(Head(queue)) /\ loop = "running"
  BY HandleLeaves
<1>3. PICK e \in Message : e = Head(queue)
  BY <1>2
<1>4. /\ loop' = IF e.type = "ShutdownAll" THEN "joining" ELSE loop
      /\ IF e.type = "ProcessReady" /\ state[e.service] # "Running" /\ state'[e.service] = "Running"
         THEN start_health_check(e.service) ELSE UNCHANGED handle
      /\ reducer(e)
  BY <1>3 DEF HandleEvent
<1>5. /\ queue \in Seq(Message) /\ StateTyped /\ DOMAIN handle = Service
      /\ \A svc \in Service : HandleTyped(handle[svc])
  BY DEF LInv, LoopTyped, IInv, ExecutorTyped
<1>6. PICK probe \in Seq(Message) : probe = tick_probe(Head(queue))
  BY <1>1
<1>7. /\ Len(queue) \in Nat /\ Len(queue) >= 1 /\ e = queue[1]
      /\ \A i \in 1..Len(queue') : \/ i + 1 \in 2..Len(queue) /\ queue'[i] = queue[i + 1]
                                   \/ \E k \in 1..Len(probe) : queue'[i] = probe[k]
  BY <1>1, <1>3, <1>5, <1>6, TakesHead
<1>8. \A k \in 1..Len(probe) : probe[k].type = "PhpMyAdminDirChanged"
  BY <1>6 DEF tick_probe, switch_event
<1>9. ListRight'
  BY <1>2 DEF StepRight, SpawnsMatch, KillsMatch, ListRight
<1>10. /\ SpawnFirst'
       /\ \A f : Asks(effects', f) /\ f.type = "SpawnService" =>
              /\ f.service \in Service
              /\ state[f.service] # "Starting" \/ assigned'[f.service] # assigned[f.service]
  BY <1>4, SpawnsAnew
<1>11. Fresh'
  <2> SUFFICES ASSUME NEW f \in ToDo', f.type = "SpawnService"
               PROVE  ~Outstanding(f.service, attempt[f.service])'
    BY DEF Fresh
  <2>1. Asks(effects', f)
    BY <1>1 DEF ToDo, Asks
  <2>2. state'[f.service] = "Starting"
    BY <1>2, <2>1 DEF StepRight, SpawnsMatch
  <2>3. PICK n : n = attempt'[f.service]
    OBVIOUS
  <2>4. ~Outstanding(f.service, n)
    BY <1>10, <2>1, <2>2, <2>3 DEF TokensFresh
  <2>5. \A i \in 2..Len(queue) : i \in 1..Len(queue)
    BY <1>7
  <2> QED
    BY <1>1, <1>7, <1>8, <2>3, <2>4, <2>5 DEF Outstanding
<1>12. ASSUME NEW svc \in Service, state'[svc] \in Active, state[svc] \in Active, RestartComes(svc)
       PROVE  RestartComes(svc)'
  <2>1. ASSUME e.type = "ConfigsReconciled", svc \in e.changed \ e.spawning
        PROVE  FALSE
    <3>1. restart_up(e.changed \ e.spawning, <<>>)
      BY <1>4, <2>1 DEF reducer, ConfigsReconciled
    <3>2. state'[svc] = "Stopping"
      BY <1>12, <2>1, <3>1 DEF restart_up, stopping, ActiveServices
    <3> QED
      BY <1>12, <3>2 DEF Active
  <2> QED
    BY <1>2, <1>3, <1>12, <2>1 DEF RestartComes
<1>13. ASSUME NEW svc \in Service PROVE OwnRight(svc)'
  <2>1. OwnRight(svc) /\ Right(svc) /\ SpawnService(svc, assigned[svc]) \notin ToDo
    BY <1>2 DEF OInv, StepRight
  <2>2. Over(svc)'
    <3>1. CASE e.type = "ShutdownAll"
      <4>1. ShutdownAll
        BY <1>4, <3>1 DEF reducer
      <4> QED
        BY <4>1 DEF ShutdownAll, stopping, ActiveServices, Over, Active
    <3> QED
      BY <1>2, <1>4, <3>1 DEF Over
  <2>3. handle'[svc] = handle[svc] \/ (start_health_check(svc) /\ state[svc] # "Running" /\ state'[svc] = "Running")
    BY <1>4, <1>5 DEF start_health_check
  <2>4. ASSUME Fit(svc), SameAttempt(svc), state[svc] \in Active, state'[svc] \in Active
        PROVE  Fit(svc)'
    <3>1. /\ handle'[svc].watcher = handle[svc].watcher /\ handle'[svc].port = handle[svc].port
          /\ handle'[svc].born = handle[svc].born /\ handle'[svc].conf = handle[svc].conf
      <4>1. handle[svc].watcher # "none"
        BY <2>4 DEF Fit, OnIt
      <4> QED
        BY <1>5, <2>3, <4>1 DEF start_health_check, HandleTyped
    <3> QED
      BY <1>1, <1>12, <2>4, <3>1 DEF Fit, OnIt, Live, SameAttempt
  <2>5. ASSUME state'[svc] = "Running"
        PROVE  Fit(svc)' /\ handle'[svc].became_ready /\ handle'[svc].checked
    <3>1. state[svc] \in Active /\ SameAttempt(svc)
      BY <2>1, <2>5 DEF Right, Moves
    <3>2. CASE state[svc] = "Running"
      BY <2>1, <2>3, <2>4, <2>5, <3>1, <3>2 DEF OwnRight, Active
    <3>3. CASE state[svc] # "Running"
      <4>1. e.type = "ProcessReady" /\ e.service = svc /\ e.attempt = attempt[svc]
            /\ state[svc] = "Starting"
        BY <1>4, <2>5, <3>3, AnswersItself
      <4>2. Ready(svc, 1)
        BY <1>7, <4>1 DEF Ready
      <4>3. ~Doomed(svc)
        <5>1. \A j \in 1..Len(queue) : 1 \in 1..j
          BY <1>7
        <5> QED
          BY <4>2, <5>1 DEF Doomed
      <4>4. Fit(svc)
        BY <2>1, <4>1, <4>3 DEF OwnRight
      <4>5. start_health_check(svc)
        BY <1>4, <2>5, <3>3, <4>1
      <4> QED
        BY <1>5, <2>4, <2>5, <3>1, <4>4, <4>5 DEF start_health_check, HandleTyped, Active
    <3> QED
      BY <3>2, <3>3
  <2>6. ASSUME state'[svc] = "Starting"
        PROVE  SpawnService(svc, assigned'[svc]) \in ToDo' \/ Doomed(svc)' \/ Fit(svc)'
    <3>1. CASE Asks(effects', SpawnService(svc, assigned'[svc]))
      BY <1>2, <3>1
    <3>2. CASE state[svc] = "Starting" /\ SameAttempt(svc) /\ Fit(svc)
      BY <2>4, <2>6, <3>2 DEF Active
    <3>3. CASE state[svc] = "Starting" /\ SameAttempt(svc) /\ Doomed(svc)
      <4>1. PICK j \in 1..Len(queue) : Fails(svc, j) /\ \A i \in 1..j : ~Ready(svc, i)
        BY <3>3 DEF Doomed
      <4>2. CASE j = 1
        <5>1. CASE e.type = "ProcessSpawnFailed" /\ e.service = svc
          <6>1. ProcessSpawnFailed(svc)
            BY <1>4, <5>1 DEF reducer
          <6> QED
            BY <1>5, <2>6, <6>1 DEF ProcessSpawnFailed, leave_to, StateTyped
        <5>2. CASE e.type = "PortUnavailable" /\ e.service = svc /\ e.port = assigned[svc]
          <6>1. PortUnavailable(svc, assigned[svc])
            BY <1>4, <5>2 DEF reducer
          <6>2. Asks(effects', SpawnService(svc, assigned'[svc]))
            BY <2>6, <3>3, <6>1, MovesOn
          <6> QED
            BY <3>1, <6>2
        <5> QED
          BY <1>7, <4>1, <4>2, <5>1, <5>2 DEF Fails
      <4>3. CASE j \in 2..Len(queue)
        BY <1>1, <1>5, <1>6, <3>3, <4>1, <4>3, DoomShifts DEF SameAttempt
      <4> QED
        BY <1>7, <4>2, <4>3
    <3> QED
      BY <2>1, <2>6, <3>1, <3>2, <3>3 DEF Right, Checks, OwnRight
  <2> QED
    BY <2>2, <2>5, <2>6 DEF OwnRight
<1> QED
  BY <1>9, <1>10, <1>11, <1>13 DEF OInv

(* A process may end; it is the same process still.                        *)
SameProcess(svc) ==
    /\ handle[svc].watcher # "none" => handle'[svc].watcher # "none"
    /\ Live(svc)' => Live(svc)
    /\ handle'[svc].port = handle[svc].port /\ handle'[svc].born = handle[svc].born
    /\ handle'[svc].conf = handle[svc].conf
    /\ handle'[svc].became_ready = handle[svc].became_ready
    /\ handle'[svc].checked = handle[svc].checked

(* What neither reduces nor executes keeps the invariant, if it loses no   *)
(* report and adds no answer.                                              *)
LEMMA OwnKept ==
    ASSUME OInv, UNCHANGED <<vars, executed, disk, loop>>,
           \A svc, n : Outstanding(svc, n)' => Outstanding(svc, n),
           \A svc \in Service : Doomed(svc) => Doomed(svc)',
           \A svc \in Service : RestartComes(svc) => RestartComes(svc)',
           \A svc \in Service : SameProcess(svc)
    PROVE  OInv'
<1>1. UNCHANGED <<state, assigned, attempt, effects>> /\ ToDo' = ToDo
  BY DEF vars, app, status, ledger, ToDo
<1>2. ListRight' /\ SpawnFirst' /\ Fresh'
  BY <1>1, ListKept DEF OInv, SpawnFirst, Fresh
<1>3. ASSUME NEW svc \in Service PROVE OwnRight(svc)'
  <2>1. Fit(svc) => Fit(svc)'
    BY <1>1 DEF Fit, OnIt, SameProcess
  <2> QED
    BY <1>1, <2>1 DEF OInv, OwnRight, Over, SameProcess
<1> QED
  BY <1>2, <1>3 DEF OInv

(* The threads keep the invariant: a failure they report is one more.      *)
LEMMA OutsideOwn ==
    ASSUME LInv, OInv, OutsideStep
    PROVE  OInv'
<1>1. UNCHANGED <<vars, executed, disk, loop>> /\ Event \subseteq Event'
  BY OutsideLeaves
<1>2. /\ UNCHANGED <<assigned, attempt>> /\ queue \in Seq(Message) /\ DOMAIN handle = Service
      /\ \A svc \in Service : HandleTyped(handle[svc])
  BY <1>1 DEF vars, app, ledger, LInv, LoopTyped, ExecutorTyped
<1>3. ASSUME NEW svc \in Service PROVE SameProcess(svc)
  <2>1. ASSUME NEW t \in Service, Watcher(t) PROVE handle' = [handle EXCEPT ![t].watcher = "gone"]
    BY <2>1 DEF Watcher, ThreadStep, ProcessEnds
  <2>2. ASSUME NEW t \in Service, Poller(t) \/ Timer(t) \/ CheckPasses(t) \/ CheckFails(t)
        PROVE  UNCHANGED handle
    BY <2>2 DEF Poller, Timer, CheckPasses, CheckFails, ThreadStep, PollerReports, TimerFires,
                HealthPasses, HealthFails
  <2>3. CASE DirChanges \/ TickFires \/ UserCommand
    BY <2>3 DEF DirChanges, TickFires, UserCommand, SameProcess, Live
  <2>4. ASSUME NEW t \in Service, handle' = [handle EXCEPT ![t].watcher = "gone"]
        PROVE  SameProcess(svc)
    <3>1. CASE svc = t
      BY <1>2, <2>4, <3>1 DEF SameProcess, HandleTyped, Live
    <3>2. CASE svc # t
      BY <1>2, <2>4, <3>2 DEF SameProcess, Live
    <3> QED
      BY <3>1, <3>2
  <2>5. CASE UNCHANGED handle
    BY <2>5 DEF SameProcess, Live
  <2> QED
    BY <2>1, <2>2, <2>3, <2>4, <2>5 DEF OutsideStep
<1>4. CASE DirChanges
  <2>1. UNCHANGED <<queue, pollers>>
    BY <1>4 DEF DirChanges, threads
  <2>2. /\ \A svc, n : Outstanding(svc, n)' => Outstanding(svc, n)
        /\ \A svc \in Service : Doomed(svc) => Doomed(svc)'
    BY <1>2, <2>1 DEF Outstanding, Doomed, Fails, Ready
  <2> QED
    BY <1>1, <1>3, <2>2, OwnKept, RestartKept
<1>5. CASE ~DirChanges
  <2>1. pollers' \subseteq pollers
    BY <1>5, OutsideSends
  <2>2. PICK m \in Message :
             /\ send(<<m>>)
             /\ m.type = "ProcessReady" => \E p \in pollers : m = poller_report("ProcessReady", p)
    BY <1>5, OutsideSends
  <2>3. \A svc, n : Outstanding(svc, n)' => Outstanding(svc, n)
    BY <1>2, <2>1, <2>2, OutstandingKept
  <2>4. <<m>> \in Seq(Message)
    BY OneMore
  <2>5. \A svc \in Service : Doomed(svc) => Doomed(svc)'
    BY <1>2, <2>2, <2>4, DoomedKept
  <2> QED
    BY <1>1, <1>3, <2>3, <2>5, OwnKept, RestartKept
<1> QED
  BY <1>4, <1>5

(* A command that the debounce drops is no report and no answer.           *)
LEMMA DropOwn ==
    ASSUME LInv, OInv, DropCommand
    PROVE  OInv'
<1>1. /\ queue # <<>> /\ queue' = Tail(queue) /\ debounced(Head(queue))
      /\ UNCHANGED <<vars, executed, disk, loop, handle, pollers>>
  BY DEF DropCommand, threads, loop_vars
<1>2. /\ queue \in Seq(Message) /\ UNCHANGED <<assigned, attempt>>
      /\ Head(queue).type \in {"StartService", "StopService", "RestartService"}
  BY <1>1 DEF vars, app, ledger, LInv, LoopTyped, debounced
<1>3. <<>> \in Seq(Message) /\ queue' = Tail(queue) \o <<>>
  BY <1>1, <1>2
<1>4. PICK more \in Seq(Message) : more = <<>> /\ queue' = Tail(queue) \o more
  BY <1>3
<1>5. /\ Len(queue) \in Nat /\ Len(queue) >= 1 /\ Head(queue) = queue[1]
      /\ \A i \in 1..Len(queue') : i + 1 \in 2..Len(queue) /\ queue'[i] = queue[i + 1]
  BY <1>1, <1>2, <1>4, TakesHead
<1>6. \A svc, n : Outstanding(svc, n)' => Outstanding(svc, n)
  <2>1. \A k \in 1..Len(more) : more[k].type # "ProcessReady"
    BY <1>4
  <2> QED
    BY <1>1, <1>2, <1>4, <2>1, OutstandingTaken
<1>7. ASSUME NEW svc \in Service, Doomed(svc) PROVE Doomed(svc)'
  <2>1. PICK j \in 1..Len(queue) : Fails(svc, j) /\ \A i \in 1..j : ~Ready(svc, i)
    BY <1>7 DEF Doomed
  <2>2. j # 1
    BY <1>2, <1>5, <2>1 DEF Fails
  <2>3. j \in 2..Len(queue)
    BY <1>5, <2>2
  <2> QED
    BY <1>1, <1>2, <1>4, <2>1, <2>3, DoomShifts
<1>8. ASSUME NEW svc \in Service, RestartComes(svc) PROVE RestartComes(svc)'
  <2>1. \A e \in Event : e \in Event' \/ e.type \in {"StartService", "StopService", "RestartService"}
    BY DropLeaves
  <2> QED
    BY <1>8, <2>1 DEF RestartComes
<1>9. \A svc \in Service : SameProcess(svc)
  BY <1>1 DEF SameProcess, Live
<1> QED
  BY <1>1, <1>6, <1>7, <1>8, <1>9, OwnKept

(* Every step keeps the invariant.                                         *)
LEMMA OwnStep ==
    ASSUME LInv, OInv, [LoopNext]_all_vars, [TokensFresh]_all_vars
    PROVE  OInv'
<1>1. CASE UNCHANGED all_vars
  <2>1. UNCHANGED <<vars, executed, disk, loop, handle, queue, pollers>>
    BY <1>1 DEF all_vars, machine, loop_vars, threads
  <2>2. UNCHANGED <<assigned, attempt>> /\ Event' = Event
    BY <2>1 DEF vars, app, ledger, Event
  <2>3. /\ \A svc, n : Outstanding(svc, n)' => Outstanding(svc, n)
        /\ \A svc \in Service : Doomed(svc) => Doomed(svc)'
        /\ \A svc \in Service : SameProcess(svc)
    BY <2>1, <2>2 DEF Outstanding, Doomed, Fails, Ready, SameProcess, Live
  <2> QED
    BY <2>1, <2>2, <2>3, OwnKept, RestartKept
<1>2. CASE Shutdown
  <2>1. /\ UNCHANGED <<vars, executed>> /\ loop = "joining" /\ Idle
    BY <1>2 DEF Shutdown
  <2>2. UNCHANGED <<state, effects>> /\ ToDo = {} /\ ToDo' = ToDo
    BY <2>1, IdleHasNothing DEF vars, app, status, ToDo
  <2>3. \A svc \in Service : state'[svc] \notin Active
    BY <2>1, <2>2 DEF OInv, OwnRight, Over
  <2>4. ListRight' /\ SpawnFirst' /\ Fresh'
    BY <2>1, <2>2, ListKept DEF OInv, SpawnFirst, Fresh
  <2> QED
    BY <2>3, <2>4 DEF OInv, OwnRight, Over, Active
<1>3. CASE LoopNext /\ ~(UNCHANGED all_vars)
  <2>1. CASE OutsideStep
    BY <2>1, OutsideOwn
  <2>2. CASE LoopStep
    BY <1>2, <1>3, <2>2, HandleOwn, ExecuteOwn, DropOwn DEF LoopStep
  <2> QED
    BY <1>3, <2>1, <2>2 DEF LoopNext, OutsideStep
<1> QED
  BY <1>1, <1>3

(* At the start nothing is up and nothing is under way.                    *)
LEMMA InitOwn ==
    ASSUME LoopInit
    PROVE  OInv
<1>1. effects = <<>> /\ executed = 0 /\ loop = "running"
      /\ \A svc \in Service : state[svc] \in {"Stopped", "Error"}
  BY DEF LoopInit, Init
<1>2. ToDo = {}
  BY <1>1 DEF ToDo
<1>3. \A f : ~Asks(effects, f)
  BY <1>1, AsksShort
<1> QED
  BY <1>1, <1>2, <1>3 DEF OInv, ListRight, SpawnFirst, Fresh, OwnRight, Over

(* The invariant holds of every behaviour of the loop in which a token is  *)
(* not used again while an answer to its earlier use is outstanding,       *)
(* whatever spawns, ports, writes and processes do.                        *)
THEOREM OwnInductive ==
    LoopSpec /\ [][TokensFresh]_all_vars => []OInv
<1>1. LoopInit => OInv
  BY InitOwn
<1>2. LInv /\ OInv /\ [LoopNext]_all_vars /\ [TokensFresh]_all_vars => OInv'
  BY OwnStep
<1> QED
  BY <1>1, <1>2, LoopInductive, PTL DEF LoopSpec

(* A service is Running only on the process of its own attempt and port,   *)
(* with its health checked, also where spawns fail, ports are taken and    *)
(* files cannot be written: the report of a failed spawn is in the channel *)
(* before the poller of that spawn can be answered, so the reducer has     *)
(* left the attempt by then (executor.rs, do_spawn; reducer.rs,            *)
(* ProcessReady, ProcessSpawnFailed and PortUnavailable).                  *)
THEOREM RunsOnItsOwn ==
    LoopSpec /\ [][TokensFresh]_all_vars => []RunningHasHandle
<1>1. OInv => RunningHasHandle
  BY DEF OInv, OwnRight, Fit, OnIt, RunningHasHandle
<1> QED
  BY <1>1, OwnInductive, PTL

(* And when nothing is under way that process runs on the configuration    *)
(* that is on disk, also where some files could not be written             *)
(* (provision.rs, reconcile; reducer.rs, ConfigsReconciled).               *)
THEOREM ConfigsReachItsOwn ==
    LoopSpec /\ [][TokensFresh]_all_vars => []ConfigsApplied
<1>1. OInv => ConfigsApplied
  <2>1. queue = <<>> => \A svc \in Service : ~RestartComes(svc)
    BY DEF RestartComes, Event
  <2> QED
    BY <2>1 DEF OInv, OwnRight, Fit, ConfigsApplied, Settled
<1> QED
  BY <1>1, OwnInductive, PTL

-------------------------------------------------------------------------------
(* Tokens.  They are fresh as long as no counter comes to its end: with    *)
(* the code's u32, for the first 2^32 - 1 attempts of a service.           *)
NoWrap == \A svc \in Service : attempt[svc] + 1 < AttemptSpace

(* No answer is of an attempt that is still to come.                       *)
Issued ==
    /\ \A svc \in Service, n \in Token : Outstanding(svc, n) => n <= attempt[svc]
    /\ \A f \in ToDo : f.type = "StartReadinessCheck" => f.attempt = attempt[f.service]

(* A list that asks for no readiness check, and one that asks for checks   *)
(* of a new attempt only.                                                  *)
Uncounted(list) == \A f : Asks(list, f) => f.type # "StartReadinessCheck"
Numbered ==
    \A f : Asks(effects', f) /\ f.type = "StartReadinessCheck" =>
        /\ f.service \in Service /\ f.attempt = attempt'[f.service]
        /\ attempt'[f.service] = next_attempt(attempt[f.service])
Advances == \A svc \in Service : attempt'[svc] \in {attempt[svc], next_attempt(attempt[svc])}

(* Such lists, one after the other, are one.                               *)
LEMMA UncountedConcat ==
    ASSUME NEW s \in Seq(Effect), NEW t \in Seq(Effect), Uncounted(s), Uncounted(t)
    PROVE  Uncounted(s \o t)
BY AsksConcat DEF Uncounted

(* The lists of the reducer's helpers ask for no check.                    *)
LEMMA UncountedLists ==
    /\ Uncounted(<<>>) /\ Uncounted(<<PersistDesiredState>>) /\ Uncounted(<<PersistConfig>>)
    /\ Uncounted(<<OpenPhpMyAdminBrowser>>) /\ \A b : Uncounted(<<ToggleEffect(b)>>)
    /\ \A svc : Uncounted(<<ScheduleRetry(svc)>>) /\ Uncounted(kill(svc))
    /\ \A S \in SUBSET Service : Uncounted(kill_all(S))
<1>1. /\ PersistDesiredState.type = "PersistDesiredState" /\ PersistConfig.type = "PersistConfig"
      /\ OpenPhpMyAdminBrowser.type = "OpenPhpMyAdminBrowser"
      /\ \A b : ToggleEffect(b).type = "TogglePhpMyAdmin"
      /\ \A svc : /\ ScheduleRetry(svc).type = "ScheduleRetry"
                  /\ StopHealthCheck(svc).type = "StopHealthCheck"
                  /\ KillService(svc).type = "KillService"
  BY DEF PersistDesiredState, PersistConfig, OpenPhpMyAdminBrowser, ToggleEffect, ScheduleRetry,
         StopHealthCheck, KillService
<1>2. ASSUME NEW a, a.type # "StartReadinessCheck" PROVE Uncounted(<<a>>)
  BY <1>2, AsksShort DEF Uncounted
<1>3. Uncounted(<<>>) /\ \A svc : Uncounted(kill(svc))
  <2>1. \A e : ~Asks(<<>>, e)
    BY AsksShort
  <2>2. ASSUME NEW svc PROVE Uncounted(kill(svc))
    <3>1. \A e : Asks(kill(svc), e) <=> e = StopHealthCheck(svc) \/ e = KillService(svc)
      BY AsksShort DEF kill
    <3> QED
      BY <1>1, <3>1 DEF Uncounted
  <2> QED
    BY <2>1, <2>2 DEF Uncounted
<1>4. ASSUME NEW S \in SUBSET Service PROVE Uncounted(kill_all(S))
  <2> DEFINE apache == kill_if("Apache", S)
             mysql == kill_if("Mysql", S)
             php == kill_if("Php", S)
  <2>1. \A name : kill_if(name, S) \in Seq(Effect) /\ Uncounted(kill_if(name, S))
    BY <1>3, EffectTypes DEF kill_if
  <2>2. kill_all(S) = (apache \o mysql) \o php
    BY DEF kill_all
  <2>3. /\ apache \in Seq(Effect) /\ mysql \in Seq(Effect) /\ php \in Seq(Effect)
        /\ Uncounted(apache) /\ Uncounted(mysql) /\ Uncounted(php)
    BY <2>1
  <2> HIDE DEF apache, mysql, php
  <2>4. apache \o mysql \in Seq(Effect) /\ Uncounted(apache \o mysql)
    BY <2>3, UncountedConcat
  <2> QED
    BY <2>2, <2>3, <2>4, UncountedConcat
<1> QED
  BY <1>1, <1>2, <1>3, <1>4

(* A spawn comes with a check of the attempt it begins.                    *)
LEMMA SpawnNumbered ==
    ASSUME StateTyped, NEW svc \in Service, NEW port, assign(svc, port),
           NEW then \in {<<>>, <<PersistDesiredState>>}, effects' = spawn(svc, port) \o then
    PROVE  Numbered /\ Advances
<1> DEFINE a == SpawnService(svc, port)
           b == StartReadinessCheck(svc, port, attempt'[svc])
<1>1. attempt'[svc] = next_attempt(attempt[svc]) /\ \A t \in Service \ {svc} : attempt'[t] = attempt[t]
  BY DEF assign, StateTyped
<1>2. /\ a.type = "SpawnService" /\ PersistDesiredState.type = "PersistDesiredState"
      /\ b.service = svc /\ b.attempt = attempt'[svc]
  BY DEF SpawnService, StartReadinessCheck, PersistDesiredState
<1>3. effects' = <<a, b>> \o then
  BY DEF spawn
<1> HIDE DEF a, b
<1>4. /\ Len(effects') \in 2..3 /\ effects'[1] = a /\ effects'[2] = b
      /\ Len(effects') = 3 => effects'[3] = PersistDesiredState
  <2>1. CASE then = <<>>
    BY <1>3, <2>1
  <2>2. CASE then = <<PersistDesiredState>>
    BY <1>3, <2>2
  <2> QED
    BY <2>1, <2>2
<1>5. ASSUME NEW f, Asks(effects', f), f.type = "StartReadinessCheck" PROVE f = b
  BY <1>2, <1>4, <1>5 DEF Asks
<1>6. Numbered
  BY <1>1, <1>2, <1>5 DEF Numbered
<1> QED
  BY <1>1, <1>6 DEF Advances

(* So does every start.                                                    *)
LEMMA BeginsNumbered ==
    ASSUME StateTyped, NEW svc \in Service, NEW err, NEW then \in {<<>>, <<PersistDesiredState>>},
           begin_start(svc, err, then)
    PROVE  Numbered /\ Advances
<1>1. CASE effects' = then /\ attempt' = attempt
  BY <1>1, UncountedLists DEF Uncounted, Numbered, Advances
<1>2. ASSUME NEW port, assign(svc, port), effects' = spawn(svc, port) \o then
      PROVE  Numbered /\ Advances
  BY <1>2, SpawnNumbered
<1> QED
  BY <1>1, <1>2 DEF begin_start, release

(* A crash asks for no check.                                              *)
LEMMA CrashUncounted ==
    ASSUME NEW svc \in Service, crash_and_retry(svc)
    PROVE  Uncounted(effects') /\ attempt' = attempt
<1>1. PICK rest \in {<<ScheduleRetry(svc)>>, <<>>} : effects' = kill(svc) \o rest
  BY DEF crash_and_retry, schedule
<1>2. kill(svc) \in Seq(Effect) /\ rest \in Seq(Effect) /\ Uncounted(kill(svc)) /\ Uncounted(rest)
  BY EffectTypes, UncountedLists
<1>3. Uncounted(effects')
  BY <1>1, <1>2, UncountedConcat
<1> QED
  BY <1>3 DEF crash_and_retry, keep_or_release, release

(* Every event numbers the checks it asks for.                             *)
LEMMA EventsNumbered ==
    ASSUME LInv, NEW e \in Message, reducer(e)
    PROVE  Numbered /\ Advances
<1>1. StateTyped
  BY DEF LInv, IInv
<1>2. ASSUME Uncounted(effects'), attempt' = attempt PROVE Numbered /\ Advances
  BY <1>2 DEF Uncounted, Numbered, Advances
<1>3. /\ Uncounted(<<>>) /\ Uncounted(<<PersistDesiredState>>) /\ Uncounted(<<PersistConfig>>)
      /\ Uncounted(<<OpenPhpMyAdminBrowser>>) /\ \A b : Uncounted(<<ToggleEffect(b)>>)
      /\ \A svc \in Service : Uncounted(kill(svc)) /\ kill(svc) \in Seq(Effect)
      /\ \A S \in SUBSET Service : Uncounted(kill_all(S)) /\ kill_all(S) \in Seq(Effect)
      /\ <<>> \in Seq(Effect) /\ <<PersistDesiredState>> \in Seq(Effect) /\ <<PersistConfig>> \in Seq(Effect)
  BY UncountedLists, EffectTypes, KillAllTyped
<1>4. CASE ignored
  BY <1>2, <1>3, <1>4 DEF ignored, app, ledger
<1>5. CASE e.type \in {"StartService", "StopService", "RestartService", "AutoRetry"}
  <2> DEFINE svc == e.service
  <2>1. /\ svc \in Service
        /\ StartService(svc) \/ StopService(svc) \/ RestartService(svc) \/ AutoRetry(svc)
    BY <1>5 DEF reducer, Message, Command, ServiceMessage, ExitMessage, PortMessage,
                PollerMessage, FilesMessage, SwitchMessage, TickMessage
  <2> HIDE DEF svc
  <2>2. CASE StartService(svc) \/ AutoRetry(svc)
    BY <1>1, <1>4, <2>1, <2>2, BeginsNumbered DEF StartService, AutoRetry
  <2>3. CASE StopService(svc)
    <3>1. Uncounted(kill(svc) \o <<PersistDesiredState>>)
      BY <1>3, <2>1, UncountedConcat
    <3> QED
      BY <1>2, <1>3, <1>4, <2>3, <3>1 DEF StopService, stop_effects, ledger
  <2>4. CASE RestartService(svc)
    BY <1>1, <1>2, <1>3, <2>1, <2>4, BeginsNumbered DEF RestartService, ledger
  <2> QED
    BY <2>1, <2>2, <2>3, <2>4
<1>6. CASE e.type \in {"ProcessReady", "ReadinessTimeout", "ProcessExit", "HealthCheckPass",
                       "HealthCheckFail", "ProcessSpawnFailed", "PortUnavailable"}
  <2> DEFINE svc == e.service
  <2>1. /\ svc \in Service
        /\ \/ ProcessReady(svc, e.attempt) \/ ReadinessTimeout(svc, e.attempt)
           \/ ProcessExit(svc) \/ HealthCheckPass(svc) \/ HealthCheckFail(svc)
           \/ ProcessSpawnFailed(svc) \/ PortUnavailable(svc, e.port)
    BY <1>6 DEF reducer, Message, Command, ServiceMessage, ExitMessage, PortMessage,
                PollerMessage, FilesMessage, SwitchMessage, TickMessage
  <2> HIDE DEF svc
  <2>2. CASE ProcessReady(svc, e.attempt) \/ ReadinessTimeout(svc, e.attempt)
    BY <1>2, <1>3, <1>4, <2>1, <2>2, CrashUncounted DEF ProcessReady, ReadinessTimeout, ledger
  <2>3. CASE ProcessExit(svc)
    BY <1>1, <1>2, <1>3, <1>4, <2>1, <2>3, CrashUncounted, BeginsNumbered DEF ProcessExit, release
  <2>4. CASE HealthCheckPass(svc) \/ HealthCheckFail(svc)
    BY <1>2, <1>3, <1>4, <2>1, <2>4, CrashUncounted DEF HealthCheckPass, HealthCheckFail, ledger
  <2>5. CASE ProcessSpawnFailed(svc)
    BY <1>2, <1>3, <2>5 DEF ProcessSpawnFailed, release
  <2>6. CASE PortUnavailable(svc, e.port)
    <3>1. ASSUME NEW port, assign(svc, port), effects' = spawn(svc, port)
          PROVE  Numbered /\ Advances
      <4>1. effects' = spawn(svc, port) \o <<>> /\ <<>> \in {<<>>, <<PersistDesiredState>>}
        BY <3>1 DEF spawn
      <4> QED
        BY <1>1, <2>1, <3>1, <4>1, SpawnNumbered
    <3> QED
      BY <1>2, <1>3, <1>4, <2>6, <3>1 DEF PortUnavailable, release
  <2> QED
    BY <2>1, <2>2, <2>3, <2>4, <2>5, <2>6
<1>7. CASE e.type = "ShutdownAll"
  <2>1. ActiveServices \in SUBSET Service /\ ShutdownAll
    BY <1>7 DEF ActiveServices, reducer
  <2>2. Uncounted(kill_all(ActiveServices) \o <<PersistDesiredState>>)
    BY <1>3, <2>1, UncountedConcat
  <2> QED
    BY <1>2, <2>1, <2>2 DEF ShutdownAll, ledger
<1>8. ASSUME NEW S, NEW first \in {<<>>, <<PersistConfig>>}, restart_up(S, first)
      PROVE  Uncounted(effects')
  <2> DEFINE up == S \cap ActiveServices
  <2>1. up \in SUBSET Service /\ effects' = first \o kill_all(up)
    BY <1>8 DEF restart_up, ActiveServices
  <2> HIDE DEF up
  <2> QED
    BY <1>3, <2>1, UncountedConcat
<1>9. CASE e.type \in {"ConfigsReconciled", "SetDocumentRoot"}
  BY <1>2, <1>8, <1>9 DEF reducer, ConfigsReconciled, SetDocumentRoot, ledger
<1>10. CASE e.type \in {"ConfigReloaded", "TogglePhpMyAdmin", "PhpMyAdminToggled",
                        "PhpMyAdminDirChanged", "Tick"}
  BY <1>2, <1>3, <1>4, <1>10
     DEF reducer, ConfigReloaded, TogglePhpMyAdmin, PhpMyAdminToggled, PhpMyAdminDirChanged, Tick,
         ledger
<1> QED
  BY <1>5, <1>6, <1>7, <1>9, <1>10 DEF reducer

(* An event numbers what it begins beyond every answer.                    *)
LEMMA HandleIssues ==
    ASSUME LInv, Issued, NoWrap, HandleEvent
    PROVE  Issued' /\ TokensFresh
<1>1. /\ queue # <<>> /\ executed' = 0 /\ UNCHANGED pollers
      /\ queue' = Tail(queue) \o tick_probe(Head(queue))
      /\ tick_probe(Head(queue)) \in Seq(Message)
  BY QueueTyped DEF HandleEvent, threads
<1>2. StepRight /\ Head(queue) \in Message /\ reducer(Head(queue))
  BY HandleLeaves
<1>3. /\ queue \in Seq(Message) /\ AttemptSpace \in Nat
      /\ \A svc \in Service : attempt[svc] \in 0..AttemptSpace - 1
  BY AttemptAssumption DEF LInv, LoopTyped, IInv, StateTyped
<1>4. Numbered /\ Advances
  BY <1>2, EventsNumbered
<1>5. ASSUME NEW svc \in Service
      PROVE  /\ next_attempt(attempt[svc]) = attempt[svc] + 1
             /\ attempt'[svc] \in {attempt[svc], attempt[svc] + 1} /\ attempt'[svc] \in Token
  BY <1>3, <1>4 DEF NoWrap, Advances, next_attempt, Token
<1>6. ASSUME NEW svc \in Service, NEW n \in Token, Outstanding(svc, n)'
      PROVE  n <= attempt'[svc]
  <2>1. PICK probe \in Seq(Message) : probe = tick_probe(Head(queue))
    BY <1>1
  <2>2. \A k \in 1..Len(probe) : probe[k].type # "ProcessReady"
    BY <2>1 DEF tick_probe, switch_event
  <2>3. Outstanding(svc, n)
    BY <1>1, <1>3, <1>6, <2>1, <2>2, OutstandingTaken
  <2> QED
    BY <1>3, <1>5, <2>3 DEF Issued, Token
<1>7. ASSUME NEW f \in ToDo', f.type = "StartReadinessCheck" PROVE f.attempt = attempt'[f.service]
  BY <1>1, <1>4, <1>7 DEF ToDo, Asks, Numbered
<1>8. ASSUME NEW svc \in Service, state'[svc] = "Starting",
             state[svc] # "Starting" \/ assigned'[svc] # assigned[svc]
      PROVE  ~Outstanding(svc, attempt'[svc])
  <2>1. Asks(effects', StartReadinessCheck(svc, assigned'[svc], attempt'[svc]))
    BY <1>2, <1>8 DEF StepRight, Right, Checks, SameAttempt
  <2>2. attempt'[svc] = attempt[svc] + 1
    BY <1>4, <1>5, <2>1 DEF Numbered, StartReadinessCheck
  <2>3. PICK n \in Token : n = attempt'[svc]
    BY <1>5
  <2> QED
    BY <1>3, <2>2, <2>3 DEF Issued
<1> QED
  BY <1>6, <1>7, <1>8 DEF Issued, TokensFresh

(* An effect adds the poller it was asked for.                             *)
LEMMA ExecuteIssues ==
    ASSUME LInv, SpawnFirst, Issued, ExecuteEffect
    PROVE  Issued'
<1>1. /\ Now \in Effect /\ Now \in ToDo /\ UNCHANGED vars
      /\ \/ done /\ execute_at_once(Now)
         \/ Now.type = "SpawnService" /\ do_spawn(Now.service, Now.port)
         \/ Now.type = "TogglePhpMyAdmin" /\ do_toggle_phpmyadmin(Now.enable)
      /\ executed' = executed + 1 => ToDo' \subseteq ToDo
      /\ executed' = executed => ToDo' = ToDo
  BY ExecuteNow
<1>2. attempt' = attempt /\ queue \in Seq(Message) /\ \A svc \in Service : attempt[svc] \in Nat
  BY <1>1 DEF vars, app, ledger, LInv, LoopTyped, IInv, StateTyped
<1>3. ToDo' \subseteq ToDo
  BY <1>1 DEF done, do_spawn, prepare_spawn, refuse, go_on, do_toggle_phpmyadmin
<1>4. \A i \in 1..Len(queue') : queue'[i].type = "ProcessReady" =>
          i \in 1..Len(queue) /\ queue'[i] = queue[i]
  <2>1. CASE UNCHANGED queue
    BY <2>1
  <2>2. ASSUME NEW m \in Message, send(<<m>>), m.type # "ProcessReady"
        PROVE  \A i \in 1..Len(queue') : queue'[i].type = "ProcessReady" =>
                   i \in 1..Len(queue) /\ queue'[i] = queue[i]
    <3>1. queue' = Append(queue, m)
      BY <1>2, <2>2, OneMore DEF send
    <3> QED
      BY <1>2, <2>2, <3>1
  <2> QED
    BY <2>1, <2>2, EffectSends
<1>5. \A p \in pollers' : p \in pollers \/ p.attempt = attempt[p.service]
  <2>1. CASE Now.type = "StartReadinessCheck" /\ do_readiness_check(Now.service, Now.port, Now.attempt)
    BY <1>1, <2>1 DEF do_readiness_check, Issued
  <2>2. CASE UNCHANGED pollers
    BY <2>2
  <2> QED
    BY <1>1, <2>1, <2>2
       DEF execute_at_once, do_kill_effect, do_stop_health, do_schedule_retry, do_persist,
           do_persist_config, do_spawn, do_toggle_phpmyadmin, threads
<1>6. ASSUME NEW svc \in Service, NEW n \in Token, Outstanding(svc, n)'
      PROVE  Outstanding(svc, n) \/ n = attempt[svc]
  BY <1>4, <1>5, <1>6 DEF Outstanding
<1> QED
  BY <1>2, <1>3, <1>6 DEF Issued

(* Any other step leaves the numbers alone.                                *)
LEMMA IssuedKept ==
    ASSUME Issued, UNCHANGED <<vars, executed>>,
           \A svc, n : Outstanding(svc, n)' => Outstanding(svc, n)
    PROVE  Issued'
<1>1. attempt' = attempt /\ ToDo' = ToDo
  BY DEF vars, app, ledger, ToDo
<1> QED
  BY <1>1 DEF Issued

(* Every step that is not an event's.                                      *)
LEMMA OthersIssue ==
    ASSUME LInv, OInv, Issued, [LoopNext]_all_vars, ~HandleEvent
    PROVE  Issued' /\ TokensFresh
<1>1. CASE ExecuteEffect
  <2>1. UNCHANGED <<state, assigned>>
    BY <1>1 DEF ExecuteEffect, vars, app, status, ledger
  <2> QED
    BY <1>1, <2>1, ExecuteIssues DEF OInv, TokensFresh
<1>2. ASSUME UNCHANGED <<vars, executed>>, \A svc, n : Outstanding(svc, n)' => Outstanding(svc, n)
      PROVE  Issued' /\ TokensFresh
  <2>1. UNCHANGED <<state, assigned>>
    BY <1>2 DEF vars, app, status, ledger
  <2> QED
    BY <1>2, <2>1, IssuedKept DEF TokensFresh
<1>3. CASE UNCHANGED all_vars
  <2>1. UNCHANGED <<vars, executed, queue, pollers>>
    BY <1>3 DEF all_vars, machine, threads
  <2> QED
    BY <1>2, <2>1 DEF Outstanding
<1>4. CASE DropCommand
  <2>1. /\ queue # <<>> /\ queue' = Tail(queue) /\ UNCHANGED <<vars, executed, pollers>>
        /\ queue \in Seq(Message)
    BY <1>4 DEF DropCommand, threads, LInv, LoopTyped
  <2>2. <<>> \in Seq(Message) /\ queue' = Tail(queue) \o <<>>
    BY <2>1
  <2>3. PICK more \in Seq(Message) : more = <<>> /\ queue' = Tail(queue) \o more
    BY <2>2
  <2>4. \A k \in 1..Len(more) : more[k].type # "ProcessReady"
    BY <2>3
  <2> QED
    BY <1>2, <2>1, <2>3, <2>4, OutstandingTaken
<1>5. CASE Shutdown
  <2>1. UNCHANGED <<vars, executed, pollers>> /\ queue' = <<>>
    BY <1>5 DEF Shutdown, shutdown_and_join, threads
  <2>2. \A svc, n : Outstanding(svc, n)' => Outstanding(svc, n)
    BY <2>1 DEF Outstanding
  <2> QED
    BY <1>2, <2>1, <2>2
<1>6. CASE OutsideStep
  <2>1. UNCHANGED <<vars, executed>> /\ queue \in Seq(Message)
    BY <1>6, OutsideLeaves DEF LInv, LoopTyped
  <2>2. CASE DirChanges
    BY <1>2, <2>1, <2>2 DEF DirChanges, threads, Outstanding
  <2>3. CASE ~DirChanges
    <3>1. pollers' \subseteq pollers
      BY <1>6, <2>3, OutsideSends
    <3>2. PICK m \in Message :
               /\ send(<<m>>)
               /\ m.type = "ProcessReady" => \E p \in pollers : m = poller_report("ProcessReady", p)
      BY <1>6, <2>3, OutsideSends
    <3>3. \A svc, n : Outstanding(svc, n)' => Outstanding(svc, n)
      BY <2>1, <3>1, <3>2, OutstandingKept
    <3> QED
      BY <1>2, <2>1, <3>3
  <2> QED
    BY <2>2, <2>3
<1> QED
  BY <1>1, <1>3, <1>4, <1>5, <1>6 DEF LoopNext, LoopStep, OutsideStep

(* As long as no attempt counter comes to its end, which takes 2^32 - 1    *)
(* attempts of one service, a token is used again by nobody who could be   *)
(* answered (state.rs, PortSlot.attempt; reducer.rs, assign).              *)
THEOREM TokensStayFresh ==
    LoopSpec /\ []NoWrap => [][TokensFresh]_all_vars
<1>1. LoopInit => Issued /\ OInv
  <2> SUFFICES ASSUME LoopInit PROVE Issued
    BY InitOwn
  <2>1. /\ effects = <<>> /\ executed = 0 /\ pollers = {}
        /\ queue = start_if("Apache") \o start_if("Mysql") \o start_if("Php")
    BY DEF LoopInit, Init
  <2>2. ToDo = {}
    BY <2>1 DEF ToDo
  <2>3. \A i \in 1..Len(queue) : queue[i].type = "StartService"
    BY StartsOnly
  <2> QED
    BY <2>1, <2>2, <2>3 DEF Issued, Outstanding
<1>2. LInv /\ OInv /\ Issued /\ NoWrap /\ [LoopNext]_all_vars => TokensFresh /\ Issued' /\ OInv'
  <2> SUFFICES ASSUME LInv, OInv, Issued, NoWrap, [LoopNext]_all_vars
               PROVE  TokensFresh /\ Issued' /\ OInv'
    OBVIOUS
  <2>1. Issued' /\ TokensFresh
    BY HandleIssues, OthersIssue
  <2> QED
    BY <2>1, OwnStep
<1>3. TokensFresh => [TokensFresh]_all_vars
  OBVIOUS
<1> QED
  BY <1>1, <1>2, <1>3, LoopInductive, PTL DEF LoopSpec

(* So for the first 2^32 - 1 attempts of every service, whatever spawns,   *)
(* ports, files, pollers and processes do.                                 *)
COROLLARY OwnWhileTokensLast ==
    LoopSpec /\ []NoWrap => [](RunningHasHandle /\ ConfigsApplied)
BY TokensStayFresh, RunsOnItsOwn, ConfigsReachItsOwn, PTL
===============================================================================
