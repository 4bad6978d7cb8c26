------------------------------- MODULE EventLoop ------------------------------
(***************************************************************************)
(* main.rs: the event loop that takes one event from the channel, reduces  *)
(* it and has the executor carry out the effects before the next one, and  *)
(* the windows, tray and file system that feed it.                         *)
(***************************************************************************)
EXTENDS Executor

CONSTANTS
    UserCommands,   \* the kinds of command the user gives in this instance
    MaxCommands     \* bound on commands

ASSUME CommandAssumption == MaxCommands \in Nat

VARIABLES
    loop,       \* "running", "joining" (ShutdownAll reduced) or "ended"
    last_cmd,   \* debounce keys of the commands processed within COMMAND_DEBOUNCE
    commands    \* commands so far

loop_vars == <<loop, last_cmd, commands>>
machine   == <<queue, executed, stage, handle, threads, settings, disk, faults>>
all_vars  == <<vars, machine, loop_vars>>

debounced(e) == e.type \in {"StartService", "StopService", "RestartService"}
debounce_key(e) == <<e.type, e.service>>

-------------------------------------------------------------------------------
(* The reducer's action for an event.  DismissError, OpenPhpMyAdmin and    *)
(* ClearLog change nothing the loop or a property depends on.              *)
reducer(e) ==
    \/ e.type = "StartService" /\ StartService(e.service)
    \/ e.type = "StopService" /\ StopService(e.service)
    \/ e.type = "RestartService" /\ RestartService(e.service)
    \/ e.type = "ShutdownAll" /\ ShutdownAll
    \/ e.type = "ProcessReady" /\ ProcessReady(e.service, e.attempt)
    \/ e.type = "ReadinessTimeout" /\ ReadinessTimeout(e.service, e.attempt)
    \/ e.type = "ProcessExit" /\ ProcessExit(e.service)
    \/ e.type = "ProcessSpawnFailed" /\ ProcessSpawnFailed(e.service)
    \/ e.type = "AutoRetry" /\ AutoRetry(e.service)
    \/ e.type = "HealthCheckPass" /\ HealthCheckPass(e.service)
    \/ e.type = "HealthCheckFail" /\ HealthCheckFail(e.service)
    \/ e.type = "PortUnavailable" /\ PortUnavailable(e.service, e.port)
    \/ e.type = "ConfigReloaded" /\ ConfigReloaded(e.home, e.root, pma_dir)
    \/ e.type = "ConfigsReconciled" /\ ConfigsReconciled(e.changed, e.spawning)
    \/ e.type = "SetDocumentRoot" /\ SetDocumentRoot(e.root)
    \/ e.type = "TogglePhpMyAdmin" /\ TogglePhpMyAdmin
    \/ e.type = "PhpMyAdminToggled" /\ PhpMyAdminToggled(e.value)
    \/ e.type = "PhpMyAdminDirChanged" /\ PhpMyAdminDirChanged(e.value)
    \/ e.type = "Tick" /\ Tick

(* On a tick the loop compares the directory with what the reducer knows.  *)
tick_probe(e) ==
    IF e.type = "Tick" /\ pma_dir # phpmyadmin_dir_exists
    THEN <<switch_event("PhpMyAdminDirChanged", pma_dir)>> ELSE <<>>

Idle == executed = Len(effects)

(* A command like one processed moments ago may be dropped.  How long ago  *)
(* is not modelled, so every repetition may or may not be.                 *)
DropCommand ==
    /\ loop = "running" /\ Idle /\ queue # <<>>
    /\ debounced(Head(queue)) /\ debounce_key(Head(queue)) \in last_cmd
    /\ queue' = Tail(queue)
    /\ UNCHANGED <<vars, executed, stage, handle, threads, settings, disk, faults, loop_vars>>

HandleEvent ==
    /\ loop = "running" /\ Idle /\ queue # <<>>
    /\ LET e == Head(queue) IN
       /\ reducer(e)
       /\ queue' = Tail(queue) \o tick_probe(e)
       /\ executed' = 0
       /\ last_cmd' = last_cmd \cup {debounce_key(f) : f \in {g \in {e} : debounced(g)}}
       /\ loop' = IF e.type = "ShutdownAll" THEN "joining" ELSE loop
       /\ IF e.type = "ProcessReady" /\ state[e.service] # "Running" /\ state'[e.service] = "Running"
          THEN start_health_check(e.service)
          ELSE UNCHANGED handle
    /\ UNCHANGED <<stage, threads, settings, disk, faults, commands>>

ExecuteEffect ==
    /\ UNCHANGED <<vars, loop, last_cmd, commands>>
    /\ execute

Shutdown ==
    /\ loop = "joining" /\ Idle
    /\ shutdown_and_join
    /\ loop' = "ended" /\ queue' = <<>>      \* the receiver is gone
    /\ UNCHANGED <<vars, executed, stage, last_cmd, commands>>

-------------------------------------------------------------------------------
(* Everything outside the loop only adds to the channel, and once the loop *)
(* has ended nothing it does can be seen.                                  *)
Outside ==
    /\ loop # "ended"
    /\ UNCHANGED <<vars, executed, stage, disk, exec_home, exec_root, saved, loop, last_cmd>>

ThreadStep(A) == Outside /\ A /\ UNCHANGED <<pma_dir, commands>>

Watcher(svc)  == ThreadStep(ProcessEnds(svc))
Poller(svc)   == ThreadStep(\E p \in pollers : p.service = svc /\ PollerReports(p))
Timer(svc)    == ThreadStep(TimerFires(svc))
CheckPasses(svc) == ThreadStep(HealthPasses(svc))
CheckFails(svc)  == ThreadStep(HealthFails(svc))

(* The phpMyAdmin directory is created or deleted behind RAMPP's back; the *)
(* tick that notices is the only one that matters.                         *)
DirChanges ==
    /\ Outside /\ fault("directory")
    /\ pma_dir' = ~pma_dir
    /\ UNCHANGED <<queue, handle, threads, commands>>

TickFires ==
    /\ Outside
    /\ pma_dir # phpmyadmin_dir_exists
    /\ \A i \in 1..Len(queue) : queue[i].type \notin {"Tick", "PhpMyAdminDirChanged"}
    /\ send(<<[type |-> "Tick"]>>)
    /\ UNCHANGED <<handle, threads, pma_dir, faults, commands>>

(* The window enables its buttons by a copy of the state that is made      *)
(* after each event and drawn later still, and the tray's are always       *)
(* enabled, so any command can come at any time.                           *)
Command ==
    [type : UserCommands \cap {"StartService", "StopService", "RestartService"}, service : Service]
    \cup [type : UserCommands \cap {"TogglePhpMyAdmin", "ShutdownAll"}]
    \cup [type : UserCommands \cap {"SetDocumentRoot"}, root : DocumentRoots]
    \cup [type : UserCommands \cap {"ConfigReloaded"}, home : HomeConfigs, root : DocumentRoots]

UserCommand ==
    /\ Outside
    /\ commands < MaxCommands /\ commands' = commands + 1
    /\ \E e \in Command : send(<<e>>)
    /\ UNCHANGED <<handle, threads, pma_dir, faults>>

-------------------------------------------------------------------------------
(* main() restores what rampp.state wants running by queueing starts.  It  *)
(* saved the wishes before it dropped that of a MySQL it could not         *)
(* provision.                                                              *)
saved_before_drop ==
    {d \in [Service -> DesiredState] :
        \A svc \in Service : state[svc] # "Error" => d[svc] = desired[svc]}
restore == {svc \in Service : desired[svc] = "Running"}
start_if(svc) == IF svc \in restore THEN <<event("StartService", svc)>> ELSE <<>>

LoopInit ==
    /\ Init
    /\ queue = start_if("Apache") \o start_if("Mysql") \o start_if("Php")
    /\ executed = 0 /\ stage = "begin"
    /\ handle = [svc \in Service |-> NoHandle]
    /\ pollers = {} /\ timers = [svc \in Service |-> 0]
    /\ exec_home = home /\ exec_root = document_root
    /\ pma_dir = phpmyadmin_dir_exists
    /\ disk = desired_configs(home, document_root, assigned, phpmyadmin_enabled)
    /\ saved \in [desired : saved_before_drop, phpmyadmin_enabled : {phpmyadmin_enabled}]
    /\ faults = 0
    /\ loop = "running" /\ last_cmd = {} /\ commands = 0

LoopStep  == DropCommand \/ HandleEvent \/ ExecuteEffect \/ Shutdown
LoopNext ==
    \/ LoopStep
    \/ \E svc \in Service :
          Watcher(svc) \/ Poller(svc) \/ Timer(svc) \/ CheckPasses(svc) \/ CheckFails(svc)
    \/ DirChanges \/ TickFires \/ UserCommand

LoopSpec == LoopInit /\ [][LoopNext]_all_vars

(* The loop's thread and the threads of the executor are scheduled.  Faults *)
(* and users are never forced.                                             *)
Fairness ==
    /\ WF_all_vars(LoopStep)
    /\ \A svc \in Service :
          WF_all_vars(Poller(svc)) /\ WF_all_vars(Timer(svc)) /\ WF_all_vars(CheckFails(svc))

FairLoopSpec == LoopSpec /\ Fairness

-------------------------------------------------------------------------------
(* Properties.                                                             *)

Event == {queue[i] : i \in 1..Len(queue)}
Coming(type, svc) == \E e \in Event : e.type = type /\ e.service = svc
ToDo == {effects[i] : i \in executed + 1..Len(effects)}
Settled == Idle /\ queue = <<>>

LoopTypeOK ==
    /\ TypeOK
    /\ executed \in 0..Len(effects)
    /\ stage \in {"begin", "refuse", "replace", "launch", "reconcile"}
    /\ \A svc \in Service :
          /\ handle[svc].watcher \in {"none", "live", "gone"}
          /\ handle[svc].port \in MaybePort
          /\ handle[svc].born \in 0..AttemptSpace - 1
          /\ handle[svc].became_ready \in BOOLEAN /\ handle[svc].checked \in BOOLEAN
    /\ pollers \subseteq [service : Service, port : Port, attempt : 0..AttemptSpace - 1]
    /\ timers \in [Service -> Nat]
    /\ exec_home \in HomeConfigs /\ exec_root \in DocumentRoots
    /\ DOMAIN disk = ManagedFile
    /\ saved.desired \in [Service -> DesiredState] /\ saved.phpmyadmin_enabled \in BOOLEAN
    /\ pma_dir \in BOOLEAN
    /\ loop \in {"running", "joining", "ended"}

(* A service is Running only on its own process: there is a handle, for    *)
(* this attempt and this port, and its health is being checked.  Pollers   *)
(* are never cancelled and may be answered by any server, so this rests on *)
(* the attempt token and on a failed spawn being queued before its poller  *)
(* can report; start_health_check never meets a service without a handle.  *)
RunningHasHandle ==
    \A svc \in Service :
        state[svc] = "Running" =>
            /\ handle[svc].watcher # "none"
            /\ handle[svc].port = assigned[svc] /\ handle[svc].born = attempt[svc]
            /\ handle[svc].became_ready /\ handle[svc].checked

(* Once the loop has carried a stop, a crash or a last retry through, no   *)
(* process of that service is left behind.                                 *)
DownMeansDead ==
    Idle => \A svc \in Service : state[svc] \notin Active => ~Live(svc)

(* A process that is about to be killed still has in the ledger the port   *)
(* it listens on, where do_kill looks it up to ask MySQL for a clean       *)
(* shutdown first.  Giving up after the last retry releases the port       *)
(* before, and MySQL is then killed without being asked.                   *)
KillFindsPort ==
    \A svc \in Service :
        KillService(svc) \in ToDo /\ Live(svc) /\ state[svc] # "Error"
            => assigned[svc] = handle[svc].port

(* A start that is under way is always decided by somebody.                *)
StartingResolves ==
    loop = "running" => \A svc \in Service :
        state[svc] = "Starting" =>
            \/ StartReadinessCheck(svc, assigned[svc], attempt[svc]) \in ToDo
            \/ \E p \in pollers : p.service = svc /\ p.attempt = attempt[svc]
            \/ \E e \in Event : /\ e.type \in {"ProcessReady", "ReadinessTimeout"}
                                /\ e.service = svc /\ e.attempt = attempt[svc]

(* A crashed service that is wanted is always going to be retried.         *)
CrashedIsRetried ==
    loop = "running" => \A svc \in Service :
        state[svc] = "Crashed" /\ desired[svc] = "Running" =>
            ScheduleRetry(svc) \in ToDo \/ timers[svc] > 0 \/ Coming("AutoRetry", svc)

(* executor.rs: KillService always ends in a ProcessExit, real or made up, *)
(* so a service never stays in Stopping.                                   *)
StoppingResolves ==
    loop = "running" => \A svc \in Service :
        state[svc] = "Stopping" => KillService(svc) \in ToDo \/ Coming("ProcessExit", svc)

(* When nothing is under way every process runs on the configuration that  *)
(* is on disk, and its port is the one the other services were told of.    *)
ConfigsApplied ==
    Settled => \A svc \in Service :
        state[svc] = "Running" /\ Live(svc) => handle[svc].conf = conf_of(svc, disk)

(* What rampp.state would restore after a power cut is what the user last  *)
(* wanted: a start, a stop and a shutdown are on disk before the next      *)
(* event is looked at, whatever retries and failures come in between.      *)
(* RestartService is not in the instance: it persists nothing.  Nor does   *)
(* main() when it drops the wish for a MySQL it could not provision        *)
(* (main.rs:211-217); the file keeps that wish until the next save.        *)
Unprovisioned(svc) == svc = "Mysql" /\ state[svc] = "Error" /\ attempt[svc] = 0
WishIsSaved ==
    Idle => \A svc \in Service :
        \/ saved.desired[svc] = desired[svc]
        \/ Unprovisioned(svc) /\ desired[svc] = "Stopped"

(* A shutdown kills every process by its effects: when shutdown_and_join   *)
(* starts there is nothing left for it to do (executor.rs calls it a       *)
(* defensive backstop), and nothing runs after it.                         *)
ShutdownIsClean ==
    loop # "running" /\ Idle => \A svc \in Service : ~Live(svc)

(* When nothing is under way and the last change of the directory has been *)
(* noticed, a running Apache serves phpMyAdmin exactly when the switch     *)
(* says so, although the reconcile of a toggle runs before the reducer     *)
(* knows of it and a spawn in between reconciles with the old switch.      *)
Serving == <<"PhpMyAdminConf", <<>>>> \notin handle["Apache"].conf
SwitchIsHonest ==
    /\ Settled /\ pma_dir = phpmyadmin_dir_exists
    /\ state["Apache"] = "Running" /\ Live("Apache") /\ "PhpMyAdminConf" \in OwnedFiles
    =>
        (Serving <=> phpmyadmin_enabled)

(* A process is started on files that say what the reducer's state says,   *)
(* its configuration and its ledger (README: after editing rampp.toml,     *)
(* restart the affected service).                                          *)
Replaced(svc) ==
    handle'[svc].watcher = "live" /\ (~Live(svc) \/ handle'[svc].born # handle[svc].born)
Settings(conf) == {c \in conf : c[1] # "PhpMyAdminConf"}
SpawnsFollowConfig ==
    [][\A svc \in Service : Replaced(svc) =>
          Settings(handle'[svc].conf) =
              Settings(conf_of(svc, desired_configs(home, document_root, assigned, FALSE)))]_all_vars

(* The exit of an earlier attempt's process does not touch the attempt     *)
(* that is under way (executor.rs on the join in do_kill).                 *)
StaleExitsIgnored ==
    [][loop = "running" /\ Idle /\ queue # <<>> =>
          LET e == Head(queue) IN
          e.type = "ProcessExit" /\ e.of # attempt[e.service] => state'[e.service] = state[e.service]]_app

(* Once faults and commands stop, every service comes to rest where the    *)
(* user wants it: up, or in Error for the user to see.                     *)
WantedIsHonoured ==
    <>[](loop = "ended" \/ \A svc \in Service :
            state[svc] \in (IF desired[svc] = "Running" THEN {"Running", "Error"}
                            ELSE {"Stopped", "Crashed", "Error"}))

(* The loop only ever moves the application state as the reducer would, so *)
(* everything proved of Reducer holds here.                                *)
ReducesOnly == Spec
===============================================================================
