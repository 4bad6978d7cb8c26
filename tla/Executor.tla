------------------------------- MODULE Executor -------------------------------
(***************************************************************************)
(* executor.rs: side effects carried out one at a time by the event loop's *)
(* thread, and the threads they start, which answer with events: a watcher *)
(* per process, readiness pollers, health checkers and retry timers.       *)
(*                                                                         *)
(* The operating system is modelled by its outcomes.  What is not the      *)
(* normal course is a fault; an instance chooses the kinds it looks at and *)
(* MaxFaults bounds how many happen.                                       *)
(***************************************************************************)
EXTENDS Reducer, Provision

CONSTANTS
    OwnedFiles,    \* files that carry RAMPP's marker; the others are the user's
    Faults,        \* kinds of fault that happen in this instance
    MaxFaults      \* bound on faults

FaultKinds ==
    {"port busy",     \* somebody else listens on the port at the check before a spawn
     "spawn fails",   \* spawn_service returns Err
     "write fails",   \* a managed file, rampp.toml or rampp.state cannot be written
     "exit",          \* a process ends by itself
     "bind fails",    \* a process ends, and its log says that it could not bind
     "slow",          \* a process is not ready in time
     "unhealthy",     \* a live process fails a probe
     "foreign",       \* another server answers a probe on our port
     "directory"}     \* the phpMyAdmin directory appears or disappears

ASSUME OwnedAssumption == OwnedFiles \subseteq ManagedFile
ASSUME FaultAssumption == Faults \subseteq FaultKinds /\ MaxFaults \in Nat

VARIABLES
    queue,                 \* the event channel, oldest first
    executed,              \* how many of `effects` have been carried out
    stage,                 \* how far the next one has come
    handle,                \* ServiceHandles of every service, or NoHandle
    pollers,               \* readiness pollers that have not reported
    timers,                \* per service, retry timers that have not fired
    exec_home, exec_root,  \* the executor's own copy of the configuration
    disk,                  \* what the managed files contain
    saved,                 \* rampp.state: the desired states and the phpMyAdmin switch
    pma_dir,               \* whether the phpMyAdmin directory is really there
    faults                 \* faults so far

threads  == <<pollers, timers>>
settings == <<exec_home, exec_root, saved, pma_dir>>

fault(kind) == kind \in Faults /\ faults < MaxFaults /\ faults' = faults + 1
no_fault    == UNCHANGED faults

(* A handle exists from spawn time and outlives the process.  Its watcher  *)
(* is "live" until it has reported how the process ended, then "gone".     *)
(* `born` is the attempt the process was spawned for and `conf` what its   *)
(* files said then; the code keeps neither.                                *)
NoHandle == [watcher |-> "none", port |-> NoPort, born |-> 0, conf |-> {},
             became_ready |-> FALSE, checked |-> FALSE]
Live(svc) == handle[svc].watcher = "live"

(* Events.  `of` says which attempt a report is about: the code does not   *)
(* carry it on ProcessExit and PortUnavailable.                            *)
event(type, svc)   == [type |-> type, service |-> svc]
process_exit(svc, n) == [type |-> "ProcessExit", service |-> svc, of |-> n]
port_unavailable(svc, port, n) ==
    [type |-> "PortUnavailable", service |-> svc, port |-> port, of |-> n]
poller_report(type, p) ==
    [type |-> type, service |-> p.service, attempt |-> p.attempt]
configs_reconciled(files, spawning) ==
    [type |-> "ConfigsReconciled", changed |-> Service \cap {Reader(f) : f \in files},
     spawning |-> spawning]
switch_event(type, b) == [type |-> type, value |-> b]

Queued(type, svc) ==
    \E i \in 1..Len(queue) :
        queue[i].type = type /\ "service" \in DOMAIN queue[i] /\ queue[i].service = svc

send(events) == queue' = queue \o events

(* Between two sends of one effect other threads may send, so an effect    *)
(* with several is carried out in stages.                                  *)
done           == executed' = executed + 1 /\ stage' = "begin"
go_on(next)    == stage' = next /\ UNCHANGED executed

-------------------------------------------------------------------------------
(* Side effects.                                                           *)

(* Killing a live process joins its watcher, whose report is then in the   *)
(* channel; a watcher that has already reported says nothing more.  MySQL  *)
(* is first asked to shut down, which only changes how long this takes.    *)
kill_reports(svc) == IF Live(svc) THEN <<process_exit(svc, handle[svc].born)>> ELSE <<>>

(* Without a handle there is nobody to report, so the exit is made up.     *)
kill_without_synthesis(svc) ==    \* faulty
    /\ send(kill_reports(svc))
    /\ handle' = [handle EXCEPT ![svc] = NoHandle]
    /\ UNCHANGED <<disk, threads, settings, faults>>
do_kill_effect(svc) ==
    /\ send(IF handle[svc] = NoHandle THEN <<process_exit(svc, attempt[svc])>> ELSE kill_reports(svc))
    /\ handle' = [handle EXCEPT ![svc] = NoHandle]
    /\ UNCHANGED <<disk, threads, settings, faults>>

do_stop_health(svc) ==
    /\ handle' = [handle EXCEPT ![svc].checked = FALSE]
    /\ UNCHANGED <<queue, disk, threads, settings, faults>>

wanted_configs(enabled) == desired_configs(exec_home, exec_root, assigned, enabled /\ pma_dir)
changed_by(enabled, failing) == changed_files(disk, OwnedFiles, wanted_configs(enabled), failing)
write_configs(enabled, changed) == disk' = reconciled(disk, wanted_configs(enabled), changed)

(* One file at a time cannot be read or written, at the price of a fault.  *)
failing_files(failing) ==
    \/ failing = {} /\ no_fault
    \/ \E f \in ManagedFile : failing = {f} /\ fault("write fails")

(* A port that moved needs its configuration file rewritten.               *)
user_owned_blocking(svc) ==
    \/ svc = "Apache" /\ "HttpdConf" \notin OwnedFiles
    \/ svc = "Mysql"  /\ "MyIni" \notin OwnedFiles

conf_of(svc, files) == {<<f, files[f]>> : f \in {g \in ManagedFile : Reader(g) = svc}}

launch(svc, port) ==
    [watcher |-> "live", port |-> port, born |-> attempt[svc], conf |-> conf_of(svc, disk),
     became_ready |-> FALSE, checked |-> FALSE]

spawn_failed(svc) == <<event("ProcessSpawnFailed", svc)>>

(* do_spawn: check the port, reconcile, replace the old process.           *)
refuse(why) == send(why) /\ done /\ UNCHANGED <<handle, disk>>

prepare_spawn(svc, port) ==
    \/ fault("port busy") /\ refuse(<<port_unavailable(svc, port, attempt[svc])>>)
    \/ /\ port # exec_home[svc] /\ user_owned_blocking(svc)
       /\ no_fault /\ refuse(spawn_failed(svc))
    \/ /\ port = exec_home[svc] \/ ~user_owned_blocking(svc)
       /\ \E failing \in {{}} \cup {{f} : f \in ManagedFile} :
             LET changed == changed_by(phpmyadmin_enabled, failing)
             IN  /\ failing_files(failing)
                 /\ write_configs(phpmyadmin_enabled, changed)
                 /\ send(<<configs_reconciled(changed, {svc})>>)
                 /\ go_on(IF failing = {} THEN "replace" ELSE "refuse")
       /\ UNCHANGED handle

do_spawn(svc, port) ==
    /\ \/ stage = "begin" /\ prepare_spawn(svc, port)
       \/ /\ stage = "refuse"
          /\ no_fault /\ refuse(spawn_failed(svc))
       \/ /\ stage = "replace"
          /\ send(kill_reports(svc)) /\ handle' = [handle EXCEPT ![svc] = NoHandle]
          /\ go_on("launch") /\ no_fault /\ UNCHANGED disk
       \/ /\ stage = "launch"
          /\ \/ /\ handle' = [handle EXCEPT ![svc] = launch(svc, port)]
                /\ no_fault /\ UNCHANGED queue
             \/ fault("spawn fails") /\ send(spawn_failed(svc)) /\ UNCHANGED handle
          /\ done /\ UNCHANGED disk
    /\ UNCHANGED <<threads, settings>>

do_readiness_check(svc, port, n) ==
    /\ pollers' = pollers \cup {[service |-> svc, port |-> port, attempt |-> n]}
    /\ UNCHANGED <<queue, handle, disk, timers, settings, faults>>

do_schedule_retry(svc) ==
    /\ timers' = [timers EXCEPT ![svc] = @ + 1]
    /\ UNCHANGED <<queue, handle, disk, pollers, settings, faults>>

do_persist ==
    /\ \/ saved' = [desired |-> desired, phpmyadmin_enabled |-> phpmyadmin_enabled] /\ no_fault
       \/ fault("write fails") /\ UNCHANGED saved
    /\ UNCHANGED <<queue, handle, disk, threads, exec_home, exec_root, pma_dir>>

(* The only place that refreshes the executor's configuration.  When       *)
(* rampp.toml cannot be written nothing is reconciled.                     *)
keep_config    == UNCHANGED <<exec_home, exec_root>>    \* faulty
refresh_config == exec_home' = home /\ exec_root' = document_root

do_persist_config ==
    /\ refresh_config
    /\ \/ /\ fault("write fails")
          /\ UNCHANGED <<queue, disk>>
       \/ \E failing \in {{}} \cup {{f} : f \in ManagedFile} :
             LET want    == desired_configs(home, document_root, assigned, phpmyadmin_enabled /\ pma_dir)
                 changed == changed_files(disk, OwnedFiles, want, failing)
             IN  /\ failing_files(failing)
                 /\ disk' = reconciled(disk, want, changed)
                 /\ send(<<configs_reconciled(changed, {})>>)
    /\ UNCHANGED <<handle, threads, saved, pma_dir>>

(* Reconciles with the switch it was asked for, which the reducer has yet  *)
(* to learn of.                                                            *)
reconcile_current(enable) ==    \* faulty
    \E failing \in {{}} \cup {{f} : f \in ManagedFile} :
        /\ failing_files(failing)
        /\ write_configs(phpmyadmin_enabled, changed_by(phpmyadmin_enabled, failing))
        /\ send(<<configs_reconciled(changed_by(phpmyadmin_enabled, failing), {})>>)
reconcile_toggled(enable) ==
    \E failing \in {{}} \cup {{f} : f \in ManagedFile} :
        /\ failing_files(failing)
        /\ write_configs(enable, changed_by(enable, failing))
        /\ send(<<configs_reconciled(changed_by(enable, failing), {})>>)

do_toggle_phpmyadmin(enable) ==
    /\ \/ /\ stage = "begin" /\ enable /\ ~pma_dir
          /\ send(<<switch_event("PhpMyAdminToggled", FALSE)>>)
          /\ done /\ no_fault /\ UNCHANGED disk
       \/ /\ stage = "begin" /\ (~enable \/ pma_dir)
          /\ send(<<switch_event("PhpMyAdminToggled", enable)>>)
          /\ go_on("reconcile") /\ no_fault /\ UNCHANGED disk
       \/ stage = "reconcile" /\ reconcile_toggled(enable) /\ done
    /\ UNCHANGED <<handle, threads, settings>>

(* The next effect of the list.                                            *)
execute_at_once(e) ==
    \/ e.type = "KillService" /\ do_kill_effect(e.service)
    \/ e.type = "StartReadinessCheck" /\ do_readiness_check(e.service, e.port, e.attempt)
    \/ e.type = "StopHealthCheck" /\ do_stop_health(e.service)
    \/ e.type = "ScheduleRetry" /\ do_schedule_retry(e.service)
    \/ e.type = "PersistDesiredState" /\ do_persist
    \/ e.type = "PersistConfig" /\ do_persist_config
    \/ e.type = "OpenPhpMyAdminBrowser" /\ UNCHANGED <<queue, handle, disk, threads, settings, faults>>

execute ==
    /\ executed < Len(effects)
    /\ LET e == effects[executed + 1] IN
       \/ done /\ execute_at_once(e)
       \/ e.type = "SpawnService" /\ do_spawn(e.service, e.port)
       \/ e.type = "TogglePhpMyAdmin" /\ do_toggle_phpmyadmin(e.enable)

(* The event loop starts a health check when a service first reaches       *)
(* Running.                                                                *)
start_health_check(svc) ==
    handle' = [handle EXCEPT ![svc].became_ready = TRUE, ![svc].checked = TRUE,
                             ![svc].watcher = IF @ = "none" THEN "gone" ELSE @]

(* shutdown_and_join: whatever handle is left is killed.                   *)
shutdown_and_join ==
    /\ handle' = [svc \in Service |-> NoHandle]
    /\ UNCHANGED <<disk, threads, settings, faults>>

-------------------------------------------------------------------------------
(* The threads the effects start.  A step of theirs leaves the rest alone. *)

(* A process ends by itself.  The watcher sees it and reports an exit, or  *)
(* a bind failure found in the log, and never both.  diagnose_exit knows   *)
(* no signature for PHP.                                                   *)
ProcessEnds(svc) ==
    /\ Live(svc)
    /\ handle' = [handle EXCEPT ![svc].watcher = "gone"]
    /\ \/ fault("exit") /\ send(<<process_exit(svc, handle[svc].born)>>)
       \/ /\ svc # "Php" /\ fault("bind fails")
          /\ send(<<port_unavailable(svc, handle[svc].port, handle[svc].born)>>)
    /\ UNCHANGED threads

(* A poller reports exactly once, whatever has become of its attempt.      *)
Serves(svc, port) == Live(svc) /\ handle[svc].port = port

PollerReports(p) ==
    /\ p \in pollers
    /\ pollers' = pollers \ {p}
    /\ \/ /\ send(<<poller_report("ProcessReady", p)>>)
          /\ IF Serves(p.service, p.port) THEN no_fault ELSE fault("foreign")
       \/ /\ send(<<poller_report("ReadinessTimeout", p)>>)
          /\ IF Serves(p.service, p.port) THEN fault("slow") ELSE no_fault
    /\ UNCHANGED <<handle, timers>>

(* One report of a checker is pending at a time, and a pass is only sent   *)
(* where it resets a streak (bounds).                                      *)
HealthPasses(svc) ==
    /\ handle[svc].checked /\ health_fail_streak[svc] > 0
    /\ ~Queued("HealthCheckPass", svc) /\ ~Queued("HealthCheckFail", svc)
    /\ send(<<event("HealthCheckPass", svc)>>)
    /\ IF Live(svc) THEN no_fault ELSE fault("foreign")
    /\ UNCHANGED <<handle, threads>>

HealthFails(svc) ==
    /\ handle[svc].checked
    /\ ~Queued("HealthCheckPass", svc) /\ ~Queued("HealthCheckFail", svc)
    /\ send(<<event("HealthCheckFail", svc)>>)
    /\ IF Live(svc) THEN fault("unhealthy") ELSE no_fault
    /\ UNCHANGED <<handle, threads>>

TimerFires(svc) ==
    /\ timers[svc] > 0
    /\ timers' = [timers EXCEPT ![svc] = @ - 1]
    /\ send(<<event("AutoRetry", svc)>>)
    /\ UNCHANGED <<handle, pollers, faults>>
===============================================================================
