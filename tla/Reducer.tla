------------------------------- MODULE Reducer --------------------------------
(***************************************************************************)
(* reducer.rs: the pure function (AppState, Event) -> (AppState, effects), *)
(* one action per Event.  `effects` holds the side effects the last event  *)
(* asked for, in order; LogEvent is left out.                              *)
(*                                                                         *)
(* In this module events arrive in any order and with any payload, as in   *)
(* tests/reducer_props.rs: what is proved of it holds whatever the         *)
(* threads around the reducer do.  EventLoop puts the real producers and   *)
(* the queue around the same actions.                                      *)
(***************************************************************************)
EXTENDS PortLedger, Sequences, FiniteSets

CONSTANTS
    MAX_RETRIES,            \* entries of RETRY_DELAYS
    HEALTH_FAIL_THRESHOLD,  \* consecutive failures that count as a crash
    DocumentRoots           \* values of apache.document_root

ASSUME RetryAssumption  == MAX_RETRIES \in Nat
ASSUME HealthAssumption == HEALTH_FAIL_THRESHOLD \in Nat \ {0}

VARIABLES
    state,               \* ServiceStatus.state
    desired,             \* ServiceStatus.desired
    retry_count,         \* ServiceStatus.retry_count
    last_error,          \* whether ServiceStatus.last_error is Some
    health_fail_streak,  \* ServiceStatus.health_fail_streak
    started_at,          \* whether ServiceStatus.started_at is Some
    assigned,            \* PortSlot.assigned, or NoPort
    unavailable,         \* PortSlot.unavailable
    attempt,             \* PortSlot.attempt
    home,                \* the configured port of every service
    document_root,       \* config.apache.document_root
    phpmyadmin_enabled, phpmyadmin_dir_exists, open_phpmyadmin_on_apache_ready,
    effects              \* what the last reducer call returned

status == <<state, desired, retry_count, last_error, health_fail_streak, started_at>>
ledger == <<assigned, unavailable, attempt>>
config == <<home, document_root>>
pma    == <<phpmyadmin_enabled, phpmyadmin_dir_exists, open_phpmyadmin_on_apache_ready>>
app    == <<status, ledger, config, pma>>
vars   == <<app, effects>>

ServiceState == {"Stopped", "Starting", "Running", "Stopping", "Crashed", "Error"}
Active       == {"Starting", "Running"}
Startable    == {"Stopped", "Crashed", "Error"}
DesiredState == {"Running", "Stopped"}

-------------------------------------------------------------------------------
(* Side effects.                                                           *)

SpawnService(svc, port)      == [type |-> "SpawnService", service |-> svc, port |-> port]
StartReadinessCheck(svc, port, n) ==
    [type |-> "StartReadinessCheck", service |-> svc, port |-> port, attempt |-> n]
KillService(svc)             == [type |-> "KillService", service |-> svc]
StopHealthCheck(svc)         == [type |-> "StopHealthCheck", service |-> svc]
ScheduleRetry(svc)           == [type |-> "ScheduleRetry", service |-> svc]
ToggleEffect(enable)         == [type |-> "TogglePhpMyAdmin", enable |-> enable]
PersistDesiredState          == [type |-> "PersistDesiredState"]
PersistConfig                == [type |-> "PersistConfig"]
OpenPhpMyAdminBrowser        == [type |-> "OpenPhpMyAdminBrowser"]

Effect ==
    [type : {"SpawnService"}, service : Service, port : Port]
    \cup [type : {"StartReadinessCheck"}, service : Service, port : Port, attempt : 0..AttemptSpace - 1]
    \cup [type : {"KillService", "StopHealthCheck", "ScheduleRetry"}, service : Service]
    \cup [type : {"TogglePhpMyAdmin"}, enable : BOOLEAN]
    \cup [type : {"PersistDesiredState", "PersistConfig", "OpenPhpMyAdminBrowser"}]

(* Definitions marked faulty are mistakes this code could contain.  Nothing *)
(* uses them; each stands before the definition it would replace, and shows *)
(* that a property below notices the mistake.                              *)
kill_checker(svc) == <<StopHealthCheck(svc)>>    \* faulty
kill(svc) == <<StopHealthCheck(svc), KillService(svc)>>

stop_effects(svc) == kill(svc) \o <<PersistDesiredState>>

(* kill for every service of a set, in the order Apache, Mysql, Php.       *)
kill_if(svc, S)   == IF svc \in S THEN kill(svc) ELSE <<>>
kill_first(S)     == kill_if("Apache", S)    \* faulty
kill_all(S)       == kill_if("Apache", S) \o kill_if("Mysql", S) \o kill_if("Php", S)

ignored == effects' = <<>> /\ UNCHANGED app

-------------------------------------------------------------------------------
(* Helpers shared by the handlers.                                         *)

set_starting(svc) ==
    /\ state' = [state EXCEPT ![svc] = "Starting"]
    /\ started_at' = [started_at EXCEPT ![svc] = TRUE]

(* Move to a state that is not up: every such site pairs the assignment    *)
(* with clear_started_at.                                                  *)
leave_to_keeping_clock(svc, st) ==    \* faulty
    /\ state' = [state EXCEPT ![svc] = st]
    /\ UNCHANGED started_at

leave_to(svc, st) ==
    /\ state' = [state EXCEPT ![svc] = st]
    /\ started_at' = [started_at EXCEPT ![svc] = FALSE]

(* The same for all services of a set.                                     *)
stopping(S) ==
    /\ state' = [svc \in Service |-> IF svc \in S THEN "Stopping" ELSE state[svc]]
    /\ started_at' = [svc \in Service |-> started_at[svc] /\ svc \notin S]

report_nothing(svc) == UNCHANGED last_error    \* faulty
report(svc) == last_error' = [last_error EXCEPT ![svc] = TRUE]

assign(svc, port) ==
    /\ assigned' = [assigned EXCEPT ![svc] = port]
    /\ attempt'  = [attempt EXCEPT ![svc] = next_attempt(@)]

release(svc) ==
    /\ assigned' = [assigned EXCEPT ![svc] = NoPort]
    /\ UNCHANGED attempt

begin_attempt_tainted(svc) == UNCHANGED unavailable    \* faulty
begin_attempt(svc) == unavailable' = [unavailable EXCEPT ![svc] = {}]

(* A service that became ready starts with a clean record.                 *)
clear_retries_only(svc) ==    \* faulty
    /\ retry_count' = [retry_count EXCEPT ![svc] = 0]
    /\ UNCHANGED health_fail_streak

clear_record(svc) ==
    /\ retry_count' = [retry_count EXCEPT ![svc] = 0]
    /\ health_fail_streak' = [health_fail_streak EXCEPT ![svc] = 0]

(* retry_delay has an entry for this retry; a retry is still called for.   *)
may_retry_once_more(svc) == retry_count[svc] <= MAX_RETRIES    \* faulty
may_retry(svc) == retry_count[svc] < MAX_RETRIES
(* The retry, its delay looked up with the count that is being left.       *)
schedule_by_new_count(svc) ==    \* faulty
    IF retry_count'[svc] < MAX_RETRIES THEN <<ScheduleRetry(svc)>> ELSE <<>>
schedule(svc) == <<ScheduleRetry(svc)>>

retry_unwanted(svc) == state[svc] = "Crashed"    \* faulty
retry_due(svc) == state[svc] = "Crashed" /\ desired[svc] = "Running"

RunningServices == {svc \in Service : state[svc] = "Running"}    \* faulty
ActiveServices == {svc \in Service : state[svc] \in Active}

spawn_old_token(svc, port) ==    \* faulty
    <<SpawnService(svc, port), StartReadinessCheck(svc, port, attempt[svc])>>

spawn(svc, port) == <<SpawnService(svc, port), StartReadinessCheck(svc, port, attempt'[svc])>>

(* set_starting followed by begin_start: a fresh ledger entry, then a      *)
(* spawn on the allocated port or, with no port to be had, Error.  `err`   *)
(* is the last_error the caller leaves, `then` the effects it appends.     *)
begin_start(svc, err, then) ==
    LET port == allocate_port(home, assigned, {}, svc) IN
    /\ begin_attempt(svc)
    /\ IF port # NoPort
       THEN /\ set_starting(svc)
            /\ assign(svc, port)
            /\ last_error' = [last_error EXCEPT ![svc] = err]
            /\ effects' = spawn(svc, port) \o then
       ELSE /\ leave_to(svc, "Error")
            /\ release(svc)
            /\ report(svc)
            /\ effects' = then

(* The port is kept for the kill and the retry, and free once there will   *)
(* be no other.                                                            *)
release_early(svc, gives_up) == release(svc)    \* faulty
keep_or_release(svc, gives_up) ==
    IF gives_up THEN release(svc) ELSE UNCHANGED <<assigned, attempt>>

(* An unexpected death: Crashed with a retry scheduled, or Error once the  *)
(* retries are used up.                                                    *)
crash_and_retry(svc) ==
    LET wanted   == desired[svc] = "Running"
        retrying == wanted /\ may_retry(svc)
        gives_up == wanted /\ ~retrying
    IN  /\ leave_to(svc, IF gives_up THEN "Error" ELSE "Crashed")
        /\ report(svc)
        /\ retry_count' = [retry_count EXCEPT ![svc] = IF retrying THEN @ + 1 ELSE @]
        /\ keep_or_release(svc, gives_up)
        /\ effects' = kill(svc) \o (IF retrying THEN schedule(svc) ELSE <<>>)
        /\ UNCHANGED <<desired, unavailable>>

-------------------------------------------------------------------------------
(* User commands.                                                          *)

StartService(svc) ==
    \/ /\ state[svc] \in Startable
       /\ desired' = [desired EXCEPT ![svc] = "Running"]
       /\ retry_count' = [retry_count EXCEPT ![svc] = 0]
       /\ begin_start(svc, FALSE, <<PersistDesiredState>>)
       /\ UNCHANGED <<health_fail_streak, config, pma>>
    \/ /\ state[svc] \notin Startable
       /\ ignored

StopService(svc) ==
    \/ /\ state[svc] \in Active
       /\ leave_to(svc, "Stopping")
       /\ desired' = [desired EXCEPT ![svc] = "Stopped"]
       /\ effects' = stop_effects(svc)
       /\ UNCHANGED <<retry_count, last_error, health_fail_streak, ledger, config, pma>>
    \/ /\ state[svc] \in {"Crashed", "Error"}   \* not running: only what is wanted changes
       /\ state' = [state EXCEPT ![svc] = "Stopped"]
       /\ desired' = [desired EXCEPT ![svc] = "Stopped"]
       /\ effects' = <<PersistDesiredState>>
       /\ UNCHANGED <<retry_count, last_error, health_fail_streak, started_at, ledger, config, pma>>
    \/ /\ state[svc] \in {"Stopped", "Stopping"}
       /\ ignored

RestartService(svc) ==
    \/ /\ state[svc] \in Active
       /\ leave_to(svc, "Stopping")
       /\ desired' = [desired EXCEPT ![svc] = "Running"]
       /\ effects' = kill(svc)
       /\ UNCHANGED <<retry_count, last_error, health_fail_streak, ledger, config, pma>>
    \/ /\ state[svc] \in Startable
       /\ desired' = [desired EXCEPT ![svc] = "Running"]
       /\ retry_count' = [retry_count EXCEPT ![svc] = 0]
       /\ begin_start(svc, FALSE, <<>>)
       /\ UNCHANGED <<health_fail_streak, config, pma>>
    \/ /\ state[svc] = "Stopping"
       /\ desired' = [desired EXCEPT ![svc] = "Running"]
       /\ effects' = <<>>
       /\ UNCHANGED <<state, retry_count, last_error, health_fail_streak, started_at, ledger, config, pma>>

DismissError(svc) ==
    /\ last_error' = [last_error EXCEPT ![svc] = FALSE]
    /\ effects' = <<>>
    /\ UNCHANGED <<state, desired, retry_count, health_fail_streak, started_at, ledger, config, pma>>

(* Stops what is up and wants nothing any more.                            *)
ShutdownAll ==
    /\ stopping(ActiveServices)
    /\ desired' = [svc \in Service |-> "Stopped"]
    /\ effects' = kill_all(ActiveServices) \o <<PersistDesiredState>>
    /\ UNCHANGED <<retry_count, last_error, health_fail_streak, ledger, config, pma>>

-------------------------------------------------------------------------------
(* Process lifecycle.                                                      *)

of_any_attempt(svc, n) == state[svc] = "Starting"    \* faulty
of_this_attempt(svc, n) == state[svc] = "Starting" /\ attempt[svc] = n

ProcessReady(svc, n) ==
    \/ /\ of_this_attempt(svc, n)
       /\ state' = [state EXCEPT ![svc] = "Running"]
       /\ clear_record(svc)
       /\ IF svc = "Apache" /\ open_phpmyadmin_on_apache_ready
          THEN /\ open_phpmyadmin_on_apache_ready' = FALSE
               /\ effects' = <<OpenPhpMyAdminBrowser>>
          ELSE /\ UNCHANGED open_phpmyadmin_on_apache_ready
               /\ effects' = <<>>
       /\ UNCHANGED <<desired, last_error, started_at, ledger, config, phpmyadmin_enabled, phpmyadmin_dir_exists>>
    \/ /\ ~of_this_attempt(svc, n)     \* an orphaned poller
       /\ ignored

ReadinessTimeout(svc, n) ==
    \/ /\ of_this_attempt(svc, n)
       /\ crash_and_retry(svc)
       /\ UNCHANGED <<health_fail_streak, config, pma>>
    \/ /\ ~of_this_attempt(svc, n)
       /\ ignored

ProcessExit(svc) ==
    \/ /\ state[svc] = "Stopping" /\ desired[svc] = "Running"
       /\ retry_count' = [retry_count EXCEPT ![svc] = 0]
       /\ begin_start(svc, last_error[svc], <<>>)
       /\ UNCHANGED <<desired, health_fail_streak, config, pma>>
    \/ /\ state[svc] = "Stopping" /\ desired[svc] = "Stopped"
       /\ leave_to(svc, "Stopped")
       /\ release(svc)
       /\ effects' = <<>>
       /\ UNCHANGED <<desired, retry_count, last_error, health_fail_streak, unavailable, config, pma>>
    \/ /\ state[svc] \in Active
       /\ crash_and_retry(svc)
       /\ UNCHANGED <<health_fail_streak, config, pma>>
    \/ /\ state[svc] \in Startable
       /\ ignored

(* The only report the reducer believes in every state.                    *)
ProcessSpawnFailed(svc) ==
    /\ leave_to(svc, "Error")
    /\ report(svc)
    /\ release(svc)
    /\ effects' = <<>>
    /\ UNCHANGED <<desired, retry_count, health_fail_streak, unavailable, config, pma>>

AutoRetry(svc) ==
    \/ /\ retry_due(svc)
       /\ begin_start(svc, last_error[svc], <<>>)
       /\ UNCHANGED <<desired, retry_count, health_fail_streak, config, pma>>
    \/ /\ ~retry_due(svc)
       /\ ignored

FatalError(svc) ==
    /\ leave_to(svc, "Error")
    /\ report(svc)
    /\ effects' = <<StopHealthCheck(svc)>>
    /\ UNCHANGED <<desired, retry_count, health_fail_streak, ledger, config, pma>>

-------------------------------------------------------------------------------
(* Health checks.                                                          *)

HealthCheckPass(svc) ==
    \/ /\ state[svc] = "Running"
       /\ health_fail_streak' = [health_fail_streak EXCEPT ![svc] = 0]
       /\ effects' = <<>>
       /\ UNCHANGED <<state, desired, retry_count, last_error, started_at, ledger, config, pma>>
    \/ /\ state[svc] # "Running"
       /\ ignored

HealthCheckFail(svc) ==
    \/ /\ state[svc] = "Running"
       /\ health_fail_streak' = [health_fail_streak EXCEPT ![svc] = @ + 1]
       /\ IF health_fail_streak'[svc] >= HEALTH_FAIL_THRESHOLD
          THEN crash_and_retry(svc)
          ELSE /\ effects' = <<>>
               /\ UNCHANGED <<state, desired, retry_count, last_error, started_at, ledger>>
       /\ UNCHANGED <<config, pma>>
    \/ /\ state[svc] # "Running"
       /\ ignored

-------------------------------------------------------------------------------
(* Ports.                                                                  *)

PortConflictDetected(svc) ==
    /\ leave_to(svc, "Error")
    /\ report(svc)
    /\ effects' = <<>>
    /\ UNCHANGED <<desired, retry_count, health_fail_streak, ledger, config, pma>>

(* The report is believed when it names the port now assigned; it carries  *)
(* no attempt.  The port is blacklisted and the next candidate tried.      *)
PortUnavailable(svc, port) ==
    \/ /\ state[svc] = "Starting" /\ assigned[svc] = port
       /\ unavailable' = [unavailable EXCEPT ![svc] = @ \cup {port}]
       /\ LET next == allocate_port(home, assigned, unavailable'[svc], svc) IN
          IF next # NoPort
          THEN /\ assign(svc, next)
               /\ effects' = spawn(svc, next)
               /\ UNCHANGED <<state, started_at, last_error>>
          ELSE /\ leave_to(svc, "Error")
               /\ report(svc)
               /\ release(svc)
               /\ effects' = <<>>
       /\ UNCHANGED <<desired, retry_count, health_fail_streak, config, pma>>
    \/ /\ state[svc] # "Starting" \/ assigned[svc] # port
       /\ ignored

-------------------------------------------------------------------------------
(* Configuration and phpMyAdmin.                                           *)

ConfigReloaded(new_home, new_root, dir) ==
    /\ home' = new_home
    /\ document_root' = new_root
    /\ phpmyadmin_dir_exists' = dir
    /\ effects' = IF phpmyadmin_enabled /\ ~dir THEN <<ToggleEffect(FALSE)>> ELSE <<>>
    /\ UNCHANGED <<status, ledger, phpmyadmin_enabled, open_phpmyadmin_on_apache_ready>>

(* Restart, with new settings, what is up among S.                         *)
restart_up(S, first) ==
    LET up == S \cap ActiveServices IN
    /\ stopping(up)
    /\ desired' = [svc \in Service |-> IF svc \in up THEN "Running" ELSE desired[svc]]
    /\ effects' = first \o kill_all(up)
    /\ UNCHANGED <<retry_count, last_error, health_fail_streak>>

(* `changed` is the set of services one of whose files was rewritten;      *)
(* `spawning`, the one about to be spawned from them, is left alone.       *)
ConfigsReconciled(changed, spawning) ==
    /\ restart_up(changed \ spawning, <<>>)
    /\ UNCHANGED <<ledger, config, pma>>

SetDocumentRoot(root) ==
    /\ document_root' = root
    /\ restart_up({"Apache"}, <<PersistConfig>>)
    /\ UNCHANGED <<ledger, home, pma>>

TogglePhpMyAdmin ==
    \/ /\ phpmyadmin_dir_exists
       /\ \A svc \in Service : state[svc] = "Running"
       /\ effects' = <<ToggleEffect(~phpmyadmin_enabled)>>
       /\ open_phpmyadmin_on_apache_ready' = (open_phpmyadmin_on_apache_ready \/ ~phpmyadmin_enabled)
       /\ UNCHANGED <<status, ledger, config, phpmyadmin_enabled, phpmyadmin_dir_exists>>
    \/ /\ ~phpmyadmin_dir_exists \/ \E svc \in Service : state[svc] # "Running"
       /\ ignored

PhpMyAdminToggled(enabled) ==
    /\ phpmyadmin_enabled' = enabled
    /\ open_phpmyadmin_on_apache_ready' = (open_phpmyadmin_on_apache_ready /\ enabled)
    /\ effects' = <<PersistDesiredState>>
    /\ UNCHANGED <<status, ledger, config, phpmyadmin_dir_exists>>

PhpMyAdminDirChanged(exists) ==
    /\ phpmyadmin_dir_exists' = exists
    /\ effects' = IF ~exists /\ phpmyadmin_enabled THEN <<ToggleEffect(FALSE)>> ELSE <<>>
    /\ UNCHANGED <<status, ledger, config, phpmyadmin_enabled, open_phpmyadmin_on_apache_ready>>

OpenPhpMyAdmin ==
    /\ effects' = <<OpenPhpMyAdminBrowser>>
    /\ UNCHANGED app

(* Tick, ClearLog and DiagnosticLog leave the state alone.                 *)
Tick == ignored

-------------------------------------------------------------------------------
(* AppState as main.rs builds it: nothing runs, the wanted states and the  *)
(* phpMyAdmin switch come from rampp.state, and MySQL is in Error when its *)
(* configuration or data directory could not be provisioned.               *)
Init ==
    /\ state \in [Service -> {"Stopped", "Error"}]
    /\ \A svc \in Service \ {"Mysql"} : state[svc] = "Stopped"
    /\ desired \in [Service -> DesiredState]
    /\ last_error = [svc \in Service |-> state[svc] = "Error"]
    /\ \A svc \in Service : state[svc] = "Error" => desired[svc] = "Stopped"
    /\ retry_count = [svc \in Service |-> 0]
    /\ health_fail_streak = [svc \in Service |-> 0]
    /\ started_at = [svc \in Service |-> FALSE]
    /\ assigned = [svc \in Service |-> NoPort]
    /\ unavailable = [svc \in Service |-> {}]
    /\ attempt = [svc \in Service |-> 0]
    /\ home \in HomeConfigs
    /\ document_root \in DocumentRoots
    /\ phpmyadmin_dir_exists \in BOOLEAN
    /\ phpmyadmin_enabled \in {FALSE, phpmyadmin_dir_exists}
    /\ open_phpmyadmin_on_apache_ready = FALSE
    /\ effects = <<>>

ServiceEvent(svc) ==
    \/ StartService(svc) \/ StopService(svc) \/ RestartService(svc) \/ DismissError(svc)
    \/ \E n \in 0..AttemptSpace - 1 : ProcessReady(svc, n) \/ ReadinessTimeout(svc, n)
    \/ ProcessExit(svc) \/ ProcessSpawnFailed(svc) \/ AutoRetry(svc) \/ FatalError(svc)
    \/ HealthCheckPass(svc) \/ HealthCheckFail(svc)
    \/ PortConflictDetected(svc)
    \/ \E port \in ScanCandidates(home[svc]) \cup {assigned[svc]} : PortUnavailable(svc, port)

AppEvent ==
    \/ \E h \in HomeConfigs, root \in DocumentRoots, dir \in BOOLEAN : ConfigReloaded(h, root, dir)
    \/ \E changed \in SUBSET Service, spawning \in {{}} \cup {{svc} : svc \in Service} :
           ConfigsReconciled(changed, spawning)
    \/ \E root \in DocumentRoots : SetDocumentRoot(root)
    \/ TogglePhpMyAdmin
    \/ \E b \in BOOLEAN : PhpMyAdminToggled(b) \/ PhpMyAdminDirChanged(b)
    \/ OpenPhpMyAdmin \/ Tick \/ ShutdownAll

Next == AppEvent \/ \E svc \in Service : ServiceEvent(svc)

Spec == Init /\ [][Next]_vars

-------------------------------------------------------------------------------
(* Properties.                                                             *)

(* Every field keeps its type; in particular a stored port is a valid one. *)
StateTyped ==
    /\ state \in [Service -> ServiceState]
    /\ desired \in [Service -> DesiredState]
    /\ retry_count \in [Service -> Nat]
    /\ last_error \in [Service -> BOOLEAN]
    /\ health_fail_streak \in [Service -> Nat]
    /\ started_at \in [Service -> BOOLEAN]
    /\ assigned \in [Service -> MaybePort]
    /\ unavailable \in [Service -> SUBSET Port]
    /\ attempt \in [Service -> 0..AttemptSpace - 1]
    /\ home \in HomeConfigs
    /\ document_root \in DocumentRoots
    /\ phpmyadmin_enabled \in BOOLEAN
    /\ phpmyadmin_dir_exists \in BOOLEAN
    /\ open_phpmyadmin_on_apache_ready \in BOOLEAN

EffectsTyped == effects \in Seq(Effect)

TypeOK == StateTyped /\ EffectsTyped

(* No two services hold the same port, though their scan ranges overlap,   *)
(* ports move with conflicts and a reload can configure a port that is     *)
(* already held (state.rs: "structurally impossible").                     *)
PortsDistinct ==
    \A s, t \in Service : assigned[s] = assigned[t] /\ assigned[s] # NoPort => s = t

(* What is up or coming up is wanted: no sequence of events leaves a       *)
(* service running that the user's last word, or a shutdown, stopped.      *)
ActiveIsDesired ==
    \A svc \in Service : state[svc] \in Active => desired[svc] = "Running"

(* started_at, cleared by hand at a dozen sites, tells exactly when a      *)
(* service is up or coming up.  The handlers (reducer.rs:127-131), their   *)
(* tests (reducer.rs:1252, tests/reducer_props.rs:154) and the uptime the  *)
(* window shows (ui.rs:242-248) agree on this; the comments of state.rs:64 *)
(* and state.rs:309 say that it is cleared on Running, and are wrong.      *)
StartedAtTracksActive ==
    \A svc \in Service : started_at[svc] <=> state[svc] \in Active

(* Between two resets of its count, by the user or by becoming ready, a    *)
(* service never retries more than MAX_RETRIES times, and one that sits in *)
(* Crashed while it is wanted has a retry on its account.  A service that  *)
(* becomes ready and dies again, over and over, is retried for ever.       *)
RetriesBounded ==
    \A svc \in Service :
        /\ retry_count[svc] <= MAX_RETRIES
        /\ state[svc] = "Crashed" /\ desired[svc] = "Running" => retry_count[svc] > 0

(* A running service is below the failure threshold: no run starts with    *)
(* the streak that ended the one before.                                   *)
StreakBelowThreshold ==
    \A svc \in Service : state[svc] = "Running" => health_fail_streak[svc] < HEALTH_FAIL_THRESHOLD

(* A service that has, or may still have, a process keeps a usable port in *)
(* the ledger: the graceful MySQL stop and the health check read it there. *)
LedgerHeld ==
    \A svc \in Service :
        state[svc] \in {"Starting", "Running", "Stopping", "Crashed"} =>
            assigned[svc] # NoPort /\ assigned[svc] \notin unavailable[svc]

Emits(e) == \E i \in 1..Len(effects') : effects'[i] = e

(* Whatever the reducer asks to spawn is what its ledger says: a service   *)
(* in Starting, its assigned port, and a readiness check with the token    *)
(* that ProcessReady will be compared with.                                *)
SpawnMatchesLedger ==
    [][\A i \in 1..Len(effects') :
          LET e == effects'[i] IN
          e.type = "SpawnService" =>
              /\ state'[e.service] = "Starting" /\ assigned'[e.service] = e.port
              /\ Emits(StartReadinessCheck(e.service, e.port, attempt'[e.service]))]_vars

(* The ways into Error that ask for no kill.  A failed spawn and a refused *)
(* port are taken to mean that there is no process, which a late report    *)
(* makes wrong (EventLoop, the run orphan).  FatalError and                *)
(* PortConflictDetected are handled, but nothing in src/ sends them.       *)
GoesUnkilled(svc) ==
    /\ state'[svc] = "Error"
    /\ \/ ProcessSpawnFailed(svc) \/ PortUnavailable(svc, assigned[svc])
       \/ FatalError(svc) \/ PortConflictDetected(svc)

(* Giving up a process asks for its death: a service that is no longer     *)
(* Starting or Running has StopHealthCheck and KillService emitted for it, *)
(* or goes to Error in one of the ways above.  A last retry that forgot    *)
(* its kill would look like a failed spawn: that is for DownMeansDead.     *)
GivingUpKills ==
    [][\A svc \in Service :
          state[svc] \in Active /\ state'[svc] \notin Active =>
              \/ Emits(StopHealthCheck(svc)) /\ Emits(KillService(svc))
              \/ GoesUnkilled(svc)]_vars

(* Entering Error always leaves the user a reason to read.                 *)
ErrorsAreReported ==
    [][\A svc \in Service :
          state[svc] # "Error" /\ state'[svc] = "Error" => last_error'[svc]]_vars

(* What the user wants is changed only by what the user, or the shutdown,  *)
(* asked for, and every change to Stopped is persisted with it, so that a  *)
(* restart of RAMPP does not bring back a service that was stopped.        *)
StopsArePersisted ==
    [][\A svc \in Service :
          desired[svc] = "Running" /\ desired'[svc] = "Stopped" => Emits(PersistDesiredState)]_vars

(* The reducer implements the life cycle the documentation draws, with the *)
(* retries left as the budget.                                             *)
Life == INSTANCE Lifecycle WITH
            wanted <- desired,
            Budget <- MAX_RETRIES,
            budget <- [svc \in Service |-> MAX_RETRIES - retry_count[svc]]

ImplementsLifecycle == Life!Spec
===============================================================================
