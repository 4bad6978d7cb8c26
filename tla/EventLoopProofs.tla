---------------------------- MODULE EventLoopProofs ----------------------------
(***************************************************************************)
(* What TLAPS proves of EventLoop for every set of services and commands,  *)
(* every choice of faults and bounds, and every interleaving of the loop   *)
(* with the threads it starts.  First, the loop moves the application      *)
(* state only as Reducer does, so that every theorem about Reducer is one  *)
(* about the running program; then, what the loop itself promises.         *)
(***************************************************************************)
EXTENDS EventLoop, ReducerStepProofs

USE DEF MaybePort

(* Two things that only some instances of the loop meet: a spawn that      *)
(* fails, and a port that turns out to be taken.                           *)
SpawnMayFail ==
    \/ Faults \cap {"spawn fails", "write fails"} # {}
    \/ ~({"HttpdConf", "MyIni"} \subseteq OwnedFiles)
PortMayBeTaken == Faults \cap {"port busy", "bind fails"} # {}

(* What can be in the channel.                                             *)
Token == 0..AttemptSpace - 1
ServiceMessage ==
    [type : {"StartService", "AutoRetry", "HealthCheckPass", "HealthCheckFail"}, service : Service]
    \cup [type : {t \in {"ProcessSpawnFailed"} : SpawnMayFail}, service : Service]
ExitMessage   == [type : {"ProcessExit"}, service : Service, of : Token]
PortMessage   == [type : {t \in {"PortUnavailable"} : PortMayBeTaken},
                  service : Service, port : MaybePort, of : Token]
PollerMessage == [type : {"ProcessReady", "ReadinessTimeout"}, service : Service, attempt : Token]
FilesMessage  == [type : {"ConfigsReconciled"}, changed : SUBSET Service,
                  spawning : {{}} \cup {{svc} : svc \in Service}]
SwitchMessage == [type : {"PhpMyAdminToggled", "PhpMyAdminDirChanged"}, value : BOOLEAN]
TickMessage   == [type : {"Tick"}]
Message ==
    Command \cup ServiceMessage \cup ExitMessage \cup PortMessage \cup PollerMessage
    \cup FilesMessage \cup SwitchMessage \cup TickMessage

PollerRecord == [service : Service, port : Port, attempt : Token]

HandleTyped(h) ==
    /\ DOMAIN h = {"watcher", "port", "born", "conf", "became_ready", "checked"}
    /\ h.watcher \in {"none", "live", "gone"} /\ h.port \in MaybePort /\ h.born \in Token
    /\ h.became_ready \in BOOLEAN /\ h.checked \in BOOLEAN

(* The inductive invariant: Reducer's, and the types of everything around  *)
(* it, the channel's contents first of all.                                *)
ExecutorTyped ==
    /\ DOMAIN handle = Service /\ \A svc \in Service : HandleTyped(handle[svc])
    /\ pollers \subseteq PollerRecord /\ timers \in [Service -> Nat]
    /\ exec_home \in HomeConfigs /\ exec_root \in DocumentRoots
    /\ DOMAIN disk = ManagedFile
    /\ saved.desired \in [Service -> DesiredState] /\ saved.phpmyadmin_enabled \in BOOLEAN
    /\ pma_dir \in BOOLEAN

StageTyped ==
    /\ stage \in {"begin", "refuse", "replace", "launch", "reconcile"}
    /\ stage = "refuse" => SpawnMayFail

LoopTyped ==
    /\ queue \in Seq(Message)
    /\ executed \in 0..Len(effects)
    /\ StageTyped
    /\ loop \in {"running", "joining", "ended"}

LInv == IInv /\ EffectsTyped /\ ExecutorTyped /\ LoopTyped

-------------------------------------------------------------------------------
(* Messages, as the threads and effects build them.                        *)
LEMMA MessagesTyped ==
    ASSUME NEW svc \in Service
    PROVE  /\ \A type \in {"StartService", "AutoRetry", "HealthCheckPass", "HealthCheckFail"} :
                  event(type, svc) \in Message
           /\ SpawnMayFail => event("ProcessSpawnFailed", svc) \in Message
           /\ \A n \in Token : process_exit(svc, n) \in Message
           /\ \A port \in MaybePort, n \in Token :
                  PortMayBeTaken => port_unavailable(svc, port, n) \in Message
           /\ \A files : configs_reconciled(files, {svc}) \in Message
<1>1. /\ \A type \in {"StartService", "AutoRetry", "HealthCheckPass", "HealthCheckFail"} :
            event(type, svc) \in ServiceMessage
      /\ SpawnMayFail => event("ProcessSpawnFailed", svc) \in ServiceMessage
  BY DEF event, ServiceMessage
<1>2. \A n \in Token : process_exit(svc, n) \in ExitMessage
  BY DEF process_exit, ExitMessage
<1>3. \A port \in MaybePort, n \in Token :
          PortMayBeTaken => port_unavailable(svc, port, n) \in PortMessage
  BY DEF port_unavailable, PortMessage
<1>4. \A files : configs_reconciled(files, {svc}) \in FilesMessage
  BY DEF configs_reconciled, FilesMessage
<1> QED
  BY <1>1, <1>2, <1>3, <1>4 DEF Message

(* The messages that are not reports about one service.                    *)
LEMMA OtherMessagesTyped ==
    /\ \A files : configs_reconciled(files, {}) \in Message
    /\ \A type \in {"PhpMyAdminToggled", "PhpMyAdminDirChanged"}, b \in BOOLEAN :
          switch_event(type, b) \in Message
    /\ [type |-> "Tick"] \in Message
    /\ \A p \in PollerRecord, type \in {"ProcessReady", "ReadinessTimeout"} :
          poller_report(type, p) \in Message
    /\ Command \subseteq Message
<1>1. \A files : configs_reconciled(files, {}) \in FilesMessage
  BY DEF configs_reconciled, FilesMessage
<1>2. \A type \in {"PhpMyAdminToggled", "PhpMyAdminDirChanged"}, b \in BOOLEAN :
          switch_event(type, b) \in SwitchMessage
  BY DEF switch_event, SwitchMessage
<1>3. [type |-> "Tick"] \in TickMessage
  BY DEF TickMessage
<1>4. \A p \in PollerRecord, type \in {"ProcessReady", "ReadinessTimeout"} :
          poller_report(type, p) \in PollerMessage
  BY DEF poller_report, PollerRecord, PollerMessage
<1> QED
  BY <1>1, <1>2, <1>3, <1>4 DEF Message

(* The loop hands the reducer nothing that Reducer does not allow: a       *)
(* report with a token or port that is not current is one it ignores.      *)
LEMMA ReducerSteps ==
    ASSUME LInv, NEW e \in Message, reducer(e)
    PROVE  Next
<1>1. CASE e.type \in {"StartService", "StopService", "RestartService", "ProcessExit",
                       "ProcessSpawnFailed", "AutoRetry", "HealthCheckPass", "HealthCheckFail",
                       "ProcessReady", "ReadinessTimeout", "PortUnavailable"}
  <2>1. e.service \in Service
    BY <1>1 DEF Message, ServiceMessage, ExitMessage, PortMessage, PollerMessage, FilesMessage,
                SwitchMessage, TickMessage, Command
  <2>2. CASE e.type \in {"ProcessReady", "ReadinessTimeout"}
    <3>1. e.attempt \in 0..AttemptSpace - 1
      BY <2>2 DEF Message, ServiceMessage, ExitMessage, PortMessage, PollerMessage, FilesMessage,
                  SwitchMessage, TickMessage, Command, Token
    <3>2. ServiceEvent(e.service)
      BY <2>2, <3>1 DEF reducer, ServiceEvent
    <3> QED
      BY <2>1, <3>2 DEF Next
  <2>3. CASE e.type = "PortUnavailable"
    <3>1. PortUnavailable(e.service, e.port)
      BY <2>3 DEF reducer
    <3>2. CASE assigned[e.service] = e.port
      BY <2>1, <3>1, <3>2 DEF Next, ServiceEvent
    <3>3. CASE assigned[e.service] # e.port
      BY <3>1, <3>3 DEF PortUnavailable, Next, AppEvent, Tick
    <3> QED
      BY <3>2, <3>3
  <2>4. CASE e.type \notin {"ProcessReady", "ReadinessTimeout", "PortUnavailable"}
    <3>1. ServiceEvent(e.service)
      BY <1>1, <2>4 DEF reducer, ServiceEvent
    <3> QED
      BY <2>1, <3>1 DEF Next
  <2> QED
    BY <2>2, <2>3, <2>4
<1>2. CASE e.type = "ConfigReloaded"
  <2>1. e.home \in HomeConfigs /\ e.root \in DocumentRoots
    BY <1>2 DEF Message, ServiceMessage, ExitMessage, PortMessage, PollerMessage, FilesMessage,
                SwitchMessage, TickMessage, Command
  <2> QED
    BY <1>2, <2>1 DEF reducer, Next, AppEvent, LInv, ExecutorTyped
<1>3. CASE e.type = "SetDocumentRoot"
  <2>1. e.root \in DocumentRoots
    BY <1>3 DEF Message, ServiceMessage, ExitMessage, PortMessage, PollerMessage, FilesMessage,
                SwitchMessage, TickMessage, Command
  <2> QED
    BY <1>3, <2>1 DEF reducer, Next, AppEvent
<1>4. CASE e.type = "ConfigsReconciled"
  <2>1. e.changed \in SUBSET Service /\ e.spawning \in {{}} \cup {{svc} : svc \in Service}
    BY <1>4 DEF Message, ServiceMessage, ExitMessage, PortMessage, PollerMessage, FilesMessage,
                SwitchMessage, TickMessage, Command
  <2> QED
    BY <1>4, <2>1 DEF reducer, Next, AppEvent
<1>5. CASE e.type \in {"PhpMyAdminToggled", "PhpMyAdminDirChanged"}
  <2>1. e.value \in BOOLEAN
    BY <1>5 DEF Message, ServiceMessage, ExitMessage, PortMessage, PollerMessage, FilesMessage,
                SwitchMessage, TickMessage, Command
  <2> QED
    BY <1>5, <2>1 DEF reducer, Next, AppEvent
<1>6. CASE e.type \in {"Tick", "TogglePhpMyAdmin", "ShutdownAll"}
  BY <1>6 DEF reducer, Next, AppEvent
<1> QED
  BY <1>1, <1>2, <1>3, <1>4, <1>5, <1>6 DEF reducer

-------------------------------------------------------------------------------
(* Types.  What the executor's values are made of.                         *)
LEMMA HandlesTyped ==
    ASSUME LInv, NEW svc \in Service
    PROVE  /\ HandleTyped(NoHandle)
           /\ \A port \in Port : HandleTyped(launch(svc, port))
           /\ kill_reports(svc) \in Seq(Message)
           /\ process_exit(svc, handle[svc].born) \in Message
           /\ process_exit(svc, attempt[svc]) \in Message
           /\ PortMayBeTaken => port_unavailable(svc, handle[svc].port, handle[svc].born) \in Message
           /\ SpawnMayFail => spawn_failed(svc) \in Seq(Message)
<1>1. /\ attempt[svc] \in Token /\ 0 \in Token
      /\ handle[svc].born \in Token /\ handle[svc].port \in MaybePort
  BY AttemptAssumption DEF LInv, IInv, StateTyped, ExecutorTyped, HandleTyped, Token
<1>2. HandleTyped(NoHandle)
  BY <1>1 DEF NoHandle, HandleTyped
<1>3. \A port \in Port : HandleTyped(launch(svc, port))
  BY <1>1 DEF launch, HandleTyped
<1>4. /\ process_exit(svc, handle[svc].born) \in Message
      /\ process_exit(svc, attempt[svc]) \in Message
      /\ PortMayBeTaken => port_unavailable(svc, handle[svc].port, handle[svc].born) \in Message
      /\ SpawnMayFail => event("ProcessSpawnFailed", svc) \in Message
  BY <1>1, MessagesTyped
<1>5. kill_reports(svc) \in Seq(Message) /\ (SpawnMayFail => spawn_failed(svc) \in Seq(Message))
  BY <1>4 DEF kill_reports, spawn_failed
<1> QED
  BY <1>2, <1>3, <1>4, <1>5

(* What do_spawn and the other effects that reconcile put on the disk and  *)
(* into the channel.                                                       *)
LEMMA ReconcileTyped ==
    ASSUME NEW want, NEW changed, NEW files, NEW svc \in Service
    PROVE  /\ DOMAIN reconciled(disk, want, changed) = ManagedFile
           /\ <<configs_reconciled(files, {svc})>> \in Seq(Message)
           /\ <<configs_reconciled(files, {})>> \in Seq(Message)
<1>1. configs_reconciled(files, {svc}) \in Message /\ configs_reconciled(files, {}) \in Message
  BY MessagesTyped, OtherMessagesTyped
<1> QED
  BY <1>1 DEF reconciled

(* Sending keeps the channel well typed, and takes nothing from it.        *)
Sent == queue' \in Seq(Message) /\ Event \subseteq Event'

(* Sending adds to the channel what was sent, and takes nothing out of it. *)
LEMMA SendTyped ==
    ASSUME queue \in Seq(Message), NEW events \in Seq(Message), send(events)
    PROVE  Sent /\ \A i \in 1..Len(events) : events[i] \in Event'
<1>1. /\ queue' \in Seq(Message) /\ Len(queue') = Len(queue) + Len(events)
      /\ Len(queue) \in Nat /\ Len(events) \in Nat
      /\ \A i \in 1..Len(queue) : queue'[i] = queue[i]
      /\ \A i \in 1..Len(events) : queue'[Len(queue) + i] = events[i]
  BY DEF send
<1>2. ASSUME NEW i \in 1..Len(events) PROVE events[i] \in Event'
  <2>1. Len(queue) + i \in 1..Len(queue') /\ queue'[Len(queue) + i] = events[i]
    BY <1>1
  <2> QED
    BY <2>1 DEF Event
<1>3. 1..Len(queue) \subseteq 1..Len(queue')
  BY <1>1
<1> QED
  BY <1>1, <1>2, <1>3 DEF Sent, Event

(* The same of a single event.                                             *)
LEMMA SendOne ==
    ASSUME queue \in Seq(Message), NEW m \in Message, send(<<m>>)
    PROVE  Sent /\ m \in Event'
<1>1. <<m>> \in Seq(Message) /\ 1 \in 1..Len(<<m>>) /\ <<m>>[1] = m
  OBVIOUS
<1> HIDE DEF Sent
<1> QED
  BY <1>1, SendTyped

(* An effect that sends nothing leaves the channel as it is.               *)
LEMMA SendNothing ==
    ASSUME queue \in Seq(Message), UNCHANGED queue
    PROVE  Sent
BY DEF Sent, Event

(* Each effect, carried out, leaves the executor and the channel typed.    *)
SendsTyped == ExecutorTyped' /\ Sent

(* A stage of do_spawn, with the bind failure that may follow.             *)
LEMMA SpawnKeepsTypes ==
    ASSUME LInv, NEW svc \in Service, NEW port \in Port, do_spawn(svc, port)
    PROVE  SendsTyped /\ StageTyped'
<1>1. /\ queue \in Seq(Message) /\ ExecutorTyped /\ attempt[svc] \in Token /\ port \in MaybePort
      /\ StageTyped
  BY DEF LInv, LoopTyped, IInv, StateTyped, Token
<1>2. UNCHANGED <<pollers, timers, exec_home, exec_root, saved, pma_dir>>
  BY DEF do_spawn, threads, settings
<1>3. ASSUME Sent, DOMAIN disk' = ManagedFile, UNCHANGED handle
      PROVE  SendsTyped
  BY <1>1, <1>2, <1>3 DEF SendsTyped, ExecutorTyped
<1>4. ASSUME SpawnMayFail, send(spawn_failed(svc))
      PROVE  Sent
  BY <1>1, <1>4, SendTyped, HandlesTyped
<1>5. DOMAIN disk = ManagedFile
  BY <1>1 DEF ExecutorTyped
<1>6. CASE stage = "begin" /\ prepare_spawn(svc, port)
  <2>1. CASE fault("port busy") /\ refuse(<<port_unavailable(svc, port, attempt[svc])>>)
    <3>1. PortMayBeTaken
      BY <2>1 DEF fault, PortMayBeTaken
    <3>2. port_unavailable(svc, port, attempt[svc]) \in Message
      BY <1>1, <3>1, MessagesTyped
    <3>3. Sent
      BY <1>1, <2>1, <3>2, SendOne DEF refuse
    <3> QED
      BY <1>3, <1>5, <2>1, <3>3 DEF refuse, done, StageTyped
  <2>2. CASE user_owned_blocking(svc) /\ refuse(spawn_failed(svc))
    <3>1. SpawnMayFail
      BY <2>2 DEF user_owned_blocking, SpawnMayFail
    <3> QED
      BY <1>3, <1>4, <1>5, <2>2, <3>1 DEF refuse, done, StageTyped
  <2>3. ASSUME NEW changed, NEW failing, failing_files(failing),
               write_configs(phpmyadmin_enabled, changed),
               send(<<configs_reconciled(changed, {svc})>>),
               go_on(IF failing = {} THEN "replace" ELSE "refuse"), UNCHANGED handle
        PROVE  SendsTyped /\ StageTyped'
    <3>1. configs_reconciled(changed, {svc}) \in Message
      BY MessagesTyped
    <3>2. Sent
      BY <1>1, <2>3, <3>1, SendOne
    <3>3. DOMAIN disk' = ManagedFile
      BY <2>3 DEF write_configs, reconciled
    <3>4. failing = {} \/ SpawnMayFail
      BY <2>3 DEF failing_files, fault, SpawnMayFail
    <3> QED
      BY <1>3, <2>3, <3>2, <3>3, <3>4 DEF go_on, StageTyped
  <2> QED
    BY <1>6, <2>1, <2>2, <2>3 DEF prepare_spawn
<1>7. CASE stage = "refuse" /\ refuse(spawn_failed(svc))
  <2>1. SpawnMayFail
    BY <1>1, <1>7 DEF StageTyped
  <2> QED
    BY <1>3, <1>4, <1>5, <1>7, <2>1 DEF refuse, done, StageTyped
<1>8. CASE /\ send(kill_reports(svc)) /\ handle' = [handle EXCEPT ![svc] = NoHandle]
           /\ go_on("launch") /\ UNCHANGED disk
  <2>1. Sent
    BY <1>1, <1>8, SendTyped, HandlesTyped
  <2> QED
    BY <1>1, <1>2, <1>8, <2>1, HandlesTyped DEF go_on, SendsTyped, ExecutorTyped, StageTyped
<1>9. CASE /\ handle' = [handle EXCEPT ![svc] = launch(svc, port)] /\ UNCHANGED queue
           /\ done /\ UNCHANGED disk
  BY <1>1, <1>2, <1>9, SendNothing, HandlesTyped DEF done, SendsTyped, ExecutorTyped, StageTyped
<1>10. CASE /\ fault("spawn fails") /\ send(spawn_failed(svc)) /\ UNCHANGED handle
            /\ done /\ UNCHANGED disk
  <2>1. SpawnMayFail
    BY <1>10 DEF fault, SpawnMayFail
  <2> QED
    BY <1>3, <1>4, <1>5, <1>10, <2>1 DEF done, StageTyped
<1> QED
  BY <1>6, <1>7, <1>8, <1>9, <1>10 DEF do_spawn

(* A stage of do_toggle_phpmyadmin.                                        *)
LEMMA ToggleKeepsTypes ==
    ASSUME LInv, NEW enable \in BOOLEAN, do_toggle_phpmyadmin(enable)
    PROVE  SendsTyped /\ StageTyped'
<1>1. queue \in Seq(Message) /\ ExecutorTyped
  BY DEF LInv, LoopTyped
<1>2. UNCHANGED <<handle, pollers, timers, exec_home, exec_root, saved, pma_dir>>
  BY DEF do_toggle_phpmyadmin, threads, settings
<1>3. ASSUME NEW b \in BOOLEAN, send(<<switch_event("PhpMyAdminToggled", b)>>)
      PROVE  Sent
  <2>1. switch_event("PhpMyAdminToggled", b) \in Message
    BY OtherMessagesTyped
  <2> QED
    BY <1>1, <1>3, <2>1, SendOne, SendNothing
<1>4. CASE UNCHANGED disk /\ (done \/ go_on("reconcile"))
           /\ \E b \in BOOLEAN : send(<<switch_event("PhpMyAdminToggled", b)>>)
  BY <1>1, <1>2, <1>3, <1>4 DEF done, go_on, SendsTyped, ExecutorTyped, StageTyped
<1>5. CASE reconcile_toggled(enable) /\ done
  <2>1. PICK changed : write_configs(enable, changed) /\ send(<<configs_reconciled(changed, {})>>)
    BY <1>5 DEF reconcile_toggled
  <2>2. DOMAIN disk' = ManagedFile
    BY <2>1 DEF write_configs, reconciled
  <2>3. Sent
    <3>1. configs_reconciled(changed, {}) \in Message
      BY OtherMessagesTyped
    <3> QED
      BY <1>1, <2>1, <3>1, SendOne, SendNothing
  <2> QED
    BY <1>1, <1>2, <1>5, <2>2, <2>3 DEF done, SendsTyped, ExecutorTyped, StageTyped
<1> QED
  BY <1>4, <1>5 DEF do_toggle_phpmyadmin

(* Any other effect, carried out at once.                                  *)
LEMMA EffectKeepsTypes ==
    ASSUME LInv, NEW e \in Effect, execute_at_once(e)
    PROVE  SendsTyped
<1>1. /\ queue \in Seq(Message) /\ ExecutorTyped /\ IInv
      /\ desired \in [Service -> DesiredState] /\ phpmyadmin_enabled \in BOOLEAN
      /\ home \in HomeConfigs /\ document_root \in DocumentRoots
  BY DEF LInv, LoopTyped, IInv, StateTyped
<1>2. e.type \in {"KillService", "StartReadinessCheck", "StopHealthCheck", "ScheduleRetry"}
          => e.service \in Service
  BY DEF Effect
<1>3. CASE e.type = "KillService" /\ do_kill_effect(e.service)
  <2> DEFINE svc == e.service
  <2>1. svc \in Service
    BY <1>2, <1>3
  <2> HIDE DEF svc
  <2>2. do_kill_effect(svc)
    BY <1>3 DEF svc
  <2>3. Sent
    <3>1. process_exit(svc, attempt[svc]) \in Message /\ kill_reports(svc) \in Seq(Message)
      BY <2>1, HandlesTyped
    <3>2. send(<<process_exit(svc, attempt[svc])>>) \/ send(kill_reports(svc))
      BY <2>2 DEF do_kill_effect
    <3> QED
      BY <1>1, <3>1, <3>2, SendTyped, SendNothing, SendOne, SendNothing
  <2> QED
    BY <1>1, <2>1, <2>2, <2>3, HandlesTyped
       DEF do_kill_effect, threads, settings, SendsTyped, ExecutorTyped
<1>4. CASE e.type = "StartReadinessCheck" /\ do_readiness_check(e.service, e.port, e.attempt)
  <2>1. [service |-> e.service, port |-> e.port, attempt |-> e.attempt] \in PollerRecord
    BY <1>4 DEF Effect, PollerRecord, Token
  <2> QED
    BY <1>1, <1>4, <2>1, SendNothing DEF do_readiness_check, settings, SendsTyped, ExecutorTyped
<1>5. CASE e.type = "StopHealthCheck" /\ do_stop_health(e.service)
  <2> DEFINE svc == e.service
  <2>1. svc \in Service /\ handle' = [handle EXCEPT ![svc].checked = FALSE]
    BY <1>2, <1>5 DEF do_stop_health
  <2> HIDE DEF svc
  <2>2. DOMAIN handle' = Service /\ \A t \in Service : HandleTyped(handle'[t])
    BY <1>1, <2>1 DEF ExecutorTyped, HandleTyped
  <2> QED
    BY <1>1, <1>5, <2>2, SendNothing DEF do_stop_health, threads, settings, SendsTyped, ExecutorTyped
<1>6. CASE e.type = "ScheduleRetry" /\ do_schedule_retry(e.service)
  <2>1. timers' \in [Service -> Nat]
    BY <1>1, <1>2, <1>6 DEF do_schedule_retry, ExecutorTyped
  <2> QED
    BY <1>1, <1>6, <2>1, SendNothing DEF do_schedule_retry, settings, SendsTyped, ExecutorTyped
<1>7. CASE do_persist
  <2>1. CASE saved' = saved
    BY <1>1, <1>7, <2>1, SendNothing DEF do_persist, threads, SendsTyped, ExecutorTyped
  <2>2. CASE saved' = [desired |-> desired, phpmyadmin_enabled |-> phpmyadmin_enabled]
    <3>1. saved'.desired = desired /\ saved'.phpmyadmin_enabled = phpmyadmin_enabled
      BY <2>2
    <3> QED
      BY <1>1, <1>7, <3>1, SendNothing DEF do_persist, threads, SendsTyped, ExecutorTyped
  <2> QED
    BY <1>7, <2>1, <2>2 DEF do_persist
<1>8. CASE do_persist_config
  <2>1. Sent /\ DOMAIN disk' = ManagedFile
    <3>1. CASE UNCHANGED <<queue, disk>>
      BY <1>1, <3>1, SendNothing DEF ExecutorTyped
    <3>2. ASSUME NEW want, NEW changed, disk' = reconciled(disk, want, changed),
                 send(<<configs_reconciled(changed, {})>>)
          PROVE  Sent /\ DOMAIN disk' = ManagedFile
      <4>1. DOMAIN disk' = ManagedFile
        BY <3>2 DEF reconciled
      <4>2. configs_reconciled(changed, {}) \in Message
        BY OtherMessagesTyped
      <4>3. Sent
        BY <1>1, <3>2, <4>2, SendOne, SendNothing
      <4> QED
        BY <4>1, <4>3
    <3> QED
      BY <1>8, <3>1, <3>2 DEF do_persist_config
  <2> QED
    BY <1>1, <1>8, <2>1 DEF do_persist_config, refresh_config, threads, SendsTyped, ExecutorTyped
<1>9. CASE UNCHANGED <<queue, handle, disk, threads, settings, faults>>
  BY <1>1, <1>9, SendNothing DEF threads, settings, SendsTyped, ExecutorTyped
<1> QED
  BY <1>3, <1>4, <1>5, <1>6, <1>7, <1>8, <1>9 DEF execute_at_once

(* One step of executing the effects, types kept throughout.               *)
LEMMA ExecuteKeepsTypes ==
    ASSUME LInv, ExecuteEffect
    PROVE  LInv' /\ Sent
<1>1. /\ effects \in Seq(Effect) /\ executed \in 0..Len(effects) /\ IInv /\ ExecutorTyped
      /\ StageTyped
      /\ loop \in {"running", "joining", "ended"} /\ queue \in Seq(Message)
  BY DEF LInv, LoopTyped, EffectsTyped
<1>2. UNCHANGED <<vars, loop>> /\ execute /\ executed < Len(effects)
  BY DEF ExecuteEffect, execute
<1> DEFINE e == effects[executed + 1]
<1>3. e \in Effect /\ Len(effects) \in Nat
  <2>1. executed + 1 \in 1..Len(effects) /\ Len(effects) \in Nat
    BY <1>1, <1>2
  <2> QED
    BY <1>1, <2>1
<1>4. \/ done /\ execute_at_once(e)
      \/ e.type = "SpawnService" /\ do_spawn(e.service, e.port)
      \/ e.type = "TogglePhpMyAdmin" /\ do_toggle_phpmyadmin(e.enable)
  BY <1>2 DEF execute
<1> HIDE DEF e
<1>5. SendsTyped /\ StageTyped'
  <2>1. CASE done /\ execute_at_once(e)
    BY <1>3, <2>1, EffectKeepsTypes DEF done, StageTyped
  <2>2. CASE e.type = "SpawnService" /\ do_spawn(e.service, e.port)
    <3>1. e.service \in Service /\ e.port \in Port
      BY <1>3, <2>2 DEF Effect
    <3> QED
      BY <2>2, <3>1, SpawnKeepsTypes
  <2>3. CASE e.type = "TogglePhpMyAdmin" /\ do_toggle_phpmyadmin(e.enable)
    <3>1. e.enable \in BOOLEAN
      BY <1>3, <2>3 DEF Effect
    <3> QED
      BY <2>3, <3>1, ToggleKeepsTypes
  <2> QED
    BY <1>4, <2>1, <2>2, <2>3
<1>6. executed' = executed + 1 \/ executed' = executed
  BY <1>4 DEF done, do_spawn, prepare_spawn, refuse, go_on, do_toggle_phpmyadmin
<1>7. executed' \in 0..Len(effects')
  BY <1>1, <1>2, <1>3, <1>6 DEF vars
<1>8. IInv' /\ EffectsTyped'
  BY <1>1, <1>2, IgnoredPreserves DEF vars, EffectsTyped
<1> QED
  BY <1>1, <1>2, <1>5, <1>7, <1>8 DEF LInv, LoopTyped, SendsTyped, Sent

-------------------------------------------------------------------------------
(* Handling an event.                                                      *)
LEMMA QueueTyped ==
    ASSUME LInv, queue # <<>>
    PROVE  /\ Head(queue) \in Message /\ Tail(queue) \in Seq(Message)
           /\ tick_probe(Head(queue)) \in Seq(Message)
<1>1. queue \in Seq(Message) /\ pma_dir \in BOOLEAN
  BY DEF LInv, LoopTyped, ExecutorTyped
<1>2. Head(queue) \in Message /\ Tail(queue) \in Seq(Message)
  BY <1>1
<1>3. switch_event("PhpMyAdminDirChanged", pma_dir) \in Message
  BY <1>1, OtherMessagesTyped
<1> DEFINE m == switch_event("PhpMyAdminDirChanged", pma_dir)
           probe == tick_probe(Head(queue))
<1>4. probe = <<>> \/ probe = <<m>>
  BY DEF tick_probe
<1> HIDE DEF m, probe
<1>5. <<>> \in Seq(Message) /\ <<m>> \in Seq(Message)
  BY <1>3 DEF m
<1>6. probe \in Seq(Message)
  BY <1>4, <1>5
<1> QED
  BY <1>2, <1>6 DEF probe

(* The reducer's step, by its own theorems.                                *)
LEMMA NextKeepsTypes ==
    ASSUME IInv, Next
    PROVE  IInv' /\ EffectsTyped'
BY AppEventPreserves, ServiceEventPreserves, AppEffects, ServiceEffects DEF Next, EffectsTyped

(* The loop starts the health checks before it executes.                   *)
LEMMA ReadyHandlesTyped ==
    ASSUME ExecutorTyped, NEW svc \in Service, start_health_check(svc)
    PROVE  DOMAIN handle' = Service /\ \A t \in Service : HandleTyped(handle'[t])
<1>1. handle' = [handle EXCEPT ![svc] = handle'[svc]] /\ HandleTyped(handle'[svc])
  BY DEF start_health_check, ExecutorTyped, HandleTyped
<1> QED
  BY <1>1 DEF ExecutorTyped

(* The loop takes an event: a step of the reducer, on a message that is    *)
(* one of its events.                                                      *)
LEMMA HandleKeepsTypes ==
    ASSUME LInv, HandleEvent
    PROVE  Next /\ LInv'
<1> DEFINE e == Head(queue)
<1>1. /\ e \in Message /\ Tail(queue) \in Seq(Message) /\ tick_probe(e) \in Seq(Message)
  BY QueueTyped DEF HandleEvent
<1>2. /\ reducer(e) /\ queue' = Tail(queue) \o tick_probe(e) /\ executed' = 0
      /\ loop' \in {"joining", loop}
      /\ \/ e.type = "ProcessReady" /\ start_health_check(e.service)
         \/ UNCHANGED handle
      /\ UNCHANGED <<stage, threads, settings, disk, faults, commands>>
  BY DEF HandleEvent
<1> HIDE DEF e
<1>3. Next
  BY <1>1, <1>2, ReducerSteps
<1>4. IInv' /\ EffectsTyped'
  BY <1>3, NextKeepsTypes DEF LInv
<1>5. queue' \in Seq(Message)
  BY <1>1, <1>2
<1>6. DOMAIN handle' = Service /\ \A t \in Service : HandleTyped(handle'[t])
  <2>1. CASE UNCHANGED handle
    BY <2>1 DEF LInv, ExecutorTyped
  <2>2. CASE e.type = "ProcessReady" /\ start_health_check(e.service)
    <3>1. e.service \in Service
      BY <1>1, <2>2 DEF Message, ServiceMessage, ExitMessage, PortMessage, PollerMessage,
                        FilesMessage, SwitchMessage, TickMessage, Command
    <3> QED
      BY <2>2, <3>1, ReadyHandlesTyped DEF LInv
  <2> QED
    BY <1>2, <2>1, <2>2
<1>7. ExecutorTyped'
  BY <1>2, <1>6 DEF LInv, ExecutorTyped, threads, settings
<1>8. executed' \in 0..Len(effects')
  <2>1. Len(effects') \in Nat
    BY <1>4 DEF EffectsTyped
  <2> QED
    BY <1>2, <2>1
<1> QED
  BY <1>2, <1>3, <1>4, <1>5, <1>7, <1>8 DEF LInv, LoopTyped, StageTyped

(* The debounce drops a command.                                           *)
LEMMA DropKeepsTypes ==
    ASSUME LInv, DropCommand
    PROVE  LInv'
<1>1. queue' \in Seq(Message)
  BY QueueTyped DEF DropCommand
<1>2. UNCHANGED <<vars, executed, stage, handle, threads, settings, disk, loop>>
  BY DEF DropCommand, loop_vars
<1>3. IInv' /\ EffectsTyped'
  BY <1>2, IgnoredPreserves DEF LInv, EffectsTyped, vars
<1> QED
  BY <1>1, <1>2, <1>3 DEF LInv, LoopTyped, StageTyped, ExecutorTyped, vars, threads, settings

(* The joins after the last effect.                                        *)
LEMMA ShutdownKeepsTypes ==
    ASSUME LInv, Shutdown
    PROVE  LInv'
<1>1. queue' \in Seq(Message) /\ loop' = "ended"
  BY DEF Shutdown
<1>2. UNCHANGED <<vars, executed, stage, threads, settings, disk>>
  BY DEF Shutdown, shutdown_and_join
<1>3. IInv' /\ EffectsTyped'
  BY <1>2, IgnoredPreserves DEF LInv, EffectsTyped, vars
<1>4. DOMAIN handle' = Service /\ \A svc \in Service : HandleTyped(handle'[svc])
  <2>1. handle' = [svc \in Service |-> NoHandle]
    BY DEF Shutdown, shutdown_and_join
  <2>2. \A svc \in Service : HandleTyped(NoHandle)
    BY HandlesTyped
  <2> QED
    BY <2>1, <2>2
<1> QED
  BY <1>1, <1>2, <1>3, <1>4 DEF LInv, LoopTyped, StageTyped, ExecutorTyped, vars, threads, settings

-------------------------------------------------------------------------------
(* Everything around the loop.  A step of it leaves the application state, *)
(* the executor's progress, the disk and the loop alone.                   *)
LEMMA OutsideKeepsTypes ==
    ASSUME LInv, Outside, Sent, pma_dir' \in BOOLEAN,
           pollers' \subseteq PollerRecord, timers' \in [Service -> Nat],
           DOMAIN handle' = Service, \A svc \in Service : HandleTyped(handle'[svc])
    PROVE  LInv'
<1>1. UNCHANGED <<vars, executed, stage, disk, exec_home, exec_root, saved, loop>>
  BY DEF Outside
<1>2. IInv' /\ EffectsTyped'
  BY <1>1, IgnoredPreserves DEF LInv, EffectsTyped, vars
<1> QED
  BY <1>1, <1>2 DEF LInv, LoopTyped, StageTyped, ExecutorTyped, Sent, vars

(* A thread of a service reports.                                          *)
LEMMA ThreadKeepsTypes ==
    ASSUME LInv, NEW svc \in Service,
           Watcher(svc) \/ Poller(svc) \/ Timer(svc) \/ CheckPasses(svc) \/ CheckFails(svc)
    PROVE  LInv' /\ Sent
<1>1. /\ queue \in Seq(Message) /\ pma_dir \in BOOLEAN /\ pollers \subseteq PollerRecord
      /\ timers \in [Service -> Nat] /\ DOMAIN handle = Service
      /\ \A t \in Service : HandleTyped(handle[t])
  BY DEF LInv, LoopTyped, StageTyped, ExecutorTyped
<1>2. CASE Watcher(svc)
  <2>1. Outside /\ UNCHANGED <<pma_dir, pollers, timers>>
    BY <1>2 DEF Watcher, ThreadStep, ProcessEnds, threads
  <2>2. handle' = [handle EXCEPT ![svc].watcher = "gone"]
    BY <1>2 DEF Watcher, ThreadStep, ProcessEnds
  <2>3. Sent
    <3>1. /\ process_exit(svc, handle[svc].born) \in Message
          /\ PortMayBeTaken => port_unavailable(svc, handle[svc].port, handle[svc].born) \in Message
      BY HandlesTyped
    <3>2. \/ send(<<process_exit(svc, handle[svc].born)>>)
          \/ PortMayBeTaken /\ send(<<port_unavailable(svc, handle[svc].port, handle[svc].born)>>)
      BY <1>2 DEF Watcher, ThreadStep, ProcessEnds, fault, PortMayBeTaken
    <3> QED
      BY <1>1, <3>1, <3>2, SendOne
  <2>4. DOMAIN handle' = Service /\ \A t \in Service : HandleTyped(handle'[t])
    BY <1>1, <2>2 DEF HandleTyped
  <2> QED
    BY <1>1, <2>1, <2>3, <2>4, OutsideKeepsTypes
<1>3. CASE Poller(svc)
  <2>1. Outside /\ UNCHANGED <<pma_dir, handle, timers>>
    BY <1>3 DEF Poller, ThreadStep, PollerReports
  <2>2. PICK p \in pollers, type \in {"ProcessReady", "ReadinessTimeout"} :
            pollers' = pollers \ {p} /\ send(<<poller_report(type, p)>>)
    BY <1>3 DEF Poller, ThreadStep, PollerReports
  <2>3. poller_report(type, p) \in Message /\ pollers' \subseteq PollerRecord
    BY <1>1, <2>2, OtherMessagesTyped
  <2>4. Sent
    BY <1>1, <2>2, <2>3, SendOne
  <2> QED
    BY <1>1, <2>1, <2>3, <2>4, OutsideKeepsTypes
<1>4. CASE Timer(svc)
  <2>1. Outside /\ UNCHANGED <<pma_dir, handle, pollers>>
    BY <1>4 DEF Timer, ThreadStep, TimerFires
  <2>2. timers' \in [Service -> Nat]
    <3>1. timers[svc] - 1 \in Nat
      BY <1>1, <1>4 DEF Timer, ThreadStep, TimerFires
    <3> QED
      BY <1>1, <1>4, <3>1 DEF Timer, ThreadStep, TimerFires
  <2>3. event("AutoRetry", svc) \in Message
    BY MessagesTyped
  <2>4. Sent
    BY <1>1, <1>4, <2>3, SendOne DEF Timer, ThreadStep, TimerFires
  <2> QED
    BY <1>1, <2>1, <2>2, <2>4, OutsideKeepsTypes
<1>5. CASE CheckPasses(svc) \/ CheckFails(svc)
  <2>1. Outside /\ UNCHANGED <<pma_dir, handle, pollers, timers>>
    BY <1>5 DEF CheckPasses, CheckFails, ThreadStep, HealthPasses, HealthFails, threads
  <2>2. event("HealthCheckPass", svc) \in Message /\ event("HealthCheckFail", svc) \in Message
    BY MessagesTyped
  <2>3. Sent
    BY <1>1, <1>5, <2>2, SendOne
       DEF CheckPasses, CheckFails, ThreadStep, HealthPasses, HealthFails
  <2> QED
    BY <1>1, <2>1, <2>3, OutsideKeepsTypes
<1> QED
  BY <1>2, <1>3, <1>4, <1>5

(* The file system, the tick and the user.                                 *)
LEMMA UserKeepsTypes ==
    ASSUME LInv, DirChanges \/ TickFires \/ UserCommand
    PROVE  LInv' /\ Sent
<1>1. /\ queue \in Seq(Message) /\ pma_dir \in BOOLEAN /\ pollers \subseteq PollerRecord
      /\ timers \in [Service -> Nat] /\ DOMAIN handle = Service
      /\ \A t \in Service : HandleTyped(handle[t])
  BY DEF LInv, LoopTyped, StageTyped, ExecutorTyped
<1>2. Outside /\ UNCHANGED <<handle, pollers, timers>>
  BY DEF DirChanges, TickFires, UserCommand, threads
<1>3. pma_dir' \in BOOLEAN
  <2>1. (~pma_dir) \in BOOLEAN
    BY Zenon
  <2> QED
    BY <1>1, <2>1 DEF DirChanges, TickFires, UserCommand
<1>4. Sent
  <2>1. CASE DirChanges
    BY <1>1, <2>1, SendNothing DEF DirChanges
  <2>2. CASE TickFires
    BY <1>1, <2>2, OtherMessagesTyped, SendOne DEF TickFires
  <2>3. CASE UserCommand
    BY <1>1, <2>3, OtherMessagesTyped, SendOne DEF UserCommand
  <2> QED
    BY <2>1, <2>2, <2>3
<1> QED
  BY <1>1, <1>2, <1>3, <1>4, OutsideKeepsTypes

(* The loop starts with an empty channel and no handle.                    *)
LEMMA LoopInitTyped ==
    ASSUME LoopInit
    PROVE  LInv
<1>1. IInv /\ EffectsTyped
  BY InitEstablishes, EffectTypes DEF LoopInit, Init, EffectsTyped
<1>2. StateTyped
  BY <1>1 DEF IInv
<1>3. DOMAIN handle = Service /\ \A svc \in Service : HandleTyped(handle[svc])
  <2>1. HandleTyped(NoHandle)
    BY AttemptAssumption DEF NoHandle, HandleTyped, Token
  <2> QED
    BY <2>1 DEF LoopInit
<1>4. saved.desired \in [Service -> DesiredState] /\ saved.phpmyadmin_enabled \in BOOLEAN
  <2>1. saved.desired \in saved_before_drop /\ saved.phpmyadmin_enabled = phpmyadmin_enabled
    BY DEF LoopInit
  <2> QED
    BY <1>2, <2>1 DEF StateTyped, saved_before_drop
<1>5. ExecutorTyped
  BY <1>2, <1>3, <1>4 DEF LoopInit, ExecutorTyped, StateTyped, desired_configs
<1>6. queue \in Seq(Message)
  <2>1. \A name : start_if(name) \in Seq(Message)
    <3>1. ASSUME NEW svc \in Service PROVE <<event("StartService", svc)>> \in Seq(Message)
      <4>1. event("StartService", svc) \in Message
        BY MessagesTyped
      <4> QED
        BY <4>1
    <3> QED
      BY <3>1 DEF start_if, restore
  <2> DEFINE apache == start_if("Apache")
             mysql == start_if("Mysql")
             php == start_if("Php")
  <2>2. apache \in Seq(Message) /\ mysql \in Seq(Message) /\ php \in Seq(Message)
    BY <2>1
  <2>3. queue = apache \o mysql \o php
    BY DEF LoopInit
  <2> HIDE DEF apache, mysql, php
  <2> QED
    BY <2>2, <2>3
<1>7. LoopTyped
  BY <1>6, EffectTypes DEF LoopInit, Init, LoopTyped, StageTyped
<1> QED
  BY <1>1, <1>5, <1>7 DEF LInv

(* Every step keeps the invariant, and is one of the reducer's or leaves   *)
(* its state alone.                                                        *)
LEMMA LoopStepTyped ==
    ASSUME LInv, [LoopNext]_all_vars
    PROVE  LInv' /\ [Next]_vars
<1>1. CASE HandleEvent
  BY <1>1, HandleKeepsTypes
<1>2. CASE UNCHANGED all_vars
  <2>1. /\ UNCHANGED <<vars, queue, executed, stage, handle, threads, settings, disk, loop>>
    BY <1>2 DEF all_vars, machine, loop_vars
  <2>2. IInv' /\ EffectsTyped'
    BY <2>1, IgnoredPreserves DEF LInv, EffectsTyped, vars
  <2> QED
    BY <2>1, <2>2 DEF LInv, LoopTyped, StageTyped, ExecutorTyped, vars, threads, settings
<1>3. CASE DropCommand
  BY <1>3, DropKeepsTypes DEF DropCommand
<1>4. CASE ExecuteEffect
  BY <1>4, ExecuteKeepsTypes DEF ExecuteEffect
<1>5. CASE Shutdown
  BY <1>5, ShutdownKeepsTypes DEF Shutdown
<1>6. ASSUME NEW svc \in Service,
             Watcher(svc) \/ Poller(svc) \/ Timer(svc) \/ CheckPasses(svc) \/ CheckFails(svc)
      PROVE  LInv' /\ [Next]_vars
  <2>1. UNCHANGED vars
    BY <1>6 DEF Watcher, Poller, Timer, CheckPasses, CheckFails, ThreadStep, Outside
  <2> QED
    BY <1>6, <2>1, ThreadKeepsTypes
<1>7. CASE DirChanges \/ TickFires \/ UserCommand
  <2>1. UNCHANGED vars
    BY <1>7 DEF DirChanges, TickFires, UserCommand, Outside
  <2> QED
    BY <1>7, <2>1, UserKeepsTypes
<1> QED
  BY <1>1, <1>2, <1>3, <1>4, <1>5, <1>6, <1>7 DEF LoopNext, LoopStep

(* The invariant holds of every behaviour of the loop.                     *)
THEOREM LoopInductive == LoopSpec => []LInv
<1>1. LInv /\ [LoopNext]_all_vars => LInv'
  BY LoopStepTyped
<1>2. LoopInit => LInv
  BY LoopInitTyped
<1> QED
  BY <1>1, <1>2, PTL DEF LoopSpec

(* The program (main.rs, the loop, with executor.rs and the threads it     *)
(* starts) implements the reducer's specification: whatever the threads    *)
(* send and in whatever order it arrives, the application state moves only *)
(* as reducer.rs lets it, so the theorems about Reducer are about the loop.*)
THEOREM LoopReducesOnly == LoopSpec => ReducesOnly
<1>1. LoopInit => Init
  BY DEF LoopInit
<1>2. LInv /\ [LoopNext]_all_vars => [Next]_vars
  BY LoopStepTyped
<1> QED
  BY <1>1, <1>2, LoopInductive, PTL DEF LoopSpec, Spec, ReducesOnly

(* Every part of the loop and the executor keeps its type.                 *)
THEOREM LoopIsTyped == LoopSpec => []LoopTypeOK
<1>1. LInv => LoopTypeOK
  BY DEF LInv, LoopTypeOK, TypeOK, IInv, ExecutorTyped, LoopTyped, StageTyped, HandleTyped, PollerRecord, Token
<1> QED
  BY <1>1, LoopInductive, PTL
===============================================================================
