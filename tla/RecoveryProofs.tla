----------------------------- MODULE RecoveryProofs -----------------------------
(***************************************************************************)
(* What TLAPS proves of EventLoop about what must not be forgotten, for    *)
(* every interleaving of the loop with its threads: somebody decides every *)
(* start, and retries every wanted service that crashed, whatever fails;   *)
(* what the user wants is saved; and a changed configuration has reached   *)
(* the disk before a process is started.                                   *)
(***************************************************************************)
EXTENDS EventLoopProofs

(* A step of one of the threads, of the user or of the file system.        *)
OutsideStep ==
    \/ \E svc \in Service :
          Watcher(svc) \/ Poller(svc) \/ Timer(svc) \/ CheckPasses(svc) \/ CheckFails(svc)
    \/ DirChanges \/ TickFires \/ UserCommand

-------------------------------------------------------------------------------
(* What each kind of step leaves of what is under way.                     *)

(* An event taken from the channel is the only one that leaves it.         *)
LEMMA TakesOne ==
    ASSUME LInv, queue # <<>>, NEW more \in Seq(Message), queue' = Tail(queue) \o more
    PROVE  \A e \in Event : e = Head(queue) \/ e \in Event'
<1>1. /\ queue \in Seq(Message) /\ Tail(queue) \in Seq(Message)
  BY QueueTyped DEF LInv, LoopTyped
<1>2. /\ Len(queue) \in Nat /\ Len(Tail(queue)) = Len(queue) - 1 /\ Len(more) \in Nat
      /\ Len(queue') = Len(Tail(queue)) + Len(more)
      /\ Head(queue) = queue[1]
      /\ \A i \in 1..Len(Tail(queue)) : Tail(queue)[i] = queue[i + 1]
      /\ \A i \in 1..Len(Tail(queue)) : queue'[i] = Tail(queue)[i]
  BY <1>1
<1>3. ASSUME NEW i \in 1..Len(queue), i # 1 PROVE queue[i] \in Event'
  <2>1. i - 1 \in 1..Len(Tail(queue)) /\ i - 1 \in 1..Len(queue') /\ queue'[i - 1] = queue[i]
    BY <1>2, <1>3
  <2> QED
    BY <2>1 DEF Event
<1> QED
  BY <1>2, <1>3 DEF Event

(* A step outside the loop only adds to the channel; a poller or a timer   *)
(* that ends has sent its report.                                          *)
LEMMA OutsideLeaves ==
    ASSUME LInv, OutsideStep
    PROVE  /\ UNCHANGED <<vars, executed, stage, disk, exec_home, exec_root, saved, loop>>
           /\ loop # "ended" /\ Event \subseteq Event'
           /\ \A p \in pollers : p \in pollers' \/ poller_report("ProcessReady", p) \in Event'
                                 \/ poller_report("ReadinessTimeout", p) \in Event'
           /\ \A t \in Service : timers[t] > 0 => timers'[t] > 0 \/ event("AutoRetry", t) \in Event'
<1>1. UNCHANGED <<vars, executed, stage, disk, exec_home, exec_root, saved, loop>> /\ loop # "ended"
  BY DEF OutsideStep, Watcher, Poller, Timer, CheckPasses, CheckFails, ThreadStep, DirChanges,
         TickFires, UserCommand, Outside
<1>2. Event \subseteq Event'
  BY ThreadKeepsTypes, UserKeepsTypes DEF OutsideStep, Sent
<1>3. queue \in Seq(Message) /\ pollers \subseteq PollerRecord /\ timers \in [Service -> Nat]
  BY DEF LInv, LoopTyped, ExecutorTyped
<1>4. CASE UNCHANGED <<pollers, timers>>
  BY <1>1, <1>2, <1>4
<1>5. ASSUME NEW svc \in Service, Poller(svc)
      PROVE  \A p \in pollers : p \in pollers' \/ poller_report("ProcessReady", p) \in Event'
                                 \/ poller_report("ReadinessTimeout", p) \in Event'
  <2>1. PICK q \in pollers, type \in {"ProcessReady", "ReadinessTimeout"} :
            pollers' = pollers \ {q} /\ send(<<poller_report(type, q)>>)
    BY <1>5 DEF Poller, ThreadStep, PollerReports
  <2>2. poller_report(type, q) \in Message
    BY <1>3, OtherMessagesTyped
  <2>3. poller_report(type, q) \in Event'
    BY <1>3, <2>1, <2>2, SendOne
  <2> QED
    BY <2>1, <2>3
<1>6. ASSUME NEW svc \in Service, Timer(svc)
      PROVE  \A t \in Service : timers[t] > 0 => timers'[t] > 0 \/ event("AutoRetry", t) \in Event'
  <2>1. timers' = [timers EXCEPT ![svc] = @ - 1] /\ send(<<event("AutoRetry", svc)>>)
    BY <1>6 DEF Timer, ThreadStep, TimerFires
  <2>2. event("AutoRetry", svc) \in Message
    BY MessagesTyped
  <2>3. event("AutoRetry", svc) \in Event'
    BY <1>3, <2>1, <2>2, SendOne
  <2> QED
    BY <1>3, <2>1, <2>3
<1>7. ASSUME NEW svc \in Service, Poller(svc) PROVE UNCHANGED timers
  BY <1>7 DEF Poller, ThreadStep, PollerReports
<1>8. ASSUME NEW svc \in Service, Timer(svc) PROVE UNCHANGED pollers
  BY <1>8 DEF Timer, ThreadStep, TimerFires
<1>9. ASSUME NEW svc \in Service, Watcher(svc) \/ CheckPasses(svc) \/ CheckFails(svc)
      PROVE  UNCHANGED <<pollers, timers>>
  BY <1>9 DEF Watcher, CheckPasses, CheckFails, ThreadStep, ProcessEnds, HealthPasses,
              HealthFails, threads
<1>10. CASE DirChanges \/ TickFires \/ UserCommand
  <2>1. UNCHANGED <<pollers, timers>>
    BY <1>10 DEF DirChanges, TickFires, UserCommand, threads
  <2> QED
    BY <1>4, <2>1
<1> QED
  BY <1>1, <1>2, <1>4, <1>5, <1>6, <1>7, <1>8, <1>9, <1>10 DEF OutsideStep

(* Carrying out an effect leaves the others to do, and keeps every event,  *)
(* poller and timer that is there.                                         *)
LEMMA ExecuteLeaves ==
    ASSUME LInv, ExecuteEffect
    PROVE  /\ UNCHANGED <<vars, loop>> /\ Event \subseteq Event' /\ pollers \subseteq pollers'
           /\ \A t \in Service : timers[t] > 0 => timers'[t] > 0
           /\ \A e \in ToDo : e \in ToDo' \/ (done /\ e = effects[executed + 1])
<1>1. /\ effects \in Seq(Effect) /\ executed \in 0..Len(effects)
      /\ timers \in [Service -> Nat]
  BY DEF LInv, LoopTyped, EffectsTyped, ExecutorTyped
<1>2. UNCHANGED <<vars, loop>> /\ execute /\ executed < Len(effects)
  BY DEF ExecuteEffect, execute
<1>3. Event \subseteq Event'
  BY ExecuteKeepsTypes DEF Sent
<1> DEFINE e == effects[executed + 1]
<1>4. e \in Effect
  BY <1>1, <1>2
<1>5. \/ done /\ execute_at_once(e)
      \/ e.type = "SpawnService" /\ do_spawn(e.service, e.port)
      \/ e.type = "TogglePhpMyAdmin" /\ do_toggle_phpmyadmin(e.enable)
  BY <1>2 DEF execute
<1>6. done \/ executed' = executed
  BY <1>5 DEF done, do_spawn, prepare_spawn, refuse, go_on, do_toggle_phpmyadmin
<1>7. ASSUME NEW f \in ToDo PROVE f \in ToDo' \/ (done /\ f = effects[executed + 1])
  <2>1. CASE executed' = executed
    BY <1>2, <2>1 DEF ToDo, vars
  <2>2. CASE done
    <3>1. PICK i \in executed + 1..Len(effects) : f = effects[i]
      BY DEF ToDo
    <3>2. i = executed + 1 \/ i \in executed' + 1..Len(effects')
      BY <1>1, <1>2, <2>2, <3>1 DEF done, vars
    <3> QED
      BY <1>2, <2>2, <3>1, <3>2 DEF ToDo, vars
  <2> QED
    BY <1>6, <2>1, <2>2
<1> HIDE DEF e
<1>8. pollers \subseteq pollers' /\ \A t \in Service : timers[t] > 0 => timers'[t] > 0
  <2>1. CASE UNCHANGED threads
    BY <2>1 DEF threads
  <2>2. CASE e.type = "StartReadinessCheck" /\ do_readiness_check(e.service, e.port, e.attempt)
    BY <2>2 DEF do_readiness_check
  <2>3. CASE e.type = "ScheduleRetry" /\ do_schedule_retry(e.service)
    BY <1>1, <2>3 DEF do_schedule_retry
  <2> QED
    BY <1>5, <2>1, <2>2, <2>3
       DEF execute_at_once, do_kill_effect, do_stop_health, do_persist, do_persist_config,
           do_spawn, do_toggle_phpmyadmin
<1> QED
  BY <1>2, <1>3, <1>7, <1>8

(* When an event is handled nothing of the list before it is left to do.   *)
LEMMA IdleHasNothing ==
    ASSUME LInv, Idle
    PROVE  ToDo = {}
<1>1. effects \in Seq(Effect) /\ executed = Len(effects)
  BY DEF LInv, EffectsTyped, Idle
<1>2. executed + 1..Len(effects) = {}
  BY <1>1
<1> QED
  BY <1>2 DEF ToDo

(* Handling an event asks for what the reducer returned, and leaves every  *)
(* other event, poller and timer.                                          *)
LEMMA HandleLeaves ==
    ASSUME LInv, HandleEvent
    PROVE  /\ ToDo = {} /\ StepRight /\ UNCHANGED <<pollers, timers>>
           /\ \A e \in Event : e = Head(queue) \/ e \in Event'
           /\ \A e : Asks(effects', e) => e \in ToDo'
           /\ Head(queue) \in Message /\ reducer(Head(queue)) /\ loop = "running"
<1>1. ToDo = {} /\ UNCHANGED <<pollers, timers>> /\ executed' = 0 /\ queue # <<>>
      /\ reducer(Head(queue)) /\ loop = "running" /\ Head(queue) \in Message
      /\ queue' = Tail(queue) \o tick_probe(Head(queue)) /\ tick_probe(Head(queue)) \in Seq(Message)
  BY IdleHasNothing, QueueTyped DEF HandleEvent, threads
<1>2. StepRight
  BY HandleKeepsTypes, StepsRight DEF LInv
<1>3. \A e \in Event : e = Head(queue) \/ e \in Event'
  BY <1>1, TakesOne
<1>4. \A e : Asks(effects', e) => e \in ToDo'
  BY <1>1 DEF Asks, ToDo
<1> QED
  BY <1>1, <1>2, <1>3, <1>4

(* The debounce takes nothing out of the channel but a command.            *)
LEMMA DropLeaves ==
    ASSUME LInv, DropCommand
    PROVE  /\ UNCHANGED <<vars, executed, stage, handle, threads, settings, disk, loop>>
           /\ \A e \in Event : e \in Event' \/ e.type \in {"StartService", "StopService", "RestartService"}
<1>1. queue # <<>> /\ queue' = Tail(queue) /\ debounced(Head(queue))
      /\ UNCHANGED <<vars, executed, stage, handle, threads, settings, disk, loop>>
  BY DEF DropCommand, loop_vars
<1>2. <<>> \in Seq(Message) /\ Tail(queue) = Tail(queue) \o <<>>
  BY <1>1, QueueTyped
<1>3. \A e \in Event : e = Head(queue) \/ e \in Event'
  BY <1>1, <1>2, TakesOne
<1> QED
  BY <1>1, <1>3 DEF debounced

-------------------------------------------------------------------------------
(* Retries.  What the promise of CrashedIsRetried says of one service.     *)
Retried(svc) ==
    state[svc] = "Crashed" /\ desired[svc] = "Running" =>
        ScheduleRetry(svc) \in ToDo \/ timers[svc] > 0 \/ Coming("AutoRetry", svc)

(* A retry that is due takes the service out of Crashed.                   *)
LEMMA RetryLeavesCrashed ==
    ASSUME NEW svc \in Service, StateTyped, retry_due(svc), AutoRetry(svc)
    PROVE  state'[svc] # "Crashed"
<1>1. begin_start(svc, last_error[svc], <<>>)
  BY DEF AutoRetry
<1>2. state'[svc] \in {"Starting", "Error"}
  BY <1>1 DEF begin_start, set_starting, leave_to, StateTyped
<1> QED
  BY <1>2

(* A step that leaves the reducer alone keeps a retry coming, if what      *)
(* becomes of its effect or its timer is the next thing on the way.        *)
LEMMA RetriedKept ==
    ASSUME LInv, NEW svc \in Service, Retried(svc), loop = "running",
           UNCHANGED vars, Event \subseteq Event',
           timers[svc] > 0 => timers'[svc] > 0 \/ event("AutoRetry", svc) \in Event',
           ScheduleRetry(svc) \in ToDo => ScheduleRetry(svc) \in ToDo' \/ timers'[svc] > 0
    PROVE  Retried(svc)'
<1>1. event("AutoRetry", svc).type = "AutoRetry" /\ event("AutoRetry", svc).service = svc
  BY DEF event
<1>2. Coming("AutoRetry", svc) => Coming("AutoRetry", svc)'
  BY DEF Coming
<1>3. event("AutoRetry", svc) \in Event' => Coming("AutoRetry", svc)'
  BY <1>1 DEF Coming
<1> QED
  BY <1>2, <1>3 DEF Retried, vars, app, status

(* Once the effect is carried out, the timer runs.                         *)
LEMMA ExecuteRetries ==
    ASSUME LInv, NEW svc \in Service, ExecuteEffect, done,
           ScheduleRetry(svc) = effects[executed + 1]
    PROVE  timers'[svc] > 0
<1> DEFINE e == effects[executed + 1]
<1>1. \/ done /\ execute_at_once(e)
      \/ e.type = "SpawnService" /\ do_spawn(e.service, e.port)
      \/ e.type = "TogglePhpMyAdmin" /\ do_toggle_phpmyadmin(e.enable)
  BY DEF ExecuteEffect, execute
<1>2. e.type = "ScheduleRetry" /\ e.service = svc
  BY DEF ScheduleRetry
<1> HIDE DEF e
<1>3. do_schedule_retry(svc)
  BY <1>1, <1>2 DEF execute_at_once, do_persist, do_persist_config
<1>4. timers \in [Service -> Nat]
  BY DEF LInv, ExecutorTyped
<1> QED
  BY <1>3, <1>4 DEF do_schedule_retry

(* The event the loop takes is the retry itself, or leaves the service     *)
(* where it is and the retry on its way.                                   *)
LEMMA HandleRetries ==
    ASSUME LInv, NEW svc \in Service, Retried(svc), HandleEvent
    PROVE  Retried(svc)'
<1>1. /\ ToDo = {} /\ StepRight /\ UNCHANGED timers /\ reducer(Head(queue))
      /\ \A e \in Event : e = Head(queue) \/ e \in Event'
      /\ \A e : Asks(effects', e) => e \in ToDo'
  BY HandleLeaves
<1>2. SUFFICES ASSUME state'[svc] = "Crashed", desired'[svc] = "Running"
               PROVE  \/ ScheduleRetry(svc) \in ToDo' \/ timers'[svc] > 0
                      \/ Coming("AutoRetry", svc)'
  BY DEF Retried
<1>3. \/ Asks(effects', ScheduleRetry(svc))
      \/ state[svc] = "Crashed" /\ desired[svc] = "Running"
  BY <1>1, <1>2 DEF StepRight, Right, Retries
<1>4. CASE state[svc] = "Crashed" /\ desired[svc] = "Running"
  <2>1. timers[svc] > 0 \/ Coming("AutoRetry", svc)
    BY <1>1, <1>4 DEF Retried
  <2>2. ASSUME NEW e \in Event, e.type = "AutoRetry", e.service = svc
        PROVE  e \in Event'
    <3>1. CASE e = Head(queue)
      <4>1. AutoRetry(svc)
        BY <1>1, <2>2, <3>1 DEF reducer
      <4>2. state'[svc] # "Crashed"
        BY <1>4, <4>1, RetryLeavesCrashed DEF retry_due, LInv, IInv
      <4> QED
        BY <1>2, <4>2
    <3> QED
      BY <1>1, <3>1
  <2> QED
    BY <1>1, <2>1, <2>2 DEF Coming
<1> QED
  BY <1>1, <1>3, <1>4

(* A service that crashed while it is wanted is going to be retried, for   *)
(* as long as the loop runs: the retry is asked for, its timer runs, or    *)
(* its AutoRetry is in the channel (reducer.rs, crash_and_retry, and       *)
(* executor.rs, ScheduleRetry).                                            *)
THEOREM CrashesAreRetried == LoopSpec => []CrashedIsRetried
<1> DEFINE Inv == loop = "running" => \A svc \in Service : Retried(svc)
<1>1. LoopInit => Inv
  BY DEF LoopInit, Init, Retried
<1>2. LInv /\ Inv /\ [LoopNext]_all_vars => Inv'
  <2> SUFFICES ASSUME LInv, Inv, [LoopNext]_all_vars, loop' = "running", NEW svc \in Service
               PROVE  Retried(svc)'
    OBVIOUS
  <2>1. CASE HandleEvent
    BY <2>1, HandleLeaves, HandleRetries
  <2>2. CASE ExecuteEffect
    BY <2>2, ExecuteLeaves, ExecuteRetries, RetriedKept
  <2>3. CASE DropCommand
    <3>1. Coming("AutoRetry", svc) => Coming("AutoRetry", svc)'
      BY <2>3, DropLeaves DEF Coming
    <3>2. UNCHANGED <<vars, executed, timers, loop>>
      BY <2>3, DropLeaves DEF threads
    <3> QED
      BY <3>1, <3>2 DEF Retried, ToDo, vars, app, status
  <2>4. CASE Shutdown
    BY <2>4 DEF Shutdown
  <2>5. CASE OutsideStep
    <3>1. UNCHANGED <<vars, executed, loop>> /\ Event \subseteq Event'
          /\ (timers[svc] > 0 => timers'[svc] > 0 \/ event("AutoRetry", svc) \in Event')
      BY <2>5, OutsideLeaves
    <3>2. ToDo' = ToDo
      BY <3>1 DEF ToDo, vars
    <3> QED
      BY <3>1, <3>2, RetriedKept
  <2>6. CASE UNCHANGED all_vars
    BY <2>6 DEF all_vars, machine, loop_vars, threads, vars, app, status, Retried, ToDo, Coming, Event
  <2> QED
    BY <2>1, <2>2, <2>3, <2>4, <2>5, <2>6 DEF LoopNext, LoopStep, OutsideStep
<1>3. Inv => CrashedIsRetried
  BY DEF Retried, CrashedIsRetried
<1> QED
  BY <1>1, <1>2, <1>3, LoopInductive, PTL DEF LoopSpec

-------------------------------------------------------------------------------
(* Starts.  What the promise of StartingResolves says of one service.      *)
Polled(svc) == \E p \in pollers : p.service = svc /\ p.attempt = attempt[svc]
Answered(svc) ==
    \E e \in Event : /\ e.type \in {"ProcessReady", "ReadinessTimeout"}
                    /\ e.service = svc /\ e.attempt = attempt[svc]
Decided(svc) ==
    state[svc] = "Starting" =>
        \/ StartReadinessCheck(svc, assigned[svc], attempt[svc]) \in ToDo
        \/ Polled(svc) \/ Answered(svc)

(* The answer to the attempt that is under way ends it.                    *)
LEMMA AnswerLeavesStarting ==
    ASSUME NEW svc \in Service, StateTyped, state[svc] = "Starting",
           ProcessReady(svc, attempt[svc]) \/ ReadinessTimeout(svc, attempt[svc])
    PROVE  state'[svc] # "Starting"
<1>1. of_this_attempt(svc, attempt[svc])
  BY DEF of_this_attempt
<1>2. state' = [state EXCEPT ![svc] = "Running"] \/ crash_and_retry(svc)
  BY <1>1 DEF ProcessReady, ReadinessTimeout
<1>3. state'[svc] \in {"Running", "Crashed", "Error"}
  BY <1>2 DEF crash_and_retry, leave_to, StateTyped
<1> QED
  BY <1>3

(* The same of the readiness check: its effect, its poller, its report.    *)
LEMMA DecidedKept ==
    ASSUME LInv, NEW svc \in Service, Decided(svc), loop = "running",
           UNCHANGED vars, Event \subseteq Event',
           \A p \in pollers : p \in pollers' \/ poller_report("ProcessReady", p) \in Event'
                             \/ poller_report("ReadinessTimeout", p) \in Event',
           StartReadinessCheck(svc, assigned[svc], attempt[svc]) \in ToDo =>
               \/ StartReadinessCheck(svc, assigned[svc], attempt[svc]) \in ToDo'
               \/ Polled(svc)'
    PROVE  Decided(svc)'
<1>1. UNCHANGED <<state, assigned, attempt>>
  BY DEF vars, app, status, ledger
<1>2. Answered(svc) => Answered(svc)'
  BY <1>1 DEF Answered
<1>3. Polled(svc) => Polled(svc)' \/ Answered(svc)'
  <2>1. SUFFICES ASSUME NEW p \in pollers, p.service = svc, p.attempt = attempt[svc], p \notin pollers'
                 PROVE  Answered(svc)'
    BY <1>1 DEF Polled
  <2>2. PICK type \in {"ProcessReady", "ReadinessTimeout"} : poller_report(type, p) \in Event'
    BY <2>1
  <2>3. /\ poller_report(type, p).type = type /\ poller_report(type, p).service = svc
        /\ poller_report(type, p).attempt = attempt[svc]
    BY <2>1 DEF poller_report
  <2> QED
    BY <1>1, <2>2, <2>3 DEF Answered
<1> QED
  BY <1>1, <1>2, <1>3 DEF Decided

(* Once the effect is carried out, the poller runs.                        *)
LEMMA ExecuteChecks ==
    ASSUME LInv, NEW svc \in Service, ExecuteEffect, done,
           StartReadinessCheck(svc, assigned[svc], attempt[svc]) = effects[executed + 1]
    PROVE  Polled(svc)'
<1> DEFINE e == effects[executed + 1]
<1>1. /\ \/ done /\ execute_at_once(e)
         \/ e.type = "SpawnService" /\ do_spawn(e.service, e.port)
         \/ e.type = "TogglePhpMyAdmin" /\ do_toggle_phpmyadmin(e.enable)
      /\ attempt' = attempt
  BY DEF ExecuteEffect, execute, vars, app, ledger
<1>2. e.type = "StartReadinessCheck" /\ e.service = svc /\ e.attempt = attempt[svc]
  BY DEF StartReadinessCheck
<1> HIDE DEF e
<1>3. do_readiness_check(svc, e.port, attempt[svc])
  BY <1>1, <1>2 DEF execute_at_once
<1> DEFINE p == [service |-> svc, port |-> e.port, attempt |-> attempt[svc]]
<1>4. p \in pollers' /\ p.service = svc /\ p.attempt = attempt'[svc]
  BY <1>1, <1>3 DEF do_readiness_check
<1> QED
  BY <1>4 DEF Polled

(* The event the loop takes decides the start, begins another that is      *)
(* checked, or is about something else.                                    *)
LEMMA HandleChecks ==
    ASSUME LInv, NEW svc \in Service, Decided(svc), HandleEvent
    PROVE  Decided(svc)'
<1>1. /\ ToDo = {} /\ StepRight /\ UNCHANGED pollers /\ reducer(Head(queue))
      /\ \A e \in Event : e = Head(queue) \/ e \in Event'
      /\ \A e : Asks(effects', e) => e \in ToDo'
  BY HandleLeaves
<1>2. SUFFICES ASSUME state'[svc] = "Starting"
               PROVE  \/ StartReadinessCheck(svc, assigned'[svc], attempt'[svc]) \in ToDo'
                      \/ Polled(svc)' \/ Answered(svc)'
  BY DEF Decided
<1>3. \/ Asks(effects', StartReadinessCheck(svc, assigned'[svc], attempt'[svc]))
      \/ state[svc] = "Starting" /\ attempt'[svc] = attempt[svc]
  BY <1>1, <1>2 DEF StepRight, Right, Checks, SameAttempt
<1>4. CASE state[svc] = "Starting" /\ attempt'[svc] = attempt[svc]
  <2>1. Polled(svc) \/ Answered(svc)
    BY <1>1, <1>4 DEF Decided
  <2>2. ASSUME NEW e \in Event, e.type \in {"ProcessReady", "ReadinessTimeout"},
               e.service = svc, e.attempt = attempt[svc]
        PROVE  e \in Event'
    <3>1. CASE e = Head(queue)
      <4>1. ProcessReady(svc, attempt[svc]) \/ ReadinessTimeout(svc, attempt[svc])
        BY <1>1, <2>2, <3>1 DEF reducer
      <4>2. state'[svc] # "Starting"
        BY <1>4, <4>1, AnswerLeavesStarting DEF LInv, IInv
      <4> QED
        BY <1>2, <4>2
    <3> QED
      BY <1>1, <3>1
  <2>3. Answered(svc) => Answered(svc)'
    BY <1>4, <2>2 DEF Answered
  <2>4. Polled(svc) => Polled(svc)'
    BY <1>1, <1>4 DEF Polled
  <2> QED
    BY <2>1, <2>3, <2>4
<1> QED
  BY <1>1, <1>3, <1>4

(* A start that is under way is always decided by somebody: its readiness  *)
(* check is asked for, a poller with its token runs, or the answer is in   *)
(* the channel (executor.rs, StartReadinessCheck; reducer.rs, the attempt  *)
(* token).  No service is left in Starting, not by a failed spawn and not  *)
(* by a token that has wrapped around.                                     *)
THEOREM StartsAreDecided == LoopSpec => []StartingResolves
<1> DEFINE Inv == loop = "running" => \A svc \in Service : Decided(svc)
<1>1. LoopInit => Inv
  BY DEF LoopInit, Init, Decided
<1>2. LInv /\ Inv /\ [LoopNext]_all_vars => Inv'
  <2> SUFFICES ASSUME LInv, Inv, [LoopNext]_all_vars, loop' = "running", NEW svc \in Service
               PROVE  Decided(svc)'
    OBVIOUS
  <2>1. CASE HandleEvent
    BY <2>1, HandleLeaves, HandleChecks
  <2>2. CASE ExecuteEffect
    BY <2>2, ExecuteLeaves, ExecuteChecks, DecidedKept
  <2>3. CASE DropCommand
    <3>1. UNCHANGED <<vars, executed, pollers, loop, state, assigned, attempt>>
      BY <2>3, DropLeaves DEF threads, vars, app, status, ledger
    <3>2. Answered(svc) => Answered(svc)'
      BY <2>3, <3>1, DropLeaves DEF Answered
    <3> QED
      BY <3>1, <3>2 DEF Decided, ToDo, Polled, vars
  <2>4. CASE Shutdown
    BY <2>4 DEF Shutdown
  <2>5. CASE OutsideStep
    <3>1. /\ UNCHANGED <<vars, executed, loop>> /\ Event \subseteq Event'
          /\ \A p \in pollers : p \in pollers' \/ poller_report("ProcessReady", p) \in Event'
                                \/ poller_report("ReadinessTimeout", p) \in Event'
      BY <2>5, OutsideLeaves
    <3>2. ToDo' = ToDo
      BY <3>1 DEF ToDo, vars
    <3> QED
      BY <3>1, <3>2, DecidedKept
  <2>6. CASE UNCHANGED all_vars
    BY <2>6 DEF all_vars, machine, loop_vars, threads, vars, app, status, ledger, Decided, ToDo,
                Polled, Answered, Event
  <2> QED
    BY <2>1, <2>2, <2>3, <2>4, <2>5, <2>6 DEF LoopNext, LoopStep, OutsideStep
<1>3. Inv => StartingResolves
  BY DEF Decided, Polled, Answered, StartingResolves
<1> QED
  BY <1>1, <1>2, <1>3, LoopInductive, PTL DEF LoopSpec
-------------------------------------------------------------------------------
(* The user's wish.  Whatever changes what is wanted asks to save it, but  *)
(* for RestartService, which the instances of WishIsSaved do without.      *)
SavesCanBeTrusted == "RestartService" \notin UserCommands /\ "write fails" \notin Faults

(* A start that is obeyed is saved, with and without a port to be had.     *)
LEMMA StartsPersist ==
    ASSUME LInv, NEW e \in Message, e.type = "StartService", reducer(e), state[e.service] \in Startable
    PROVE  Asks(effects', PersistDesiredState)
<1> DEFINE svc == e.service
           port == allocate_port(home, assigned, {}, svc)
<1>1. StateTyped /\ svc \in Service /\ StartService(svc)
  BY DEF LInv, IInv, reducer, Message, Command, ServiceMessage, ExitMessage, PortMessage,
         PollerMessage, FilesMessage, SwitchMessage, TickMessage
<1> HIDE DEF svc
<1>2. begin_start(svc, FALSE, <<PersistDesiredState>>)
  BY <1>1 DEF StartService, svc
<1>3. <<PersistDesiredState>> \in Seq(Effect) /\ Asks(<<PersistDesiredState>>, PersistDesiredState)
  BY EffectTypes, AsksOne
<1>4. CASE port = NoPort
  BY <1>2, <1>3, <1>4 DEF begin_start
<1>5. CASE port # NoPort
  <2>1. port \in Port
    BY <1>1, <1>5, AllocateIsFree DEF StateTyped, MaybePort
  <2>2. /\ effects' = spawn(svc, port) \o <<PersistDesiredState>>
        /\ attempt'[svc] \in 0..AttemptSpace - 1
    BY <1>1, <1>2, <1>5, BeginStart DEF begin_start, LInv, IInv
  <2> HIDE DEF port
  <2>3. spawn(svc, port) \in Seq(Effect)
    BY <1>1, <2>1, <2>2, SpawnTyped
  <2> QED
    BY <1>3, <2>2, <2>3, AsksConcat
<1> QED
  BY <1>4, <1>5

(* Without a restart, who changes a wish asks for it to be saved.          *)
LEMMA WishesAsk ==
    ASSUME LInv, SavesCanBeTrusted, NEW e \in Message, reducer(e)
    PROVE  desired' = desired \/ Asks(effects', PersistDesiredState)
<1>1. StateTyped /\ ActiveIsDesired /\ e.type # "RestartService"
  <2>1. StateTyped /\ ActiveIsDesired
    BY DEF LInv, IInv, LocalInv, ActiveIsDesired
  <2>2. e.type # "RestartService"
    BY DEF SavesCanBeTrusted, Message, Command, ServiceMessage, ExitMessage, PortMessage,
           PollerMessage, FilesMessage, SwitchMessage, TickMessage
  <2> QED
    BY <2>1, <2>2
<1>2. CASE UNCHANGED desired
  BY <1>2
<1>3. CASE e.type = "StartService"
  <2>1. StartService(e.service)
    BY <1>3 DEF reducer
  <2> QED
    BY <1>2, <1>3, <2>1, StartsPersist DEF StartService, ignored, app, status
<1>4. CASE e.type = "StopService"
  <2>1. e.service \in Service /\ StopService(e.service)
    BY <1>4 DEF reducer, Message, Command, ServiceMessage, ExitMessage, PortMessage,
                PollerMessage, FilesMessage, SwitchMessage, TickMessage
  <2> DEFINE svc == e.service
  <2> HIDE DEF svc
  <2>2. CASE effects' = kill(svc) \o <<PersistDesiredState>>
    <3>1. kill(svc) \in Seq(Effect) /\ <<PersistDesiredState>> \in Seq(Effect)
      BY <2>1, EffectTypes DEF svc
    <3> QED
      BY <2>2, <3>1, AsksConcat, AsksOne
  <2>3. CASE effects' = <<PersistDesiredState>>
    BY <2>3, AsksOne
  <2>4. CASE ignored
    BY <1>2, <2>4 DEF ignored, app, status
  <2> QED
    BY <2>1, <2>2, <2>3, <2>4 DEF StopService, stop_effects, svc
<1>5. CASE e.type = "ShutdownAll"
  <2>1. ShutdownAll
    BY <1>5 DEF reducer
  <2>2. ActiveServices \in SUBSET Service
    BY DEF ActiveServices
  <2>3. kill_all(ActiveServices) \in Seq(Effect) /\ <<PersistDesiredState>> \in Seq(Effect)
    BY <2>2, KillAllTyped, EffectTypes
  <2> QED
    BY <2>1, <2>3, AsksConcat, AsksOne DEF ShutdownAll
<1>6. ASSUME NEW S, NEW first, restart_up(S, first)
      PROVE  desired' = desired
  <2>1. \A svc \in Service : desired'[svc] = desired[svc]
    BY <1>1, <1>6 DEF restart_up, ActiveServices, ActiveIsDesired
  <2>2. desired' = [svc \in Service |-> desired'[svc]] /\ desired = [svc \in Service |-> desired[svc]]
    BY <1>1, <1>6 DEF restart_up, StateTyped
  <2> QED
    BY <2>1, <2>2
<1>7. CASE e.type \in {"ConfigsReconciled", "SetDocumentRoot"}
  BY <1>6, <1>7 DEF reducer, ConfigsReconciled, SetDocumentRoot
<1>8. CASE e.type \in {"ProcessReady", "ReadinessTimeout", "ProcessExit", "ProcessSpawnFailed",
                       "AutoRetry"}
  BY <1>2, <1>8
     DEF reducer, ProcessReady, ReadinessTimeout, ProcessExit, ProcessSpawnFailed, AutoRetry,
         crash_and_retry, ignored, app, status
<1>9. CASE e.type \in {"HealthCheckPass", "HealthCheckFail", "PortUnavailable"}
  BY <1>2, <1>9
     DEF reducer, HealthCheckPass, HealthCheckFail, PortUnavailable, crash_and_retry, ignored,
         app, status
<1>10. CASE e.type \in {"ConfigReloaded", "TogglePhpMyAdmin", "PhpMyAdminToggled",
                        "PhpMyAdminDirChanged", "Tick"}
  BY <1>2, <1>10
     DEF reducer, ConfigReloaded, TogglePhpMyAdmin, PhpMyAdminToggled, PhpMyAdminDirChanged, Tick,
         ignored, app, status
<1> QED
  BY <1>1, <1>3, <1>4, <1>5, <1>7, <1>8, <1>9, <1>10 DEF reducer

(* A service in Error stays there, in the attempt that failed, until the   *)
(* user starts or stops it, and either is saved.                           *)
LEMMA ErrorsStay ==
    ASSUME LInv, SavesCanBeTrusted, NEW e \in Message, reducer(e),
           NEW svc \in Service, state[svc] = "Error"
    PROVE  \/ Asks(effects', PersistDesiredState)
           \/ desired' = desired /\ state'[svc] = "Error" /\ attempt'[svc] = attempt[svc]
<1> SUFFICES ASSUME ~Asks(effects', PersistDesiredState)
             PROVE  state'[svc] = "Error" /\ attempt'[svc] = attempt[svc]
  BY WishesAsk
<1>1. StateTyped /\ e.type # "RestartService"
  <2>1. e.type # "RestartService"
    BY DEF SavesCanBeTrusted, Message, Command, ServiceMessage, ExitMessage, PortMessage,
           PollerMessage, FilesMessage, SwitchMessage, TickMessage
  <2> QED
    BY <2>1 DEF LInv, IInv
<1>2. CASE UNCHANGED <<state, attempt>>
  BY <1>2
<1>3. ASSUME NEW t, NEW err, NEW then, begin_start(t, err, then), state[t] # "Error"
      PROVE  state'[svc] = "Error" /\ attempt'[svc] = attempt[svc]
  BY <1>1, <1>3 DEF begin_start, assign, set_starting, leave_to, release, StateTyped
<1>4. ASSUME NEW t, crash_and_retry(t), state[t] # "Error"
      PROVE  state'[svc] = "Error" /\ attempt'[svc] = attempt[svc]
  BY <1>1, <1>4 DEF crash_and_retry, keep_or_release, leave_to, release, StateTyped
<1>5. ASSUME NEW t, NEW st, leave_to(t, st), state[t] # "Error" \/ st = "Error", UNCHANGED attempt
      PROVE  state'[svc] = "Error" /\ attempt'[svc] = attempt[svc]
  BY <1>1, <1>5 DEF leave_to, StateTyped
<1>6. ASSUME NEW S \in SUBSET ActiveServices, stopping(S), UNCHANGED attempt
      PROVE  state'[svc] = "Error" /\ attempt'[svc] = attempt[svc]
  BY <1>6 DEF stopping, ActiveServices, Active
<1>7. CASE e.type = "StartService"
  <2>1. StartService(e.service)
    BY <1>7 DEF reducer
  <2>2. CASE state[e.service] # "Error"
    BY <1>2, <1>3, <2>1, <2>2 DEF StartService, ignored, app, status, ledger
  <2>3. CASE state[e.service] = "Error"
    BY <1>7, <2>3, StartsPersist DEF Startable
  <2> QED
    BY <2>2, <2>3
<1>8. CASE e.type = "StopService"
  <2>1. StopService(e.service)
    BY <1>8 DEF reducer
  <2>2. CASE effects' = <<PersistDesiredState>>
    BY <2>2, AsksOne
  <2>3. CASE ~(effects' = <<PersistDesiredState>>)
    BY <1>2, <1>5, <2>1, <2>3 DEF StopService, ignored, app, status, ledger, Active
  <2> QED
    BY <2>2, <2>3
<1>9. CASE e.type \in {"ShutdownAll", "ConfigsReconciled", "SetDocumentRoot"}
  <2>1. \E S \in SUBSET ActiveServices : stopping(S) /\ UNCHANGED attempt
    BY <1>9 DEF reducer, ShutdownAll, ConfigsReconciled, SetDocumentRoot, restart_up, ledger
  <2> QED
    BY <1>6, <2>1
<1>10. CASE e.type \in {"ProcessReady", "ReadinessTimeout"}
  <2>1. ProcessReady(e.service, e.attempt) \/ ReadinessTimeout(e.service, e.attempt)
    BY <1>10 DEF reducer
  <2> QED
    BY <1>1, <1>2, <1>4, <2>1
       DEF ProcessReady, ReadinessTimeout, of_this_attempt, ignored, app, status, ledger, StateTyped
<1>11. CASE e.type = "ProcessExit"
  <2>1. ProcessExit(e.service)
    BY <1>11 DEF reducer
  <2> QED
    BY <1>2, <1>3, <1>4, <1>5, <2>1 DEF ProcessExit, release, ignored, app, status, ledger, Active
<1>12. CASE e.type = "AutoRetry"
  <2>1. AutoRetry(e.service)
    BY <1>12 DEF reducer
  <2> QED
    BY <1>2, <1>3, <2>1 DEF AutoRetry, retry_due, ignored, app, status, ledger
<1>13. CASE e.type = "ProcessSpawnFailed"
  <2>1. ProcessSpawnFailed(e.service)
    BY <1>13 DEF reducer
  <2> QED
    BY <1>5, <2>1 DEF ProcessSpawnFailed, release
<1>14. CASE e.type \in {"HealthCheckPass", "HealthCheckFail"}
  <2>1. HealthCheckPass(e.service) \/ HealthCheckFail(e.service)
    BY <1>14 DEF reducer
  <2> QED
    BY <1>2, <1>4, <2>1 DEF HealthCheckPass, HealthCheckFail, ignored, app, status, ledger
<1>15. CASE e.type = "PortUnavailable"
  <2>1. PortUnavailable(e.service, e.port)
    BY <1>15 DEF reducer
  <2> QED
    BY <1>1, <1>2, <1>5, <2>1
       DEF PortUnavailable, assign, release, ignored, app, status, ledger, StateTyped
<1>16. CASE e.type \in {"ConfigReloaded", "TogglePhpMyAdmin", "PhpMyAdminToggled",
                         "PhpMyAdminDirChanged", "Tick"}
  BY <1>2, <1>16
     DEF reducer, ConfigReloaded, TogglePhpMyAdmin, PhpMyAdminToggled, PhpMyAdminDirChanged, Tick,
         ignored, app, status, ledger
<1> QED
  BY <1>1, <1>7, <1>8, <1>9, <1>10, <1>11, <1>12, <1>13, <1>14, <1>15, <1>16 DEF reducer

(* What is wanted is on disk, or is going to be before the next event, but *)
(* for the wish that main() dropped for MySQL.                             *)
WishOnDisk(svc) ==
    saved.desired[svc] = desired[svc] \/ (Unprovisioned(svc) /\ desired[svc] = "Stopped")
WishKnown == PersistDesiredState \in ToDo \/ \A svc \in Service : WishOnDisk(svc)

(* Once the effect is carried out, the file says what is wanted.           *)
LEMMA ExecuteSaves ==
    ASSUME LInv, SavesCanBeTrusted, WishKnown, ExecuteEffect
    PROVE  WishKnown'
<1> DEFINE e == effects[executed + 1]
<1>1. /\ \/ done /\ execute_at_once(e)
         \/ e.type = "SpawnService" /\ do_spawn(e.service, e.port)
         \/ e.type = "TogglePhpMyAdmin" /\ do_toggle_phpmyadmin(e.enable)
      /\ UNCHANGED vars
      /\ \A f \in ToDo : f \in ToDo' \/ (done /\ f = e)
  BY ExecuteLeaves DEF ExecuteEffect, execute
<1> HIDE DEF e
<1>2. desired' = desired /\ ~fault("write fails") /\ PersistDesiredState.type = "PersistDesiredState"
  BY <1>1 DEF vars, app, status, SavesCanBeTrusted, fault, PersistDesiredState
<1>3. CASE done /\ e.type = "PersistDesiredState" /\ do_persist
  <2>1. saved' = [desired |-> desired, phpmyadmin_enabled |-> phpmyadmin_enabled]
    BY <1>2, <1>3 DEF do_persist
  <2> QED
    BY <1>2, <2>1 DEF WishKnown, WishOnDisk
<1>4. CASE e.type # "PersistDesiredState"
  <2>1. saved' = saved
    BY <1>1, <1>4
       DEF execute_at_once, do_kill_effect, do_readiness_check, do_stop_health, do_schedule_retry,
           do_persist_config, do_spawn, do_toggle_phpmyadmin, settings
  <2> QED
    BY <1>1, <1>2, <1>4, <2>1 DEF WishKnown, WishOnDisk, Unprovisioned, vars, app, status, ledger
<1> QED
  BY <1>1, <1>3, <1>4 DEF execute_at_once

(* What rampp.state would restore after a power cut is what the user last  *)
(* wanted: it is saved before the next event is looked at, and nothing but *)
(* the user changes it (reducer.rs, PersistDesiredState; executor.rs,      *)
(* persist_desired_state).  The one exception is the wish for a MySQL that *)
(* main() could not provision, until the next save (main.rs:211-217).      *)
THEOREM WishesAreSaved ==
    ASSUME SavesCanBeTrusted
    PROVE  LoopSpec => []WishIsSaved
<1>1. LoopInit => WishKnown
  <2> SUFFICES ASSUME LoopInit, NEW svc \in Service
               PROVE  WishOnDisk(svc)
    BY DEF WishKnown
  <2>1. CASE state[svc] = "Error"
    BY <2>1 DEF LoopInit, Init, WishOnDisk, Unprovisioned
  <2>2. CASE state[svc] # "Error"
    BY <2>2 DEF LoopInit, saved_before_drop, WishOnDisk
  <2> QED
    BY <2>1, <2>2
<1>2. LInv /\ WishKnown /\ [LoopNext]_all_vars => WishKnown'
  <2> SUFFICES ASSUME LInv, WishKnown, [LoopNext]_all_vars
               PROVE  WishKnown'
    OBVIOUS
  <2>1. CASE HandleEvent
    <3>1. /\ ToDo = {} /\ Head(queue) \in Message /\ reducer(Head(queue))
          /\ Asks(effects', PersistDesiredState) => PersistDesiredState \in ToDo'
      BY <2>1, HandleLeaves
    <3>2. saved' = saved
      BY <2>1 DEF HandleEvent, settings
    <3>3. CASE Asks(effects', PersistDesiredState)
      BY <3>1, <3>3 DEF WishKnown
    <3>4. CASE ~Asks(effects', PersistDesiredState)
      <4>1. desired' = desired
        BY <3>1, <3>4, WishesAsk
      <4>2. \A svc \in Service : Unprovisioned(svc) => Unprovisioned(svc)'
        BY <3>1, <3>4, ErrorsStay DEF Unprovisioned
      <4> QED
        BY <3>1, <3>2, <4>1, <4>2 DEF WishKnown, WishOnDisk
    <3> QED
      BY <3>3, <3>4
  <2>2. CASE ExecuteEffect
    BY <2>2, ExecuteSaves
  <2>3. CASE UNCHANGED <<vars, executed, saved>>
    <3>1. ToDo' = ToDo /\ UNCHANGED <<desired, state, attempt>>
      BY <2>3 DEF ToDo, vars, app, status, ledger
    <3> QED
      BY <2>3, <3>1 DEF WishKnown, WishOnDisk, Unprovisioned
  <2>4. CASE DropCommand \/ Shutdown
    BY <2>3, <2>4 DEF DropCommand, Shutdown, shutdown_and_join, settings
  <2>5. CASE OutsideStep
    BY <2>3, <2>5, OutsideLeaves
  <2>6. CASE UNCHANGED all_vars
    BY <2>3, <2>6 DEF all_vars, machine, settings
  <2> QED
    BY <2>1, <2>2, <2>4, <2>5, <2>6 DEF LoopNext, LoopStep, OutsideStep
<1>3. LInv /\ WishKnown => WishIsSaved
  BY IdleHasNothing DEF WishKnown, WishOnDisk, WishIsSaved
<1> QED
  BY <1>1, <1>2, <1>3, LoopInductive, PTL DEF LoopSpec
-------------------------------------------------------------------------------
(* The configuration.  Every process is started on files that say what the *)
(* reducer's configuration and ledger say, whatever fails and whatever     *)
(* port is retried, where RAMPP owns the files and only the window, not an *)
(* edited rampp.toml (the run reload), changes the configuration.          *)
ConfigFromWindow ==
    {"HttpdConf", "MyIni", "PhpIni"} \subseteq OwnedFiles /\ "ConfigReloaded" \notin UserCommands

SettingsFile == ManagedFile \ {"PhpMyAdminConf"}
DiskRight ==
    \A f \in SettingsFile : disk[f] = desired_configs(home, document_root, assigned, FALSE)[f]

(* The executor's copy follows the reducer's, no spawn comes before it     *)
(* does, and a reconciled disk stays right until the launch.               *)
CopyKnown ==
    /\ exec_home = home
    /\ exec_root = document_root \/ (PersistConfig \in ToDo /\ NoSpawn(effects))
    /\ stage \in {"replace", "launch"} => DiskRight
    /\ Idle => stage = "begin"

(* The configuration changes only by the window, which persists it and     *)
(* spawns nothing in the same step.                                        *)
LEMMA ConfigSteps ==
    ASSUME LInv, ConfigFromWindow, NEW e \in Message, reducer(e)
    PROVE  /\ home' = home
           /\ document_root' = document_root
              \/ (Asks(effects', PersistConfig) /\ NoSpawn(effects'))
<1>1. e.type # "ConfigReloaded"
  BY DEF ConfigFromWindow, Message, Command, ServiceMessage, ExitMessage, PortMessage,
         PollerMessage, FilesMessage, SwitchMessage, TickMessage
<1>2. CASE UNCHANGED config
  BY <1>2 DEF config
<1>3. CASE ignored
  BY <1>2, <1>3 DEF ignored, app
<1>4. CASE e.type = "SetDocumentRoot"
  <2>1. SetDocumentRoot(e.root)
    BY <1>4 DEF reducer
  <2> DEFINE up == {"Apache"} \cap ActiveServices
  <2>2. effects' = <<PersistConfig>> \o kill_all(up) /\ up \in SUBSET Service /\ home' = home
    BY <2>1 DEF SetDocumentRoot, restart_up, ActiveServices
  <2> HIDE DEF up
  <2>3. /\ kill_all(up) \in Seq(Effect) /\ <<PersistConfig>> \in Seq(Effect)
        /\ NoSpawn(kill_all(up)) /\ NoSpawn(<<PersistConfig>>)
        /\ Asks(<<PersistConfig>>, PersistConfig)
    BY <2>2, KillAllTyped, EffectTypes, AsksKillAll, AsksOne, AsksShort DEF Plain
  <2> QED
    BY <2>2, <2>3, AsksConcat, NoSpawnConcat
<1>5. CASE e.type \in {"StartService", "StopService", "RestartService", "ShutdownAll",
                       "ProcessReady", "ReadinessTimeout", "ProcessExit"}
  BY <1>2, <1>3, <1>5
     DEF reducer, StartService, StopService, RestartService, ShutdownAll, ProcessReady,
         ReadinessTimeout, ProcessExit
<1>6. CASE e.type \in {"ProcessSpawnFailed", "AutoRetry", "HealthCheckPass", "HealthCheckFail",
                       "PortUnavailable"}
  BY <1>2, <1>3, <1>6
     DEF reducer, ProcessSpawnFailed, AutoRetry, HealthCheckPass, HealthCheckFail, PortUnavailable
<1>7. CASE e.type \in {"ConfigsReconciled", "TogglePhpMyAdmin", "PhpMyAdminToggled",
                       "PhpMyAdminDirChanged", "Tick"}
  BY <1>2, <1>3, <1>7
     DEF reducer, ConfigsReconciled, TogglePhpMyAdmin, PhpMyAdminToggled, PhpMyAdminDirChanged,
         Tick
<1> QED
  BY <1>1, <1>4, <1>5, <1>6, <1>7 DEF reducer

(* The phpMyAdmin switch decides one file only, and conf_of takes the      *)
(* files one by one.                                                       *)
LEMMA SwitchElsewhere ==
    ASSUME NEW ports, NEW root, NEW held, NEW switch, NEW f \in SettingsFile
    PROVE  desired_configs(ports, root, held, switch)[f] = desired_configs(ports, root, held, FALSE)[f]
BY DEF SettingsFile, ManagedFile, desired_configs

(* The settings of a service are those of its files.                       *)
LEMMA ConfByFile ==
    ASSUME NEW svc, NEW a, NEW b, \A f \in SettingsFile : a[f] = b[f]
    PROVE  Settings(conf_of(svc, a)) = Settings(conf_of(svc, b))
<1>1. ASSUME NEW files
      PROVE  Settings(conf_of(svc, files)) =
                 {<<f, files[f]>> : f \in {g \in SettingsFile : Reader(g) = svc}}
  <2>1. \A f \in ManagedFile : <<f, files[f]>>[1] = f
    OBVIOUS
  <2> QED
    BY <2>1 DEF Settings, conf_of, SettingsFile
<1> QED
  BY <1>1

(* A spawn first brings the disk up to the state, or is refused.           *)
LEMMA SpawnReconciles ==
    ASSUME LInv, ConfigFromWindow, exec_home = home, exec_root = document_root, UNCHANGED vars,
           NEW svc \in Service, NEW port, prepare_spawn(svc, port)
    PROVE  stage' = "begin" \/ stage' = "refuse" \/ (stage' = "replace" /\ DiskRight')
<1>1. CASE stage' \in {"begin", "refuse"}
  BY <1>1
<1>2. ASSUME NEW failing, failing = {}, write_configs(phpmyadmin_enabled,
                                                     changed_by(phpmyadmin_enabled, failing))
      PROVE  DiskRight'
  <2> DEFINE want == wanted_configs(phpmyadmin_enabled)
  <2>1. \A f \in SettingsFile : f \in OwnedFiles /\ f \in ManagedFile
    BY DEF ConfigFromWindow, SettingsFile, ManagedFile
  <2>2. \A f \in SettingsFile : disk'[f] = want[f]
    BY <1>2, <2>1 DEF write_configs, changed_by, changed_files, Differing, reconciled
  <2>3. \A f \in SettingsFile :
            want[f] = desired_configs(home, document_root, assigned, FALSE)[f]
    BY SwitchElsewhere DEF wanted_configs
  <2>4. UNCHANGED <<home, document_root, assigned>>
    BY DEF vars, app, config, ledger
  <2> QED
    BY <2>2, <2>3, <2>4 DEF DiskRight
<1> QED
  BY <1>1, <1>2 DEF prepare_spawn, refuse, done, go_on

(* An effect keeps the copy known: what changes the copy is PersistConfig, *)
(* and it makes it the state.                                              *)
LEMMA ExecuteCopies ==
    ASSUME LInv, ConfigFromWindow, CopyKnown, ExecuteEffect
    PROVE  CopyKnown'
<1> DEFINE e == effects[executed + 1]
<1>1. /\ \/ done /\ execute_at_once(e)
         \/ e.type = "SpawnService" /\ do_spawn(e.service, e.port)
         \/ e.type = "TogglePhpMyAdmin" /\ do_toggle_phpmyadmin(e.enable)
      /\ UNCHANGED vars /\ executed < Len(effects)
      /\ \A f \in ToDo : f \in ToDo' \/ (done /\ f = e)
  BY ExecuteLeaves DEF ExecuteEffect, execute
<1>2. e \in Effect /\ Asks(effects, e) /\ Len(effects) \in Nat /\ executed \in Nat
  <2>1. effects \in Seq(Effect) /\ executed \in 0..Len(effects)
    BY DEF LInv, EffectsTyped, LoopTyped
  <2>2. executed + 1 \in 1..Len(effects)
    BY <1>1, <2>1
  <2> QED
    BY <2>1, <2>2 DEF Asks
<1> HIDE DEF e
<1>3. UNCHANGED <<home, document_root, assigned, effects>> /\ PersistConfig.type = "PersistConfig"
  BY <1>1 DEF vars, app, config, ledger, PersistConfig
<1>4. Idle' => stage' = "begin"
  <2>1. CASE done
    BY <2>1 DEF done
  <2>2. CASE UNCHANGED executed
    BY <1>1, <1>2, <1>3, <2>2 DEF Idle
  <2> QED
    BY <1>1, <2>1, <2>2
       DEF do_spawn, prepare_spawn, refuse, go_on, do_toggle_phpmyadmin
<1>5. CASE e.type = "PersistConfig" /\ done /\ do_persist_config
  BY <1>3, <1>4, <1>5 DEF done, do_persist_config, refresh_config, CopyKnown
<1>6. CASE e.type # "PersistConfig"
  <2>1. UNCHANGED <<exec_home, exec_root>>
    BY <1>1, <1>6
       DEF execute_at_once, do_kill_effect, do_readiness_check, do_stop_health, do_schedule_retry,
           do_persist, do_spawn, do_toggle_phpmyadmin, settings
  <2>2. exec_root' = document_root' \/ (PersistConfig \in ToDo' /\ NoSpawn(effects'))
    BY <1>1, <1>3, <1>6, <2>1 DEF CopyKnown
  <2>3. stage' \in {"replace", "launch"} => DiskRight'
    <3>1. CASE stage' \in {"begin", "reconcile"}
      BY <3>1
    <3>2. CASE e.type = "SpawnService" /\ do_spawn(e.service, e.port)
      <4>1. exec_home = home /\ exec_root = document_root /\ e.service \in Service
        BY <1>2, <3>2 DEF CopyKnown, NoSpawn, Effect
      <4>2. CASE prepare_spawn(e.service, e.port)
        BY <1>1, <4>1, <4>2, SpawnReconciles
      <4>3. CASE stage = "replace" /\ go_on("launch") /\ UNCHANGED disk
        BY <1>3, <4>3 DEF CopyKnown, DiskRight
      <4> QED
        BY <3>1, <3>2, <4>2, <4>3 DEF do_spawn, refuse, done
    <3> QED
      BY <1>1, <3>1, <3>2 DEF done, do_toggle_phpmyadmin, go_on
  <2> QED
    BY <1>3, <1>4, <2>1, <2>2, <2>3 DEF CopyKnown
<1> QED
  BY <1>1, <1>5, <1>6 DEF execute_at_once

(* So does the event the loop takes.                                       *)
LEMMA HandleCopies ==
    ASSUME LInv, ConfigFromWindow, CopyKnown, HandleEvent
    PROVE  CopyKnown'
<1>1. /\ ToDo = {} /\ Head(queue) \in Message /\ reducer(Head(queue))
      /\ Asks(effects', PersistConfig) => PersistConfig \in ToDo'
  BY HandleLeaves
<1>2. UNCHANGED <<stage, exec_home, exec_root>> /\ stage = "begin"
  BY DEF HandleEvent, settings, CopyKnown
<1>3. exec_home = home /\ exec_root = document_root
  BY <1>1 DEF CopyKnown
<1> QED
  BY <1>1, <1>2, <1>3, ConfigSteps DEF CopyKnown

(* Nothing else touches the copy.                                          *)
LEMMA CopyKept ==
    ASSUME CopyKnown, UNCHANGED <<vars, executed, stage, disk, exec_home, exec_root>>
    PROVE  CopyKnown'
<1>1. UNCHANGED <<home, document_root, assigned, effects>>
  BY DEF vars, app, config, ledger
<1>2. ToDo' = ToDo
  BY <1>1 DEF ToDo
<1> QED
  BY <1>1, <1>2 DEF CopyKnown, DiskRight, Idle

(* Every step keeps the copy known.                                        *)
LEMMA CopyStep ==
    ASSUME LInv, ConfigFromWindow, CopyKnown, [LoopNext]_all_vars
    PROVE  CopyKnown'
<1>1. CASE DropCommand
  BY <1>1, CopyKept DEF DropCommand, settings
<1>2. CASE Shutdown
  BY <1>2, CopyKept DEF Shutdown, shutdown_and_join, settings
<1>3. CASE OutsideStep
  BY <1>3, CopyKept, OutsideLeaves
<1>4. CASE UNCHANGED all_vars
  BY <1>4, CopyKept DEF all_vars, machine, settings
<1> QED
  BY <1>1, <1>2, <1>3, <1>4, HandleCopies, ExecuteCopies DEF LoopNext, LoopStep, OutsideStep

(* A process is only ever brought up by the launch of a spawn.             *)
LEMMA OnlyLaunched ==
    ASSUME LInv, [LoopNext]_all_vars, NEW svc \in Service, Replaced(svc)
    PROVE  /\ stage = "launch" /\ UNCHANGED disk
           /\ handle'[svc].conf = conf_of(svc, disk)
<1>1. DOMAIN handle = Service /\ HandleTyped(handle[svc])
  BY DEF LInv, ExecutorTyped
<1>2. handle'[svc].watcher = "live" /\ (handle[svc].watcher # "live" \/ handle'[svc].born # handle[svc].born)
  BY DEF Replaced, Live
<1>3. handle'[svc] # handle[svc]
  BY <1>2
<1>4. CASE UNCHANGED handle
  BY <1>3, <1>4
<1>5. handle'[svc] # NoHandle
  BY <1>2 DEF NoHandle
<1>6. ASSUME NEW t \in Service, start_health_check(t)
      PROVE  FALSE
  BY <1>1, <1>2, <1>6 DEF start_health_check, HandleTyped
<1>7. CASE HandleEvent
  <2>1. \/ start_health_check(Head(queue).service)
        \/ UNCHANGED handle
    BY <1>7 DEF HandleEvent
  <2>2. start_health_check(Head(queue).service) => Head(queue).service \in Service
    BY <1>1, <1>3 DEF start_health_check
  <2> QED
    BY <1>4, <1>6, <2>1, <2>2
<1>8. CASE ExecuteEffect
  <2> DEFINE e == effects[executed + 1]
  <2>1. /\ \/ done /\ execute_at_once(e)
           \/ e.type = "SpawnService" /\ do_spawn(e.service, e.port)
           \/ e.type = "TogglePhpMyAdmin" /\ do_toggle_phpmyadmin(e.enable)
    BY <1>8 DEF ExecuteEffect, execute
  <2> HIDE DEF e
  <2>2. ~do_kill_effect(e.service)
    BY <1>1, <1>3, <1>5 DEF do_kill_effect
  <2>3. ~do_stop_health(e.service)
    BY <1>1, <1>2 DEF do_stop_health, HandleTyped
  <2>4. CASE do_spawn(e.service, e.port)
    <3>1. CASE handle' = [handle EXCEPT ![e.service] = NoHandle]
      BY <1>1, <1>3, <1>5, <3>1
    <3>2. CASE /\ stage = "launch" /\ UNCHANGED disk
               /\ handle' = [handle EXCEPT ![e.service] = launch(e.service, e.port)]
      <4>1. svc = e.service
        BY <1>1, <1>3, <3>2
      <4> QED
        BY <1>1, <3>2, <4>1 DEF launch
    <3> QED
      BY <1>4, <2>4, <3>1, <3>2 DEF do_spawn, prepare_spawn, refuse
  <2> QED
    BY <1>4, <2>1, <2>2, <2>3, <2>4
       DEF execute_at_once, do_readiness_check, do_schedule_retry, do_persist, do_persist_config,
           do_toggle_phpmyadmin
<1>9. CASE Shutdown
  BY <1>5, <1>9 DEF Shutdown, shutdown_and_join
<1>10. CASE OutsideStep
  <2>1. ASSUME NEW t \in Service, Watcher(t)
        PROVE  FALSE
    <3>1. handle' = [handle EXCEPT ![t].watcher = "gone"]
      BY <2>1 DEF Watcher, ThreadStep, ProcessEnds
    <3>2. svc = t
      BY <1>1, <1>3, <3>1
    <3> QED
      BY <1>1, <1>2, <3>1, <3>2 DEF HandleTyped
  <2>2. ASSUME NEW t \in Service, Poller(t) \/ Timer(t) \/ CheckPasses(t) \/ CheckFails(t)
        PROVE  UNCHANGED handle
    BY <2>2 DEF Poller, Timer, CheckPasses, CheckFails, ThreadStep, PollerReports, TimerFires,
                HealthPasses, HealthFails
  <2>3. CASE DirChanges \/ TickFires \/ UserCommand
    BY <1>4, <2>3 DEF DirChanges, TickFires, UserCommand
  <2> QED
    BY <1>4, <1>10, <2>1, <2>2, <2>3 DEF OutsideStep
<1>11. CASE DropCommand
  BY <1>4, <1>11 DEF DropCommand
<1>12. CASE UNCHANGED all_vars
  BY <1>4, <1>12 DEF all_vars, machine
<1> QED
  BY <1>7, <1>8, <1>9, <1>10, <1>11, <1>12 DEF LoopNext, LoopStep, OutsideStep

(* A process is started on files that say what the reducer's state says,   *)
(* its configuration and its ledger (executor.rs, do_spawn and             *)
(* persist_config; README: after editing rampp.toml, restart the service). *)
THEOREM SpawnsAreConfigured ==
    ASSUME ConfigFromWindow
    PROVE  LoopSpec => SpawnsFollowConfig
<1>1. LoopInit => CopyKnown
  BY DEF LoopInit, Init, CopyKnown
<1>2. LInv /\ CopyKnown /\ [LoopNext]_all_vars => CopyKnown'
  BY CopyStep
<1>3. LInv /\ CopyKnown /\ [LoopNext]_all_vars =>
          [\A svc \in Service : Replaced(svc) =>
              Settings(handle'[svc].conf) =
                  Settings(conf_of(svc, desired_configs(home, document_root, assigned, FALSE)))]_all_vars
  <2> SUFFICES ASSUME LInv, CopyKnown, [LoopNext]_all_vars, NEW svc \in Service, Replaced(svc)
               PROVE  Settings(handle'[svc].conf) =
                          Settings(conf_of(svc, desired_configs(home, document_root, assigned, FALSE)))
    OBVIOUS
  <2>1. stage = "launch" /\ handle'[svc].conf = conf_of(svc, disk)
    BY OnlyLaunched
  <2>2. DiskRight
    BY <2>1 DEF CopyKnown
  <2> QED
    BY <2>1, <2>2, ConfByFile DEF DiskRight
<1> QED
  BY <1>1, <1>2, <1>3, LoopInductive, PTL DEF LoopSpec, SpawnsFollowConfig
===============================================================================
