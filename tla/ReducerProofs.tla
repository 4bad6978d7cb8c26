----------------------------- MODULE ReducerProofs ----------------------------
(***************************************************************************)
(* What TLAPS proves of Reducer for every set of services, every scan      *)
(* range, retry limit and health threshold, and every order of events.     *)
(***************************************************************************)
EXTENDS Reducer, TLAPS, WellFoundedInduction

USE DEF MaybePort

(* The inductive invariant, one service at a time.  The parts support one  *)
(* another: a retry is on the account only because what is up is wanted.   *)
LocalInv(svc) ==
    /\ state[svc] \in Active => desired[svc] = "Running"
    /\ started_at[svc] <=> state[svc] \in Active
    /\ retry_count[svc] <= MAX_RETRIES
    /\ state[svc] = "Crashed" /\ desired[svc] = "Running" => retry_count[svc] > 0
    /\ state[svc] = "Running" => health_fail_streak[svc] < HEALTH_FAIL_THRESHOLD
    /\ state[svc] \in {"Starting", "Running", "Stopping", "Crashed"} =>
           assigned[svc] # NoPort /\ assigned[svc] \notin unavailable[svc]

IInv == StateTyped /\ PortsDistinct /\ \A svc \in Service : LocalInv(svc)

(* A step leaves what LocalInv says of this service alone.                 *)
SameAt(svc) ==
    /\ state'[svc] = state[svc] /\ desired'[svc] = desired[svc]
    /\ started_at'[svc] = started_at[svc] /\ retry_count'[svc] = retry_count[svc]
    /\ health_fail_streak'[svc] = health_fail_streak[svc]
    /\ assigned'[svc] = assigned[svc] /\ unavailable'[svc] = unavailable[svc]

-------------------------------------------------------------------------------
(* The bounds of Port (u16, unprivileged), and that NoPort is outside it.  *)
LEMMA PortBounds ==
    /\ MinPort \in Nat /\ MaxPort \in Nat
    /\ \A p \in Port : p \in Nat /\ p >= MinPort /\ p <= MaxPort
    /\ \A p \in Nat : p >= MinPort /\ p <= MaxPort => p \in Port
    /\ NoPort \notin Port
<1>1. MinPort \in Nat /\ MaxPort \in Nat /\ NoPort < MinPort
  BY DEF MinPort, MaxPort, NoPort
<1> QED
  BY <1>1 DEF Port

(* The allocator (reducer.rs, allocate_port) returns NoPort or a valid     *)
(* port that is not blacklisted for the service and neither held by nor    *)
(* configured for another one.                                             *)
LEMMA AllocateIsFree ==
    ASSUME NEW h \in HomeConfigs, NEW held \in [Service -> Port \cup {NoPort}],
           NEW unusable, NEW svc \in Service,
           allocate_port(h, held, unusable, svc) # NoPort
    PROVE  /\ allocate_port(h, held, unusable, svc) \in Port
           /\ allocate_port(h, held, unusable, svc) \notin unusable
           /\ \A other \in Service \ {svc} :
                  /\ held[other] # allocate_port(h, held, unusable, svc)
                  /\ h[other] # allocate_port(h, held, unusable, svc)
<1> DEFINE free == FreeCandidates(h, held, unusable, svc)
<1>1. free # {}
  BY DEF allocate_port
<1>2. h[svc] \in Port
  BY ConfigAssumption
<1>3. free \subseteq Port /\ free \subseteq Nat
  <2> SUFFICES ASSUME NEW p \in free
               PROVE  p \in Port /\ p \in Nat
    OBVIOUS
  <2>1. p \in h[svc]..(h[svc] + PORT_SCAN_RANGE) /\ p <= MaxPort
    BY DEF FreeCandidates, ScanCandidates
  <2> QED
    BY <1>2, <2>1, ScanAssumption, PortBounds
<1>4. \E p \in free : \A q \in free : p <= q
  <2> DEFINE R == OpToRel(<, Nat)
  <2>1. \E p \in free : \A q \in free : <<q, p>> \notin R
    <3>1. IsWellFoundedOn(R, Nat)
      BY NatLessThanWellFounded
    <3> HIDE DEF R, free
    <3> QED
      BY <1>1, <1>3, <3>1, WFMin
  <2> HIDE DEF free
  <2>2. PICK p \in free : \A q \in free : <<q, p>> \notin R
    BY <2>1
  <2>3. \A q \in free : ~(q < p)
    BY <1>3, <2>2 DEF OpToRel
  <2> QED
    BY <1>3, <2>3
<1>5. allocate_port(h, held, unusable, svc) \in free
  BY <1>1, <1>4 DEF allocate_port
<1> QED
  BY <1>3, <1>5 DEF FreeCandidates

-------------------------------------------------------------------------------
(* The shape every handler for one service has: the others keep theirs.    *)
LEMMA OneServiceStep ==
    ASSUME IInv, NEW svc \in Service, StateTyped', PortsDistinct', LocalInv(svc)',
           \A t \in Service \ {svc} : SameAt(t)
    PROVE  IInv'
<1>1. ASSUME NEW t \in Service \ {svc} PROVE LocalInv(t)'
  BY DEF IInv, SameAt, LocalInv
<1> QED
  BY <1>1 DEF IInv

(* An event the reducer ignores.                                           *)
LEMMA IgnoredPreserves ==
    ASSUME IInv, UNCHANGED app
    PROVE  IInv'
BY DEF IInv, LocalInv, StateTyped, PortsDistinct, app, status, ledger, config, pma

(* begin_start leaves the service in Starting on a port of its own, or in  *)
(* Error with none, whatever state and ledger it found.                    *)
LEMMA BeginStart ==
    ASSUME StateTyped, PortsDistinct, NEW svc \in Service, NEW err \in BOOLEAN, NEW then,
           begin_start(svc, err, then)
    PROVE  /\ state' \in [Service -> ServiceState]
           /\ started_at' \in [Service -> BOOLEAN]
           /\ last_error' \in [Service -> BOOLEAN]
           /\ assigned' \in [Service -> Port \cup {NoPort}]
           /\ unavailable' \in [Service -> SUBSET Port]
           /\ attempt' \in [Service -> 0..AttemptSpace - 1]
           /\ PortsDistinct'
           /\ state'[svc] \in {"Starting", "Error"}
           /\ started_at'[svc] <=> state'[svc] = "Starting"
           /\ state'[svc] = "Starting" => assigned'[svc] # NoPort /\ unavailable'[svc] = {}
           /\ \A t \in Service \ {svc} :
                  /\ state'[t] = state[t] /\ started_at'[t] = started_at[t]
                  /\ assigned'[t] = assigned[t] /\ unavailable'[t] = unavailable[t]
<1> DEFINE port == allocate_port(home, assigned, {}, svc)
<1>1. next_attempt(attempt[svc]) \in 0..AttemptSpace - 1
  BY AttemptAssumption DEF next_attempt, StateTyped
<1>2. port # NoPort => port \in Port /\ \A t \in Service \ {svc} : assigned[t] # port
  BY AllocateIsFree DEF StateTyped
<1>3. CASE port # NoPort
  <2>1. /\ state' = [state EXCEPT ![svc] = "Starting"]
        /\ started_at' = [started_at EXCEPT ![svc] = TRUE]
        /\ last_error' = [last_error EXCEPT ![svc] = err]
        /\ assigned' = [assigned EXCEPT ![svc] = port]
        /\ attempt' = [attempt EXCEPT ![svc] = next_attempt(attempt[svc])]
        /\ unavailable' = [unavailable EXCEPT ![svc] = {}]
    BY <1>3 DEF begin_start, begin_attempt, set_starting, assign
  <2> HIDE DEF port
  <2>2. PortsDistinct'
    BY <1>2, <1>3, <2>1 DEF PortsDistinct, StateTyped
  <2> QED
    BY <1>1, <1>2, <1>3, <2>1, <2>2, PortBounds DEF StateTyped, ServiceState
<1>4. CASE port = NoPort
  <2>1. /\ state' = [state EXCEPT ![svc] = "Error"]
        /\ started_at' = [started_at EXCEPT ![svc] = FALSE]
        /\ last_error' = [last_error EXCEPT ![svc] = TRUE]
        /\ assigned' = [assigned EXCEPT ![svc] = NoPort]
        /\ attempt' = attempt
        /\ unavailable' = [unavailable EXCEPT ![svc] = {}]
    BY <1>4 DEF begin_start, begin_attempt, leave_to, release, report
  <2>2. PortsDistinct'
    BY <2>1 DEF PortsDistinct, StateTyped
  <2> QED
    BY <2>1, <2>2 DEF StateTyped, ServiceState
<1> QED
  BY <1>3, <1>4

(* crash_and_retry, on a service that is up, ends in Crashed with one more *)
(* retry on the account or in Error with its port released.                *)
LEMMA CrashAndRetry ==
    ASSUME IInv, NEW svc \in Service, state[svc] \in Active, crash_and_retry(svc),
           health_fail_streak' \in [Service -> Nat],
           \A t \in Service \ {svc} : health_fail_streak'[t] = health_fail_streak[t],
           UNCHANGED <<config, pma>>
    PROVE  IInv'
<1>1. /\ desired[svc] = "Running" /\ retry_count[svc] \in Nat
      /\ assigned[svc] # NoPort /\ assigned[svc] \notin unavailable[svc]
      /\ StateTyped /\ PortsDistinct
  BY DEF IInv, LocalInv, Active, StateTyped
<1>2. CASE may_retry(svc)
  <2>1. /\ state' = [state EXCEPT ![svc] = "Crashed"]
        /\ started_at' = [started_at EXCEPT ![svc] = FALSE]
        /\ last_error' = [last_error EXCEPT ![svc] = TRUE]
        /\ retry_count' = [retry_count EXCEPT ![svc] = @ + 1]
        /\ UNCHANGED <<assigned, attempt, desired, unavailable>>
    BY <1>1, <1>2 DEF crash_and_retry, keep_or_release, leave_to, report
  <2>2. StateTyped'
    BY <1>1, <2>1 DEF StateTyped, ServiceState, config, pma
  <2>3. PortsDistinct'
    BY <1>1, <2>1 DEF PortsDistinct
  <2>4. LocalInv(svc)'
    BY <1>1, <1>2, <2>1, RetryAssumption DEF LocalInv, StateTyped, Active, may_retry
  <2>5. \A t \in Service \ {svc} : SameAt(t)
    BY <1>1, <2>1 DEF SameAt, StateTyped
  <2> QED
    BY <2>2, <2>3, <2>4, <2>5, OneServiceStep
<1>3. CASE ~may_retry(svc)
  <2>1. /\ state' = [state EXCEPT ![svc] = "Error"]
        /\ started_at' = [started_at EXCEPT ![svc] = FALSE]
        /\ last_error' = [last_error EXCEPT ![svc] = TRUE]
        /\ retry_count' = [retry_count EXCEPT ![svc] = @]
        /\ assigned' = [assigned EXCEPT ![svc] = NoPort]
        /\ UNCHANGED <<attempt, desired, unavailable>>
    BY <1>1, <1>3 DEF crash_and_retry, keep_or_release, leave_to, report, release
  <2>2. StateTyped'
    BY <1>1, <2>1 DEF StateTyped, ServiceState, config, pma
  <2>3. PortsDistinct'
    BY <1>1, <2>1 DEF PortsDistinct, StateTyped
  <2>4. LocalInv(svc)'
    BY <1>1, <1>3, <2>1 DEF IInv, LocalInv, StateTyped, Active
  <2>5. \A t \in Service \ {svc} : SameAt(t)
    BY <1>1, <2>1 DEF SameAt, StateTyped
  <2> QED
    BY <2>2, <2>3, <2>4, <2>5, OneServiceStep
<1> QED
  BY <1>2, <1>3

(* A begin_start for a wanted service, with the retry count the caller     *)
(* leaves: StartService, RestartService, the restart of ProcessExit and    *)
(* AutoRetry are all of this form.                                         *)
LEMMA AttemptPreserves ==
    ASSUME IInv, NEW svc \in Service, NEW err \in BOOLEAN, NEW then, NEW n \in 0..MAX_RETRIES,
           begin_start(svc, err, then),
           desired' = [desired EXCEPT ![svc] = "Running"],
           retry_count' = [retry_count EXCEPT ![svc] = n],
           UNCHANGED <<health_fail_streak, config, pma>>
    PROVE  IInv'
<1>1. StateTyped /\ PortsDistinct
  BY DEF IInv
<1>2. StateTyped'
  BY <1>1, BeginStart, RetryAssumption DEF StateTyped, DesiredState, config, pma
<1>3. PortsDistinct'
  BY <1>1, BeginStart
<1>4. LocalInv(svc)'
  BY <1>1, BeginStart, RetryAssumption DEF LocalInv, StateTyped, Active
<1>5. \A t \in Service \ {svc} : SameAt(t)
  BY <1>1, BeginStart DEF SameAt, StateTyped
<1> QED
  BY <1>2, <1>3, <1>4, <1>5, OneServiceStep

(* stopping(S) and the choice of desired states, as ShutdownAll,           *)
(* ConfigsReconciled and SetDocumentRoot use them: what is up among S      *)
(* stops, and nothing that stays up becomes unwanted.                      *)
LEMMA StoppingPreserves ==
    ASSUME IInv, NEW S \in SUBSET ActiveServices, stopping(S),
           desired' \in [Service -> DesiredState],
           \A t \in Service \ S :
               desired'[t] = desired[t] \/ (t \notin ActiveServices /\ desired'[t] = "Stopped"),
           UNCHANGED <<retry_count, last_error, health_fail_streak, ledger, home, pma>>,
           document_root' \in DocumentRoots
    PROVE  IInv'
<1>1. StateTyped /\ PortsDistinct /\ \A t \in Service : LocalInv(t)
  BY DEF IInv
<1>2. StateTyped'
  BY <1>1 DEF stopping, StateTyped, ServiceState, ledger, pma
<1>3. PortsDistinct'
  BY <1>1 DEF PortsDistinct, ledger
<1>4. ASSUME NEW t \in Service PROVE LocalInv(t)'
  <2>1. CASE t \in S
    BY <1>1, <2>1 DEF stopping, ActiveServices, LocalInv, Active, StateTyped, ledger
  <2>2. CASE t \notin S
    BY <1>1, <2>2 DEF stopping, ActiveServices, LocalInv, Active, StateTyped, ledger
  <2> QED
    BY <2>1, <2>2
<1> QED
  BY <1>2, <1>3, <1>4 DEF IInv

(* The user's commands.                                                    *)
LEMMA StartPreserves ==
    ASSUME IInv, NEW svc \in Service, StartService(svc)
    PROVE  IInv'
<1>1. CASE state[svc] \in Startable
  <2>1. /\ begin_start(svc, FALSE, <<PersistDesiredState>>)
        /\ desired' = [desired EXCEPT ![svc] = "Running"]
        /\ retry_count' = [retry_count EXCEPT ![svc] = 0]
        /\ UNCHANGED <<health_fail_streak, config, pma>>
    BY <1>1 DEF StartService
  <2>2. 0 \in 0..MAX_RETRIES /\ FALSE \in BOOLEAN
    BY RetryAssumption
  <2> QED
    BY <2>1, <2>2, AttemptPreserves
<1>2. CASE state[svc] \notin Startable
  BY <1>2, IgnoredPreserves DEF StartService, ignored
<1> QED
  BY <1>1, <1>2

LEMMA StopPreserves ==
    ASSUME IInv, NEW svc \in Service, StopService(svc)
    PROVE  IInv'
<1>1. StateTyped /\ PortsDistinct /\ LocalInv(svc)
  BY DEF IInv
<1>2. CASE state[svc] \in Active
  <2>1. StateTyped' /\ PortsDistinct'
    BY <1>1, <1>2 DEF StopService, leave_to, Active, StateTyped, PortsDistinct,
                      ServiceState, DesiredState, ledger, config, pma
  <2>2. LocalInv(svc)' /\ \A t \in Service \ {svc} : SameAt(t)
    BY <1>1, <1>2 DEF StopService, leave_to, Active, StateTyped, LocalInv, SameAt, ledger
  <2> QED
    BY <2>1, <2>2, OneServiceStep
<1>3. CASE state[svc] \in {"Crashed", "Error"}
  <2>1. StateTyped' /\ PortsDistinct'
    BY <1>1, <1>3 DEF StopService, Active, StateTyped, PortsDistinct,
                      ServiceState, DesiredState, ledger, config, pma
  <2>2. LocalInv(svc)' /\ \A t \in Service \ {svc} : SameAt(t)
    BY <1>1, <1>3 DEF StopService, Active, StateTyped, LocalInv, SameAt, ledger
  <2> QED
    BY <2>1, <2>2, OneServiceStep
<1>4. CASE state[svc] \in {"Stopped", "Stopping"}
  BY <1>4, IgnoredPreserves DEF StopService, ignored, Active
<1> QED
  BY <1>1, <1>2, <1>3, <1>4 DEF StopService

LEMMA RestartPreserves ==
    ASSUME IInv, NEW svc \in Service, RestartService(svc)
    PROVE  IInv'
<1>1. StateTyped /\ PortsDistinct /\ LocalInv(svc)
  BY DEF IInv
<1>2. CASE state[svc] \in Active
  <2>1. StateTyped' /\ PortsDistinct'
    BY <1>1, <1>2 DEF RestartService, leave_to, Active, Startable, StateTyped, PortsDistinct,
                      ServiceState, DesiredState, ledger, config, pma
  <2>2. LocalInv(svc)' /\ \A t \in Service \ {svc} : SameAt(t)
    BY <1>1, <1>2 DEF RestartService, leave_to, Active, Startable, StateTyped, LocalInv, SameAt, ledger
  <2> QED
    BY <2>1, <2>2, OneServiceStep
<1>3. CASE state[svc] \in Startable
  <2>1. /\ begin_start(svc, FALSE, <<>>)
        /\ desired' = [desired EXCEPT ![svc] = "Running"]
        /\ retry_count' = [retry_count EXCEPT ![svc] = 0]
        /\ UNCHANGED <<health_fail_streak, config, pma>>
    BY <1>3 DEF RestartService, Active, Startable
  <2>2. 0 \in 0..MAX_RETRIES /\ FALSE \in BOOLEAN
    BY RetryAssumption
  <2> QED
    BY <2>1, <2>2, AttemptPreserves
<1>4. CASE state[svc] = "Stopping"
  <2>1. StateTyped' /\ PortsDistinct'
    BY <1>1, <1>4 DEF RestartService, Active, Startable, StateTyped, PortsDistinct,
                      DesiredState, ledger, config, pma
  <2>2. LocalInv(svc)' /\ \A t \in Service \ {svc} : SameAt(t)
    BY <1>1, <1>4 DEF RestartService, Active, Startable, StateTyped, LocalInv, SameAt, ledger
  <2> QED
    BY <2>1, <2>2, OneServiceStep
<1> QED
  BY <1>2, <1>3, <1>4 DEF RestartService

LEMMA DismissPreserves ==
    ASSUME IInv, NEW svc \in Service, DismissError(svc)
    PROVE  IInv'
BY DEF DismissError, IInv, LocalInv, StateTyped, PortsDistinct, ledger, config, pma

(* What the processes and timers report.                                   *)
LEMMA ReadyPreserves ==
    ASSUME IInv, NEW svc \in Service, NEW n, ProcessReady(svc, n)
    PROVE  IInv'
<1>1. StateTyped /\ PortsDistinct /\ LocalInv(svc)
  BY DEF IInv
<1>2. CASE state[svc] = "Starting" /\ attempt[svc] = n
  <2>1. StateTyped' /\ PortsDistinct'
    <3>1. open_phpmyadmin_on_apache_ready' \in BOOLEAN
      BY <1>1, <1>2 DEF of_this_attempt, ProcessReady, StateTyped
    <3>2. /\ state' = [state EXCEPT ![svc] = "Running"]
          /\ retry_count' = [retry_count EXCEPT ![svc] = 0]
          /\ health_fail_streak' = [health_fail_streak EXCEPT ![svc] = 0]
          /\ UNCHANGED <<desired, last_error, started_at, ledger, config,
                         phpmyadmin_enabled, phpmyadmin_dir_exists>>
      BY <1>2 DEF of_this_attempt, ProcessReady, clear_record
    <3> QED
      BY <1>1, <3>1, <3>2 DEF StateTyped, PortsDistinct, ServiceState, ledger, config
  <2>2. LocalInv(svc)' /\ \A t \in Service \ {svc} : SameAt(t)
    BY <1>1, <1>2, RetryAssumption, HealthAssumption
       DEF of_this_attempt, ProcessReady, clear_record, Active, StateTyped, LocalInv, SameAt, ledger
  <2> QED
    BY <2>1, <2>2, OneServiceStep
<1>3. CASE state[svc] # "Starting" \/ attempt[svc] # n
  BY <1>3, IgnoredPreserves DEF of_this_attempt, ProcessReady, ignored
<1> QED
  BY <1>2, <1>3

LEMMA TimeoutPreserves ==
    ASSUME IInv, NEW svc \in Service, NEW n, ReadinessTimeout(svc, n)
    PROVE  IInv'
<1>1. CASE state[svc] = "Starting" /\ attempt[svc] = n
  BY <1>1, CrashAndRetry DEF of_this_attempt, ReadinessTimeout, IInv, StateTyped, Active
<1>2. CASE state[svc] # "Starting" \/ attempt[svc] # n
  BY <1>2, IgnoredPreserves DEF of_this_attempt, ReadinessTimeout, ignored
<1> QED
  BY <1>1, <1>2

LEMMA ExitPreserves ==
    ASSUME IInv, NEW svc \in Service, ProcessExit(svc)
    PROVE  IInv'
<1>1. StateTyped /\ PortsDistinct /\ LocalInv(svc)
  BY DEF IInv
<1>2. CASE state[svc] = "Stopping" /\ desired[svc] = "Running"
  <2>1. /\ begin_start(svc, last_error[svc], <<>>)
        /\ desired' = [desired EXCEPT ![svc] = "Running"]
        /\ retry_count' = [retry_count EXCEPT ![svc] = 0]
        /\ UNCHANGED <<health_fail_streak, config, pma>>
    BY <1>1, <1>2 DEF ProcessExit, StateTyped, Active, Startable
  <2>2. 0 \in 0..MAX_RETRIES /\ last_error[svc] \in BOOLEAN
    BY RetryAssumption, <1>1 DEF StateTyped
  <2> QED
    BY <2>1, <2>2, AttemptPreserves
<1>3. CASE state[svc] = "Stopping" /\ desired[svc] = "Stopped"
  <2>1. StateTyped' /\ PortsDistinct'
    BY <1>1, <1>3 DEF ProcessExit, leave_to, release, Active, Startable, StateTyped,
                      PortsDistinct, ServiceState, config, pma
  <2>2. LocalInv(svc)' /\ \A t \in Service \ {svc} : SameAt(t)
    BY <1>1, <1>3 DEF ProcessExit, leave_to, release, Active, Startable, StateTyped, LocalInv, SameAt
  <2> QED
    BY <2>1, <2>2, OneServiceStep
<1>4. CASE state[svc] \in Active
  BY <1>1, <1>4, CrashAndRetry DEF ProcessExit, StateTyped, Active, Startable
<1>5. CASE state[svc] \in Startable
  BY <1>5, IgnoredPreserves DEF ProcessExit, ignored, Active, Startable
<1> QED
  BY <1>2, <1>3, <1>4, <1>5 DEF ProcessExit

LEMMA SpawnFailedPreserves ==
    ASSUME IInv, NEW svc \in Service, ProcessSpawnFailed(svc)
    PROVE  IInv'
<1>1. StateTyped /\ PortsDistinct /\ LocalInv(svc)
  BY DEF IInv
<1>2. StateTyped' /\ PortsDistinct'
  BY <1>1 DEF ProcessSpawnFailed, leave_to, release, report, StateTyped, PortsDistinct,
              ServiceState, config, pma
<1>3. LocalInv(svc)' /\ \A t \in Service \ {svc} : SameAt(t)
  BY <1>1 DEF ProcessSpawnFailed, leave_to, release, Active, StateTyped, LocalInv, SameAt
<1> QED
  BY <1>2, <1>3, OneServiceStep

LEMMA AutoRetryPreserves ==
    ASSUME IInv, NEW svc \in Service, AutoRetry(svc)
    PROVE  IInv'
<1>1. StateTyped /\ LocalInv(svc)
  BY DEF IInv
<1>2. CASE retry_due(svc)
  <2>1. /\ desired' = [desired EXCEPT ![svc] = "Running"]
        /\ last_error[svc] \in BOOLEAN
        /\ retry_count[svc] \in 0..MAX_RETRIES
        /\ retry_count' = [retry_count EXCEPT ![svc] = retry_count[svc]]
    BY <1>1, <1>2, RetryAssumption DEF AutoRetry, retry_due, StateTyped, LocalInv
  <2> QED
    BY <1>2, <2>1, AttemptPreserves DEF AutoRetry
<1>3. CASE ~retry_due(svc)
  BY <1>3, IgnoredPreserves DEF AutoRetry, ignored
<1> QED
  BY <1>2, <1>3

LEMMA FatalPreserves ==
    ASSUME IInv, NEW svc \in Service, FatalError(svc)
    PROVE  IInv'
<1>1. StateTyped /\ PortsDistinct /\ LocalInv(svc)
  BY DEF IInv
<1>2. StateTyped' /\ PortsDistinct'
  BY <1>1 DEF FatalError, leave_to, report, StateTyped, PortsDistinct,
              ServiceState, ledger, config, pma
<1>3. LocalInv(svc)' /\ \A t \in Service \ {svc} : SameAt(t)
  BY <1>1 DEF FatalError, leave_to, Active, StateTyped, LocalInv, SameAt, ledger
<1> QED
  BY <1>2, <1>3, OneServiceStep

LEMMA ConflictPreserves ==
    ASSUME IInv, NEW svc \in Service, PortConflictDetected(svc)
    PROVE  IInv'
<1>1. StateTyped /\ PortsDistinct /\ LocalInv(svc)
  BY DEF IInv
<1>2. StateTyped' /\ PortsDistinct'
  BY <1>1 DEF PortConflictDetected, leave_to, report, StateTyped, PortsDistinct,
              ServiceState, ledger, config, pma
<1>3. LocalInv(svc)' /\ \A t \in Service \ {svc} : SameAt(t)
  BY <1>1 DEF PortConflictDetected, leave_to, Active, StateTyped, LocalInv, SameAt, ledger
<1> QED
  BY <1>2, <1>3, OneServiceStep

LEMMA HealthPassPreserves ==
    ASSUME IInv, NEW svc \in Service, HealthCheckPass(svc)
    PROVE  IInv'
<1>1. StateTyped /\ PortsDistinct /\ LocalInv(svc)
  BY DEF IInv
<1>2. CASE state[svc] = "Running"
  <2>1. StateTyped' /\ PortsDistinct'
    <3>1. /\ health_fail_streak' = [health_fail_streak EXCEPT ![svc] = 0]
          /\ UNCHANGED <<state, desired, retry_count, last_error, started_at, ledger, config, pma>>
      BY <1>2 DEF HealthCheckPass
    <3> QED
      BY <1>1, <3>1 DEF StateTyped, PortsDistinct, ledger, config, pma
  <2>2. LocalInv(svc)' /\ \A t \in Service \ {svc} : SameAt(t)
    BY <1>1, <1>2, HealthAssumption
       DEF HealthCheckPass, Active, StateTyped, LocalInv, SameAt, ledger
  <2> QED
    BY <2>1, <2>2, OneServiceStep
<1>3. CASE state[svc] # "Running"
  BY <1>3, IgnoredPreserves DEF HealthCheckPass, ignored
<1> QED
  BY <1>2, <1>3

LEMMA HealthFailPreserves ==
    ASSUME IInv, NEW svc \in Service, HealthCheckFail(svc)
    PROVE  IInv'
<1>1. StateTyped /\ PortsDistinct /\ LocalInv(svc)
  BY DEF IInv
<1>2. CASE state[svc] # "Running"
  BY <1>2, IgnoredPreserves DEF HealthCheckFail, ignored
<1>3. CASE state[svc] = "Running"
  <2>1. /\ health_fail_streak' = [health_fail_streak EXCEPT ![svc] = @ + 1]
        /\ UNCHANGED <<config, pma>>
    BY <1>3 DEF HealthCheckFail
  <2>4. /\ health_fail_streak' \in [Service -> Nat]
        /\ \A t \in Service \ {svc} : health_fail_streak'[t] = health_fail_streak[t]
    BY <1>1, <2>1 DEF StateTyped
  <2>2. CASE health_fail_streak'[svc] >= HEALTH_FAIL_THRESHOLD
    <3>1. state[svc] \in Active /\ crash_and_retry(svc)
      BY <1>3, <2>2 DEF HealthCheckFail, Active
    <3> QED
      BY <2>1, <2>4, <3>1, CrashAndRetry
  <2>3. CASE ~(health_fail_streak'[svc] >= HEALTH_FAIL_THRESHOLD)
    <3>1. UNCHANGED <<state, desired, retry_count, last_error, started_at, ledger>>
      BY <1>3, <2>3 DEF HealthCheckFail
    <3>2. StateTyped' /\ PortsDistinct'
      BY <1>1, <2>1, <3>1 DEF StateTyped, PortsDistinct, ledger, config, pma
    <3>3. LocalInv(svc)' /\ \A t \in Service \ {svc} : SameAt(t)
      BY <1>1, <2>1, <2>3, <3>1, HealthAssumption DEF StateTyped, LocalInv, SameAt, ledger
    <3> QED
      BY <3>2, <3>3, OneServiceStep
  <2> QED
    BY <2>2, <2>3
<1> QED
  BY <1>2, <1>3

(* The port report: the next candidate is clear of the grown blacklist.    *)
LEMMA UnavailablePreserves ==
    ASSUME IInv, NEW svc \in Service, NEW port, PortUnavailable(svc, port)
    PROVE  IInv'
<1>1. StateTyped /\ PortsDistinct /\ LocalInv(svc)
  BY DEF IInv
<1>2. CASE state[svc] # "Starting" \/ assigned[svc] # port
  BY <1>2, IgnoredPreserves DEF PortUnavailable, ignored
<1>3. CASE state[svc] = "Starting" /\ assigned[svc] = port
  <2> DEFINE next == allocate_port(home, assigned, unavailable'[svc], svc)
  <2>1. port \in Port
    BY <1>1, <1>3 DEF StateTyped, LocalInv
  <2>2. /\ unavailable' = [unavailable EXCEPT ![svc] = @ \cup {port}]
        /\ UNCHANGED <<desired, retry_count, health_fail_streak, config, pma>>
    BY <1>3 DEF PortUnavailable
  <2>3. next_attempt(attempt[svc]) \in 0..AttemptSpace - 1
    BY <1>1, AttemptAssumption DEF next_attempt, StateTyped
  <2>4. CASE next # NoPort
    <3>1. /\ next \in Port /\ next \notin unavailable'[svc]
          /\ \A t \in Service \ {svc} : assigned[t] # next
      BY <1>1, <2>4, AllocateIsFree DEF StateTyped
    <3>2. /\ assigned' = [assigned EXCEPT ![svc] = next]
          /\ attempt' = [attempt EXCEPT ![svc] = next_attempt(attempt[svc])]
          /\ UNCHANGED <<state, started_at, last_error>>
      BY <1>3, <2>4 DEF PortUnavailable, assign
    <3> HIDE DEF next
    <3>3. PortsDistinct'
      BY <1>1, <3>1, <3>2 DEF PortsDistinct, StateTyped
    <3>4. StateTyped'
      BY <1>1, <2>1, <2>2, <2>3, <3>1, <3>2 DEF StateTyped, config, pma
    <3>5. LocalInv(svc)' /\ \A t \in Service \ {svc} : SameAt(t)
      BY <1>1, <2>2, <2>4, <3>1, <3>2 DEF StateTyped, LocalInv, SameAt
    <3> QED
      BY <3>3, <3>4, <3>5, OneServiceStep
  <2>5. CASE next = NoPort
    <3>1. /\ state' = [state EXCEPT ![svc] = "Error"]
          /\ started_at' = [started_at EXCEPT ![svc] = FALSE]
          /\ last_error' = [last_error EXCEPT ![svc] = TRUE]
          /\ assigned' = [assigned EXCEPT ![svc] = NoPort]
          /\ UNCHANGED attempt
      BY <1>3, <2>5 DEF PortUnavailable, leave_to, report, release
    <3> HIDE DEF next
    <3>2. PortsDistinct'
      BY <1>1, <3>1 DEF PortsDistinct, StateTyped
    <3>3. StateTyped'
      BY <1>1, <2>1, <2>2, <3>1 DEF StateTyped, ServiceState, config, pma
    <3>4. LocalInv(svc)' /\ \A t \in Service \ {svc} : SameAt(t)
      BY <1>1, <2>2, <3>1 DEF StateTyped, LocalInv, SameAt, Active
    <3> QED
      BY <3>2, <3>3, <3>4, OneServiceStep
  <2> QED
    BY <2>4, <2>5
<1> QED
  BY <1>2, <1>3

(* Events that concern several services, or none.                          *)
LEMMA RestartUpPreserves ==
    ASSUME IInv, NEW S \in SUBSET Service, NEW first, restart_up(S, first),
           UNCHANGED <<ledger, home, pma>>, document_root' \in DocumentRoots
    PROVE  IInv'
<1> DEFINE up == S \cap ActiveServices
<1>1. /\ up \in SUBSET ActiveServices /\ stopping(up)
      /\ desired' = [svc \in Service |-> IF svc \in up THEN "Running" ELSE desired[svc]]
      /\ UNCHANGED <<retry_count, last_error, health_fail_streak>>
  BY DEF restart_up
<1>2. /\ desired' \in [Service -> DesiredState]
      /\ \A t \in Service \ up : desired'[t] = desired[t]
  BY <1>1 DEF IInv, StateTyped, DesiredState
<1> HIDE DEF up
<1> QED
  BY <1>1, <1>2, StoppingPreserves

LEMMA ShutdownPreserves ==
    ASSUME IInv, ShutdownAll
    PROVE  IInv'
<1>1. /\ stopping(ActiveServices)
      /\ desired' = [svc \in Service |-> "Stopped"]
      /\ UNCHANGED <<retry_count, last_error, health_fail_streak, ledger, home, pma>>
      /\ document_root' \in DocumentRoots
  BY DEF ShutdownAll, config, IInv, StateTyped
<1>2. /\ desired' \in [Service -> DesiredState]
      /\ \A t \in Service \ ActiveServices : desired'[t] = "Stopped"
  BY <1>1 DEF DesiredState
<1> QED
  BY <1>1, <1>2, StoppingPreserves

LEMMA AppEventPreserves ==
    ASSUME IInv, AppEvent
    PROVE  IInv'
<1>1. StateTyped
  BY DEF IInv
<1>2. ASSUME NEW h \in HomeConfigs, NEW root \in DocumentRoots, NEW dir \in BOOLEAN,
             ConfigReloaded(h, root, dir)
      PROVE  IInv'
  BY <1>2 DEF ConfigReloaded, IInv, LocalInv, StateTyped, PortsDistinct, status, ledger
<1>3. ASSUME NEW changed \in SUBSET Service, NEW spawning, ConfigsReconciled(changed, spawning)
      PROVE  IInv'
  <2>1. changed \ spawning \in SUBSET Service /\ document_root' \in DocumentRoots
    BY <1>1, <1>3 DEF ConfigsReconciled, StateTyped, config
  <2> QED
    BY <1>3, <2>1, RestartUpPreserves DEF ConfigsReconciled, config
<1>4. ASSUME NEW root \in DocumentRoots, SetDocumentRoot(root)
      PROVE  IInv'
  <2>1. {"Apache"} \in SUBSET Service /\ document_root' \in DocumentRoots
    BY <1>4, ServiceAssumption DEF SetDocumentRoot
  <2> QED
    BY <1>4, <2>1, RestartUpPreserves DEF SetDocumentRoot
<1>5. ASSUME TogglePhpMyAdmin PROVE IInv'
  <2>1. CASE ignored
    BY <2>1, IgnoredPreserves DEF ignored
  <2>2. CASE ~ignored
    <3>1. /\ open_phpmyadmin_on_apache_ready' = (open_phpmyadmin_on_apache_ready \/ ~phpmyadmin_enabled)
          /\ UNCHANGED <<status, ledger, config, phpmyadmin_enabled, phpmyadmin_dir_exists>>
      BY <1>5, <2>2 DEF TogglePhpMyAdmin
    <3>2. open_phpmyadmin_on_apache_ready' \in BOOLEAN
      BY <3>1, Zenon
    <3> QED
      BY <3>1, <3>2 DEF IInv, LocalInv, StateTyped, PortsDistinct, status, ledger, config
  <2> QED
    BY <2>1, <2>2
<1>6. ASSUME NEW b \in BOOLEAN, PhpMyAdminToggled(b)
      PROVE  IInv'
  <2>1. /\ open_phpmyadmin_on_apache_ready' = (open_phpmyadmin_on_apache_ready /\ b)
        /\ phpmyadmin_enabled' = b
        /\ UNCHANGED <<status, ledger, config, phpmyadmin_dir_exists>>
    BY <1>6 DEF PhpMyAdminToggled
  <2>2. open_phpmyadmin_on_apache_ready' \in BOOLEAN
    BY <2>1, Zenon
  <2> QED
    BY <2>1, <2>2 DEF IInv, LocalInv, StateTyped, PortsDistinct, status, ledger, config
<1>7. ASSUME NEW b \in BOOLEAN, PhpMyAdminDirChanged(b)
      PROVE  IInv'
  BY <1>7 DEF PhpMyAdminDirChanged, IInv, LocalInv, StateTyped, PortsDistinct, status, ledger, config
<1>8. CASE OpenPhpMyAdmin \/ Tick
  BY <1>8, IgnoredPreserves DEF OpenPhpMyAdmin, Tick, ignored
<1>9. CASE ShutdownAll
  BY <1>9, ShutdownPreserves
<1> QED
  BY <1>2, <1>3, <1>4, <1>5, <1>6, <1>7, <1>8, <1>9 DEF AppEvent

LEMMA ServiceEventPreserves ==
    ASSUME IInv, NEW svc \in Service, ServiceEvent(svc)
    PROVE  IInv'
BY StartPreserves, StopPreserves, RestartPreserves, DismissPreserves, ReadyPreserves,
   TimeoutPreserves, ExitPreserves, SpawnFailedPreserves, AutoRetryPreserves, FatalPreserves,
   HealthPassPreserves, HealthFailPreserves, ConflictPreserves, UnavailablePreserves
   DEF ServiceEvent

LEMMA InitEstablishes == Init => IInv
<1> SUFFICES ASSUME Init PROVE IInv
  OBVIOUS
<1>1. StateTyped
  <2>1. 0 \in 0..AttemptSpace - 1
    BY AttemptAssumption
  <2>2. phpmyadmin_enabled \in BOOLEAN
    BY DEF Init
  <2> QED
    BY <2>1, <2>2 DEF Init, StateTyped, ServiceState, DesiredState
<1>2. PortsDistinct
  BY DEF Init, PortsDistinct
<1>3. \A svc \in Service : LocalInv(svc)
  <2> SUFFICES ASSUME NEW svc \in Service PROVE LocalInv(svc)
    OBVIOUS
  <2>1. /\ state[svc] \in {"Stopped", "Error"} /\ ~started_at[svc]
        /\ retry_count[svc] = 0
    BY DEF Init
  <2> QED
    BY <2>1, RetryAssumption DEF LocalInv, Active
<1> QED
  BY <1>1, <1>2, <1>3 DEF IInv

(* The inductive invariant holds of every reachable state.                 *)
THEOREM Inductive == Spec => []IInv
<1>1. IInv /\ [Next]_vars => IInv'
  <2> SUFFICES ASSUME IInv, [Next]_vars PROVE IInv'
    OBVIOUS
  <2>1. CASE Next
    BY <2>1, AppEventPreserves, ServiceEventPreserves DEF Next
  <2>2. CASE UNCHANGED vars
    BY <2>2, IgnoredPreserves DEF vars
  <2> QED
    BY <2>1, <2>2
<1> QED
  BY <1>1, InitEstablishes, PTL DEF Spec

(* Every effect sequence is well formed.                                   *)
LEMMA EffectTypes ==
    /\ <<>> \in Seq(Effect)
    /\ <<PersistDesiredState>> \in Seq(Effect)
    /\ <<PersistConfig>> \in Seq(Effect)
    /\ <<OpenPhpMyAdminBrowser>> \in Seq(Effect)
    /\ \A b \in BOOLEAN : <<ToggleEffect(b)>> \in Seq(Effect)
    /\ \A svc \in Service :
          /\ kill(svc) \in Seq(Effect)
          /\ <<StopHealthCheck(svc)>> \in Seq(Effect)
          /\ <<ScheduleRetry(svc)>> \in Seq(Effect)
<1>1. /\ PersistDesiredState \in Effect /\ PersistConfig \in Effect
      /\ OpenPhpMyAdminBrowser \in Effect
  BY DEF PersistDesiredState, PersistConfig, OpenPhpMyAdminBrowser, Effect
<1>2. \A b \in BOOLEAN : ToggleEffect(b) \in Effect
  BY DEF ToggleEffect, Effect
<1>3. \A svc \in Service :
          KillService(svc) \in Effect /\ StopHealthCheck(svc) \in Effect /\ ScheduleRetry(svc) \in Effect
  BY DEF KillService, StopHealthCheck, ScheduleRetry, Effect
<1> QED
  BY <1>1, <1>2, <1>3 DEF kill

LEMMA KillAllTyped ==
    ASSUME NEW S \in SUBSET Service
    PROVE  kill_all(S) \in Seq(Effect)
<1>1. \A name : kill_if(name, S) \in Seq(Effect)
  BY EffectTypes DEF kill_if
<1> QED
  BY <1>1 DEF kill_all

LEMMA SpawnTyped ==
    ASSUME NEW svc \in Service, NEW port \in Port, attempt'[svc] \in 0..AttemptSpace - 1
    PROVE  spawn(svc, port) \in Seq(Effect)
<1>1. SpawnService(svc, port) \in Effect
  BY DEF SpawnService, Effect
<1>2. StartReadinessCheck(svc, port, attempt'[svc]) \in Effect
  BY DEF StartReadinessCheck, Effect
<1> QED
  BY <1>1, <1>2 DEF spawn

LEMMA BeginStartEffects ==
    ASSUME StateTyped, PortsDistinct, NEW svc \in Service, NEW err \in BOOLEAN,
           NEW then \in Seq(Effect), begin_start(svc, err, then)
    PROVE  effects' \in Seq(Effect)
<1> DEFINE port == allocate_port(home, assigned, {}, svc)
<1>1. CASE port = NoPort
  BY <1>1 DEF begin_start
<1>2. CASE port # NoPort
  <2>1. port \in Port
    BY <1>2, AllocateIsFree DEF StateTyped
  <2>2. attempt'[svc] \in 0..AttemptSpace - 1
    BY BeginStart
  <2>3. effects' = spawn(svc, port) \o then
    BY <1>2 DEF begin_start
  <2> QED
    BY <2>1, <2>2, <2>3, SpawnTyped
<1> QED
  BY <1>1, <1>2

LEMMA CrashEffects ==
    ASSUME NEW svc \in Service, crash_and_retry(svc)
    PROVE  effects' \in Seq(Effect)
<1>1. effects' \in {kill(svc) \o <<ScheduleRetry(svc)>>, kill(svc) \o <<>>}
  BY DEF crash_and_retry, schedule
<1> QED
  BY <1>1, EffectTypes

LEMMA ServiceEffects ==
    ASSUME IInv, NEW svc \in Service, ServiceEvent(svc)
    PROVE  effects' \in Seq(Effect)
<1>0. StateTyped /\ PortsDistinct /\ last_error[svc] \in BOOLEAN
  BY DEF IInv, StateTyped
<1>1. CASE StartService(svc) \/ RestartService(svc) \/ AutoRetry(svc)
  BY <1>0, <1>1, BeginStartEffects, EffectTypes DEF StartService, RestartService, AutoRetry, ignored
<1>2. CASE StopService(svc)
  <2>1. kill(svc) \o <<PersistDesiredState>> \in Seq(Effect)
    BY EffectTypes
  <2>2. effects' \in {kill(svc) \o <<PersistDesiredState>>, <<PersistDesiredState>>, <<>>}
    BY <1>2, Zenon DEF StopService, stop_effects, ignored
  <2> QED
    BY <2>1, <2>2, EffectTypes
<1>7. CASE DismissError(svc) \/ ProcessSpawnFailed(svc) \/ FatalError(svc)
          \/ PortConflictDetected(svc) \/ HealthCheckPass(svc)
  <2>1. effects' \in {<<StopHealthCheck(svc)>>, <<>>}
    BY <1>7, Zenon DEF DismissError, ProcessSpawnFailed, FatalError,
       PortConflictDetected, HealthCheckPass, ignored
  <2> QED
    BY <2>1, EffectTypes
<1>3. CASE ProcessExit(svc)
  BY <1>0, <1>3, BeginStartEffects, CrashEffects, EffectTypes DEF ProcessExit, ignored
<1>4. ASSUME NEW n, ProcessReady(svc, n) \/ ReadinessTimeout(svc, n) PROVE effects' \in Seq(Effect)
  BY <1>4, CrashEffects, EffectTypes DEF ProcessReady, ReadinessTimeout, ignored
<1>5. CASE HealthCheckFail(svc)
  BY <1>5, CrashEffects, EffectTypes DEF HealthCheckFail, ignored
<1>6. ASSUME NEW port, PortUnavailable(svc, port) PROVE effects' \in Seq(Effect)
  <2> DEFINE next == allocate_port(home, assigned, unavailable'[svc], svc)
  <2>1. CASE effects' = <<>>
    BY <2>1, EffectTypes
  <2>2. CASE effects' # <<>>
    <3>1. effects' = spawn(svc, next) /\ next # NoPort
      BY <1>6, <2>2 DEF PortUnavailable, ignored
    <3>2. next \in Port
      BY <1>0, <3>1, AllocateIsFree DEF StateTyped
    <3>3. attempt'[svc] \in 0..AttemptSpace - 1
      BY <1>6, UnavailablePreserves DEF IInv, StateTyped
    <3> HIDE DEF next
    <3> QED
      BY <3>1, <3>2, <3>3, SpawnTyped
  <2> QED
    BY <2>1, <2>2
<1> QED
  BY <1>1, <1>2, <1>3, <1>4, <1>5, <1>6, <1>7 DEF ServiceEvent

LEMMA RestartUpEffects ==
    ASSUME NEW S \in SUBSET Service, NEW first \in Seq(Effect), restart_up(S, first)
    PROVE  effects' \in Seq(Effect)
<1>1. S \cap ActiveServices \in SUBSET Service
  OBVIOUS
<1> QED
  BY <1>1, KillAllTyped DEF restart_up

LEMMA AppEffects ==
    ASSUME IInv, AppEvent
    PROVE  effects' \in Seq(Effect)
<1>1. ASSUME NEW changed \in SUBSET Service, NEW spawning, ConfigsReconciled(changed, spawning)
      PROVE  effects' \in Seq(Effect)
  <2>1. changed \ spawning \in SUBSET Service
    OBVIOUS
  <2> QED
    BY <1>1, <2>1, RestartUpEffects, EffectTypes DEF ConfigsReconciled
<1>2. ASSUME NEW root \in DocumentRoots, SetDocumentRoot(root)
      PROVE  effects' \in Seq(Effect)
  <2>1. {"Apache"} \in SUBSET Service
    BY ServiceAssumption
  <2> QED
    BY <1>2, <2>1, RestartUpEffects, EffectTypes DEF SetDocumentRoot
<1>3. ASSUME NEW h \in HomeConfigs, NEW root \in DocumentRoots, NEW dir \in BOOLEAN,
             ConfigReloaded(h, root, dir)
      PROVE  effects' \in Seq(Effect)
  BY <1>3, EffectTypes DEF ConfigReloaded
<1>4. CASE TogglePhpMyAdmin
  <2>1. (~phpmyadmin_enabled) \in BOOLEAN
    BY Zenon
  <2> QED
    BY <1>4, <2>1, EffectTypes DEF TogglePhpMyAdmin, ignored
<1>5. ASSUME NEW b \in BOOLEAN, PhpMyAdminToggled(b) \/ PhpMyAdminDirChanged(b)
      PROVE  effects' \in Seq(Effect)
  BY <1>5, EffectTypes DEF PhpMyAdminToggled, PhpMyAdminDirChanged
<1>6. CASE OpenPhpMyAdmin \/ Tick
  BY <1>6, EffectTypes DEF OpenPhpMyAdmin, Tick, ignored
<1>7. CASE ShutdownAll
  <2>1. ActiveServices \in SUBSET Service
    BY DEF ActiveServices
  <2> QED
    BY <1>7, <2>1, KillAllTyped, EffectTypes DEF ShutdownAll
<1> QED
  BY <1>1, <1>2, <1>3, <1>4, <1>5, <1>6, <1>7 DEF AppEvent

(* Type correctness, the effects the reducer returns included.             *)
THEOREM TypeCorrect == Spec => []TypeOK
<1>1. Init => IInv /\ EffectsTyped
  <2>1. Init => EffectsTyped
    BY EffectTypes DEF Init, EffectsTyped
  <2> QED
    BY <2>1, InitEstablishes
<1>2. IInv /\ EffectsTyped /\ [Next]_vars => EffectsTyped'
  BY ServiceEffects, AppEffects DEF Next, vars, EffectsTyped
<1>3. IInv /\ EffectsTyped => TypeOK
  BY DEF IInv, TypeOK
<1> QED
  BY <1>1, <1>2, <1>3, Inductive, PTL DEF Spec

(* No two services ever hold the same port (state.rs: "structurally        *)
(* impossible"), for every set of configurations and every scan range.     *)
THEOREM PortsNeverShared == Spec => []PortsDistinct
<1>1. IInv => PortsDistinct
  BY DEF IInv
<1> QED
  BY <1>1, Inductive, PTL

(* What is up or coming up is wanted.                                      *)
THEOREM UpMeansWanted == Spec => []ActiveIsDesired
<1>1. IInv => ActiveIsDesired
  BY DEF IInv, LocalInv, ActiveIsDesired
<1> QED
  BY <1>1, Inductive, PTL

(* started_at is set exactly while a service is up or coming up.           *)
THEOREM StartedAtIsRight == Spec => []StartedAtTracksActive
<1>1. IInv => StartedAtTracksActive
  BY DEF IInv, LocalInv, StartedAtTracksActive
<1> QED
  BY <1>1, Inductive, PTL

(* No more than MAX_RETRIES retries, and none missing in Crashed.          *)
THEOREM RetriesStayBounded == Spec => []RetriesBounded
<1>1. IInv => RetriesBounded
  BY DEF IInv, LocalInv, RetriesBounded
<1> QED
  BY <1>1, Inductive, PTL

(* A running service is below the failure threshold.                       *)
THEOREM StreakStaysBelow == Spec => []StreakBelowThreshold
<1>1. IInv => StreakBelowThreshold
  BY DEF IInv, LocalInv, StreakBelowThreshold
<1> QED
  BY <1>1, Inductive, PTL

(* A service that may have a process holds a port that is not blacklisted. *)
THEOREM LedgerStaysHeld == Spec => []LedgerHeld
<1>1. IInv => LedgerHeld
  BY DEF IInv, LocalInv, LedgerHeld
<1> QED
  BY <1>1, Inductive, PTL
===============================================================================
