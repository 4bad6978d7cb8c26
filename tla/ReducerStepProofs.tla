--------------------------- MODULE ReducerStepProofs ---------------------------
(***************************************************************************)
(* What TLAPS proves of single steps of Reducer: which side effects a step *)
(* that moves a service asks for.  Each promise is stated of one step and  *)
(* then, by the inductive invariant of ReducerProofs, of every behaviour.  *)
(***************************************************************************)
EXTENDS ReducerProofs

USE DEF MaybePort

(* A list of effects asks for e; Emits(e) says it of the last call's list. *)
Asks(list, e) == \E i \in 1..Len(list) : list[i] = e

(* The promises, of one step.                                              *)
SpawnsMatch ==
    \A e : Asks(effects', e) /\ e.type = "SpawnService" =>
        /\ state'[e.service] = "Starting" /\ assigned'[e.service] = e.port
        /\ Asks(effects', StartReadinessCheck(e.service, e.port, attempt'[e.service]))

Kills(svc) ==
    state[svc] \in Active /\ state'[svc] \in {"Stopping", "Crashed"} =>
        Asks(effects', StopHealthCheck(svc)) /\ Asks(effects', KillService(svc))

Reports(svc) == state[svc] # "Error" /\ state'[svc] = "Error" => last_error'[svc]

Persists(svc) ==
    desired[svc] = "Running" /\ desired'[svc] = "Stopped" => Asks(effects', PersistDesiredState)

(* Nothing is killed that is up, or coming up, when the step is over.      *)
KillsMatch ==
    \A svc \in Service :
        Asks(effects', StopHealthCheck(svc)) \/ Asks(effects', KillService(svc)) =>
            state'[svc] \notin Active

(* A service that is Starting was so before, in the same attempt, or it is *)
(* going to be spawned and its readiness checked.                          *)
SameAttempt(svc) == assigned'[svc] = assigned[svc] /\ attempt'[svc] = attempt[svc]
Checks(svc) ==
    state'[svc] = "Starting" =>
        \/ state[svc] = "Starting" /\ SameAttempt(svc)
        \/ /\ Asks(effects', SpawnService(svc, assigned'[svc]))
           /\ Asks(effects', StartReadinessCheck(svc, assigned'[svc], attempt'[svc]))

(* A service comes to Stopping, and to Running, only from where it is up,  *)
(* and it runs, stops and crashes in the attempt it was up in.             *)
Moves(svc) ==
    /\ state[svc] \in Active /\ state'[svc] \in {"Stopping", "Crashed"} => SameAttempt(svc)
    /\ state'[svc] = "Stopping" => state[svc] \in Active \cup {"Stopping"}
    /\ state'[svc] = "Running" => state[svc] \in Active /\ SameAttempt(svc)

(* A wanted service that is Crashed was so before, or a retry is scheduled. *)
Retries(svc) ==
    state'[svc] = "Crashed" /\ desired'[svc] = "Running" =>
        \/ state[svc] = "Crashed" /\ desired[svc] = "Running"
        \/ Asks(effects', ScheduleRetry(svc))

Right(svc) ==
    Kills(svc) /\ Reports(svc) /\ Persists(svc) /\ Checks(svc) /\ Moves(svc) /\ Retries(svc)
StepRight == SpawnsMatch /\ KillsMatch /\ \A svc \in Service : Right(svc)

(* A list that asks for no spawn, for no kill but of services in S, and    *)
(* for neither.                                                            *)
NoSpawn(list) == \A e : Asks(list, e) => e.type # "SpawnService"
KillsOnly(list, S) ==
    \A svc \in Service :
        Asks(list, StopHealthCheck(svc)) \/ Asks(list, KillService(svc)) => svc \in S
Plain(list) == NoSpawn(list) /\ KillsOnly(list, {})

-------------------------------------------------------------------------------
(* Lists.  What a concatenation asks for, one of its halves does.          *)
LEMMA AsksConcat ==
    ASSUME NEW s \in Seq(Effect), NEW t \in Seq(Effect), NEW e
    PROVE  Asks(s \o t, e) <=> Asks(s, e) \/ Asks(t, e)
<1>1. /\ Len(s) \in Nat /\ Len(t) \in Nat /\ Len(s \o t) = Len(s) + Len(t)
      /\ \A i \in 1..Len(s) : (s \o t)[i] = s[i]
      /\ \A i \in 1..Len(t) : (s \o t)[Len(s) + i] = t[i]
  OBVIOUS
<1>2. ASSUME NEW i \in 1..Len(s \o t) PROVE i \in 1..Len(s) \/ \E j \in 1..Len(t) : i = Len(s) + j
  <2>1. CASE i > Len(s)
    <3>1. i - Len(s) \in 1..Len(t) /\ i = Len(s) + (i - Len(s))
      BY <1>1, <2>1
    <3> QED
      BY <3>1
  <2> QED
    BY <1>1, <2>1
<1>3. ASSUME NEW j \in 1..Len(t) PROVE Len(s) + j \in 1..Len(s \o t)
  BY <1>1
<1>4. ASSUME NEW i \in 1..Len(s) PROVE i \in 1..Len(s \o t)
  BY <1>1
<1> QED
  BY <1>1, <1>2, <1>3, <1>4 DEF Asks

(* What a list of at most two effects asks for.                            *)
LEMMA AsksShort ==
    ASSUME NEW e, NEW a, NEW b
    PROVE  /\ ~Asks(<<>>, e)
           /\ Asks(<<a>>, e) <=> e = a
           /\ Asks(<<a, b>>, e) <=> e = a \/ e = b
<1>1. Len(<<a>>) = 1 /\ <<a>>[1] = a /\ Len(<<a, b>>) = 2 /\ <<a, b>>[1] = a /\ <<a, b>>[2] = b
  OBVIOUS
<1>2. Asks(<<>>, e) <=> FALSE
  BY DEF Asks
<1>3. Asks(<<a>>, e) <=> e = a
  BY <1>1 DEF Asks
<1>4. Asks(<<a, b>>, e) <=> e = a \/ e = b
  <2>1. 1..Len(<<a, b>>) = {1, 2}
    BY <1>1
  <2> QED
    BY <1>1, <2>1 DEF Asks
<1> QED
  BY <1>2, <1>3, <1>4

(* kill asks for the end of the health check and of the process.           *)
LEMMA AsksKill ==
    ASSUME NEW svc \in Service
    PROVE  /\ Asks(kill(svc), StopHealthCheck(svc)) /\ Asks(kill(svc), KillService(svc))
           /\ NoSpawn(kill(svc)) /\ KillsOnly(kill(svc), {svc})
<1>1. \A e : Asks(kill(svc), e) <=> e = StopHealthCheck(svc) \/ e = KillService(svc)
  BY AsksShort DEF kill
<1>2. StopHealthCheck(svc).type # "SpawnService" /\ KillService(svc).type # "SpawnService"
  BY DEF StopHealthCheck, KillService
<1>3. ASSUME NEW t, Asks(kill(svc), StopHealthCheck(t)) \/ Asks(kill(svc), KillService(t))
      PROVE  t = svc
  <2>1. /\ StopHealthCheck(t).service = t /\ KillService(t).service = t
        /\ StopHealthCheck(svc).service = svc /\ KillService(svc).service = svc
    BY DEF StopHealthCheck, KillService
  <2>2. \/ StopHealthCheck(t) \in {StopHealthCheck(svc), KillService(svc)}
        \/ KillService(t) \in {StopHealthCheck(svc), KillService(svc)}
    BY <1>1, <1>3
  <2> QED
    BY <2>1, <2>2
<1> QED
  BY <1>1, <1>2, <1>3 DEF NoSpawn, KillsOnly

(* The lists of one effect that is neither a spawn nor a kill, and of the  *)
(* one that only ends a health check.                                      *)
LEMMA AsksOne ==
    /\ Plain(<<>>)
    /\ Plain(<<PersistDesiredState>>) /\ Asks(<<PersistDesiredState>>, PersistDesiredState)
    /\ Plain(<<PersistConfig>>) /\ Plain(<<OpenPhpMyAdminBrowser>>)
    /\ \A svc : Plain(<<ScheduleRetry(svc)>>)
    /\ \A b : Plain(<<ToggleEffect(b)>>)
    /\ \A svc : NoSpawn(<<StopHealthCheck(svc)>>) /\ KillsOnly(<<StopHealthCheck(svc)>>, {svc})
<1> DEFINE Harmless(a) == a.type \notin {"SpawnService", "StopHealthCheck", "KillService"}
<1>1. /\ Harmless(PersistDesiredState) /\ Harmless(PersistConfig)
      /\ Harmless(OpenPhpMyAdminBrowser)
      /\ \A svc : Harmless(ScheduleRetry(svc))
      /\ \A b : Harmless(ToggleEffect(b))
  BY DEF PersistDesiredState, PersistConfig, OpenPhpMyAdminBrowser, ScheduleRetry, ToggleEffect
<1>2. \A svc : /\ StopHealthCheck(svc).type = "StopHealthCheck"
               /\ StopHealthCheck(svc).service = svc
               /\ KillService(svc).type = "KillService"
  BY DEF StopHealthCheck, KillService
<1>3. ASSUME NEW a, Harmless(a) PROVE Plain(<<a>>)
  BY <1>2, <1>3, AsksShort DEF Plain, NoSpawn, KillsOnly
<1>4. Plain(<<>>) /\ Asks(<<PersistDesiredState>>, PersistDesiredState)
  BY AsksShort DEF Plain, NoSpawn, KillsOnly
<1>5. ASSUME NEW svc
      PROVE  NoSpawn(<<StopHealthCheck(svc)>>) /\ KillsOnly(<<StopHealthCheck(svc)>>, {svc})
  <2>1. \A e : Asks(<<StopHealthCheck(svc)>>, e) <=> e = StopHealthCheck(svc)
    BY AsksShort
  <2> QED
    BY <1>2, <2>1 DEF NoSpawn, KillsOnly
<1> HIDE DEF Harmless
<1> QED
  BY <1>1, <1>3, <1>4, <1>5

(* Lists that spawn nothing, one after the other, spawn nothing.           *)
LEMMA NoSpawnConcat ==
    ASSUME NEW s \in Seq(Effect), NEW t \in Seq(Effect), NoSpawn(s), NoSpawn(t)
    PROVE  NoSpawn(s \o t)
BY AsksConcat DEF NoSpawn

(* What a list kills stays what is killed when a list that kills nothing   *)
(* is put before or behind it.                                             *)
LEMMA KillsConcat ==
    ASSUME NEW s \in Seq(Effect), NEW t \in Seq(Effect), NEW S, KillsOnly(s, S), KillsOnly(t, {})
    PROVE  KillsOnly(s \o t, S) /\ KillsOnly(t \o s, S)
BY AsksConcat DEF KillsOnly

(* kill_all, of whichever services, asks for the death of each of them.    *)
LEMMA AsksKillAll ==
    ASSUME NEW S \in SUBSET Service
    PROVE  /\ NoSpawn(kill_all(S)) /\ KillsOnly(kill_all(S), S)
           /\ \A svc \in S : /\ Asks(kill_all(S), StopHealthCheck(svc))
                             /\ Asks(kill_all(S), KillService(svc))
<1> DEFINE apache == kill_if("Apache", S)
           mysql == kill_if("Mysql", S)
           php == kill_if("Php", S)
<1>1. ASSUME NEW name
      PROVE  /\ kill_if(name, S) \in Seq(Effect) /\ NoSpawn(kill_if(name, S))
             /\ KillsOnly(kill_if(name, S), S)
  <2>1. CASE name \in S
    BY <2>1, EffectTypes, AsksKill DEF kill_if, KillsOnly
  <2>2. CASE name \notin S
    BY <2>2, EffectTypes, AsksOne DEF kill_if, Plain, KillsOnly
  <2> QED
    BY <2>1, <2>2
<1>2. \A svc \in S : /\ Asks(kill_if(svc, S), StopHealthCheck(svc))
                     /\ Asks(kill_if(svc, S), KillService(svc))
  BY AsksKill DEF kill_if
<1>3. kill_all(S) = (apache \o mysql) \o php
  BY DEF kill_all
<1>4. apache \in Seq(Effect) /\ mysql \in Seq(Effect) /\ php \in Seq(Effect)
  BY <1>1
<1> HIDE DEF apache, mysql, php
<1>5. apache \o mysql \in Seq(Effect)
  BY <1>4
<1>6. \A e : Asks(kill_all(S), e) <=> Asks(apache, e) \/ Asks(mysql, e) \/ Asks(php, e)
  <2> SUFFICES ASSUME NEW e
               PROVE  Asks(kill_all(S), e) <=> Asks(apache, e) \/ Asks(mysql, e) \/ Asks(php, e)
    OBVIOUS
  <2>1. Asks((apache \o mysql) \o php, e) <=> Asks(apache \o mysql, e) \/ Asks(php, e)
    BY <1>4, <1>5, AsksConcat
  <2>2. Asks(apache \o mysql, e) <=> Asks(apache, e) \/ Asks(mysql, e)
    BY <1>4, AsksConcat
  <2> QED
    BY <1>3, <2>1, <2>2
<1>7. \A svc \in S : svc \in {"Apache", "Mysql", "Php"}
  BY ServiceAssumption DEF ServiceNames
<1>8. NoSpawn(kill_all(S))
  BY <1>1, <1>6 DEF NoSpawn, apache, mysql, php
<1>9. KillsOnly(kill_all(S), S)
  BY <1>1, <1>6 DEF KillsOnly, apache, mysql, php
<1> QED
  BY <1>2, <1>6, <1>7, <1>8, <1>9 DEF apache, mysql, php

(* A spawn comes with its readiness check, and nothing else.               *)
LEMMA AsksSpawn ==
    ASSUME NEW svc, NEW port, NEW e
    PROVE  /\ Asks(spawn(svc, port), e) /\ e.type = "SpawnService" => e.service = svc /\ e.port = port
           /\ Asks(spawn(svc, port), SpawnService(svc, port))
           /\ Asks(spawn(svc, port), StartReadinessCheck(svc, port, attempt'[svc]))
           /\ KillsOnly(spawn(svc, port), {})
<1>1. \A x : Asks(spawn(svc, port), x) <=>
                x = SpawnService(svc, port) \/ x = StartReadinessCheck(svc, port, attempt'[svc])
  BY AsksShort DEF spawn
<1>2. /\ SpawnService(svc, port).service = svc /\ SpawnService(svc, port).port = port
      /\ SpawnService(svc, port).type = "SpawnService"
      /\ StartReadinessCheck(svc, port, attempt'[svc]).type = "StartReadinessCheck"
  BY DEF SpawnService, StartReadinessCheck
<1>3. \A t : StopHealthCheck(t).type = "StopHealthCheck" /\ KillService(t).type = "KillService"
  BY DEF StopHealthCheck, KillService
<1> QED
  BY <1>1, <1>2, <1>3 DEF KillsOnly

(* A step that spawns one service and then asks for no other spawn.        *)
LEMMA SpawnMatches ==
    ASSUME NEW svc \in Service, NEW port \in Port, NEW then \in Seq(Effect), Plain(then),
           attempt'[svc] \in 0..AttemptSpace - 1,
           state'[svc] = "Starting", assigned'[svc] = port, effects' = spawn(svc, port) \o then
    PROVE  SpawnsMatch /\ KillsMatch
<1>1. spawn(svc, port) \in Seq(Effect)
  BY SpawnTyped
<1>2. \A e : Asks(effects', e) <=> Asks(spawn(svc, port), e) \/ Asks(then, e)
  BY <1>1, AsksConcat
<1>3. SpawnsMatch
  BY <1>2, AsksSpawn DEF SpawnsMatch, Plain, NoSpawn
<1>4. KillsMatch
  BY <1>2, AsksSpawn DEF KillsMatch, Plain, KillsOnly
<1> QED
  BY <1>3, <1>4

(* A step that spawns nothing spawns nothing wrongly.                      *)
LEMMA NoSpawnMatches ==
    ASSUME NoSpawn(effects')
    PROVE  SpawnsMatch
BY DEF NoSpawn, SpawnsMatch

(* A step that kills only services it has taken down kills rightly.        *)
LEMMA KillsRightly ==
    ASSUME NEW S, KillsOnly(effects', S), \A svc \in S : state'[svc] \notin Active
    PROVE  KillsMatch
BY DEF KillsOnly, KillsMatch

(* So neither promise can be broken by a step without a spawn or a kill.   *)
LEMMA PlainMatches ==
    ASSUME Plain(effects')
    PROVE  SpawnsMatch /\ KillsMatch
BY DEF Plain, NoSpawn, KillsOnly, SpawnsMatch, KillsMatch

-------------------------------------------------------------------------------
(* Handlers.  A service that a step leaves alone is promised nothing.      *)
Still(svc) ==
    /\ state'[svc] = state[svc] /\ desired'[svc] = desired[svc]
    /\ assigned'[svc] = assigned[svc] /\ attempt'[svc] = attempt[svc]

(* A step about one service is right if it is right for that service and   *)
(* leaves the others alone.                                                *)
LEMMA OthersRight ==
    ASSUME NEW svc \in Service, StateTyped,
           \A t \in Service \ {svc} : Still(t), SpawnsMatch, KillsMatch, Right(svc)
    PROVE  StepRight
<1>1. ASSUME NEW t \in Service \ {svc} PROVE Right(t)
  BY DEF Still, Right, Kills, Reports, Persists, Checks, Moves, SameAttempt, Retries, Active
<1> QED
  BY <1>1 DEF StepRight

(* An event that is ignored keeps every promise.                           *)
LEMMA IgnoredRight ==
    ASSUME UNCHANGED app, Plain(effects')
    PROVE  StepRight
BY PlainMatches
   DEF StepRight, Right, Kills, Reports, Persists, Checks, Moves, SameAttempt, Retries, Active, app, status, ledger

(* begin_start, in a service that is not up: it is Starting on the port of *)
(* the spawn, or in Error with a reason.                                   *)
LEMMA BeginStartRight ==
    ASSUME IInv, NEW svc \in Service, NEW err \in BOOLEAN,
           NEW then \in {<<>>, <<PersistDesiredState>>}, begin_start(svc, err, then),
           \A t \in Service : desired'[t] # desired[t] => t = svc /\ desired'[t] = "Running"
    PROVE  StepRight
<1> DEFINE port == allocate_port(home, assigned, {}, svc)
<1>1. StateTyped /\ PortsDistinct /\ then \in Seq(Effect) /\ Plain(then)
  BY EffectTypes, AsksOne DEF IInv
<1>2. /\ state'[svc] \in {"Starting", "Error"}
      /\ attempt'[svc] \in 0..AttemptSpace - 1
  BY <1>1, BeginStart
<1>3. ASSUME NEW t \in Service \ {svc} PROVE Still(t)
  BY <1>1 DEF begin_start, assign, set_starting, leave_to, release, StateTyped, Still
<1>4. CASE port = NoPort
  <2>1. state'[svc] = "Error" /\ last_error'[svc] /\ effects' = then
    BY <1>1, <1>4 DEF begin_start, leave_to, report, StateTyped
  <2>2. SpawnsMatch /\ KillsMatch /\ Right(svc)
    BY <1>1, <2>1, PlainMatches DEF Right, Kills, Reports, Persists, Checks, Moves, SameAttempt, Retries
  <2> QED
    BY <1>1, <1>3, <2>2, OthersRight
<1>5. CASE port # NoPort
  <2>1. port \in Port
    BY <1>1, <1>5, AllocateIsFree DEF StateTyped
  <2>2. /\ effects' = spawn(svc, port) \o then
        /\ assigned' = [assigned EXCEPT ![svc] = port]
        /\ state' = [state EXCEPT ![svc] = "Starting"]
    BY <1>5 DEF begin_start, assign, set_starting
  <2> HIDE DEF port
  <2>3. assigned'[svc] = port /\ state'[svc] = "Starting"
    BY <1>1, <2>2 DEF StateTyped
  <2>4. SpawnsMatch /\ KillsMatch
    BY <1>1, <1>2, <2>1, <2>2, <2>3, SpawnMatches
  <2>5. /\ Asks(effects', SpawnService(svc, port))
        /\ Asks(effects', StartReadinessCheck(svc, port, attempt'[svc]))
    BY <1>1, <1>2, <2>1, <2>2, SpawnTyped, AsksSpawn, AsksConcat
  <2>6. Right(svc)
    BY <2>3, <2>5 DEF Right, Kills, Reports, Persists, Checks, Moves, SameAttempt, Retries
  <2> QED
    BY <1>1, <1>3, <2>4, <2>6, OthersRight
<1> QED
  BY <1>4, <1>5

(* crash_and_retry kills what it gives up, and puts a reason with Error.   *)
LEMMA CrashRight ==
    ASSUME IInv, NEW svc \in Service, crash_and_retry(svc)
    PROVE  StepRight
<1>1. StateTyped
  BY DEF IInv
<1>2. PICK rest \in {<<ScheduleRetry(svc)>>, <<>>} :
           /\ effects' = kill(svc) \o rest
           /\ desired[svc] = "Running" /\ may_retry(svc) => rest = <<ScheduleRetry(svc)>>
  BY DEF crash_and_retry, schedule
<1>3. kill(svc) \in Seq(Effect) /\ rest \in Seq(Effect) /\ Plain(rest)
  BY EffectTypes, AsksOne
<1>4. /\ Asks(effects', StopHealthCheck(svc)) /\ Asks(effects', KillService(svc))
      /\ NoSpawn(effects') /\ KillsOnly(effects', {svc})
  BY <1>2, <1>3, AsksConcat, AsksKill, NoSpawnConcat, KillsConcat DEF Plain
<1>5. /\ last_error'[svc] /\ desired' = desired
      /\ state'[svc] \in {"Crashed", "Error"}
      /\ state'[svc] = "Crashed" /\ desired[svc] = "Running" => rest = <<ScheduleRetry(svc)>>
      /\ state'[svc] = "Crashed" => SameAttempt(svc)
  <2>1. last_error'[svc] /\ desired' = desired /\ state'[svc] \in {"Crashed", "Error"}
    BY <1>1 DEF crash_and_retry, leave_to, report, StateTyped
  <2>2. state'[svc] = "Crashed" /\ desired[svc] = "Running" => may_retry(svc)
    BY <1>1 DEF crash_and_retry, leave_to, StateTyped
  <2>3. state'[svc] = "Crashed" => SameAttempt(svc)
    BY <1>1 DEF crash_and_retry, keep_or_release, leave_to, StateTyped, SameAttempt
  <2> QED
    BY <1>2, <2>1, <2>2, <2>3
<1>6. ASSUME NEW t \in Service \ {svc} PROVE Still(t)
  BY <1>1 DEF crash_and_retry, keep_or_release, leave_to, release, StateTyped, Still
<1>7. Asks(<<ScheduleRetry(svc)>>, ScheduleRetry(svc))
  BY AsksShort
<1>8. SpawnsMatch /\ KillsMatch
  BY <1>4, <1>5, NoSpawnMatches, KillsRightly DEF Active
<1>9. Right(svc)
  BY <1>2, <1>3, <1>4, <1>5, <1>7, AsksConcat
     DEF Right, Kills, Reports, Persists, Checks, Moves, SameAttempt, Retries
<1> QED
  BY <1>1, <1>6, <1>8, <1>9, OthersRight

(* Stopping a set of services that are up, with a kill_all of that set     *)
(* somewhere in the list.                                                  *)
LEMMA StoppingRight ==
    ASSUME NEW S \in SUBSET ActiveServices, stopping(S), UNCHANGED ledger,
           NoSpawn(effects'), KillsOnly(effects', S),
           \A svc \in S : Asks(effects', StopHealthCheck(svc)) /\ Asks(effects', KillService(svc)),
           \A svc \in Service : Persists(svc),
           \A svc \in Service \ S : desired'[svc] = "Running" => desired[svc] = "Running"
    PROVE  StepRight
<1>1. ASSUME NEW svc \in Service PROVE Right(svc)
  <2>1. /\ state'[svc] = IF svc \in S THEN "Stopping" ELSE state[svc]
        /\ assigned'[svc] = assigned[svc] /\ attempt'[svc] = attempt[svc]
    BY DEF stopping, ledger
  <2>2. CASE svc \in S
    BY <2>1, <2>2 DEF Right, Kills, Reports, Checks, Moves, SameAttempt, Retries, ActiveServices
  <2>3. CASE svc \notin S
    BY <2>1, <2>3 DEF Right, Kills, Reports, Checks, Moves, SameAttempt, Retries, Active
  <2> QED
    BY <2>2, <2>3
<1>2. KillsMatch
  BY KillsRightly DEF stopping, ActiveServices, Active
<1> QED
  BY <1>1, <1>2, NoSpawnMatches DEF StepRight

-------------------------------------------------------------------------------
(* The handlers of one service, user's commands first.                     *)
LEMMA CommandsRight ==
    ASSUME IInv, NEW svc \in Service,
           StartService(svc) \/ StopService(svc) \/ RestartService(svc) \/ DismissError(svc)
    PROVE  StepRight
<1>1. StateTyped
  BY DEF IInv
<1>2. CASE ignored
  BY <1>2, AsksOne, IgnoredRight DEF ignored
<1>3. CASE /\ begin_start(svc, FALSE, <<PersistDesiredState>>) \/ begin_start(svc, FALSE, <<>>)
           /\ desired' = [desired EXCEPT ![svc] = "Running"]
  <2>1. \A t \in Service : desired'[t] # desired[t] => t = svc /\ desired'[t] = "Running"
    BY <1>1, <1>3 DEF StateTyped
  <2> QED
    BY <1>3, <2>1, BeginStartRight
<1>4. CASE state[svc] \in Active /\ (StopService(svc) \/ RestartService(svc))
  <2>1. /\ \A t \in Service \ {svc} : Still(t)
        /\ state'[svc] = "Stopping" /\ SameAttempt(svc)
        /\ \/ effects' = kill(svc) \o <<PersistDesiredState>>
           \/ effects' = kill(svc) /\ desired'[svc] = "Running"
    BY <1>1, <1>4 DEF StopService, RestartService, leave_to, stop_effects, Active, Startable,
                      StateTyped, Still, SameAttempt, ledger
  <2>2. kill(svc) \in Seq(Effect) /\ <<PersistDesiredState>> \in Seq(Effect)
    BY EffectTypes
  <2>3. NoSpawn(effects') /\ KillsOnly(effects', {svc})
    <3>1. CASE effects' = kill(svc) \o <<PersistDesiredState>>
      <4>1. /\ NoSpawn(kill(svc)) /\ KillsOnly(kill(svc), {svc})
            /\ NoSpawn(<<PersistDesiredState>>) /\ KillsOnly(<<PersistDesiredState>>, {})
        BY AsksKill, AsksOne DEF Plain
      <4> QED
        BY <2>2, <3>1, <4>1, NoSpawnConcat, KillsConcat
    <3>2. CASE effects' = kill(svc)
      BY <3>2, AsksKill
    <3> QED
      BY <2>1, <3>1, <3>2
  <2>4. Right(svc)
    <3>1. /\ Asks(effects', StopHealthCheck(svc)) /\ Asks(effects', KillService(svc))
          /\ desired'[svc] = "Running" \/ Asks(effects', PersistDesiredState)
      <4>1. CASE effects' = kill(svc) \o <<PersistDesiredState>>
        BY <2>2, <4>1, AsksKill, AsksOne, AsksConcat
      <4>2. CASE effects' = kill(svc) /\ desired'[svc] = "Running"
        BY <4>2, AsksKill
      <4> QED
        BY <2>1, <4>1, <4>2
    <3> QED
      BY <1>4, <2>1, <3>1 DEF Right, Kills, Reports, Persists, Checks, Moves, SameAttempt, Retries
  <2>5. SpawnsMatch /\ KillsMatch
    BY <2>1, <2>3, NoSpawnMatches, KillsRightly DEF Active
  <2> QED
    BY <1>1, <2>1, <2>4, <2>5, OthersRight
<1>5. CASE \/ StopService(svc) /\ state[svc] \in {"Crashed", "Error"}
           \/ RestartService(svc) /\ state[svc] = "Stopping"
           \/ DismissError(svc)
  <2>1. /\ \A t \in Service \ {svc} : Still(t)
        /\ \/ Still(svc) \/ state'[svc] = "Stopped"
           \/ state'[svc] = "Stopping" /\ state[svc] = "Stopping"
        /\ \/ effects' = <<PersistDesiredState>>
           \/ effects' = <<>> /\ desired'[svc] \in {desired[svc], "Running"}
    <3>1. CASE StopService(svc) /\ state[svc] \in {"Crashed", "Error"}
      <4>1. /\ state' = [state EXCEPT ![svc] = "Stopped"]
            /\ desired' = [desired EXCEPT ![svc] = "Stopped"]
            /\ effects' = <<PersistDesiredState>> /\ UNCHANGED ledger
        BY <3>1 DEF StopService, Active
      <4>2. (\A t \in Service \ {svc} : Still(t)) /\ state'[svc] = "Stopped"
        BY <1>1, <4>1 DEF StateTyped, Still, ledger
      <4> QED
        BY <4>1, <4>2
    <3>2. CASE RestartService(svc) /\ state[svc] = "Stopping"
      BY <1>1, <3>2 DEF RestartService, Active, Startable, StateTyped, Still, ledger
    <3>3. CASE DismissError(svc)
      <4>1. effects' = <<>> /\ UNCHANGED <<state, desired, ledger>>
        BY <3>3 DEF DismissError
      <4>2. \A t \in Service : Still(t)
        BY <4>1 DEF Still, ledger
      <4> QED
        BY <4>1, <4>2
    <3> QED
      BY <1>5, <3>1, <3>2, <3>3
  <2>2. SpawnsMatch /\ KillsMatch
    BY <2>1, AsksOne, PlainMatches
  <2>3. Right(svc)
    BY <2>1, AsksOne
       DEF Still, Right, Kills, Reports, Persists, Checks, Moves, SameAttempt, Retries, Active
  <2> QED
    BY <1>1, <2>1, <2>2, <2>3, OthersRight
<1> QED
  BY <1>2, <1>3, <1>4, <1>5 DEF StartService, StopService, RestartService, Active, Startable

(* The reports of watchers, checkers and timers about one service.         *)
LEMMA ReportsRight ==
    ASSUME IInv, NEW svc \in Service,
           \/ ProcessExit(svc) \/ ProcessSpawnFailed(svc) \/ AutoRetry(svc) \/ FatalError(svc)
           \/ HealthCheckPass(svc) \/ HealthCheckFail(svc) \/ PortConflictDetected(svc)
    PROVE  StepRight
<1>1. StateTyped /\ last_error[svc] \in BOOLEAN
  BY DEF IInv, StateTyped
<1>2. CASE ignored
  BY <1>2, AsksOne, IgnoredRight DEF ignored
<1>3. CASE begin_start(svc, last_error[svc], <<>>) /\ UNCHANGED desired
  BY <1>1, <1>3, BeginStartRight
<1>4. CASE crash_and_retry(svc)
  BY <1>4, CrashRight
<1>5. CASE /\ \/ effects' = <<>>
              \/ effects' = <<StopHealthCheck(svc)>> /\ leave_to(svc, "Error")
           /\ UNCHANGED desired
           /\ \/ leave_to(svc, "Stopped")
              \/ leave_to(svc, "Error") /\ report(svc)
              \/ UNCHANGED <<state, ledger>>
           /\ release(svc) \/ UNCHANGED ledger
  <2>1. \A t \in Service \ {svc} : Still(t)
    BY <1>1, <1>5 DEF leave_to, release, StateTyped, Still, ledger
  <2>2. Right(svc)
    BY <1>1, <1>5 DEF leave_to, report, Right, Kills, Reports, Persists, Checks, Moves, SameAttempt, Retries, Active,
                      StateTyped, ledger
  <2>3. SpawnsMatch /\ KillsMatch
    <3>1. CASE effects' = <<>>
      BY <3>1, AsksOne, PlainMatches
    <3>2. CASE effects' = <<StopHealthCheck(svc)>> /\ leave_to(svc, "Error")
      <4>1. state'[svc] = "Error"
        BY <1>1, <3>2 DEF leave_to, StateTyped
      <4>2. NoSpawn(effects') /\ KillsOnly(effects', {svc})
        BY <3>2, AsksOne
      <4> QED
        BY <4>1, <4>2, NoSpawnMatches, KillsRightly DEF Active
    <3> QED
      BY <1>5, <3>1, <3>2
  <2> QED
    BY <1>1, <2>1, <2>2, <2>3, OthersRight
<1> QED
  BY <1>2, <1>3, <1>4, <1>5
     DEF ProcessExit, ProcessSpawnFailed, AutoRetry, FatalError, HealthCheckPass, HealthCheckFail,
         PortConflictDetected, ledger

(* The reports of pollers.                                                 *)
LEMMA ProbesRight ==
    ASSUME IInv, NEW svc \in Service, NEW n, ProcessReady(svc, n) \/ ReadinessTimeout(svc, n)
    PROVE  StepRight
<1>1. StateTyped
  BY DEF IInv
<1>2. CASE ignored
  BY <1>2, AsksOne, IgnoredRight DEF ignored
<1>3. CASE crash_and_retry(svc)
  BY <1>3, CrashRight
<1>4. CASE /\ effects' \in {<<>>, <<OpenPhpMyAdminBrowser>>} /\ UNCHANGED <<desired, ledger>>
           /\ state[svc] = "Starting" /\ state' = [state EXCEPT ![svc] = "Running"]
  <2>1. Plain(effects') /\ \A t \in Service \ {svc} : Still(t)
    BY <1>1, <1>4, AsksOne DEF StateTyped, Still, ledger
  <2>2. Right(svc)
    BY <1>1, <1>4 DEF Right, Kills, Reports, Persists, Checks, Moves, SameAttempt, Retries, StateTyped,
                          Active, ledger
  <2> QED
    BY <1>1, <1>4, <2>1, <2>2, PlainMatches, OthersRight
<1> QED
  BY <1>2, <1>3, <1>4 DEF ProcessReady, ReadinessTimeout, of_this_attempt

(* The retried port is the one spawned on, under the new token.            *)
LEMMA UnavailableRight ==
    ASSUME IInv, NEW svc \in Service, NEW port, PortUnavailable(svc, port)
    PROVE  StepRight
<1>1. StateTyped /\ PortsDistinct
  BY DEF IInv
<1>2. CASE ignored
  BY <1>2, AsksOne, IgnoredRight DEF ignored
<1>3. CASE ~ignored
  <2> DEFINE next == allocate_port(home, assigned, unavailable'[svc], svc)
  <2>1. state[svc] = "Starting" /\ UNCHANGED desired
    BY <1>3 DEF PortUnavailable
  <2>2. CASE next # NoPort
    <3>1. /\ next \in Port /\ assigned' = [assigned EXCEPT ![svc] = next]
          /\ effects' = spawn(svc, next) /\ UNCHANGED state
      BY <1>1, <1>3, <2>2, AllocateIsFree DEF PortUnavailable, assign, StateTyped
    <3>2. attempt'[svc] \in 0..AttemptSpace - 1
      BY UnavailablePreserves DEF IInv, StateTyped
    <3> HIDE DEF next
    <3>3. assigned'[svc] = next /\ state'[svc] = "Starting"
      BY <1>1, <2>1, <3>1 DEF StateTyped
    <3>4. SpawnsMatch /\ KillsMatch
      BY <3>1, <3>3, AsksSpawn DEF SpawnsMatch, KillsMatch, KillsOnly
    <3>5. ASSUME NEW t \in Service \ {svc} PROVE Still(t)
      BY <1>1, <1>3, <2>1, <2>2, <3>1 DEF PortUnavailable, assign, next, StateTyped, Still
    <3>6. Right(svc)
      BY <2>1, <3>1, <3>3, AsksSpawn DEF Right, Kills, Reports, Persists, Checks, Moves, SameAttempt, Retries
    <3> QED
      BY <1>1, <3>4, <3>5, <3>6, OthersRight
  <2>3. CASE next = NoPort
    <3>1. leave_to(svc, "Error") /\ report(svc) /\ release(svc) /\ effects' = <<>>
      BY <1>3, <2>3 DEF PortUnavailable
    <3>2. (\A t \in Service \ {svc} : Still(t)) /\ Right(svc)
      BY <1>1, <2>1, <3>1 DEF leave_to, report, release, Still, Right, Kills, Reports, Persists,
                              Checks, Moves, SameAttempt, Retries, StateTyped
    <3> QED
      BY <1>1, <3>1, <3>2, AsksOne, PlainMatches, OthersRight
  <2> QED
    BY <2>2, <2>3
<1> QED
  BY <1>2, <1>3

-------------------------------------------------------------------------------
(* Events that concern several services, or none.                          *)
LEMMA RestartUpRight ==
    ASSUME StateTyped, NEW S \in SUBSET Service, NEW first \in Seq(Effect), Plain(first),
           restart_up(S, first), UNCHANGED ledger
    PROVE  StepRight
<1> DEFINE up == S \cap ActiveServices
<1>1. /\ up \in SUBSET ActiveServices /\ up \in SUBSET Service /\ stopping(up)
      /\ effects' = first \o kill_all(up)
      /\ \A svc \in Service : desired'[svc] = IF svc \in up THEN "Running" ELSE desired[svc]
  BY DEF restart_up
<1> HIDE DEF up
<1>2. kill_all(up) \in Seq(Effect)
  BY <1>1, KillAllTyped
<1>3. /\ NoSpawn(effects') /\ KillsOnly(effects', up)
      /\ \A svc \in up : Asks(effects', StopHealthCheck(svc)) /\ Asks(effects', KillService(svc))
  BY <1>1, <1>2, AsksKillAll, AsksConcat, NoSpawnConcat, KillsConcat DEF Plain
<1> QED
  BY <1>1, <1>3, StoppingRight DEF Persists

(* The stop of all services at the end.                                    *)
LEMMA ShutdownRight ==
    ASSUME ShutdownAll
    PROVE  StepRight
<1> DEFINE up == ActiveServices
<1>1. /\ up \in SUBSET ActiveServices /\ up \in SUBSET Service /\ stopping(up)
      /\ effects' = kill_all(up) \o <<PersistDesiredState>>
      /\ \A svc \in Service : desired'[svc] = "Stopped"
      /\ UNCHANGED ledger
  BY DEF ShutdownAll, ActiveServices
<1> HIDE DEF up
<1>2. kill_all(up) \in Seq(Effect) /\ <<PersistDesiredState>> \in Seq(Effect)
  BY <1>1, KillAllTyped, EffectTypes
<1>3. /\ NoSpawn(effects') /\ KillsOnly(effects', up) /\ Asks(effects', PersistDesiredState)
      /\ \A svc \in up : Asks(effects', StopHealthCheck(svc)) /\ Asks(effects', KillService(svc))
  BY <1>1, <1>2, AsksKillAll, AsksOne, AsksConcat, NoSpawnConcat, KillsConcat DEF Plain
<1> QED
  BY <1>1, <1>3, StoppingRight DEF Persists

(* The events that are about the program and not about a service.          *)
LEMMA AppEventRight ==
    ASSUME IInv, AppEvent
    PROVE  StepRight
<1>1. StateTyped
  BY DEF IInv
<1>2. ASSUME NEW changed \in SUBSET Service, NEW spawning, ConfigsReconciled(changed, spawning)
      PROVE  StepRight
  <2>1. changed \ spawning \in SUBSET Service
    OBVIOUS
  <2> QED
    BY <1>1, <1>2, <2>1, RestartUpRight, EffectTypes, AsksOne DEF ConfigsReconciled
<1>3. ASSUME NEW root \in DocumentRoots, SetDocumentRoot(root)
      PROVE  StepRight
  <2>1. {"Apache"} \in SUBSET Service
    BY ServiceAssumption
  <2> QED
    BY <1>1, <1>3, <2>1, RestartUpRight, EffectTypes, AsksOne DEF SetDocumentRoot
<1>4. CASE UNCHANGED <<state, desired, ledger>> /\ Plain(effects')
  BY <1>4, PlainMatches
     DEF StepRight, Right, Kills, Reports, Persists, Checks, Moves, SameAttempt, Retries, Active, ledger
<1>5. ASSUME NEW h \in HomeConfigs, NEW root \in DocumentRoots, NEW dir \in BOOLEAN,
             ConfigReloaded(h, root, dir)
      PROVE  StepRight
  BY <1>4, <1>5, AsksOne DEF ConfigReloaded, status
<1>6. ASSUME NEW b \in BOOLEAN, PhpMyAdminToggled(b) \/ PhpMyAdminDirChanged(b)
      PROVE  StepRight
  BY <1>4, <1>6, AsksOne DEF PhpMyAdminToggled, PhpMyAdminDirChanged, status
<1>7. CASE TogglePhpMyAdmin \/ OpenPhpMyAdmin \/ Tick
  BY <1>4, <1>7, AsksOne DEF TogglePhpMyAdmin, OpenPhpMyAdmin, Tick, ignored, app, status
<1>8. CASE ShutdownAll
  BY <1>8, ShutdownRight
<1> QED
  BY <1>2, <1>3, <1>5, <1>6, <1>7, <1>8 DEF AppEvent

(* Every step of the reducer keeps the promises.                           *)
LEMMA StepsRight ==
    ASSUME IInv, Next
    PROVE  StepRight
BY AppEventRight, CommandsRight, ReportsRight, ProbesRight, UnavailableRight DEF Next, ServiceEvent

-------------------------------------------------------------------------------
(* Whatever is spawned is in Starting, on the port the ledger assigns it,  *)
(* with a readiness check under the token ProcessReady is compared with    *)
(* (reducer.rs, begin_start and the arm of PortUnavailable).               *)
THEOREM SpawnsMatchLedger == Spec => SpawnMatchesLedger
<1>1. ASSUME IInv, [Next]_vars
      PROVE  [\A i \in 1..Len(effects') :
                 LET e == effects'[i] IN
                 e.type = "SpawnService" =>
                     /\ state'[e.service] = "Starting" /\ assigned'[e.service] = e.port
                     /\ Emits(StartReadinessCheck(e.service, e.port, attempt'[e.service]))]_vars
  <2>1. CASE Next
    BY <2>1, <1>1, StepsRight DEF StepRight, SpawnsMatch, Asks, Emits
  <2> QED
    BY <1>1, <2>1
<1> QED
  BY <1>1, Inductive, PTL DEF Spec, SpawnMatchesLedger

(* The ways out of being up, other than Stopping and Crashed: the last     *)
(* retry, which kills, and the four reports that do not.                   *)
LEMMA DownOrDead ==
    ASSUME StateTyped, Next, NEW svc \in Service,
           state[svc] \in Active, state'[svc] \notin Active \cup {"Stopping", "Crashed"}
    PROVE  \/ Asks(effects', StopHealthCheck(svc)) /\ Asks(effects', KillService(svc))
           \/ GoesUnkilled(svc)
<1>1. state[svc] # state'[svc]
  OBVIOUS
<1>2. ASSUME NEW t \in Service, begin_start(t, last_error[t], <<>>) \/ begin_start(t, FALSE, <<>>)
             \/ begin_start(t, FALSE, <<PersistDesiredState>>), state[t] \notin Active
      PROVE  FALSE
  BY <1>2 DEF begin_start, set_starting, leave_to, StateTyped
<1>3. ASSUME NEW t \in Service, NEW st, leave_to(t, st) \/ state' = [state EXCEPT ![t] = st]
      PROVE  svc = t /\ state'[svc] = st
  BY <1>1, <1>3 DEF leave_to, StateTyped
<1>4. ASSUME NEW t \in Service, crash_and_retry(t)
      PROVE  Asks(effects', StopHealthCheck(svc)) /\ Asks(effects', KillService(svc))
  <2>1. t = svc
    BY <1>3, <1>4 DEF crash_and_retry
  <2>2. PICK rest \in {<<ScheduleRetry(t)>>, <<>>} : effects' = kill(t) \o rest
    BY <1>4 DEF crash_and_retry, schedule
  <2> QED
    BY <2>1, <2>2, EffectTypes, AsksConcat, AsksKill
<1>5. ASSUME NEW S, stopping(S) PROVE FALSE
  BY <1>1, <1>5 DEF stopping
<1>6. CASE UNCHANGED state
  BY <1>1, <1>6
<1>7. ASSUME NEW t \in Service,
             StartService(t) \/ StopService(t) \/ RestartService(t) \/ DismissError(t)
      PROVE  FALSE
  <2>1. CASE StartService(t) \/ DismissError(t)
    BY <1>2, <1>6, <2>1 DEF StartService, DismissError, ignored, app, status, Startable, Active
  <2>2. CASE StopService(t)
    BY <1>3, <1>6, <2>2 DEF StopService, ignored, app, status, Active
  <2>3. CASE RestartService(t)
    BY <1>2, <1>3, <1>6, <2>3 DEF RestartService, Startable, Active
  <2> QED
    BY <1>7, <2>1, <2>2, <2>3
<1>8. ASSUME NEW t \in Service, NEW n, ProcessReady(t, n) \/ ReadinessTimeout(t, n)
      PROVE  Asks(effects', StopHealthCheck(svc)) /\ Asks(effects', KillService(svc))
  BY <1>3, <1>4, <1>6, <1>8 DEF ProcessReady, ReadinessTimeout, ignored, app, status, Active
<1>9. ASSUME NEW t \in Service,
             \/ ProcessExit(t) \/ AutoRetry(t) \/ HealthCheckPass(t) \/ HealthCheckFail(t)
      PROVE  Asks(effects', StopHealthCheck(svc)) /\ Asks(effects', KillService(svc))
  <2>1. CASE ProcessExit(t)
    BY <1>2, <1>3, <1>4, <1>6, <2>1 DEF ProcessExit, ignored, app, status, Active
  <2>2. CASE AutoRetry(t)
    BY <1>2, <1>6, <2>2 DEF AutoRetry, retry_due, ignored, app, status, Active
  <2>3. CASE HealthCheckPass(t) \/ HealthCheckFail(t)
    BY <1>4, <1>6, <2>3 DEF HealthCheckPass, HealthCheckFail, ignored, app, status
  <2> QED
    BY <1>9, <2>1, <2>2, <2>3
<1>10. ASSUME NEW t \in Service,
              ProcessSpawnFailed(t) \/ FatalError(t) \/ PortConflictDetected(t)
       PROVE  GoesUnkilled(svc)
  BY <1>3, <1>10 DEF GoesUnkilled, ProcessSpawnFailed, FatalError, PortConflictDetected
<1>11. ASSUME NEW t \in Service, NEW port, PortUnavailable(t, port)
       PROVE  GoesUnkilled(svc)
  <2>1. leave_to(t, "Error") /\ assigned[t] = port
    BY <1>6, <1>11 DEF PortUnavailable, ignored, app, status
  <2>2. svc = t /\ state'[svc] = "Error"
    BY <1>3, <2>1
  <2> QED
    BY <1>11, <2>1, <2>2 DEF GoesUnkilled
<1>12. CASE AppEvent
  <2>1. CASE ShutdownAll \/ \E root \in DocumentRoots : SetDocumentRoot(root)
    BY <1>5, <2>1 DEF ShutdownAll, SetDocumentRoot, restart_up
  <2>2. CASE \E changed \in SUBSET Service : \E spawning : ConfigsReconciled(changed, spawning)
    BY <1>5, <2>2 DEF ConfigsReconciled, restart_up
  <2>3. CASE UNCHANGED status
    BY <1>6, <2>3 DEF status
  <2> QED
    BY <1>12, <2>1, <2>2, <2>3
       DEF AppEvent, ConfigReloaded, TogglePhpMyAdmin, PhpMyAdminToggled, PhpMyAdminDirChanged,
           OpenPhpMyAdmin, Tick, ignored, app
<1> QED
  BY <1>7, <1>8, <1>9, <1>10, <1>11, <1>12 DEF Next, ServiceEvent

(* Giving up a process asks for its death: every arm of reducer.rs that    *)
(* takes a service out of Starting and Running kills it, but for the four  *)
(* that GoesUnkilled names.                                                *)
THEOREM GivenUpIsKilled == Spec => GivingUpKills
<1>1. ASSUME IInv, [Next]_vars
      PROVE  [\A svc \in Service :
                 state[svc] \in Active /\ state'[svc] \notin Active =>
                     \/ Emits(StopHealthCheck(svc)) /\ Emits(KillService(svc))
                     \/ GoesUnkilled(svc)]_vars
  <2>1. CASE Next
    <3>1. ASSUME NEW svc \in Service, state[svc] \in Active, state'[svc] \in {"Stopping", "Crashed"}
          PROVE  Emits(StopHealthCheck(svc)) /\ Emits(KillService(svc))
      BY <1>1, <2>1, <3>1, StepsRight DEF StepRight, Right, Kills, Asks, Emits
    <3>2. ASSUME NEW svc \in Service, state[svc] \in Active,
                 state'[svc] \notin Active \cup {"Stopping", "Crashed"}
          PROVE  \/ Emits(StopHealthCheck(svc)) /\ Emits(KillService(svc))
                 \/ GoesUnkilled(svc)
      BY <1>1, <2>1, <3>2, DownOrDead DEF IInv, Asks, Emits
    <3> QED
      BY <3>1, <3>2
  <2> QED
    BY <1>1, <2>1
<1> QED
  BY <1>1, Inductive, PTL DEF Spec, GivingUpKills

(* No step puts a service in Error without a reason to read.               *)
THEOREM ErrorsHaveReasons == Spec => ErrorsAreReported
<1>1. ASSUME IInv, [Next]_vars
      PROVE  [\A svc \in Service :
                 state[svc] # "Error" /\ state'[svc] = "Error" => last_error'[svc]]_vars
  <2>1. CASE Next
    BY <2>1, <1>1, StepsRight DEF StepRight, Right, Reports
  <2> QED
    BY <1>1, <2>1
<1> QED
  BY <1>1, Inductive, PTL DEF Spec, ErrorsAreReported

(* Every change of a wish to Stopped is persisted in the same step.        *)
THEOREM StopsAreSaved == Spec => StopsArePersisted
<1>1. ASSUME IInv, [Next]_vars
      PROVE  [\A svc \in Service :
                 desired[svc] = "Running" /\ desired'[svc] = "Stopped"
                     => Emits(PersistDesiredState)]_vars
  <2>1. CASE Next
    BY <2>1, <1>1, StepsRight DEF StepRight, Right, Persists, Asks, Emits
  <2> QED
    BY <1>1, <2>1
<1> QED
  BY <1>1, Inductive, PTL DEF Spec, StopsArePersisted
===============================================================================
