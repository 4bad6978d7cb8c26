------------------------------ MODULE Lifecycle -------------------------------
(***************************************************************************)
(* What the README and BRIEF.md promise of one supervised service, without *)
(* events, ports or effects: the states it may move between, what it needs *)
(* to be wanted for, and a budget of automatic retries that only a user    *)
(* start, a completed restart or a successful start refills.               *)
(***************************************************************************)
EXTENDS Integers

CONSTANTS Service, Budget

VARIABLES state, wanted, budget

life == <<state, wanted, budget>>

Up   == {"Starting", "Running"}
Down == {"Stopped", "Crashed", "Error"}

(* A step moves one service from one <<state, wanted, budget>> to another. *)
Keep(svc) == wanted'[svc] = wanted[svc] /\ budget'[svc] = budget[svc]
Attempted(svc) == state'[svc] \in {"Starting", "Error"}   \* Error: no port to be had

Start(svc) ==
    /\ state[svc] \in Down
    /\ Attempted(svc) /\ wanted'[svc] = "Running" /\ budget'[svc] = Budget

Ready(svc) ==
    /\ state[svc] = "Starting" /\ state'[svc] = "Running"
    /\ wanted'[svc] = wanted[svc] /\ budget'[svc] = Budget

Crash(svc) ==
    /\ state[svc] \in Up /\ budget[svc] > 0 /\ state'[svc] = "Crashed"
    /\ wanted'[svc] = wanted[svc] /\ budget'[svc] = budget[svc] - 1

GiveUp(svc) ==
    /\ state[svc] \in Up /\ budget[svc] = 0 /\ state'[svc] = "Error"
    /\ Keep(svc)

Retry(svc) ==
    /\ state[svc] = "Crashed" /\ wanted[svc] = "Running"
    /\ Attempted(svc) /\ Keep(svc)

(* Stop, or stop in order to start again.                                  *)
Stop(svc) ==
    /\ state[svc] \in Up /\ state'[svc] = "Stopping"
    /\ budget'[svc] = budget[svc]

Stopped(svc) ==
    \/ /\ state[svc] = "Stopping" /\ wanted[svc] = "Stopped" /\ state'[svc] = "Stopped"
       /\ Keep(svc)
    \/ /\ state[svc] \in {"Crashed", "Error"} /\ state'[svc] = "Stopped"
       /\ wanted'[svc] = "Stopped" /\ budget'[svc] = budget[svc]

Restarted(svc) ==
    /\ state[svc] = "Stopping" /\ wanted[svc] = "Running"
    /\ Attempted(svc) /\ wanted'[svc] = "Running" /\ budget'[svc] = Budget

(* The spawn failed, or something fatal happened.                          *)
Fail(svc) ==
    /\ state'[svc] = "Error" /\ Keep(svc)

(* A shutdown, or a restart asked for while stopping.  What is up is only  *)
(* ever unwanted by stopping it.                                           *)
ChangeMind(svc) ==
    /\ state[svc] \notin Up /\ state'[svc] = state[svc]
    /\ budget'[svc] = budget[svc]
    /\ \/ wanted'[svc] = "Stopped"
       \/ state[svc] = "Stopping" /\ wanted'[svc] = "Running"

Rest(svc) == state'[svc] = state[svc] /\ Keep(svc)

Step(svc) ==
    \/ Start(svc) \/ Ready(svc) \/ Crash(svc) \/ GiveUp(svc) \/ Retry(svc)
    \/ Stop(svc) \/ Stopped(svc) \/ Restarted(svc) \/ Fail(svc) \/ ChangeMind(svc)

Init ==
    /\ state \in [Service -> {"Stopped", "Error"}]
    /\ wanted \in [Service -> {"Running", "Stopped"}]
    /\ budget = [svc \in Service |-> Budget]

(* One event may move several services, each by a step of its own.         *)
Next == \A svc \in Service : Step(svc) \/ Rest(svc)

Spec == Init /\ [][Next]_life
===============================================================================
