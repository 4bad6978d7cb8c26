------------------------------ MODULE PortLedger ------------------------------
(***************************************************************************)
(* The port allocation ledger of state.rs and the allocator of reducer.rs. *)
(* Everything here is pure: the ledger itself lives in Reducer's           *)
(* variables.  Wording and u16 arithmetic aside, a port is a number and    *)
(* NoPort stands for None.                                                 *)
(***************************************************************************)
EXTENDS Integers

CONSTANTS
    Service,          \* the services of this instance, some of ServiceNames
    PORT_SCAN_RANGE,  \* how far above its configured port a service may drift
    HomeConfigs,      \* the port assignments validate_and_build accepts
    AttemptSpace      \* size of the attempt counter (2^32 for the code's u32)

ServiceNames == {"Apache", "Mysql", "Php"}
MinPort == 1024
MaxPort == 65535
Port    == MinPort..MaxPort
NoPort  == 0
MaybePort == Port \cup {NoPort}

ASSUME ServiceAssumption == Service \subseteq ServiceNames /\ "Apache" \in Service
ASSUME ScanAssumption    == PORT_SCAN_RANGE \in Nat
ASSUME AttemptAssumption == AttemptSpace \in Nat \ {0}
(* config.rs refuses a configuration with a privileged port or two equal   *)
(* ports, so these are the only ones a reducer can be given.               *)
ASSUME ConfigAssumption ==
    \A home \in HomeConfigs :
        /\ home \in [Service -> Port]
        /\ \A s, t \in Service : home[s] = home[t] => s = t

(* Definitions marked faulty are mistakes this code could contain, used    *)
(* only to show that a property notices them.                              *)

(* A candidate within scanning distance of `start`.  checked_add ends the  *)
(* scan at the top of the u16 range.                                       *)
ScanPastTop(start) == start..(start + PORT_SCAN_RANGE)    \* faulty
ScanCandidates(start) == {p \in start..(start + PORT_SCAN_RANGE) : p <= MaxPort}

(* allocate_port, for a service whose own blacklist is `unusable`: the     *)
(* lowest candidate that is neither blacklisted nor assigned to or         *)
(* configured for another service.                                         *)
CandidatesByHome(home, assigned, unusable, svc) ==    \* faulty
    {p \in ScanCandidates(home[svc]) :
        p \notin unusable /\ \A other \in Service \ {svc} : home[other] # p}

FreeCandidates(home, assigned, unusable, svc) ==
    {p \in ScanCandidates(home[svc]) :
        /\ p \notin unusable
        /\ \A other \in Service \ {svc} : assigned[other] # p /\ home[other] # p}

allocate_port(home, assigned, unusable, svc) ==
    LET free == FreeCandidates(home, assigned, unusable, svc)
    IN  IF free = {} THEN NoPort
        ELSE CHOOSE p \in free : \A q \in free : p <= q

(* The correlation token is bumped with wrapping_add on every assign.      *)
next_unwrapped(n) == n + 1    \* faulty
next_attempt(n) == (n + 1) % AttemptSpace
===============================================================================
