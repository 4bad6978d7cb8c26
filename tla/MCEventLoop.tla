----------------------------- MODULE MCEventLoop ------------------------------
(* Small instances of EventLoop.                                           *)
EXTENDS EventLoop

MCOne == {"Apache"}
MCMysql == {"Apache", "Mysql"}
MCTwo == {"Apache", "Php"}
AllFiles == ManagedFile

(* Apache sits one below the top of the port range, so that a scan of two  *)
(* candidates would leave it if it could.                                  *)
MCHome == {[svc \in Service |-> IF svc = "Apache" THEN MaxPort - 1 ELSE 8000]}
AtTheTop == {[svc \in Service |-> IF svc = "Apache" THEN MaxPort ELSE 8000]}

(* Bounds on the initial states.  NoPhpMyAdmin: the directory is not       *)
(* there.  AllWanted: rampp.state wants every service running, and the     *)
(* document root is the first of two.  OnlyMysql: Apache is not wanted, nor *)
(* asked for later.                                                        *)
Untouched == commands = 0 /\ faults = 0
NoPhpMyAdmin == ~pma_dir /\ ~phpmyadmin_dir_exists
AllWanted ==
    Untouched => document_root = "root1" /\ \A svc \in Service : desired[svc] = "Running"
OnlyMysql == NoPhpMyAdmin /\ desired["Apache"] = "Stopped" /\ ~\E type \in UserCommands : Queued(type, "Apache")
AllWantedPlain == AllWanted /\ NoPhpMyAdmin
===============================================================================
