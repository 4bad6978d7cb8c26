------------------------------ MODULE MCReducer -------------------------------
(* A small instance of Reducer: two services whose scan ranges overlap and *)
(* meet the top of the port range, and a reload that swaps who is          *)
(* configured where.                                                       *)
EXTENDS Reducer

MCService == {"Apache", "Php"}
Low  == [svc \in MCService |-> IF svc = "Apache" THEN MaxPort - 1 ELSE MaxPort]
High == [svc \in MCService |-> IF svc = "Apache" THEN MaxPort ELSE MaxPort - 1]
MCHomeConfigs == {Low, High}

(* Bounds.  Php is there for its ports: its failures are not followed      *)
(* further.  phpMyAdmin varies only where Apache has no failure behind it, *)
(* so that its combinations do not multiply every port and error history.  *)
PhpHistory == retry_count["Php"] = 0 /\ health_fail_streak["Php"] = 0 /\ ~last_error["Php"]
PmaHistory ==
    \/ phpmyadmin_dir_exists /\ ~phpmyadmin_enabled /\ ~open_phpmyadmin_on_apache_ready
    \/ ~last_error["Apache"] /\ health_fail_streak["Apache"] = 0 /\ unavailable["Apache"] = {}
Focus == PhpHistory /\ PmaHistory
===============================================================================
