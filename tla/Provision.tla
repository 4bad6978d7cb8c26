------------------------------ MODULE Provision -------------------------------
(***************************************************************************)
(* provision.rs: the managed configuration files, what each should say and *)
(* the pass that brings them in line.  A file's content is the tuple of    *)
(* the settings rendered into it; templates, backups and the phpMyAdmin    *)
(* config.inc.php, which restarts nothing, are left out.                   *)
(***************************************************************************)
EXTENDS PortLedger

ManagedFile == {"HttpdConf", "MyIni", "PhpIni", "PhpMyAdminConf"}

(* The service to restart for a file, which is also the one that reads it. *)
Reader(file) ==
    CASE file \in {"HttpdConf", "PhpMyAdminConf"} -> "Apache"
      [] file = "MyIni" -> "Mysql"
      [] file = "PhpIni" -> "Php"

(* The assigned port or, before there is one, the configured port.         *)
port_for(ports, assigned, svc) ==
    IF svc \notin Service THEN NoPort
    ELSE IF assigned[svc] # NoPort THEN assigned[svc] ELSE ports[svc]

(* The templates, as the settings they render: what else is in a file is   *)
(* the same in every installation directory.                               *)
generate_httpd_conf_with_ports(port, php_port, root) == <<port, php_port, root>>
generate_my_ini_with_port(port) == <<port>>
generate_php_ini_with_port(mysql_port) == <<mysql_port>>
generate_phpmyadmin_apache_conf(php_port) == <<php_port>>
generate_phpmyadmin_conf_disabled == <<>>

(* What every file should contain, for the executor's configuration        *)
(* <<ports, root>>, the ledger and the phpMyAdmin switch.                  *)
desired_configs(ports, root, assigned, pma) ==
    LET apache == port_for(ports, assigned, "Apache")
        mysql  == port_for(ports, assigned, "Mysql")
        php    == port_for(ports, assigned, "Php")
    IN  [file \in ManagedFile |->
            CASE file = "HttpdConf" -> generate_httpd_conf_with_ports(apache, php, root)
              [] file = "MyIni"  -> generate_my_ini_with_port(mysql)
              [] file = "PhpIni" -> generate_php_ini_with_port(mysql)
              [] file = "PhpMyAdminConf" ->
                    IF pma THEN generate_phpmyadmin_apache_conf(php)
                           ELSE generate_phpmyadmin_conf_disabled]

(* A pass over the disk: the files RAMPP owns whose content differs are    *)
(* written, except those whose write fails.                                *)
Differing(disk, owned, want)        == {f \in owned : disk[f] # want[f]}
changed_files(disk, owned, want, failing) == Differing(disk, owned, want) \ failing
reconciled(disk, want, changed) ==
    [f \in ManagedFile |-> IF f \in changed THEN want[f] ELSE disk[f]]
===============================================================================
