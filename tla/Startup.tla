-------------------------------- MODULE Startup -------------------------------
(***************************************************************************)
(* main.rs up to the event loop, launch after launch: what RAMPP finds on  *)
(* disk, what it puts there, and what a kill between any two steps leaves  *)
(* to the next launch.  Of the loop only the two effects that rewrite the  *)
(* same files stay: saving the desired states and reconciling.             *)
(*                                                                         *)
(* A managed file is who wrote it and what it says: the configuration it   *)
(* was rendered from or, for config.inc.php, the cookie secret in it.      *)
(* php.ini, phpmyadmin.conf and the phpMyAdmin switch are EventLoop's.     *)
(***************************************************************************)
EXTENDS Naturals, Sequences, FiniteSets

CONSTANTS
    Service,        \* the services with a desired state; "Mysql" is one
    Faults,         \* the kinds of failure this instance looks at
    Edits,          \* what the user does to the installation in it
    MaxLaunches,    \* bounds on the launches,
    MaxFaults,      \* the failures,
    MaxEdits,       \* the user's edits
    MaxSecrets      \* and the secrets generated

FaultKinds ==
    {"toml", "dirs", "state_read", "state_write", "backup", "remove",
     "conf_read", "conf_write", "clear", "mysqld"}
EditKinds ==
    {"take_over", "delete_conf", "edit_toml", "break_toml", "delete_toml",
     "delete_state", "delete_data", "phpmyadmin"}

ASSUME StartupAssumption ==
    /\ "Mysql" \in Service
    /\ Faults \subseteq FaultKinds /\ Edits \subseteq EditKinds
    /\ {MaxLaunches, MaxFaults, MaxEdits, MaxSecrets} \subseteq Nat

VARIABLES
    \* the disk
    toml,        \* rampp.toml
    saved,       \* rampp.state
    conf,        \* the managed files
    vendor_bak,  \* whose content httpd.conf.vendor.bak holds
    data,        \* what is in MySQL's data directory
    pma_dir,     \* whether phpmyadmin/ is there
    \* the process
    pc,          \* the next step of main(), or "off"
    fresh,       \* is_fresh_install
    app,         \* desired states and secret in memory
    todo,        \* files the current pass has yet to reconcile
    failed,      \* files it could not
    told,        \* MySQL was put in Error with a reason
    \* history and bounds
    wish,        \* the desired states the user last asked for
    foreign,     \* authors of an httpd.conf that nobody but RAMPP replaced
    mishaps,     \* kinds of failure so far, and "kill"
    launches, edits, faults, secrets

disk    == <<toml, saved, conf, vendor_bak, data, pma_dir>>
memory  == <<fresh, app, todo, failed, told>>
authors == <<wish, foreign>>
bounds  == <<launches, edits, secrets>>
startup_vars == <<disk, pc, memory, authors, mishaps, bounds, faults>>

-------------------------------------------------------------------------------
(* Values.                                                                 *)
Managed == {"HttpdConf", "MyIni", "ConfigInc"}
Author  == {"nobody", "rampp", "vendor", "user"}
Content == [by : Author, says : Nat]
absent  == [by |-> "nobody", says |-> 0]
by_vendor == [by |-> "vendor", says |-> 0]
by_user   == [by |-> "user", says |-> 0]

(* A finished data directory has every entry.  "rest" stands for whatever  *)
(* else mysqld makes.                                                      *)
Entries == {"ibdata1", "mysql", "rest"}
Unfinished == SUBSET Entries \ {Entries}

NoSecret == 0
StateFile == [desired : [Service -> BOOLEAN], secret : Nat]
NoState == [gone |-> TRUE]
state_file(desired, secret) == [desired |-> desired, secret |-> secret]
default_stopped == state_file([svc \in Service |-> FALSE], NoSecret)

(* A failure of the given kind, and none.                                  *)
fails(kind) ==
    /\ kind \in Faults /\ faults < MaxFaults
    /\ faults' = faults + 1 /\ mishaps' = mishaps \union {kind}
no_fault == UNCHANGED <<faults, mishaps>>

(* Temporary file, fsync, rename: the file has the new content or, after   *)
(* three failed renames or a kill, the old one.                            *)
atomic_write(file, content, kind) ==
    \/ file' = content /\ no_fault
    \/ file' = file /\ fails(kind)

(* Nobody can tell a secret from another but by comparing: they are        *)
(* numbered as they are generated.                                         *)
generate_blowfish_secret == secrets + 1
generated == secrets < MaxSecrets /\ secrets' = secrets + 1

forget == /\ fresh' = FALSE /\ app' = default_stopped /\ todo' = <<>>
          /\ failed' = {} /\ told' = FALSE

step(from, to) == pc = from /\ pc' = to

-------------------------------------------------------------------------------
(* The steps of main(), in order.                                          *)
(* A file that cannot be looked up does not exist, as Path::exists says.   *)
is_fresh_by_toml == toml = "absent"     \* faulty
is_fresh_install == saved = NoState

Launch ==
    /\ launches < MaxLaunches /\ launches' = launches + 1
    /\ step("off", "default_config")
    /\ \/ fresh' = is_fresh_install /\ no_fault
       \/ fresh' = TRUE /\ fails("state_read")
    /\ UNCHANGED <<disk, app, todo, failed, told, authors, edits, secrets>>

(* fatal: a message box, and the process is gone.                          *)
fatal(kind) == pc' = "off" /\ forget /\ fails(kind) /\ UNCHANGED disk

write_default_config ==
    /\ pc = "default_config"
    /\ \/ /\ pc' = "load_config"
          /\ toml' = IF toml = "absent" THEN "default" ELSE toml
          /\ no_fault /\ UNCHANGED <<saved, conf, vendor_bak, data, pma_dir, memory>>
       \/ toml = "absent" /\ fatal("toml")
    /\ UNCHANGED <<authors, bounds>>

is_readable == TRUE     \* faulty
is_valid == toml # "invalid"

load_config ==
    /\ pc = "load_config"
    /\ \/ is_valid /\ pc' = "runtime_dirs" /\ no_fault /\ UNCHANGED memory
       \/ ~is_valid /\ pc' = "off" /\ no_fault /\ forget
       \/ fatal("toml")
    /\ UNCHANGED <<disk, authors, bounds>>

(* The directories, the health endpoint and the document root hold nothing *)
(* that a later step reads.  Only the former can be fatal.                 *)
create_runtime_dirs ==
    /\ pc = "runtime_dirs"
    /\ \/ pc' = "read_state" /\ no_fault /\ UNCHANGED memory
       \/ fatal("dirs")
    /\ UNCHANGED <<disk, authors, bounds>>

(* What a reader makes of rampp.state: the default if there is none or it  *)
(* cannot be read, which nobody distinguishes.                             *)
stored == IF saved = NoState THEN default_stopped ELSE saved
read_persisted_state(record) ==
    \/ record = stored /\ no_fault
    \/ record = default_stopped /\ saved # NoState /\ fails("state_read")

(* The secret is kept if there is one.                                     *)
with_secret(record) ==
    IF record.secret # NoSecret
    THEN app' = record /\ UNCHANGED secrets
    ELSE app' = state_file(record.desired, generate_blowfish_secret) /\ generated

ReadState ==
    /\ step("read_state", "write_state")
    /\ \E record \in {stored, default_stopped} :
          read_persisted_state(record) /\ with_secret(record)
    /\ UNCHANGED <<disk, fresh, todo, failed, told, authors, launches, edits>>

(* The files to reconcile; config.inc.php only where phpMyAdmin is.        *)
desired_files ==
    <<"HttpdConf", "MyIni">> \o (IF pma_dir THEN <<"ConfigInc">> ELSE <<>>)
begin_reconcile == todo' = desired_files /\ failed' = {}

(* A write that fails is logged and no more.                               *)
write_persisted_state ==
    /\ pc = "write_state"
    /\ atomic_write(saved, app, "state_write")
    /\ IF fresh THEN pc' = "adopt" /\ UNCHANGED <<todo, failed>>
                ELSE pc' = "reconcile" /\ begin_reconcile
    /\ UNCHANGED <<toml, conf, vendor_bak, data, pma_dir, fresh, app, told, authors, bounds>>

(* adopt_vendor_httpd_conf: the backup, then the removal.  A backup that   *)
(* exists is never written again.                                          *)
backup_is_anyones == TRUE     \* faulty
backup_is_free == vendor_bak = "nobody"
adoptable == conf["HttpdConf"].by \in {"vendor", "user"} /\ backup_is_free

AdoptBackup ==
    /\ pc = "adopt"
    /\ \/ /\ adoptable /\ vendor_bak' = conf["HttpdConf"].by /\ no_fault
          /\ pc' = "remove" /\ UNCHANGED <<todo, failed>>
       \/ /\ pc' = "reconcile" /\ begin_reconcile
          /\ \/ ~adoptable /\ no_fault /\ UNCHANGED vendor_bak
             \/ conf["HttpdConf"] # absent /\ fails("conf_read") /\ UNCHANGED vendor_bak
             \/ adoptable /\ fails("backup") /\ vendor_bak' \in {vendor_bak, "torn"}
    /\ UNCHANGED <<toml, saved, conf, data, pma_dir, fresh, app, told, authors, bounds>>

AdoptRemove ==
    /\ step("remove", "reconcile") /\ begin_reconcile
    /\ \/ conf' = [conf EXCEPT !["HttpdConf"] = absent] /\ no_fault
       \/ fails("remove") /\ UNCHANGED conf
    /\ UNCHANGED <<toml, saved, vendor_bak, data, pma_dir, fresh, app, told, authors, bounds>>

(* The content a file should have.                                         *)
generate_config_inc_php(blowfish_secret) == [by |-> "rampp", says |-> blowfish_secret]
generate_conf == [by |-> "rampp", says |-> IF toml = "default" THEN 1 ELSE 2]
rendered(file) ==
    IF file = "ConfigInc" THEN generate_config_inc_php(app.secret) ELSE generate_conf

(* One file of a pass: left alone when it is not RAMPP's or says the right *)
(* thing, written otherwise; an error when it cannot be read or written.   *)
is_rampp_owned(content) == content.by = "rampp"
reconcile_file(file) ==
    LET old == conf[file]
        due == old = absent \/ (is_rampp_owned(old) /\ old # rendered(file))
        fail(kind) == fails(kind) /\ failed' = failed \union {file} /\ UNCHANGED conf
    IN  \/ due /\ conf' = [conf EXCEPT ![file] = rendered(file)] /\ no_fault /\ UNCHANGED failed
        \/ ~due /\ no_fault /\ UNCHANGED <<conf, failed>>
        \/ due /\ fail("conf_write")
        \/ old # absent /\ fail("conf_read")

Reconcile ==
    /\ pc \in {"reconcile", "loop"} /\ todo # <<>>
    /\ reconcile_file(Head(todo)) /\ todo' = Tail(todo)
    /\ UNCHANGED <<toml, saved, vendor_bak, data, pma_dir, pc, fresh, app, told, authors, bounds>>

(* MySQL's error is surfaced and its desired state dropped, in memory.     *)
surface(error) ==
    /\ pc' = "loop" /\ told' = error
    /\ app' = IF error THEN state_file([app.desired EXCEPT !["Mysql"] = FALSE], app.secret) ELSE app

initialise_when_fresh == fresh     \* faulty
needs_initialization == data \intersect {"ibdata1", "mysql"} = {}
my_ini_ignored == FALSE     \* faulty
my_ini_write_error == "MyIni" \in failed

CheckMysql ==
    /\ pc = "reconcile" /\ todo = <<>>
    /\ \/ my_ini_write_error /\ surface(TRUE)
       \/ ~my_ini_write_error /\ ~needs_initialization /\ surface(FALSE)
       \/ ~my_ini_write_error /\ needs_initialization /\ pc' = "clear" /\ UNCHANGED <<told, app>>
    /\ no_fault /\ UNCHANGED <<disk, fresh, todo, failed, authors, bounds>>

(* initialize_mysql: clear the directory, then run mysqld, which reports   *)
(* success without doing anything when it finds no my.ini.                 *)
ClearData ==
    /\ pc = "clear"
    /\ \/ data' = {} /\ pc' = "mysqld" /\ no_fault /\ UNCHANGED <<told, app>>
       \/ UNCHANGED data /\ surface(TRUE) /\ fails("clear")
    /\ UNCHANGED <<toml, saved, conf, vendor_bak, pma_dir, fresh, todo, failed, authors, bounds>>

InitializeMysql ==
    /\ pc = "mysqld"
    /\ \/ /\ data' = IF conf["MyIni"] = absent THEN data ELSE Entries
          /\ surface(FALSE) /\ no_fault
       \/ data' \in Unfinished /\ surface(TRUE) /\ fails("mysqld")
    /\ UNCHANGED <<toml, saved, conf, vendor_bak, pma_dir, fresh, todo, failed, authors, bounds>>

-------------------------------------------------------------------------------
(* The loop's effects on these files, between two of which it reconciles.  *)
Ready == pc = "loop" /\ todo = <<>>

(* do_persist keeps the secret it finds in the file and drops it when the  *)
(* file cannot be read.                                                    *)
lost_secret(record) == NoSecret     \* faulty
kept_secret(record) == record.secret

state_before(secret) == state_file(app.desired, secret)     \* faulty
state_now(secret) == state_file(app'.desired, secret)

do_persist ==
    \/ saved' = state_now(kept_secret(stored)) /\ no_fault
    \/ saved' = state_now(NoSecret) /\ saved # NoState /\ fails("state_read")
    \/ fails("state_write") /\ UNCHANGED saved

(* The user starts or stops a service.                                     *)
SaveWish ==
    /\ Ready
    /\ \E svc \in Service, value \in BOOLEAN :
          /\ app' = state_file([app.desired EXCEPT ![svc] = value], app.secret)
          /\ wish' = [wish EXCEPT ![svc] = value]
    /\ do_persist
    /\ UNCHANGED <<toml, conf, vendor_bak, data, pma_dir, pc, fresh, todo, failed, told,
                   foreign, bounds>>

(* The window is closed, or Exit chosen in the tray: ShutdownAll stops     *)
(* every service, as a user's stop would, and saves that.                  *)
Close ==
    /\ Ready /\ pc' = "off" /\ forget /\ do_persist
    /\ wish' = default_stopped.desired
    /\ UNCHANGED <<toml, conf, vendor_bak, data, pma_dir, foreign, bounds>>

(* do_reconcile: the secret in the file or, if there is none, a new one    *)
(* that is saved with whatever else was read; then the files.              *)
load_or_generate_blowfish_secret ==
    \/ /\ stored.secret # NoSecret
       /\ app' = state_file(app.desired, stored.secret)
       /\ no_fault /\ UNCHANGED <<saved, secrets>>
    \/ /\ stored.secret = NoSecret
       /\ app' = state_file(app.desired, generate_blowfish_secret) /\ generated
       /\ atomic_write(saved, state_file(stored.desired, generate_blowfish_secret), "state_write")
    \/ /\ saved # NoState /\ fails("state_read")
       /\ app' = state_file(app.desired, generate_blowfish_secret) /\ generated
       /\ saved' = state_file(default_stopped.desired, generate_blowfish_secret)

BeginReconcile ==
    /\ Ready
    /\ load_or_generate_blowfish_secret /\ begin_reconcile
    /\ UNCHANGED <<toml, conf, vendor_bak, data, pma_dir, pc, fresh, told, authors, launches, edits>>

(* RAMPP is killed, or main() gives up waiting for the loop to shut down.  *)
(* What was being written may be half there; a mysqld that is initialising *)
(* stops or finishes.                                                      *)
Kill ==
    /\ pc # "off" /\ pc' = "off" /\ forget
    /\ \/ UNCHANGED data
       \/ pc = "clear" /\ data' \in SUBSET data
       \/ pc = "mysqld" /\ conf["MyIni"] # absent /\ data' \in SUBSET Entries
    /\ \/ UNCHANGED vendor_bak
       \/ pc = "adopt" /\ adoptable /\ vendor_bak' = "torn"
    /\ mishaps' = IF Ready THEN mishaps ELSE mishaps \union {"kill"}
    /\ UNCHANGED <<toml, saved, conf, pma_dir, authors, bounds, faults>>

-------------------------------------------------------------------------------
(* The user.  Files are edited while RAMPP is off or at rest; taking over  *)
(* a file is removing its marker.                                          *)
edited(kind) == kind \in Edits /\ edits < MaxEdits /\ edits' = edits + 1

EditConf ==
    \E file \in Managed :
        /\ \/ edited("take_over") /\ is_rampp_owned(conf[file]) /\ conf' = [conf EXCEPT ![file] = by_user]
           \/ edited("delete_conf") /\ conf' = [conf EXCEPT ![file] = absent]
        /\ foreign' = IF file = "HttpdConf"
                      THEN ({conf'[file].by} \ {"nobody"}) \union (foreign \intersect {vendor_bak})
                      ELSE foreign
        /\ UNCHANGED <<toml, saved, data, pma_dir, wish, mishaps>>

EditToml ==
    /\ pc = "off"
    /\ \/ edited("edit_toml") /\ toml' = "edited"
       \/ edited("break_toml") /\ toml' = "invalid"
       \/ edited("delete_toml") /\ toml' = "absent"
    /\ UNCHANGED <<saved, conf, data, pma_dir, authors, mishaps>>

EditDisk ==
    /\ \/ /\ pc = "off" /\ edited("delete_state")
          /\ saved' = NoState /\ wish' = default_stopped.desired
          /\ mishaps' = mishaps \union {"delete_state"} /\ UNCHANGED <<data, pma_dir>>
       \/ pc = "off" /\ edited("delete_data") /\ data' = {} /\ UNCHANGED <<saved, pma_dir, wish, mishaps>>
       \/ edited("phpmyadmin") /\ pma_dir' = ~pma_dir /\ UNCHANGED <<saved, data, wish, mishaps>>
    /\ UNCHANGED <<toml, conf, foreign>>

UserEdit ==
    /\ pc = "off" \/ Ready
    /\ EditConf \/ EditToml \/ EditDisk
    /\ UNCHANGED <<vendor_bak, pc, memory, faults, launches, secrets>>

-------------------------------------------------------------------------------
(* A new installation: Apache's own httpd.conf may be there, and           *)
(* phpMyAdmin; nothing of RAMPP's is.                                      *)
StartupInit ==
    /\ toml = "absent" /\ saved = NoState /\ data = {} /\ vendor_bak = "nobody"
    /\ pma_dir \in BOOLEAN
    /\ \E first \in {absent, by_vendor} :
          conf = [file \in Managed |-> IF file = "HttpdConf" THEN first ELSE absent]
    /\ pc = "off" /\ fresh = FALSE /\ app = default_stopped /\ todo = <<>>
    /\ failed = {} /\ told = FALSE
    /\ wish = default_stopped.desired
    /\ foreign = {conf["HttpdConf"].by} \ {"nobody"}
    /\ mishaps = {} /\ launches = 0 /\ edits = 0 /\ faults = 0 /\ secrets = 0

StartupStep ==
    \/ write_default_config \/ load_config \/ create_runtime_dirs
    \/ ReadState \/ write_persisted_state
    \/ AdoptBackup \/ AdoptRemove \/ Reconcile
    \/ CheckMysql \/ ClearData \/ InitializeMysql

StartupNext ==
    \/ Launch \/ StartupStep
    \/ SaveWish \/ BeginReconcile \/ Close
    \/ Kill \/ UserEdit

StartupSpec == StartupInit /\ [][StartupNext]_startup_vars

-------------------------------------------------------------------------------
(* Types, and nothing but a valid rampp.toml gets past load_config.        *)
StartupTypeOK ==
    /\ toml \in {"absent", "default", "edited", "invalid"}
    /\ saved = NoState \/ saved \in StateFile
    /\ conf \in [Managed -> Content]
    /\ vendor_bak \in {"nobody", "vendor", "user", "torn"}
    /\ data \in SUBSET Entries /\ pma_dir \in BOOLEAN
    /\ pc \in {"off", "default_config", "load_config", "runtime_dirs", "read_state",
               "write_state", "adopt", "remove", "reconcile", "clear", "mysqld", "loop"}
    /\ fresh \in BOOLEAN /\ told \in BOOLEAN /\ app \in StateFile
    /\ todo \in Seq(Managed) /\ failed \subseteq Managed
    /\ wish \in [Service -> BOOLEAN] /\ foreign \subseteq {"vendor", "user"}
    /\ mishaps \subseteq FaultKinds \union {"kill", "delete_state"}
    /\ {launches, edits, faults, secrets} \subseteq Nat
    /\ pc \notin {"off", "default_config", "load_config"} => toml \in {"default", "edited"}

(* An httpd.conf that RAMPP did not write is never lost: it stays where it *)
(* is or in its backup, through every failure and every later launch       *)
(* (provision.rs: adopt_vendor_httpd_conf refuses a second backup).        *)
ForeignKept == foreign \subseteq {conf["HttpdConf"].by, vendor_bak}

StateIsSound == {"state_read", "state_write", "delete_state"} \intersect mishaps = {}

(* A file the user took over is not touched again by any later launch or   *)
(* pass, whatever else the user deletes (README: "remove the marker and    *)
(* the file becomes yours").  Only a lost or unreadable rampp.state makes  *)
(* a launch believe that the installation is new.                            *)
UserFileStays ==
    [][\A file \in Managed :
          conf[file] = by_user /\ conf'[file] # by_user
             => \/ edits' # edits
                \/ ~StateIsSound']_startup_vars

(* When nothing fails and nobody kills it, the first launch replaces the   *)
(* vendor's httpd.conf by RAMPP's own before the loop starts.              *)
FreshIsAdopted == Ready /\ mishaps = {} => conf["HttpdConf"] # by_vendor

(* RAMPP never clears a data directory that was initialised, however many  *)
(* launches, failures and resets of its own files come after.              *)
DataKept == [][data = Entries => data' = Entries \/ edits' # edits]_startup_vars

(* The loop never starts without MySQL's data and without an error that    *)
(* says so; only an initialisation cut short behind its first files does.  *)
EmptyIsReported == pc = "loop" /\ needs_initialization => told

(* While rampp.state can be read and written, phpMyAdmin's cookie secret   *)
(* in config.inc.php does not change from one rendering to the next.       *)
SecretKept ==
    [][StateIsSound' /\ is_rampp_owned(conf["ConfigInc"]) /\ is_rampp_owned(conf'["ConfigInc"])
          => conf'["ConfigInc"].says = conf["ConfigInc"].says]_startup_vars

(* What the user last asked for is what the next launch restores, unless   *)
(* rampp.state was damaged; an initialisation that failed makes RAMPP      *)
(* forget, at the next save, that MySQL was wanted.  Closing RAMPP asks    *)
(* for everything to stop (reducer.rs, ShutdownAll): after it the file     *)
(* says so, and only a kill leaves the next launch services to restore.    *)
MysqlFaults == {"conf_read", "conf_write", "clear", "mysqld"}
WishKept ==
    saved # NoState /\ StateIsSound =>
        \A svc \in Service :
            \/ saved.desired[svc] = wish[svc]
            \/ svc = "Mysql" /\ ~saved.desired[svc] /\ MysqlFaults \intersect mishaps # {}

(* MySQL's data is complete or its error is shown: a failed initialisation *)
(* is repeated by the next launch (mysql_conf.rs: "Clear any leftovers     *)
(* from a prior failed init so this run can succeed").                     *)
FailedInitIsRepeated == pc = "loop" => data = Entries \/ told
===============================================================================
