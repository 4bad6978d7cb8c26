----------------------------- MODULE StartupProofs -----------------------------
(***************************************************************************)
(* What TLAPS proves of Startup for every set of services, every number of *)
(* launches, failures, edits and secrets, and whichever of the failures    *)
(* and edits an instance allows: what a kill between any two steps of      *)
(* main() leaves behind never costs the user a file, a secret or a wish.   *)
(***************************************************************************)
EXTENDS Startup, TLAPS

(* The inductive invariant, one part per promise. Its types:               *)
(* write_default_config leaves a rampp.toml behind, so that load_config    *)
(* cannot meet a missing one.                                              *)
TypeInv == StartupTypeOK /\ (pc = "load_config" => toml # "absent")

(* Between the backup and the removal both hold the same httpd.conf.       *)
ForeignInv == ForeignKept /\ (pc = "remove" => vendor_bak = conf["HttpdConf"].by)

(* Until its turn comes my.ini is in todo; after it my.ini is there or the *)
(* write has failed, and CheckMysql goes on only in the first case. So     *)
(* mysqld never meets a missing my.ini, and what it fills was empty.       *)
DataInv ==
    /\ pc = "reconcile" =>
          \/ "MyIni" \in failed \/ conf["MyIni"] # absent
          \/ \E i \in DOMAIN todo : todo[i] = "MyIni"
    /\ pc \in {"clear", "mysqld"} => conf["MyIni"] # absent
    /\ pc = "clear" => needs_initialization
    /\ pc = "mysqld" => data = {}
    /\ EmptyIsReported

BeforeSave == {"default_config", "load_config", "runtime_dirs", "read_state", "write_state"}
Adopting == {"adopt", "remove"}
AfterSave == Adopting \union {"reconcile", "clear", "mysqld", "loop"}
NotUsers == conf["HttpdConf"].by \in {"nobody", "vendor"}

(* As long as rampp.state is sound, a launch that believes the             *)
(* installation to be new finds no file of the user's, and                 *)
(* write_persisted_state ends that belief for good.                        *)
FreshInv ==
    StateIsSound =>
        /\ saved = NoState \/ pc \in Adopting => NotUsers
        /\ fresh /\ pc \in BeforeSave => saved = NoState
        /\ pc \in AfterSave => saved # NoState

(* While nothing has failed the vendor's httpd.conf is there only up to    *)
(* its removal, which the first launch reaches with the backup still free. *)
AdoptInv ==
    mishaps = {} /\ conf["HttpdConf"] = by_vendor =>
        /\ vendor_bak = "nobody" \/ pc = "remove"
        /\ pc \in {"off"} \union BeforeSave \union Adopting
        /\ pc \in {"off"} \union BeforeSave => saved = NoState
        /\ pc \in BeforeSave => fresh

(* The secret is one, on disk, in memory and in config.inc.php.            *)
SecretInv ==
    StateIsSound =>
        /\ saved # NoState => saved.secret # NoSecret
        /\ pc \in AfterSave => saved # NoState /\ app.secret = saved.secret
        /\ pc = "write_state" =>
              app.secret # NoSecret /\ (saved # NoState => app.secret = saved.secret)
        /\ is_rampp_owned(conf["ConfigInc"]) =>
              saved # NoState /\ conf["ConfigInc"].says = saved.secret

(* What is in memory honours the user's wish as much as what is on disk,   *)
(* because the next save writes it; a file can be in failed only after one *)
(* of the failures that WishKept excuses.                                  *)
honoured(record) ==
    \A svc \in Service :
        \/ record.desired[svc] = wish[svc]
        \/ svc = "Mysql" /\ ~record.desired[svc] /\ MysqlFaults \intersect mishaps # {}
WishInv ==
    /\ failed # {} => MysqlFaults \intersect mishaps # {}
    /\ StateIsSound =>
        /\ saved = NoState => wish = default_stopped.desired
        /\ saved # NoState => honoured(saved)
        /\ pc \in {"write_state"} \union AfterSave => honoured(app)

SInv == TypeInv /\ ForeignInv /\ DataInv /\ FreshInv /\ AdoptInv /\ SecretInv /\ WishInv

-------------------------------------------------------------------------------
(* The constant values of the model, and the list of files that a pass     *)
(* goes through (provision.rs, desired_configs).                           *)
LEMMA ValuesTyped ==
    /\ default_stopped \in StateFile /\ <<>> \in Seq(Managed)
    /\ absent \in Content /\ by_vendor \in Content /\ by_user \in Content
    /\ desired_files \in Seq(Managed)
<1>1. default_stopped \in StateFile
  BY DEF default_stopped, StateFile, state_file, NoSecret
<1>2. <<>> \in Seq(Managed) /\ desired_files \in Seq(Managed)
  <2>1. <<"HttpdConf", "MyIni">> \in Seq(Managed) /\ <<"ConfigInc">> \in Seq(Managed) /\ <<>> \in Seq(Managed)
    BY DEF Managed
  <2> QED
    BY <2>1 DEF desired_files
<1>3. absent \in Content /\ by_vendor \in Content /\ by_user \in Content
  BY DEF absent, by_vendor, by_user, Content, Author
<1> QED
  BY <1>1, <1>2, <1>3

(* What RAMPP renders is a file, and carries its marker (provision.rs,     *)
(* is_rampp_owned): the next pass recognises it.                           *)
LEMMA RenderedTyped ==
    ASSUME app \in StateFile, NEW file
    PROVE  rendered(file) \in Content /\ is_rampp_owned(rendered(file))
BY DEF rendered, generate_conf, generate_config_inc_php, Content, Author, StateFile,
   is_rampp_owned

(* The state record is built as it is read: both fields come back.         *)
LEMMA RecordTyped ==
    ASSUME NEW wanted \in [Service -> BOOLEAN], NEW secret \in Nat
    PROVE  /\ state_file(wanted, secret) \in StateFile /\ state_file(wanted, secret) # NoState
           /\ state_file(wanted, secret).desired = wanted
           /\ state_file(wanted, secret).secret = secret
BY DEF state_file, StateFile, NoState

(* A rampp.state that exists is not the missing one.                       *)
LEMMA StateIsState ==
    ASSUME NEW record \in StateFile
    PROVE  record # NoState
<1>1. DOMAIN record = {"desired", "secret"}
  BY DEF StateFile
<1>2. DOMAIN NoState = {"gone"}
  BY DEF NoState
<1> QED
  BY <1>1, <1>2

(* What read_persisted_state returns has both fields, whether the file is  *)
(* there or not.                                                           *)
LEMMA StoredTyped ==
    ASSUME StartupTypeOK
    PROVE  stored \in StateFile
BY ValuesTyped DEF stored, StartupTypeOK

(* A generated secret is a number.                                         *)
LEMMA NewSecretTyped ==
    ASSUME StartupTypeOK
    PROVE  secrets \in Nat /\ secrets + 1 \in Nat /\ generate_blowfish_secret \in Nat
<1>1. secrets \in Nat
  BY DEF StartupTypeOK
<1> QED
  BY <1>1 DEF generate_blowfish_secret

(* Surfacing MySQL's error (main.rs) starts the loop, keeps the secret and *)
(* changes no wish but MySQL's, and that one only when there is an error.  *)
LEMMA SurfaceTyped ==
    ASSUME StartupTypeOK, NEW error \in BOOLEAN, surface(error)
    PROVE  /\ pc' = "loop" /\ told' = error
           /\ app' \in StateFile /\ app'.secret = app.secret
           /\ \/ app'.desired = app.desired
              \/ error /\ app'.desired = [app.desired EXCEPT !["Mysql"] = FALSE]
<1> DEFINE unwanted == [app.desired EXCEPT !["Mysql"] = FALSE]
<1>1. unwanted \in [Service -> BOOLEAN] /\ app.secret \in Nat /\ app \in StateFile
  BY DEF StartupTypeOK, StateFile
<1>2. pc' = "loop" /\ told' = error /\ app' = IF error THEN state_file(unwanted, app.secret) ELSE app
  BY DEF surface
<1> HIDE DEF unwanted
<1>3. CASE error
  <2>1. app' = state_file(unwanted, app.secret)
    BY <1>2, <1>3
  <2>2. app' \in StateFile /\ app'.secret = app.secret /\ app'.desired = unwanted
    BY <1>1, <2>1, RecordTyped
  <2> QED
    BY <1>2, <1>3, <2>2 DEF unwanted
<1>4. CASE ~error
  BY <1>1, <1>2, <1>4
<1> QED
  BY <1>3, <1>4

(* A failure is counted and remembered under its kind.                     *)
LEMMA FaultTyped ==
    ASSUME StartupTypeOK, NEW kind, fails(kind) \/ no_fault
    PROVE  faults' \in Nat /\ mishaps' \subseteq FaultKinds \union {"kill", "delete_state"}
BY StartupAssumption DEF StartupAssumption, StartupTypeOK, fails, no_fault

(* do_persist writes a state record or leaves the file as it is.           *)
LEMMA PersistTyped ==
    ASSUME StartupTypeOK, app' \in StateFile, do_persist
    PROVE  /\ saved' \in StateFile \/ UNCHANGED saved
           /\ faults' \in Nat /\ mishaps' \subseteq FaultKinds \union {"kill", "delete_state"}
<1>1. stored.secret \in Nat /\ NoSecret \in Nat /\ app'.desired \in [Service -> BOOLEAN]
  BY StoredTyped DEF StateFile, NoSecret
<1>2. saved' \in StateFile \/ UNCHANGED saved
  BY <1>1, RecordTyped DEF do_persist, state_now, kept_secret
<1> QED
  BY <1>2, FaultTyped DEF do_persist

(* Every step preserves the types, one case per action.                    *)
LEMMA TypeStep ==
    ASSUME TypeInv, [StartupNext]_startup_vars
    PROVE  TypeInv'
<1> USE ValuesTyped, FaultTyped DEF TypeInv, startup_vars, disk, memory, authors, bounds
<1>1. CASE Launch
  <2>1. fresh' \in BOOLEAN
    BY <1>1, Zenon DEF Launch, is_fresh_install
  <2> QED
    BY <1>1, <2>1 DEF StartupTypeOK, Launch, step
<1>2. CASE write_default_config
  BY <1>2 DEF StartupTypeOK, write_default_config, fatal, forget
<1>3. CASE load_config
  BY <1>3 DEF StartupTypeOK, load_config, is_valid, fatal, forget
<1>4. CASE create_runtime_dirs
  BY <1>4 DEF StartupTypeOK, create_runtime_dirs, fatal, forget
<1>5. CASE ReadState
  <2>1. PICK record \in {stored, default_stopped} : read_persisted_state(record) /\ with_secret(record)
    BY <1>5 DEF ReadState
  <2>2. record \in StateFile /\ record.desired \in [Service -> BOOLEAN]
    BY <2>1, StoredTyped DEF StateFile
  <2>3. app' \in StateFile /\ secrets' \in Nat
    BY <2>1, <2>2, NewSecretTyped, RecordTyped DEF with_secret, generated
  <2>4. faults' \in Nat /\ mishaps' \subseteq FaultKinds \union {"kill", "delete_state"}
    BY <2>1 DEF read_persisted_state
  <2> QED
    BY <1>5, <2>3, <2>4 DEF StartupTypeOK, ReadState, step
<1>6. CASE write_persisted_state
  BY <1>6 DEF StartupTypeOK, write_persisted_state, atomic_write, begin_reconcile
<1>7. CASE AdoptBackup
  BY <1>7 DEF StartupTypeOK, AdoptBackup, adoptable, begin_reconcile
<1>8. CASE AdoptRemove
  BY <1>8 DEF StartupTypeOK, AdoptRemove, begin_reconcile, step
<1>9. CASE Reconcile
  <2>1. todo \in Seq(Managed) /\ todo # <<>>
    BY <1>9 DEF StartupTypeOK, Reconcile
  <2>2. Head(todo) \in Managed /\ Tail(todo) \in Seq(Managed)
    BY <2>1
  <2>3. rendered(Head(todo)) \in Content
    BY RenderedTyped DEF StartupTypeOK
  <2>4. conf' \in [Managed -> Content] /\ failed' \subseteq Managed
    BY <1>9, <2>2, <2>3 DEF StartupTypeOK, Reconcile, reconcile_file
  <2>5. faults' \in Nat /\ mishaps' \subseteq FaultKinds \union {"kill", "delete_state"}
    BY <1>9 DEF Reconcile, reconcile_file
  <2> QED
    BY <1>9, <2>2, <2>4, <2>5 DEF StartupTypeOK, Reconcile
<1>10. CASE CheckMysql
  <2>1. pc' \in {"loop", "clear"} /\ told' \in BOOLEAN /\ app' \in StateFile
    BY <1>10, SurfaceTyped DEF StartupTypeOK, CheckMysql
  <2> QED
    BY <1>10, <2>1 DEF StartupTypeOK, CheckMysql
<1>11. CASE ClearData
  <2>1. pc' \in {"loop", "mysqld"} /\ told' \in BOOLEAN /\ app' \in StateFile
    BY <1>11, SurfaceTyped DEF StartupTypeOK, ClearData
  <2> QED
    BY <1>11, <2>1 DEF StartupTypeOK, ClearData
<1>12. CASE InitializeMysql
  <2>1. pc' = "loop" /\ told' \in BOOLEAN /\ app' \in StateFile
    BY <1>12, SurfaceTyped DEF InitializeMysql
  <2> QED
    BY <1>12, <2>1 DEF StartupTypeOK, InitializeMysql, Unfinished
<1>13. CASE SaveWish
  <2>1. PICK svc \in Service, value \in BOOLEAN :
           /\ app' = state_file([app.desired EXCEPT ![svc] = value], app.secret)
           /\ wish' = [wish EXCEPT ![svc] = value]
    BY <1>13 DEF SaveWish
  <2>2. [app.desired EXCEPT ![svc] = value] \in [Service -> BOOLEAN] /\ app.secret \in Nat
    BY DEF StartupTypeOK, StateFile
  <2>3. app' \in StateFile /\ app'.desired \in [Service -> BOOLEAN]
    BY <2>1, <2>2, RecordTyped
  <2>4. /\ saved' \in StateFile \/ UNCHANGED saved
        /\ faults' \in Nat /\ mishaps' \subseteq FaultKinds \union {"kill", "delete_state"}
    BY <1>13, <2>3, PersistTyped DEF SaveWish
  <2> QED
    BY <1>13, <2>1, <2>3, <2>4 DEF StartupTypeOK, SaveWish
<1>14. CASE BeginReconcile
  <2>1. /\ app.desired \in [Service -> BOOLEAN] /\ stored.desired \in [Service -> BOOLEAN]
        /\ default_stopped.desired \in [Service -> BOOLEAN] /\ stored.secret \in Nat
    BY StoredTyped DEF StartupTypeOK, StateFile
  <2>2. app' \in StateFile /\ secrets' \in Nat /\ (saved' = saved \/ saved' \in StateFile)
    BY <1>14, <2>1, NewSecretTyped, RecordTyped
       DEF BeginReconcile, load_or_generate_blowfish_secret, generated, atomic_write
  <2>3. faults' \in Nat /\ mishaps' \subseteq FaultKinds \union {"kill", "delete_state"}
    BY <1>14 DEF BeginReconcile, load_or_generate_blowfish_secret, atomic_write
  <2> QED
    BY <1>14, <2>2, <2>3 DEF StartupTypeOK, BeginReconcile, begin_reconcile
<1>15. CASE Kill
  <2>1. data' \subseteq Entries
    BY <1>15 DEF StartupTypeOK, Kill
  <2>2. mishaps' \subseteq FaultKinds \union {"kill", "delete_state"}
    BY <1>15 DEF StartupTypeOK, Kill
  <2> QED
    BY <1>15, <2>1, <2>2 DEF StartupTypeOK, Kill, forget
<1>16. CASE UserEdit
  <2>1. edits' \in Nat
    BY <1>16 DEF StartupTypeOK, UserEdit, EditConf, EditToml, EditDisk, edited
  <2>2. CASE EditConf
    <3>1. PICK file \in Managed :
             /\ conf' \in {[conf EXCEPT ![file] = by_user], [conf EXCEPT ![file] = absent]}
             /\ \/ foreign' = foreign
                \/ foreign' = ({conf'[file].by} \ {"nobody"}) \union (foreign \intersect {vendor_bak})
      BY <2>2 DEF EditConf
    <3>2. conf' \in [Managed -> Content] /\ conf'[file].by \in {"user", "nobody"}
      BY <3>1 DEF StartupTypeOK, by_user, absent
    <3>3. foreign' \subseteq {"vendor", "user"}
      BY <3>1, <3>2 DEF StartupTypeOK
    <3>4. UNCHANGED <<toml, saved, data, pma_dir, wish, mishaps>>
      BY <2>2 DEF EditConf
    <3> QED
      BY <1>16, <2>1, <3>2, <3>3, <3>4 DEF StartupTypeOK, UserEdit
  <2>3. CASE EditToml
    BY <1>16, <2>1, <2>3 DEF StartupTypeOK, UserEdit, EditToml
  <2>4. CASE EditDisk
    <3>1. wish' \in [Service -> BOOLEAN]
      BY <2>4 DEF StartupTypeOK, EditDisk, StateFile
    <3> QED
      BY <1>16, <2>1, <2>4, <3>1 DEF StartupTypeOK, UserEdit, EditDisk, Ready
  <2> QED
    BY <1>16, <2>2, <2>3, <2>4 DEF UserEdit
<1>17. CASE Close
  <2>1. app' = default_stopped /\ wish' = default_stopped.desired
    BY <1>17 DEF Close, forget
  <2>2. app' \in StateFile /\ wish' \in [Service -> BOOLEAN]
    BY <2>1 DEF StateFile
  <2>3. /\ saved' \in StateFile \/ UNCHANGED saved
        /\ faults' \in Nat /\ mishaps' \subseteq FaultKinds \union {"kill", "delete_state"}
    BY <1>17, <2>2, PersistTyped DEF Close
  <2> QED
    BY <1>17, <2>2, <2>3 DEF StartupTypeOK, Close, forget
<1>18. CASE UNCHANGED startup_vars
  BY <1>18 DEF StartupTypeOK
<1> QED
    BY <1>1, <1>2, <1>3, <1>4, <1>5, <1>6, <1>7, <1>8, <1>9, <1>10, <1>11, <1>12, <1>13,
     <1>14, <1>15, <1>16, <1>17, <1>18
  DEF StartupNext, StartupStep

-------------------------------------------------------------------------------
(* Every step preserves ForeignInv: only the removal, a pass and the user  *)
(* touch httpd.conf, and the removal comes right after the backup.         *)
LEMMA ForeignStep ==
    ASSUME TypeInv, ForeignInv, [StartupNext]_startup_vars
    PROVE  ForeignInv'
<1> USE DEF ForeignInv, ForeignKept
<1>1. CASE UNCHANGED <<conf, vendor_bak, foreign>> /\ pc' # "remove"
  BY <1>1
<1>2. CASE Launch \/ write_default_config \/ load_config \/ create_runtime_dirs \/ ReadState
           \/ write_persisted_state \/ CheckMysql \/ ClearData \/ InitializeMysql
           \/ SaveWish \/ BeginReconcile \/ Close
  BY <1>1, <1>2
     DEF Launch, write_default_config, load_config, create_runtime_dirs, ReadState, fatal,
     write_persisted_state, CheckMysql, ClearData, InitializeMysql, surface, SaveWish, BeginReconcile,
     Close, step, disk, authors, Ready
<1>3. CASE AdoptBackup
  BY <1>3 DEF AdoptBackup, adoptable, backup_is_free, authors, TypeInv, StartupTypeOK
<1>4. CASE AdoptRemove
  BY <1>4 DEF AdoptRemove, step, authors, TypeInv, StartupTypeOK, absent
<1>5. CASE Reconcile
  BY <1>5, RenderedTyped
     DEF Reconcile, reconcile_file, is_rampp_owned, authors, TypeInv, StartupTypeOK,
     absent, Content, Managed
<1>6. CASE Kill
  BY <1>6 DEF Kill, adoptable, backup_is_free, authors, TypeInv, StartupTypeOK
<1>7. CASE UserEdit
  <2>1. vendor_bak' = vendor_bak /\ pc' # "remove"
    BY <1>7 DEF UserEdit, Ready
  <2>2. CASE EditConf
    BY <2>1, <2>2 DEF EditConf, TypeInv, StartupTypeOK, Managed
  <2>3. CASE EditToml \/ EditDisk
    BY <2>1, <2>3, <1>1 DEF EditToml, EditDisk, authors
  <2> QED
    BY <1>7, <2>2, <2>3 DEF UserEdit
<1>8. CASE UNCHANGED startup_vars
  BY <1>8 DEF startup_vars, disk, authors
<1> QED
  BY <1>2, <1>3, <1>4, <1>5, <1>6, <1>7, <1>8 DEF StartupNext, StartupStep

(* Every step preserves DataInv: a pass visits my.ini before CheckMysql    *)
(* runs, and only CheckMysql leads to the clearing of the data directory.  *)
LEMMA DataStep ==
    ASSUME TypeInv, DataInv, [StartupNext]_startup_vars
    PROVE  DataInv'
<1> USE DEF DataInv, EmptyIsReported, needs_initialization, BeforeSave
<1>1. CASE UNCHANGED <<conf, data, failed, todo, told>>
           /\ pc' \in {pc, "off"} \union BeforeSave
  BY <1>1
<1>2. CASE Launch \/ write_default_config \/ load_config \/ create_runtime_dirs \/ ReadState
           \/ Kill
  BY <1>2 DEF Launch, write_default_config, load_config, create_runtime_dirs, ReadState, fatal,
     step, disk, memory, Kill
<1>3. CASE write_persisted_state \/ AdoptBackup \/ AdoptRemove
  <2>1. pc' \in {"adopt", "remove"} \/ (pc' = "reconcile" /\ begin_reconcile)
    BY <1>3 DEF write_persisted_state, AdoptBackup, AdoptRemove, step
  <2>2. begin_reconcile => \E i \in DOMAIN todo' : todo'[i] = "MyIni"
    <3>1. desired_files[2] = "MyIni" /\ 2 \in DOMAIN desired_files
      BY DEF desired_files
    <3> QED
      BY <3>1 DEF begin_reconcile
  <2> QED
    BY <2>1, <2>2
<1>4. CASE Reconcile
  <2>1. todo \in Seq(Managed) /\ todo # <<>> /\ todo' = Tail(todo) /\ pc' = pc /\ UNCHANGED <<data, told>>
    BY <1>4 DEF Reconcile, TypeInv, StartupTypeOK
  <2>2. \A i \in DOMAIN todo : i = 1 \/ (i - 1 \in DOMAIN Tail(todo) /\ Tail(todo)[i - 1] = todo[i])
    BY <2>1
  <2>3. conf["MyIni"] # absent => conf'["MyIni"] # absent
    <3>1. rendered(Head(todo)) # absent
      BY RenderedTyped DEF TypeInv, StartupTypeOK, is_rampp_owned, absent
    <3>2. conf' = conf \/ conf' = [conf EXCEPT ![Head(todo)] = rendered(Head(todo))]
      BY <1>4 DEF Reconcile, reconcile_file
    <3> QED
      BY <3>1, <3>2 DEF TypeInv, StartupTypeOK, Managed
  <2>4. "MyIni" \in failed => "MyIni" \in failed'
    BY <1>4 DEF Reconcile, reconcile_file
  <2>5. Head(todo) = "MyIni" => "MyIni" \in failed' \/ conf'["MyIni"] # absent
    BY <1>4, RenderedTyped
       DEF Reconcile, reconcile_file, TypeInv, StartupTypeOK, is_rampp_owned, absent,
       Managed
  <2>6. pc' \in {"reconcile", "loop"}
    BY <1>4, <2>1 DEF Reconcile
  <2>7. pc' = "reconcile" =>
           "MyIni" \in failed' \/ conf'["MyIni"] # absent \/ \E i \in DOMAIN todo' : todo'[i] = "MyIni"
    <3>1. CASE Head(todo) = "MyIni"
      BY <2>5, <3>1
    <3>2. CASE Head(todo) # "MyIni" /\ "MyIni" \notin failed /\ conf["MyIni"] = absent /\ pc = "reconcile"
      <4>1. PICK i \in DOMAIN todo : todo[i] = "MyIni"
        BY <3>2
      <4>2. i # 1
        BY <2>1, <3>2, <4>1
      <4> QED
        BY <2>1, <2>2, <4>1, <4>2
    <3> QED
      BY <2>1, <2>3, <2>4, <3>1, <3>2
  <2> QED
    BY <2>1, <2>6, <2>7
<1>5. CASE CheckMysql
  BY <1>5 DEF CheckMysql, surface, my_ini_write_error, disk
<1>6. CASE ClearData
  BY <1>6 DEF ClearData, surface
<1>7. CASE InitializeMysql
  BY <1>7 DEF InitializeMysql, surface, Entries
<1>8. CASE SaveWish \/ BeginReconcile \/ Close
  BY <1>8 DEF SaveWish, BeginReconcile, Close, Ready
<1>9. CASE UserEdit
  BY <1>9 DEF UserEdit, EditConf, EditToml, EditDisk, Ready, memory
<1>10. CASE UNCHANGED startup_vars
  BY <1>1, <1>10 DEF startup_vars, disk, memory
<1> QED
  BY <1>2, <1>3, <1>4, <1>5, <1>6, <1>7, <1>8, <1>9, <1>10 DEF StartupNext, StartupStep

(* A failure, once it happened, is never forgotten: while rampp.state is   *)
(* sound after a step it was sound before it.                              *)
LEMMA MishapsStay ==
    ASSUME [StartupNext]_startup_vars
    PROVE  mishaps \subseteq mishaps' /\ (StateIsSound' => StateIsSound)
<1> USE DEF fails, no_fault
<1>1. CASE Launch \/ write_default_config \/ load_config \/ create_runtime_dirs \/ ReadState
           \/ write_persisted_state \/ AdoptBackup \/ AdoptRemove
  BY <1>1 DEF Launch, write_default_config, load_config, create_runtime_dirs, ReadState,
     read_persisted_state, write_persisted_state, atomic_write, AdoptBackup, AdoptRemove, fatal, StateIsSound
<1>2. CASE Reconcile \/ CheckMysql \/ ClearData \/ InitializeMysql
  BY <1>2 DEF Reconcile, reconcile_file, CheckMysql, ClearData, InitializeMysql, StateIsSound
<1>3. CASE SaveWish \/ BeginReconcile \/ Close
  BY <1>3
     DEF SaveWish, BeginReconcile, Close, do_persist, load_or_generate_blowfish_secret,
     atomic_write, StateIsSound
<1>4. CASE Kill
  BY <1>4 DEF Kill, StateIsSound
<1>5. CASE UserEdit
  BY <1>5 DEF UserEdit, EditConf, EditToml, EditDisk, authors, StateIsSound
<1>6. CASE UNCHANGED startup_vars
  BY <1>6 DEF startup_vars, StateIsSound
<1> QED
  BY <1>1, <1>2, <1>3, <1>4, <1>5, <1>6 DEF StartupNext, StartupStep

(* do_persist with a sound rampp.state: the wishes in memory and the       *)
(* secret in the file are what the file then holds.                        *)
LEMMA SoundPersist ==
    ASSUME TypeInv, StateIsSound', app' \in StateFile, do_persist
    PROVE  saved' \in StateFile /\ saved'.desired = app'.desired /\ saved'.secret = stored.secret
<1>1. ~fails("state_read") /\ ~fails("state_write")
  BY DEF fails, StateIsSound
<1>2. app'.desired \in [Service -> BOOLEAN] /\ stored.secret \in Nat
  BY StoredTyped DEF TypeInv, StateFile
<1>3. saved' = state_file(app'.desired, stored.secret)
  BY <1>1 DEF do_persist, state_now, kept_secret
<1> QED
  BY <1>2, <1>3, RecordTyped

(* Closing RAMPP with a sound rampp.state: the file wants nothing to run   *)
(* and keeps its secret.                                                   *)
LEMMA SavedByClose ==
    ASSUME TypeInv, StateIsSound', Close
    PROVE  /\ wish' = default_stopped.desired /\ saved' \in StateFile
           /\ saved'.desired = default_stopped.desired /\ saved'.secret = stored.secret
<1>1. app' = default_stopped /\ do_persist /\ wish' = default_stopped.desired
  BY DEF Close, forget
<1> QED
  BY <1>1, ValuesTyped, SoundPersist

(* A start or stop with a sound rampp.state changes one wish, in memory    *)
(* and in the file.                                                        *)
LEMMA SavedBySave ==
    ASSUME TypeInv, StateIsSound', SaveWish
    PROVE  \E svc \in Service, value \in BOOLEAN :
             /\ app'.desired = [app.desired EXCEPT ![svc] = value] /\ app'.secret = app.secret
             /\ wish' = [wish EXCEPT ![svc] = value]
             /\ saved' \in StateFile /\ saved'.desired = app'.desired /\ saved'.secret = stored.secret
<1>1. PICK svc \in Service, value \in BOOLEAN :
           /\ app' = state_file([app.desired EXCEPT ![svc] = value], app.secret)
           /\ wish' = [wish EXCEPT ![svc] = value]
  BY DEF SaveWish
<1>2. [app.desired EXCEPT ![svc] = value] \in [Service -> BOOLEAN] /\ app.secret \in Nat
  BY DEF TypeInv, StartupTypeOK, StateFile
<1>3. /\ app'.desired = [app.desired EXCEPT ![svc] = value] /\ app'.secret = app.secret
      /\ app' \in StateFile
  BY <1>1, <1>2, RecordTyped
<1>4. saved' \in StateFile /\ saved'.desired = app'.desired /\ saved'.secret = stored.secret
  BY <1>3, SoundPersist DEF SaveWish
<1> QED
  BY <1>1, <1>3, <1>4

(* do_reconcile with a sound rampp.state: memory gets the secret of the    *)
(* file or, if that had none, both get the same new one; no wish changes.  *)
LEMMA SavedByReconcile ==
    ASSUME TypeInv, StateIsSound', BeginReconcile
    PROVE  /\ app'.desired = app.desired
           /\ \/ /\ stored.secret # NoSecret
                 /\ saved' = saved /\ app'.secret = stored.secret
              \/ /\ stored.secret = NoSecret
                 /\ saved' \in StateFile /\ saved'.desired = stored.desired
                 /\ saved'.secret = app'.secret
<1>1. ASSUME NEW kind \in {"state_read", "state_write"} PROVE ~fails(kind)
  BY <1>1 DEF fails, StateIsSound
<1>2. /\ app.desired \in [Service -> BOOLEAN] /\ stored.desired \in [Service -> BOOLEAN]
      /\ stored.secret \in Nat /\ generate_blowfish_secret \in Nat
  BY StoredTyped, NewSecretTyped DEF TypeInv, StartupTypeOK, StateFile
<1>3. \/ /\ stored.secret # NoSecret /\ saved' = saved
         /\ app' = state_file(app.desired, stored.secret)
      \/ /\ stored.secret = NoSecret
         /\ app' = state_file(app.desired, generate_blowfish_secret)
         /\ saved' = state_file(stored.desired, generate_blowfish_secret)
  BY <1>1 DEF BeginReconcile, load_or_generate_blowfish_secret, atomic_write
<1>4. CASE stored.secret # NoSecret
  <2>1. saved' = saved /\ app' = state_file(app.desired, stored.secret)
    BY <1>3, <1>4
  <2>2. app'.desired = app.desired /\ app'.secret = stored.secret
    BY <1>2, <2>1, RecordTyped
  <2> QED
    BY <1>4, <2>1, <2>2
<1>5. CASE stored.secret = NoSecret
  <2> DEFINE new == generate_blowfish_secret
  <2>1. new \in Nat /\ app' = state_file(app.desired, new) /\ saved' = state_file(stored.desired, new)
    BY <1>2, <1>3, <1>5
  <2> HIDE DEF new
  <2> QED
    BY <1>2, <1>5, <2>1, RecordTyped
<1> QED
  BY <1>4, <1>5

(* Every step preserves FreshInv: only a save creates rampp.state, and the *)
(* adoption comes after it.                                                *)
LEMMA FreshStep ==
    ASSUME TypeInv, FreshInv, [StartupNext]_startup_vars
    PROVE  FreshInv'
<1> SUFFICES ASSUME StateIsSound' PROVE FreshInv'
  BY DEF FreshInv
<1>0. StateIsSound /\ (saved = NoState \/ pc \in Adopting => NotUsers)
      /\ (fresh /\ pc \in BeforeSave => saved = NoState) /\ (pc \in AfterSave => saved # NoState)
  BY MishapsStay DEF FreshInv
<1>s. ASSUME NEW kind \in {"state_read", "state_write", "delete_state"} PROVE ~fails(kind)
  BY <1>s DEF fails, StateIsSound
<1> USE DEF FreshInv, NotUsers, Adopting, BeforeSave, AfterSave
<1>1. CASE Launch
  BY <1>0, <1>1, <1>s DEF Launch, step, is_fresh_install, disk
<1>2. CASE write_default_config \/ load_config \/ create_runtime_dirs \/ ReadState
  BY <1>0, <1>2
     DEF write_default_config, load_config, create_runtime_dirs, ReadState, fatal, forget,
     step, disk, memory
<1>3. CASE write_persisted_state
  <2>1. saved' = app /\ app # NoState
    BY <1>3, <1>s, StateIsState DEF write_persisted_state, atomic_write, TypeInv, StartupTypeOK
  <2> QED
    BY <1>0, <1>3, <2>1 DEF write_persisted_state
<1>4. CASE AdoptBackup \/ AdoptRemove
  BY <1>0, <1>4 DEF AdoptBackup, AdoptRemove, step, absent, TypeInv, StartupTypeOK, Managed
<1>5. CASE Reconcile
  BY <1>0, <1>5 DEF Reconcile
<1>6. CASE CheckMysql \/ ClearData \/ InitializeMysql
  BY <1>0, <1>6 DEF CheckMysql, ClearData, InitializeMysql, surface, disk
<1>7. CASE SaveWish \/ BeginReconcile
  <2>1. pc' = "loop" /\ pc = "loop"
    BY <1>7 DEF SaveWish, BeginReconcile, Ready
  <2>2. saved' # NoState
    <3>1. CASE SaveWish
      BY <1>0, <2>1, <3>1, SavedBySave, StateIsState
    <3>2. CASE BeginReconcile
      BY <1>0, <2>1, <3>2, SavedByReconcile, StateIsState
    <3> QED
      BY <1>7, <3>1, <3>2
  <2> QED
    BY <2>1, <2>2
<1>8. CASE Kill \/ Close
  <2>1. CASE Kill
    BY <1>0, <2>1 DEF Kill, forget
  <2>2. CASE Close
    <3>1. saved' # NoState /\ pc' = "off"
      BY <2>2, SavedByClose, StateIsState DEF Close
    <3> QED
      BY <3>1
  <2> QED
    BY <1>8, <2>1, <2>2
<1>9. CASE UserEdit
  <2>1. saved' = saved /\ pc' = pc /\ pc \in {"off", "loop"}
    BY <1>0, <1>9 DEF UserEdit, EditConf, EditToml, EditDisk, Ready, StateIsSound
  <2>2. CASE saved = NoState
    <3>1. conf["HttpdConf"].by \in {"nobody", "vendor"}
      BY <1>0, <2>2
    <3>2. CASE EditConf
      <4>1. PICK file \in Managed :
               \/ conf[file].by = "rampp" /\ conf' = [conf EXCEPT ![file] = by_user]
               \/ conf' = [conf EXCEPT ![file] = absent]
        BY <3>2 DEF EditConf, is_rampp_owned
      <4>2. conf'["HttpdConf"].by \in {"nobody", "vendor"}
        BY <3>1, <4>1 DEF absent, TypeInv, StartupTypeOK, Managed
      <4> QED
        BY <1>0, <2>1, <4>2
    <3>3. CASE EditToml \/ EditDisk
      BY <3>1, <3>3, <2>1, <1>0 DEF EditToml, EditDisk
    <3> QED
      BY <1>9, <3>2, <3>3 DEF UserEdit
  <2> QED
    BY <1>0, <2>1, <2>2
<1>10. CASE UNCHANGED startup_vars
  BY <1>0, <1>10 DEF startup_vars, disk, memory
<1> QED
  BY <1>1, <1>2, <1>3, <1>4, <1>5, <1>6, <1>7, <1>8, <1>9, <1>10 DEF StartupNext, StartupStep

(* Every step preserves AdoptInv: without a failure and without a kill the *)
(* launch that finds the vendor's file goes through to its removal.        *)
LEMMA AdoptStep ==
    ASSUME TypeInv, AdoptInv, [StartupNext]_startup_vars
    PROVE  AdoptInv'
<1> SUFFICES ASSUME mishaps' = {}, conf'["HttpdConf"] = by_vendor PROVE AdoptInv'
  BY DEF AdoptInv
<1>0. mishaps = {}
  BY MishapsStay
<1>f. ASSUME NEW kind PROVE ~fails(kind)
  BY <1>f DEF fails
<1>c. conf["HttpdConf"] = by_vendor
  <2>1. CASE conf' = conf
    BY <2>1
  <2>2. CASE Reconcile
    <3>1. conf' = conf \/ conf' = [conf EXCEPT ![Head(todo)] = rendered(Head(todo))]
      BY <2>2 DEF Reconcile, reconcile_file
    <3>2. rendered(Head(todo)) # by_vendor
      BY RenderedTyped DEF is_rampp_owned, by_vendor, TypeInv, StartupTypeOK
    <3> QED
      BY <3>1, <3>2 DEF TypeInv, StartupTypeOK, Managed
  <2>3. CASE AdoptRemove
    BY <2>3 DEF AdoptRemove, absent, by_vendor, TypeInv, StartupTypeOK, Managed
  <2>4. CASE UserEdit
    BY <2>4
       DEF UserEdit, EditConf, EditToml, EditDisk, absent, by_user, by_vendor, TypeInv,
       StartupTypeOK, Managed
  <2> QED
    BY <2>1, <2>2, <2>3, <2>4
       DEF StartupNext, StartupStep, Launch, write_default_config, load_config,
       create_runtime_dirs, ReadState, fatal, write_persisted_state, AdoptBackup, CheckMysql, ClearData,
       InitializeMysql, SaveWish, BeginReconcile, Close, Kill, startup_vars, disk
<1>1. /\ vendor_bak = "nobody" \/ pc = "remove"
      /\ pc \in {"off"} \union BeforeSave \union Adopting
      /\ pc \in {"off"} \union BeforeSave => saved = NoState
      /\ pc \in BeforeSave => fresh
  BY <1>0, <1>c DEF AdoptInv
<1> USE <1>0, <1>1, <1>c, <1>f DEF AdoptInv, BeforeSave, Adopting
<1>2. CASE Launch
  BY <1>2 DEF Launch, step, is_fresh_install, disk
<1>3. CASE write_default_config \/ load_config \/ create_runtime_dirs \/ ReadState
  BY <1>3
     DEF write_default_config, load_config, create_runtime_dirs, ReadState, fatal, forget,
     step, disk, memory
<1>4. CASE write_persisted_state
  BY <1>4 DEF write_persisted_state
<1>5. CASE AdoptBackup
  BY <1>5 DEF AdoptBackup, adoptable, backup_is_free, by_vendor
<1>6. CASE AdoptRemove
  BY <1>6 DEF AdoptRemove, absent, by_vendor, TypeInv, StartupTypeOK, Managed
<1>7. CASE \/ Reconcile \/ CheckMysql \/ ClearData \/ InitializeMysql
           \/ SaveWish \/ BeginReconcile \/ Close
  BY <1>7
     DEF Reconcile, CheckMysql, ClearData, InitializeMysql, SaveWish, BeginReconcile,
     Close, Ready
<1>8. CASE Kill
  BY <1>8 DEF Kill, Ready
<1>9. CASE UserEdit
  BY <1>9 DEF UserEdit, EditConf, EditToml, EditDisk, Ready, memory
<1>10. CASE UNCHANGED startup_vars
  BY <1>10 DEF startup_vars, disk, memory
<1> QED
  BY <1>2, <1>3, <1>4, <1>5, <1>6, <1>7, <1>8, <1>9, <1>10 DEF StartupNext, StartupStep

(* Every step preserves SecretInv: whoever reads or writes the secret      *)
(* finds one in the file or puts the one in memory there.                  *)
LEMMA SecretStep ==
    ASSUME TypeInv, SecretInv, [StartupNext]_startup_vars
    PROVE  SecretInv'
<1> SUFFICES ASSUME StateIsSound' PROVE SecretInv'
  BY DEF SecretInv
<1>0. /\ StateIsSound
      /\ saved # NoState => saved.secret # NoSecret
      /\ pc \in AfterSave => saved # NoState /\ app.secret = saved.secret
      /\ pc = "write_state" => app.secret # NoSecret /\ (saved # NoState => app.secret = saved.secret)
      /\ is_rampp_owned(conf["ConfigInc"]) => saved # NoState /\ conf["ConfigInc"].says = saved.secret
  BY MishapsStay DEF SecretInv
<1>s. ASSUME NEW kind \in {"state_read", "state_write"} PROVE ~fails(kind)
  BY <1>s DEF fails, StateIsSound
<1> USE DEF SecretInv, BeforeSave, Adopting, AfterSave
<1>1. CASE UNCHANGED <<saved, conf>> /\ pc' \in ({"off"} \union BeforeSave) \ {"write_state"}
  BY <1>0, <1>1
<1>2. CASE Launch \/ write_default_config \/ load_config \/ create_runtime_dirs \/ Kill
  BY <1>1, <1>2
     DEF Launch, write_default_config, load_config, create_runtime_dirs, fatal, Kill,
     step, disk
<1>3. CASE ReadState
  <2>1. with_secret(stored)
    BY <1>3, <1>s DEF ReadState, read_persisted_state
  <2>2. stored.desired \in [Service -> BOOLEAN] /\ NoSecret + 1 # NoSecret /\ generate_blowfish_secret # NoSecret
    BY StoredTyped, NewSecretTyped DEF StateFile, TypeInv, NoSecret, generate_blowfish_secret
  <2>3. app'.secret # NoSecret /\ (stored.secret # NoSecret => app'.secret = stored.secret)
    <3> DEFINE new == generate_blowfish_secret
    <3>1. new \in Nat /\ new # NoSecret
      BY <2>2, NewSecretTyped DEF TypeInv
    <3>2. IF stored.secret # NoSecret THEN app' = stored ELSE app' = state_file(stored.desired, new)
      BY <2>1 DEF with_secret
    <3> HIDE DEF new
    <3>3. state_file(stored.desired, new).secret = new
      BY <2>2, <3>1, RecordTyped
    <3> QED
      BY <3>1, <3>2, <3>3
  <2>4. pc' = "write_state" /\ UNCHANGED <<saved, conf>>
    BY <1>3 DEF ReadState, step, disk
  <2> QED
    BY <1>0, <2>3, <2>4 DEF stored
<1>4. CASE write_persisted_state
  <2>1. saved' = app /\ UNCHANGED <<app, conf>> /\ pc = "write_state" /\ pc' \in {"adopt", "reconcile"}
    BY <1>4, <1>s DEF write_persisted_state, atomic_write
  <2> QED
    BY <1>0, <2>1, StateIsState DEF TypeInv, StartupTypeOK
<1>5. CASE AdoptBackup \/ AdoptRemove
  BY <1>0, <1>5
     DEF AdoptBackup, AdoptRemove, step, is_rampp_owned, TypeInv, StartupTypeOK, Managed
<1>6. CASE Reconcile
  <2>1. conf'["ConfigInc"] = conf["ConfigInc"] \/ conf'["ConfigInc"] = rendered("ConfigInc")
    BY <1>6 DEF Reconcile, reconcile_file, TypeInv, StartupTypeOK, Managed
  <2>2. rendered("ConfigInc").says = app.secret
    BY DEF rendered, generate_config_inc_php
  <2> QED
    BY <1>0, <1>6, <2>1, <2>2 DEF Reconcile
<1>7. CASE CheckMysql \/ ClearData \/ InitializeMysql
  <2>1. app'.secret = app.secret /\ UNCHANGED <<saved, conf>> /\ pc \in AfterSave
    BY <1>7, SurfaceTyped DEF CheckMysql, ClearData, InitializeMysql, TypeInv, disk
  <2>2. pc' \in AfterSave
    BY <1>7, SurfaceTyped DEF CheckMysql, ClearData, InitializeMysql, TypeInv
  <2> QED
    BY <1>0, <2>1, <2>2
<1>8. CASE SaveWish
  <2>1. saved' # NoState /\ saved'.secret = stored.secret /\ app'.secret = app.secret
    BY <1>8, SavedBySave, StateIsState
  <2> QED
    BY <1>0, <1>8, <2>1 DEF SaveWish, Ready, stored
<1>9. CASE BeginReconcile
  <2>1. stored = saved /\ saved.secret # NoSecret
    BY <1>0, <1>9 DEF BeginReconcile, Ready, stored
  <2>2. saved' = saved /\ app'.secret = saved.secret
    BY <1>9, <2>1, SavedByReconcile
  <2> QED
    BY <1>0, <1>9, <2>1, <2>2 DEF BeginReconcile, Ready
<1>10. CASE UserEdit
  <2>1. saved' = saved /\ pc' = pc /\ app' = app
    BY <1>0, <1>10 DEF UserEdit, EditConf, EditToml, EditDisk, memory, StateIsSound
  <2>2. conf'["ConfigInc"] = conf["ConfigInc"] \/ conf'["ConfigInc"].by # "rampp"
    BY <1>10
       DEF UserEdit, EditConf, EditToml, EditDisk, absent, by_user, TypeInv,
       StartupTypeOK, Managed
  <2>3. pc \in {"off", "loop"}
    BY <1>10 DEF UserEdit, Ready
  <2> QED
    BY <1>0, <2>1, <2>2, <2>3 DEF is_rampp_owned
<1>11. CASE Close
  <2>1. stored = saved /\ saved.secret # NoSecret /\ pc' = "off" /\ conf' = conf
    BY <1>0, <1>11 DEF Close, Ready, stored
  <2>2. saved' # NoState /\ saved'.secret = saved.secret
    BY <1>11, <2>1, SavedByClose, StateIsState
  <2> QED
    BY <1>0, <2>1, <2>2
<1>12. CASE UNCHANGED startup_vars
  BY <1>0, <1>12 DEF startup_vars, disk, memory
<1> QED
  BY <1>2, <1>3, <1>4, <1>5, <1>6, <1>7, <1>8, <1>9, <1>10, <1>11, <1>12 DEF StartupNext, StartupStep

(* Every step preserves WishInv: a save writes the wishes in memory, which *)
(* only the user and a failure of MySQL's initialisation change.           *)
LEMMA WishStep ==
    ASSUME TypeInv, WishInv, [StartupNext]_startup_vars
    PROVE  WishInv'
<1>f. failed # {} => MysqlFaults \intersect mishaps # {}
  BY DEF WishInv
<1>m. MysqlFaults \intersect mishaps # {} => MysqlFaults \intersect mishaps' # {}
  BY MishapsStay
<1>1. failed' # {} => MysqlFaults \intersect mishaps' # {}
  <2>1. CASE failed' \subseteq failed
    BY <1>f, <1>m, <2>1
  <2>2. CASE Reconcile
    <3>1. failed' = failed \/ fails("conf_write") \/ fails("conf_read")
      BY <2>2 DEF Reconcile, reconcile_file
    <3> QED
      BY <1>f, <1>m, <3>1 DEF fails, MysqlFaults
  <2> QED
    BY <2>1, <2>2 DEF StartupNext, StartupStep, Launch, write_default_config, load_config,
       create_runtime_dirs, ReadState, fatal, forget, write_persisted_state, AdoptBackup, AdoptRemove,
       begin_reconcile, CheckMysql, ClearData, InitializeMysql, SaveWish, BeginReconcile, Close, Kill, UserEdit,
       startup_vars, memory
<1> SUFFICES ASSUME StateIsSound' PROVE WishInv'
  BY <1>1 DEF WishInv
<1>0. /\ StateIsSound
      /\ saved = NoState => wish = default_stopped.desired
      /\ saved # NoState => honoured(saved)
      /\ pc \in {"write_state"} \union AfterSave => honoured(app)
  BY MishapsStay DEF WishInv
<1>s. ASSUME NEW kind \in {"state_read", "state_write"} PROVE ~fails(kind)
  BY <1>s DEF fails, StateIsSound
<1> USE <1>0, <1>1, <1>m DEF WishInv, honoured, BeforeSave, Adopting, AfterSave
<1>2. CASE UNCHANGED <<saved, wish>> /\ pc' \in ({"off"} \union BeforeSave) \ {"write_state"}
  BY <1>2
<1>3. CASE Launch \/ write_default_config \/ load_config \/ create_runtime_dirs \/ Kill
  BY <1>2, <1>3
     DEF Launch, write_default_config, load_config, create_runtime_dirs, fatal, Kill,
     step, disk, authors
<1>4. CASE UNCHANGED <<saved, app, wish>> /\ pc \in {"write_state"} \union AfterSave
  BY <1>4
<1>5. CASE ReadState
  <2>1. with_secret(stored)
    BY <1>5, <1>s DEF ReadState, read_persisted_state
  <2>2. app'.desired = stored.desired
    <3>1. stored.desired \in [Service -> BOOLEAN] /\ generate_blowfish_secret \in Nat
      BY StoredTyped, NewSecretTyped DEF TypeInv, StateFile
    <3> DEFINE new == generate_blowfish_secret
    <3>2. IF stored.secret # NoSecret THEN app' = stored ELSE app' = state_file(stored.desired, new)
      BY <2>1 DEF with_secret
    <3> HIDE DEF new
    <3>3. new \in Nat => state_file(stored.desired, new).desired = stored.desired
      BY <3>1, RecordTyped
    <3> QED
      BY <3>1, <3>2, <3>3 DEF new
  <2>3. pc' = "write_state" /\ UNCHANGED <<saved, wish>>
    BY <1>5 DEF ReadState, step, disk, authors
  <2> QED
    BY <2>2, <2>3 DEF stored
<1>6. CASE write_persisted_state
  <2>1. saved' = app /\ UNCHANGED <<app, wish>> /\ pc = "write_state"
    BY <1>6, <1>s DEF write_persisted_state, atomic_write, authors
  <2> QED
    BY <2>1, StateIsState DEF TypeInv, StartupTypeOK
<1>7. CASE AdoptBackup \/ AdoptRemove \/ Reconcile
  BY <1>4, <1>7 DEF AdoptBackup, AdoptRemove, Reconcile, step, authors
<1>8. CASE CheckMysql \/ ClearData \/ InitializeMysql
  <2>1. UNCHANGED <<saved, wish>> /\ pc \in AfterSave
    BY <1>8 DEF CheckMysql, ClearData, InitializeMysql, disk, authors
  <2>2. \/ app' = app
        \/ surface(FALSE)
        \/ surface(TRUE) /\ MysqlFaults \intersect mishaps' # {}
    BY <1>8, <1>f
       DEF CheckMysql, my_ini_write_error, ClearData, InitializeMysql, fails,
       MysqlFaults
  <2>3. \/ app'.desired = app.desired
        \/ app'.desired = [app.desired EXCEPT !["Mysql"] = FALSE] /\ MysqlFaults \intersect mishaps' # {}
    BY <2>2, SurfaceTyped DEF TypeInv
  <2>4. app.desired \in [Service -> BOOLEAN]
    BY DEF TypeInv, StartupTypeOK, StateFile
  <2> QED
    BY <2>1, <2>3, <2>4
<1>9. CASE SaveWish
  <2>1. PICK svc \in Service, value \in BOOLEAN :
             /\ app'.desired = [app.desired EXCEPT ![svc] = value]
             /\ wish' = [wish EXCEPT ![svc] = value]
             /\ saved' \in StateFile /\ saved'.desired = app'.desired
    BY <1>9, SavedBySave
  <2>2. app.desired \in [Service -> BOOLEAN] /\ wish \in [Service -> BOOLEAN]
    BY DEF TypeInv, StartupTypeOK, StateFile
  <2>3. honoured(app)
    BY <1>9 DEF SaveWish, Ready
  <2>4. honoured(app)' /\ honoured(saved)'
    BY <2>1, <2>2, <2>3
  <2> QED
    BY <2>1, <2>4, StateIsState
<1>10. CASE BeginReconcile
  <2>1. /\ app'.desired = app.desired /\ UNCHANGED wish /\ pc = "loop"
        /\ saved' = saved \/ (saved' \in StateFile /\ saved'.desired = stored.desired)
    BY <1>10, SavedByReconcile DEF BeginReconcile, Ready, authors
  <2>2. honoured(stored)
    BY DEF stored
  <2> QED
    BY <2>1, <2>2, StateIsState
<1>11. CASE UserEdit
  <2>1. UNCHANGED <<saved, pc, app, wish>>
    BY <1>11 DEF UserEdit, EditConf, EditToml, EditDisk, memory, authors, StateIsSound
  <2> QED
    BY <2>1
<1>12. CASE Close
  <2>1. saved' # NoState /\ saved'.desired = wish' /\ pc' = "off"
    BY <1>12, SavedByClose, StateIsState DEF Close
  <2> QED
    BY <2>1
<1>13. CASE UNCHANGED startup_vars
  BY <1>13 DEF startup_vars, disk, memory, authors
<1> QED
  BY <1>3, <1>5, <1>6, <1>7, <1>8, <1>9, <1>10, <1>11, <1>12, <1>13 DEF StartupNext, StartupStep

-------------------------------------------------------------------------------
(* A new installation satisfies the invariant.                             *)
LEMMA StartupEstablishes == StartupInit => SInv
<1> SUFFICES ASSUME StartupInit PROVE SInv
  OBVIOUS
<1> USE ValuesTyped DEF StartupInit
<1>1. conf \in [Managed -> Content] /\ ~is_rampp_owned(conf["ConfigInc"])
      /\ conf["HttpdConf"].by \in {"nobody", "vendor"}
  BY DEF Managed, absent, by_vendor, is_rampp_owned
<1>2. TypeInv
  <2>1. wish \in [Service -> BOOLEAN]
    BY DEF default_stopped, state_file, StateFile
  <2>2. foreign \subseteq {"vendor", "user"}
    BY <1>1
  <2>3. {launches, edits, faults, secrets} \subseteq Nat
    OBVIOUS
  <2> QED
    BY <1>1, <2>1, <2>2, <2>3 DEF TypeInv, StartupTypeOK, Entries
<1>3. ForeignInv /\ DataInv
  BY <1>1 DEF ForeignInv, ForeignKept, DataInv, EmptyIsReported
<1>4. FreshInv /\ AdoptInv
  BY <1>1 DEF FreshInv, NotUsers, AdoptInv, BeforeSave, Adopting, AfterSave
<1>5. SecretInv /\ WishInv
  BY <1>1 DEF SecretInv, WishInv, Adopting, AfterSave
<1> QED
  BY <1>2, <1>3, <1>4, <1>5 DEF SInv

(* The invariant holds throughout, through any sequence of launches,       *)
(* failures, kills and edits.                                              *)
THEOREM StartupInductive == StartupSpec => []SInv
<1>1. SInv /\ [StartupNext]_startup_vars => SInv'
  BY TypeStep, ForeignStep, DataStep, FreshStep, AdoptStep, SecretStep, WishStep DEF SInv
<1> QED
  BY <1>1, StartupEstablishes, PTL DEF StartupSpec

(* The types, and nothing but a valid rampp.toml gets past load_config.    *)
THEOREM StartupIsTyped == StartupSpec => []StartupTypeOK
<1>1. SInv => StartupTypeOK
  BY DEF SInv, TypeInv
<1> QED
  BY <1>1, StartupInductive, PTL

(* An httpd.conf that RAMPP did not write is in place or in its backup at  *)
(* every moment, whatever fails and wherever RAMPP is killed               *)
(* (provision.rs, adopt_vendor_httpd_conf).                                *)
THEOREM ForeignIsKept == StartupSpec => []ForeignKept
<1>1. SInv => ForeignKept
  BY DEF SInv, ForeignInv
<1> QED
  BY <1>1, StartupInductive, PTL

(* If nothing failed and nobody killed RAMPP, no loop starts with the      *)
(* vendor's httpd.conf in place (main.rs, is_fresh_install).               *)
THEOREM VendorIsAdopted == StartupSpec => []FreshIsAdopted
<1>1. SInv => FreshIsAdopted
  BY DEF SInv, AdoptInv, FreshIsAdopted, Ready, BeforeSave, Adopting
<1> QED
  BY <1>1, StartupInductive, PTL

(* A loop that starts without MySQL's data shows MySQL's error (main.rs,   *)
(* surfacing of the initialisation error; mysql_conf.rs,                  *)
(* initialize_mysql).                                                      *)
THEOREM EmptinessIsReported == StartupSpec => []EmptyIsReported
<1>1. SInv => EmptyIsReported
  BY DEF SInv, DataInv
<1> QED
  BY <1>1, StartupInductive, PTL

(* While rampp.state can be read and written it holds the desired states   *)
(* the user last asked for, but for MySQL's after a failure of MySQL's     *)
(* files (executor.rs, do_persist; main.rs, the saves before the loop).    *)
THEOREM WishIsKept == StartupSpec => []WishKept
<1>1. SInv => WishKept
  BY DEF SInv, WishInv, honoured, WishKept
<1> QED
  BY <1>1, StartupInductive, PTL

(* No step but the user's takes anything out of a finished data directory  *)
(* (mysql_conf.rs, needs_initialization).                                  *)
THEOREM DataIsKept == StartupSpec => DataKept
<1>1. ASSUME SInv, [StartupNext]_startup_vars, data = Entries
      PROVE  data' = Entries \/ edits' # edits
  <2>1. data \intersect {"ibdata1", "mysql"} # {} /\ pc # "clear" /\ pc # "mysqld"
    BY <1>1 DEF SInv, DataInv, needs_initialization, Entries
  <2>2. CASE UserEdit
    <3>1. edits \in Nat
      BY <1>1 DEF SInv, TypeInv, StartupTypeOK
    <3> QED
      BY <2>2, <3>1 DEF UserEdit, EditConf, EditToml, EditDisk, edited
  <2>3. CASE ~UserEdit
    BY <1>1, <2>1, <2>3
       DEF StartupNext, StartupStep, Launch, write_default_config, load_config,
       create_runtime_dirs, ReadState, fatal, write_persisted_state, AdoptBackup, AdoptRemove, Reconcile,
       CheckMysql, ClearData, InitializeMysql, SaveWish, BeginReconcile, Close, Kill, startup_vars, disk
  <2> QED
    BY <2>2, <2>3
<1>2. SInv /\ [StartupNext]_startup_vars => [data = Entries => data' = Entries \/ edits' # edits]_startup_vars
  BY <1>1
<1> QED
  BY <1>2, StartupInductive, PTL DEF StartupSpec, DataKept

(* The only steps that change a managed file: the user's, the removal of   *)
(* an httpd.conf that has been backed up, and a pass, which writes a file  *)
(* only if it is missing or RAMPP's.                                       *)
LEMMA ConfStep ==
    ASSUME TypeInv, [StartupNext]_startup_vars
    PROVE  \/ conf' = conf
           \/ UserEdit
           \/ pc = "remove" /\ conf' = [conf EXCEPT !["HttpdConf"] = absent]
           \/ /\ pc \in {"reconcile", "loop"} /\ app \in StateFile
              /\ \E file \in Managed :
                    /\ conf[file] = absent \/ is_rampp_owned(conf[file])
                    /\ conf' = [conf EXCEPT ![file] = rendered(file)]
<1>1. CASE UserEdit
  BY <1>1
<1>2. CASE AdoptRemove
  BY <1>2 DEF AdoptRemove, step
<1>3. CASE Reconcile
  <2>1. Head(todo) \in Managed /\ app \in StateFile
    BY <1>3 DEF Reconcile, TypeInv, StartupTypeOK
  <2> QED
    BY <1>3, <2>1 DEF Reconcile, reconcile_file
<1>4. CASE ~UserEdit /\ ~AdoptRemove /\ ~Reconcile
  BY <1>4 DEF StartupNext, StartupStep, Launch, write_default_config, load_config,
     create_runtime_dirs, ReadState, fatal, write_persisted_state, AdoptBackup,
     CheckMysql, ClearData, InitializeMysql, SaveWish, BeginReconcile, Close, Kill, startup_vars, disk
<1> QED
  BY <1>1, <1>2, <1>3, <1>4

(* No step but the user's changes a file the user took over, as long as    *)
(* rampp.state can be read and written.                                    *)
THEOREM UserFilesStay == StartupSpec => UserFileStays
<1>1. ASSUME SInv, [StartupNext]_startup_vars, edits' = edits, StateIsSound',
             NEW file \in Managed, conf[file] = by_user
      PROVE  conf'[file] = by_user
  <2>1. StateIsSound /\ TypeInv /\ conf \in [Managed -> Content]
    BY <1>1, MishapsStay DEF SInv, TypeInv, StartupTypeOK
  <2>2. pc = "remove" => conf["HttpdConf"].by # "user"
    BY <1>1, <2>1 DEF SInv, FreshInv, NotUsers, Adopting
  <2>3. ~UserEdit
    <3>1. edits \in Nat
      BY <2>1 DEF TypeInv, StartupTypeOK
    <3> QED
      BY <1>1, <3>1 DEF UserEdit, EditConf, EditToml, EditDisk, edited
  <2> QED
    BY <1>1, <2>1, <2>2, <2>3, ConfStep DEF by_user, absent, is_rampp_owned
<1>2. SInv /\ [StartupNext]_startup_vars =>
          [\A file \in Managed :
              conf[file] = by_user /\ conf'[file] # by_user
                 => \/ edits' # edits
                    \/ ~StateIsSound']_startup_vars
  BY <1>1
<1> QED
  BY <1>2, StartupInductive, PTL DEF StartupSpec, UserFileStays

(* phpMyAdmin's cookie secret does not change from one rendering of        *)
(* config.inc.php to the next, as long as rampp.state can be read and      *)
(* written (executor.rs, load_or_generate_blowfish_secret).                *)
THEOREM SecretIsKept == StartupSpec => SecretKept
<1>1. ASSUME SInv, [StartupNext]_startup_vars, StateIsSound',
             is_rampp_owned(conf["ConfigInc"]), is_rampp_owned(conf'["ConfigInc"])
      PROVE  conf'["ConfigInc"].says = conf["ConfigInc"].says
  <2>1. /\ StateIsSound /\ TypeInv /\ conf \in [Managed -> Content] /\ "ConfigInc" \in Managed
        /\ conf["ConfigInc"].says = saved.secret
        /\ pc \in AfterSave => app.secret = saved.secret
    BY <1>1, MishapsStay DEF SInv, SecretInv, TypeInv, StartupTypeOK, Managed
  <2>2. CASE UserEdit
    BY <1>1, <2>1, <2>2
       DEF UserEdit, EditConf, EditToml, EditDisk, is_rampp_owned, by_user, absent
  <2>3. CASE ~UserEdit
    <3>1. \/ conf'["ConfigInc"] = conf["ConfigInc"]
          \/ conf'["ConfigInc"] = rendered("ConfigInc") /\ pc \in AfterSave
      BY <1>1, <2>1, <2>3, ConfStep DEF AfterSave
    <3>2. rendered("ConfigInc").says = app.secret
      BY DEF rendered, generate_config_inc_php
    <3> QED
      BY <2>1, <3>1, <3>2
  <2> QED
    BY <2>2, <2>3
<1>2. SInv /\ [StartupNext]_startup_vars =>
          [StateIsSound' /\ is_rampp_owned(conf["ConfigInc"]) /\ is_rampp_owned(conf'["ConfigInc"])
              => conf'["ConfigInc"].says = conf["ConfigInc"].says]_startup_vars
  BY <1>1
<1> QED
  BY <1>2, StartupInductive, PTL DEF StartupSpec, SecretKept
===============================================================================
