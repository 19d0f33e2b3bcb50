------------------------------- MODULE DeviceDb -------------------------------
(***************************************************************************)
(* The device database over many invocations: `dtu db setup`, `wipe`,      *)
(* `emulator-diff`, `diff-source add` and `remove`, `add-apk` and          *)
(* `add-service-impl`.  Setup adds the APKs, each in a transaction, then   *)
(* the services, each in a transaction, and the properties; a diff writes  *)
(* a row for every item of the database and each diff source.  The user    *)
(* may cancel, a call may fail and the process may be killed anywhere.     *)
(***************************************************************************)
EXTENDS ManifestValues, ServiceMethods

CONSTANTS
  Apks,        \* the decompiled APKs
  NoManifest,  \* those of them without AndroidManifest.xml
  Elements,    \* what the manifests declare, with the field apk
  Emulator,    \* EMULATOR_DIFF_SOURCE
  Others,      \* names for further diff sources
  Aosp,        \* the content of the emulator's device.db
  Versions,    \* contents of a device.db that `diff-source add` may be given
  Content,     \* [Versions \cup {Aosp, Empty} -> set of items]
  Empty,       \* the content of a file that was just made
  Ops,         \* the commands in use
  MaxFaults    \* bound: cancellations, failed calls and kills

Sources == {Emulator} \cup Others

ASSUME DeviceDbAssumption ==
  /\ NoManifest \subseteq Apks /\ IsFiniteSet(Apks) /\ IsFiniteSet(Elements)
  /\ \A e \in Elements : e.kind \in CompKinds /\ e.apk \in Apks \ NoManifest
  /\ \A e \in Elements : e.kind # "permission" => e.filters \in BOOLEAN
  /\ Emulator \notin Others
  /\ \A v \in Versions \cup {Aosp, Empty} : \A i \in Content[v] :
        i.kind \in IpcKinds \cup {"provider"} => i.exported \in BOOLEAN
  /\ None \notin BOOLEAN
  /\ MaxFaults \in Nat

VARIABLES
  recorded,  \* the completed prerequisites: "setup", "diff"
  db,        \* the database that is open, or that the next command opens
  moved,     \* its file was removed while it is open
  files,     \* the copies of the sources' databases: contents, or None
  cmd,       \* the command that runs, or the last one
  pc,        \* where it is; "idle" when none runs
  todo,      \* items the current loop has not reached
  work,      \* items of the open transaction, or the service at hand
  phase,     \* of a diff: the kinds still to do
  other,     \* of a diff: the source and the content of its database
  queue,     \* the sources still to be diffed with
  report,    \* the ErrorReporter has a failed APK
  cancelled, \* the flag of the TaskCanceller
  outcome,   \* of the last command: "none", "ok", "error"
  faults

meta    == <<recorded, files>>
diff    == <<phase, other, queue>>
run     == <<cmd, outcome>>
process == <<run, pc, todo, work, diff, report, cancelled>>
vars    == <<meta, db, moved, process, faults>>

(* What a step of a running command leaves alone unless it says otherwise. *)
steady  == <<moved, run, report, cancelled, faults>>

-------------------------------------------------------------------------------
ApkItem(a)     == [kind |-> "apk", key |-> a]
ServiceItem(s) == [kind |-> "service", key |-> s]
AllApks     == {ApkItem(a) : a \in Apks}
AllServices == {ServiceItem(s) : s \in Services}
Comps       == {StoredRow(e) : e \in Elements}
Items       == AllApks \cup AllServices \cup Comps \cup Methods

CompsOf(a)   == {c \in Comps : c.apk = a}
OfApk(a)     == {ApkItem(a)} \cup CompsOf(a)
MethodsOf(s) == {m \in Methods : m.service = s}
OfKind(k)    == {i \in db.items : i.kind = k}

(* A new file gets its tables, and the emulator as a source, from the      *)
(* migrations.                                                             *)
FreshDb == [items |-> {}, sources |-> {Emulator}, rows |-> {}]

(* Foreign keys cascade: the rows of a diff go with their item or source.  *)
WithoutItems(d, gone) ==
  [d EXCEPT !.items = @ \ gone, !.rows = {r \in @ : r.item \notin gone}]
WithoutSource(d, s) ==
  [d EXCEPT !.sources = @ \ {s}, !.rows = {r \in @ : r.src # s}]

RowsFor(item, s) == {r \in db.rows : r.item = item /\ r.src = s}

(* The order in which the components of a manifest are inserted, and the   *)
(* order of DiffTask::run.                                                 *)
InsertOrder == <<"receiver", "aservice", "provider", "activity", "permission">>
DiffOrder   == <<"service", "apk", "receiver", "activity", "aservice", "provider", "permission">>
Earlier(order, k) ==
  {order[i] : i \in {i \in DOMAIN order : \E j \in DOMAIN order : i < j /\ order[j] = k}}

ApkPhases == {"apk"} \cup CompKinds

Nowhere == [src |-> None, version |-> None]

Init ==
  /\ recorded = {} /\ db = FreshDb /\ moved = FALSE
  /\ files = [s \in Sources |-> None]
  /\ cmd = [op |-> "none"] /\ pc = "idle" /\ todo = {} /\ work = {}
  /\ phase = {} /\ other = Nowhere /\ queue = {}
  /\ report = FALSE /\ cancelled = FALSE /\ outcome = "none"
  /\ faults = 0

-------------------------------------------------------------------------------
(* The process ends.  A database whose file is gone is gone with it: the   *)
(* next command finds no file and makes a new one.                         *)
End(result, content) ==
  /\ pc' = "idle"
  /\ todo' = {} /\ work' = {} /\ phase' = {} /\ other' = Nowhere /\ queue' = {}
  /\ report' = FALSE /\ cancelled' = FALSE /\ moved' = FALSE
  /\ outcome' = result
  /\ db' = IF moved THEN FreshDb ELSE content

(* Fault: the failed APKs are printed and forgotten.                       *)
EndSilently(content) == End("ok", content)

(* err_reporter.as_err(), the last line of setup and add-apk.              *)
EndReporting(content) == End(IF report THEN "error" ELSE "ok", content)

Start(command, first) ==
  /\ pc = "idle" /\ command.op \in Ops
  /\ cmd' = command /\ pc' = first
  /\ outcome' = "none"
  /\ UNCHANGED <<meta, db, moved, todo, work, diff, report, cancelled, faults>>

Goto(to) ==
  /\ pc' = to
  /\ UNCHANGED <<steady, work, diff>>

Fails(content) ==
  /\ End("error", content)
  /\ UNCHANGED <<meta, cmd, faults>>

-------------------------------------------------------------------------------
(* Setup::run and DeviceDatabase::setup.                                   *)
StartSetup ==
  \E force, diffs \in BOOLEAN :
    Start([op |-> "setup", force |-> force, diff |-> diffs], "setup")

AlreadySetup ==
  /\ pc = "setup" /\ "setup" \in recorded /\ ~cmd.force
  /\ Fails(db)

(* Nothing to wipe.                                                        *)
BeginFresh ==
  /\ pc = "setup" /\ "setup" \notin recorded /\ ~cmd.force
  /\ Goto("apks") /\ todo' = AllApks
  /\ UNCHANGED <<meta, db>>

(* DeviceDatabase::wipe removes the file; the connection stays open.       *)
Wipe ==
  /\ (pc = "setup" /\ cmd.force) \/ pc = "dbwipe"
  /\ moved' = TRUE
  /\ IF pc = "dbwipe" THEN pc' = "forgetdiff" /\ UNCHANGED todo
     ELSE IF "setup" \in recorded THEN pc' = "unrecord" /\ UNCHANGED todo
     ELSE pc' = "apks" /\ todo' = AllApks
  /\ UNCHANGED <<meta, db, work, diff, run, report, cancelled, faults>>

(* setup --force takes back SQLDatabaseSetup and then EmulatorDiff, each   *)
(* in a statement of its own.                                              *)
UnrecordSetup ==
  /\ pc = "unrecord"
  /\ recorded' = recorded \ {"setup"}
  /\ Goto("unrecorddiff") /\ UNCHANGED <<files, db, todo>>

UnrecordDiff ==
  /\ pc = "unrecorddiff"
  /\ recorded' = recorded \ {"diff"}
  /\ Goto("apks") /\ todo' = AllApks /\ UNCHANGED <<files, db>>

(* DB::wipe_database does it the other way round.                          *)
StartWipe == Start([op |-> "wipe"], "dbwipe")

ForgetDiff ==
  /\ pc = "forgetdiff"
  /\ recorded' = recorded \ {"diff"}
  /\ Goto("forget") /\ UNCHANGED <<files, db, todo>>

ForgetSetup ==
  /\ pc = "forget"
  /\ recorded' = recorded \ {"setup"}
  /\ End("ok", db) /\ UNCHANGED <<files, cmd, faults>>

-------------------------------------------------------------------------------
(* add_apk_files and add_services look at the flag before each entry.      *)
SetupCancelled ==
  /\ pc \in {"apks", "services"} /\ todo # {} /\ cancelled
  /\ Fails(db)

(* The failure of a single APK is logged and reported, and the loop goes   *)
(* on; there is no row for an APK without a manifest.                      *)
NoSuchManifest(a) ==
  /\ pc = "apks" /\ a \in NoManifest /\ ApkItem(a) \in todo /\ ~cancelled
  /\ todo' = todo \ {ApkItem(a)}
  /\ UNCHANGED <<meta, db, pc, work, diff, steady>>

(* The APK is there already, or the file that is open is no more: SQLite   *)
(* refuses to write to a database that was moved.                          *)
ApkRefused(a) ==
  /\ pc = "apks" /\ a \notin NoManifest /\ ApkItem(a) \in todo /\ ~cancelled
  /\ moved \/ ApkItem(a) \in db.items
  /\ todo' = todo \ {ApkItem(a)} /\ report' = TRUE
  /\ UNCHANGED <<meta, db, moved, pc, work, diff, run, cancelled, faults>>

BeginApk(a) ==
  /\ pc = "apks" /\ a \notin NoManifest /\ ApkItem(a) \in todo /\ ~cancelled
  /\ ~moved /\ ApkItem(a) \notin db.items
  /\ work' = {ApkItem(a)} /\ todo' = todo \ {ApkItem(a)} /\ pc' = "insert"
  /\ UNCHANGED <<meta, db, diff, steady>>

(* AddManifestTask::run, inside the transaction of the APK.                *)
Missing == {c \in Comps : ApkItem(c.apk) \in work} \ work

InsertComp(c) ==
  /\ pc = "insert" /\ c \in Missing
  /\ \A d \in Missing : d.kind \notin Earlier(InsertOrder, c.kind)
  /\ work' = work \cup {c}
  /\ UNCHANGED <<meta, db, pc, todo, diff, steady>>

CommitApk ==
  /\ pc = "insert" /\ Missing = {}
  /\ db' = [db EXCEPT !.items = @ \cup work]
  /\ work' = {} /\ pc' = IF cmd.op = "setup" THEN "apks" ELSE "added"
  /\ UNCHANGED <<meta, todo, diff, steady>>

(* Fault: what was inserted before the error stays.                        *)
RollbackKeeps ==
  IF cmd.op = "setup"
  THEN /\ work' = {} /\ report' = TRUE /\ pc' = "apks"
       /\ db' = [db EXCEPT !.items = @ \cup work]
       /\ UNCHANGED <<moved, todo, diff, outcome, cancelled>>
  ELSE End("error", [db EXCEPT !.items = @ \cup work])

(* An error, or a cancellation between two kinds of components, rolls the  *)
(* transaction back.                                                       *)
Rollback ==
  IF cmd.op = "setup"
  THEN /\ work' = {} /\ report' = TRUE /\ pc' = "apks"
       /\ UNCHANGED <<db, moved, todo, diff, outcome, cancelled>>
  ELSE End("error", db)

ApkCancelled ==
  /\ pc = "insert" /\ cancelled
  /\ \E k \in CompKinds : \A c \in CompsOf((CHOOSE i \in work : i.kind = "apk").key) :
        c \in work <=> c.kind \in Earlier(InsertOrder, k)
  /\ Rollback
  /\ UNCHANGED <<meta, cmd, faults>>

ListServices ==
  /\ pc = "apks" /\ todo = {}
  /\ Goto("services") /\ todo' = AllServices
  /\ UNCHANGED <<meta, db>>

(* Fault: a service that is there already is an error like any other.      *)
AddServiceOnce(s) ==
  /\ pc = "services" /\ ServiceItem(s) \in todo /\ ~cancelled /\ ~moved
  /\ \/ /\ ServiceItem(s) \in db.items
        /\ Fails(db)
     \/ /\ ServiceItem(s) \notin db.items
        /\ todo' = todo \ {ServiceItem(s)}
        /\ \E found \in {MethodsOf(s), {}} :
             db' = [db EXCEPT !.items = @ \cup {ServiceItem(s)} \cup found]
        /\ UNCHANGED <<meta, pc, work, diff, steady>>

(* AddSystemServiceTask::run in add_services: a service that is there      *)
(* already is skipped, one whose smali is not on the host (yet) gets no    *)
(* methods, and any error is fatal.                                        *)
AddService(s) ==
  /\ pc = "services" /\ ServiceItem(s) \in todo /\ ~cancelled /\ ~moved
  /\ todo' = todo \ {ServiceItem(s)}
  /\ \/ /\ ServiceItem(s) \in db.items
        /\ UNCHANGED db
     \/ /\ ServiceItem(s) \notin db.items
        /\ \E found \in {MethodsOf(s), {}} :
             db' = [db EXCEPT !.items = @ \cup {ServiceItem(s)} \cup found]
  /\ UNCHANGED <<meta, pc, work, diff, steady>>

ServiceRefused ==
  /\ pc = "services" /\ moved /\ ~(cancelled /\ todo # {})
  /\ Fails(db)

(* add_device_props, then the prerequisite is recorded.                    *)
RecordSetup ==
  /\ pc = "services" /\ todo = {} /\ ~moved
  /\ recorded' = recorded \cup {"setup"}
  /\ IF cmd.diff /\ Emulator \in db.sources
     THEN /\ pc' = "diff" /\ queue' = {Emulator} /\ cancelled' = FALSE
          /\ UNCHANGED <<db, moved, todo, work, phase, other, report, outcome>>
     ELSE IF cmd.diff THEN End("error", db) ELSE EndReporting(db)
  /\ UNCHANGED <<files, cmd, faults>>

-------------------------------------------------------------------------------
(* The database that a diff compares with.  setup, emulator-diff and       *)
(* diff-source add are given one; the others open the source's copy, and   *)
(* opening a file that does not exist makes an empty database.             *)
Given == cmd.op \in {"setup", "emulator", "addsource"}
VersionOf(s) ==
  IF cmd.op = "addsource" THEN cmd.version
  ELSE IF Given THEN Aosp
  ELSE IF files[s] = None THEN Empty ELSE files[s]

NextSource(s) ==
  /\ pc = "diff" /\ s \in queue
  /\ queue' = queue \ {s}
  /\ other' = [src |-> s, version |-> VersionOf(s)]
  /\ files' = IF Given THEN files ELSE [files EXCEPT ![s] = VersionOf(s)]
  /\ IF cmd.op = "addimpl"
     THEN phase' = {} /\ todo' = {ServiceItem(cmd.service)} /\ pc' = "rows"
     ELSE /\ phase' = IF cmd.op = "addapk" THEN ApkPhases ELSE {"service"} \cup ApkPhases
          /\ pc' = "phase" /\ UNCHANGED todo
  /\ cancelled' = FALSE
  /\ UNCHANGED <<recorded, db, moved, work, run, report, faults>>

(* diff-source add removes the source again; the others just return.       *)
DiffFails ==
  IF cmd.op = "addsource"
  THEN /\ pc' = "undo" /\ todo' = {} /\ work' = {}
       /\ UNCHANGED <<db, moved, diff, report, cancelled, outcome>>
  ELSE End("error", db)

DiffCancelled ==
  /\ pc = "phase" /\ phase # {} /\ cancelled
  /\ DiffFails /\ UNCHANGED <<meta, cmd, faults>>

(* All system services are taken, of the other kinds those that have no    *)
(* row yet.                                                                *)
Undone(k) == {i \in OfKind(k) : RowsFor(i, other.src) = {}}

BeginPhase(k) ==
  /\ pc = "phase" /\ k \in phase /\ Earlier(DiffOrder, k) \cap phase = {} /\ ~cancelled
  /\ todo' = IF k = "service" THEN OfKind(k) ELSE Undone(k)
  /\ phase' = phase \ {k} /\ pc' = "rows"
  /\ UNCHANGED <<meta, db, work, other, queue, steady>>

Insert(item) ==
  \E row \in Compare(item, Content[other.version]) :
    db' = [db EXCEPT !.rows = @ \cup {[item |-> item, src |-> other.src, row |-> row]}]

DiffItem(i) ==
  /\ pc = "rows" /\ i \in todo /\ i.kind # "service"
  /\ Insert(i) /\ todo' = todo \ {i}
  /\ UNCHANGED <<meta, pc, work, diff, steady>>

DiffService(i) ==
  /\ pc = "rows" /\ i \in todo /\ i.kind = "service"
  /\ RowsFor(i, other.src) = {}
  /\ Insert(i) /\ todo' = todo \ {i} /\ work' = {i} /\ pc' = "methods"
  /\ UNCHANGED <<meta, diff, steady>>

(* The unique index on a service and a source.                             *)
ServiceHasRow(i) ==
  /\ pc = "rows" /\ i \in todo /\ i.kind = "service"
  /\ RowsFor(i, other.src) # {}
  /\ DiffFails /\ UNCHANGED <<meta, cmd, faults>>

MethodsAtHand == {m \in OfKind("method") : ServiceItem(m.service) \in work}

DiffMethod(m) ==
  /\ pc = "methods" /\ m \in MethodsAtHand /\ RowsFor(m, other.src) = {}
  /\ Insert(m)
  /\ UNCHANGED <<meta, pc, todo, work, diff, steady>>

(* diff_system_services looks at the flag after each service.              *)
ServiceDone ==
  /\ pc = "methods" /\ \A m \in MethodsAtHand : RowsFor(m, other.src) # {}
  /\ IF cancelled THEN DiffFails
     ELSE /\ pc' = "rows" /\ work' = {}
          /\ UNCHANGED <<db, moved, todo, diff, report, cancelled, outcome>>
  /\ UNCHANGED <<meta, cmd, faults>>

EndPhase ==
  /\ pc = "rows" /\ todo = {}
  /\ Goto(IF phase = {} THEN "diffed" ELSE "phase")
  /\ UNCHANGED <<meta, db, todo>>

(* What each command does after a diff that went through.                  *)
Diffed ==
  /\ pc = "diffed"
  /\ recorded' = IF cmd.op \in {"setup", "emulator"} THEN recorded \cup {"diff"} ELSE recorded
  /\ IF cmd.op = "emulator"
     THEN End("ok", db)
     ELSE /\ pc' = IF cmd.op \in {"setup", "addsource"} THEN "copy" ELSE "diff"
          /\ UNCHANGED <<db, moved, todo, work, diff, report, cancelled, outcome>>
  /\ UNCHANGED <<files, cmd, faults>>

CopyFile ==
  /\ pc = "copy"
  /\ files' = [files EXCEPT ![other.src] = other.version]
  /\ EndReporting(db)
  /\ UNCHANGED <<recorded, cmd, faults>>

EndOfSources ==
  /\ pc = "diff" /\ queue = {}
  /\ EndReporting(db)
  /\ UNCHANGED <<meta, cmd, faults>>

-------------------------------------------------------------------------------
(* EmulatorDiff::run.                                                      *)
StartEmulator ==
  \E force \in BOOLEAN : Start([op |-> "emulator", force |-> force], "emulator")

AlreadyDiffed ==
  /\ pc = "emulator" /\ ~cmd.force /\ "diff" \in recorded
  /\ Fails(db)

NoEmulator ==
  /\ pc = "emulator" /\ Emulator \notin db.sources
  /\ ~(~cmd.force /\ "diff" \in recorded)
  /\ Fails(db)

BeginDiff ==
  /\ pc = "emulator" /\ ~cmd.force /\ "diff" \notin recorded /\ Emulator \in db.sources
  /\ pc' = "diff" /\ queue' = {Emulator}
  /\ UNCHANGED <<meta, db, todo, work, phase, other, steady>>

(* wipe_emulator_diff deletes the source and inserts it again.             *)
DeleteEmulator ==
  /\ pc = "emulator" /\ cmd.force /\ Emulator \in db.sources
  /\ db' = WithoutSource(db, Emulator)
  /\ Goto("reinsert") /\ UNCHANGED <<meta, todo>>

InsertEmulator ==
  /\ pc = "reinsert"
  /\ db' = [db EXCEPT !.sources = @ \cup {Emulator}]
  /\ Goto("reopen") /\ UNCHANGED <<meta, todo>>

ReopenDiff ==
  /\ pc = "reopen"
  /\ recorded' = recorded \ {"diff"}
  /\ pc' = "diff" /\ queue' = {Emulator}
  /\ UNCHANGED <<files, db, todo, work, phase, other, steady>>

-------------------------------------------------------------------------------
(* DiffSource::run: Add and Remove.                                        *)
StartAddSource ==
  \E s \in Sources, v \in Versions :
    /\ "setup" \in recorded
    /\ Start([op |-> "addsource", src |-> s, version |-> v], "addsource")

SourceExists ==
  /\ pc = "addsource" /\ cmd.src \in db.sources
  /\ Fails(db)

InsertSource ==
  /\ pc = "addsource" /\ cmd.src \notin db.sources
  /\ db' = [db EXCEPT !.sources = @ \cup {cmd.src}]
  /\ pc' = "diff" /\ queue' = {cmd.src}
  /\ UNCHANGED <<meta, todo, work, phase, other, steady>>

Undo ==
  /\ pc = "undo"
  /\ Fails(WithoutSource(db, cmd.src))

StartRemoveSource ==
  \E s \in db.sources :
    /\ "setup" \in recorded
    /\ Start([op |-> "removesource", src |-> s], "removesource")

DeleteSource ==
  /\ pc = "removesource"
  /\ db' = WithoutSource(db, cmd.src)
  /\ Goto("removefile") /\ UNCHANGED <<meta, todo>>

RemoveFile ==
  /\ pc = "removefile"
  /\ files' = [files EXCEPT ![cmd.src] = None]
  /\ End("ok", db) /\ UNCHANGED <<recorded, cmd, faults>>

-------------------------------------------------------------------------------
(* AddApk::run.                                                            *)
StartAddApk ==
  \E a \in Apks, force, diffs \in BOOLEAN :
    /\ "setup" \in recorded
    /\ Start([op |-> "addapk", apk |-> a, force |-> force, diff |-> diffs], "addapk")

ApkExists ==
  /\ pc = "addapk" /\ ApkItem(cmd.apk) \in db.items /\ ~cmd.force
  /\ Fails(db)

(* The old rows go in a statement of their own, before the transaction.    *)
ReplaceApk ==
  /\ pc = "addapk" /\ ApkItem(cmd.apk) \in db.items /\ cmd.force
  /\ db' = WithoutItems(db, OfApk(cmd.apk))
  /\ UNCHANGED <<meta, pc, todo, work, diff, steady>>

AddOneApk ==
  /\ pc = "addapk" /\ ApkItem(cmd.apk) \notin db.items
  /\ IF cmd.apk \in NoManifest
     THEN pc' = "added" /\ UNCHANGED work
     ELSE pc' = "insert" /\ work' = {ApkItem(cmd.apk)}
  /\ UNCHANGED <<meta, db, todo, diff, steady>>

DiffAdded ==
  /\ pc = "added"
  /\ pc' = "diff" /\ queue' = IF cmd.diff THEN db.sources ELSE {}
  /\ UNCHANGED <<meta, db, todo, work, phase, other, steady>>

-------------------------------------------------------------------------------
(* AddServiceImpl::run: three deletions, one transaction, the diffs.       *)
StartAddImpl ==
  \E s \in Services, diffs \in BOOLEAN :
    /\ ServiceItem(s) \in db.items
    /\ Start([op |-> "addimpl", service |-> s, diff |-> diffs], "deletemethods")

DeleteMethods ==
  /\ pc = "deletemethods"
  /\ db' = WithoutItems(db, MethodsOf(cmd.service))
  /\ Goto("deletediffs") /\ UNCHANGED <<meta, todo>>

DeleteDiffs ==
  /\ pc = "deletediffs"
  /\ db' = [db EXCEPT !.rows = {r \in @ : r.item # ServiceItem(cmd.service)}]
  /\ Goto("readd") /\ UNCHANGED <<meta, todo>>

(* The same task as for setup, with the files of stub and implementation   *)
(* that the user names, taken to be those that would be found.             *)
ReaddMethods ==
  /\ pc = "readd"
  /\ \E found \in {MethodsOf(cmd.service), {}} : db' = [db EXCEPT !.items = @ \cup found]
  /\ Goto("added") /\ UNCHANGED <<meta, todo>>

-------------------------------------------------------------------------------
(* The user cancels.  wipe, remove and add-service-impl have no canceller. *)
Cancel ==
  /\ cmd.op \in {"setup", "emulator", "addsource", "addapk"}
  /\ pc \in {"setup", "unrecord", "unrecorddiff", "apks", "insert", "services",
             "phase", "rows", "methods"}
  /\ ~cancelled /\ faults < MaxFaults
  /\ cancelled' = TRUE /\ faults' = faults + 1
  /\ UNCHANGED <<meta, db, moved, cmd, pc, todo, work, diff, report, outcome>>

(* A call of the running command fails: of the device, the disk or one of  *)
(* the databases.                                                          *)
Fault ==
  /\ pc # "idle" /\ faults < MaxFaults
  /\ faults' = faults + 1
  /\ CASE pc = "insert" -> Rollback
       [] pc \in {"diff", "phase", "rows", "methods"} -> DiffFails
       [] OTHER -> End("error", db)
  /\ UNCHANGED <<meta, cmd>>

(* The process is killed: an open transaction is rolled back.              *)
Kill ==
  /\ pc # "idle" /\ faults < MaxFaults
  /\ faults' = faults + 1
  /\ End("error", db)
  /\ UNCHANGED <<meta, cmd>>

-------------------------------------------------------------------------------
Starts ==
  StartSetup \/ StartWipe \/ StartEmulator \/ StartAddSource \/ StartRemoveSource
  \/ StartAddApk \/ StartAddImpl

SetupSteps ==
  \/ AlreadySetup \/ BeginFresh \/ Wipe \/ UnrecordSetup \/ UnrecordDiff
  \/ ForgetDiff \/ ForgetSetup \/ SetupCancelled
  \/ \E a \in Apks : NoSuchManifest(a) \/ ApkRefused(a) \/ BeginApk(a)
  \/ \E c \in Comps : InsertComp(c)
  \/ CommitApk \/ ApkCancelled \/ ListServices
  \/ \E s \in Services : AddService(s)
  \/ ServiceRefused \/ RecordSetup

DiffSteps ==
  \/ \E s \in Sources : NextSource(s)
  \/ \E k \in Kinds \ {"method"} : BeginPhase(k)
  \/ \E i \in Items : DiffItem(i) \/ DiffService(i) \/ ServiceHasRow(i)
  \/ \E m \in Methods : DiffMethod(m)
  \/ ServiceDone \/ EndPhase \/ DiffCancelled \/ Diffed \/ CopyFile \/ EndOfSources

OtherSteps ==
  \/ AlreadyDiffed \/ NoEmulator \/ BeginDiff \/ DeleteEmulator \/ InsertEmulator
  \/ ReopenDiff \/ SourceExists \/ InsertSource \/ Undo \/ DeleteSource \/ RemoveFile
  \/ ApkExists \/ ReplaceApk \/ AddOneApk \/ DiffAdded
  \/ DeleteMethods \/ DeleteDiffs \/ ReaddMethods

Steps == SetupSteps \/ DiffSteps \/ OtherSteps
Next == Starts \/ Steps \/ Cancel \/ Fault \/ Kill

Spec == Init /\ [][Next]_vars
-------------------------------------------------------------------------------
TypeOK ==
  /\ recorded \subseteq {"setup", "diff"}
  /\ db.items \subseteq Items /\ db.sources \subseteq Sources
  /\ \A r \in db.rows : r.item \in db.items /\ r.src \in db.sources
  /\ moved \in BOOLEAN
  /\ files \in [Sources -> Versions \cup {Aosp, Empty, None}]
  /\ todo \subseteq Items
  /\ work \subseteq Items /\ phase \subseteq Kinds /\ queue \subseteq Sources
  /\ {report, cancelled} \subseteq BOOLEAN
  /\ outcome \in {"none", "ok", "error"}
  /\ faults \in 0 .. MaxFaults

(* An APK and what its manifest declares are in the database together or   *)
(* not at all, whatever interrupted setup or add-apk; so are the methods   *)
(* of a service only with the service.                                     *)
ApkWhole ==
  /\ \A a \in Apks \ NoManifest :
        OfApk(a) \subseteq db.items \/ OfApk(a) \cap db.items = {}
  /\ \A m \in OfKind("method") : ServiceItem(m.service) \in db.items

Finished(op) == pc = "idle" /\ cmd.op = op /\ outcome = "ok"

(* When setup ends without an error, every APK with a manifest is in the   *)
(* database with all that the manifest declares, whatever references it    *)
(* uses, and so is every service, although single APKs may fail without    *)
(* ending it; what is there of the methods of services is what their smali *)
(* says; and what setup did is recorded.                                   *)
SetupOkMeansAll ==
  Finished("setup") =>
    /\ \A a \in Apks \ NoManifest : ApkItem(a) \in db.items
    /\ \A e \in Elements : \E row \in OfKind(e.kind) : row.apk = e.apk /\ AsDeclared(row, e)
    /\ \A s \in Services : ServiceItem(s) \in db.items
    /\ \A m \in OfKind("method") : AsWritten(m)
    /\ "setup" \in recorded
    /\ cmd.diff => "diff" \in recorded /\ files[Emulator] = Aosp

DiffedWith(s) == \A i \in db.items : RowsFor(i, s) # {}
TrulyDiffedWith(s, version) ==
  /\ DiffedWith(s)
  /\ \A r \in db.rows : r.src = s => IsTrueOf(r.row, r.item, Content[version])

(* After a setup with a diff, or diff-source add, every item has a row     *)
(* that says how it differs from what the source has; a diff that was cut  *)
(* short, or compared with another database, never passes for one.         *)
DiffOkMeansTrue ==
  /\ Finished("setup") /\ cmd.diff => TrulyDiffedWith(Emulator, Aosp)
  /\ Finished("addsource") => TrulyDiffedWith(cmd.src, cmd.version)
  /\ Finished("emulator") => DiffedWith(Emulator)

(* A user who runs setup again as long as it has not been recorded: after  *)
(* the last fault nothing that was left in the database stops it.          *)
SetupCompletes == []<>("setup" \in recorded)

PersistentSpec ==
  /\ Spec
  /\ WF_vars(Steps)
  /\ SF_vars("setup" \notin recorded /\ StartSetup /\ ~cmd'.force)

===============================================================================
