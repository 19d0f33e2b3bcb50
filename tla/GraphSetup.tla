------------------------------ MODULE GraphSetup ------------------------------
(***************************************************************************)
(* `dtu graph setup`, `graph wipe` and `graph remove-source` over many     *)
(* invocations: Smalisa analyses the framework and every APK into CSV      *)
(* files, the import loads each file of each source into the graph         *)
(* database and remembers in _load_status that it did, and two steps of    *)
(* the progress record that all of it is done.  A user may cancel, a       *)
(* statement may fail and the process may be killed at any point.          *)
(***************************************************************************)
EXTENDS Naturals, Sequences, FiniteSets, GraphSources

CONSTANTS
  Denylists,   \* sets of APKs that --apk-denylist-file may name
  CanForce,    \* whether --force is used
  CanWipe,     \* whether `graph wipe` is used
  Removable,   \* sources that `graph remove-source` may be given
  CutKinds,    \* kinds in whose file a kill cuts a record
  Cancellable, \* phases the user may cancel: "analysis", "import"
  MaxCancels,  \* bound: cancellations
  MaxFaults    \* bound: statements that fail and kills

(* Fault: calls are loaded before the methods they refer to.               *)
KindsCallsEarly ==
  <<"Classes", "Supers", "Interfaces", "ClassFields", "Calls", "Methods",
    "MethodFieldAccess", "Strings", "MethodStrings">>

(* CSV::all(): the order of loading.                                       *)
Kinds == <<"Classes", "Supers", "Interfaces", "ClassFields", "Methods", "Calls",
           "MethodFieldAccess", "Strings", "MethodStrings">>
Kind == {Kinds[i] : i \in DOMAIN Kinds}

(* What the schema says of rows that are inserted a second time: refused   *)
(* by a unique index or primary key, ignored, or kept twice.               *)
Unique  == {"Classes", "MethodFieldAccess", "MethodStrings"}
Ignored == {"Strings"}

(* Kinds whose rows refer to classes or methods of the framework, too, and *)
(* those that add classes to it.                                           *)
Relations  == {"Supers", "Interfaces", "Calls", "MethodFieldAccess"}
AddClasses == {"Supers", "Interfaces", "Calls"}

(* Files whose records go straight into their table.                       *)
Direct == {"Classes", "Strings"}

ASSUME GraphAssumption ==
  /\ Framework \notin Apk /\ IsFiniteSet(Apk)
  /\ Denylists \subseteq SUBSET Apk
  /\ {CanForce, CanWipe} \subseteq BOOLEAN
  /\ Removable \subseteq Source /\ CutKinds \subseteq Kind
  /\ Cancellable \subseteq {"analysis", "import"}
  /\ MaxCancels \in Nat /\ MaxFaults \in Nat

VARIABLES
  pc,        \* where the command is; "idle" when none runs
  options,   \* of the command: forced, onlySmalisa
  apks,      \* the APKs of this run
  todo,      \* those of them the current loop has not reached
  source,    \* the source at hand
  next,      \* index of the file at hand
  cancelled, \* the flag of the phase's TaskCanceller
  csv,       \* the analysis files of each source
  id,        \* the id of each source's row: 0 without one, 1, or 2 for another
  rows,      \* how often the rows of each file are in the database
  loaded,    \* _load_status: the kinds marked for each source
  strays,    \* whether source 1 has classes without being the framework
  progress,  \* Prereq::Smalisa and Prereq::GraphDatabaseSetup
  cancels, faults

memory == <<pc, options, apks, todo, source, next, cancelled>>
database == <<id, rows, loaded, strays>>
disk   == <<csv, database, progress>>
budget == <<cancels, faults>>
vars   == <<memory, disk, budget>>

Analysis == {"analyse", "writing", "nextapk"}
Import   == {"source", "kind", "load", "staged", "mark"}

(* "none": not all of the files that AddDirTask looks for exist; "short":  *)
(* records are missing; "torn": and the last one is cut.                   *)
CsvState == {"none", "short", "torn", "whole"}
MaxCopies == 2

TypeOK ==
  /\ pc \in {"idle", "record", "finish", "wiped"} \cup Analysis \cup Import
  /\ options \in [forced: BOOLEAN, onlySmalisa: BOOLEAN]
  /\ todo \subseteq apks /\ apks \subseteq Apk
  /\ source \in Source
  /\ next \in 1 .. Len(Kinds) + 1
  /\ next = Len(Kinds) + 1 => pc \in {"idle", "kind", "finish", "wiped"}
  /\ cancelled \in BOOLEAN
  /\ csv \in [Source -> CsvState]
  /\ id \in [Source -> 0 .. 2]
  /\ rows \in [Source -> [Kind -> 0 .. MaxCopies]]
  /\ loaded \in [Source -> SUBSET Kind]
  /\ strays \in BOOLEAN
  /\ progress \in [smalisa: BOOLEAN, graph: BOOLEAN]
  /\ cancels \in 0 .. MaxCancels /\ faults \in 0 .. MaxFaults

-------------------------------------------------------------------------------
NoRows == [k \in Kind |-> 0]

(* A new database has the framework as source 1.                           *)
EmptyDatabase ==
  [id     |-> [s \in Source |-> IF s = Framework THEN 1 ELSE 0],
   rows   |-> [s \in Source |-> NoRows],
   loaded |-> [s \in Source |-> {}]]

Init ==
  /\ pc = "idle"
  /\ options = [forced |-> FALSE, onlySmalisa |-> FALSE]
  /\ apks = {} /\ todo = {} /\ source = Framework /\ next = 1
  /\ cancelled = FALSE
  /\ csv = [s \in Source |-> "none"]
  /\ id = EmptyDatabase.id /\ rows = EmptyDatabase.rows
  /\ loaded = EmptyDatabase.loaded /\ strays = FALSE
  /\ progress = [smalisa |-> FALSE, graph |-> FALSE]
  /\ cancels = 0 /\ faults = 0

(* The command returns.                                                    *)
Exit ==
  /\ pc' = "idle"
  /\ options' = [forced |-> FALSE, onlySmalisa |-> FALSE]
  /\ apks' = {} /\ todo' = {} /\ source' = Framework /\ next' = 1
  /\ cancelled' = FALSE

Goto(to) ==
  /\ pc' = to
  /\ UNCHANGED <<options, apks, todo, source, next, cancelled>>

(* Both phases begin with the framework and have a canceller of their own. *)
BeginPhase(first) ==
  /\ pc' = first
  /\ source' = Framework
  /\ todo' = apks'
  /\ next' = 1
  /\ cancelled' = FALSE

(* A loop over the APKs takes the next one, in the order read_dir has.     *)
TakeApk(to) ==
  /\ \E s \in todo : source' = s /\ todo' = todo \ {s}
  /\ next' = 1
  /\ pc' = to
  /\ UNCHANGED <<options, apks, cancelled>>

-------------------------------------------------------------------------------
(* The user cancels, a statement or file operation fails, or the process   *)
(* is killed.                                                              *)

Cancel ==
  /\ cancels < MaxCancels /\ ~cancelled
  /\ \/ "analysis" \in Cancellable /\ pc \in Analysis
     \/ "import" \in Cancellable /\ pc \in Import
  /\ cancelled' = TRUE
  /\ cancels' = cancels + 1
  /\ UNCHANGED <<pc, options, apks, todo, source, next, faults, disk>>

Fault ==
  /\ faults < MaxFaults
  /\ faults' = faults + 1
  /\ UNCHANGED cancels

(* A kill while the files of a source are written leaves any part of them. *)
Crash ==
  /\ pc # "idle"
  /\ Fault
  /\ Exit
  /\ IF pc = "writing"
     THEN \E c \in CsvState \ {"whole"} : csv' = [csv EXCEPT ![source] = c]
     ELSE UNCHANGED csv
  /\ UNCHANGED <<database, progress>>

(* A statement fails where the code returns the error.                     *)
Failure ==
  /\ pc \in {"record", "finish", "wiped"} \cup Import
  /\ Fault
  /\ Exit
  /\ UNCHANGED disk

-------------------------------------------------------------------------------
(* Setup::run.                                                             *)

(* A database that is set up is refused, unless it is forced.  Smalisa is  *)
(* not run again once it is recorded.                                      *)
Start(forced, only, denied) ==
  /\ pc = "idle"
  /\ IF (progress.graph /\ ~forced) \/ (progress.smalisa /\ only)
     THEN UNCHANGED memory
     ELSE /\ options' = [forced |-> forced, onlySmalisa |-> only]
          /\ apks' = Apk \ denied
          /\ BeginPhase(IF progress.smalisa THEN "source" ELSE "analyse")
  /\ UNCHANGED <<disk, budget>>

(* smalisa::AddDirTask: a source whose files exist is left alone;          *)
(* otherwise the writers create all of them.                               *)
Analyse ==
  /\ pc = "analyse"
  /\ Goto(IF csv[source] = "none" THEN "writing" ELSE "nextapk")
  /\ UNCHANGED <<disk, budget>>

(* The last look at the flag comes after the last smali file.  A record    *)
(* that cannot be written is logged and left out.                          *)
WriteDone ==
  /\ pc = "writing" /\ ~cancelled
  /\ \E c \in {"whole", "short", "torn"} :
       /\ csv' = [csv EXCEPT ![source] = c]
       /\ IF c = "whole" THEN UNCHANGED budget ELSE Fault
  /\ Goto("nextapk")
  /\ UNCHANGED <<database, progress>>

(* write_analysis_files removes the files after an error.                  *)
WriteFails ==
  /\ pc = "writing"
  /\ IF cancelled THEN UNCHANGED budget ELSE Fault
  /\ Exit
  /\ UNCHANGED disk

(* The loop of run_smalisa; a cancellation ends it, without an error.      *)
NextApk ==
  /\ pc = "nextapk"
  /\ IF cancelled \/ todo = {} THEN Goto("record") ELSE TakeApk("analyse")
  /\ UNCHANGED <<disk, budget>>

RecordSmalisa ==
  /\ pc = "record"
  /\ progress' = [progress EXCEPT !.smalisa = TRUE]
  /\ IF options.onlySmalisa THEN Exit
     ELSE UNCHANGED <<options, apks>> /\ BeginPhase("source")
  /\ UNCHANGED <<csv, database, budget>>

-------------------------------------------------------------------------------
(* run_initial_import: add_directory for the framework, then each APK.     *)

(* A row id is one more than the largest there is.                         *)
AddSource ==
  /\ pc = "source"
  /\ id' = IF id[source] # 0 THEN id
           ELSE [id EXCEPT ![source] = IF \A s \in Source : id[s] = 0 THEN 1 ELSE 2]
  /\ Goto("kind")
  /\ UNCHANGED <<csv, rows, loaded, strays, progress, budget>>

AtKind == pc = "kind" /\ next \in DOMAIN Kinds

(* The file at hand was loaded before.                                     *)
SkipKind ==
  /\ AtKind /\ ~cancelled
  /\ Kinds[next] \in loaded[source]
  /\ next' = next + 1
  /\ UNCHANGED <<pc, options, apks, todo, source, cancelled, disk, budget>>

(* Fault: the status is not looked at.                                     *)
OpenKindAlways ==
  /\ AtKind /\ ~cancelled
  /\ csv[source] # "none"
  /\ Goto("load")
  /\ UNCHANGED <<disk, budget>>

(* should_load_csv takes a failed query for a file that was not loaded.    *)
OpenKind ==
  /\ AtKind /\ ~cancelled
  /\ csv[source] # "none"
  /\ IF Kinds[next] \in loaded[source] THEN Fault ELSE UNCHANGED budget
  /\ Goto("load")
  /\ UNCHANGED disk

(* Fault: a cancellation ends the import without an error.                 *)
LeaveKindQuietly ==
  /\ AtKind
  /\ cancelled \/ (csv[source] = "none" /\ Kinds[next] \notin loaded[source])
  /\ IF cancelled THEN Goto("finish") ELSE Exit
  /\ UNCHANGED <<disk, budget>>

(* The import is cancelled, or the file is missing: load_complete and out. *)
LeaveKind ==
  /\ AtKind
  /\ cancelled \/ (csv[source] = "none" /\ Kinds[next] \notin loaded[source])
  /\ Exit
  /\ UNCHANGED <<disk, budget>>

(* A record with a field missing is an error.                              *)
Cut(s, k) == csv[s] = "torn" /\ k \in CutKinds

(* One transaction puts the records into their table.                      *)
Insert(s, k) ==
  /\ ~(k \in Unique /\ rows[s][k] > 0)
  /\ rows' = [rows EXCEPT ![s][k] = IF k \in Ignored THEN 1
                                    ELSE IF @ < MaxCopies THEN @ + 1 ELSE @]

(* The same for records that are read from the file: a cut one rolls the   *)
(* transaction back.                                                       *)
LoadDirect ==
  /\ pc = "load" /\ Kinds[next] \in Direct
  /\ ~Cut(source, Kinds[next])
  /\ Insert(source, Kinds[next])
  /\ Goto("mark")
  /\ UNCHANGED <<csv, id, loaded, strays, progress, budget>>

(* Relations of an APK while the framework, removed and added again, has   *)
(* another id than 1.                                                      *)
Apart(s, k) == s # Framework /\ id[Framework] # 1 /\ k \in Relations

(* The other kinds are staged in a temporary table first.                  *)
Stage ==
  /\ pc = "load" /\ Kinds[next] \notin Direct
  /\ ~Cut(source, Kinds[next])
  /\ Goto("staged")
  /\ UNCHANGED <<disk, budget>>

(* The rows are joined with the classes and methods of the source and of   *)
(* source 1, and classes that are in neither are added to source 1.  When  *)
(* that is not the framework, the latter are strays, foreign keys being    *)
(* off, and of an APK's relations not all rows are there.                  *)
LoadStaged ==
  /\ pc = "staged"
  /\ IF Apart(source, Kinds[next]) THEN UNCHANGED rows ELSE Insert(source, Kinds[next])
  /\ strays' = (strays \/ (id[Framework] # 1 /\ Kinds[next] \in AddClasses))
  /\ Goto("mark")
  /\ UNCHANGED <<csv, id, loaded, progress, budget>>

(* Fault: an error of a load is logged only.                               *)
LoadFailsQuietly ==
  /\ pc \in {"load", "staged"}
  /\ \/ pc = "load" /\ Cut(source, Kinds[next])
     \/ /\ pc = "staged" \/ Kinds[next] \in Direct
        /\ Kinds[next] \in Unique /\ rows[source][Kinds[next]] > 0
  /\ Goto("mark")
  /\ UNCHANGED <<disk, budget>>

(* A record is cut, or the database refuses a duplicate: of a row that is  *)
(* there, of one of those left of an APK's relations without the           *)
(* framework's, or of a stray class.                                       *)
LoadFails ==
  /\ pc \in {"load", "staged"}
  /\ \/ pc = "load" /\ Cut(source, Kinds[next])
     \/ /\ pc = "staged" \/ Kinds[next] \in Direct
        /\ Kinds[next] \in Unique
        /\ rows[source][Kinds[next]] > 0 \/ Apart(source, Kinds[next])
     \/ /\ pc = "load" /\ Kinds[next] = "Classes" /\ strays
        /\ source = Framework /\ id[Framework] = 1
  /\ Exit
  /\ UNCHANGED <<disk, budget>>

(* Fault: the import can be cancelled before the status is written.        *)
MarkUnlessCancelled ==
  /\ pc = "mark"
  /\ IF cancelled THEN Exit /\ UNCHANGED loaded
     ELSE /\ loaded' = [loaded EXCEPT ![source] = @ \cup {Kinds[next]}]
          /\ pc' = "kind" /\ next' = next + 1
          /\ UNCHANGED <<options, apks, todo, source, cancelled>>
  /\ UNCHANGED <<csv, id, rows, strays, progress, budget>>

(* update_load_status, a statement of its own.                             *)
Mark ==
  /\ pc = "mark"
  /\ loaded' = [loaded EXCEPT ![source] = @ \cup {Kinds[next]}]
  /\ pc' = "kind" /\ next' = next + 1
  /\ UNCHANGED <<options, apks, todo, source, cancelled>>
  /\ UNCHANGED <<csv, id, rows, strays, progress, budget>>

NextSource ==
  /\ pc = "kind" /\ next > Len(Kinds)
  /\ IF todo = {} THEN Goto("finish") ELSE TakeApk("source")
  /\ UNCHANGED <<disk, budget>>

(* finalize and the second step of the progress.                           *)
Finish ==
  /\ pc = "finish"
  /\ Exit
  /\ progress' = [progress EXCEPT !.graph = TRUE]
  /\ UNCHANGED <<csv, database, budget>>

-------------------------------------------------------------------------------
(* Graph::wipe removes the files of the database, and then the progress.   *)
Wipe ==
  /\ CanWipe /\ pc = "idle"
  /\ id' = EmptyDatabase.id /\ rows' = EmptyDatabase.rows
  /\ loaded' = EmptyDatabase.loaded /\ strays' = FALSE
  /\ Goto("wiped")
  /\ UNCHANGED <<csv, progress, budget>>

RecordWipe ==
  /\ pc = "wiped"
  /\ Exit
  /\ progress' = [progress EXCEPT !.graph = FALSE]
  /\ UNCHANGED <<csv, database, budget>>

(* remove_source: every foreign key cascades, so that the relations other  *)
(* sources have with the framework go with it (0: not all rows are there). *)
RemoveSource(s) ==
  /\ pc = "idle" /\ s \in Removable /\ id[s] # 0
  /\ id' = [id EXCEPT ![s] = 0]
  /\ loaded' = [loaded EXCEPT ![s] = {}]
  /\ rows' = [t \in Source |->
                IF t = s THEN NoRows
                ELSE IF s = Framework
                THEN [k \in Kind |-> IF k \in Relations THEN 0 ELSE rows[t][k]]
                ELSE rows[t]]
  /\ strays' = (strays /\ id[s] # 1)
  /\ UNCHANGED <<memory, csv, progress, budget>>

-------------------------------------------------------------------------------
(* The steps of a run of `dtu graph setup` or `graph wipe`.                *)
Step ==
  \/ Analyse \/ WriteDone \/ WriteFails \/ NextApk \/ RecordSmalisa
  \/ AddSource \/ SkipKind \/ OpenKind \/ LeaveKind
  \/ LoadDirect \/ Stage \/ LoadStaged \/ LoadFails \/ Mark
  \/ NextSource \/ Finish \/ RecordWipe

StartSome ==
  \E forced \in {FALSE} \cup {CanForce}, only \in BOOLEAN, denied \in Denylists :
    Start(forced, only, denied)

Next ==
  \/ StartSome \/ Wipe \/ (\E s \in Source : RemoveSource(s))
  \/ Step \/ Cancel \/ Crash \/ Failure

Spec == Init /\ [][Next]_vars

(* A run goes on until it returns, and the user runs the whole setup again *)
(* until it is done.                                                       *)
FullStart == Start(FALSE, FALSE, {})
PersistentSpec == Spec /\ WF_vars(Step) /\ SF_vars(FullStart)

-------------------------------------------------------------------------------
AllLoaded(s) == loaded[s] = Kind

(* A file that is marked as loaded has its rows in the database, through   *)
(* every crash, failure and repetition, while the framework is source 1:   *)
(* removing it takes rows from the APKs, whose status stays.               *)
StatusMeansRows ==
  id[Framework] = 1 => \A s \in Source : \A k \in loaded[s] : rows[s][k] > 0

(* Which kinds a file's rows are joined with when they are inserted        *)
(* (CSV::all); rows that find no partner are dropped without an error.     *)
Requires(k) ==
  CASE k \in {"Supers", "Interfaces", "ClassFields", "Methods"} -> {"Classes"}
    [] k = "Calls" -> {"Methods"}
    [] k = "MethodFieldAccess" -> {"Methods", "ClassFields"}
    [] k = "MethodStrings" -> {"Methods", "Strings"}
    [] OTHER -> {}

(* While the framework is source 1, as the statements take for granted,    *)
(* rows are inserted only when the rows they are joined with are there:    *)
(* those of the same source, and all of the framework's for an APK.        *)
RequirementsFirst ==
  [][id[Framework] = 1 =>
       \A s \in Source, k \in Kind : rows'[s][k] > rows[s][k] =>
         /\ \A r \in Requires(k) : rows[s][r] > 0
         /\ s # Framework =>
              AllLoaded(Framework) /\ \A l \in Kind : rows[Framework][l] > 0]_vars

(* No row is in the database twice, however often the setup is cancelled,  *)
(* repeated, forced or wiped (load_csv is all or nothing).  A kill between *)
(* rows and their status has those without a unique key inserted again.    *)
OneCopy == faults = 0 => \A s \in Source, k \in Kind : rows[s][k] <= 1

(* The setup is recorded only when all files of every source of that run   *)
(* were loaded, and the source was analysed completely unless a kill or a  *)
(* failure left its files short, whatever was cancelled or removed before. *)
DoneMeansAll ==
  [][progress'.graph /\ ~progress.graph =>
       \A s \in {Framework} \cup apks :
         AllLoaded(s) /\ (faults = 0 => csv[s] = "whole")]_vars

(* Prereq::Smalisa: "Smalisa has been run on everything".  Not so after a  *)
(* cancelled analysis, or one with a denylist, which is recorded, too.     *)
AllAnalysed == progress.smalisa => \A s \in Source : csv[s] = "whole"

(* A user who repeats an interrupted setup gets it done (should_load_csv), *)
(* however often the import is cancelled or the database wiped, as long as *)
(* no kill or failure falls between rows and their status, the record of   *)
(* the analysis is true, and the framework, whose id the import takes for  *)
(* 1, is not removed.                                                      *)
Restarts ==
  [](faults = 0 /\ AllAnalysed /\ id[Framework] = 1) => <>progress.graph

-------------------------------------------------------------------------------
===============================================================================
