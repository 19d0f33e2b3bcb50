------------------------------ MODULE AppProject ------------------------------
(***************************************************************************)
(* The source project of the test application: `dtu app setup`, the        *)
(* commands that add, change and remove tests, and `dtu app build`.  The   *)
(* meta database lists the tests, the permissions and the application id;  *)
(* the files of the project are written from it.                           *)
(*                                                                         *)
(* One command runs at a time, as a sequence of operations on the database *)
(* and on files.  Any operation can fail, or the process can be killed in  *)
(* it, which leaves the rest undone and a file that was being written      *)
(* torn.  The name of a class is a sequence of words.                      *)
(***************************************************************************)
EXTENDS Naturals, Sequences, FiniteSets, SequencesExt

CONSTANTS
  Ids,            \* application ids
  DefaultId,      \* the one of a new project
  Permissions,    \* get_normal_permissions() of the device database, by name
  SystemServices, \* system services there: name -> [iface, methods]
  Authorities,    \* authorities of the providers there
  TestRequests,   \* tests that may be asked for
  Digits,         \* words that are numbers
  MaxCommands,    \* bound: commands
  MaxFaults       \* bound: operations that fail

None == <<>>
Some(v) == <<v>>

-------------------------------------------------------------------------------
(* The class of a new test.  ensure_valid_name keeps letters alone.        *)
ValidName(words) == SelectSeq(words, LAMBDA w : w \notin Digits)

ClassName(r) ==
  CASE r.kind \in {"generic", "provider"} -> <<"Test">> \o ValidName(r.name)
    [] r.kind = "service" ->
         ValidName(IF r.name # None THEN r.name ELSE <<"Test", r.class, "Transaction", r.txn[1]>>)
    [] r.kind = "system" ->
         IF r.name # None THEN ValidName(r.name)
         ELSE ValidName(<<r.service>>)
              \o (IF r.method # None THEN ValidName(r.method) ELSE <<"Transaction", r.txn[1]>>)

Tests == {ClassName(r) : r \in {r \in TestRequests : r.kind # "system" \/ r.method \o r.txn # None}}

(* What new-provider and new-system-service look up in the device database *)
(* before they write anything.  A method that is there has a transaction.  *)
Answerable(r) ==
  CASE r.kind = "provider" -> r.authority \in Authorities
    [] r.kind = "system" ->
         LET known == r.service \in DOMAIN SystemServices
         IN /\ r.method # None \/ r.txn # None
            /\ known \/ (r.iface # None /\ r.txn # None)
            /\ r.iface # None \/ SystemServices[r.service].iface # None
            /\ IF r.txn # None THEN r.txn # Some("0")
               ELSE r.method[1] \in SystemServices[r.service].methods
    [] OTHER -> TRUE

-------------------------------------------------------------------------------
Statuses == {"exp", "fail", "conf"}

(* The generated files: lists of the tests of each status, as a layout and *)
(* as code; and build.gradle.kts, which has the application id.            *)
ListFile(form, status) == <<form, status>>
Lists == {ListFile(form, status) : form \in {"layout", "code"}, status \in Statuses}
Config == <<"config">>
Manifest == <<"manifest">>
AppBuild == <<"build">>
Generated == Lists \cup {Config, Manifest, AppBuild}

(* The files of the project that are the same for every device.            *)
Fixed == {"wrapper", "settings", "rootBuild", "sources", "gitignore", "metadata",
          "mainManifest", "properties"}

Kinds == {"generic", "provider", "service", "system"}

ASSUME AppProjectAssumption ==
  /\ IsFiniteSet(TestRequests)
  /\ \A r \in TestRequests : r.kind \in Kinds /\ r.method \in Seq(STRING) /\ r.txn \in Seq(STRING)
  /\ MaxCommands \in Nat /\ MaxFaults \in Nat
  /\ DefaultId \in Ids /\ {"absent", "torn", ""} \cap Ids = {}

VARIABLES
  tests,    \* app_activities: test -> status, "none" if it has no row
  perms,    \* app_permissions
  appId,    \* key_values, APP_ID_KEY
  done,     \* progress, Prereq::AppSetup
  src,      \* test -> its file: "absent", "torn", "template" or "edited" by the user
  gen,      \* generated file -> its content
  fixed,    \* other file -> "absent", "torn" or "whole"
  noregen,  \* whether there is a .dtu-noregen file
  run,      \* the command that runs, or "none"
  todo,     \* the operations it has not done
  cut,      \* history: commands that failed and have not succeeded since
  commands, faults

database == <<tests, perms, appId, done>>
disk == <<src, gen, fixed, noregen>>
vars == <<tests, perms, appId, done, src, gen, fixed, noregen, run, todo, cut, commands, faults>>

Blank == [id |-> "", perms |-> {}, tests |-> {}]
Absent == [Blank EXCEPT !.id = "absent"]
Torn == [Blank EXCEPT !.id = "torn"]

Init ==
  /\ tests = [t \in Tests |-> "none"] /\ perms = {}
  /\ appId = DefaultId /\ done = FALSE
  /\ src = [t \in Tests |-> "absent"]
  /\ gen = [f \in Generated |-> Absent]
  /\ fixed = [f \in Fixed |-> "absent"]
  /\ noregen = FALSE
  /\ run = "none" /\ todo = <<>> /\ cut = {}
  /\ commands = 0 /\ faults = 0

-------------------------------------------------------------------------------
(* Operations.                                                             *)

Op(name) == [op |-> name]
Write(file) == [op |-> "write", file |-> file]
Fix(file) == [op |-> "fix", file |-> file]
Empty(file) == [op |-> "empty", file |-> file]
Of(name, test) == [op |-> name, test |-> test]
SetId(id) == [op |-> "id", id |-> id]

(* activties_to_buttons, and the rest of what update() reads.              *)
Listed(status) == {t \in Tests : tests[t] = status}
Recorded == {t \in Tests : tests[t] # "none"}
Content(file) ==
  [id |-> IF file \in {Config, AppBuild} THEN appId ELSE "",
   perms |-> IF file = Manifest THEN perms ELSE {},
   tests |-> IF file = Manifest THEN Recorded
             ELSE IF file \in Lists THEN Listed(file[2]) ELSE {}]

BaseActivities ==
  <<ListFile("layout", "exp"), ListFile("code", "exp"), ListFile("layout", "conf"),
    ListFile("code", "conf"), ListFile("layout", "fail"), ListFile("code", "fail")>>

Each(files, operation(_)) == [i \in DOMAIN files |-> operation(files[i])]

(* Fault: the lists of failed tests are not written again.                 *)
UpdateUnfailed == Each(<<Config, Manifest>> \o SubSeq(BaseActivities, 1, 4), Write)

(* TemplateRenderer::update.                                               *)
Update == Each(<<Config, Manifest>> \o BaseActivities, Write)

(* TemplateRenderer::setup.  Neither tests nor permissions are in these    *)
(* files until the first update.                                           *)
Templates ==
  <<Fix("settings"), Write(Config), Write(AppBuild), Fix("rootBuild"), Empty(Manifest)>>
  \o Each(BaseActivities, Empty)
  \o Each(<<"sources", "gitignore", "metadata", "mainManifest", "properties">>, Fix)

(* regen_templates.                                                        *)
Regenerate == IF noregen THEN <<>> ELSE Update

-------------------------------------------------------------------------------
(* Commands.  Each looks at what it was given and then has operations.     *)

Command(name, operations) ==
  /\ run = "none" /\ commands < MaxCommands
  /\ commands' = commands + 1
  /\ run' = name /\ todo' = operations
  /\ UNCHANGED <<database, disk, cut, faults>>

Setup(force, id) ==
  /\ done => force
  /\ Command(IF done THEN "recreate" ELSE "setup",
       (IF done THEN <<Op("wipe"), Op("clear")>> ELSE <<>>)
       \o <<SetId(id), Fix("wrapper"), Op("perms")>> \o Templates \o <<Op("done")>>)

(* Fault: a name that is taken is not refused.                             *)
NewTestTaken(r) ==
  /\ done /\ Answerable(r)
  /\ LET t == ClassName(r)
     IN Command("new", <<Of("template", t), Of("insert", t)>> \o Update)

NewTest(r) ==
  /\ done /\ Answerable(r)
  /\ tests[ClassName(r)] = "none"
  /\ LET t == ClassName(r)
     IN Command("new", <<Of("template", t), Of("insert", t)>> \o Update)

ChangeStatus(t, status) ==
  /\ done /\ tests[t] # "none"
  /\ Command("status", <<[op |-> "status", test |-> t, status |-> status]>> \o Regenerate)

(* Fault: the file goes first.                                             *)
RemoveTestFile(t) ==
  /\ done /\ tests[t] # "none"
  /\ Command("remove", <<Of("unlink", t), Of("delete", t)>> \o Update)

RemoveTest(t) ==
  /\ done /\ tests[t] # "none"
  /\ Command("remove", <<Of("delete", t)>> \o Update \o <<Of("unlink", t)>>)

SetAppId(id) == done /\ Command("id", <<SetId(id), Write(AppBuild)>>)

(* The last operation is the exec of gradlew.  This is a build of the      *)
(* default directory: with --dir the flag against regeneration is looked   *)
(* up in that directory and gradle runs on it, while the files that are    *)
(* regenerated are those of the default one.                               *)
Build == done /\ Command("build", Regenerate \o <<Op("gradle")>>)

-------------------------------------------------------------------------------
(* What the operations do.                                                 *)

Doing(name) == todo # <<>> /\ Head(todo).op = name
Next1 == todo' = Tail(todo) /\ UNCHANGED <<run, cut, commands, faults>>

Wipe ==
  /\ Doing("wipe") /\ Next1
  /\ tests' = [t \in Tests |-> "none"] /\ perms' = {}
  /\ UNCHANGED <<appId, done, disk>>

(* remove_dir_all, and the parts of it that are gone if it is cut off.     *)
Removed(parts) ==
  /\ src' = IF "tests" \in parts THEN [t \in Tests |-> "absent"] ELSE src
  /\ gen' = IF "generated" \in parts THEN [f \in Generated |-> Absent] ELSE gen
  /\ fixed' = IF "fixed" \in parts THEN [f \in Fixed |-> "absent"] ELSE fixed
  /\ noregen' = ("fixed" \notin parts /\ noregen)

Clear ==
  /\ Doing("clear") /\ Next1
  /\ Removed({"tests", "generated", "fixed"})
  /\ UNCHANGED database

(* A row that is there already makes the whole insertion fail.             *)
AddPermissions ==
  /\ Doing("perms") /\ perms \cap Permissions = {} /\ Next1
  /\ perms' = perms \cup Permissions
  /\ UNCHANGED <<tests, appId, done, disk>>

UpdateId ==
  /\ Doing("id") /\ Next1
  /\ appId' = Head(todo).id
  /\ UNCHANGED <<tests, perms, done, disk>>

Finish ==
  /\ Doing("done") /\ Next1
  /\ done' = TRUE
  /\ UNCHANGED <<tests, perms, appId, disk>>

UpdateRow ==
  /\ \/ Doing("insert") /\ tests' = [tests EXCEPT ![Head(todo).test] = "exp"]
     \/ Doing("status") /\ tests' = [tests EXCEPT ![Head(todo).test] = Head(todo).status]
     \/ Doing("delete") /\ tests' = [tests EXCEPT ![Head(todo).test] = "none"]
  /\ Next1
  /\ UNCHANGED <<perms, appId, done, disk>>

(* render_into truncates the file it writes to.                            *)
Render ==
  /\ \/ /\ Doing("write")
        /\ gen' = [gen EXCEPT ![Head(todo).file] = Content(Head(todo).file)]
     \/ /\ Doing("empty")
        /\ gen' = [gen EXCEPT ![Head(todo).file] = Blank]
  /\ Next1
  /\ UNCHANGED <<database, src, fixed, noregen>>

WriteFixed ==
  /\ Doing("fix") /\ Next1
  /\ fixed' = [fixed EXCEPT ![Head(todo).file] = "whole"]
  /\ UNCHANGED <<database, src, gen, noregen>>

RenderTest ==
  /\ Doing("template") /\ Next1
  /\ src' = [src EXCEPT ![Head(todo).test] = "template"]
  /\ UNCHANGED <<database, gen, fixed, noregen>>

Unlink ==
  /\ Doing("unlink") /\ Next1
  /\ src' = [src EXCEPT ![Head(todo).test] = "absent"]
  /\ UNCHANGED <<database, gen, fixed, noregen>>

(* gradlew, which this project does not change.                            *)
Gradle ==
  /\ Doing("gradle") /\ Next1
  /\ UNCHANGED <<database, disk>>

Succeed ==
  /\ run # "none" /\ todo = <<>>
  /\ run' = "none"
  /\ cut' = IF run \in {"setup", "recreate"} THEN {} ELSE cut \ {run}
  /\ UNCHANGED <<database, disk, todo, commands, faults>>

(* An operation that fails, or a process that is killed: the file that was *)
(* being written may be torn.                                              *)
HalfDone ==
  \/ UNCHANGED disk
  \/ /\ Doing("write") \/ Doing("empty")
     /\ gen' = [gen EXCEPT ![Head(todo).file] = Torn]
     /\ UNCHANGED <<src, fixed, noregen>>
  \/ /\ Doing("fix")
     /\ fixed' = [fixed EXCEPT ![Head(todo).file] = "torn"]
     /\ UNCHANGED <<src, gen, noregen>>
  \/ /\ Doing("template")
     /\ src' = [src EXCEPT ![Head(todo).test] = "torn"]
     /\ UNCHANGED <<gen, fixed, noregen>>
  \/ /\ Doing("clear")
     /\ \E parts \in SUBSET {"tests", "generated", "fixed"} : Removed(parts)

Fail ==
  /\ todo # <<>> /\ faults < MaxFaults
  /\ HalfDone
  /\ faults' = faults + 1
  /\ run' = "none" /\ todo' = <<>> /\ cut' = cut \cup {run}
  /\ UNCHANGED <<database, commands>>

(* The permissions of a setup that was cut off are in the way of the next. *)
Refused ==
  /\ Doing("perms") /\ perms \cap Permissions # {}
  /\ run' = "none" /\ todo' = <<>> /\ cut' = cut \cup {run}
  /\ UNCHANGED <<database, disk, commands, faults>>

(* The user, between commands.                                             *)
Edit(t) ==
  /\ run = "none" /\ src[t] \in {"template", "torn"}
  /\ src' = [src EXCEPT ![t] = "edited"]
  /\ UNCHANGED <<database, gen, fixed, noregen, run, todo, cut, commands, faults>>

StopRegeneration ==
  /\ run = "none" /\ done /\ ~noregen
  /\ noregen' = TRUE
  /\ UNCHANGED <<database, src, gen, fixed, run, todo, cut, commands, faults>>

-------------------------------------------------------------------------------
Next ==
  \/ \E force \in BOOLEAN, id \in Ids : Setup(force, id)
  \/ \E r \in TestRequests : NewTest(r)
  \/ \E t \in Tests : RemoveTest(t) \/ Edit(t) \/ \E s \in Statuses : ChangeStatus(t, s)
  \/ \E id \in Ids : SetAppId(id)
  \/ Build
  \/ Wipe \/ Clear \/ AddPermissions \/ UpdateId \/ Finish \/ UpdateRow
  \/ Render \/ WriteFixed \/ RenderTest \/ Unlink \/ Gradle
  \/ Succeed \/ Fail \/ Refused
  \/ StopRegeneration

Spec == Init /\ [][Next]_vars

-------------------------------------------------------------------------------
Operation ==
  [op : {"wipe", "clear", "perms", "done", "gradle"}]
  \cup [op : {"write", "empty"}, file : Generated] \cup [op : {"fix"}, file : Fixed]
  \cup [op : {"template", "insert", "delete", "unlink"}, test : Tests]
  \cup [op : {"status"}, test : Tests, status : Statuses] \cup [op : {"id"}, id : Ids]

Runs == {"setup", "recreate", "new", "status", "remove", "id", "build"}

TypeOK ==
  /\ tests \in [Tests -> Statuses \cup {"none"}]
  /\ perms \subseteq Permissions /\ appId \in Ids /\ done \in BOOLEAN
  /\ src \in [Tests -> {"absent", "torn", "template", "edited"}]
  /\ gen \in [Generated -> [id : Ids \cup {"", "absent", "torn"},
                            perms : SUBSET Permissions, tests : SUBSET Tests]]
  /\ fixed \in [Fixed -> {"absent", "torn", "whole"}] /\ noregen \in BOOLEAN
  /\ run \in Runs \cup {"none"} /\ todo \in Seq(Operation) /\ cut \subseteq Runs
  /\ commands \in 0..MaxCommands /\ faults \in 0..MaxFaults

(* A test that the database has, and that every update of the templates    *)
(* names, has a source file, whatever failed and when.                     *)
TestsHaveFiles == \A t \in Tests : tests[t] # "none" => src[t] \in {"template", "edited"}

(* What the user wrote into the file of a recorded test stays: no command  *)
(* writes or removes the file before the row is gone.                      *)
WorkKept ==
  [][\A t \in Tests : tests[t] # "none" /\ src[t] = "edited" => src'[t] = "edited"]_vars

(* When gradle runs on files that dtu keeps, every recorded test is in the *)
(* manifest and on the list of its status alone, in layout and code, with  *)
(* nothing else there, the permissions are declared, and the database, the *)
(* code and the build agree on the application id unless a command that    *)
(* sets it was cut off.                                                    *)
BuiltAsRecorded ==
  Doing("gradle") /\ ~noregen =>
    /\ gen[Manifest].tests = Recorded /\ gen[Manifest].perms = perms
    /\ \A form \in {"layout", "code"} :
         /\ UNION {gen[ListFile(form, s)].tests : s \in Statuses} = Recorded
         /\ \A s \in Statuses : \A t \in gen[ListFile(form, s)].tests : tests[t] = s
    /\ \A f \in Generated \ {AppBuild} : gen[f] \notin {Absent, Torn}
    /\ gen[Config].id = appId
    /\ cut \cap {"id", "recreate"} = {} => gen[AppBuild].id = appId

===============================================================================
