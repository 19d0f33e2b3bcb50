# Verification of dtu

dtu pulls the framework files and the APKs off an Android device (or out of a
dump of its filesystem), decompiles them to smali, builds databases from the
result and talks to a test application on the device. This directory holds TLA+
modules that model its parts, the TLC configurations that check them on small
instances, and proofs for every value of the constants that the TLA+ proof
system checks. `PROJECT.json` lists components, runs, mutated definitions, the
source lines every definition stands for, findings, hazards and theorems.

    tlc -workers 2 -config MCPullApks_adb.cfg MCPullApks     # one run
    tlapm PullApks_proofs.tla                                # the proofs

and `tlapm` likewise for `PullFind_proofs`, `PullFramework_proofs`,
`PullRun_proofs`, `Graph_proofs` (the setup of the graph database and what the
searches find), `DeviceDb_proofs`, `App_proofs` (the project and the server) and
`Ui_proofs` (the two interfaces).

## 1. The system

Paths are under `src/`.

| Component | Source | State it keeps | Operations | Works with |
|---|---|---|---|---|
| Pull, APK phase | `dtu/src/tasks/pull.rs` `pull_apks` | channel of paths, set of seen paths, rows of `decompile_status`, copies, smali | list APKs, receive, look up or create the row, pull, decompile, update | device access, meta database, decompilers |
| Pull, search | `find_applicable_framework_files` | two channels, list of framework APKs, map of groups | list directories, walk one, collect a file | device access |
| Pull, framework phase | `pull_framework` | tasks of a pool, map being drained, channel of groups | start an APK task, drain, receive, try the files of a group | the same as the APK phase |
| Pull, runs | `pull`, `Pull::run` | progress `PullAndDecompile` | start, framework phase, APK phase, record | meta database, command line |
| Cancellation | `dtu/src/tasks/task.rs`, `tasks/mod.rs` | one flag | cancel, `cancelable_send`, `cancelable_recv` | every task |
| Meta database | `dtu/src/db/meta` | progress, decompile status | add, get, update | every step |
| Decompilers | `dtu/src/decompile` | files written | jar, vdex, dex, apex, apk (apktool, then jadx with a pool of baksmali children) | commands |
| Device access | `dtu/src/{adb,devicefs,fsdump}.rs` | none | find, find_apks, pull, properties | commands |
| Commands | `dtu/src/command.rs` | buffers of partial lines, a child process | run, run streamed, split in lines, kill | device access |
| Smalisa | `dtu/src/{tasks/smalisa.rs,smalisa_wrapper}` | CSV files of a source | analyse a directory with one writer thread per file | graph import |
| Graph import | `dtu/src/db/graph` | tables, staging tables, load status | load a CSV file of a source, finish | Smalisa, command line |
| Device database | `dtu/src/db/device`, `dtu/src/manifest.rs`, `cli/src/db` | tables of APKs, components, services, methods, sources and rows of diffs; copies of other databases | setup, wipe, emulator-diff, diff-source, add-apk, add-service-impl | device access, progress |
| Graph searches | `dtu/src/db/graph/db.rs`, `cli/src/find` | cache files of results | find callers, callees, children, classes, components | graph import, device database |
| Connections | `dtu/src/db/common.rs` | map of one-thread pools | get or create, clean up | all databases |
| Prerequisites | `dtu/src/prereqs.rs`, `cli/src/meta` | progress of eight steps | require, record, wipe | all commands |
| Command line | `cli/src/utils.rs`, `progress.rs`, `printer.rs` | cancel flags, signal hooks | hook signals, print threads | tasks |
| Pull interface | `cli/src/pull` | applet, channel of 128 events | tick, keys, quit | Pull |
| Diff interface | `cli/src/diff`, `cli/src/ui` | tabs, selection, hidden items, `state.json` | keys, filters, search | device database |
| Application server | `dtu/src/app_server`, `dtu/src/app/files`, `dtu-py` | connections, a pool of two, bound services, output files | requests, answers, arguments as text | device |
| Application project | `dtu/src/app`, `cli/src/app` | rows of tests and permissions, id, source files | setup, new-*, status, remove-test, set-app-id, build | meta and device database |
| File store, configuration, utilities | the rest of `dtu/src` | files | pure functions and I/O | all |

What is hard in it: in every phase of a pull a producer, a bounded channel and
a pool share a cancel flag, and each of them may leave early; statuses are read,
kept over minutes of work and written back; the process may be killed between
any two steps and is meant to be started again (`retry` is on by default);
failures of single files are logged and skipped while failures of a listing end
the run, and the two helpers treat an error of a callback differently: a walk of
a filesystem dump returns it, `run_cmd_split_streamed` only stops calling the
callback and drops it. Commands on a database are sequences of statements and
transactions that a failure or a kill cuts anywhere, and are then repeated. The
interfaces draw one list and act on another. The server on the device handles
requests at the same time over connections that break, and the arguments of a
call are text in a language of separators, prefixes and escapes.

What makes each part correct:

* Pull, APK phase: one worker per path; what the listings printed is worked on
  when the phase reports success; no false and no lost success; it ends.
* Search: complete when it succeeds; groups in the order they are to be tried;
  it ends.
* Framework phase: alternatives are alternatives, none is tried over a success
  and none left out after a failure, also where two workers have one file; APKs
  are installed first; nothing is dropped between the map and the workers.
* Runs: nothing that was decompiled is redone or spoilt by crashes,
  cancellations and failures of any sequence of runs; the recorded progress is
  true but for files that the database failed for; a failed item can be retried.
* Smalisa and the graph import: an interrupted analysis or load is repeated, a
  finished one is not; rows of one source never enter under another.
* Device database: an APK is there whole or not at all; a setup or a diff that
  reports success is complete and true; whatever is left can be repeated; what a
  manifest says in a roundabout way is stored as it means.
* Graph searches: relations are found whatever was loaded and removed before;
  an answer is the one to the question that was asked.
* Interfaces: what is shown is true, keys act on what is highlighted, a slow
  interface or a quitting user never hangs the pull, what was hidden stays so
  unless the store of it is cut off.
* Application server: each request gets its own answer and runs at most once;
  arguments arrive as they were given; no client waits forever.
* Application project: database, sources and build files stay in step, and no
  work of the user is lost.
* Prerequisites: a step runs only over what it needs; wiping takes back the
  progress of what it wiped.

## 2. Plan

The order was the order of importance: a pull is what everything else is built
on and holds most of the concurrency. Done: `PullStatus`, `PullWork`, `PullApks`,
`PullFind`, `PullFramework`, `PullRun`; `GraphSetup`; the device database
(`DeviceCompare`, `ManifestValues`, `ServiceMethods`, `DeviceDb`); the interfaces
(`PullUi`, `DiffUi`); the server (`AppServer`, `AppArguments`, `ParcelText`); the graph's content and
searches (`SmaliCsv`, `GraphSources`, `GraphRows`, `GraphQuery`, `GraphList`, `GraphFind`); the project
(`AppProject`).

`PullWork` is the abstract promise of both phases of a pull. `DeviceCompare`,
`ServiceMethods`, `GraphQuery` and `ParcelText` are pure algorithms with a reference beside them,
used by the state machines that call them.

What is left to prove, and why it stays with TLC, is at the end of section 5.

## 3. The modules

**PullStatus** is what the phases share: a row of `decompile_status`, the state
of a copy on the host (`absent`, `whole`, or `broken`: it exists with the wrong
content), the smali made of it (`nothing`, `some`, `all`), the two predicates
`should_decompile` and `should_pull`, and the sets of outcomes of one pull and
of one decompilation. `PullOutcomes` contains a success that left a broken file
when the helper is adb: `ExecAdb::pull` falls back to `adb shell cat`, of whose
exit status only the spawn is looked at by its caller, and writes what that
printed. `FileOutcomes` contains successes with less than all of the smali,
because `JarFile::decompile` ors the results of its dex files into `true`.

**PullWork** is the abstract promise of a phase: items go from `todo` to `busy`
to `tried`, each once; the phase returns, and `ok` without a cancellation means
that `todo` is empty.

**PullApks** is `pull_apks`. `finder` is the thread in `find_apks`: `FindLine`
is one call of `on_line`, `SendCheck` and `Send` the two halves of the loop of
`cancelable_send` (the flag; then `send_timeout`), `EndOfCommand` and `FindDone`
the ends of a listing command and of the function, which drops the sender. A
`worker` alternates `RecvCheck` and `Recv` (the loop of `cancelable_recv`) and
takes one action per call of `pull_and_decompile_apk`: `GetStatus`,
`CreateStatus`, `PullFile`, `DecompileApk`, `UpdateStatus`. Any other worker may
act between two of them. `tried` is a history variable.

**PullFind** is `find_applicable_framework_files`: `Lister` (the calling
thread), `Walker` (`start_dir_thread`) and `Collector` (`start_file_thread`).
A sender whose receiver left drops its value (`cancelable_send` returns
`Ok(false)`, which both callbacks ignore). `PushSorted` is `push` and the
stable `sort` by `FrameworkFileType`.

**PullFramework** is the rest of `pull_framework`: `StartApk` takes tasks of the
pool's scope, one for each position of the list of framework APKs, in which a
path may be twice; `StartFiles` is the end of that scope, `Drainer` the helper
thread, and each worker runs the files of a group with the steps of
`do_decompile_normalized_file`; `FileEnds` is one turn of the loop of
`handle_normalized_fileset`. Groups may have files in common, as a file that is
found under two searched directories is in two groups. A framework APK is pulled to,
and decompiled from,
the frameworks directory whatever its row says, while whether it is pulled
depends on the row (`HostOf`, `HaveStatus`): that is what the code does.

**PullRun** is `pull` and `Pull::run` over any number of invocations. `Crash` is
a kill at any point, which may leave a broken copy or a part of the smali. Of a
phase it keeps that files are worked on in any order, and the alternatives of a
group (`Before`) one after the other: `Begin` is the turn of a file, which is
passed over behind a success, as an unwanted vdex, or because its row cannot be
looked up or created, which is logged and nothing more; `Record` may fail likewise.

**GraphSetup** is `dtu graph setup` with `graph wipe` and `graph remove-source`,
over any number of invocations. `pc` follows one command: `analyse` to `nextapk`
are `run_smalisa` and `smalisa::AddDirTask`, `source` to `mark` are
`run_initial_import` and `load_csv`, one action per transaction. On disk it has
the analysis files of each source (`csv`), the rows of `sources`, how often the
rows of each file are in their table (`rows`), `_load_status` (`loaded`), whether
source 1 has classes without being the framework (`strays`) and two
steps of the progress. The statements that say `source = 1` have no framework to
join with once it was removed (`Apart`): they add classes to whatever source 1 is
then, fail at it if there is none, or insert less than there should be. `Insert` is the schema: rows that come twice are refused
(`Unique`), ignored or doubled; each file is taken to have a record, and 2 stands
for any larger number of copies. The nine files of a source are written together,
so `csv` has one value for them; of ids only 1 matters to the code, so any other
one is 2. `Failure` is a statement that returns an error and `Crash` a kill.

**DeviceCompare** is the comparison of one item of the device with the database
of a source (`do_apk_ipc_diff`, `do_provider_diff`, ...), with `IsTrueOf`, what a
row should say, beside it. Rows under one key stand for each other, as in the
hash maps of `diff.rs`.

**ManifestValues** is the way from an element of a manifest to its row: texts
are values, some of them `References`, `Entries` says what an entry of a
resource file holds, and `Follow` is `XmlResolver::resolve` with its set of seen
references. `AsDeclared` is what it should come to: the end of the chain.

**ServiceMethods** is the way from the smali of a system service to its rows of
methods. The files of a class are numbered as `find_files_for_class` goes through
the directories, the framework's first; a stub holds fields, an interface headers,
an implementation bodies with their hash, and a file can be one that the parser
refuses. The code takes the first stub with constants and then interfaces until
one has as many headers of known methods as there are methods: `Complete` counts,
as `try_update_method_signatures_inner` does. `AsWritten` is what a row should
say: its number from a stub, its header from one interface that declares all the
methods of that stub. That holds where no interface has two methods of one name
(`NoOverloads`, which AIDL demands); with overloads the count is reached too early.

**DeviceDb** is everything that writes the device database, over any number of
commands. `pc` follows one command; `work` is the open transaction of an APK,
`moved` that the file was removed under the open connection (SQLite then refuses
to write), `files` the copies of the other databases. The comparison uses
`Compare`, so a diff is about the true columns, not a token.

**SmaliCsv** is what the analysis of a source makes of its smali files. A file is a
sequence of lines as the parser gives them, and `RowsOfFile` is what `handle_entry`
sends to the writers: nothing of a file or a class of a library, and of a file with
a line that is no smali what came before it. `FirstOfMethod` is the set of calls
that have been seen, which is emptied at the end of a method. That set does not tell
a method called on an array from one of the array's elements: of the two only the
first is sent. `RelationsPresent` says so in `AlsoOfArray`. A method is its class,
name, arguments and what it returns; calls, accesses and strings name one without
the last.

**GraphRows** is what the statements of `graph/setup.rs` make of the content of
the CSV files (`WithSource`, in the order of the files), and the cascades of a
removal (`WithoutSource`): a call, an access or a string of one of several methods
of a signature becomes a row of each; the sources are those of `GraphSetup`, from
`GraphSources`. **GraphQuery** is the
searches of `graph/db.rs` as functions of the rows: hierarchy, methods, calls in
both directions up to a depth. **GraphList** is the `find` and `list` commands over
them that keep nothing: what each prints, or that it ends with an error. They change
no state, so they are functions of the rows and not actions. **GraphFind** is the
`find` commands with a cache: for each the name of its cache file as the record of
the options that go into
the hash, the cache, and the components that hold a class, while sources are
imported and removed (`sources` are those that are there). With `--json` the whole cached result
is printed; otherwise `find outgoing-calls` filters by the source the calls go into
(`Into`), and a text loses the last method of each path when the search gave a name
(`Lines`).

**PullUi** is `cli/src/pull`: the workers send events through a bounded channel
(`Send`), the loop draws, takes a key, on a tick one round of events (`OnEvent`,
`Updated`), and looks at the pull thread. The stable sort of a list is an order
of its entries that agrees with the comparison (`Orders`; there is only one). What
a worker pulls depends on its pulls of this run, not on copies of earlier ones
(`Take`). A
panic or an error of the terminal drops the applet and cancels. **DiffUi** is `cli/src/diff/ui`: seven tabs, `sel`
and `selectedId`, the hidden sets, the box of filters, the search, and the file
that keeps what is hidden; `kept` and `meant` are histories of what the user hid. A
store that is cut off leaves a broken file, with which no session starts. A loop of the code that does not end is a mode.

**AppServer** is client, connection and service. Each request is a connection;
`client` is where its client is, `srv` where its thread of the executor is,
and a connection is closed, or cut by the end of the app, at any point. Shell commands run in
threads of their own and share files by service; tests wait for a condition that
may be signalled before they wait, and end with an exception before or after the
callee ran (`AwaitEnds`). A request may come with arguments: of these
`AppServer` only says whether the device can read and use them. What becomes of
them is **AppArguments**, with the text of **ParcelText**: `ParcelString` and
`IntentString` build it as `parcel_string.rs` and `dtu-py` do, and `ParseParcel` and
`ParseIntent` read it as `ParcelString.kt` does. The texts are recursive; `AppServer`
is not, so it can be proved about for every sequence of payloads.

**AppProject** is the project of the test application: a command is a sequence
of operations (`todo`) on rows and files, cut off anywhere; a file that was
being written is then torn. `Build` is that of the default directory.

Each MC module gives its module small values; each `.cfg` picks among them.

## 4. The runs

| Run | Instance | Shows |
|---|---|---|
| `pull_apks` | 2 APKs, 2 overlapping listings over adb, channel of 1, 2 workers, 4 kinds of leftovers, database errors, a cancellation | `OneWorkerPerPath`, `DecompiledIsReal`, `StaysDecompiled`, `Terminates`, `ImplementsWork` |
| `pull_find` | 3 directories, 2 overlapping searches, 4 files, channels of 1, cancellation | `OkMeansAllFound`, `GroupsSorted`, `Terminates` |
| `pull_framework` | 1 framework APK listed twice, 2 groups with two files in common (jar, vdex, dex; vdex, dex) over a dump, 2 workers, channel of 1, database errors for two files | `FirstSuccessStops`, `AlternativesTried`, `ImplementsWork` |
| `pull_runs` | a group of 3 files of which one is an unwanted vdex, an APK of both phases, another APK; database errors for two files, crashes, cancellations, failures | `FrameworksFirst`, `NoRework`, `RecordedMeansAttempted` |
| `graph_commands` | framework and 2 APKs, 1 failure or kill, 1 cancellation, denylists, force, wipe, removals | `OneCopy`, `StatusMeansRows`, `DoneMeansAll`, `RequirementsFirst`, `Restarts` |
| `device_commands` | 2 APKs (one without a manifest), 3 components with references, 2 services, of which one has its stub in two directories and interfaces of two versions, all seven commands, 2 faults | `ApkWhole`, `SetupOkMeansAll`, `DiffOkMeansTrue`, `SetupCompletes` |
| `app_server` | 3 requests, one of them endless, one raw; 2 services, one without a binder; pool of 2; 1 kill; 72 payloads | `ShellOutputOwn`, `ResultsAreTrue`, `ArgsArrive`, `ClientsEnd` |
| `pull_ui` | 2 files, 2 workers, channel of 1, 2 keys, a terminal that fails | `InProgressLast`, `OutcomeShown`, `EveryoneEnds` |
| `diff_ui` | items on four tabs, 2 sessions, 1 item hidden, a search of one character | `SelectedIsHighlighted`, `HiddenOwnersGone`, `HiddenKept` |
| `find_commands` | smali of the framework and 2 APKs with calls, inheritance, ignored and broken files, and components; 2 commands, 1 removal, depths 1 and 2, `--json` or text | `RelationsPresent`, `HierarchyFound`, `OutgoingAsAsked`, `IpcAsAsked` |
| `app_projects` | 4 commands, 2 faults | `TestsHaveFiles`, `BuiltAsRecorded`, `WorkKept` |
| `find_callers` | 2 searches with different sources of the calls | violation of `CallersAsAsked` |

Every property has a mutated definition in `PROJECT.json` ("mutants") that breaks
it under the same `.cfg`.

*Bounds.* Channels of one are full after one element, so that every timeout of
a send occurs; the code's bounds (4, 16, twice the workers, 128) add states, not
cases, and the proofs cover every bound of the channels of the search and of both
phases. Two workers and two
paths give every pair of interleaved steps on one path and on two. Two listings
that share a path exercise the set of seen paths. The counter of attempts is
bounded by the number of times a path is tried in a run. Of the graph setup all
nine kinds of files are there, in the code's order. Two faults of `DeviceDb` and
`AppProject` give one fault in the recovery from another, and commands follow
each other in any order. Three requests fill a pool of two and leave one
waiting. The payloads of `MCAppServer` are one for each behaviour of the text:
every separator, prefix and escape in a string, at the depths where it is split.
Two keys are enough to quit twice or to move and quit; two sessions to keep and
to read the state.

*Restrictions of the instances*, outside of which a property is not claimed:
`find_commands` has searches none of whose options is missing where another's is
the empty string, names that differ before their first dot, a hierarchy without
circles, and loads each source once and never removes the framework.
`GraphSetup` states `StatusMeansRows` and `RequirementsFirst` while the framework
is source 1, `OneCopy` and a part of `DoneMeansAll` for runs without
faults, and `Restarts` for a true record of the analysis, as said in section 6.
In `AppArguments` the arguments that must arrive are those that `Travels` admits.
`AlternativesTried` of `PullFramework` is about items that go on with the same files
wherever they have one in common (`GoesOnAlike`), and `FirstSuccessStops` leaves out
files whose rows failed, skipped ones, and those of several items. `PullRun` has each
file in one group. `ShellOutputOwn` leaves out commands that ran together with
another one of their service, and `ResultsAreTrue` says nothing of exceptions.
`GraphQuery` takes the rows of a search in the order in which SQLite gives them.
The search of `pull_find` is run with adb, which has more failures, and
`pull_framework` with a dump, which has the larger files of two directories.

*Deadlock* is not checked in the modules of one phase, which stop when the phase
has returned (`Terminates` shows that they do not stop before), and where
commands are counted (`GraphFind`, `AppProject`). Everywhere else it is checked.

*Fairness.* Weak fairness of each thread's next step: threads of a pool and of a
scope are scheduled by the operating system, `recv_timeout` and `send_timeout`
return in 200 ms, and a pull or a decompiler returns, which is an assumption
about external programs (the pipes of the jadx children, in the hazards, are
where it may fail). In `AppServer` it is that of the accepting thread, the
clients and the handlers; a process that never ends has none. Steps that only
the user, a crash or an error takes have no fairness. `PersistentSpec` adds, in
`GraphSetup`, a user who runs the whole setup until it is recorded, and in
`DeviceDb` one who runs `setup` without `--force` again: strong fairness, as
other commands may come in between. Faults and cancellations are finitely many.

## 5. The proofs

`PullApks_proofs` proves five theorems of `PullApks!Spec`, for every set of
paths and workers, every listing, channel bound and leftover that
`ApksAssumption` admits (at least one worker, a bound of at least one, listings
of paths, leftovers whose decompiled rows are true).

* `Typing`: `TypeOK` is inductive; one step per action of the finder
  (`FinderTypes`) and of a worker (`TypeStep`).
* `OneWorker`: `OneWorkerPerPath` is not inductive, as nothing in it keeps the
  finder from sending a path again. `Exclusion` adds `SeenCovers`: all that was
  sent is in the set of seen paths and what is about to be sent was not sent.
  The steps fall into five kinds, a lemma each: a worker goes on with its path
  (`SamePath`), finishes it (`FinishedPath`), receives one (`ReceivedPath`), the
  finder sends one (`SentPath`) or sends nothing (`NothingSent`).
* `NoFalseSuccess` and `SuccessIsFinal`, the invariant `DecompiledIsReal` and the
  action property `StaysDecompiled`, share one invariant, `Honest`: a worker
  past its lookup holds a path that is not decompiled (`HeldIsOpen`) and the row
  it is about to write says decompiled only over a whole smali tree
  (`HeldIsReal`). `OneWorker` is what makes it inductive: nobody else touches
  the path a worker holds (`HeldChanges`).

* `Refinement`: every behaviour has the initial state and the steps of `PullWork`
  (`WorkSafety`, the safety part of `ImplementsWork`). A step of a worker keeps
  its path, takes one from the channel or ends with one (`WorkerMoves`); these
  are a stutter, `Begin` and `End`, and everything the finder does is a stutter.
  That `Return` may say "ok" needs an invariant of its own, `Complete`: unless
  the user cancelled, every line the finder passed is in its set of seen paths,
  every path of the set was sent or is at hand, and a worker leaves only an empty
  channel whose sender is gone.

`PullFind_proofs` proves three theorems of `PullFind!Spec`, for any directories,
files and listings, any bounds of the two channels, with adb or a dump.

* `Typing`, one lemma per thread (`ListerTypes`, `WalkerTypes`, `CollectorTypes`).
* `OrderOfGroups`, from a lemma about `push` and `sort`: in a sorted group the
  files that are not after the new one are a prefix (`PrefixOfSorted`), so what
  `PushSorted` returns is sorted and has every file as often as before, the new
  one once more (`PushSortedProperties`).
* `NothingMissed` is a count. For a directory and a file, of the p places where
  the directory is listed before the lister's position, n are on the directory
  channel and h at the walker; c copies of the file are in its group, q on the file
  channel, and w of the t in the directory were passed by the walk at hand:
  c + q + (n + h) t = p t + w (`Balanced`). `SearchInv` says that this holds
  unless something failed or an adb listing was cut short by a cancellation
  (`Lossless`), and that a thread that ended well saw the end of its input
  (`Ends`). Each thread moves two of the numbers (`CountedByLister`,
  `CountedByWalker`, `CountedByCollector`). When all ended well, c = p t remains.

`PullFramework_proofs` proves four theorems of `PullFramework!Spec`.

* `Typing`, for every set of groups, workers, leftovers and bounds.
  No theorem here supposes that groups, or the list of framework APKs, have a file
  only once.
* An item, a framework APK at its place in the list or a group, is in one place at a
  time: it waits in the map, is in the drainer's hand, in the channel, at one worker,
  or handled (`Exclusion`: `OneWorkerPerItem`, `QueuedOnce`, `Apart`, and `Parts`,
  the two parts of the phase that the scope of the pool separates). A file may be at
  several workers nevertheless.
* `FirstSuccess`: a worker past its lookup holds the number of a row that exists
  (`HoldsRow`); a file that no other item has does not become decompiled under it
  (`StillOpen`); the files before it were left: attempted, skipped, or not to be read
  or written (`Behind`). A step of a worker at its file goes on with it, leaves it
  with a success, or without (`BusyRows`); of other files it changes nothing.
* `NoneLeftOut`: an item that was handled was won, by a recorded file behind files
  that were left; or lost, all of them left; or a worker is at one of its files,
  behind files that were left (`Settles`). The last is why it holds with two workers
  at one file: the one that writes a failure over the success of the other is itself
  at that file, in an item that goes on to the same files (`GoesOnAlike`), so it is
  the one that tries them (`FailsOn`).
* `Refinement` of `PullWork` from an invariant `Complete` like that of `PullApks`: unless cancelled no item is
  lost (`NoneLost`), the drainer leaves an empty map, and workers leave an empty
  channel and a drainer that is done.

`PullRun_proofs` proves the three properties of `PullRun!Spec` for any files, any
groups of them, any failures of the database for some of them and
any number of runs, kills, cancellations and failed phases, from one invariant,
`Journal`: files that are worked on belong to the phase and have an open row, one
that ended was dealt with (`EndedDealt`), the winner of a group is recorded
(`WonIsKept`), and what one phase hands to the next is complete
unless the run is cancelled (`HandedOn`).  A process that ends leaves nothing in
memory, so one lemma (`Exits`) covers every way to end.

`Graph_proofs` proves five theorems of `GraphSetup!Spec`, for every finite
set of APKs, denylists, removable sources and files a kill cuts, and any number
of cancellations and faults (`GraphAssumption`).  The nine kinds of files and
their order are those of the code.

* `Typing`: `TypeOK` is inductive, in three parts (`ControlOK`, `DiskOK`,
  `BudgetOK`) that most actions leave alone together.
* `StatusTrue`: `StatusMeansRows` alone allows a status without a source and a
  status written without rows.  `Settled` adds that only a source with a row has
  a status, that the source at hand has a row, and that the rows are there when
  the file is about to be marked.  The hard steps are the new row of a source
  (the framework becomes source 1 only in a database without sources, where
  nothing is marked) and the removal of a source.
* `OrderOfLoading`: `RequirementsFirst` follows from `Ordered`: the files before
  the one at hand are marked, the framework's all are before an APK's turn, and
  the rows of a marked file are there.  The last is not true of all kinds once
  the framework was removed, as `Relations` go with it; `KindsOrdered` shows
  that no kind is joined with those within its source, and that every kind comes
  after the ones it is joined with. That all rows of the framework are there for an
  APK is `StatusMeansRows`, and holds while the framework is source 1; afterwards the
  statements join with another source, and the property claims nothing.
* `NothingTwice`: without a fault the rows of a file are there once and only when
  it is marked or about to be (`Accounted`), and the file about to be loaded is
  not marked (`NotMarked`). A fault between the rows and the mark breaks this,
  which is why `OneCopy` is about behaviours without one.
* `AllOfIt`: the sources that the import has passed are marked as loaded
  (`SourcesDone`), and without a fault the files of a source are whole or not
  there when any of them is loaded (`FilesWhole`). Only the last step of the
  import records the setup (`OnlyFinish`).

It also proves two of `GraphFind!FindSpec`, for any smali files, libraries, patterns,
components and searches and any number of imports, removals and commands. The
assumptions are that a file begins with its class, has its instructions in
methods, and names an access by class, name and type (`SmaliAssumption`); that a
pattern matches itself (`PatternAssumption`); and that the framework is no APK
and every source has files, perhaps none (`RowsAssumption`).

* `FindInvariant` is about the tables (`Content`). The classes are those of the
  files and others of the framework, which the import adds for names that no file
  defines (`ClassesOK`). Fields, strings and their uses are exactly those of
  the files (`FieldsOK`, `StringsOK`, `UsesOK`), and accesses those of a field that
  one defines (`AccessOK`). The methods are those
  of the files and others that are only called. `MethodsOK` says of the latter what
  the rest needs: a method that a file defines has no second row under the source
  of a caller, and a row of another source's class is of a class that its own
  source has not. So a method and a field of a file have one row (`OwnMethod`,
  `OwnField`), and joining by names meets nothing else but the methods of the same
  signature that return something else: `RelationsPresent` and the invariant are up
  to these (`Overloads`).
* Calls are there before any removal, and after one those whose callee a file
  defines (`Lasting`): such a callee is of the source itself or of the framework,
  which is not removed, while the row of any other callee belongs to whichever
  source called it first and goes with it. `SaidAreSent` shows that leaving out
  what was seen in a method loses no call: the first of the same calls is sent.
* The import is one lemma per file (`FieldsLoaded`, ..., `UsesLoaded`), put together
  in `SourceAdded`; `SourceGone` is the removal. The find commands change neither
  the database nor the sources (`CommandsKeep`).
* `RelationsFound` is `RelationsPresent`: a lemma for each part (`CallsFound`,
  `DefinitionsFound`, `AccessesFound`, `StringsFound`) takes the searches and
  listings apart.

`DeviceDb_proofs` proves four theorems of `DeviceDb!Spec`, for any APKs,
components, elements of their manifests, services and their smali, sources and
databases to compare with, and any number of cancellations and faults.

* `Typing` follows from `Sound`: where each command can be (`Placed`), that rows
  of the database refer to its items and sources and that what a diff has in hand
  is in the database (`Kept`, `Held`). The last is not a matter of types: it says
  that no command removes what another step of the same command still uses.
* `WholeApks`: an APK is whole or absent in the database (`Whole`), and nothing of
  the APK of an open transaction is in it (`Open`).
* `SetupComplete`: `SettingUp` follows a setup: an APK is in the database, ahead,
  or in the report of failures, which a setup that ends well has empty. What
  the database says of a component is then as declared if following references
  finds what they mean. That is the hypothesis `ResolutionHolds`, which is about
  `ManifestValues` alone, where `Follow` is a recursion over the chain of
  references; TLC evaluates it as a part of `SetupOkMeansAll` in `device_commands`.
  Of the methods the theorem says, without that hypothesis, that they are as the
  smali has them (`MethodsAsWritten`), because counting is enough
  (`CountSuffices`): without overloads the headers that were counted are an
  injection into the names of the methods, and one between finite sets of one
  size is onto, so the file that sufficed declares every method. As it is the last
  that is read, it also has the last word on each of them (`HeaderFromStop`).
* `DiffsTrue`: what `Compare` writes is true of the item and the table it compares
  with (`ComparedTruly`). The invariant, `Right`, is about diffs that are cut off:
  an item without a row is still ahead (`Remaining`), and a row that a diff with a
  missing file got wrong is that of a service or of its method, at which the next
  diff fails (`Explained`, `Blocked`), so that none ends well over it.

`App_proofs` proves four theorems of `AppProject!Spec`, for any requests,
ids, permissions and services and any number of commands and faults.

* `Typing`, with `Idle`: nothing is left to do when no command runs.
* `FilesOfTests` and `EditsStay`: neither property is inductive, as nothing in them
  says what the operations left to do will touch. `Prepared` does: each operation
  is `Due`: a file is made only for a test without a row, the row follows at
  once, a file goes only after its row, and the directory only after all rows.
* `BuildsWhatIsRecorded`: in a build every kept file is as recorded or still to be
  written, and gradle is last (`Regenerated`); whenever the id is set or the
  project deleted the build file is written later in the same command, and a
  command that was cut off before that is in `cut` (`IdKept`). The lists of
  operations are taken apart once, by index (`SetupOpsAre`, `BuildOpsAre`, ...).

It also proves three of `AppServer!ServerSpec`, for any requests, services, endless
processes, arguments, size of the pool and number of kills.

* `ServerTyping`, `OutputsOwn` and `ResultsTrue`, the last two the invariants
  `ShellOutputOwn` and `ResultsAreTrue`, share one invariant, `ServerInv`; alone none
  of the three is inductive. A connection waits in the queue once (`QueuedOnce`), so
  what a thread of the pool takes is not handled yet. A handler that has not run its
  request has done nothing else either, and one that bound a service is still at the
  wait (`Consistent`). A client has a result only of a connection that is closed,
  after which nothing of the answer changes (`ClientKnows`). That a failed request was
  not run is said of those that were refused or timed out before they connected; an
  exception may come from the callee.
* The output of shell commands needs what two requests have in common: commands of
  one service that run together are both in `mixed` (`RunningMixed`), so one that is
  not `mixed` is alone with the files, and they hold nothing after they were opened
  and its output once it was written (`FilesOwn`). That is why a command that timed
  out is harmless to all but those that started before it ended: its thread counts
  as running until it is over.
* Most steps are at one request (`StepAt`). What an answer needs is one lemma for
  the seven places that make one (`AnswerInv`); likewise for clients that end
  (`ClientEndsInv`), handlers that go on (`SrvToInv`) and threads of shell commands
  (`ThreadInv`). A kill moves all requests at once (`AppEndsInv`).

`Ui_proofs` proves four theorems of `DiffUi!Spec`, for any items of the seven
tabs with different ids other than 0 on a tab (`DiffUiAssumption`; they are keys of
tables), any characters to search for, and any number of sessions.

* `Typing`. The numbers of an index that wraps around are in `Meets`: from any
  index of a list each other one is met going either way, within one turn. So the
  search of `select_idx_next` and its kin ends at a visible item if there is
  one (`NearestIn`).
* `OwnersGone` and `HiddenStays`: the set of the active tab and the state hold
  between them what the user hid (`Kept`), the file is what the last session left
  unless a store was cut off, and the customizer of the active tab was
  made with what is hidden now (`OwnersKept`): owners are hidden on a tab other
  than that of what they own, and every change of tabs takes the set of the old
  tab into the state before it makes the new customizer.
* `CursorShown`: `sel` and `selectedId` mean the same item or nothing was selected
  yet (`OneCursor`). As ids are unique and never 0, an item that is visible and has
  the selected id is the one at `sel`; without one the first visible item is
  highlighted. `LeastOf` gives the least index of a set, from the library's theorem
  that strict inclusion of finite sets is well-founded.

It also proves three of `PullUi!PullUiSpec`, for any files, workers, capacity of the
channel and number of keys.

* `PullUiTyping`, `ProgressLast` and `OutcomesTold` share the invariant `PullUiInv`.
  `OutcomeShown` only speaks of an empty channel; in between `Told` holds: the last
  event about a path on the channel tells how the last attempt at it ended, or, if
  none is there, the first entry of the path in the list does. Taking an event is
  the step where one becomes the other (`DrainInv`).
* That the list tells it after the sort needs that there is an order to choose: a
  list that was sorted before one entry changed has a place after which everything
  else is in progress (`Boundary`), and moving the changed entry there is the order
  (`OrdersExist`). An order keeps the first entry of each other path first, and the
  changed entry, which was the first of its path, stays so as it is not in progress
  (`UpdatedSays`). A new entry in progress goes to the end without a sort
  (`BegunSays`).

Only model-checked: `ArgsArrive`, whose texts need the recursive operators of
`ParcelText`; of `GraphFind` what goes along edges or chains of calls
(`HierarchyFound`, `OutgoingAsAsked`, `IpcAsAsked`), which are recursive functions of
the level or of the length and folds over rows, and what they compute for every
input is an induction over data; `ResolutionHolds`; and
all liveness (`Terminates`, `Restarts`, `SetupCompletes`, `ClientsEnd`, `EveryoneEnds`, the
fairness in `ImplementsWork`), which is out of reach of the prover, as is
`ENABLED`. The type invariants are stated beside the variables; no run lists them,
as the properties that are listed would break first, and where there are proofs
they are theorems.

## 6. Where the code and what it says differ

`find_callers` is a violation run: the name of the cached result hashes the
source of the method twice and never the source of the calls
(`callers.rs:51-52`), so a search with another `--call-source`, which the help
calls "the source of the calls", is answered with the first one's result.

What the models have as the code has it, and the properties leave out:

* Pull. A cancellation in the APK phase over adb is recorded as completed
  (`pull.rs:278`, against `prereqs.rs:18`); `RecordedMeansAttempted` is about
  runs that were not cancelled. A broken copy is never pulled again, whatever is
  retried (`dtu/src/db/meta/models.rs:74`, against `pull.rs:47`). A file listed
  under two searched directories is in two groups (`pull.rs:1028`, against the
  comment at 988), and a framework APK can be in its list twice (906-908): two workers
  then have it at once, and one may write its failure over the success of the other.
  Where their groups go on with different files, or for an APK, that success is lost.
  When the row of a file cannot be read, created or written, the file is skipped
  with a line in the log and the run records its progress over it (320, 392-398, 704);
  only `--retry` takes it up again. A jar none of whose dex files was decompiled is a success
  (`jar.rs:55`).
* Graph setup. A cancellation between two sources of the analysis, or a
  denylist, is recorded as a complete analysis (`cli/src/graph/setup.rs:88`,
  against `prereqs.rs:40`). A failure between the rows of a file and its status
  makes every later setup fail on a unique index, or doubles the rows of files
  that have none (`setup_task.rs:254`). `--force` resets nothing. After
  `remove-source framework` the framework has another id than 1, on which the
  statements of the import depend (`db/graph/setup.rs:348`, 365, 440, 481): an import
  of an APK then adds classes to a source that is not the framework, fails because
  there is none, or leaves out relations to the framework's classes and methods.
* Device database. An interrupted diff cannot be repeated without `--force`,
  as all services are taken again (`diff.rs:341`, against 360). `emulator-diff`
  keeps no copy of the other database, so `add-apk` and `add-service-impl`
  compare with an empty one. Hashes of methods are compared with signatures
  (`diff.rs:236`). `grantUriPermissions` is never read (`manifest.rs:686`).
* Searches. `find outgoing-calls --json` prints the chains into every source, whatever
  `--into-source` says (`callers.rs:161-164` against the help at 110), and the text of
  both searches for calls leaves out the last method of each chain when a name is
  given (67, 167): of callers the one that was named, of outgoing calls one that is
  called. Methods that differ only in what they return are not told apart when calls,
  accesses and strings are imported (`db/graph/setup.rs:402-403`, 484-487, against
  `up.sql:52-55`). `--source` of `list children` and `list interface-impl` is said to be
  where the children are looked for (`list/classes.rs:80`, 128); it is the source of
  the class itself (104, 153), as `Children` and `InterfaceImpl` have it.
  `find methods by-string-like` finds only what is equal to its pattern
  (`graph/db.rs:140`). A cached result outlives the graph it was made from (`utils.rs:72`);
  options are hashed without separators (`utils.rs:154`); results are named by
  an APK's name up to its first dot (`device_path.rs:147`).
* Server. Bytes are written in decimal and read as hexadecimal digits, the
  prefix of a list is `_LST` on one side and `LIST` on the other
  (`ParcelString.kt:40`, 793), characters outside of ASCII, and the control
  characters in it but tab and line ends, are escaped in a form the device does not
  read, an empty parcel underflows (`parcel_string.rs:105`), as does a message with an empty
  bundle (229-233; written like one without a bundle here), an extra whose key begins with `#m:`
  calls a method of the intent (`ParcelString.kt:121-133`; such keys are left out),
  and a word `end` among the arguments ends them. `Travels` and `Ascii` in
  `ArgsArrive` say what is left. A test waits for a signal that may have come before
  (`Server.kt:616`) and then fails although the service is there. The input of shell
  commands is a file shared like those of their output (`Server.kt:424-430`), which
  the model leaves out.
* Project. A setup that failed after the permissions were stored can never be
  repeated (`Refused`; `cli/src/app/setup.rs:79`, against the help of `--force`).
  `.dtu-noregen` is not looked at by `new-*` and `remove-test` (`README.md:119`).
  `build --dir` looks for that flag in the directory it is given and runs gradle on
  it, but regenerates the files of the default one (`cli/src/app/mod.rs:110-124`).
  After a kill between the two writes of `set-app-id` (301) builds have the old id.
* Interfaces. The help of the diff interface says that Enter acts on what is
  highlighted (`applet.rs:629`); it acts on `sel`, which is another item while
  that one is hidden, so `SelectedIsHighlighted` has that condition. The store of
  what is hidden truncates the file first (`state.rs:35`): if it is cut off, all of it
  is lost and the interface does not start until the file is removed (31).

## 7. What is not modelled

The components with status `not_modelled` in `PROJECT.json`, and the parts left
out of those with status `partly`, each with its reason there. They are pure
I/O, external programs, generated code, wording, or wrappers around what is
modelled: the jadx pool and the command runner start programs whose outcomes are
sets (`FileOutcomes`), the file stores and most other commands are one call
each, the listings of the device database print rows. Inside the modelled parts: names of files and
their parsing (a path is a value, `Kind`, `Name` and `Wanted` are constants), the
content of files beyond the three states of a copy and of a smali tree (`SmaliCsv`
and `ServiceMethods` apart), log output, the errors of creating a directory at the
start of a phase (they end the phase like a failed listing, `FailPhase`), drawing, and the values in answers of
the server. Two commands at once on the same project directory are excluded;
inside one command all threads are there. Reads and writes of the cancel flag are
`Relaxed`, but a boolean that is only ever raised has no order to lose: a late
read is a later step of the reader. The database calls are single steps because
all of them run on the one thread of the database's pool (`db/common.rs`).
