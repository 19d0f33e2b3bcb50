----------------------------- MODULE PullFramework -----------------------------
(***************************************************************************)
(* Pull::pull_framework after the search of PullFind: the framework APKs   *)
(* are tasks of the worker pool; then one helper thread drains the file    *)
(* map into a bounded channel and every worker handles groups of files,    *)
(* trying the files of a group in order until one is decompiled.           *)
(***************************************************************************)
EXTENDS PullStatus, Sequences, FiniteSets

CONSTANTS
  Path,        \* device paths
  Worker,      \* threads of the worker pool
  FrameworkApks,\* the framework APKs in the order found, one path perhaps twice
  Group,       \* keys of the file map
  Members,     \* the files of each group, in order; a file may be in two groups
  Kind,        \* "jar", "vdex", "dex" or "apex" for each of them
  TryVdex,     \* Options::try_vdex
  Capacity,    \* bound of the channel (2 * workers in the code)
  StartDisk,   \* what earlier runs can have left of each path
  CanCancel,   \* whether the user may cancel
  DBErrors     \* files whose rows may fail to be read or written

Disk == [rows: Seq(Row), copy: [Place -> FileState], smali: SmaliState]

ASSUME FrameworkAssumption ==
  /\ Worker # {}
  /\ FrameworkApks \in Seq(Path)
  /\ Members \in [Group -> Seq(Path) \ {<<>>}]
  /\ Kind \in [Path -> {"apk", "jar", "vdex", "dex", "apex"}]
  /\ TryVdex \in BOOLEAN
  /\ Capacity \in Nat \ {0}
  /\ StartDisk \in [Path -> SUBSET Disk]
  /\ CanCancel \in BOOLEAN /\ DBErrors \subseteq Path

VARIABLES
  cancelled,   \* the flag of the TaskCanceller
  phase,       \* "apks": the pool runs the APK tasks; then "files"
  pending,     \* APK tasks no pool thread started yet: positions of FrameworkApks
  fileMap,     \* groups not yet drained from the map
  drainer,     \* the helper thread
  chan,        \* the channel of groups
  worker,      \* the worker threads
  rows,        \* decompile_status: the rows of each path, oldest first
  copies,      \* the copies of each path on the host
  smali,       \* the smali output of each path
  result,      \* what pull_framework returned
  handled      \* history: the tasks and groups handled to the end

diskVars == <<rows, copies, smali>>
vars == <<cancelled, phase, pending, fileMap, drainer, chan, worker, rows, copies,
          smali, result, handled>>

-------------------------------------------------------------------------------
(* A busy worker has an item, an APK task or a group, and is at a step of  *)
(* the file at position pos of it with its copy of the row numbered id.    *)
(* One path may be the file of several items.                              *)
ApkItem(n) == [kind |-> "apk", of |-> n]
GroupItem(g) == [kind |-> "group", of |-> g]
Items == {ApkItem(n) : n \in DOMAIN FrameworkApks} \cup {GroupItem(g) : g \in Group}

FilesOf(item) == IF item.kind = "apk" THEN <<FrameworkApks[item.of]>> ELSE Members[item.of]

Idle(pc) == [pc |-> pc]
Busy(pc, item, pos, id, row) ==
  [pc |-> pc, item |-> item, pos |-> pos, id |-> id, row |-> row]

IdlePc == {"pool", "check", "recv", "done"}
BusyPc == {"status", "create", "pull", "install", "decompile", "update"}

IsBusy(w) == worker[w].pc \in BusyPc
PathOf(w) == FilesOf(worker[w].item)[worker[w].pos]
BusyItems == {worker[w].item : w \in {v \in Worker : IsBusy(v)}}

HasRow(p) == rows[p] # <<>>
IsDecompiled(p) == HasRow(p) /\ rows[p][1].decompiled

WorkerState ==
  [pc: IdlePc] \cup [pc: BusyPc, item: Items, pos: Nat \ {0}, id: Nat, row: Row]

TypeOK ==
  /\ cancelled \in BOOLEAN
  /\ phase \in {"apks", "files"}
  /\ pending \subseteq DOMAIN FrameworkApks
  /\ fileMap \subseteq Group
  /\ drainer \in [pc: {"take", "done"}] \cup [pc: {"check", "send"}, group: Group]
  /\ chan \in Seq(Group) /\ Len(chan) <= Capacity
  /\ worker \in [Worker -> WorkerState]
  /\ \A w \in Worker : IsBusy(w) => worker[w].pos \in DOMAIN FilesOf(worker[w].item)
  /\ rows \in [Path -> Seq(Row)]
  /\ copies \in [Path -> [Place -> FileState]]
  /\ smali \in [Path -> SmaliState]
  /\ result \in {"none", "ok"}
  /\ handled \subseteq Items

-------------------------------------------------------------------------------
DiskInit ==
  \E d \in [Path -> UNION {StartDisk[p] : p \in Path}] :
    /\ \A p \in Path : d[p] \in StartDisk[p]
    /\ rows = [p \in Path |-> d[p].rows]
    /\ copies = [p \in Path |-> d[p].copy]
    /\ smali = [p \in Path |-> d[p].smali]

Init ==
  /\ cancelled = FALSE
  /\ phase = "apks"
  /\ pending = DOMAIN FrameworkApks
  /\ fileMap = Group
  /\ drainer = [pc |-> "take"]
  /\ chan = <<>>
  /\ worker = [w \in Worker |-> Idle("pool")]
  /\ DiskInit
  /\ result = "none"
  /\ handled = {}

Cancel ==
  /\ CanCancel /\ ~cancelled /\ result = "none"
  /\ cancelled' = TRUE
  /\ UNCHANGED <<phase, pending, fileMap, drainer, chan, worker, diskVars, result,
                 handled>>

-------------------------------------------------------------------------------
(* The scope of APK tasks.                                                 *)

Goto(w, state) == worker' = [worker EXCEPT ![w] = state]
Step(w, pc) == Goto(w, [worker[w] EXCEPT !.pc = pc])

(* A pool thread starts a task; a cancelled task returns at once.          *)
StartApk(w) ==
  /\ phase = "apks" /\ worker[w].pc = "pool"
  /\ \E n \in pending :
       /\ pending' = pending \ {n}
       /\ IF cancelled THEN UNCHANGED worker
          ELSE Goto(w, Busy("status", ApkItem(n), 1, 0, NewRow))
  /\ UNCHANGED <<fileMap, chan, diskVars, handled>>

(* The scope ends with its last task; then the drainer and the workers run.*)
StartFiles ==
  /\ phase = "apks" /\ pending = {}
  /\ \A w \in Worker : ~IsBusy(w)
  /\ phase' = "files"
  /\ worker' = [w \in Worker |-> Idle("check")]
  /\ UNCHANGED <<cancelled, pending, fileMap, drainer, chan, diskVars, result,
                 handled>>

-------------------------------------------------------------------------------
(* The helper thread that drains the map, in the order of a hash map.      *)
DrainTake ==
  /\ phase = "files" /\ drainer.pc = "take"
  /\ \/ \E g \in fileMap : /\ fileMap' = fileMap \ {g}
                           /\ drainer' = [pc |-> "check", group |-> g]
     \/ fileMap = {} /\ drainer' = [pc |-> "done"] /\ UNCHANGED fileMap
  /\ UNCHANGED chan

(* Fault: the send gives up at its first timeout.                          *)
DrainSendOnce ==
  /\ drainer.pc = "send"
  /\ IF Len(chan) < Capacity THEN chan' = Append(chan, drainer.group) ELSE UNCHANGED chan
  /\ drainer' = [pc |-> "take"]
  /\ UNCHANGED fileMap

DrainCheck ==
  /\ drainer.pc = "check"
  /\ drainer' = IF cancelled THEN [pc |-> "done"] ELSE [drainer EXCEPT !.pc = "send"]
  /\ UNCHANGED <<fileMap, chan>>

DrainSend ==
  /\ drainer.pc = "send"
  /\ \/ /\ Len(chan) < Capacity
        /\ chan' = Append(chan, drainer.group)
        /\ drainer' = [pc |-> "take"]
     \/ /\ Len(chan) = Capacity
        /\ drainer' = [drainer EXCEPT !.pc = "check"]
        /\ UNCHANGED chan
  /\ UNCHANGED fileMap

Drainer ==
  /\ DrainTake \/ DrainCheck \/ DrainSend
  /\ UNCHANGED <<cancelled, phase, pending, worker, diskVars, result, handled>>

-------------------------------------------------------------------------------
(* The worker loop of the second part.                                     *)

RecvCheck(w) ==
  /\ worker[w].pc = "check"
  /\ Goto(w, Idle(IF cancelled THEN "done" ELSE "recv"))
  /\ UNCHANGED <<pending, chan, diskVars, handled>>

Recv(w) ==
  /\ worker[w].pc = "recv"
  /\ \/ /\ chan # <<>>
        /\ Goto(w, Busy("status", GroupItem(Head(chan)), 1, 0, NewRow))
        /\ chan' = Tail(chan)
     \/ /\ chan = <<>>
        /\ Goto(w, Idle(IF drainer.pc = "done" THEN "done" ELSE "check"))
        /\ UNCHANGED chan
  /\ UNCHANGED <<pending, diskVars, handled>>

-------------------------------------------------------------------------------
(* One file.  It ends with a success or without; a group goes on with its  *)
(* next file as long as there is no success.                               *)

(* Fault: a file that ends without a success ends its group.               *)
FileEndsFirst(w, success) ==
  /\ Goto(w, Idle(IF worker[w].item.kind = "apk" THEN "pool" ELSE "check"))
  /\ handled' = handled \cup {worker[w].item}

(* Fault: the group goes on after a success.                               *)
FileEndsGoOn(w, success) ==
  LET item == worker[w].item
      next == worker[w].pos + 1
  IN
  IF next \in DOMAIN FilesOf(item)
  THEN /\ Goto(w, Busy("status", item, next, 0, NewRow))
       /\ UNCHANGED handled
  ELSE /\ Goto(w, Idle(IF item.kind = "apk" THEN "pool" ELSE "check"))
       /\ handled' = handled \cup {item}

FileEnds(w, success) ==
  LET item == worker[w].item
      next == worker[w].pos + 1
  IN
  IF ~success /\ next \in DOMAIN FilesOf(item)
  THEN /\ Goto(w, Busy("status", item, next, 0, NewRow))
       /\ UNCHANGED handled
  ELSE /\ Goto(w, Idle(IF item.kind = "apk" THEN "pool" ELSE "check"))
       /\ handled' = handled \cup {item}

(* The status is known: give it a host path; pull it unless that exists.   *)
HaveStatus(w, id, row) ==
  LET p == PathOf(w)
      r == WithHost(row, "frameworks")
      ready == IF worker[w].item.kind = "apk" THEN "install" ELSE "decompile"
  IN  Goto(w, Busy(IF ShouldPull(r, copies[p]) THEN "pull" ELSE ready,
                   worker[w].item, worker[w].pos, id, r))

(* A vdex that is not wanted is passed over.                               *)
Skipped(p) == Kind[p] = "vdex" /\ ~TryVdex

(* A file passed over ends without success; otherwise the status is        *)
(* looked up, and a file that was decompiled ends with success.            *)
GetStatus(w) ==
  LET p == PathOf(w) IN
  /\ worker[w].pc = "status"
  /\ IF Skipped(p)
     THEN FileEnds(w, FALSE)
     ELSE \/ /\ ~HasRow(p)
             /\ Step(w, "create")
             /\ UNCHANGED handled
          \/ /\ HasRow(p) /\ ~ShouldDecompile(rows[p][1])
             /\ FileEnds(w, TRUE)
          \/ /\ HasRow(p) /\ ShouldDecompile(rows[p][1])
             /\ HaveStatus(w, 1, rows[p][1])
             /\ UNCHANGED handled
          \/ PathOf(w) \in DBErrors /\ FileEnds(w, FALSE)
  /\ UNCHANGED <<pending, chan, diskVars>>

CreateStatus(w) ==
  LET p == PathOf(w) IN
  /\ worker[w].pc = "create"
  /\ \/ /\ rows' = [rows EXCEPT ![p] = Append(@, NewRow)]
        /\ HaveStatus(w, Len(rows[p]) + 1, NewRow)
        /\ UNCHANGED handled
     \/ PathOf(w) \in DBErrors /\ FileEnds(w, FALSE) /\ UNCHANGED rows
  /\ UNCHANGED <<pending, chan, copies, smali>>

(* An APK task pulls to, and decompiles, the frameworks directory, a file  *)
(* of a group the host path of its row.                                    *)
HostOf(w) == IF worker[w].item.kind = "apk" THEN "frameworks" ELSE worker[w].row.host

Attempt(w, success) ==
  Goto(w, Busy("update", worker[w].item, worker[w].pos, worker[w].id,
               Attempted(worker[w].row, success)))

PullFile(w) ==
  LET p == PathOf(w) IN
  /\ worker[w].pc = "pull"
  /\ \E o \in PullOutcomes(copies[p][HostOf(w)]) :
       /\ copies' = [copies EXCEPT ![p][HostOf(w)] = o.file]
       /\ IF ~o.ok THEN Attempt(w, FALSE)
          ELSE Step(w, IF worker[w].item.kind = "apk" THEN "install" ELSE "decompile")
  /\ UNCHANGED <<pending, chan, rows, smali, handled>>

(* `apktool if`: its exit status is not looked at, only whether it ran.    *)
InstallFramework(w) ==
  /\ worker[w].pc = "install"
  /\ Step(w, "decompile") \/ Attempt(w, FALSE)
  /\ UNCHANGED <<pending, chan, diskVars, handled>>

DecompileFile(w) ==
  LET p == PathOf(w)
      file == copies[p][HostOf(w)]
  IN
  /\ worker[w].pc = "decompile"
  /\ \E o \in IF worker[w].item.kind = "apk" THEN DecompileOutcomes(file, smali[p])
              ELSE FileOutcomes(Kind[p], file, smali[p]) :
       /\ smali' = [smali EXCEPT ![p] = o.smali]
       /\ Attempt(w, o.success)
  /\ UNCHANGED <<pending, chan, rows, copies, handled>>

(* An update that fails makes the result an error.                         *)
UpdateStatus(w) ==
  LET p == PathOf(w) IN
  /\ worker[w].pc = "update"
  /\ \/ /\ rows' = [rows EXCEPT ![p][worker[w].id] = worker[w].row]
        /\ FileEnds(w, worker[w].row.decompiled)
     \/ PathOf(w) \in DBErrors /\ FileEnds(w, FALSE) /\ UNCHANGED rows
  /\ UNCHANGED <<pending, chan, copies, smali>>

WorkerStep(w) ==
  /\ \/ StartApk(w) \/ RecvCheck(w) \/ Recv(w) \/ GetStatus(w) \/ CreateStatus(w)
     \/ PullFile(w) \/ InstallFramework(w) \/ DecompileFile(w) \/ UpdateStatus(w)
  /\ UNCHANGED <<cancelled, phase, fileMap, drainer, result>>

-------------------------------------------------------------------------------
(* The scope ends when the drainer and every worker did.  Whatever failed  *)
(* was logged: the phase itself succeeds.                                  *)
Return ==
  /\ result = "none" /\ phase = "files"
  /\ drainer.pc = "done"
  /\ \A w \in Worker : worker[w].pc = "done"
  /\ result' = "ok"
  /\ UNCHANGED <<cancelled, phase, pending, fileMap, drainer, chan, worker, diskVars,
                 handled>>

Next ==
  \/ Cancel \/ StartFiles \/ Drainer \/ Return
  \/ \E w \in Worker : WorkerStep(w)

Fairness ==
  /\ WF_vars(StartFiles) /\ WF_vars(Drainer) /\ WF_vars(Return)
  /\ \A w \in Worker : WF_vars(WorkerStep(w))

Spec == Init /\ [][Next]_vars /\ Fairness

-------------------------------------------------------------------------------
(* Properties.                                                             *)

(* No other item, and no other position of this one, has the file.         *)
Sole(item, i) ==
  \A other \in Items : \A j \in DOMAIN FilesOf(other) :
    FilesOf(other)[j] = FilesOf(item)[i] => other = item /\ j = i

(* handle_normalized_fileset: no worker is at a file of a group behind one *)
(* that is decompiled, whatever failed and whichever worker or run did it. *)
(* There are three ways past a decompiled file and no other: its row could *)
(* not be read or written (a failure like any other for the loop), it is a *)
(* vdex and this run skips those, or another item has it as well, whose    *)
(* worker records it at any time.                                          *)
FirstSuccessStops ==
  \A w \in Worker : IsBusy(w) =>
    \A i \in 1 .. worker[w].pos - 1 :
      LET p == FilesOf(worker[w].item)[i] IN
      IsDecompiled(p) => p \in DBErrors \/ Skipped(p) \/ ~Sole(worker[w].item, i)

(* Some row says that the file is decompiled; that it was attempted.       *)
Recorded(p) == \E i \in DOMAIN rows[p] : rows[p][i].decompiled
Tried(p) == \E i \in DOMAIN rows[p] : rows[p][i].attempts > 0

(* One of the alternatives was decompiled, or none was left out.           *)
Settled(item) ==
  LET files == FilesOf(item) IN
  \/ \E i \in DOMAIN files : Recorded(files[i])
  \/ \A i \in DOMAIN files :
       Tried(files[i]) \/ Skipped(files[i]) \/ files[i] \in DBErrors

(* Whatever shares a file with the item has the same files behind it.      *)
GoesOnAlike(item) ==
  \A other \in Items : \A i \in DOMAIN FilesOf(item), j \in DOMAIN FilesOf(other) :
    FilesOf(item)[i] = FilesOf(other)[j] =>
      /\ i + 1 \in DOMAIN FilesOf(item) <=> j + 1 \in DOMAIN FilesOf(other)
      /\ i + 1 \in DOMAIN FilesOf(item) => FilesOf(item)[i + 1] = FilesOf(other)[j + 1]

(* A phase that was not cancelled leaves of each framework APK and each    *)
(* group a success, or attempts at all its files.  Two workers may have    *)
(* one file at once, when it was found under two directories; each holds   *)
(* its own copy of a row then, and the one that fails may write over the   *)
(* success of the other, but it goes on to the alternatives behind.  This  *)
(* needs that both have the same ones: where they differ, a success can be *)
(* lost and the other files of its group are never tried.                  *)
AlternativesTried ==
  result = "ok" /\ ~cancelled => \A item \in Items : GoesOnAlike(item) => Settled(item)

(* What the phase promises, with its threads hidden: as PullApks does.     *)
Work == INSTANCE PullWork WITH
  busy  <- BusyItems,
  tried <- handled,
  todo  <- Items \ (BusyItems \cup handled)

ImplementsWork == Work!Spec
===============================================================================
