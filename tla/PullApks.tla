------------------------------- MODULE PullApks -------------------------------
(***************************************************************************)
(* Pull::pull_apks: one thread lists the APKs of the device and sends each *)
(* path once over a bounded channel; a pool of workers receives them,      *)
(* pulls and decompiles each one and records the outcome in the            *)
(* decompile_status table.  A cancel flag can be raised at any time.       *)
(***************************************************************************)
EXTENDS PullStatus, Sequences, FiniteSets

CONSTANTS
  Path,        \* device paths of APKs
  Worker,      \* threads of the worker pool
  Capacity,    \* bound of the channel (nthreads * 2 in the code)
  Listing,     \* what each listing command prints: a sequence of sequences
  StartDisk,   \* what earlier runs can have left of one path (see Disk)
  CanCancel,   \* whether the user may cancel
  DBErrors     \* whether a database call may fail

(* What is stored about one path: its rows in decompile_status, oldest     *)
(* first (a lookup by path returns the oldest), the copies on the host and *)
(* the smali output.  A row that says decompiled has all of its output.    *)
Disk ==
  {d \in [rows: Seq(Row), copy: [Place -> FileState], smali: SmaliState] :
     d.rows # <<>> /\ d.rows[1].decompiled => d.smali = "all"}

ASSUME ApksAssumption ==
  /\ Worker # {}
  /\ Capacity \in Nat \ {0}
  /\ Listing \in Seq(Seq(Path))
  /\ StartDisk \subseteq Disk
  /\ CanCancel \in BOOLEAN
  /\ DBErrors \in BOOLEAN

VARIABLES
  cancelled,   \* the flag of the TaskCanceller
  finder,      \* the thread in find_apks
  seen,        \* its HashSet of paths already sent
  chan,        \* the APK channel
  worker,      \* the worker threads
  rows,        \* decompile_status: the rows of each path, oldest first
  copies,      \* the copies of each path on the host
  smali,       \* the smali output of each path
  result,      \* what pull_apks returned
  tried        \* history: paths a worker is done with in this run

vars == <<cancelled, finder, seen, chan, worker, rows, copies, smali, result,
          tried>>
threadVars == <<finder, seen, chan, worker>>
diskVars   == <<rows, copies, smali>>

-------------------------------------------------------------------------------
(* The finder is in find_apks, between two lines or sending one: line      *)
(* number line of the output of listing command number cmd.                *)
Finding(cmd, line) == [pc |-> "find", cmd |-> cmd, line |-> line]
CurrentLine == Listing[finder.cmd][finder.line]

(* A worker is checking the cancel flag, receiving, or at one step of      *)
(* pull_and_decompile_apk for path, with its copy of the row numbered id.  *)
Idle(pc) == [pc |-> pc]
Busy(pc, path, id, row) == [pc |-> pc, path |-> path, id |-> id, row |-> row]

IdlePc == {"check", "recv", "done"}
BusyPc == {"status", "create", "pull", "decompile", "update"}

IsBusy(w) == worker[w].pc \in BusyPc
BusyPaths == {worker[w].path : w \in {v \in Worker : IsBusy(v)}}

Listed == UNION {{Listing[c][i] : i \in DOMAIN Listing[c]} : c \in DOMAIN Listing}

InChan == {chan[i] : i \in DOMAIN chan}

(* The sender half of the channel lives as long as find_apks runs.         *)
Connected == finder.pc \notin {"ok", "err"}

HasRow(p) == rows[p] # <<>>
IsDecompiled(p) == HasRow(p) /\ rows[p][1].decompiled

FinderState ==
  [pc: {"find", "check", "send", "ok", "err"}, cmd: Nat \ {0}, line: Nat \ {0}]
WorkerState ==
  [pc: IdlePc] \cup [pc: BusyPc, path: Path, id: Nat, row: Row]

TypeOK ==
  /\ cancelled \in BOOLEAN
  /\ finder \in FinderState
  /\ finder.pc \in {"check", "send"} =>
        finder.cmd \in DOMAIN Listing /\ finder.line \in DOMAIN Listing[finder.cmd]
  /\ seen \in SUBSET Path
  /\ chan \in Seq(Path) /\ Len(chan) <= Capacity
  /\ worker \in [Worker -> WorkerState]
  /\ rows \in [Path -> Seq(Row)]
  /\ copies \in [Path -> [Place -> FileState]]
  /\ smali \in [Path -> SmaliState]
  /\ result \in {"none", "ok", "err"}
  /\ tried \in SUBSET Path

-------------------------------------------------------------------------------
(* Every path starts with something earlier runs can have left.            *)
DiskInit ==
  \E d \in [Path -> StartDisk] :
    /\ rows = [p \in Path |-> d[p].rows]
    /\ copies = [p \in Path |-> d[p].copy]
    /\ smali = [p \in Path |-> d[p].smali]

ThreadInit ==
  /\ finder = Finding(1, 1)
  /\ seen = {}
  /\ chan = <<>>
  /\ worker = [w \in Worker |-> Idle("check")]

Init ==
  /\ cancelled = FALSE
  /\ ThreadInit
  /\ DiskInit
  /\ result = "none"
  /\ tried = {}

-------------------------------------------------------------------------------
(* The user's signal: TaskCanceller::cancel.                               *)
Cancel ==
  /\ CanCancel /\ ~cancelled /\ result = "none"
  /\ cancelled' = TRUE
  /\ UNCHANGED <<threadVars, diskVars, result, tried>>

-------------------------------------------------------------------------------
(* find_apks.  on_line is called for each line of each listing command.    *)

(* Fault: on_line forgets to look a path up before it sends it.            *)
FindLineUnchecked ==
  /\ finder.pc = "find"
  /\ finder.cmd \in DOMAIN Listing
  /\ finder.line \in DOMAIN Listing[finder.cmd]
  /\ finder' = [finder EXCEPT !.pc = "check"]
  /\ seen' = seen \cup {CurrentLine}
  /\ UNCHANGED <<cancelled, chan, worker, diskVars, result, tried>>

(* on_line skips a path it has seen, otherwise remembers it and sends it.  *)
FindLine ==
  /\ finder.pc = "find"
  /\ finder.cmd \in DOMAIN Listing
  /\ finder.line \in DOMAIN Listing[finder.cmd]
  /\ IF CurrentLine \in seen
     THEN /\ finder' = Finding(finder.cmd, finder.line + 1)
          /\ UNCHANGED seen
     ELSE /\ finder' = [finder EXCEPT !.pc = "check"]
          /\ seen' = seen \cup {CurrentLine}
  /\ UNCHANGED <<cancelled, chan, worker, diskVars, result, tried>>

(* Fault: a send that blocks without looking at the flag.                  *)
SendUncheckedFlag ==
  /\ finder.pc = "check"
  /\ finder' = [finder EXCEPT !.pc = "send"]
  /\ UNCHANGED <<cancelled, seen, chan, worker, diskVars, result, tried>>

(* cancelable_send, head of its loop: go on sending, or stop because of    *)
(* the flag.  The error of the callback ends a walk of a filesystem dump;  *)
(* with adb it only keeps the callback from being called for the rest of   *)
(* the output of this command.                                             *)
SendCheck ==
  /\ finder.pc = "check"
  /\ finder' =
       IF ~cancelled THEN [finder EXCEPT !.pc = "send"]
       ELSE IF Helper = "adb"
       THEN Finding(finder.cmd, Len(Listing[finder.cmd]) + 1)
       ELSE [finder EXCEPT !.pc = "err"]
  /\ UNCHANGED <<cancelled, seen, chan, worker, diskVars, result, tried>>

(* send_timeout: the value is accepted, or the timeout sends the thread    *)
(* back to the check.                                                      *)
Send ==
  /\ finder.pc = "send"
  /\ \/ /\ Len(chan) < Capacity
        /\ chan' = Append(chan, CurrentLine)
        /\ finder' = Finding(finder.cmd, finder.line + 1)
     \/ /\ Len(chan) = Capacity
        /\ finder' = [finder EXCEPT !.pc = "check"]
        /\ UNCHANGED chan
  /\ UNCHANGED <<cancelled, seen, worker, diskVars, result, tried>>

(* A listing command ends and the next one starts.  With adb a command can *)
(* fail at any point: the finder drops the sender and returns the error.   *)
EndOfCommand ==
  /\ finder.pc = "find"
  /\ finder.cmd \in DOMAIN Listing
  /\ \/ /\ finder.line > Len(Listing[finder.cmd])
        /\ finder' = Finding(finder.cmd + 1, 1)
     \/ Helper = "adb" /\ finder' = [finder EXCEPT !.pc = "err"]
  /\ UNCHANGED <<cancelled, seen, chan, worker, diskVars, result, tried>>

FindDone ==
  /\ finder.pc = "find"
  /\ finder.cmd > Len(Listing)
  /\ finder' = [finder EXCEPT !.pc = "ok"]
  /\ UNCHANGED <<cancelled, seen, chan, worker, diskVars, result, tried>>

Finder == FindLine \/ SendCheck \/ Send \/ EndOfCommand \/ FindDone

-------------------------------------------------------------------------------
(* The worker loop: cancelable_recv, then pull_and_decompile_apk.          *)

Goto(w, state) == worker' = [worker EXCEPT ![w] = state]

(* pull_and_decompile_apk returned: whatever it returned, the loop goes on.*)
Finish(w) ==
  /\ Goto(w, Idle("check"))
  /\ tried' = tried \cup {worker[w].path}

RecvCheck(w) ==
  /\ worker[w].pc = "check"
  /\ Goto(w, Idle(IF cancelled THEN "done" ELSE "recv"))
  /\ UNCHANGED <<cancelled, finder, seen, chan, diskVars, result, tried>>

(* Fault: a worker leaves as soon as it finds the channel empty.           *)
RecvOrLeave(w) ==
  /\ worker[w].pc = "recv"
  /\ \/ /\ chan # <<>>
        /\ Goto(w, Busy("status", Head(chan), 0, NewRow))
        /\ chan' = Tail(chan)
     \/ /\ chan = <<>>
        /\ Goto(w, Idle("done"))
        /\ UNCHANGED chan
  /\ UNCHANGED <<cancelled, finder, seen, diskVars, result, tried>>

(* recv_timeout: a path, the end of the channel, or a timeout.             *)
Recv(w) ==
  /\ worker[w].pc = "recv"
  /\ \/ /\ chan # <<>>
        /\ Goto(w, Busy("status", Head(chan), 0, NewRow))
        /\ chan' = Tail(chan)
     \/ /\ chan = <<>>
        /\ Goto(w, Idle(IF Connected THEN "check" ELSE "done"))
        /\ UNCHANGED chan
  /\ UNCHANGED <<cancelled, finder, seen, diskVars, result, tried>>

(* The status is known: give it a host path, then pull unless that exists. *)
HaveStatus(w, id, row) ==
  LET p == worker[w].path
      r == WithHost(row, "apks")
  IN  Goto(w, Busy(IF ShouldPull(r, copies[p]) THEN "pull" ELSE "decompile", p, id, r))

(* Fault: the status of an APK that is decompiled is not looked at.        *)
GetStatusOnly(w) ==
  LET p == worker[w].path IN
  /\ worker[w].pc = "status"
  /\ IF HasRow(p) THEN HaveStatus(w, 1, rows[p][1])
                  ELSE Goto(w, Busy("create", p, 0, NewRow))
  /\ UNCHANGED <<cancelled, finder, seen, chan, diskVars, result, tried>>

(* get_decompile_status_by_device_path: create a row, skip a success, or   *)
(* go on with the row that is there.                                       *)
GetStatus(w) ==
  LET p == worker[w].path IN
  /\ worker[w].pc = "status"
  /\ \/ /\ ~HasRow(p)
        /\ Goto(w, Busy("create", p, 0, NewRow))
        /\ UNCHANGED tried
     \/ /\ HasRow(p) /\ ~ShouldDecompile(rows[p][1])
        /\ Finish(w)
     \/ /\ HasRow(p) /\ ShouldDecompile(rows[p][1])
        /\ HaveStatus(w, 1, rows[p][1])
        /\ UNCHANGED tried
     \/ DBErrors /\ Finish(w)
  /\ UNCHANGED <<cancelled, finder, seen, chan, diskVars, result>>

(* create_new_decompile_status.                                            *)
CreateStatus(w) ==
  LET p == worker[w].path IN
  /\ worker[w].pc = "create"
  /\ \/ /\ rows' = [rows EXCEPT ![p] = Append(@, NewRow)]
        /\ HaveStatus(w, Len(rows[p]) + 1, NewRow)
        /\ UNCHANGED tried
     \/ DBErrors /\ Finish(w) /\ UNCHANGED rows
  /\ UNCHANGED <<cancelled, finder, seen, chan, copies, smali, result>>

(* pull_file; a failed pull counts as an attempt.                          *)
PullFile(w) ==
  LET p == worker[w].path
      r == worker[w].row
  IN
  /\ worker[w].pc = "pull"
  /\ \E o \in PullOutcomes(copies[p][r.host]) :
       /\ copies' = [copies EXCEPT ![p][r.host] = o.file]
       /\ Goto(w, IF o.ok
                  THEN Busy("decompile", p, worker[w].id, r)
                  ELSE Busy("update", p, worker[w].id, Attempted(r, FALSE)))
  /\ UNCHANGED <<cancelled, finder, seen, chan, rows, smali, result, tried>>

(* Fault: the attempt counts as a success before the smali is moved.       *)
DecompileBeforeMove(w) ==
  LET p == worker[w].path
      r == worker[w].row
  IN
  /\ worker[w].pc = "decompile"
  /\ \E o \in DecompileOutcomes(copies[p][r.host], smali[p]) :
       /\ smali' = [smali EXCEPT ![p] = o.smali]
       /\ Goto(w, Busy("update", p, worker[w].id,
                       Attempted(r, o.success \/ o.smali # smali[p])))
  /\ UNCHANGED <<cancelled, finder, seen, chan, rows, copies, result, tried>>

(* decompile_apk and the update of the local copy of the row.              *)
DecompileApk(w) ==
  LET p == worker[w].path
      r == worker[w].row
  IN
  /\ worker[w].pc = "decompile"
  /\ \E o \in DecompileOutcomes(copies[p][r.host], smali[p]) :
       /\ smali' = [smali EXCEPT ![p] = o.smali]
       /\ Goto(w, Busy("update", p, worker[w].id, Attempted(r, o.success)))
  /\ UNCHANGED <<cancelled, finder, seen, chan, rows, copies, result, tried>>

(* update_decompile_status writes the row back by its id.                  *)
UpdateStatus(w) ==
  LET p == worker[w].path IN
  /\ worker[w].pc = "update"
  /\ \/ rows' = [rows EXCEPT ![p][worker[w].id] = worker[w].row]
     \/ DBErrors /\ UNCHANGED rows
  /\ Finish(w)
  /\ UNCHANGED <<cancelled, finder, seen, chan, copies, smali, result>>

WorkerStep(w) ==
  \/ RecvCheck(w) \/ Recv(w) \/ GetStatus(w) \/ CreateStatus(w)
  \/ PullFile(w) \/ DecompileApk(w) \/ UpdateStatus(w)

-------------------------------------------------------------------------------
(* broadcast returns when every worker left its loop; then the finder is   *)
(* joined and its error, if any, is the result.                            *)
Return ==
  /\ result = "none"
  /\ \A w \in Worker : worker[w].pc = "done"
  /\ ~Connected
  /\ result' = finder.pc
  /\ UNCHANGED <<cancelled, threadVars, diskVars, tried>>

Next ==
  \/ Cancel
  \/ Finder
  \/ \E w \in Worker : WorkerStep(w)
  \/ Return

Fairness ==
  /\ WF_vars(Finder)
  /\ \A w \in Worker : WF_vars(WorkerStep(w))
  /\ WF_vars(Return)

Spec == Init /\ [][Next]_vars /\ Fairness

-------------------------------------------------------------------------------
(* Properties.                                                             *)

(* No two workers ever work on the same APK, and none works on an APK that *)
(* is still queued or that was already worked on in this run: two          *)
(* overlapping listings of the device would otherwise make two threads     *)
(* create rows, write the same copy and overwrite each other's status.     *)
OneWorkerPerPath ==
  /\ \A v, w \in Worker :
        v # w /\ IsBusy(v) /\ IsBusy(w) => worker[v].path # worker[w].path
  /\ \A i, j \in DOMAIN chan : i # j => chan[i] # chan[j]
  /\ BusyPaths \cap InChan = {}
  /\ tried \cap (BusyPaths \cup InChan) = {}

(* Why: every path that was sent is in the finder's set, and the path the  *)
(* finder is about to send was not sent yet.                               *)
SeenCovers ==
  /\ InChan \cup BusyPaths \cup tried \subseteq seen
  /\ finder.pc \in {"check", "send"} =>
        CurrentLine \in seen \ (InChan \cup BusyPaths \cup tried)

(* A row that says decompiled is never a lie: all the smali of the APK is  *)
(* in place, whatever failed, was cancelled or was left by earlier runs.   *)
DecompiledIsReal == \A p \in Path : IsDecompiled(p) => smali[p] = "all"

(* A decompiled APK stays decompiled: no stale copy of its row, held by a  *)
(* worker since before the success, is written back over it.               *)
StaysDecompiled ==
  [][\A p \in Path : IsDecompiled(p) => IsDecompiled(p)']_vars

(* pull_apks returns in the end: neither a full channel nor a cancelled    *)
(* side leaves the finder or a worker waiting forever.                     *)
Terminates == <>(result # "none")

-------------------------------------------------------------------------------
(* What pull_apks promises, with its threads and its channel hidden.       *)
Work == INSTANCE PullWork WITH
  Items <- Listed,
  busy  <- BusyPaths,
  todo  <- Listed \ (BusyPaths \cup tried)

ImplementsWork == Work!Spec
===============================================================================
