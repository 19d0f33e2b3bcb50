-------------------------------- MODULE PullUi --------------------------------
(***************************************************************************)
(* The user interface of `dtu pull` (cli/src/pull/pull.rs and applet.rs):  *)
(* the pull runs in a thread of its own and its workers send an event for  *)
(* each thing they do through a bounded channel; the interface's loop      *)
(* draws, takes a key, drains the channel once a tick, looks whether the   *)
(* pull has finished, and cancels it when the user asked to quit.          *)
(*                                                                         *)
(* PullApks and PullFramework model the pull in detail.  Here it is a set  *)
(* of workers that send events: what matters is that sending blocks, that  *)
(* an APK of the frameworks that failed is worked on again as an           *)
(* ordinary APK, and that some attempts end without an event.              *)
(***************************************************************************)
EXTENDS Naturals, Sequences, FiniteSets, Functions

CONSTANTS FrameworkApks,  \* APKs of the framework directories
          FrameworkFiles, \* other framework files
          Apks,           \* all other APKs
          Workers,        \* threads of the pull's worker pool
          Bound,          \* capacity of the channel of events
          MaxKeys         \* bound: keys and mouse events of the user

None == "none"
Paths == FrameworkApks \cup FrameworkFiles \cup Apks

ASSUME PullUiAssumption ==
  /\ IsFiniteSet(Paths) /\ None \notin Paths
  /\ FrameworkApks \cap Apks = {} /\ FrameworkFiles \cap (FrameworkApks \cup Apks) = {}
  /\ IsFiniteSet(Workers) /\ Workers # {}
  /\ Bound \in Nat \ {0} /\ MaxKeys \in Nat

VARIABLES
  phase,     \* the pull: "framework", "apks", "ok", "err"
  searched,  \* whether the search of this phase is over
  todo,      \* paths found and not taken by a worker
  job,       \* worker -> the path it works on
  at,        \* worker -> what it does next
  pulled,    \* path -> how its last pull ended: None, "failed", "succeeded"
  decomp,    \* path -> how its last decompilation ended
  cancelled, \* the flag of TaskCanceller
  chan,      \* the channel of events
  rxOpen,    \* whether the applet, with the receiver, exists
  ui,        \* the loop: "key", "tick", "check"; "unwinding"; or how it ended
  quit,      \* Applet::quit
  joined,    \* whether the pull's handle was taken and joined
  list,      \* block -> Applet::pull_list, Applet::decompile_list
  focus,     \* Applet::focused_block
  selIdx,    \* Applet::sel_idx
  keys       \* keys and mouse events so far

pullVars == <<phase, searched, todo, job, at, pulled, decomp>>
shown == <<list, focus, selIdx>>
pullUiVars == <<phase, searched, todo, job, at, pulled, decomp, cancelled, chan,
          rxOpen, ui, quit, joined, list, focus, selIdx, keys>>

Blocks == {"pull", "decompile"}
Statuses == {"in_progress", "failed", "succeeded"}
Kinds == {"begin", "failed", "succeeded", "other"}
Ended == {"done", "exited", "panicked"}
Other == [block |-> "pull", kind |-> "other", path |-> None]

PullUiInit ==
  /\ phase = "framework" /\ searched = FALSE
  /\ todo = {}
  /\ job = [w \in Workers |-> None] /\ at = [w \in Workers |-> "idle"]
  /\ pulled = [p \in Paths |-> None] /\ decomp = [p \in Paths |-> None]
  /\ cancelled = FALSE
  /\ chan = <<>> /\ rxOpen = TRUE
  /\ ui = "key" /\ quit = "none" /\ joined = FALSE
  /\ list = [b \in Blocks |-> <<>>]
  /\ focus = "decompile" /\ selIdx = 0
  /\ keys = 0

------------------------------------------------------------------------------
(* The pull. *)

Alive == ui # "exited"

(* ChannelEventMonitor::on_event: waits for room; once the receiver is     *)
(* gone the error is ignored.                                              *)
Send(e) ==
  /\ Alive
  /\ rxOpen => Len(chan) < Bound
  /\ chan' = IF rxOpen THEN Append(chan, e) ELSE chan

(* The events of the search (FindingDirectories, DirectoryFound and        *)
(* DirectoryDone) take their room in the channel, and the interface drops  *)
(* them.  A search that fails has found some of the paths.                 *)
Search ==
  /\ phase \in {"framework", "apks"} /\ ~searched
  /\ Send(Other)
  /\ searched' = TRUE
  /\ todo' \in SUBSET (IF phase = "framework" THEN FrameworkApks \cup FrameworkFiles
                       ELSE {p \in FrameworkApks \cup Apks : decomp[p] # "succeeded"})
  /\ UNCHANGED <<phase, job, at, pulled, decomp, cancelled, rxOpen, ui, quit,
                 joined, list, focus, selIdx, keys>>

WorkerKeeps == UNCHANGED <<phase, searched, cancelled, rxOpen, ui, quit, joined,
                           list, focus, selIdx, keys>>

(* A worker takes the next path; a file pulled before is not pulled again. *)
(* What decides that is a copy on the host, here that a pull of this run   *)
(* made one: a path with a copy of an earlier run has no event of a pull.  *)
Take(w) ==
  /\ Alive /\ at[w] = "idle" /\ ~cancelled
  /\ \E p \in todo :
       /\ todo' = todo \ {p}
       /\ job' = [job EXCEPT ![w] = p]
       /\ at' = [at EXCEPT ![w] = IF pulled[p] = "succeeded" THEN "decompile" ELSE "pull"]
  /\ UNCHANGED <<pulled, decomp, chan>>
  /\ WorkerKeeps

Rest(w) == job' = [job EXCEPT ![w] = None] /\ at' = [at EXCEPT ![w] = "idle"]

BeginPull(w) ==
  /\ at[w] = "pull"
  /\ Send([block |-> "pull", kind |-> "begin", path |-> job[w]])
  /\ at' = [at EXCEPT ![w] = "pulling"]
  /\ UNCHANGED <<todo, job, pulled, decomp>>
  /\ WorkerKeeps

EndPull(w, r) ==
  /\ at[w] = "pulling"
  /\ Send([block |-> "pull", kind |-> r, path |-> job[w]])
  /\ pulled' = [pulled EXCEPT ![job[w]] = r]
  /\ IF r = "succeeded"
     THEN at' = [at EXCEPT ![w] = "decompile"] /\ UNCHANGED job
     ELSE Rest(w)
  /\ UNCHANGED <<todo, decomp>>
  /\ WorkerKeeps

BeginDecompile(w) ==
  /\ at[w] = "decompile"
  /\ Send([block |-> "decompile", kind |-> "begin", path |-> job[w]])
  /\ at' = [at EXCEPT ![w] = "decompiling"]
  /\ UNCHANGED <<todo, job, pulled, decomp>>
  /\ WorkerKeeps

EndDecompile(w, r) ==
  /\ at[w] = "decompiling"
  /\ Send([block |-> "decompile", kind |-> r, path |-> job[w]])
  /\ decomp' = [decomp EXCEPT ![job[w]] = r]
  /\ Rest(w)
  /\ UNCHANGED <<todo, pulled>>
  /\ WorkerKeeps

(* `apktool if` fails for an APK of the frameworks before decompile_apk is *)
(* reached, or the output directory of another framework file cannot be    *)
(* made after the event was sent: no event says so.                        *)
EndSilently(w) ==
  /\ Alive /\ phase = "framework"
  /\ \/ at[w] = "decompile" /\ job[w] \in FrameworkApks
     \/ at[w] = "decompiling" /\ job[w] \in FrameworkFiles
  /\ Rest(w)
  /\ UNCHANGED <<todo, pulled, decomp, chan>>
  /\ WorkerKeeps

(* Pull::run: the phases follow each other unless the first failed or was  *)
(* cancelled.                                                              *)
PhaseOver == searched /\ (\A w \in Workers : at[w] = "idle") /\ (todo = {} \/ cancelled)

EndPhase ==
  /\ Alive /\ phase \in {"framework", "apks"} /\ PhaseOver
  /\ \/ /\ phase = "framework" /\ ~cancelled
        /\ phase' = "apks" /\ searched' = FALSE
     \/ /\ phase = "apks"
        /\ phase' = "ok" /\ UNCHANGED searched
     \/ phase' = "err" /\ UNCHANGED searched
  /\ todo' = {}
  /\ UNCHANGED <<job, at, pulled, decomp, cancelled, chan, rxOpen, ui, quit,
                 joined, list, focus, selIdx, keys>>

Finished == phase \in {"ok", "err"}

------------------------------------------------------------------------------
(* The applet. *)

(* Applet::track_selection, after an entry was added to a block.           *)
Tracked(b) == IF selIdx > 0 /\ focus = b THEN selIdx + 1 ELSE selIdx

(* Fault: entries are not sorted after an update.                          *)
UpdatedUnsorted(l, p, s) ==
  LET at1 == {i \in DOMAIN l : l[i].item = p}
  IN  IF at1 = {} THEN Append(l, [item |-> p, status |-> s])
      ELSE [l EXCEPT ![CHOOSE i \in at1 : \A j \in at1 : i <= j].status = s]

(* sort_by, which is stable: the entries in another order, what is in      *)
(* progress after the rest and otherwise as they were.                     *)
Busy(e) == e.status = "in_progress"
Before(l, i, j) == IF Busy(l[i]) <=> Busy(l[j]) THEN i < j ELSE Busy(l[j])
Orders(l) ==
  {o \in Bijection(DOMAIN l, DOMAIN l) :
     \A i, j \in DOMAIN l : i < j => Before(l, o[i], o[j])}
BusyLast(l) == LET o == CHOOSE o \in Orders(l) : TRUE IN [i \in DOMAIN l |-> l[o[i]]]

(* Fault: the last entry of the path is updated, not the first.            *)
UpdatedLast(l, p, s) ==
  LET at1 == {i \in DOMAIN l : l[i].item = p}
  IN  BusyLast(IF at1 = {} THEN Append(l, [item |-> p, status |-> s])
               ELSE [l EXCEPT ![CHOOSE i \in at1 : \A j \in at1 : j <= i].status = s])

(* Applet::update_list: the first entry of the path, or a new one, and the *)
(* sort.                                                                   *)
Updated(l, p, s) ==
  LET at1 == {i \in DOMAIN l : l[i].item = p}
  IN  BusyLast(IF at1 = {} THEN Append(l, [item |-> p, status |-> s])
               ELSE [l EXCEPT ![CHOOSE i \in at1 : \A j \in at1 : i <= j].status = s])

(* Applet::on_event.                                                       *)
OnEvent(e) ==
  LET b == e.block
      new == IF e.kind = "begin"
             THEN Append(list[b], [item |-> e.path, status |-> "in_progress"])
             ELSE Updated(list[b], e.path, e.kind)
  IN  IF e.kind = "other" THEN UNCHANGED shown
      ELSE /\ list' = [list EXCEPT ![b] = new]
           /\ selIdx' = IF Len(new) > Len(list[b]) THEN Tracked(b) ELSE selIdx
           /\ UNCHANGED focus

UiKeeps == UNCHANGED pullVars /\ UNCHANGED <<keys, joined>>

(* Unwinding drops the applet, with the receiver, and the TaskCanceller,   *)
(* whose Drop cancels.                                                     *)
Unwind ==
  /\ ui' = "unwinding"
  /\ rxOpen' = FALSE /\ chan' = <<>> /\ cancelled' = TRUE
  /\ UNCHANGED <<quit, list, focus, selIdx>>

(* A key: quitting, moving the focus, moving the selection.  Moving it     *)
(* down in an empty list underflows, which the checks of a debug build     *)
(* turn into a panic and other builds into a selection past the end.       *)
Focus == /\ focus' = IF focus = "pull" THEN "decompile" ELSE "pull"
         /\ selIdx' = 0 /\ UNCHANGED <<list, quit>>
QuitBy(q) == quit' = q /\ UNCHANGED shown
Escape == QuitBy(IF quit = "none" THEN "wait" ELSE quit)
Top == selIdx' = 0 /\ UNCHANGED <<list, focus, quit>>
Dec == selIdx' = (IF selIdx = 0 THEN 0 ELSE selIdx - 1) /\ UNCHANGED <<list, focus, quit>>
Inc == /\ selIdx' = IF Len(list[focus]) > 0 /\ selIdx >= Len(list[focus]) - 1
                    THEN selIdx ELSE selIdx + 1
       /\ UNCHANGED <<list, focus, quit>>
IncUnderflows == Len(list[focus]) = 0

Key ==
  /\ ui = "key" /\ keys < MaxKeys
  /\ keys' = keys + 1
  /\ \/ /\ Focus \/ QuitBy("immediate") \/ Escape \/ Top \/ Dec \/ Inc
        /\ ui' \in {"tick", "check"}
        /\ UNCHANGED <<cancelled, chan, rxOpen>>
     \/ IncUnderflows /\ Unwind
  /\ UNCHANGED pullVars /\ UNCHANGED joined

(* Fault: the events are not taken any more once the user has quit.        *)
NoKeyQuitting ==
  /\ ui = "key"
  /\ ui' = IF quit = "none" THEN "tick" ELSE "check"
  /\ UNCHANGED <<cancelled, chan, rxOpen, quit, list, focus, selIdx>>
  /\ UiKeeps

(* No key until the tick is due.                                           *)
NoKey ==
  /\ ui = "key"
  /\ ui' = "tick"
  /\ UNCHANGED <<cancelled, chan, rxOpen, quit, list, focus, selIdx>>
  /\ UiKeeps

(* Drawing, polling or reading fails: `?` leaves the closure.              *)
TerminalFails ==
  /\ ui = "key"
  /\ Unwind
  /\ UiKeeps

(* Applet::on_tick: one event of the loop of try_recv.                     *)
Drain ==
  /\ ui = "tick" /\ chan # <<>>
  /\ OnEvent(Head(chan))
  /\ chan' = Tail(chan)
  /\ UNCHANGED <<cancelled, rxOpen, ui, quit>>
  /\ UiKeeps

Drained ==
  /\ ui = "tick" /\ chan = <<>>
  /\ ui' = "check"
  /\ UNCHANGED <<cancelled, chan, rxOpen, quit, list, focus, selIdx>>
  /\ UiKeeps

(* The rest of the loop of run_tui.  process::exit ends every thread; the  *)
(* loop ends when the pull failed, or when it is over and the user quits.  *)
ExitNow ==
  /\ ui = "check" /\ quit = "immediate"
  /\ ui' = "exited"
  /\ UNCHANGED <<cancelled, chan, rxOpen, quit, list, focus, selIdx>>
  /\ UiKeeps

Leaves == /\ ui' = "done" /\ rxOpen' = FALSE /\ cancelled' = TRUE /\ chan' = <<>>

Check ==
  /\ ui = "check" /\ quit # "immediate"
  /\ joined' = (joined \/ Finished)
  /\ IF joined' /\ (quit # "none" \/ (~joined /\ phase = "err"))
     THEN Leaves
     ELSE /\ ui' = "key"
          /\ cancelled' = (cancelled \/ quit # "none")
          /\ UNCHANGED <<chan, rxOpen>>
  /\ UNCHANGED pullVars /\ UNCHANGED <<quit, list, focus, selIdx, keys>>

(* thread::scope joins the pull before the panic or the error goes on.     *)
Unwound ==
  /\ ui = "unwinding" /\ Finished
  /\ ui' = "panicked"
  /\ UNCHANGED <<cancelled, chan, rxOpen, quit, list, focus, selIdx>>
  /\ UiKeeps

------------------------------------------------------------------------------
WorkerStep(w) ==
  \/ Take(w) \/ BeginPull(w) \/ BeginDecompile(w) \/ EndSilently(w)
  \/ \E r \in {"failed", "succeeded"} : EndPull(w, r) \/ EndDecompile(w, r)

UiStep == NoKey \/ Drain \/ Drained \/ ExitNow \/ Check \/ Unwound

Terminated == ui \in Ended /\ (Finished \/ ui = "exited") /\ UNCHANGED pullUiVars

PullUiNext ==
  \/ Search \/ EndPhase
  \/ \E w \in Workers : WorkerStep(w)
  \/ UiStep \/ Key \/ TerminalFails
  \/ Terminated

(* Every thread goes on while it can; the user need not press a key.       *)
Fairness ==
  /\ WF_pullUiVars(Search) /\ WF_pullUiVars(EndPhase)
  /\ \A w \in Workers : WF_pullUiVars(WorkerStep(w))
  /\ WF_pullUiVars(UiStep)

PullUiSpec == PullUiInit /\ [][PullUiNext]_pullUiVars /\ Fairness

------------------------------------------------------------------------------
PullUiTypes ==
  /\ phase \in {"framework", "apks", "ok", "err"}
  /\ searched \in BOOLEAN /\ cancelled \in BOOLEAN /\ rxOpen \in BOOLEAN
  /\ joined \in BOOLEAN
  /\ todo \subseteq Paths
  /\ job \in [Workers -> Paths \cup {None}]
  /\ at \in [Workers -> {"idle", "pull", "pulling", "decompile", "decompiling"}]
  /\ pulled \in [Paths -> {None, "failed", "succeeded"}]
  /\ decomp \in [Paths -> {None, "failed", "succeeded"}]
  /\ chan \in Seq([block : Blocks, kind : Kinds, path : Paths \cup {None}])
  /\ Len(chan) <= Bound
  /\ ui \in {"key", "tick", "check", "unwinding"} \cup Ended
  /\ quit \in {"none", "wait", "immediate"}
  /\ list \in [Blocks -> Seq([item : Paths, status : Statuses])]
  /\ focus \in Blocks /\ selIdx \in Nat /\ keys \in 0..MaxKeys

(* What is in progress is at the end of its list, as update_list says; the *)
(* lists are drawn from their end.                                         *)
InProgressLast ==
  \A b \in Blocks : \A i, j \in DOMAIN list[b] :
    i < j /\ list[b][i].status = "in_progress" => list[b][j].status = "in_progress"

(* While the interface runs, once every event was taken from the channel,  *)
(* the lists tell how the last attempt at each path ended that did,        *)
(* whatever order the workers' events came in, however often a path was    *)
(* tried and even while it is tried again: on the first of its entries.    *)
OutcomeShown ==
  ui \in {"key", "tick", "check"} /\ chan = <<>> =>
    \A b \in Blocks, p \in Paths :
      LET last == IF b = "pull" THEN pulled[p] ELSE decomp[p]
          here == {i \in DOMAIN list[b] : list[b][i].item = p}
      IN  last # None =>
            \E i \in here : list[b][i].status = last /\ \A j \in here : i <= j

(* The channel never holds the pull up for good: whatever the user does    *)
(* and however the interface ends, the pull comes to its end, unless the   *)
(* process exits.  And asking to quit ends the command, and so do a failed *)
(* pull and a terminal that fails.                                         *)
EveryoneEnds ==
  /\ <>(Finished \/ ui = "exited")
  /\ (quit # "none" \/ phase = "err" \/ ui = "unwinding") ~> (ui \in Ended)
===============================================================================
