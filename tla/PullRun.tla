-------------------------------- MODULE PullRun --------------------------------
(***************************************************************************)
(* pull() and Pull::run over many invocations of `dtu pull`: the framework *)
(* phase, the APK phase, the progress record, a user who cancels, a        *)
(* process that is killed at any point and started again.  Of the threads  *)
(* of a phase, which PullApks and PullFramework model, this keeps that the *)
(* files are worked on in any order, the alternatives of a group one after *)
(* the other until one succeeds; a file is in one group here.              *)
(***************************************************************************)
EXTENDS PullStatus, FiniteSets

CONSTANTS
  FrameworkFile, \* what the framework phase finds
  Apk,           \* what the APK phase finds
  Before,        \* the alternatives a framework file comes after in its group
  Unwanted,      \* the vdex files, when Options::try_vdex is off
  DBErrors,      \* files whose rows may fail to be read or written
  Retry,         \* Options::retry or Options::force
  CanCancel,     \* whether the user may cancel
  CanCrash,      \* whether the process may be killed
  CanError       \* whether the device or the database may fail a whole phase

AllFiles == FrameworkFile \cup Apk

ASSUME RunAssumption ==
  /\ Before \in [FrameworkFile -> SUBSET FrameworkFile]
  /\ Unwanted \subseteq FrameworkFile /\ DBErrors \subseteq AllFiles
  /\ {Retry, CanCancel, CanCrash, CanError} \subseteq BOOLEAN

VARIABLES
  phase,      \* where pull() is; "idle" when no process runs
  cancelled,  \* the flag of the TaskCanceller of this process
  at,         \* where the work on each file is in the current phase
  first,      \* history: framework files handled in this run
  status,     \* the row: none, one without an attempt, one with, a success
  file,       \* the copy of each file on the host
  smali,      \* the smali output of each file
  completed   \* progress of Prereq::PullAndDecompile

memory == <<phase, cancelled, at, first>>
disk   == <<status, file, smali, completed>>
vars   == <<memory, disk>>

Phases == {"idle", "start", "framework", "between", "apks", "save"}
Active == {"pull", "decompile", "failed", "succeeded"}
Ended  == {"won", "lost", "passed"}
Status == {"unknown", "listed", "tried", "decompiled"}

TypeOK ==
  /\ phase \in Phases
  /\ cancelled \in BOOLEAN
  /\ at \in [AllFiles -> {"todo"} \cup Active \cup Ended]
  /\ first \subseteq FrameworkFile
  /\ status \in [AllFiles -> Status]
  /\ file \in [AllFiles -> FileState]
  /\ smali \in [AllFiles -> SmaliState]
  /\ completed \in BOOLEAN

-------------------------------------------------------------------------------
NothingDone == [p \in AllFiles |-> "todo"]

Init ==
  /\ phase = "idle"
  /\ cancelled = FALSE
  /\ at = NothingDone
  /\ first = {}
  /\ status = [p \in AllFiles |-> "unknown"]
  /\ file = [p \in AllFiles |-> "absent"]
  /\ smali = [p \in AllFiles |-> "nothing"]
  /\ completed = FALSE

(* pull() returns: the process ends.                                       *)
Exit ==
  /\ phase' = "idle"
  /\ cancelled' = FALSE
  /\ at' = NothingDone
  /\ first' = {}

(* pull(): a completed pull is not started again, unless it is retried.    *)
Start ==
  /\ phase = "idle"
  /\ ~completed \/ Retry
  /\ phase' = "start"
  /\ UNCHANGED <<cancelled, at, first, disk>>

Cancel ==
  /\ CanCancel /\ phase # "idle" /\ ~cancelled
  /\ cancelled' = TRUE
  /\ UNCHANGED <<phase, at, first, disk>>

Busy == {p \in AllFiles : at[p] \in Active}

(* The process is killed: a pull leaves part of the file, a decompilation  *)
(* part of its output.                                                     *)
Crash ==
  /\ CanCrash /\ phase # "idle"
  /\ Exit
  /\ \E torn \in SUBSET Busy :
       /\ file' = [p \in AllFiles |->
                     IF p \in torn /\ at[p] = "pull" THEN "broken" ELSE file[p]]
       /\ smali' = [p \in AllFiles |->
                      IF p \in torn /\ at[p] = "decompile" /\ file[p] = "whole"
                      THEN "some" ELSE smali[p]]
  /\ UNCHANGED <<status, completed>>

-------------------------------------------------------------------------------
(* Pull::run.                                                              *)

(* Fault: run() does not look at the flag between its phases.              *)
ToApksUnchecked ==
  /\ phase = "between"
  /\ phase' = "apks" /\ at' = NothingDone
  /\ UNCHANGED <<cancelled, first, disk>>

ToFramework ==
  /\ phase = "start"
  /\ IF cancelled THEN Exit
     ELSE phase' = "framework" /\ UNCHANGED <<cancelled, at, first>>
  /\ UNCHANGED disk

ToApks ==
  /\ phase = "between"
  /\ IF cancelled THEN Exit
     ELSE phase' = "apks" /\ at' = NothingDone /\ UNCHANGED <<cancelled, first>>
  /\ UNCHANGED disk

(* What comes before a file: its group is handled in order.                *)
InFront(p) == IF phase = "framework" THEN Before[p] ELSE {}
Unbegun(p) == \A q \in InFront(p) \cup {p} : at[q] = "todo"

(* A phase is over when its files are; after a cancellation when the work  *)
(* and the groups that were begun are.                                     *)
Over(files) ==
  /\ Busy = {}
  /\ \A p \in files : at[p] \in Ended \/ (cancelled /\ Unbegun(p))

(* pull_framework succeeds once its search did.                            *)
EndFramework ==
  /\ phase = "framework"
  /\ Over(FrameworkFile)
  /\ phase' = "between"
  /\ UNCHANGED <<cancelled, at, first, disk>>

(* Fault: the progress is recorded although a phase failed.                *)
FailPhaseSaved ==
  /\ CanError /\ phase \in {"framework", "apks"} /\ Busy = {}
  /\ phase' = "save"
  /\ UNCHANGED <<cancelled, at, first, disk>>

(* The search of a phase fails, that of the framework phase before any     *)
(* work; or the progress cannot be written: run() returns the error.       *)
FailPhase ==
  /\ CanError /\ phase \in {"framework", "apks", "save"} /\ Busy = {}
  /\ phase = "framework" => at = NothingDone
  /\ Exit
  /\ UNCHANGED disk

(* pull_apks is an error after a cancellation that its search noticed.     *)
EndApks ==
  /\ phase = "apks"
  /\ Over(Apk)
  /\ \/ phase' = "save" /\ UNCHANGED <<cancelled, at, first>>
     \/ cancelled /\ Helper = "fsdump" /\ Exit
  /\ UNCHANGED disk

Save ==
  /\ phase = "save"
  /\ Exit
  /\ completed' = TRUE
  /\ UNCHANGED <<status, file, smali>>

-------------------------------------------------------------------------------
(* The work on one file, by the worker that has it.                        *)

FilesOfPhase ==
  CASE phase = "framework" -> FrameworkFile [] phase = "apks" -> Apk [] OTHER -> {}

Move(p, to) == at' = [at EXCEPT ![p] = to]

Handled(p) == first' = IF phase = "framework" THEN first \cup {p} ELSE first

(* A file of its own is taken up unless the run is cancelled, one with     *)
(* others in front of it when those are through.                           *)
Turn(p) ==
  /\ p \in FilesOfPhase /\ at[p] = "todo"
  /\ IF InFront(p) = {} THEN ~cancelled ELSE \A q \in InFront(p) : at[q] \in Ended

(* A worker makes sure that there is a row and pulls the file unless a     *)
(* copy exists.                                                            *)
Take(p) ==
  /\ status' = [status EXCEPT ![p] = IF @ = "unknown" THEN "listed" ELSE @]
  /\ Move(p, IF file[p] = "absent" THEN "pull" ELSE "decompile")

(* Fault: a file that is decompiled is worked on again.                    *)
BeginAgain(p) ==
  /\ Turn(p) /\ Take(p)
  /\ UNCHANGED <<phase, cancelled, first, file, smali, completed>>

(* The turn of a file.  It is passed over behind a success of its group,   *)
(* and as a vdex that is not wanted; it is left with a line in the log     *)
(* when its row cannot be read or created; a success of an earlier run is  *)
(* one of this run; otherwise it is worked on.                             *)
Begin(p) ==
  /\ Turn(p)
  /\ LET leave(how) == Move(p, how) /\ Handled(p) /\ UNCHANGED status IN
     IF \E q \in InFront(p) : at[q] = "won" THEN leave("passed")
     ELSE IF phase = "framework" /\ p \in Unwanted THEN leave("lost")
     ELSE \/ p \in DBErrors /\ leave("lost")
          \/ status[p] = "decompiled" /\ leave("won")
          \/ status[p] # "decompiled" /\ Take(p) /\ UNCHANGED first
  /\ UNCHANGED <<phase, cancelled, file, smali, completed>>

Pull(p) ==
  /\ at[p] = "pull"
  /\ \E o \in PullOutcomes(file[p]) :
       /\ file' = [file EXCEPT ![p] = o.file]
       /\ Move(p, IF o.ok THEN "decompile" ELSE "failed")
  /\ UNCHANGED <<phase, cancelled, first, status, smali, completed>>

Outcomes(p) ==
  IF p \in FrameworkFile THEN FileOutcomes("jar", file[p], smali[p])
                         ELSE DecompileOutcomes(file[p], smali[p])

Decompile(p) ==
  /\ at[p] = "decompile"
  /\ \E o \in Outcomes(p) :
       /\ smali' = [smali EXCEPT ![p] = o.smali]
       /\ Move(p, IF o.success THEN "succeeded" ELSE "failed")
  /\ UNCHANGED <<phase, cancelled, first, status, file, completed>>

(* The row is written and the worker goes on with another file; a success  *)
(* whose row cannot be written counts as none.                             *)
Record(p) ==
  /\ at[p] \in {"failed", "succeeded"}
  /\ \/ /\ status' = [status EXCEPT ![p] =
                         IF at[p] = "succeeded" THEN "decompiled" ELSE "tried"]
        /\ Move(p, IF at[p] = "succeeded" THEN "won" ELSE "lost")
     \/ p \in DBErrors /\ Move(p, "lost") /\ UNCHANGED status
  /\ Handled(p)
  /\ UNCHANGED <<phase, cancelled, file, smali, completed>>

Work(p) == Begin(p) \/ Pull(p) \/ Decompile(p) \/ Record(p)

Run ==
  ToFramework \/ EndFramework \/ ToApks \/ EndApks \/ Save

Next ==
  \/ Start \/ Cancel \/ Crash \/ FailPhase \/ Run
  \/ \E p \in AllFiles : Work(p)

Spec == Init /\ [][Next]_vars

-------------------------------------------------------------------------------
(* Properties.                                                             *)

(* What one run decompiled no later run touches: neither its row nor its   *)
(* copy nor its smali.                                                     *)
NoRework ==
  [][\A p \in AllFiles : status[p] = "decompiled" =>
       <<status[p], file[p], smali[p]>>' = <<status[p], file[p], smali[p]>>]_vars

(* No APK is decompiled in a run that did not come through every framework *)
(* file before: apktool needs them all installed.  A cancellation in the   *)
(* framework phase, which ends that phase early with success, does not let *)
(* the run go on to the APKs.                                              *)
FrameworksFirst == phase = "apks" => first = FrameworkFile

(* A file was attempted; or it need not be, as an alternative in front of  *)
(* it succeeded or it is a vdex that is not wanted; or its row could not   *)
(* be read or written.                                                     *)
Dealt(p) ==
  \/ status[p] \in {"tried", "decompiled"}
  \/ p \in FrameworkFile /\ \E q \in Before[p] : status[q] = "decompiled"
  \/ p \in Unwanted \cup DBErrors

(* A run that was not cancelled records the progress only over files that  *)
(* were attempted, whatever failed, in this run and those before, with the *)
(* exceptions that Dealt names.  The last of them is a gap of the code: a  *)
(* failure of the database for one file is logged, the run goes on, and no *)
(* later run without --retry takes the file up.                            *)
RecordedMeansAttempted ==
  [][completed' /\ ~completed /\ ~cancelled => \A p \in AllFiles : Dealt(p)]_vars

===============================================================================
