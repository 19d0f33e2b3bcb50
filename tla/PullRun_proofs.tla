----------------------------- MODULE PullRun_proofs -----------------------------
(***************************************************************************)
(* Proofs about PullRun: any number of runs over any files, with crashes,  *)
(* cancellations and failed phases anywhere.                               *)
(***************************************************************************)
EXTENDS PullRun, TLAPS

-------------------------------------------------------------------------------
(* What a pull and a decompilation can leave.                              *)

LEMMA PullLeaves ==
  ASSUME NEW before \in FileState, NEW o \in PullOutcomes(before)
  PROVE  o.file \in FileState
<1>1. CASE \E f \in {before, "broken"} : o = [ok |-> FALSE, file |-> f]
  BY <1>1 DEF FileState
<1>2. CASE o = [ok |-> TRUE, file |-> "whole"]
  BY <1>2 DEF FileState
<1>3. CASE o = [ok |-> TRUE, file |-> "broken"]
  BY <1>3 DEF FileState
<1> QED
  BY <1>1, <1>2, <1>3 DEF PullOutcomes

LEMMA DecompileLeaves ==
  ASSUME NEW p, smali[p] \in SmaliState, NEW o \in Outcomes(p)
  PROVE  o.smali \in SmaliState
<1>1. \A s \in {smali[p], "some"}, b \in BOOLEAN :
        /\ [success |-> b, smali |-> s].smali \in SmaliState
        /\ [success |-> b, smali |-> "all"].smali \in SmaliState
        /\ [success |-> b, smali |-> smali[p]].smali \in SmaliState
  BY DEF SmaliState
<1>2. o \in FileOutcomes("jar", file[p], smali[p]) => o.smali \in SmaliState
  BY <1>1 DEF FileOutcomes
<1>3. o \in DecompileOutcomes(file[p], smali[p]) => o.smali \in SmaliState
  BY <1>1 DEF DecompileOutcomes
<1> QED
  BY <1>2, <1>3 DEF Outcomes

-------------------------------------------------------------------------------
(* The invariant.  At most one phase works at a time, on its own files; a  *)
(* file that is worked on is open, one that ended was dealt with, and the  *)
(* winner of a group is recorded; what a phase handed on to the next is    *)
(* complete unless the run is cancelled.                                   *)

WorkOfPhase == \A p \in AllFiles : at[p] \in Active => p \in FilesOfPhase
HeldIsOpen  == \A p \in AllFiles : at[p] \in Active => status[p] \in {"listed", "tried"}
WonIsKept   == \A p \in AllFiles : at[p] = "won" => status[p] = "decompiled"
EndedDealt  == \A p \in AllFiles : at[p] \in Ended => Dealt(p)
FirstDealt  == \A p \in first : Dealt(p)
FreshStart  == phase \in {"idle", "start"} => at = NothingDone
EndedFirst  == phase = "framework" => \A p \in AllFiles : at[p] \in Ended => p \in first
HandedOn ==
  /\ phase = "between" => cancelled \/ first = FrameworkFile
  /\ phase = "apks" => first = FrameworkFile
  /\ phase = "save" => cancelled \/ \A p \in AllFiles : Dealt(p)

Journal ==
  /\ TypeOK /\ WorkOfPhase /\ HeldIsOpen /\ WonIsKept /\ EndedDealt
  /\ FirstDealt /\ FreshStart /\ EndedFirst /\ HandedOn

(* What is on the disk stays well typed.                                   *)
DiskOK ==
  /\ status \in [AllFiles -> Status]
  /\ file \in [AllFiles -> FileState]
  /\ smali \in [AllFiles -> SmaliState]
  /\ completed \in BOOLEAN

(* A process that ended left nothing in memory.                            *)
LEMMA Exits ==
  ASSUME Exit, DiskOK'
  PROVE  Journal'
<1>1. \A p \in AllFiles : at'[p] = "todo"
  BY DEF Exit, NothingDone
<1>2. phase' = "idle" /\ first' = {} /\ at' = NothingDone /\ cancelled' = FALSE
  BY DEF Exit
<1>3. TypeOK'
  BY <1>2 DEF TypeOK, DiskOK, Phases, NothingDone
<1> QED
  BY <1>1, <1>2, <1>3 DEF Journal, WorkOfPhase, HeldIsOpen, WonIsKept, EndedDealt, FirstDealt, FreshStart,
     EndedFirst, HandedOn, Active, Ended, NothingDone

-------------------------------------------------------------------------------
(* The steps of Pull::run.                                                 *)

LEMMA RunSteps ==
  ASSUME Journal, Start \/ Cancel \/ FailPhase \/ Run \/ UNCHANGED vars
  PROVE  Journal'
<1> USE DEF Journal
<1>0. DiskOK
  BY DEF TypeOK, DiskOK
<1>1. CASE Start
  <2>1. UNCHANGED <<cancelled, at, first, status, file, smali, completed>>
    BY <1>1 DEF Start, disk
  <2>2. phase = "idle" /\ phase' = "start"
    BY <1>1 DEF Start
  <2> QED
    BY <2>1, <2>2 DEF TypeOK, WorkOfPhase, HeldIsOpen, WonIsKept, EndedDealt, FirstDealt, FreshStart,
       EndedFirst, HandedOn, FilesOfPhase, Phases, Dealt
<1>2. CASE Cancel
  <2>1. UNCHANGED <<phase, at, first, status, file, smali, completed>> /\ cancelled' = TRUE
    BY <1>2 DEF Cancel, disk
  <2> QED
    BY <2>1 DEF TypeOK, WorkOfPhase, HeldIsOpen, WonIsKept, EndedDealt, FirstDealt, FreshStart,
       EndedFirst, HandedOn, FilesOfPhase, Dealt
<1>3. CASE FailPhase
  BY <1>0, <1>3, Exits DEF FailPhase, DiskOK, disk
<1>4. CASE ToFramework
  <2>1. CASE cancelled
    BY <1>0, <1>4, <2>1, Exits DEF ToFramework, DiskOK, disk
  <2>2. CASE ~cancelled
    <3>1. phase = "start" /\ phase' = "framework"
      BY <1>4, <2>2 DEF ToFramework
    <3>2. UNCHANGED <<cancelled, at, first, status, file, smali, completed>>
      BY <1>4, <2>2 DEF ToFramework, disk
    <3>3. \A p \in AllFiles : at'[p] = "todo"
      BY <3>1, <3>2 DEF FreshStart, NothingDone
    <3> QED
      BY <3>1, <3>2, <3>3 DEF TypeOK, WorkOfPhase, HeldIsOpen, WonIsKept, EndedDealt, FirstDealt,
         FreshStart, EndedFirst, HandedOn, Phases, Active, Ended, Dealt
  <2> QED
    BY <2>1, <2>2
<1>5. CASE EndFramework
  <2>1. phase = "framework" /\ phase' = "between" /\ Over(FrameworkFile)
    BY <1>5 DEF EndFramework
  <2>2. UNCHANGED <<cancelled, at, first, status, file, smali, completed>>
    BY <1>5 DEF EndFramework, disk
  <2>3. \A p \in AllFiles : at[p] \notin Active
    BY <2>1 DEF Over, Busy
  <2>4. cancelled \/ FrameworkFile \subseteq first
    BY <2>1 DEF Over, EndedFirst, AllFiles
  <2>5. first \subseteq FrameworkFile
    BY DEF TypeOK
  <2> QED
    BY <2>1, <2>2, <2>3, <2>4, <2>5 DEF TypeOK, WorkOfPhase, HeldIsOpen, WonIsKept, EndedDealt, FirstDealt,
       FreshStart, EndedFirst, HandedOn, Phases, Dealt
<1>6. CASE ToApks
  <2>1. CASE cancelled
    BY <1>0, <1>6, <2>1, Exits DEF ToApks, DiskOK, disk
  <2>2. CASE ~cancelled
    <3>1. phase = "between" /\ phase' = "apks" /\ at' = NothingDone
      BY <1>6, <2>2 DEF ToApks
    <3>2. UNCHANGED <<cancelled, first, status, file, smali, completed>>
      BY <1>6, <2>2 DEF ToApks, disk
    <3>3. \A p \in AllFiles : at'[p] = "todo"
      BY <3>1 DEF NothingDone
    <3>4. at' \in [AllFiles -> {"todo"} \cup Active \cup Ended]
      BY <3>1 DEF NothingDone
    <3>5. first' = FrameworkFile
      BY <2>2, <3>1, <3>2 DEF HandedOn
    <3> QED
      BY <3>1, <3>2, <3>3, <3>4, <3>5 DEF TypeOK, WorkOfPhase, HeldIsOpen, WonIsKept, EndedDealt, FirstDealt,
         FreshStart, EndedFirst, HandedOn, Phases, Active, Ended, Dealt
  <2> QED
    BY <2>1, <2>2
<1>7. CASE EndApks
  <2>1. CASE Exit
    BY <1>0, <1>7, <2>1, Exits DEF EndApks, DiskOK, disk
  <2>2. CASE phase' = "save" /\ UNCHANGED <<cancelled, at, first>>
    <3>1. phase = "apks" /\ Over(Apk)
      BY <1>7 DEF EndApks
    <3>2. UNCHANGED <<status, file, smali, completed>>
      BY <1>7 DEF EndApks, disk
    <3>3. \A p \in AllFiles : at[p] \notin Active
      BY <3>1 DEF Over, Busy
    <3>4. cancelled \/ \A p \in AllFiles : Dealt(p)
      BY <3>1 DEF Over, EndedDealt, HandedOn, FirstDealt, AllFiles
    <3> QED
      BY <2>2, <3>1, <3>2, <3>3, <3>4 DEF TypeOK, WorkOfPhase, HeldIsOpen, WonIsKept, EndedDealt, FirstDealt,
         FreshStart, EndedFirst, HandedOn, Phases, Dealt
  <2> QED
    BY <1>7, <2>1, <2>2 DEF EndApks
<1>8. CASE Save
  BY <1>0, <1>8, Exits DEF Save, DiskOK
<1>9. CASE UNCHANGED vars
  BY <1>9 DEF TypeOK, WorkOfPhase, HeldIsOpen, WonIsKept, EndedDealt, FirstDealt, FreshStart,
     EndedFirst, HandedOn, FilesOfPhase, Dealt, vars, memory, disk
<1> QED
  BY <1>1, <1>2, <1>3, <1>4, <1>5, <1>6, <1>7, <1>8, <1>9 DEF Run

(* A kill leaves broken copies and parts of smali trees, and no memory.    *)
LEMMA CrashSteps ==
  ASSUME Journal, Crash
  PROVE  Journal'
<1>1. PICK torn \in SUBSET Busy :
        /\ file' = [p \in AllFiles |->
                      IF p \in torn /\ at[p] = "pull" THEN "broken" ELSE file[p]]
        /\ smali' = [p \in AllFiles |->
                       IF p \in torn /\ at[p] = "decompile" /\ file[p] = "whole"
                       THEN "some" ELSE smali[p]]
  BY DEF Crash
<1>2. file' \in [AllFiles -> FileState] /\ smali' \in [AllFiles -> SmaliState]
  BY <1>1 DEF Journal, TypeOK, FileState, SmaliState
<1>3. DiskOK'
  BY <1>2 DEF Crash, DiskOK, Journal, TypeOK
<1> QED
  BY <1>3, Exits DEF Crash

-------------------------------------------------------------------------------
(* The work on one file.                                                   *)

(* Rows only get better, and what was dealt with stays so.                 *)
LEMMA DealtKept ==
  ASSUME NEW p \in AllFiles, status[p] = "decompiled" => status'[p] = "decompiled",
         \A q \in AllFiles \ {p} : status'[q] = status[q],
         status[p] = "tried" => status'[p] \in {"tried", "decompiled"}
  PROVE  \A q \in AllFiles : Dealt(q) => Dealt(q)'
<1>1. \A q \in AllFiles : /\ status[q] = "decompiled" => status'[q] = "decompiled"
                          /\ status[q] = "tried" => status'[q] \in {"tried", "decompiled"}
  OBVIOUS
<1>2. \A q \in FrameworkFile : Before[q] \subseteq AllFiles
  BY RunAssumption DEF AllFiles
<1> QED
  BY <1>1, <1>2 DEF Dealt

(* What a step of the work on a file does to the file.                     *)
LEMMA WorkOnFile ==
  ASSUME Journal, NEW p \in AllFiles, Work(p)
  PROVE  /\ at'[p] \in Active \cup Ended /\ status'[p] \in Status
         /\ at' \in [AllFiles -> {"todo"} \cup Active \cup Ended]
         /\ status' \in [AllFiles -> Status]
         /\ at'[p] \in Active => status'[p] \in {"listed", "tried"}
         /\ at'[p] = "won" => status'[p] = "decompiled"
         /\ at'[p] \in Ended => Dealt(p)'
         /\ status[p] = "decompiled" => status'[p] = "decompiled"
         /\ status[p] = "tried" => status'[p] \in {"tried", "decompiled"}
         /\ \A q \in AllFiles \ {p} : at'[q] = at[q] /\ status'[q] = status[q]
         /\ first' = first \/ (at'[p] \in Ended /\ first' = first \cup {p} /\ phase = "framework")
         /\ at'[p] \in Ended /\ phase = "framework" => p \in first'
<1> USE DEF Journal
<1>1. /\ at \in [AllFiles -> {"todo"} \cup Active \cup Ended]
      /\ status \in [AllFiles -> Status]
  BY DEF TypeOK
<1>2. CASE /\ \E how \in {"won", "lost", "passed"} : Move(p, how)
           /\ Handled(p) /\ UNCHANGED status
           /\ at'[p] = "won" => status[p] = "decompiled"
           /\ Dealt(p)
  <2>1. PICK how \in {"won", "lost", "passed"} : Move(p, how)
    BY <1>2
  <2>2. /\ at'[p] = how /\ \A q \in AllFiles \ {p} : at'[q] = at[q]
        /\ at' \in [AllFiles -> {"todo"} \cup Active \cup Ended]
    BY <1>1, <2>1 DEF Move, Ended
  <2>3. how \in Ended /\ how \notin Active
    BY DEF Ended, Active
  <2>4. Dealt(p)'
    BY <1>2 DEF Dealt
  <2> QED
    BY <1>1, <1>2, <2>2, <2>3, <2>4 DEF Handled
<1>3. CASE Take(p) /\ status[p] # "decompiled" /\ UNCHANGED first
  <2>1. \E to \in {"pull", "decompile"} : Move(p, to)
    BY <1>3 DEF Take
  <2>2. /\ at'[p] \in {"pull", "decompile"} /\ \A q \in AllFiles \ {p} : at'[q] = at[q]
        /\ at' \in [AllFiles -> {"todo"} \cup Active \cup Ended]
    BY <1>1, <2>1 DEF Move, Active
  <2>3. /\ status'[p] = IF status[p] = "unknown" THEN "listed" ELSE status[p]
        /\ \A q \in AllFiles \ {p} : status'[q] = status[q]
        /\ status' \in [AllFiles -> Status]
    BY <1>1, <1>3 DEF Take, Status
  <2>4. at'[p] \in Active /\ at'[p] \notin Ended /\ at'[p] # "won"
    BY <2>2 DEF Active, Ended
  <2> QED
    BY <1>1, <1>3, <2>2, <2>3, <2>4 DEF Status
<1>4. CASE Begin(p)
  <2>0. p \in FilesOfPhase /\ (phase = "framework" => p \in FrameworkFile)
    BY <1>4 DEF Begin, Turn, FilesOfPhase
  <2>1. CASE (\E q \in InFront(p) : at[q] = "won") /\ Move(p, "passed") /\ Handled(p)
             /\ UNCHANGED status
    <3>1. PICK q \in InFront(p) : at[q] = "won"
      BY <2>1
    <3>2. phase = "framework" /\ q \in Before[p] /\ q \in AllFiles
      BY <2>0, <3>1, RunAssumption DEF InFront, AllFiles
    <3>3. Dealt(p)
      BY <2>0, <3>1, <3>2 DEF Dealt, WonIsKept
    <3>4. at'[p] # "won"
      BY <1>1, <2>1 DEF Move
    <3> QED
      BY <1>2, <2>1, <3>3, <3>4
  <2>2. CASE p \in Unwanted \cup DBErrors /\ Move(p, "lost") /\ Handled(p) /\ UNCHANGED status
    <3>1. Dealt(p) /\ at'[p] # "won"
      BY <1>1, <2>2 DEF Move, Dealt
    <3> QED
      BY <1>2, <2>2, <3>1
  <2>3. CASE status[p] = "decompiled" /\ Move(p, "won") /\ Handled(p) /\ UNCHANGED status
    <3>1. Dealt(p)
      BY <2>3 DEF Dealt
    <3> QED
      BY <1>2, <2>3, <3>1
  <2> QED
    BY <1>3, <1>4, <2>1, <2>2, <2>3 DEF Begin
<1>5. CASE Pull(p) \/ Decompile(p)
  <2>1. /\ \E to \in Active : Move(p, to)
        /\ UNCHANGED <<status, first>> /\ at[p] \in Active
    BY <1>5 DEF Pull, Decompile, Active
  <2>2. /\ at'[p] \in Active /\ \A q \in AllFiles \ {p} : at'[q] = at[q]
        /\ at' \in [AllFiles -> {"todo"} \cup Active \cup Ended]
    BY <1>1, <2>1 DEF Move
  <2>3. at'[p] \notin Ended /\ at'[p] # "won"
    BY <2>2 DEF Active, Ended
  <2> QED
    BY <1>1, <2>1, <2>2, <2>3 DEF HeldIsOpen
<1>6. CASE Record(p)
  <2>0. at[p] \in {"failed", "succeeded"} /\ Handled(p) /\ status[p] # "decompiled"
    BY <1>6 DEF Record, HeldIsOpen, Active
  <2>1. CASE /\ status' = [status EXCEPT ![p] =
                             IF at[p] = "succeeded" THEN "decompiled" ELSE "tried"]
             /\ Move(p, IF at[p] = "succeeded" THEN "won" ELSE "lost")
    <3>1. /\ at'[p] \in {"won", "lost"} /\ (at'[p] = "won" => at[p] = "succeeded")
          /\ \A q \in AllFiles \ {p} : at'[q] = at[q]
          /\ at' \in [AllFiles -> {"todo"} \cup Active \cup Ended]
      BY <1>1, <2>1 DEF Move, Ended
    <3>2. /\ status'[p] \in {"tried", "decompiled"}
          /\ at[p] = "succeeded" => status'[p] = "decompiled"
          /\ \A q \in AllFiles \ {p} : status'[q] = status[q]
          /\ status' \in [AllFiles -> Status]
      BY <1>1, <2>1 DEF Status
    <3>3. at'[p] \in Ended /\ at'[p] \notin Active /\ status'[p] \in Status
      BY <3>1, <3>2 DEF Ended, Active, Status
    <3>4. Dealt(p)'
      BY <3>2 DEF Dealt
    <3> QED
      BY <2>0, <3>1, <3>2, <3>3, <3>4 DEF Handled
  <2>2. CASE p \in DBErrors /\ Move(p, "lost") /\ UNCHANGED status
    <3>1. Dealt(p) /\ at'[p] # "won"
      BY <1>1, <2>2 DEF Move, Dealt
    <3> QED
      BY <1>2, <2>0, <2>2, <3>1
  <2> QED
    BY <1>6, <2>1, <2>2 DEF Record
<1> QED
  BY <1>4, <1>5, <1>6 DEF Work

LEMMA WorkSteps ==
  ASSUME Journal, NEW p \in AllFiles, Work(p)
  PROVE  Journal'
<1> USE DEF Journal
<1>1. UNCHANGED <<phase, cancelled, completed>>
  BY DEF Work, Begin, Pull, Decompile, Record
<1>2. p \in FilesOfPhase /\ phase \in {"framework", "apks"}
  BY DEF Work, Begin, Turn, Pull, Decompile, Record, WorkOfPhase, Active, FilesOfPhase
<1>3. \A q \in AllFiles : Dealt(q) => Dealt(q)'
  BY WorkOnFile, DealtKept
<1>4. file' \in [AllFiles -> FileState]
  <2>1. CASE Pull(p)
    BY <2>1, PullLeaves DEF Pull, TypeOK
  <2> QED
    BY <2>1 DEF Work, Begin, Decompile, Record, TypeOK
<1>5. smali' \in [AllFiles -> SmaliState]
  <2>1. CASE Decompile(p)
    BY <2>1, DecompileLeaves DEF Decompile, TypeOK
  <2> QED
    BY <2>1 DEF Work, Begin, Pull, Record, TypeOK
<1>6. first' \subseteq FrameworkFile
  BY <1>2, WorkOnFile DEF TypeOK, FilesOfPhase
<1>7. TypeOK'
  BY <1>1, <1>4, <1>5, <1>6, WorkOnFile DEF TypeOK
<1>8. WorkOfPhase' /\ HeldIsOpen' /\ WonIsKept'
  BY <1>1, <1>2, WorkOnFile DEF WorkOfPhase, HeldIsOpen, WonIsKept, FilesOfPhase
<1>9. EndedDealt'
  BY <1>3, WorkOnFile DEF EndedDealt
<1>10. FirstDealt'
  BY <1>3, WorkOnFile DEF FirstDealt, TypeOK, AllFiles
<1>11. FreshStart' /\ EndedFirst'
  BY <1>1, <1>2, WorkOnFile DEF FreshStart, EndedFirst
<1>12. HandedOn'
  BY <1>1, <1>2, <1>6, WorkOnFile DEF HandedOn
<1> QED
  BY <1>7, <1>8, <1>9, <1>10, <1>11, <1>12

-------------------------------------------------------------------------------
(* Every state of a sequence of runs is well typed, and what the journal   *)
(* of the runs is relied on for holds.                                     *)
THEOREM Typing == Spec => []TypeOK /\ []Journal
<1>1. Init => Journal
  <2> SUFFICES ASSUME Init PROVE Journal
    OBVIOUS
  <2>1. TypeOK
    BY DEF Init, TypeOK, Phases, NothingDone, Status, FileState, SmaliState
  <2>2. \A p \in AllFiles : at[p] = "todo"
    BY DEF Init, NothingDone
  <2> QED
    BY <2>1, <2>2 DEF Init, Journal, WorkOfPhase, HeldIsOpen, WonIsKept, EndedDealt, FirstDealt,
       FreshStart, EndedFirst, HandedOn, Active, Ended
<1>2. Journal /\ [Next]_vars => Journal'
  BY RunSteps, CrashSteps, WorkSteps DEF Next
<1>3. Journal => TypeOK
  BY DEF Journal
<1> QED
  BY <1>1, <1>2, <1>3, PTL DEF Spec

(* No APK is worked on in a run that did not handle every framework file   *)
(* before, whatever was cancelled in the framework phase.                  *)
THEOREM OrderOfPhases == Spec => []FrameworksFirst
<1>1. Journal => FrameworksFirst
  BY DEF Journal, HandedOn, FrameworksFirst
<1> QED
  BY <1>1, Typing, PTL

(* What one run decompiled no later run, kill or failure touches.          *)
THEOREM DoneOnce == Spec => NoRework
<1> DEFINE Kept == \A p \in AllFiles : status[p] = "decompiled" =>
         <<status[p], file[p], smali[p]>>' = <<status[p], file[p], smali[p]>>
<1>1. Journal /\ [Next]_vars => [Kept]_vars
  <2> SUFFICES ASSUME Journal, Next PROVE Kept
    OBVIOUS
  <2> SUFFICES ASSUME NEW p \in AllFiles, status[p] = "decompiled"
               PROVE  status'[p] = status[p] /\ file'[p] = file[p] /\ smali'[p] = smali[p]
    OBVIOUS
  <2>0. at[p] \notin Active
    BY DEF Journal, HeldIsOpen
  <2>1. CASE Start \/ Cancel \/ FailPhase \/ Run
    BY <2>1 DEF Start, Cancel, FailPhase, Run, ToFramework, EndFramework, ToApks, EndApks, Save, disk
  <2>2. CASE Crash
    BY <2>0, <2>2 DEF Crash, Active
  <2>3. ASSUME NEW q \in AllFiles, Work(q)
        PROVE  status'[p] = status[p] /\ file'[p] = file[p] /\ smali'[p] = smali[p]
    <3>1. CASE q = p
      BY <2>0, <2>3, <3>1 DEF Work, Begin, Pull, Decompile, Record, Active
    <3>2. CASE q # p
      <4>1. status'[p] = status[p]
        BY <2>3, <3>2, WorkOnFile
      <4>2. file'[p] = file[p] /\ smali'[p] = smali[p]
        BY <2>3, <3>2 DEF Work, Begin, Pull, Decompile, Record, Journal, TypeOK
      <4> QED
        BY <4>1, <4>2
    <3> QED
      BY <3>1, <3>2
  <2> QED
    BY <2>1, <2>2, <2>3 DEF Next
<1> QED
  BY <1>1, Typing, PTL DEF Spec, NoRework

(* Only a run that was cancelled records the progress over a file that was *)
(* not dealt with: the files recorded over without an attempt are those    *)
(* behind a success of their group, the vdex files that are not wanted and *)
(* those whose rows the database failed to give or to take.                *)
THEOREM RecordIsTrue == Spec => RecordedMeansAttempted
<1> DEFINE True == completed' /\ ~completed /\ ~cancelled => \A p \in AllFiles : Dealt(p)
<1>1. Journal /\ [Next]_vars => [True]_vars
  <2> SUFFICES ASSUME Journal, Next, completed', ~completed, ~cancelled
               PROVE  \A p \in AllFiles : Dealt(p)
    OBVIOUS
  <2>1. Save
    BY DEF Next, Start, Cancel, Crash, FailPhase, Run, ToFramework, EndFramework, ToApks, EndApks,
       Work, Begin, Pull, Decompile, Record, disk
  <2> QED
    BY <2>1 DEF Save, Journal, HandedOn
<1> QED
  BY <1>1, Typing, PTL DEF Spec, RecordedMeansAttempted

===============================================================================
