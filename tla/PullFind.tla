------------------------------- MODULE PullFind -------------------------------
(***************************************************************************)
(* Pull::find_applicable_framework_files: the calling thread lists the     *)
(* framework directories, a second thread walks each of them, a third one  *)
(* collects the files into a list of APKs and groups of files with the     *)
(* same name.  Two bounded channels connect them, and a cancel flag can be *)
(* raised at any time.                                                     *)
(***************************************************************************)
EXTENDS PullStatus, Sequences, FiniteSets

CONSTANTS
  Dir,          \* directories of the device
  File,         \* files of the device
  Kind,         \* the FrameworkFileType of each file
  Name,         \* the name of each file without `boot-` and its extension
  DirListing,   \* what each search for directories prints
  FilesIn,      \* what the walk of each directory prints
  Wanted,       \* files of a known type that are not other apps' APKs
  DirCapacity,  \* bound of the directory channel (4 in the code)
  FileCapacity, \* bound of the file channel (16 in the code)
  CanCancel     \* whether the user may cancel

Jar == 0   VDex == 1   Dex == 2   Apex == 3   Apk == 255
Kinds == {Jar, VDex, Dex, Apex, Apk}

ASSUME FindAssumption ==
  /\ Kind \in [File -> Kinds]
  /\ DirListing \in Seq(Seq(Dir))
  /\ FilesIn \in [Dir -> Seq(File)]
  /\ Wanted \subseteq File
  /\ DirCapacity \in Nat \ {0}
  /\ FileCapacity \in Nat \ {0}
  /\ CanCancel \in BOOLEAN

VARIABLES
  cancelled,   \* the flag of the TaskCanceller
  lister,      \* the calling thread, in find_framework_dirs
  dirChan,     \* directories on their way to the walker
  walker,      \* the thread of start_dir_thread
  fileChan,    \* files on their way to the collector
  collector,   \* the thread of start_file_thread
  apks,        \* its framework_apks
  groups,      \* its file_map: sequences of files by directory and name
  result       \* what find_applicable_framework_files returned

vars == <<cancelled, lister, dirChan, walker, fileChan, collector, apks, groups,
          result>>

-------------------------------------------------------------------------------
(* A file on the channel remembers the directory it was found in.          *)
Found == [file: File, dir: Dir]
Key(found) == <<found.dir, Name[found.file]>>

(* A thread that returned, with or without an error, has dropped its ends  *)
(* of the channels.                                                        *)
Ended == {"ok", "err"}

CurrentDir == DirListing[lister.cmd][lister.line]
CurrentFile == [file |-> FilesIn[walker.dir][walker.line], dir |-> walker.dir]

ListerState == [pc: {"find", "check", "send"} \cup Ended, cmd: Nat \ {0}, line: Nat \ {0}]
WalkerState == [pc: {"check", "recv"} \cup Ended]
          \cup [pc: {"walk", "sendcheck", "send"}, dir: Dir, line: Nat \ {0}]

TypeOK ==
  /\ cancelled \in BOOLEAN
  /\ lister \in ListerState
  /\ lister.pc \in {"check", "send"} =>
        lister.cmd \in DOMAIN DirListing /\ lister.line \in DOMAIN DirListing[lister.cmd]
  /\ dirChan \in Seq(Dir) /\ Len(dirChan) <= DirCapacity
  /\ walker \in WalkerState
  /\ walker.pc \in {"sendcheck", "send"} => walker.line \in DOMAIN FilesIn[walker.dir]
  /\ fileChan \in Seq(Found) /\ Len(fileChan) <= FileCapacity
  /\ collector \in {"check", "recv"} \cup Ended
  /\ apks \in Seq(File)
  /\ DOMAIN groups \subseteq Dir \X {Name[f] : f \in File}
  /\ \A k \in DOMAIN groups : groups[k] \in Seq(File) \ {<<>>}
  /\ result \in {"none"} \cup Ended

-------------------------------------------------------------------------------
Init ==
  /\ cancelled = FALSE
  /\ lister = [pc |-> "find", cmd |-> 1, line |-> 1]
  /\ dirChan = <<>>
  /\ walker = [pc |-> "check"]
  /\ fileChan = <<>>
  /\ collector = "check"
  /\ apks = <<>>
  /\ groups = <<>>
  /\ result = "none"

Cancel ==
  /\ CanCancel /\ ~cancelled /\ result = "none"
  /\ cancelled' = TRUE
  /\ UNCHANGED <<lister, dirChan, walker, fileChan, collector, apks, groups, result>>

-------------------------------------------------------------------------------
(* The lister.  Each directory printed is sent; the callback ignores that  *)
(* the walker may be gone, and with adb its error after a cancellation     *)
(* only skips the rest of the output of this command.                      *)

ListLine ==
  /\ lister.pc = "find"
  /\ lister.cmd \in DOMAIN DirListing
  /\ lister.line \in DOMAIN DirListing[lister.cmd]
  /\ lister' = [lister EXCEPT !.pc = "check"]
  /\ UNCHANGED dirChan

ListCheck ==
  /\ lister.pc = "check"
  /\ lister' = IF ~cancelled THEN [lister EXCEPT !.pc = "send"]
               ELSE IF Helper = "adb"
               THEN [lister EXCEPT !.pc = "find",
                                   !.line = Len(DirListing[lister.cmd]) + 1]
               ELSE [lister EXCEPT !.pc = "err"]
  /\ UNCHANGED dirChan

(* send_timeout: no receiver, room, or a timeout.                          *)
ListSend ==
  /\ lister.pc = "send"
  /\ \/ /\ walker.pc \in Ended
        /\ lister' = [lister EXCEPT !.pc = "find", !.line = @ + 1]
        /\ UNCHANGED dirChan
     \/ /\ walker.pc \notin Ended /\ Len(dirChan) < DirCapacity
        /\ lister' = [lister EXCEPT !.pc = "find", !.line = @ + 1]
        /\ dirChan' = Append(dirChan, CurrentDir)
     \/ /\ walker.pc \notin Ended /\ Len(dirChan) = DirCapacity
        /\ lister' = [lister EXCEPT !.pc = "check"]
        /\ UNCHANGED dirChan

(* A search ends; with adb it can fail at any point.                       *)
ListEnd ==
  /\ lister.pc = "find"
  /\ lister.cmd \in DOMAIN DirListing
  /\ \/ /\ lister.line > Len(DirListing[lister.cmd])
        /\ lister' = [lister EXCEPT !.cmd = @ + 1, !.line = 1]
     \/ Helper = "adb" /\ lister' = [lister EXCEPT !.pc = "err"]
  /\ UNCHANGED dirChan

ListDone ==
  /\ lister.pc = "find"
  /\ lister.cmd > Len(DirListing)
  /\ lister' = [lister EXCEPT !.pc = "ok"]
  /\ UNCHANGED dirChan

Lister ==
  /\ ListLine \/ ListCheck \/ ListSend \/ ListEnd \/ ListDone
  /\ UNCHANGED <<cancelled, walker, fileChan, collector, apks, groups, result>>

-------------------------------------------------------------------------------
(* The walker: cancelable_recv, then find_files for the directory.         *)

WalkCheck ==
  /\ walker.pc = "check"
  /\ walker' = [pc |-> IF cancelled THEN "err" ELSE "recv"]
  /\ UNCHANGED <<dirChan, fileChan>>

(* recv_timeout: a directory, the end of the channel, or a timeout.        *)
WalkRecv ==
  /\ walker.pc = "recv"
  /\ \/ /\ dirChan # <<>>
        /\ walker' = [pc |-> "walk", dir |-> Head(dirChan), line |-> 1]
        /\ dirChan' = Tail(dirChan)
     \/ /\ dirChan = <<>>
        /\ walker' = [pc |-> IF lister.pc \in Ended THEN "ok" ELSE "check"]
        /\ UNCHANGED dirChan
  /\ UNCHANGED fileChan

(* The callback of find_files drops what is not a framework file.          *)
WalkLine ==
  /\ walker.pc = "walk"
  /\ walker.line \in DOMAIN FilesIn[walker.dir]
  /\ walker' = IF CurrentFile.file \in Wanted
               THEN [walker EXCEPT !.pc = "sendcheck"]
               ELSE [walker EXCEPT !.line = @ + 1]
  /\ UNCHANGED <<dirChan, fileChan>>

(* Fault: the send of a file blocks without looking at the flag or at the  *)
(* timeout.                                                                *)
WalkSendBlocking ==
  /\ walker.pc = "sendcheck"
  /\ Len(fileChan) < FileCapacity
  /\ walker' = [walker EXCEPT !.pc = "walk", !.line = @ + 1]
  /\ fileChan' = Append(fileChan, CurrentFile)
  /\ UNCHANGED dirChan

WalkSendCheck ==
  /\ walker.pc = "sendcheck"
  /\ walker' = IF ~cancelled THEN [walker EXCEPT !.pc = "send"]
               ELSE IF Helper = "adb"
               THEN [walker EXCEPT !.pc = "walk", !.line = Len(FilesIn[walker.dir]) + 1]
               ELSE [pc |-> "err"]
  /\ UNCHANGED <<dirChan, fileChan>>

WalkSend ==
  /\ walker.pc = "send"
  /\ \/ /\ collector \in Ended
        /\ walker' = [walker EXCEPT !.pc = "walk", !.line = @ + 1]
        /\ UNCHANGED fileChan
     \/ /\ collector \notin Ended /\ Len(fileChan) < FileCapacity
        /\ walker' = [walker EXCEPT !.pc = "walk", !.line = @ + 1]
        /\ fileChan' = Append(fileChan, CurrentFile)
     \/ /\ collector \notin Ended /\ Len(fileChan) = FileCapacity
        /\ walker' = [walker EXCEPT !.pc = "sendcheck"]
        /\ UNCHANGED fileChan
  /\ UNCHANGED dirChan

(* The walk of a directory ends; with adb it can fail at any point.  An    *)
(* error ends the thread.                                                  *)
WalkEnd ==
  /\ walker.pc = "walk"
  /\ \/ walker.line > Len(FilesIn[walker.dir]) /\ walker' = [pc |-> "check"]
     \/ Helper = "adb" /\ walker' = [pc |-> "err"]
  /\ UNCHANGED <<dirChan, fileChan>>

Walker ==
  /\ \/ WalkCheck \/ WalkRecv \/ WalkLine \/ WalkSendCheck \/ WalkSend \/ WalkEnd
  /\ UNCHANGED <<cancelled, lister, collector, apks, groups, result>>

-------------------------------------------------------------------------------
(* The collector: on_normed_file_received for each file.                   *)

CollectCheck ==
  /\ collector = "check"
  /\ collector' = IF cancelled THEN "err" ELSE "recv"
  /\ UNCHANGED <<fileChan, apks, groups>>

(* Fault: a file is put at the end of its group.                           *)
PushUnsorted(v, f) == Append(v, f)

(* v.push(f); v.sort(): v is sorted by kind, and the sort is stable.       *)
PushSorted(v, f) ==
  LET n == Cardinality({i \in DOMAIN v : Kind[v[i]] <= Kind[f]})
  IN  SubSeq(v, 1, n) \o <<f>> \o SubSeq(v, n + 1, Len(v))

Received(found) ==
  IF Kind[found.file] = Apk
  THEN apks' = Append(apks, found.file) /\ UNCHANGED groups
  ELSE /\ groups' = [k \in DOMAIN groups \cup {Key(found)} |->
                       IF k # Key(found) THEN groups[k]
                       ELSE IF k \in DOMAIN groups
                            THEN PushSorted(groups[k], found.file)
                            ELSE <<found.file>>]
       /\ UNCHANGED apks

CollectRecv ==
  /\ collector = "recv"
  /\ \/ /\ fileChan # <<>>
        /\ Received(Head(fileChan))
        /\ fileChan' = Tail(fileChan)
        /\ collector' = "check"
     \/ /\ fileChan = <<>>
        /\ collector' = IF walker.pc \in Ended THEN "ok" ELSE "check"
        /\ UNCHANGED <<fileChan, apks, groups>>

Collector ==
  /\ CollectCheck \/ CollectRecv
  /\ UNCHANGED <<cancelled, lister, dirChan, walker, result>>

-------------------------------------------------------------------------------
(* Fault: the result of the walker is not looked at.                       *)
ReturnCollector ==
  /\ result = "none"
  /\ {lister.pc, walker.pc, collector} \subseteq Ended
  /\ result' = IF "err" \in {lister.pc, collector} THEN "err" ELSE "ok"
  /\ UNCHANGED <<cancelled, lister, dirChan, walker, fileChan, collector, apks, groups>>

(* The scope ends when all three threads did; the first error is returned. *)
Return ==
  /\ result = "none"
  /\ {lister.pc, walker.pc, collector} \subseteq Ended
  /\ result' = IF "err" \in {lister.pc, walker.pc, collector} THEN "err" ELSE "ok"
  /\ UNCHANGED <<cancelled, lister, dirChan, walker, fileChan, collector, apks, groups>>

Next == Cancel \/ Lister \/ Walker \/ Collector \/ Return

Fairness ==
  WF_vars(Lister) /\ WF_vars(Walker) /\ WF_vars(Collector) /\ WF_vars(Return)

Spec == Init /\ [][Next]_vars /\ Fairness

-------------------------------------------------------------------------------
(* Properties.                                                             *)

ListedDirs == UNION {{DirListing[c][i] : i \in DOMAIN DirListing[c]} :
                     c \in DOMAIN DirListing}
InSeq(x, s) == \E i \in DOMAIN s : s[i] = x
Times(x, s) == Cardinality({i \in DOMAIN s : s[i] = x})

TimesListed(d) ==
  Cardinality(UNION {{<<c, i>> : i \in {j \in DOMAIN DirListing[c] : DirListing[c][j] = d}} :
                     c \in DOMAIN DirListing})

TimesCollected(found) ==
  IF Key(found) \in DOMAIN groups THEN Times(found.file, groups[Key(found)]) ELSE 0

(* When the search reports success every framework file of every listed    *)
(* directory was collected, and as often as it was printed: no thread took *)
(* an early end of its input for the real one.  After a cancellation this  *)
(* is only true of a filesystem dump, because the adb helper drops the     *)
(* error of the callback; run() looks at the flag again for that reason.   *)
OkMeansAllFound ==
  result = "ok" /\ (Helper = "fsdump" \/ ~cancelled) =>
    /\ \A d \in ListedDirs, f \in Wanted :
          Kind[f] # Apk =>
            TimesCollected([file |-> f, dir |-> d]) =
              TimesListed(d) * Times(f, FilesIn[d])
    /\ \A d \in ListedDirs, f \in Wanted :
          Kind[f] = Apk /\ InSeq(f, FilesIn[d]) => InSeq(f, apks)

(* The files of a group are in the order they are to be tried in, jars     *)
(* before vdexs, in whatever order the device listed them.                 *)
GroupsSorted ==
  \A k \in DOMAIN groups : \A i, j \in DOMAIN groups[k] :
    i < j => Kind[groups[k][i]] <= Kind[groups[k][j]]

(* Neither a full channel nor a thread that left early keeps the others    *)
(* waiting: the search returns.                                            *)
Terminates == <>(result # "none")
===============================================================================
