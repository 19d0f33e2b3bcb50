------------------------------ MODULE PullStatus ------------------------------
(***************************************************************************)
(* The record dtu keeps about one device file while it is pulled and       *)
(* decompiled (a row of the decompile_status table), the state of the      *)
(* file's copy on the host, and what one pull or one decompilation can do  *)
(* to them.  The threads that call these operators are in PullApks,        *)
(* PullFramework and PullRun.                                              *)
(***************************************************************************)
EXTENDS Naturals

CONSTANT Helper   \* which DeviceFSHelper is used: "adb" or "fsdump"

ASSUME HelperAssumption == Helper \in {"adb", "fsdump"}

(* The two directories a file is pulled into: frameworks_dir and apks_dir. *)
Place == {"frameworks", "apks"}
NoPlace == "none"

Row == [host: Place \cup {NoPlace}, decompiled: BOOLEAN, attempts: Nat]
NewRow == [host |-> NoPlace, decompiled |-> FALSE, attempts |-> 0]

(* A host copy is absent, whole, or exists with the wrong content.         *)
FileState == {"absent", "broken", "whole"}

(* The smali tree made of a file: nothing, some of it, or all of it.       *)
SmaliState == {"nothing", "some", "all"}

ShouldDecompile(row) == ~row.decompiled

(* copy is a function from Place to FileState.                             *)
ShouldPull(row, copy) == \/ row.host = NoPlace
                         \/ copy[row.host] = "absent"

WithHost(row, place) ==
  IF row.host = NoPlace THEN [row EXCEPT !.host = place] ELSE row

Attempted(row, success) ==
  [host |-> row.host, decompiled |-> success, attempts |-> row.attempts + 1]

(***************************************************************************)
(* DeviceFSHelper::pull.  A success leaves the whole file, except that the *)
(* adb helper also reports success when both `adb pull` and the fallback   *)
(* `adb shell cat` exited with an error: the exit status of the fallback   *)
(* is not looked at and what it printed is written to the file.  A failure *)
(* comes before the file is touched or in the middle of writing it.        *)
(***************************************************************************)
PullOutcomes(before) ==
  LET failures  == {[ok |-> FALSE, file |-> f] : f \in {before, "broken"}}
      successes == {[ok |-> TRUE, file |-> "whole"]}
      unchecked == {[ok |-> TRUE, file |-> "broken"]}
  IN  failures \cup successes \cup (IF Helper = "adb" THEN unchecked ELSE {})

(***************************************************************************)
(* Pull::decompile_apk.  apktool, then jadx, need a whole file; after a    *)
(* success the smali directories are moved, and an error in the middle of  *)
(* the move makes the attempt a failure.                                   *)
(***************************************************************************)
DecompileOutcomes(file, smali) ==
  {[success |-> FALSE, smali |-> smali]}
    \cup IF file = "whole"
         THEN {[success |-> TRUE,  smali |-> "all"],
               [success |-> FALSE, smali |-> "some"]}
         ELSE {}

(***************************************************************************)
(* decompile_file: what one decompilation of a framework file that is not  *)
(* an APK can do (an error counts as no success).  A jar reports success   *)
(* whatever baksmali made of its dex files, a vdex and an apex whatever    *)
(* came of their contents; but only a file that can be unpacked gets there.*)
(***************************************************************************)
FileOutcomes(kind, file, before) ==
  LET failures == {[success |-> FALSE, smali |-> s] : s \in {before, "some"}}
      full     == {[success |-> TRUE, smali |-> "all"]}
      partial  == {[success |-> TRUE, smali |-> s] : s \in {before, "some"}}
  IN  IF file # "whole" THEN {[success |-> FALSE, smali |-> before]}
      ELSE failures \cup full \cup (IF kind = "dex" THEN {} ELSE partial)
===============================================================================
