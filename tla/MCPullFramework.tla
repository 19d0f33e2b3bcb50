---------------------------- MODULE MCPullFramework ----------------------------
EXTENDS PullFramework

(* The framework APK is found under two directories, one inside the other, *)
(* and so are the vdex and the dex of services; its jar only in the outer. *)
MCKind == [res |-> "apk", jar |-> "jar", vdex |-> "vdex", dex |-> "dex"]
MCPath == DOMAIN MCKind
MCFrameworkApks == <<"res", "res">>
MCMembers == [outer |-> <<"jar", "vdex", "dex">>, inner |-> <<"vdex", "dex">>]

Absent == [pl \in Place |-> "absent"]
Copied == [Absent EXCEPT !["frameworks"] = "whole"]

Fresh == [rows |-> <<>>, copy |-> Absent, smali |-> "nothing"]
After(decompiled, made) ==
  [rows |-> << [host |-> "frameworks", decompiled |-> decompiled, attempts |-> 1] >>,
   copy |-> Copied, smali |-> made]

(* The vdex is new; an earlier run failed at the framework APK and the jar *)
(* or decompiled that, and was killed when it had made the row of the dex. *)
Starts ==
  [res  |-> {After(FALSE, "some")},
   jar  |-> {After(FALSE, "some"), After(TRUE, "all")},
   vdex |-> {Fresh},
   dex  |-> {[Fresh EXCEPT !.rows = <<NewRow>>]}]
===============================================================================
