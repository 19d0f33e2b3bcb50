------------------------------ MODULE MCPullApks ------------------------------
EXTENDS PullApks

CONSTANTS a1, a2

(* `pm list packages` and the search of the filesystem overlap.            *)
TwoListings == << <<a1>>, <<a2, a1>> >>

Absent == [pl \in Place |-> "absent"]
At(place, state) == [Absent EXCEPT ![place] = state]

(* Nothing yet; a run killed in the middle of the pull; a failed attempt   *)
(* with a whole copy; a framework APK that was decompiled already.         *)
Starts ==
  { [rows |-> <<>>, copy |-> Absent, smali |-> "nothing"],
    [rows |-> <<NewRow>>, copy |-> At("apks", "broken"), smali |-> "nothing"],
    [rows |-> << [host |-> "apks", decompiled |-> FALSE, attempts |-> 1] >>,
     copy |-> At("apks", "whole"), smali |-> "some"],
    [rows |-> << [host |-> "frameworks", decompiled |-> TRUE, attempts |-> 1] >>,
     copy |-> At("frameworks", "whole"), smali |-> "all"] }
===============================================================================
