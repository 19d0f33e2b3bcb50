------------------------------- MODULE MCDiffUi -------------------------------
EXTENDS DiffUi, TLC

Row(id, owner, chars, exists, hash, binder, perms) ==
  [id |-> id, owner |-> owner, chars |-> chars, exists |-> exists,
   hash |-> hash, binder |-> binder, perms |-> perms]

(* Two services; a new method of the first and a modified one of the       *)
(* second, whose binder is not to be had; a new APK with a service that    *)
(* needs a normal permission; nothing in the other tabs.                   *)
MCItems ==
  [t \in {"Providers", "Receivers", "Activities"} |-> <<>>] @@
  ("SystemServices" :> <<Row(1, 0, {"a"}, FALSE, "unknown", "true", "none"),
                         Row(2, 0, {}, FALSE, "unknown", "false", "none")>>) @@
  ("SystemServiceMethods" :> <<Row(1, 2, {"a"}, TRUE, "false", "unknown", "none"),
                               Row(2, 1, {}, FALSE, "unknown", "true", "none")>>) @@
  ("Apks" :> <<Row(7, 0, {"a"}, FALSE, "unknown", "unknown", "none")>>) @@
  ("Services" :> <<Row(1, 7, {}, FALSE, "unknown", "unknown", "normal")>>)
===============================================================================
