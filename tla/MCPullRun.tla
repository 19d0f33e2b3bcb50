------------------------------- MODULE MCPullRun -------------------------------
EXTENDS PullRun

(* A group of a jar, a vdex and a dex in this order, beside an APK that    *)
(* both phases find.                                                       *)
MCBefore == [p \in FrameworkFile |->
               CASE p = "vdex" -> {"jar"} [] p = "dex" -> {"jar", "vdex"} [] OTHER -> {}]
===============================================================================
