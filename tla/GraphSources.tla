------------------------------ MODULE GraphSources ------------------------------
(***************************************************************************)
(* The sources of the graph database: the framework and the APKs.          *)
(***************************************************************************)
CONSTANTS
  Framework, \* FRAMEWORK_SOURCE
  Apk        \* the sources of the APKs

Source == {Framework} \cup Apk
===============================================================================
