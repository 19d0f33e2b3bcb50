------------------------------ MODULE MCPullFind ------------------------------
EXTENDS PullFind

(* Two searches that overlap in one directory.  The first directory has    *)
(* a vdex listed before the jar of the same name, an APK of the framework  *)
(* and a file that is not wanted.                                          *)
MCKind == [vdex |-> VDex, jar |-> Jar, res |-> Apk, other |-> Apk]
MCFile == DOMAIN MCKind
MCName == [vdex |-> "services", jar |-> "services", res |-> "framework-res",
           other |-> "other"]
MCWanted == {"vdex", "jar", "res"}
MCFilesIn == [fw |-> <<"vdex", "other", "jar">>, apex |-> <<"res", "jar">>, empty |-> <<>>]
MCDir == DOMAIN MCFilesIn
MCDirListing == << <<"fw", "empty">>, <<"apex", "fw">> >>
===============================================================================
