------------------------------ MODULE MCDeviceDb ------------------------------
EXTENDS DeviceDb

(* Rows of the other databases.                                            *)
Rcv(exported, perm) ==
  [kind |-> "receiver", key |-> "Boot", apk |-> "a1",
   exported |-> exported, enabled |-> TRUE, perm |-> perm]
Prov(read) ==
  [kind |-> "provider", key |-> "Files", apk |-> "a1", exported |-> TRUE,
   enabled |-> TRUE, perm |-> None, read |-> read, write |-> "p",
   authorities |-> {"files"}, grants |-> FALSE]
Perm(level) == [kind |-> "permission", key |-> "P", apk |-> "a1", level |-> level]
Meth(hash)  == [kind |-> "method", key |-> <<"run", "()", "V">>, service |-> "s1",
                txn |-> 1, sig |-> "()", hash |-> hash]

(* A circle of references, a reference to no entry, one to a text and one  *)
(* to a text through another.                                              *)
MCReferences == {"@bool/a", "@bool/b", "@bool/gone", "@string/p", "@string/q", "@bool/off"}
MCEntries ==
  [r \in {"@bool/a", "@bool/b", "@string/p", "@string/q", "@bool/off"} |->
    CASE r = "@bool/a" -> "@bool/b" [] r = "@bool/b" -> "@bool/a"
      [] r = "@string/p" -> "@string/q" [] r = "@string/q" -> "p"
      [] r = "@bool/off" -> "false"]

MCElements ==
  {[kind |-> "receiver", name |-> "Boot", apk |-> "a1", filters |-> FALSE,
    exported |-> "@bool/a", enabled |-> None, permission |-> None],
   [kind |-> "provider", name |-> "Files", apk |-> "a1", filters |-> FALSE,
    exported |-> "@bool/gone", enabled |-> None, permission |-> None,
    read |-> "@string/p", write |-> "p", authorities |-> {"files", "@string/p"}],
   [kind |-> "aservice", name |-> "Work", apk |-> "a1", filters |-> TRUE,
    exported |-> None, enabled |-> "@bool/off", permission |-> "@string/p",
    bind |-> [count |-> 2, number |-> TRUE]]}

(* The stub of s1 is in two directories, without constants in the first;   *)
(* the interface in the second is of another version, so the third has the *)
(* headers.  What s2 has in its stub is no method.                         *)
Absent == [state |-> "absent", fields |-> {}, headers |-> <<>>]
StubFile(fields) == [state |-> "whole", fields |-> fields]
IfaceFile(headers) == [state |-> "whole", headers |-> headers]
Header(name, args) == [name |-> name, args |-> args, ret |-> "V"]
Field(name, txn) == [name |-> name, txn |-> txn]
MCStubIn ==
  [s \in {"s1", "s2"} |->
    IF s = "s1" THEN <<StubFile({}), StubFile({Field("run", 1), Field("stop", 2)}), Absent>>
    ELSE <<StubFile({Field("gone", None)}), Absent, Absent>>]
MCIfaceIn ==
  [s \in {"s1", "s2"} |->
    IF s = "s1" THEN <<Absent, IfaceFile(<<Header("run", "(I)"), Header("old", "()")>>),
                       IfaceFile(<<Header("asBinder", "()"), Header("run", "()"), Header("stop", "()")>>)>>
    ELSE <<Absent, Absent, Absent>>]
MCImpls ==
  [s \in {"s1", "s2"} |->
    IF s = "s1" THEN <<<<[name |-> "run", args |-> "(I)", hash |-> "h0"],
                         [name |-> "run", args |-> "()", hash |-> "h1"]>>>>
    ELSE <<>>]
MCContent ==
  [v \in {"aosp", "v1", "empty"} |->
    CASE v = "aosp" -> {ApkItem("a1"), ServiceItem("s1"), Rcv(TRUE, "p"), Prov("q"), Meth("h1")}
      [] v = "v1"   -> {ServiceItem("s2"), Rcv(FALSE, None), Prov("p"), Perm("signature")}
      [] v = "empty" -> {}]
===============================================================================
