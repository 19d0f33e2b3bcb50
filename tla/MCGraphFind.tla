------------------------------ MODULE MCGraphFind ------------------------------
EXTENDS GraphFind

Class(name, flags) == [line |-> "class", name |-> name, flags |-> flags]
Super(name) == [line |-> "super", name |-> name]
Impl(name) == [line |-> "interface", name |-> name]
Field(name, type, value) == [line |-> "field", name |-> name, type |-> type, value |-> value]
Returning(name, args, ret) == [line |-> "method", name |-> name, args |-> args, ret |-> ret]
Method(name, args) == Returning(name, args, "V")
Const(text) == [line |-> "string", text |-> Some(text)]
Access(class, name, type, action) ==
  [line |-> "access", field |-> [class |-> class, name |-> name, type |-> type],
   action |-> action]
CallOf(full, class, name, args) ==
  [line |-> "call", full |-> full, class |-> class, name |-> name, args |-> args]
Call(class, name, args) == CallOf(class, class, name, args)
Broken == [line |-> "broken"]

File(lines) == [ignored |-> FALSE, lines |-> lines]
Ignored(lines) == [ignored |-> TRUE, lines |-> lines]

OnCreate == Method("onCreate", "")
Log == Call("Lib", "log", "")
ParseUriCall == Call("Intent", "parseUri", "String,I")

(* Two APKs with an activity of the same name.  Both call a library that   *)
(* is in no source; in one the calls form a cycle.  Some of the files are  *)
(* of libraries, one ends in a line that is no smali.  One class has two   *)
(* methods that differ only in what they return.                           *)
MCSmali ==
  [framework |->
     <<File(<<Class("Activity", "plain"), Super("Object"), Method("getIntent", "")>>),
       File(<<Class("Intent", "plain"), Field("data", "Uri", None),
              Method("parseUri", "String,I")>>),
       File(<<Class("Listener", "interface")>>)>>,
   a |->
     <<File(<<Class("Main", "plain"), Super("Activity"), OnCreate,
              Call("Object", "<init>", ""), Call("Helper", "run", ""), Log,
              Access("Compat", "flag", "Z", "read"), Call("Helper", "run", "")>>),
       File(<<Class("Helper", "abstract"), Super("Object"), Impl("Child"), Method("run", ""),
              Access("Intent", "data", "Uri", "write"), Call("Main", "onCreate", ""), ParseUriCall,
              Call("Helper", "run", ""),
              Call("Compat", "check", "")>>),
       File(<<Class("Child", "interface"), Impl("Listener"), Broken, Super("Main")>>),
       File(<<Class("Compat", "plain"), Method("check", ""), Log>>),
       Ignored(<<Class("Hidden", "plain"), Super("Main")>>)>>,
   b |->
     <<File(<<Class("Main", "plain"), Super("Activity"), Impl("Listener"),
              Field("intent", "Intent", None), Field("name", "String", Some("title")),
              OnCreate, Log, ParseUriCall, Call("Activity", "getIntent", ""),
              Access("Main", "intent", "Intent", "read"), Const("url"),
              Access("Intent", "data", "Uri", "read"), Access("Intent", "data", "Uri", "write")>>),
       File(<<Class("Sub", "plain"), Super("Main"),
              Method("values", ""), CallOf("[Sub", "Sub", "clone", ""), Const("url"),
              Returning("first", "", "Main"), Call("Sub", "values", ""), Const("title"),
              Access("Main", "name", "String", "write"),
              Returning("first", "", "Sub"), Call("Sub", "values", ""),
              Method("second", ""), Call("Sub", "values", "")>>)>>]

MCText ==
  [x \in {"getIntent", "parseUri", "log", "onCreate", "Main", "a", "b", "framework", "",
          "String,I"} |-> IF x = "" THEN <<>> ELSE <<x>>]

MCStem == [a |-> "com/a", b |-> "com/b"]
MCPattern == [x \in {"ur%"} |-> {"url", "ur%"}]

Component(apk, class, exported, guarded) ==
  [apk |-> apk, class |-> class, kind |-> "activity", exported |-> exported,
   enabled |-> TRUE, guarded |-> guarded]
MCComponents == {Component("a", "Main", TRUE, FALSE), Component("b", "Main", TRUE, TRUE),
                 Component("b", "Sub", FALSE, FALSE)}

Search(name, class, args, source) ==
  [name |-> name, class |-> class, args |-> args, source |-> source]
MCSearches == {Search(Some("parseUri"), None, None, None),
               Search(None, Some("Main"), None, None),
               Search(Some("onCreate"), Some("Main"), Some(""), Some("b"))}
MCFilters == {None, Some("a")}
MCOptions == {[onlyExported |-> z, onlyEnabled |-> FALSE, noPerms |-> z] : z \in BOOLEAN}
===============================================================================
