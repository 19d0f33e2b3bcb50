------------------------------- MODULE SmaliCsv -------------------------------
(***************************************************************************)
(* What the analysis of a source writes to its CSV files: write_analysis_  *)
(* files goes through the smali files and handle_entry through the lines   *)
(* of one.  Lines stand for what the parser makes of them, those without a *)
(* row are left out; an optional text is a sequence of at most one.        *)
(***************************************************************************)
EXTENDS Naturals, Sequences, FiniteSets

CONSTANTS
  Smali,     \* [source -> the sequence of its smali files]
  Object,    \* java.lang.Object
  Libraries  \* classes with a prefix of smalisa_class_ignore_func

(* A file is ignored for a part of its path.  It begins with its class;    *)
(* instructions are inside of methods.                                     *)
LineKinds == {"class", "super", "interface", "field", "method", "access", "call",
              "string", "broken"}

ASSUME SmaliAssumption ==
  \A s \in DOMAIN Smali : \A n \in DOMAIN Smali[s] :
    LET file == Smali[s][n]
    IN /\ file.ignored \in BOOLEAN
       /\ Len(file.lines) \in Nat /\ DOMAIN file.lines = 1 .. Len(file.lines)
       /\ \A i \in DOMAIN file.lines :
            /\ file.lines[i].line \in LineKinds
            /\ i = 1 <=> file.lines[i].line = "class"
            /\ file.lines[i].line \in {"access", "call", "string"} =>
                 \E j \in 1 .. i : file.lines[j].line = "method"
            /\ file.lines[i].line = "access" =>
                 LET f == file.lines[i].field
                 IN f = [class |-> f.class, name |-> f.name, type |-> f.type]

-------------------------------------------------------------------------------
(* handle_entry stops at a class of a library and at what cannot be        *)
(* parsed; what it has sent until then stays.                              *)
Stops(l) == l.line = "broken" \/ (l.line = "class" /\ l.name \in Libraries)
Reached(file) ==
  IF file.ignored THEN {}
  ELSE {i \in DOMAIN file.lines : \A j \in 1 .. i : ~Stops(file.lines[j])}

At(file, kind) == {i \in Reached(file) : file.lines[i].line = kind}
The(file, kind) == {file.lines[i] : i \in At(file, kind)}

ClassOf(file) == file.lines[1].name

(* calling_method_name and calling_method_args at a line, without what the *)
(* method returns; none before the first method.                           *)
HeaderAt(file, i) ==
  {j \in At(file, "method") : j < i /\ \A k \in At(file, "method") : k < i => k <= j}
MethodsAt(file, i) ==
  {[class |-> ClassOf(file), name |-> file.lines[j].name, args |-> file.lines[j].args]
     : j \in HeaderAt(file, i)}

(* send_str!: the strings of instructions, and the values of fields.       *)
StringAt(file, i) ==
  LET l == file.lines[i]
  IN CASE l.line = "string" -> l.text [] l.line = "field" -> l.value [] OTHER -> <<>>
Strings(file) == {i \in Reached(file) : StringAt(file, i) # <<>>}

(* Calls into libraries and of Object's constructor are left out.  A call  *)
(* of an array's method is one of its elements' class in `class`, and in   *)
(* `full` of the array's.                                                  *)
Counts(l) == l.class \notin Libraries /\ ~(l.full = Object /\ l.name = "<init>")

(* The same to seen_calls: arrays are not told apart.                       *)
Same(l, m) == l.class = m.class /\ l.name = m.name /\ l.args = m.args

(* Fault: what was seen is not forgotten when the method ends.             *)
FirstOfFile(file, i) ==
  ~\E j \in At(file, "call") :
     j < i /\ Counts(file.lines[j]) /\ Same(file.lines[j], file.lines[i])

(* seen_calls: a method has each call once.                                *)
FirstOfMethod(file, i) ==
  ~\E j \in At(file, "call") :
     /\ j < i /\ HeaderAt(file, j) = HeaderAt(file, i)
     /\ Counts(file.lines[j]) /\ Same(file.lines[j], file.lines[i])

SentCalls(file) ==
  {i \in At(file, "call") : Counts(file.lines[i]) /\ FirstOfMethod(file, i)}

Callee(l) == [class |-> l.full, name |-> l.name, args |-> l.args]

(* on_field_access.                                                        *)
SentAccess(file) == {i \in At(file, "access") : file.lines[i].field.class \notin Libraries}

-------------------------------------------------------------------------------
(* The rows of one file.                                                   *)
RowsOfFile(file) ==
  [classes |-> {[name |-> l.name, flags |-> l.flags] : l \in The(file, "class")},
   supers |-> {[child |-> ClassOf(file), parent |-> l.name] :
                 l \in {l \in The(file, "super") : l.name # Object}},
   interfaces |-> {[class |-> ClassOf(file), interface |-> l.name] :
                     l \in The(file, "interface")},
   fields |-> {[class |-> ClassOf(file), name |-> l.name, type |-> l.type] :
                 l \in The(file, "field")},
   methods |-> {[class |-> ClassOf(file), name |-> l.name, args |-> l.args, ret |-> l.ret] :
                  l \in The(file, "method")},
   calls |-> UNION {{[caller |-> m, callee |-> Callee(file.lines[i])] :
                       m \in MethodsAt(file, i)} : i \in SentCalls(file)},
   access |-> UNION {{[field |-> file.lines[i].field, method |-> m,
                       action |-> file.lines[i].action] :
                        m \in MethodsAt(file, i)} : i \in SentAccess(file)},
   strings |-> {StringAt(file, i)[1] : i \in Strings(file)},
   methodStrings |-> UNION {{[string |-> StringAt(file, i)[1], method |-> m] :
                               m \in MethodsAt(file, i)} : i \in Strings(file)}]

Tables == {"classes", "supers", "interfaces", "fields", "methods", "calls", "access",
           "strings", "methodStrings"}

(* The writers drop what comes twice.                                      *)
Csv ==
  [s \in DOMAIN Smali |->
     [t \in Tables |-> UNION {RowsOfFile(Smali[s][n])[t] : n \in DOMAIN Smali[s]}]]

-------------------------------------------------------------------------------
(* The calls in the smali of a source, as far as it can be read: each in   *)
(* the method it is in, unless the method also has that call of an array   *)
(* of the class.                                                           *)
AlsoOfArray(file, i) ==
  \E j \in At(file, "call") :
    /\ Same(file.lines[j], file.lines[i]) /\ file.lines[j].full # file.lines[i].full
    /\ HeaderAt(file, j) = HeaderAt(file, i)

SaidCalls ==
  [s \in DOMAIN Smali |->
     UNION {LET file == Smali[s][n]
            IN UNION {{[caller |-> m, callee |-> Callee(file.lines[i])] : m \in MethodsAt(file, i)}
                      : i \in {i \in At(file, "call") : Counts(file.lines[i]) /\ ~AlsoOfArray(file, i)}}
            : n \in DOMAIN Smali[s]}]
===============================================================================
