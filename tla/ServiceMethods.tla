---------------------------- MODULE ServiceMethods ----------------------------
(***************************************************************************)
(* What AddSystemServiceTask stores of the methods of a service: names and *)
(* numbers from the constants of its Stub class, arguments and result from *)
(* its interface, a hash from the class that implements it.  A class may   *)
(* be in several directories of smali, the framework's and those of APKs,  *)
(* which are numbered as find_files_for_class goes through them.           *)
(***************************************************************************)
EXTENDS DeviceCompare, Integers, Sequences

CONSTANTS
  Services,  \* what the device lists as its system services
  StubIn,    \* [Services -> the Stub class in each directory]
  IfaceIn,   \* [Services -> the interface in each directory]
  Impls      \* [Services -> the concrete classes below the stub, as the graph
             \* lists them: the methods of each]

(* A class file: a stub's lines are fields, a name and a number (None when *)
(* it is no integer); an interface's are the headers of its methods.       *)
IsList(list) == Len(list) \in Nat /\ DOMAIN list = 1..Len(list)
FileStates == {"absent", "broken", "whole"}
IsStub(file) ==
  /\ file.state \in FileStates
  /\ IsFiniteSet(file.fields)
  /\ \A f, g \in file.fields : f.name = g.name => f = g
  /\ file.state # "whole" => file.fields = {}
IsIface(file) ==
  /\ file.state \in FileStates
  /\ IsList(file.headers)
  /\ \A i \in DOMAIN file.headers : file.headers[i].args # None
  /\ file.state # "whole" => file.headers = <<>>

ASSUME ServiceAssumption ==
  /\ IsFiniteSet(Services)
  /\ \A s \in Services :
       /\ IsList(StubIn[s]) /\ IsList(IfaceIn[s]) /\ Len(StubIn[s]) = Len(IfaceIn[s])
       /\ \A d \in DOMAIN StubIn[s] : IsStub(StubIn[s][d]) /\ IsIface(IfaceIn[s][d])
       /\ Impls[s] # <<>> => IsList(Impls[s][1])

-------------------------------------------------------------------------------
(* MethodData::from_field.                                                 *)
Constants(file) == {f \in file.fields : f.txn # None}

(* get_methods_and_stubs_file: the first file with such constants, unless  *)
(* one before it cannot be parsed.                                         *)
StubDirs(s) ==
  {d \in DOMAIN StubIn[s] : StubIn[s][d].state = "broken" \/ Constants(StubIn[s][d]) # {}}
HasStub(s) == StubDirs(s) # {}
StubDir(s) == CHOOSE d \in StubDirs(s) : \A e \in StubDirs(s) : d <= e

MethodNames(s) == {f.name : f \in Constants(StubIn[s][StubDir(s)])}

(* try_update_method_signatures goes through the files of the interface,   *)
(* the one beside the stub first.                                          *)
NotAfter(s, d, e) == d = StubDir(s) \/ (e # StubDir(s) /\ d <= e)

(* try_update_method_signatures_inner counts the headers of known methods  *)
(* and is content with as many as there are methods.                       *)
Hits(file, names) == {i \in DOMAIN file.headers : file.headers[i].name \in names}
Complete(s, file) ==
  file.state = "whole" /\ Cardinality(Hits(file, MethodNames(s))) = Cardinality(MethodNames(s))

(* Where it stops: at the first file that suffices or cannot be parsed.    *)
StopDirs(s) ==
  {d \in DOMAIN IfaceIn[s] : IfaceIn[s][d].state = "broken" \/ Complete(s, IfaceIn[s][d])}
StopDir(s) == CHOOSE d \in StopDirs(s) : \A e \in StopDirs(s) : NotAfter(s, d, e)

(* An error of the parser leaves the service without methods.              *)
Unreadable(s) ==
  \/ StubIn[s][StubDir(s)].state = "broken"
  \/ StopDirs(s) # {} /\ IfaceIn[s][StopDir(s)].state = "broken"

(* The last header of a method in the files that were read; none when no   *)
(* file sufficed, as what was found is taken back.                         *)
NoHeader == [args |-> None, ret |-> None]
DirsWith(s, name) ==
  {d \in DOMAIN IfaceIn[s] : NotAfter(s, d, StopDir(s)) /\ Hits(IfaceIn[s][d], {name}) # {}}
HeaderIn(file, name) ==
  LET hits == Hits(file, {name})
  IN file.headers[CHOOSE i \in hits : \A j \in hits : j <= i]
HeaderOf(s, name) ==
  IF StopDirs(s) = {} \/ DirsWith(s, name) = {} THEN NoHeader
  ELSE HeaderIn(IfaceIn[s][CHOOSE d \in DirsWith(s, name) :
                             \A e \in DirsWith(s, name) : NotAfter(s, e, d)], name)

(* update_method_hashes: of the methods of the first implementation that   *)
(* have the name and the arguments the last one counts.                    *)
Bodies(s, name, args) ==
  IF Impls[s] = <<>> \/ args = None THEN {}
  ELSE {i \in DOMAIN Impls[s][1] : Impls[s][1][i].name = name /\ Impls[s][1][i].args = args}
HashOf(s, name, args) ==
  LET bodies == Bodies(s, name, args)
  IN IF bodies = {} THEN None
     ELSE Impls[s][1][CHOOSE i \in bodies : \A j \in bodies : j <= i].hash

(* The row of a method; its key is get_method_def of the diff.             *)
MethodRow(s, f) ==
  LET h == HeaderOf(s, f.name)
  IN [kind |-> "method", service |-> s, key |-> <<f.name, h.args, h.ret>>,
      txn |-> f.txn, sig |-> h.args, hash |-> HashOf(s, f.name, h.args)]

MethodsFound(s) ==
  IF ~HasStub(s) \/ Unreadable(s) THEN {}
  ELSE {MethodRow(s, f) : f \in Constants(StubIn[s][StubDir(s)])}

Methods == UNION {MethodsFound(s) : s \in Services}

-------------------------------------------------------------------------------
(* What a row should say.  AIDL has no two methods of one name.            *)
NoOverloads(s) ==
  \A d \in DOMAIN IfaceIn[s] : \A i, j \in DOMAIN IfaceIn[s][d].headers :
    IfaceIn[s][d].headers[i].name = IfaceIn[s][d].headers[j].name => i = j

Declares(file, m) ==
  \E i \in DOMAIN file.headers :
    m.key = <<file.headers[i].name, file.headers[i].args, file.headers[i].ret>>

(* Some stub has the method under its number; what is said of its header   *)
(* is from one interface that declares all methods of that stub, and the   *)
(* others of the service are from such a file too, or none is.             *)
AsWritten(m) ==
  LET s == m.service
  IN \E d \in DOMAIN StubIn[s] : \E f \in Constants(StubIn[s][d]) :
       /\ m.key[1] = f.name /\ m.txn = f.txn
       /\ NoOverloads(s) /\ m.sig # None =>
            /\ \E e \in DOMAIN IfaceIn[s] :
                 /\ Declares(IfaceIn[s][e], m)
                 /\ \A g \in Constants(StubIn[s][d]) : Hits(IfaceIn[s][e], {g.name}) # {}
            /\ \A n \in Methods : n.service = s => n.sig # None
===============================================================================
