--------------------------- MODULE DeviceDb_proofs ----------------------------
(***************************************************************************)
(* Proofs about DeviceDb, for every set of APKs, manifests, services and   *)
(* diff sources, and any number of cancellations, failures and kills.      *)
(***************************************************************************)
EXTENDS DeviceDb, FiniteSetTheorems, WellFoundedInduction, TLAPS

-------------------------------------------------------------------------------
(* Items.                                                                  *)

LEMMA CompFacts ==
  \A c \in Comps : c.kind \in CompKinds /\ c.apk \in Apks \ NoManifest
<1>1. \A e \in Elements : StoredRow(e).kind = e.kind /\ StoredRow(e).apk = e.apk
  BY DeviceDbAssumption
  DEF StoredRow, CompKinds, IpcKinds, IpcRow, ServiceRow, ProviderRow, PermissionRow
<1> QED
  BY <1>1, DeviceDbAssumption DEF Comps

LEMMA KeyFacts ==
  /\ \A a : ApkItem(a).kind = "apk" /\ ApkItem(a).key = a
  /\ \A s : ServiceItem(s).kind = "service" /\ ServiceItem(s).key = s
  BY DEF ApkItem, ServiceItem

-------------------------------------------------------------------------------
(* The methods of a service.                                               *)

(* A set of naturals below a bound has a least element.                    *)
LEMMA LeastOf ==
  ASSUME NEW n \in Nat, NEW V, V \subseteq 0..n, V # {}
  PROVE  \E i \in V : \A j \in V : i <= j
<1> DEFINE Below(i) == {j \in V : j < i}
           All == {Below(i) : i \in V}
<1>1. \A i \in V : i \in Nat /\ IsFiniteSet(Below(i)) /\ Below(i) \subseteq Nat
  <2> SUFFICES ASSUME NEW i \in V
               PROVE  i \in Nat /\ IsFiniteSet(Below(i)) /\ Below(i) \subseteq Nat
    OBVIOUS
  <2>1. IsFiniteSet(0..n)
    BY FS_Interval
  <2>2. Below(i) \in SUBSET (0..n)
    OBVIOUS
  <2>3. IsFiniteSet(Below(i))
    BY <2>1, <2>2, FS_Subset
  <2> QED
    BY <2>2, <2>3
<1>2. All \subseteq FiniteSubsetsOf(Nat) /\ All # {}
  BY <1>1 DEF FiniteSubsetsOf
<1>3. IsWellFoundedOn(StrictSubsetOrdering(Nat), FiniteSubsetsOf(Nat))
  BY FS_StrictSubsetOrderingWellFounded
<1> HIDE DEF All
<1>4. PICK X \in All : \A Y \in All : <<Y, X>> \notin StrictSubsetOrdering(Nat)
  BY <1>2, <1>3, WFMin
<1>5. PICK i \in V : X = Below(i)
  BY <1>4 DEF All
<1>6. ASSUME NEW j \in V, j < i
      PROVE  FALSE
  <2>1. Below(j) \in All
    BY DEF All
  <2>2. Below(j) \subseteq Below(i) /\ j \in Below(i) /\ j \notin Below(j)
    <3>1. \A x \in V : x \in Int
      OBVIOUS
    <3>2. \A x \in V : x < j => x < i
      BY <1>6, <3>1
    <3>3. ~(j < j)
      BY <3>1
    <3> QED
      BY <1>6, <3>2, <3>3
  <2>3. <<Below(j), Below(i)>> \in StrictSubsetOrdering(Nat)
    BY <1>1, <2>2 DEF StrictSubsetOrdering
  <2> QED
    BY <1>4, <1>5, <2>1, <2>3
<1> QED
  BY <1>1, <1>6

LEMMA MethodFacts ==
  \A m \in Methods : m.kind = "method" /\ m.service \in Services
  BY DEF Methods, MethodsFound, MethodRow

(* The choices of directories are possible.                                *)
LEMMA StubDirFound ==
  ASSUME NEW s \in Services, HasStub(s)
  PROVE  StubDir(s) \in StubDirs(s) /\ StubDirs(s) \subseteq DOMAIN StubIn[s]
<1>1. /\ Len(StubIn[s]) \in Nat /\ DOMAIN StubIn[s] = 1..Len(StubIn[s])
      /\ StubDirs(s) \subseteq DOMAIN StubIn[s] /\ StubDirs(s) # {}
  BY ServiceAssumption DEF IsList, HasStub, StubDirs
<1> DEFINE first(d) == \A e \in StubDirs(s) : d <= e
<1>2. StubDirs(s) \subseteq 0..Len(StubIn[s])
  BY <1>1
<1>3. \E d \in StubDirs(s) : first(d)
  BY <1>1, <1>2, LeastOf
<1>4. StubDir(s) = CHOOSE d \in StubDirs(s) : first(d)
  BY Zenon DEF StubDir
<1> HIDE DEF first
<1> QED
  BY <1>1, <1>3, <1>4

LEMMA StopDirFound ==
  ASSUME NEW s \in Services, StopDirs(s) # {}
  PROVE  StopDir(s) \in StopDirs(s) /\ StopDirs(s) \subseteq DOMAIN IfaceIn[s]
<1>1. /\ Len(IfaceIn[s]) \in Nat /\ DOMAIN IfaceIn[s] = 1..Len(IfaceIn[s])
      /\ StopDirs(s) \subseteq DOMAIN IfaceIn[s]
  BY ServiceAssumption DEF IsList, StopDirs
<1>2. StopDirs(s) \subseteq 0..Len(IfaceIn[s])
  BY <1>1
<1> DEFINE first(d) == \A e \in StopDirs(s) : NotAfter(s, d, e)
<1>3. \E d \in StopDirs(s) : first(d)
  <2>1. PICK d \in StopDirs(s) : \A e \in StopDirs(s) : d <= e
    BY <1>1, <1>2, LeastOf
  <2>2. CASE StubDir(s) \in StopDirs(s)
    BY <2>2 DEF NotAfter
  <2>3. CASE StubDir(s) \notin StopDirs(s)
    BY <2>1, <2>3 DEF NotAfter
  <2> QED
    BY <2>2, <2>3
<1>4. StopDir(s) = CHOOSE d \in StopDirs(s) : first(d)
  BY Zenon DEF StopDir
<1> HIDE DEF first
<1> QED
  BY <1>1, <1>3, <1>4

(* Counting headers is enough: without overloads as many headers as there  *)
(* are methods are a header of each.                                       *)
LEMMA CountSuffices ==
  ASSUME NEW s \in Services, HasStub(s), NoOverloads(s),
         NEW d \in DOMAIN IfaceIn[s], Complete(s, IfaceIn[s][d]),
         NEW name \in MethodNames(s)
  PROVE  \E i \in DOMAIN IfaceIn[s][d].headers : Hits(IfaceIn[s][d], {name}) = {i}
<1> DEFINE file == IfaceIn[s][d]
           hits == Hits(file, MethodNames(s))
           f == [i \in hits |-> file.headers[i].name]
<1>1. d \in DOMAIN StubIn[s] /\ StubDir(s) \in DOMAIN StubIn[s]
  BY StubDirFound, ServiceAssumption DEF IsList
<1>2. IsIface(file) /\ IsStub(StubIn[s][StubDir(s)])
  BY <1>1, ServiceAssumption
<1>3. IsFiniteSet(MethodNames(s))
  <2> DEFINE fields == Constants(StubIn[s][StubDir(s)])
             g == [x \in MethodNames(s) |-> CHOOSE y \in fields : y.name = x]
  <2>1. IsFiniteSet(fields)
    BY <1>2, FS_Subset DEF IsStub, Constants
  <2>2. \A x \in MethodNames(s) : g[x] \in fields /\ g[x].name = x
    BY DEF MethodNames
  <2>3. g \in Injection(MethodNames(s), fields)
    BY <2>2 DEF Injection, IsInjective
  <2> HIDE DEF fields, g
  <2> QED
    BY <2>1, <2>3, FS_Injection
<1>4. f \in Injection(hits, MethodNames(s))
  <2>1. \A i \in hits : i \in DOMAIN file.headers /\ file.headers[i].name \in MethodNames(s)
    BY DEF Hits
  <2>2. \A i, j \in hits : f[i] = f[j] => i = j
    BY <2>1 DEF NoOverloads
  <2> QED
    BY <2>1, <2>2 DEF Injection, IsInjective
<1>5. Cardinality(hits) = Cardinality(MethodNames(s))
  BY DEF Complete
<1>6. f \in Surjection(hits, MethodNames(s))
  <2> HIDE DEF f, hits
  <2> QED
    BY <1>3, <1>4, <1>5, FS_Injection
<1>7. PICK i \in hits : f[i] = name
  BY <1>6 DEF Surjection
<1>8. i \in DOMAIN file.headers /\ file.headers[i].name = name
  BY <1>7 DEF Hits
<1>9. \A j \in DOMAIN file.headers : file.headers[j].name = name => j = i
  BY <1>8 DEF NoOverloads
<1> QED
  BY <1>8, <1>9 DEF Hits

(* The file that sufficed is the last that was read, so it has the header  *)
(* of every method.                                                        *)
LEMMA HeaderFromStop ==
  ASSUME NEW s \in Services, HasStub(s), NoOverloads(s), StopDirs(s) # {},
         Complete(s, IfaceIn[s][StopDir(s)]), NEW name \in MethodNames(s)
  PROVE  \E i \in DOMAIN IfaceIn[s][StopDir(s)].headers :
           /\ IfaceIn[s][StopDir(s)].headers[i].name = name
           /\ HeaderOf(s, name) = IfaceIn[s][StopDir(s)].headers[i]
<1> DEFINE stop == StopDir(s)
           dirs == DirsWith(s, name)
           last(d) == \A e \in dirs : NotAfter(s, e, d)
<1>1. stop \in DOMAIN IfaceIn[s] /\ DOMAIN IfaceIn[s] \subseteq Int
  BY StopDirFound, ServiceAssumption DEF IsList
<1>2. PICK i \in DOMAIN IfaceIn[s][stop].headers : Hits(IfaceIn[s][stop], {name}) = {i}
  <2>1. \A d \in DOMAIN IfaceIn[s] : Complete(s, IfaceIn[s][d]) =>
          \E i \in DOMAIN IfaceIn[s][d].headers : Hits(IfaceIn[s][d], {name}) = {i}
    BY CountSuffices
  <2>2. Complete(s, IfaceIn[s][stop])
    OBVIOUS
  <2> HIDE DEF stop
  <2> QED
    BY <1>1, <2>1, <2>2
<1>3. /\ dirs \subseteq Int /\ stop \in dirs /\ last(stop)
  BY <1>1, <1>2 DEF DirsWith, NotAfter
<1>4. \A d \in dirs : last(d) => d = stop
  BY <1>3 DEF NotAfter
<1>5. (CHOOSE d \in dirs : last(d)) = stop
  <2> HIDE DEF dirs, last, stop
  <2> QED
    BY <1>3, <1>4
<1>6. HeaderOf(s, name) = HeaderIn(IfaceIn[s][CHOOSE d \in dirs : last(d)], name)
  <2>1. dirs # {}
    BY <1>3
  <2> QED
    BY <2>1, Zenon DEF HeaderOf
<1>7. HeaderIn(IfaceIn[s][stop], name) = IfaceIn[s][stop].headers[i]
  <2> DEFINE h == Hits(IfaceIn[s][stop], {name})
  <2>1. IsList(IfaceIn[s][stop].headers)
    BY <1>1, ServiceAssumption DEF IsList, IsIface
  <2>2. i \in Int
    BY <2>1 DEF IsList
  <2>3. (CHOOSE k \in h : \A j \in h : j <= k) = i
    BY <1>2, <2>2
  <2> QED
    BY <2>3, Zenon DEF HeaderIn
<1>8. IfaceIn[s][stop].headers[i].name = name
  BY <1>2 DEF Hits
<1> QED
  BY <1>5, <1>6, <1>7, <1>8

(* What is stored of a method is what the smali of its service says.       *)
LEMMA MethodsAsWritten == \A m \in Methods : AsWritten(m)
<1> SUFFICES ASSUME NEW m \in Methods
             PROVE  AsWritten(m)
  OBVIOUS
<1>1. PICK s \in Services : m \in MethodsFound(s)
  BY DEF Methods
<1> DEFINE d == StubDir(s)
<1>2. HasStub(s) /\ ~Unreadable(s)
  BY <1>1 DEF MethodsFound
<1>3. \A n \in MethodsFound(s) : \E f \in Constants(StubIn[s][d]) : n = MethodRow(s, f)
  BY <1>2 DEF MethodsFound
<1>4. PICK f \in Constants(StubIn[s][d]) : m = MethodRow(s, f)
  BY <1>1, <1>3
<1>5. d \in DOMAIN StubIn[s]
  BY <1>2, StubDirFound
<1>6. /\ m.service = s /\ m.key[1] = f.name /\ m.txn = f.txn
      /\ m.sig = HeaderOf(s, f.name).args
      /\ m.key = <<f.name, HeaderOf(s, f.name).args, HeaderOf(s, f.name).ret>>
  BY <1>4 DEF MethodRow
<1>7. ASSUME NoOverloads(s), m.sig # None
      PROVE  /\ \E e \in DOMAIN IfaceIn[s] :
                   /\ Declares(IfaceIn[s][e], m)
                   /\ \A g \in Constants(StubIn[s][d]) : Hits(IfaceIn[s][e], {g.name}) # {}
             /\ \A n \in Methods : n.service = s => n.sig # None
  <2> DEFINE e == StopDir(s)
  <2>1. StopDirs(s) # {}
    BY <1>6, <1>7 DEF HeaderOf, NoHeader
  <2>2. e \in StopDirs(s) /\ e \in DOMAIN IfaceIn[s]
    BY <2>1, StopDirFound
  <2>3. Complete(s, IfaceIn[s][e])
    BY <1>2, <2>1, <2>2 DEF Unreadable, StopDirs
  <2>4. \A g \in Constants(StubIn[s][d]) : g.name \in MethodNames(s)
    BY DEF MethodNames
  <2>5. ASSUME NEW g \in Constants(StubIn[s][d])
        PROVE  \E i \in DOMAIN IfaceIn[s][e].headers :
                 /\ IfaceIn[s][e].headers[i].name = g.name
                 /\ HeaderOf(s, g.name) = IfaceIn[s][e].headers[i]
    BY <1>2, <1>7, <2>1, <2>3, <2>4, HeaderFromStop
  <2>6. \A g \in Constants(StubIn[s][d]) : Hits(IfaceIn[s][e], {g.name}) # {}
    BY <2>5 DEF Hits
  <2>7. Declares(IfaceIn[s][e], m)
    BY <1>6, <2>5 DEF Declares
  <2>8. ASSUME NEW n \in Methods, n.service = s
        PROVE  n.sig # None
    <3>1. n \in MethodsFound(s)
      BY <2>8 DEF Methods, MethodsFound, MethodRow
    <3>2. PICK g \in Constants(StubIn[s][d]) : n = MethodRow(s, g)
      BY <1>3, <3>1
    <3>3. PICK i \in DOMAIN IfaceIn[s][e].headers : n.sig = IfaceIn[s][e].headers[i].args
      BY <2>5, <3>2 DEF MethodRow
    <3>4. IsIface(IfaceIn[s][e])
      BY <2>2, ServiceAssumption DEF IsList
    <3> QED
      BY <3>3, <3>4 DEF IsIface
  <2> QED
    BY <2>2, <2>6, <2>7, <2>8
<1> QED
  BY <1>4, <1>5, <1>6, <1>7 DEF AsWritten

(* The kinds of items are disjoint.                                        *)
LEMMA ItemFacts ==
  \A i \in Items :
    /\ i.kind \in Kinds
    /\ i.kind = "apk"     <=> i \in AllApks
    /\ i.kind = "service" <=> i \in AllServices
    /\ i.kind = "method"  <=> i \in Methods
    /\ i.kind \in CompKinds <=> i \in Comps
  BY CompFacts, KeyFacts, MethodFacts
  DEF Items, AllApks, AllServices, Kinds, CompKinds, IpcKinds

(* What belongs to an APK belongs to no other, and is neither a service    *)
(* nor a method.                                                           *)
LEMMA ApkFacts ==
  \A a \in Apks :
    /\ OfApk(a) \subseteq Items
    /\ \A i \in OfApk(a) : i.kind \notin {"service", "method"}
    /\ \A b \in Apks \ {a} : OfApk(a) \cap OfApk(b) = {}
<1>1. TAKE a \in Apks
<1>2. \A i \in OfApk(a) : i = ApkItem(a) \/ (i \in Comps /\ i.apk = a)
  BY DEF OfApk, CompsOf
<1>3. OfApk(a) \subseteq Items
  BY <1>2 DEF Items, AllApks
<1>4. \A i \in OfApk(a) : i.kind \notin {"service", "method"}
  BY <1>2, CompFacts, KeyFacts DEF CompKinds, IpcKinds
<1>5. ASSUME NEW b \in Apks \ {a}, NEW i \in OfApk(a), i \in OfApk(b)
      PROVE  FALSE
  <2>1. i = ApkItem(b) \/ (i \in Comps /\ i.apk = b)
    BY <1>5 DEF OfApk, CompsOf
  <2>2. ApkItem(a) # ApkItem(b)
    BY <1>5, KeyFacts
  <2>3. \A c \in Comps : c.kind # "apk"
    BY CompFacts DEF CompKinds, IpcKinds
  <2> QED
    BY <1>2, <1>5, <2>1, <2>2, <2>3, KeyFacts
<1> QED
  BY <1>3, <1>4, <1>5

-------------------------------------------------------------------------------
(* Where a command can be, and what it has in hand there.                  *)

Setting == {"setup", "unrecord", "unrecorddiff", "apks", "services"}
Diffing == {"phase", "rows", "methods", "diffed", "copy"}
Pcs == Setting \cup Diffing \cup
  {"idle", "insert", "dbwipe", "forgetdiff", "forget", "diff", "undo", "emulator",
   "reinsert", "reopen", "addsource", "removesource", "removefile", "addapk",
   "added", "deletemethods", "deletediffs", "readd"}

(* What the user asked for.                                                *)
Command ==
  /\ cmd.op = "setup" => {cmd.force, cmd.diff} \subseteq BOOLEAN
  /\ cmd.op = "emulator" => cmd.force \in BOOLEAN
  /\ cmd.op = "addsource" => cmd.src \in Sources /\ cmd.version \in Versions
  /\ cmd.op = "addapk" => cmd.apk \in Apks /\ {cmd.force, cmd.diff} \subseteq BOOLEAN
  /\ cmd.op = "addimpl" => cmd.service \in Services /\ cmd.diff \in BOOLEAN

(* Each place belongs to some commands.                                    *)
Control ==
  /\ pc \in Pcs
  /\ pc \in Setting => cmd.op = "setup"
  /\ pc = "insert" => cmd.op \in {"setup", "addapk"}
  /\ pc \in {"dbwipe", "forgetdiff", "forget"} => cmd.op = "wipe"
  /\ pc \in {"emulator", "reinsert", "reopen"} => cmd.op = "emulator"
  /\ pc \in {"addsource", "undo"} => cmd.op = "addsource"
  /\ pc \in {"removesource", "removefile"} => cmd.op = "removesource"
  /\ pc = "addapk" => cmd.op = "addapk"
  /\ pc = "added" => cmd.op \in {"addapk", "addimpl"}
  /\ pc \in {"deletemethods", "deletediffs", "readd"} => cmd.op = "addimpl"
  /\ pc \in Diffing \cup {"diff"} =>
       cmd.op \in {"setup", "emulator", "addsource", "addapk", "addimpl"}
  /\ pc = "copy" => cmd.op \in {"setup", "addsource"}

(* Outside the loops there is nothing left to do, and a database whose     *)
(* file was removed is open only in a command that wipes it.               *)
Loops ==
  /\ pc \notin {"apks", "insert", "services", "rows", "methods"} => todo = {}
  /\ pc = "insert" /\ cmd.op # "setup" => todo = {}
  /\ pc \notin {"insert", "methods"} => work = {}
  /\ pc \notin {"phase", "rows", "methods", "undo"} => phase = {}
  /\ pc = "idle" => ~report
  /\ pc \notin {"diff", "undo"} \cup Diffing => queue = {}
  /\ moved => pc \in {"unrecord", "unrecorddiff", "apks", "services", "forgetdiff", "forget"}
  /\ pc \in {"unrecord", "unrecorddiff", "forgetdiff", "forget"} => moved
  /\ {moved, report, cancelled} \subseteq BOOLEAN

Placed == Command /\ Control /\ Loops

LEMMA EndPlaced ==
  ASSUME NEW result, NEW content, Placed, End(result, content), UNCHANGED cmd
  PROVE  Placed'
  BY DEF Placed, Command, Control, Loops, End, Pcs, Setting, Diffing

LEMMA StartPlaced == ASSUME Placed, Starts PROVE Placed'
<1> USE DEF Placed, Command, Control, Loops, Start, Pcs, Setting, Diffing, diff, meta
<1>1. CASE StartSetup
  BY <1>1 DEF StartSetup
<1>2. CASE StartWipe
  BY <1>2 DEF StartWipe
<1>3. CASE StartEmulator
  BY <1>3 DEF StartEmulator
<1>4. CASE StartAddSource
  BY <1>4 DEF StartAddSource
<1>5. CASE StartRemoveSource
  BY <1>5 DEF StartRemoveSource
<1>6. CASE StartAddApk
  BY <1>6 DEF StartAddApk
<1>7. CASE StartAddImpl
  BY <1>7 DEF StartAddImpl
<1> QED
  BY <1>1, <1>2, <1>3, <1>4, <1>5, <1>6, <1>7 DEF Starts

LEMMA SetupPlaced == ASSUME Placed, SetupSteps PROVE Placed'
<1> USE DEF Placed, Command, Control, Loops, Pcs, Setting, Diffing, meta, diff, run, steady, Goto
<1>1. CASE AlreadySetup \/ SetupCancelled \/ ServiceRefused
  BY <1>1, EndPlaced DEF AlreadySetup, SetupCancelled, ServiceRefused, Fails
<1>2. CASE BeginFresh
  BY <1>2 DEF BeginFresh
<1>3. CASE Wipe
  BY <1>3 DEF Wipe
<1>4. CASE UnrecordSetup \/ UnrecordDiff \/ ForgetDiff
  BY <1>4 DEF UnrecordSetup, UnrecordDiff, ForgetDiff
<1>5. CASE ForgetSetup
  BY <1>5, EndPlaced DEF ForgetSetup
<1>6. CASE \E a \in Apks : NoSuchManifest(a) \/ ApkRefused(a) \/ BeginApk(a)
  <2>1. CASE \E a \in Apks : NoSuchManifest(a)
    BY <2>1 DEF NoSuchManifest
  <2>2. CASE \E a \in Apks : ApkRefused(a)
    BY <2>2 DEF ApkRefused
  <2>3. CASE \E a \in Apks : BeginApk(a)
    BY <2>3 DEF BeginApk
  <2> QED
    BY <1>6, <2>1, <2>2, <2>3
<1>7. CASE \E c \in Comps : InsertComp(c)
  BY <1>7 DEF InsertComp
<1>8. CASE CommitApk
  BY <1>8 DEF CommitApk
<1>9. CASE ApkCancelled
  BY <1>9, EndPlaced DEF ApkCancelled, Rollback
<1>10. CASE ListServices
  BY <1>10 DEF ListServices
<1>11. CASE \E s \in Services : AddService(s)
  BY <1>11 DEF AddService
<1>12. CASE RecordSetup
  BY <1>12, EndPlaced DEF RecordSetup, EndReporting
<1> QED
  BY <1>1, <1>2, <1>3, <1>4, <1>5, <1>6, <1>7, <1>8, <1>9, <1>10, <1>11, <1>12
  DEF SetupSteps

LEMMA DiffPlaced == ASSUME Placed, DiffSteps PROVE Placed'
<1> USE DEF Placed, Command, Control, Loops, Pcs, Setting, Diffing, meta, diff, run, steady, Goto
<1>1. CASE \E s \in Sources : NextSource(s)
  <2>1. /\ pc = "diff" /\ UNCHANGED <<work, moved, cmd, report>> /\ cancelled' = FALSE
    BY <1>1 DEF NextSource
  <2>2. CASE cmd.op = "addimpl"
    <3>1. pc' = "rows"
      BY <1>1, <2>2 DEF NextSource
    <3> QED
      BY <2>1, <3>1
  <2>3. CASE cmd.op # "addimpl"
    <3>1. pc' = "phase" /\ UNCHANGED todo
      BY <1>1, <2>3 DEF NextSource
    <3> QED
      BY <2>1, <3>1
  <2> QED
    BY <2>2, <2>3
<1>2. CASE \E k \in Kinds \ {"method"} : BeginPhase(k)
  BY <1>2 DEF BeginPhase
<1>3. CASE \E i \in Items : DiffItem(i) \/ DiffService(i)
  BY <1>3 DEF DiffItem, DiffService
<1>4. CASE (\E i \in Items : ServiceHasRow(i)) \/ DiffCancelled
  BY <1>4, EndPlaced DEF ServiceHasRow, DiffCancelled, DiffFails
<1>5. CASE \E m \in Methods : DiffMethod(m)
  BY <1>5 DEF DiffMethod
<1>6. CASE ServiceDone
  BY <1>6, EndPlaced DEF ServiceDone, DiffFails
<1>7. CASE EndPhase
  BY <1>7 DEF EndPhase
<1>8. CASE Diffed
  BY <1>8, EndPlaced DEF Diffed
<1>9. CASE CopyFile \/ EndOfSources
  BY <1>9, EndPlaced DEF CopyFile, EndOfSources, EndReporting
<1> QED
  BY <1>1, <1>2, <1>3, <1>4, <1>5, <1>6, <1>7, <1>8, <1>9 DEF DiffSteps

LEMMA OtherPlaced == ASSUME Placed, OtherSteps PROVE Placed'
<1> USE DEF Placed, Command, Control, Loops, Pcs, Setting, Diffing, meta, diff, run, steady, Goto
<1>1. CASE AlreadyDiffed \/ NoEmulator \/ SourceExists \/ Undo \/ RemoveFile \/ ApkExists
  BY <1>1, EndPlaced
  DEF AlreadyDiffed, NoEmulator, SourceExists, Undo, RemoveFile, ApkExists, Fails
<1>2. CASE BeginDiff \/ DeleteEmulator \/ InsertEmulator \/ ReopenDiff
  BY <1>2 DEF BeginDiff, DeleteEmulator, InsertEmulator, ReopenDiff
<1>3. CASE InsertSource \/ DeleteSource \/ ReplaceApk
  BY <1>3 DEF InsertSource, DeleteSource, ReplaceApk
<1>4. CASE AddOneApk \/ DiffAdded
  BY <1>4 DEF AddOneApk, DiffAdded
<1>5. CASE DeleteMethods \/ DeleteDiffs \/ ReaddMethods
  BY <1>5 DEF DeleteMethods, DeleteDiffs, ReaddMethods
<1> QED
  BY <1>1, <1>2, <1>3, <1>4, <1>5 DEF OtherSteps

LEMMA FaultPlaced ==
  ASSUME Placed, Cancel \/ Fault \/ Kill \/ UNCHANGED vars
  PROVE  Placed'
<1> USE DEF Placed, Command, Control, Loops, Pcs, Setting, Diffing, meta, diff, run, steady
<1>1. CASE Cancel
  BY <1>1 DEF Cancel
<1>2. CASE Fault
  <2>1. CASE pc = "insert"
    BY <1>2, <2>1, EndPlaced DEF Fault, Rollback
  <2>2. CASE pc \in {"diff", "phase", "rows", "methods"}
    BY <1>2, <2>2, EndPlaced DEF Fault, DiffFails
  <2>3. CASE pc \notin {"insert", "diff", "phase", "rows", "methods"}
    BY <1>2, <2>3, EndPlaced DEF Fault
  <2> QED
    BY <2>1, <2>2, <2>3
<1>3. CASE Kill
  BY <1>3, EndPlaced DEF Kill
<1>4. CASE UNCHANGED vars
  BY <1>4 DEF vars, process
<1> QED
  BY <1>1, <1>2, <1>3, <1>4

LEMMA InitPlaced == Init => Placed
<1> SUFFICES ASSUME Init PROVE Placed
  OBVIOUS
<1>1. cmd.op = "none" /\ pc = "idle"
  BY DEF Init
<1>2. Command /\ Control
  BY <1>1 DEF Command, Control, Pcs, Setting, Diffing
<1>3. Loops
  BY <1>1 DEF Init, Loops, Setting, Diffing
<1> QED
  BY <1>2, <1>3 DEF Placed

-------------------------------------------------------------------------------
(* The database: what each statement makes of it.                          *)

DbOK(d) ==
  /\ d = [items |-> d.items, sources |-> d.sources, rows |-> d.rows]
  /\ d.items \subseteq Items /\ d.sources \subseteq Sources
  /\ \A r \in d.rows : r.item \in d.items /\ r.src \in d.sources

LEMMA FreshFacts ==
  /\ FreshDb.items = {} /\ FreshDb.sources = {Emulator} /\ FreshDb.rows = {}
  /\ DbOK(FreshDb)
  BY DEF FreshDb, DbOK, Sources

LEMMA ItemsAdded ==
  ASSUME NEW d, DbOK(d), NEW new, new \subseteq Items,
         NEW e, e = [d EXCEPT !.items = @ \cup new]
  PROVE  /\ e.items = d.items \cup new /\ e.sources = d.sources /\ e.rows = d.rows
         /\ DbOK(e)
<1>1. e = [items |-> d.items \cup new, sources |-> d.sources, rows |-> d.rows]
  BY DEF DbOK
<1> QED
  BY <1>1 DEF DbOK

LEMMA SourceAdded ==
  ASSUME NEW d, DbOK(d), NEW s \in Sources,
         NEW e, e = [d EXCEPT !.sources = @ \cup {s}]
  PROVE  /\ e.items = d.items /\ e.sources = d.sources \cup {s} /\ e.rows = d.rows
         /\ DbOK(e)
<1>1. e = [items |-> d.items, sources |-> d.sources \cup {s}, rows |-> d.rows]
  BY DEF DbOK
<1> QED
  BY <1>1 DEF DbOK

LEMMA RowsChanged ==
  ASSUME NEW d, DbOK(d), NEW rows,
         \A r \in rows : r.item \in d.items /\ r.src \in d.sources,
         NEW e, e = [d EXCEPT !.rows = rows]
  PROVE  /\ e.items = d.items /\ e.sources = d.sources /\ e.rows = rows
         /\ DbOK(e)
<1>1. e = [items |-> d.items, sources |-> d.sources, rows |-> rows]
  BY DEF DbOK
<1> QED
  BY <1>1 DEF DbOK

LEMMA ItemsRemoved ==
  ASSUME NEW d, DbOK(d), NEW gone, NEW e, e = WithoutItems(d, gone)
  PROVE  /\ e.items = d.items \ gone /\ e.sources = d.sources
         /\ e.rows = {r \in d.rows : r.item \notin gone}
         /\ DbOK(e)
<1> DEFINE items == d.items \ gone
           rows == {r \in d.rows : r.item \notin gone}
<1>1. e = [d EXCEPT !.items = items, !.rows = rows]
  BY DEF WithoutItems
<1>2. rows \subseteq d.rows /\ \A r \in rows : r.item \notin gone
  OBVIOUS
<1>3. d.items \subseteq Items /\ items = d.items \ gone
  BY DEF DbOK
<1> HIDE DEF items, rows
<1>4. e = [items |-> items, sources |-> d.sources, rows |-> rows]
  BY <1>1 DEF DbOK
<1>5. DbOK(e)
  BY <1>2, <1>3, <1>4 DEF DbOK
<1> QED
  BY <1>4, <1>5 DEF items, rows

LEMMA SourceRemoved ==
  ASSUME NEW d, DbOK(d), NEW s, NEW e, e = WithoutSource(d, s)
  PROVE  /\ e.items = d.items /\ e.sources = d.sources \ {s}
         /\ e.rows = {r \in d.rows : r.src # s}
         /\ DbOK(e)
<1> DEFINE sources == d.sources \ {s}
           rows == {r \in d.rows : r.src # s}
<1>1. e = [d EXCEPT !.sources = sources, !.rows = rows]
  BY DEF WithoutSource
<1>2. rows \subseteq d.rows /\ \A r \in rows : r.src # s
  OBVIOUS
<1>3. d.sources \subseteq Sources /\ sources = d.sources \ {s}
  BY DEF DbOK
<1> HIDE DEF sources, rows
<1>4. e = [items |-> d.items, sources |-> sources, rows |-> rows]
  BY <1>1 DEF DbOK
<1>5. DbOK(e)
  BY <1>2, <1>3, <1>4 DEF DbOK
<1> QED
  BY <1>4, <1>5 DEF sources, rows

(* A diff adds one row, of the item at hand and the source at hand.        *)
LEMMA RowAdded ==
  ASSUME DbOK(db), NEW i, i \in db.items, other.src \in db.sources, Insert(i)
  PROVE  \E row \in Compare(i, Content[other.version]) :
           LET new == [item |-> i, src |-> other.src, row |-> row]
           IN /\ db'.items = db.items /\ db'.sources = db.sources
              /\ db'.rows = db.rows \cup {new}
              /\ DbOK(db')
<1>1. PICK row \in Compare(i, Content[other.version]) :
        db' = [db EXCEPT !.rows = @ \cup {[item |-> i, src |-> other.src, row |-> row]}]
  BY DEF Insert
<1> DEFINE new == [item |-> i, src |-> other.src, row |-> row]
           rows == db.rows \cup {new}
<1>2. \A r \in rows : r.item \in db.items /\ r.src \in db.sources
  BY DEF DbOK
<1>3. db' = [db EXCEPT !.rows = rows]
  BY <1>1
<1> HIDE DEF rows
<1>4. db'.items = db.items /\ db'.sources = db.sources /\ db'.rows = rows /\ DbOK(db')
  BY <1>2, <1>3, RowsChanged
<1> QED
  BY <1>4 DEF rows

-------------------------------------------------------------------------------
(* Types, with what the steps of a diff have in hand.                      *)

Versioned == Versions \cup {Aosp, Empty}

Basics ==
  /\ recorded \subseteq {"setup", "diff"}
  /\ files \in [Sources -> Versioned \cup {None}]
  /\ outcome \in {"none", "ok", "error"}
  /\ faults \in 0 .. MaxFaults

Kept ==
  /\ DbOK(db)
  /\ todo \subseteq Items /\ work \subseteq Items
  /\ phase \subseteq Kinds /\ queue \subseteq Sources

(* The source of a diff is one of the database's, and the items in hand    *)
(* are in the database; a service in hand has its row.  What a diff        *)
(* compares with is fixed by the command, but for add-apk and              *)
(* add-service-impl, whose sources have files of their own.                *)
Source ==
  pc \in Diffing =>
    /\ other.src \in db.sources /\ other.version \in Versioned
    /\ cmd.op \in {"setup", "emulator"} => other = [src |-> Emulator, version |-> Aosp]
    /\ cmd.op = "addsource" => other = [src |-> cmd.src, version |-> cmd.version]

Queue ==
  /\ pc \in {"diff", "phase", "rows", "methods", "diffed"} => queue \subseteq db.sources
  /\ pc = "diff" =>
       /\ cmd.op \in {"setup", "emulator"} => queue = {Emulator}
       /\ cmd.op = "addsource" => queue = {cmd.src}
  /\ pc = "reopen" => Emulator \in db.sources

InHand ==
  /\ pc \in {"rows", "methods"} => todo \subseteq db.items
  /\ pc = "methods" => \A i \in work :
       i.kind = "service" /\ i \in db.items /\ RowsFor(i, other.src) # {}

(* The service of add-service-impl is there, and none of its methods when  *)
(* its rows are deleted.                                                   *)
Reanalysed ==
  cmd.op = "addimpl" /\ pc # "idle" =>
    /\ ServiceItem(cmd.service) \in db.items
    /\ phase = {} /\ todo \subseteq {ServiceItem(cmd.service)}
    /\ pc \in {"deletediffs", "readd"} => MethodsOf(cmd.service) \cap db.items = {}

(* Commands that the setup comes before.                                   *)
Prepared ==
  cmd.op \in {"addapk", "addsource", "removesource"} /\ pc # "idle" => "setup" \in recorded

Held == Source /\ Queue /\ InHand /\ Reanalysed /\ Prepared

Sound == Placed /\ Basics /\ Kept /\ Held

LEMMA SoundTyped == Sound => TypeOK
  BY DEF Sound, Placed, Loops, Basics, Kept, DbOK, TypeOK, Versioned

(* The process ends with the database as it was, or a new one.             *)
LEMMA EndDb ==
  ASSUME NEW result, NEW content, End(result, content), DbOK(content)
  PROVE  /\ DbOK(db') /\ db' \in {content, FreshDb}
         /\ pc' = "idle" /\ ~moved' /\ outcome' = result
  BY FreshFacts DEF End

LEMMA EndHeld ==
  ASSUME NEW result, NEW content, End(result, content), DbOK(content)
  PROVE  Kept' /\ Held'
<1>1. DbOK(db') /\ pc' = "idle"
  BY EndDb
<1>2. Kept'
  BY <1>1 DEF Kept, End
<1> QED
  BY <1>1, <1>2
  DEF Held, Source, Queue, InHand, Reanalysed, Prepared, Diffing

LEMMA StartHeld == ASSUME Placed, Kept, Starts PROVE Kept' /\ Held'
<1>1. /\ UNCHANGED <<recorded, db, todo, work, phase, queue>>
      /\ todo = {} /\ phase = {}
      /\ pc' \notin Diffing \cup {"diff", "reopen", "deletediffs", "readd"}
  BY DEF Starts, StartSetup, StartWipe, StartEmulator, StartAddSource,
         StartRemoveSource, StartAddApk, StartAddImpl, Start, meta, diff, Diffing,
         Placed, Loops
<1>2. Kept'
  BY <1>1 DEF Kept
<1>3. Source' /\ Queue' /\ InHand'
  BY <1>1 DEF Source, Queue, InHand, Diffing
<1>4. cmd'.op = "addimpl" => ServiceItem(cmd'.service) \in db.items
  BY DEF Starts, StartSetup, StartWipe, StartEmulator, StartAddSource,
         StartRemoveSource, StartAddApk, StartAddImpl, Start
<1>5. cmd'.op \in {"addapk", "addsource", "removesource"} => "setup" \in recorded
  BY DEF Starts, StartSetup, StartWipe, StartEmulator, StartAddSource,
         StartRemoveSource, StartAddApk, StartAddImpl, Start
<1>6. Reanalysed' /\ Prepared'
  BY <1>1, <1>4, <1>5 DEF Reanalysed, Prepared
<1> QED
  BY <1>2, <1>3, <1>6 DEF Held

(* A step outside the diffs of a command that is neither add-service-impl  *)
(* nor has the setup before it.                                            *)
LEMMA ElsewhereHeld ==
  ASSUME Kept', pc' \notin Diffing \cup {"diff", "reopen"},
         cmd'.op \notin {"addimpl", "addapk", "addsource", "removesource"}
  PROVE  Held'
  BY DEF Held, Source, Queue, InHand, Reanalysed, Prepared, Diffing

LEMMA SetupHeld == ASSUME Placed, Kept, Held, SetupSteps PROVE Kept' /\ Held'
<1> USE DEF Kept
<1>1. CASE AlreadySetup \/ SetupCancelled \/ ServiceRefused
  BY <1>1, EndHeld DEF AlreadySetup, SetupCancelled, ServiceRefused, Fails
<1>2. CASE BeginFresh \/ Wipe \/ UnrecordSetup \/ UnrecordDiff \/ ForgetDiff \/ ListServices
  <2>1. /\ UNCHANGED <<db, work, phase, queue, cmd>>
        /\ todo' \in {todo, AllApks, AllServices}
        /\ pc' \notin Diffing \cup {"diff", "reopen"}
        /\ cmd.op \in {"setup", "wipe"}
    BY <1>2 DEF BeginFresh, Wipe, UnrecordSetup, UnrecordDiff, ForgetDiff, ListServices,
                Goto, steady, diff, run, Diffing, Placed, Control, Setting
  <2>2. Kept'
    BY <2>1 DEF Items
  <2> QED
    BY <2>1, <2>2, ElsewhereHeld
<1>3. CASE ForgetSetup
  BY <1>3, EndHeld DEF ForgetSetup
<1>4. CASE \E a \in Apks : NoSuchManifest(a) \/ ApkRefused(a) \/ BeginApk(a)
  <2>1. PICK a \in Apks : NoSuchManifest(a) \/ ApkRefused(a) \/ BeginApk(a)
    BY <1>4
  <2>2. /\ UNCHANGED <<db, phase, queue, cmd>> /\ todo' \subseteq todo
        /\ work' \in {work, {ApkItem(a)}}
        /\ pc' \in {"apks", "insert"} /\ cmd.op = "setup"
    BY <2>1 DEF NoSuchManifest, ApkRefused, BeginApk, steady, diff, run, Placed,
                Control, Setting
  <2>3. Kept'
    BY <2>2 DEF Items, AllApks
  <2> QED
    BY <2>2, <2>3, ElsewhereHeld DEF Diffing
<1>5. CASE \E c \in Comps : InsertComp(c)
  <2>1. PICK c \in Comps : InsertComp(c)
    BY <1>5
  <2>2. /\ UNCHANGED <<recorded, db, pc, todo, phase, queue, cmd>>
        /\ work' = work \cup {c} /\ pc = "insert" /\ cmd.op \in {"setup", "addapk"}
    BY <2>1 DEF InsertComp, steady, diff, run, meta, Placed, Control
  <2>3. Kept'
    BY <2>2 DEF Items
  <2> QED
    BY <2>2, <2>3
    DEF Held, Source, Queue, InHand, Reanalysed, Prepared, Diffing
<1>6. CASE CommitApk
  <2>1. /\ UNCHANGED <<recorded, todo, phase, queue, cmd>>
        /\ db' = [db EXCEPT !.items = @ \cup work] /\ work' = {}
        /\ pc' \in {"apks", "added"} /\ pc = "insert" /\ cmd.op \in {"setup", "addapk"}
    BY <1>6 DEF CommitApk, steady, diff, run, meta, Placed, Control
  <2>2. Kept'
    BY <2>1, ItemsAdded
  <2> QED
    BY <2>1, <2>2
    DEF Held, Source, Queue, InHand, Reanalysed, Prepared, Diffing
<1>7. CASE ApkCancelled
  <2>1. CASE cmd.op = "setup"
    <3>1. /\ UNCHANGED <<db, todo, phase, queue, cmd>>
          /\ work' = {} /\ pc' = "apks"
      BY <1>7, <2>1 DEF ApkCancelled, Rollback, diff, meta
    <3> QED
      BY <2>1, <3>1, ElsewhereHeld DEF Diffing
  <2>2. CASE cmd.op # "setup"
    BY <1>7, <2>2, EndHeld DEF ApkCancelled, Rollback
  <2> QED
    BY <2>1, <2>2
<1>8. CASE \E s \in Services : AddService(s)
  <2>1. PICK s \in Services : AddService(s)
    BY <1>8
  <2>2. /\ UNCHANGED <<pc, work, phase, queue, cmd>> /\ todo' \subseteq todo
        /\ pc = "services" /\ cmd.op = "setup"
    BY <2>1 DEF AddService, steady, diff, run, Placed, Control, Setting
  <2>3. DbOK(db')
    <3>1. CASE UNCHANGED db
      BY <3>1
    <3>2. CASE \E found \in {MethodsOf(s), {}} :
                 db' = [db EXCEPT !.items = @ \cup {ServiceItem(s)} \cup found]
      <4>1. PICK found \in {MethodsOf(s), {}} :
              db' = [db EXCEPT !.items = @ \cup {ServiceItem(s)} \cup found]
        BY <3>2
      <4> DEFINE new == {ServiceItem(s)} \cup found
      <4>2. db' = [db EXCEPT !.items = @ \cup new]
        <5>1. db.items \cup {ServiceItem(s)} \cup found = db.items \cup new
          OBVIOUS
        <5> HIDE DEF new
        <5> QED
          BY <4>1, <5>1
      <4>3. new \subseteq Items
        BY DEF Items, AllServices, MethodsOf
      <4> HIDE DEF new
      <4> QED
        BY <4>2, <4>3, ItemsAdded
    <3> QED
      BY <2>1, <3>1, <3>2 DEF AddService
  <2> QED
    BY <2>2, <2>3, ElsewhereHeld DEF Diffing
<1>9. CASE RecordSetup
  <2>1. /\ pc = "services" /\ todo = {} /\ work = {} /\ phase = {}
        /\ cmd' = cmd /\ cmd.op = "setup"
    BY <1>9 DEF RecordSetup, Placed, Control, Loops, Setting
  <2>2. CASE cmd.diff /\ Emulator \in db.sources
    <3>1. /\ pc' = "diff" /\ queue' = {Emulator}
          /\ UNCHANGED <<db, todo, work, phase>>
      BY <1>9, <2>2 DEF RecordSetup
    <3>2. Kept'
      BY <2>1, <3>1 DEF Sources
    <3> QED
      BY <2>1, <2>2, <3>1, <3>2
      DEF Held, Source, Queue, InHand, Reanalysed, Prepared, Diffing
  <2>3. CASE ~(cmd.diff /\ Emulator \in db.sources)
    BY <1>9, <2>3, EndHeld DEF RecordSetup, EndReporting
  <2> QED
    BY <2>2, <2>3
<1> QED
  BY <1>1, <1>2, <1>3, <1>4, <1>5, <1>6, <1>7, <1>8, <1>9 DEF SetupSteps

(* A row that a diff adds leaves what is in hand as it was.                *)
LEMMA RowsStay ==
  ASSUME DbOK(db), NEW i, i \in db.items, other.src \in db.sources, Insert(i)
  PROVE  /\ DbOK(db') /\ db'.items = db.items /\ db'.sources = db.sources
         /\ db.rows \subseteq db'.rows
         /\ \E r \in db'.rows : r.item = i /\ r.src = other.src
<1>1. PICK row \in Compare(i, Content[other.version]) :
        LET new == [item |-> i, src |-> other.src, row |-> row]
        IN /\ db'.items = db.items /\ db'.sources = db.sources
           /\ db'.rows = db.rows \cup {new}
           /\ DbOK(db')
  BY RowAdded
<1> DEFINE new == [item |-> i, src |-> other.src, row |-> row]
<1>2. new \in db'.rows /\ new.item = i /\ new.src = other.src
  BY <1>1
<1> QED
  BY <1>1, <1>2

LEMMA DiffFailsHeld ==
  ASSUME Kept, Held, DiffFails, UNCHANGED <<cmd, recorded>>, pc # "idle"
  PROVE  Kept' /\ Held'
<1>1. CASE cmd.op = "addsource"
  <2>1. /\ UNCHANGED <<db, phase, queue>> /\ pc' = "undo" /\ todo' = {} /\ work' = {}
    BY <1>1 DEF DiffFails, diff
  <2>2. Kept'
    BY <2>1 DEF Kept
  <2> QED
    BY <1>1, <2>1, <2>2 DEF Held, Source, Queue, InHand, Reanalysed, Prepared, Diffing
<1>2. CASE cmd.op # "addsource"
  BY <1>2, EndHeld DEF DiffFails, Kept
<1> QED
  BY <1>1, <1>2

(* A diff's loops go on with the same items and sources in the database.   *)
LEMMA GoesOn ==
  ASSUME Held, DbOK(db), UNCHANGED <<cmd, recorded, other>>, pc \in Diffing,
         DbOK(db'), db'.items = db.items, db'.sources = db.sources,
         pc' \in Diffing, queue' = queue
  PROVE  /\ Source' /\ Prepared' /\ (pc # "copy" => Queue')
<1>1. Source'
  BY DEF Held, Source
<1>2. Prepared'
  BY DEF Held, Prepared, Diffing
<1>3. ASSUME pc # "copy" PROVE Queue'
  BY <1>3 DEF Held, Queue, Diffing
<1> QED
  BY <1>1, <1>2, <1>3

LEMMA DiffHeld == ASSUME Placed, Basics, Kept, Held, DiffSteps PROVE Kept' /\ Held'
<1> USE DEF Kept
<1>1. CASE \E s \in Sources : NextSource(s)
  <2>1. PICK s \in Sources : NextSource(s)
    BY <1>1
  <2>2. /\ pc = "diff" /\ UNCHANGED <<recorded, db, work, cmd>>
        /\ s \in queue /\ queue' = queue \ {s}
        /\ other' = [src |-> s, version |-> VersionOf(s)]
        /\ todo = {} /\ work = {} /\ phase = {}
    BY <2>1 DEF NextSource, run, Placed, Loops, Diffing
  <2>3. /\ s \in db.sources /\ queue \subseteq db.sources
        /\ cmd.op \in {"setup", "emulator"} => s = Emulator
        /\ cmd.op = "addsource" => s = cmd.src
    BY <2>2 DEF Held, Queue
  <2>4. /\ VersionOf(s) \in Versioned
        /\ cmd.op \in {"setup", "emulator"} => VersionOf(s) = Aosp
        /\ cmd.op = "addsource" => VersionOf(s) = cmd.version
    BY DEF VersionOf, Given, Versioned, Placed, Command, Basics
  <2>5. other'.src = s /\ other'.version = VersionOf(s)
    BY <2>2
  <2>6. CASE cmd.op = "addimpl"
    <3>1. phase' = {} /\ todo' = {ServiceItem(cmd.service)} /\ pc' = "rows"
      BY <2>1, <2>6 DEF NextSource
    <3>2. ServiceItem(cmd.service) \in db.items
      BY <2>2, <2>6 DEF Held, Reanalysed
    <3> QED
      BY <2>2, <2>3, <2>4, <2>5, <2>6, <3>1, <3>2
      DEF Held, Source, Queue, InHand, Reanalysed, Prepared, Diffing, DbOK
  <2>7. CASE cmd.op # "addimpl"
    <3>1. /\ phase' \in {ApkPhases, {"service"} \cup ApkPhases}
          /\ pc' = "phase" /\ todo' = todo
      BY <2>1, <2>7 DEF NextSource
    <3>2. phase' \subseteq Kinds
      BY <3>1 DEF ApkPhases, Kinds
    <3> QED
      BY <2>2, <2>3, <2>4, <2>5, <2>7, <3>1, <3>2
      DEF Held, Source, Queue, InHand, Reanalysed, Prepared, Diffing
  <2> QED
    BY <2>6, <2>7
<1>2. CASE \E k \in Kinds \ {"method"} : BeginPhase(k)
  <2>1. PICK k \in Kinds \ {"method"} : BeginPhase(k)
    BY <1>2
  <2>2. /\ pc = "phase" /\ pc' = "rows" /\ UNCHANGED <<recorded, db, work, other, queue, cmd>>
        /\ phase' = phase \ {k} /\ k \in phase /\ work = {}
    BY <2>1 DEF BeginPhase, meta, steady, run, Placed, Loops
  <2>3. todo' \subseteq db.items
    BY <2>1 DEF BeginPhase, Undone, OfKind
  <2>4. cmd.op # "addimpl"
    BY <2>2 DEF Held, Reanalysed
  <2>5. Source' /\ Prepared' /\ Queue'
    BY <2>2, GoesOn DEF Diffing
  <2> QED
    BY <2>2, <2>3, <2>4, <2>5 DEF Held, InHand, Reanalysed, DbOK
<1>3. CASE \E i \in Items : DiffItem(i)
  <2>1. PICK i \in Items : DiffItem(i)
    BY <1>3
  <2>2. /\ pc = "rows" /\ pc' = "rows" /\ i \in todo
        /\ UNCHANGED <<recorded, work, phase, other, queue, cmd>>
        /\ todo' = todo \ {i} /\ Insert(i)
    BY <2>1 DEF DiffItem, meta, steady, run, diff
  <2>3. i \in db.items /\ todo \subseteq db.items /\ other.src \in db.sources
    BY <2>2 DEF Held, InHand, Source, Diffing
  <2>4. DbOK(db') /\ db'.items = db.items /\ db'.sources = db.sources
    BY <2>2, <2>3, RowsStay
  <2>5. Source' /\ Prepared' /\ Queue'
    BY <2>2, <2>4, GoesOn DEF Diffing
  <2>6. Reanalysed'
    BY <2>2, <2>4 DEF Held, Reanalysed
  <2> QED
    BY <2>2, <2>3, <2>4, <2>5, <2>6 DEF Held, InHand
<1>4. CASE \E i \in Items : DiffService(i)
  <2>1. PICK i \in Items : DiffService(i)
    BY <1>4
  <2>2. /\ pc = "rows" /\ pc' = "methods" /\ i \in todo /\ i.kind = "service"
        /\ UNCHANGED <<recorded, phase, other, queue, cmd>>
        /\ todo' = todo \ {i} /\ work' = {i} /\ Insert(i)
    BY <2>1 DEF DiffService, meta, steady, run, diff
  <2>3. i \in db.items /\ todo \subseteq db.items /\ other.src \in db.sources
    BY <2>2 DEF Held, InHand, Source, Diffing
  <2>4. /\ DbOK(db') /\ db'.items = db.items /\ db'.sources = db.sources
        /\ \E r \in db'.rows : r.item = i /\ r.src = other.src
    BY <2>2, <2>3, RowsStay
  <2>5. Source' /\ Prepared' /\ Queue'
    BY <2>2, <2>4, GoesOn DEF Diffing
  <2>6. Reanalysed'
    BY <2>2, <2>4 DEF Held, Reanalysed
  <2>7. InHand'
    BY <2>2, <2>3, <2>4 DEF InHand, RowsFor
  <2> QED
    BY <2>2, <2>4, <2>5, <2>6, <2>7 DEF Held
<1>5. CASE (\E i \in Items : ServiceHasRow(i)) \/ DiffCancelled
  BY <1>5, DiffFailsHeld DEF ServiceHasRow, DiffCancelled, meta
<1>6. CASE \E m \in Methods : DiffMethod(m)
  <2>1. PICK m \in Methods : DiffMethod(m)
    BY <1>6
  <2>2. /\ pc = "methods" /\ pc' = "methods" /\ m \in db.items
        /\ UNCHANGED <<recorded, todo, work, phase, other, queue, cmd>> /\ Insert(m)
    BY <2>1 DEF DiffMethod, MethodsAtHand, OfKind, meta, steady, run, diff
  <2>3. other.src \in db.sources
    BY <2>2 DEF Held, Source, Diffing
  <2>4. /\ DbOK(db') /\ db'.items = db.items /\ db'.sources = db.sources
        /\ db.rows \subseteq db'.rows
    BY <2>2, <2>3, RowsStay
  <2>5. Source' /\ Prepared' /\ Queue'
    BY <2>2, <2>4, GoesOn DEF Diffing
  <2>6. Reanalysed'
    BY <2>2, <2>4 DEF Held, Reanalysed
  <2>7. InHand'
    BY <2>2, <2>4 DEF Held, InHand, RowsFor
  <2> QED
    BY <2>2, <2>4, <2>5, <2>6, <2>7 DEF Held
<1>7. CASE ServiceDone
  <2>1. CASE cancelled
    BY <1>7, <2>1, DiffFailsHeld DEF ServiceDone, meta
  <2>2. CASE ~cancelled
    <3>1. /\ pc = "methods" /\ pc' = "rows" /\ work' = {}
          /\ UNCHANGED <<recorded, db, todo, phase, other, queue, cmd>>
      BY <1>7, <2>2 DEF ServiceDone, meta, diff
    <3>2. Source' /\ Prepared' /\ Queue'
      BY <3>1, GoesOn DEF Diffing
    <3>3. Reanalysed' /\ InHand'
      BY <3>1 DEF Held, Reanalysed, InHand
    <3> QED
      BY <3>1, <3>2, <3>3 DEF Held
  <2> QED
    BY <2>1, <2>2
<1>8. CASE EndPhase
  <2>1. /\ pc = "rows" /\ pc' \in {"phase", "diffed"}
        /\ UNCHANGED <<recorded, db, todo, work, phase, other, queue, cmd>>
    BY <1>8 DEF EndPhase, Goto, steady, run, meta, diff
  <2>2. Source' /\ Prepared' /\ Queue'
    BY <2>1, GoesOn DEF Diffing
  <2>3. Reanalysed' /\ InHand'
    BY <2>1 DEF Held, Reanalysed, InHand
  <2> QED
    BY <2>1, <2>2, <2>3 DEF Held
<1>9. CASE Diffed
  <2>1. CASE cmd.op = "emulator"
    BY <1>9, <2>1, EndHeld DEF Diffed
  <2>2. CASE cmd.op # "emulator"
    <3>1. /\ pc = "diffed"
          /\ pc' = IF cmd.op \in {"setup", "addsource"} THEN "copy" ELSE "diff"
          /\ UNCHANGED <<db, todo, work, phase, other, queue, cmd>>
          /\ recorded' \in {recorded, recorded \cup {"diff"}}
      BY <1>9, <2>2 DEF Diffed, diff
    <3>2. Source' /\ Reanalysed' /\ Prepared' /\ InHand'
      BY <3>1 DEF Held, Source, Reanalysed, Prepared, InHand, Diffing
    <3>3. Queue'
      BY <2>2, <3>1 DEF Held, Queue
    <3> QED
      BY <3>1, <3>2, <3>3 DEF Held
  <2> QED
    BY <2>1, <2>2
<1>10. CASE CopyFile \/ EndOfSources
  BY <1>10, EndHeld DEF CopyFile, EndOfSources, EndReporting
<1> QED
  BY <1>1, <1>2, <1>3, <1>4, <1>5, <1>6, <1>7, <1>8, <1>9, <1>10 DEF DiffSteps

LEMMA OtherHeld == ASSUME Placed, Kept, Held, OtherSteps PROVE Kept' /\ Held'
<1> USE DEF Kept
<1>1. CASE AlreadyDiffed \/ NoEmulator \/ SourceExists \/ RemoveFile \/ ApkExists
  BY <1>1, EndHeld
  DEF AlreadyDiffed, NoEmulator, SourceExists, RemoveFile, ApkExists, Fails
<1>2. CASE Undo
  <2> DEFINE content == WithoutSource(db, cmd.src)
  <2>1. DbOK(content)
    BY SourceRemoved
  <2>2. End("error", content)
    BY <1>2 DEF Undo, Fails
  <2> HIDE DEF content
  <2> QED
    BY <2>1, <2>2, EndHeld
<1>3. CASE BeginDiff \/ ReopenDiff
  <2>1. /\ pc' = "diff" /\ queue' = {Emulator}
        /\ UNCHANGED <<db, todo, work, phase, cmd>> /\ cmd.op = "emulator"
    BY <1>3 DEF BeginDiff, ReopenDiff, meta, steady, run, Placed, Control
  <2>2. Emulator \in db.sources
    BY <1>3 DEF BeginDiff, ReopenDiff, Held, Queue
  <2> QED
    BY <2>1, <2>2
    DEF Held, Source, Queue, InHand, Reanalysed, Prepared, Diffing, Sources
<1>4. CASE DeleteEmulator
  <2>1. /\ db' = WithoutSource(db, Emulator) /\ pc' = "reinsert"
        /\ UNCHANGED <<todo, work, phase, queue, cmd>> /\ cmd.op = "emulator"
    BY <1>4 DEF DeleteEmulator, Goto, steady, run, diff, Placed, Control
  <2>2. DbOK(db')
    BY <2>1, SourceRemoved
  <2> QED
    BY <2>1, <2>2, ElsewhereHeld DEF Diffing
<1>5. CASE InsertEmulator
  <2>1. /\ db' = [db EXCEPT !.sources = @ \cup {Emulator}] /\ pc' = "reopen"
        /\ UNCHANGED <<todo, work, phase, queue, cmd>> /\ cmd.op = "emulator"
    BY <1>5 DEF InsertEmulator, Goto, steady, run, diff, Placed, Control
  <2>2. DbOK(db') /\ Emulator \in db'.sources
    BY <2>1, SourceAdded DEF Sources
  <2> QED
    BY <2>1, <2>2
    DEF Held, Source, Queue, InHand, Reanalysed, Prepared, Diffing
<1>6. CASE InsertSource
  <2>1. /\ db' = [db EXCEPT !.sources = @ \cup {cmd.src}] /\ pc' = "diff"
        /\ queue' = {cmd.src} /\ pc = "addsource"
        /\ UNCHANGED <<recorded, todo, work, phase, cmd>> /\ cmd.op = "addsource"
    BY <1>6 DEF InsertSource, meta, steady, run, Placed, Control
  <2>2. cmd.src \in Sources
    BY <2>1 DEF Placed, Command
  <2>3. DbOK(db') /\ cmd.src \in db'.sources
    BY <2>1, <2>2, SourceAdded
  <2>4. Prepared'
    BY <2>1 DEF Held, Prepared
  <2> QED
    BY <2>1, <2>2, <2>3, <2>4 DEF Held, Source, Queue, InHand, Reanalysed, Diffing
<1>7. CASE DeleteSource
  <2>1. /\ db' = WithoutSource(db, cmd.src) /\ pc' = "removefile" /\ pc = "removesource"
        /\ UNCHANGED <<recorded, todo, work, phase, queue, cmd>>
        /\ cmd.op = "removesource"
    BY <1>7 DEF DeleteSource, Goto, meta, steady, run, diff, Placed, Control
  <2>2. DbOK(db')
    BY <2>1, SourceRemoved
  <2>3. Prepared'
    BY <2>1 DEF Held, Prepared
  <2> QED
    BY <2>1, <2>2, <2>3 DEF Held, Source, Queue, InHand, Reanalysed, Diffing
<1>8. CASE ReplaceApk
  <2>1. /\ db' = WithoutItems(db, OfApk(cmd.apk)) /\ pc' = "addapk" /\ pc = "addapk"
        /\ UNCHANGED <<recorded, todo, work, phase, queue, cmd>> /\ cmd.op = "addapk"
    BY <1>8 DEF ReplaceApk, meta, steady, run, diff, Placed, Control
  <2>2. DbOK(db')
    BY <2>1, ItemsRemoved
  <2>3. Prepared'
    BY <2>1 DEF Held, Prepared
  <2> QED
    BY <2>1, <2>2, <2>3 DEF Held, Source, Queue, InHand, Reanalysed, Diffing
<1>9. CASE AddOneApk
  <2>1. /\ pc' \in {"added", "insert"} /\ work' \in {work, {ApkItem(cmd.apk)}}
        /\ UNCHANGED <<recorded, db, todo, phase, queue, cmd>>
        /\ pc = "addapk" /\ cmd.op = "addapk"
    BY <1>9 DEF AddOneApk, meta, steady, run, diff, Placed, Control
  <2>2. ApkItem(cmd.apk) \in Items
    BY <2>1 DEF Placed, Command, Items, AllApks
  <2>3. Prepared'
    BY <2>1 DEF Held, Prepared
  <2> QED
    BY <2>1, <2>2, <2>3 DEF Held, Source, Queue, InHand, Reanalysed, Diffing
<1>10. CASE DiffAdded
  <2>1. /\ pc' = "diff" /\ pc = "added" /\ queue' \in {db.sources, {}}
        /\ UNCHANGED <<recorded, db, todo, work, phase, cmd>>
        /\ cmd.op \in {"addapk", "addimpl"}
    BY <1>10 DEF DiffAdded, meta, steady, run, Placed, Control
  <2>2. Kept'
    BY <2>1 DEF DbOK
  <2>3. Prepared' /\ Reanalysed'
    BY <2>1 DEF Held, Prepared, Reanalysed
  <2> QED
    BY <2>1, <2>2, <2>3 DEF Held, Source, Queue, InHand, Diffing
<1>11. CASE DeleteMethods
  <2>1. /\ db' = WithoutItems(db, MethodsOf(cmd.service))
        /\ pc' = "deletediffs" /\ pc = "deletemethods"
        /\ UNCHANGED <<recorded, todo, work, phase, queue, cmd>> /\ cmd.op = "addimpl"
    BY <1>11 DEF DeleteMethods, Goto, meta, steady, run, diff, Placed, Control
  <2>2. DbOK(db') /\ db'.items = db.items \ MethodsOf(cmd.service)
    BY <2>1, ItemsRemoved
  <2>3. ServiceItem(cmd.service) \notin MethodsOf(cmd.service)
    BY KeyFacts, MethodFacts DEF MethodsOf
  <2>4. Reanalysed'
    BY <2>1, <2>2, <2>3 DEF Held, Reanalysed
  <2> QED
    BY <2>1, <2>2, <2>4 DEF Held, Source, Queue, InHand, Prepared, Diffing
<1>12. CASE DeleteDiffs
  <2> DEFINE rows == {r \in db.rows : r.item # ServiceItem(cmd.service)}
  <2>1. /\ db' = [db EXCEPT !.rows = rows]
        /\ pc' = "readd" /\ pc = "deletediffs"
        /\ UNCHANGED <<recorded, todo, work, phase, queue, cmd>> /\ cmd.op = "addimpl"
    BY <1>12 DEF DeleteDiffs, Goto, meta, steady, run, diff, Placed, Control
  <2>2. \A r \in rows : r.item \in db.items /\ r.src \in db.sources
    BY DEF DbOK
  <2> HIDE DEF rows
  <2>3. DbOK(db') /\ db'.items = db.items
    BY <2>1, <2>2, RowsChanged
  <2>4. Reanalysed'
    BY <2>1, <2>3 DEF Held, Reanalysed
  <2> QED
    BY <2>1, <2>3, <2>4 DEF Held, Source, Queue, InHand, Prepared, Diffing
<1>13. CASE ReaddMethods
  <2>1. PICK found \in {MethodsOf(cmd.service), {}} :
          db' = [db EXCEPT !.items = @ \cup found]
    BY <1>13 DEF ReaddMethods
  <2>2. /\ pc' = "added" /\ pc = "readd"
        /\ UNCHANGED <<recorded, todo, work, phase, queue, cmd>> /\ cmd.op = "addimpl"
    BY <1>13 DEF ReaddMethods, Goto, meta, steady, run, diff, Placed, Control
  <2>3. found \subseteq Items
    BY DEF MethodsOf, Items
  <2>4. DbOK(db') /\ db.items \subseteq db'.items
    BY <2>1, <2>3, ItemsAdded
  <2>5. Reanalysed'
    BY <2>2, <2>4 DEF Held, Reanalysed
  <2> QED
    BY <2>2, <2>4, <2>5 DEF Held, Source, Queue, InHand, Prepared, Diffing
<1> QED
  BY <1>1, <1>2, <1>3, <1>4, <1>5, <1>6, <1>7, <1>8, <1>9, <1>10, <1>11, <1>12, <1>13
  DEF OtherSteps

LEMMA FaultHeld ==
  ASSUME Placed, Kept, Held, Cancel \/ Fault \/ Kill \/ UNCHANGED vars
  PROVE  Kept' /\ Held'
<1>1. CASE Cancel \/ UNCHANGED vars
  <2>1. UNCHANGED <<recorded, db, pc, todo, work, phase, other, queue, cmd>>
    BY <1>1 DEF Cancel, vars, process, meta, diff, run
  <2> QED
    BY <2>1 DEF Kept, Held, Source, Queue, InHand, Reanalysed, Prepared, RowsFor
<1>2. CASE Fault
  <2>0. UNCHANGED <<recorded, cmd>> /\ pc # "idle"
    BY <1>2 DEF Fault, meta
  <2>1. CASE pc = "insert"
    <3>1. CASE cmd.op = "setup"
      <4>1. UNCHANGED <<db, todo, phase, queue>> /\ work' = {} /\ pc' = "apks"
        BY <1>2, <2>1, <3>1 DEF Fault, Rollback, diff
      <4> QED
        BY <2>0, <3>1, <4>1, ElsewhereHeld DEF Diffing, Kept
    <3>2. CASE cmd.op # "setup"
      BY <1>2, <2>1, <3>2, EndHeld DEF Fault, Rollback, Kept
    <3> QED
      BY <3>1, <3>2
  <2>2. CASE pc \in {"diff", "phase", "rows", "methods"}
    BY <1>2, <2>0, <2>2, DiffFailsHeld DEF Fault
  <2>3. CASE pc \notin {"insert", "diff", "phase", "rows", "methods"}
    BY <1>2, <2>3, EndHeld DEF Fault, Kept
  <2> QED
    BY <2>1, <2>2, <2>3
<1>3. CASE Kill
  BY <1>3, EndHeld DEF Kill, Kept
<1> QED
  BY <1>1, <1>2, <1>3

LEMMA InitHeld == Init => Kept /\ Held
<1> SUFFICES ASSUME Init PROVE Kept /\ Held
  OBVIOUS
<1>1. Kept
  BY FreshFacts DEF Init, Kept
<1>2. pc = "idle"
  BY DEF Init
<1> QED
  BY <1>1, <1>2 DEF Held, Source, Queue, InHand, Reanalysed, Prepared, Diffing

LEMMA NextBasics == ASSUME Sound, [Next]_vars PROVE Basics'
<1> DEFINE Outcomes == {"none", "ok", "error"}
<1>0. Basics
  BY DEF Sound
<1>1. faults' \in 0 .. MaxFaults
  <2>1. faults' = faults \/ (faults < MaxFaults /\ faults' = faults + 1)
    <3>1. CASE Starts
      BY <3>1 DEF Starts, StartSetup, StartWipe, StartEmulator, StartAddSource,
                  StartRemoveSource, StartAddApk, StartAddImpl, Start
    <3>2. CASE SetupSteps
      BY <3>2 DEF SetupSteps, AlreadySetup, BeginFresh, Wipe, UnrecordSetup,
                  UnrecordDiff, ForgetDiff, ForgetSetup, SetupCancelled, NoSuchManifest,
                  ApkRefused, BeginApk, InsertComp, CommitApk, ApkCancelled,
                  ListServices, AddService, ServiceRefused, RecordSetup, Goto, Fails,
                  steady
    <3>3. CASE DiffSteps
      BY <3>3 DEF DiffSteps, NextSource, BeginPhase, DiffItem, DiffService,
                  ServiceHasRow, DiffMethod, ServiceDone, EndPhase, DiffCancelled,
                  Diffed, CopyFile, EndOfSources, Goto, steady
    <3>4. CASE OtherSteps
      BY <3>4 DEF OtherSteps, AlreadyDiffed, NoEmulator, BeginDiff, DeleteEmulator,
                  InsertEmulator, ReopenDiff, SourceExists, InsertSource, Undo,
                  DeleteSource, RemoveFile, ApkExists, ReplaceApk, AddOneApk,
                  DiffAdded, DeleteMethods, DeleteDiffs, ReaddMethods, Goto, Fails,
                  steady
    <3>5. CASE Cancel \/ Fault \/ Kill \/ UNCHANGED vars
      BY <3>5 DEF Cancel, Fault, Kill, vars
    <3> QED
      BY <3>1, <3>2, <3>3, <3>4, <3>5 DEF Next, Steps
  <2> QED
    BY <1>0, <2>1, DeviceDbAssumption DEF Basics
<1>2. CASE Starts
  <2>1. UNCHANGED meta /\ outcome' = "none"
    BY <1>2 DEF Starts, StartSetup, StartWipe, StartEmulator, StartAddSource,
                StartRemoveSource, StartAddApk, StartAddImpl, Start
  <2> QED
    BY <1>0, <1>1, <2>1 DEF Basics, meta
<1>3. CASE SetupSteps
  <2>1. files' = files /\ recorded' \subseteq recorded \cup {"setup", "diff"}
    BY <1>3 DEF SetupSteps, AlreadySetup, BeginFresh, Wipe, UnrecordSetup,
                UnrecordDiff, ForgetDiff, ForgetSetup, SetupCancelled, NoSuchManifest,
                ApkRefused, BeginApk, InsertComp, CommitApk, ApkCancelled,
                ListServices, AddService, ServiceRefused, RecordSetup, Fails, meta
  <2>2. outcome' \in Outcomes \cup {outcome}
    BY <1>3 DEF SetupSteps, AlreadySetup, BeginFresh, Wipe, UnrecordSetup,
                UnrecordDiff, ForgetDiff, ForgetSetup, SetupCancelled, NoSuchManifest,
                ApkRefused, BeginApk, InsertComp, CommitApk, ApkCancelled, Rollback,
                ListServices, AddService, ServiceRefused, RecordSetup, Goto, Fails,
                End, EndReporting, steady, run
  <2> QED
    BY <1>0, <1>1, <2>1, <2>2 DEF Basics
<1>4. CASE DiffSteps
  <2>1. outcome' \in Outcomes \cup {outcome}
    BY <1>4 DEF DiffSteps, NextSource, BeginPhase, DiffItem, DiffService,
                ServiceHasRow, DiffMethod, ServiceDone, EndPhase, DiffCancelled,
                Diffed, CopyFile, EndOfSources, DiffFails, Goto, End, EndReporting,
                steady, run
  <2>2. recorded' \subseteq recorded \cup {"diff"}
    BY <1>4 DEF DiffSteps, NextSource, BeginPhase, DiffItem, DiffService,
                ServiceHasRow, DiffMethod, ServiceDone, EndPhase, DiffCancelled,
                Diffed, CopyFile, EndOfSources, meta
  <2>3. files' \in [Sources -> Versioned \cup {None}]
    <3>1. CASE \E s \in Sources : NextSource(s)
      <4>1. PICK s \in Sources : NextSource(s)
        BY <3>1
      <4>2. VersionOf(s) \in Versioned
        BY <1>0 DEF Sound, Placed, Command, Basics, VersionOf, Given, Versioned
      <4> QED
        BY <1>0, <4>1, <4>2 DEF NextSource, Basics
    <3>2. CASE CopyFile
      <4>1. other.version \in Versioned
        BY <3>2 DEF CopyFile, Sound, Held, Source, Diffing
      <4> QED
        BY <1>0, <3>2, <4>1 DEF CopyFile, Basics
    <3>3. CASE UNCHANGED files
      BY <1>0, <3>3 DEF Basics
    <3> QED
      BY <1>4, <3>1, <3>2, <3>3
      DEF DiffSteps, BeginPhase, DiffItem, DiffService, ServiceHasRow, DiffMethod,
          ServiceDone, EndPhase, DiffCancelled, Diffed, EndOfSources, meta
  <2> QED
    BY <1>0, <1>1, <2>1, <2>2, <2>3 DEF Basics
<1>5. CASE OtherSteps
  <2>1. outcome' \in Outcomes \cup {outcome}
    BY <1>5 DEF OtherSteps, AlreadyDiffed, NoEmulator, BeginDiff, DeleteEmulator,
                InsertEmulator, ReopenDiff, SourceExists, InsertSource, Undo,
                DeleteSource, RemoveFile, ApkExists, ReplaceApk, AddOneApk,
                DiffAdded, DeleteMethods, DeleteDiffs, ReaddMethods, Goto, Fails,
                End, steady, run
  <2>2. recorded' \subseteq recorded
    BY <1>5 DEF OtherSteps, AlreadyDiffed, NoEmulator, BeginDiff, DeleteEmulator,
                InsertEmulator, ReopenDiff, SourceExists, InsertSource, Undo,
                DeleteSource, RemoveFile, ApkExists, ReplaceApk, AddOneApk,
                DiffAdded, DeleteMethods, DeleteDiffs, ReaddMethods, Fails, meta
  <2>3. files' = files \/ files' = [files EXCEPT ![cmd.src] = None]
    BY <1>5 DEF OtherSteps, AlreadyDiffed, NoEmulator, BeginDiff, DeleteEmulator,
                InsertEmulator, ReopenDiff, SourceExists, InsertSource, Undo,
                DeleteSource, RemoveFile, ApkExists, ReplaceApk, AddOneApk,
                DiffAdded, DeleteMethods, DeleteDiffs, ReaddMethods, Fails, meta
  <2> QED
    BY <1>0, <1>1, <2>1, <2>2, <2>3 DEF Basics
<1>6. CASE Cancel \/ Fault \/ Kill \/ UNCHANGED vars
  <2>1. UNCHANGED meta
    BY <1>6 DEF Cancel, Fault, Kill, vars
  <2>2. outcome' \in Outcomes \cup {outcome}
    <3>1. CASE Fault
      BY <3>1 DEF Fault, Rollback, DiffFails, End
    <3>2. CASE ~Fault
      BY <1>6, <3>2 DEF Cancel, Kill, vars, End, process, run
    <3> QED
      BY <3>1, <3>2
  <2> QED
    BY <1>0, <1>1, <2>1, <2>2 DEF Basics, meta
<1> QED
  BY <1>2, <1>3, <1>4, <1>5, <1>6 DEF Next, Steps

LEMMA NextSound == Sound /\ [Next]_vars => Sound'
<1> SUFFICES ASSUME Sound, [Next]_vars PROVE Sound'
  OBVIOUS
<1>1. Basics'
  BY NextBasics
<1>2. Placed'
  BY StartPlaced, SetupPlaced, DiffPlaced, OtherPlaced, FaultPlaced
  DEF Next, Steps, Sound
<1>3. Kept' /\ Held'
  BY StartHeld, SetupHeld, DiffHeld, OtherHeld, FaultHeld DEF Next, Steps, Sound
<1> QED
  BY <1>1, <1>2, <1>3 DEF Sound

LEMMA InitSound == Init => Sound
<1>1. Init => Basics
  BY DeviceDbAssumption DEF Init, Basics
<1> QED
  BY <1>1, InitPlaced, InitHeld DEF Sound

(* Over any sequence of commands, cancelled, failed and killed anywhere,   *)
(* the rows of the database refer to items and sources that it has, and    *)
(* the copies of other databases are what some command was given.          *)
THEOREM Typing == Spec => []TypeOK
  BY InitSound, NextSound, SoundTyped, PTL DEF Spec

-------------------------------------------------------------------------------
(* An APK is there with all its components.                                *)

Whole(items) ==
  /\ \A a \in Apks \ NoManifest : OfApk(a) \subseteq items \/ OfApk(a) \cap items = {}
  /\ \A m \in items : m.kind = "method" => ServiceItem(m.service) \in items

(* The open transaction belongs to one APK, of which nothing is there.     *)
Open ==
  pc = "insert" => \E a \in Apks \ NoManifest :
    ApkItem(a) \in work /\ work \subseteq OfApk(a) /\ OfApk(a) \cap db.items = {}

LEMMA WholeIs == ApkWhole <=> Whole(db.items)
  BY DEF ApkWhole, Whole, OfKind

LEMMA InOfApk ==
  ASSUME NEW a \in Apks, NEW b, ApkItem(b) \in OfApk(a)
  PROVE  b = a
<1>1. \A c \in Comps : c.kind # "apk"
  BY CompFacts DEF CompKinds, IpcKinds
<1> QED
  BY <1>1, KeyFacts DEF OfApk, CompsOf

(* Few steps change the items of the database.                             *)
ChangesItems ==
  \/ CommitApk \/ (\E s \in Services : AddService(s))
  \/ ReplaceApk \/ DeleteMethods \/ ReaddMethods

LEMMA EndItems ==
  ASSUME NEW result, NEW content, End(result, content)
  PROVE  db'.items \in {content.items, {}}
  BY FreshFacts DEF End

LEMMA SetupItems ==
  ASSUME Sound, SetupSteps
  PROVE  db'.items \in {db.items, {}} \/ ChangesItems
<1>1. CASE UNCHANGED db \/ ChangesItems
  BY <1>1
<1>2. CASE \E result : End(result, db)
  BY <1>2, EndItems
<1> QED
  BY <1>1, <1>2
  DEF SetupSteps, ChangesItems, AlreadySetup, BeginFresh, Wipe, UnrecordSetup,
      UnrecordDiff, ForgetDiff, ForgetSetup, SetupCancelled, NoSuchManifest,
      ApkRefused, BeginApk, InsertComp, ApkCancelled, Rollback, ListServices,
      ServiceRefused, RecordSetup, EndReporting, Goto, Fails

LEMMA DiffItems ==
  ASSUME Sound, DiffSteps
  PROVE  db'.items = db.items \/ \E result : End(result, db)
<1>0. DbOK(db)
  BY DEF Sound, Kept
<1>1. CASE UNCHANGED db
  BY <1>1
<1>2. CASE \E result : End(result, db)
  BY <1>2
<1>3. CASE \E i \in db.items : other.src \in db.sources /\ Insert(i)
  BY <1>0, <1>3, RowsStay
<1>4. \A i \in Items : DiffItem(i) \/ DiffService(i) =>
        i \in db.items /\ other.src \in db.sources /\ Insert(i)
  BY DEF DiffItem, DiffService, Sound, Held, InHand, Source, Diffing
<1>5. \A m \in Methods : DiffMethod(m) =>
        m \in db.items /\ other.src \in db.sources /\ Insert(m)
  BY DEF DiffMethod, MethodsAtHand, OfKind, Sound, Held, Source, Diffing
<1> QED
  BY <1>1, <1>2, <1>3, <1>4, <1>5
  DEF DiffSteps, NextSource, BeginPhase, ServiceHasRow, ServiceDone, EndPhase,
      DiffCancelled, Diffed, CopyFile, EndOfSources, EndReporting, DiffFails, Goto

LEMMA OtherItems ==
  ASSUME Sound, OtherSteps
  PROVE  db'.items \in {db.items, {}} \/ ChangesItems
<1>0. DbOK(db)
  BY DEF Sound, Kept
<1>1. CASE UNCHANGED db \/ ChangesItems
  BY <1>1
<1>2. CASE \E result : End(result, db)
  BY <1>2, EndItems
<1>3. CASE Undo
  BY <1>0, <1>3, EndItems, SourceRemoved DEF Undo, Fails
<1>4. CASE DeleteEmulator \/ DeleteSource
  BY <1>0, <1>4, SourceRemoved DEF DeleteEmulator, DeleteSource
<1>5. CASE InsertEmulator
  BY <1>0, <1>5, SourceAdded DEF InsertEmulator, Sources
<1>6. CASE InsertSource
  <2>1. cmd.src \in Sources
    BY <1>6 DEF InsertSource, Sound, Placed, Control, Command
  <2> QED
    BY <1>0, <1>6, <2>1, SourceAdded DEF InsertSource
<1>7. CASE DeleteDiffs
  <2> DEFINE rows == {r \in db.rows : r.item # ServiceItem(cmd.service)}
  <2>1. db' = [db EXCEPT !.rows = rows]
    BY <1>7 DEF DeleteDiffs
  <2>2. \A r \in rows : r.item \in db.items /\ r.src \in db.sources
    BY <1>0 DEF DbOK
  <2> HIDE DEF rows
  <2> QED
    BY <1>0, <2>1, <2>2, RowsChanged
<1> QED
  BY <1>1, <1>2, <1>3, <1>4, <1>5, <1>6, <1>7
  DEF OtherSteps, ChangesItems, AlreadyDiffed, NoEmulator, BeginDiff, ReopenDiff,
      SourceExists, RemoveFile, ApkExists, AddOneApk, DiffAdded, Fails

LEMMA ItemsSteps ==
  ASSUME Sound, [Next]_vars
  PROVE  db'.items \in {db.items, {}} \/ ChangesItems
<1>1. CASE Starts
  BY <1>1 DEF Starts, StartSetup, StartWipe, StartEmulator, StartAddSource,
              StartRemoveSource, StartAddApk, StartAddImpl, Start
<1>2. CASE Cancel \/ Fault \/ Kill \/ UNCHANGED vars
  BY <1>2, EndItems DEF Cancel, Fault, Rollback, DiffFails, Kill, vars
<1> QED
  BY <1>1, <1>2, SetupItems, DiffItems, OtherItems, EndItems DEF Next, Steps

(* Few open a transaction or stay in it.                                   *)
LEMMA Opened ==
  ASSUME Sound, [Next]_vars, pc' = "insert"
  PROVE  \/ /\ pc = "insert" /\ UNCHANGED db
            /\ UNCHANGED work \/ \E c \in Missing : work' = work \cup {c}
         \/ \E a \in Apks : BeginApk(a)
         \/ AddOneApk
<1>1. CASE Starts
  BY <1>1 DEF Starts, StartSetup, StartWipe, StartEmulator, StartAddSource,
              StartRemoveSource, StartAddApk, StartAddImpl, Start
<1>2. CASE SetupSteps
  BY <1>2 DEF SetupSteps, AlreadySetup, BeginFresh, Wipe, UnrecordSetup,
              UnrecordDiff, ForgetDiff, ForgetSetup, SetupCancelled, NoSuchManifest,
              ApkRefused, InsertComp, CommitApk, ApkCancelled, Rollback,
              ListServices, AddService, ServiceRefused, RecordSetup, EndReporting,
              End, Goto, Fails
<1>3. CASE DiffSteps
  BY <1>3 DEF DiffSteps, NextSource, BeginPhase, DiffItem, DiffService,
              ServiceHasRow, DiffMethod, ServiceDone, EndPhase, DiffCancelled,
              Diffed, CopyFile, EndOfSources, DiffFails, Goto, End, EndReporting
<1>4. CASE OtherSteps
  BY <1>4 DEF OtherSteps, AlreadyDiffed, NoEmulator, BeginDiff, DeleteEmulator,
              InsertEmulator, ReopenDiff, SourceExists, InsertSource, Undo,
              DeleteSource, RemoveFile, ApkExists, ReplaceApk,
              DiffAdded, DeleteMethods, DeleteDiffs, ReaddMethods, Goto, Fails, End
<1>5. CASE Cancel \/ Fault \/ Kill \/ UNCHANGED vars
  BY <1>5 DEF Cancel, Fault, Rollback, DiffFails, Kill, End, vars, process
<1> QED
  BY <1>1, <1>2, <1>3, <1>4, <1>5 DEF Next, Steps

LEMMA NextWhole ==
  ASSUME Sound, Whole(db.items), Open, [Next]_vars
  PROVE  Whole(db'.items)
<1>0. DbOK(db)
  BY DEF Sound, Kept
<1>1. CASE db'.items \in {db.items, {}}
  BY <1>1 DEF Whole
<1>2. CASE CommitApk
  <2>1. PICK a \in Apks \ NoManifest :
          ApkItem(a) \in work /\ work \subseteq OfApk(a) /\ OfApk(a) \cap db.items = {}
    BY <1>2 DEF CommitApk, Open
  <2>2. work = OfApk(a)
    BY <1>2, <2>1 DEF CommitApk, Missing, OfApk, CompsOf
  <2>3. db'.items = db.items \cup OfApk(a)
    BY <1>0, <1>2, <2>2, ItemsAdded, ApkFacts DEF CommitApk
  <2>4. \A b \in Apks \ {a} : OfApk(b) \cap OfApk(a) = {}
    BY <2>1, ApkFacts
  <2>5. \A m \in OfApk(a) : m.kind # "method"
    BY <2>1, ApkFacts
  <2>6. \A b \in Apks \ NoManifest :
          OfApk(b) \subseteq db'.items \/ OfApk(b) \cap db'.items = {}
    BY <2>3, <2>4 DEF Whole
  <2> QED
    BY <2>3, <2>5, <2>6 DEF Whole
<1>3. CASE \E s \in Services : AddService(s)
  <2>1. PICK s \in Services : AddService(s)
    BY <1>3
  <2>2. CASE UNCHANGED db
    BY <2>2 DEF Whole
  <2>3. CASE \E found \in {MethodsOf(s), {}} :
               db' = [db EXCEPT !.items = @ \cup {ServiceItem(s)} \cup found]
    <3>1. PICK found \in {MethodsOf(s), {}} :
            db' = [db EXCEPT !.items = @ \cup {ServiceItem(s)} \cup found]
      BY <2>3
    <3>2. db'.items = db.items \cup {ServiceItem(s)} \cup found
      BY <1>0, <3>1 DEF DbOK
    <3>3. \A i \in {ServiceItem(s)} \cup found :
            i.kind \in {"service", "method"} /\ (i.kind = "method" => i.service = s)
      BY KeyFacts, MethodFacts DEF MethodsOf
    <3>4. \A a \in Apks : OfApk(a) \cap ({ServiceItem(s)} \cup found) = {}
      BY <3>3, ApkFacts
    <3>5. \A a \in Apks \ NoManifest :
            OfApk(a) \subseteq db'.items \/ OfApk(a) \cap db'.items = {}
      BY <3>2, <3>4 DEF Whole
    <3> QED
      BY <3>2, <3>3, <3>5 DEF Whole
  <2> QED
    BY <2>1, <2>2, <2>3 DEF AddService
<1>4. CASE ReplaceApk
  <2>1. db' = WithoutItems(db, OfApk(cmd.apk)) /\ cmd.apk \in Apks
    BY <1>4 DEF ReplaceApk, Sound, Placed, Control, Command
  <2>2. db'.items = db.items \ OfApk(cmd.apk)
    BY <1>0, <2>1, ItemsRemoved
  <2>3. \A s : ServiceItem(s) \notin OfApk(cmd.apk)
    BY <2>1, ApkFacts, KeyFacts
  <2>4. \A b \in Apks \ {cmd.apk} : OfApk(b) \cap OfApk(cmd.apk) = {}
    BY <2>1, ApkFacts
  <2>5. \A b \in Apks \ NoManifest :
          OfApk(b) \subseteq db'.items \/ OfApk(b) \cap db'.items = {}
    BY <2>1, <2>2, <2>4 DEF Whole
  <2> QED
    BY <2>2, <2>3, <2>5 DEF Whole
<1>5. CASE DeleteMethods
  <2>1. db' = WithoutItems(db, MethodsOf(cmd.service))
    BY <1>5 DEF DeleteMethods
  <2>2. db'.items = db.items \ MethodsOf(cmd.service)
    BY <1>0, <2>1, ItemsRemoved
  <2>3. \A i \in MethodsOf(cmd.service) : i.kind = "method"
    BY MethodFacts DEF MethodsOf
  <2>4. \A s : ServiceItem(s) \notin MethodsOf(cmd.service)
    BY <2>3, KeyFacts
  <2>5. \A a \in Apks : OfApk(a) \cap MethodsOf(cmd.service) = {}
    BY <2>3, ApkFacts
  <2>6. \A b \in Apks \ NoManifest :
          OfApk(b) \subseteq db'.items \/ OfApk(b) \cap db'.items = {}
    BY <2>2, <2>5 DEF Whole
  <2> QED
    BY <2>2, <2>4, <2>6 DEF Whole
<1>6. CASE ReaddMethods
  <2>1. PICK found \in {MethodsOf(cmd.service), {}} :
          db' = [db EXCEPT !.items = @ \cup found]
    BY <1>6 DEF ReaddMethods
  <2>2. found \subseteq Items
    BY DEF MethodsOf, Items
  <2>3. db'.items = db.items \cup found
    BY <1>0, <2>1, <2>2, ItemsAdded
  <2>4. \A i \in found : i.kind = "method" /\ i.service = cmd.service
    BY MethodFacts DEF MethodsOf
  <2>5. ServiceItem(cmd.service) \in db.items
    BY <1>6 DEF ReaddMethods, Sound, Placed, Control, Held, Reanalysed
  <2>6. \A a \in Apks : OfApk(a) \cap found = {}
    BY <2>4, ApkFacts
  <2>7. \A b \in Apks \ NoManifest :
          OfApk(b) \subseteq db'.items \/ OfApk(b) \cap db'.items = {}
    BY <2>3, <2>6 DEF Whole
  <2> QED
    BY <2>3, <2>4, <2>5, <2>7 DEF Whole
<1> QED
  BY <1>1, <1>2, <1>3, <1>4, <1>5, <1>6, ItemsSteps DEF ChangesItems

LEMMA NextOpen ==
  ASSUME Sound, Whole(db.items), Open, [Next]_vars
  PROVE  Open'
<1> SUFFICES ASSUME pc' = "insert"
             PROVE  \E a \in Apks \ NoManifest :
                      /\ ApkItem(a) \in work' /\ work' \subseteq OfApk(a)
                      /\ OfApk(a) \cap db'.items = {}
  BY DEF Open
<1>1. CASE /\ pc = "insert" /\ UNCHANGED db
           /\ UNCHANGED work \/ \E c \in Missing : work' = work \cup {c}
  <2>1. PICK a \in Apks \ NoManifest :
          ApkItem(a) \in work /\ work \subseteq OfApk(a) /\ OfApk(a) \cap db.items = {}
    BY <1>1 DEF Open
  <2>2. \A c \in Missing : c \in OfApk(a)
    BY <2>1, InOfApk DEF Missing, OfApk, CompsOf
  <2> QED
    BY <1>1, <2>1, <2>2
<1>2. CASE \E a \in Apks : BeginApk(a)
  <2>1. PICK a \in Apks : BeginApk(a)
    BY <1>2
  <2>2. /\ a \in Apks \ NoManifest /\ ApkItem(a) \notin db.items
        /\ db' = db /\ work' = {ApkItem(a)}
    BY <2>1 DEF BeginApk
  <2> QED
    BY <2>2 DEF Whole, OfApk
<1>3. CASE AddOneApk
  <2>1. /\ cmd.apk \in Apks \ NoManifest /\ ApkItem(cmd.apk) \notin db.items
        /\ db' = db /\ work' = {ApkItem(cmd.apk)}
    BY <1>3 DEF AddOneApk, Sound, Placed, Control, Command
  <2> QED
    BY <2>1 DEF Whole, OfApk
<1> QED
  BY <1>1, <1>2, <1>3, Opened

(* An APK and the components that its manifest declares are in the         *)
(* database together or not at all, and a method only with its service,    *)
(* whatever cancelled, failed or killed setup, add-apk and                 *)
(* add-service-impl, and in whatever order they ran.                       *)
THEOREM WholeApks == Spec => []ApkWhole
<1>1. Init => Whole(db.items) /\ Open
  BY FreshFacts DEF Init, Whole, Open
<1>2. Sound /\ Whole(db.items) /\ Open /\ [Next]_vars => Whole(db.items)' /\ Open'
  BY NextWhole, NextOpen DEF Whole
<1> QED
  BY <1>1, <1>2, InitSound, NextSound, WholeIs, PTL DEF Spec

-------------------------------------------------------------------------------
(* What a setup without an error has done.                                 *)

Adding    == cmd.op = "setup" /\ pc \in {"apks", "insert", "services"}
Comparing == cmd.op = "setup" /\ pc \in Diffing \cup {"diff"}

ApksAdded     == \A a \in Apks \ NoManifest : ApkItem(a) \in db.items
ServicesAdded == \A s \in Services : ServiceItem(s) \in db.items

(* Setup adds only to a database that is not recorded as set up.           *)
NotRecorded == Adding /\ ~moved => "setup" \notin recorded

(* An APK that is neither ahead nor in the database is in the report.      *)
ApksReached ==
  Adding \/ Comparing =>
    \A a \in Apks \ NoManifest :
      \/ report \/ ApkItem(a) \in db.items
      \/ pc \in {"apks", "insert"} /\ ApkItem(a) \in todo \cup work

ServicesReached ==
  Adding /\ pc = "services" =>
    \A s \in Services : ServiceItem(s) \in todo \cup db.items

SetupRecorded ==
  Comparing => /\ cmd.diff /\ "setup" \in recorded /\ ServicesAdded
               /\ pc = "copy" => "diff" \in recorded

SetupDone ==
  Finished("setup") =>
    /\ ApksAdded /\ ServicesAdded /\ "setup" \in recorded
    /\ cmd.diff => "diff" \in recorded /\ files[Emulator] = Aosp

SettingUp ==
  NotRecorded /\ ApksReached /\ ServicesReached /\ SetupRecorded /\ SetupDone

LEMMA NoSetup == ASSUME cmd'.op # "setup" PROVE SettingUp'
  BY DEF SettingUp, NotRecorded, ApksReached, ServicesReached, SetupRecorded,
         SetupDone, Adding, Comparing, Finished

LEMMA SetupEndsBadly ==
  ASSUME NEW content, End("error", content)
  PROVE  SettingUp'
  BY DEF SettingUp, NotRecorded, ApksReached, ServicesReached, SetupRecorded,
         SetupDone, Adding, Comparing, Finished, End, Diffing

LEMMA SetupEndsWell ==
  ASSUME EndReporting(db), ~moved,
         report \/ ApksAdded, ServicesAdded, "setup" \in recorded',
         cmd'.diff => "diff" \in recorded' /\ files'[Emulator] = Aosp
  PROVE  SettingUp'
<1>1. pc' = "idle" /\ db' = db /\ (report => outcome' = "error")
  BY DEF EndReporting, End
<1>2. SetupDone'
  BY <1>1 DEF SetupDone, Finished, ApksAdded, ServicesAdded
<1> QED
  BY <1>1, <1>2
  DEF SettingUp, NotRecorded, ApksReached, ServicesReached, SetupRecorded,
      Adding, Comparing, Diffing

(* A step that adds nothing and passes nothing.                            *)
LEMMA SetupGoesOn ==
  ASSUME SettingUp, UNCHANGED <<cmd, moved, db, report>>, Adding,
         pc' \in {"apks", "insert"}, pc \in {"apks", "insert"},
         "setup" \in recorded' => "setup" \in recorded,
         todo \cup work \subseteq todo' \cup work'
  PROVE  SettingUp'
<1>1. ApksReached'
  BY DEF SettingUp, ApksReached, Adding, Comparing
<1> QED
  BY <1>1
  DEF SettingUp, NotRecorded, ServicesReached, SetupRecorded, SetupDone, Adding,
      Comparing, Diffing, Finished

(* An APK fails.                                                           *)
LEMMA SetupReports ==
  ASSUME SettingUp, UNCHANGED <<cmd, moved, recorded>>, Adding, report', pc' = "apks"
  PROVE  SettingUp'
  BY DEF SettingUp, NotRecorded, ApksReached, ServicesReached, SetupRecorded,
         SetupDone, Adding, Comparing, Diffing, Finished

LEMMA StepSettingUp ==
  ASSUME Sound, SettingUp, SetupSteps, cmd'.op = "setup"
  PROVE  SettingUp'
<1>0. Placed /\ DbOK(db)
  BY DEF Sound, Kept
<1>1. CASE AlreadySetup \/ SetupCancelled \/ ServiceRefused
  BY <1>1, SetupEndsBadly DEF AlreadySetup, SetupCancelled, ServiceRefused, Fails
<1>2. CASE BeginFresh \/ UnrecordDiff \/ (Wipe /\ pc' = "apks")
  <2>1. /\ pc' = "apks" /\ todo' = AllApks
        /\ moved' \/ "setup" \notin recorded'
    BY <1>0, <1>2 DEF BeginFresh, UnrecordDiff, Wipe, Goto, meta, steady, Placed, Loops
  <2> QED
    BY <2>1
    DEF SettingUp, NotRecorded, ApksReached, ServicesReached, SetupRecorded,
        SetupDone, Adding, Comparing, Diffing, Finished, AllApks
<1>3. CASE UnrecordSetup \/ ForgetDiff \/ (Wipe /\ pc' # "apks")
  <2>1. pc' \in {"unrecord", "unrecorddiff", "forgetdiff", "forget"}
    BY <1>3 DEF UnrecordSetup, ForgetDiff, Wipe, Goto
  <2> QED
    BY <2>1
    DEF SettingUp, NotRecorded, ApksReached, ServicesReached, SetupRecorded,
        SetupDone, Adding, Comparing, Diffing, Finished
<1>4. CASE ForgetSetup
  BY <1>0, <1>4 DEF ForgetSetup, Placed, Control
<1>5. CASE \E a \in Apks : NoSuchManifest(a)
  <2>1. PICK a \in Apks : NoSuchManifest(a)
    BY <1>5
  <2>2. /\ UNCHANGED <<cmd, recorded, moved, db, report, work, pc>> /\ pc = "apks"
        /\ todo' = todo \ {ApkItem(a)} /\ a \in NoManifest
    BY <2>1 DEF NoSuchManifest, meta, steady, run
  <2>3. \A b \in Apks \ NoManifest : ApkItem(b) # ApkItem(a)
    BY <2>2, KeyFacts
  <2>4. ApksReached'
    BY <2>2, <2>3 DEF SettingUp, ApksReached, Adding, Comparing
  <2> QED
    BY <2>2, <2>4
    DEF SettingUp, NotRecorded, ServicesReached, SetupRecorded, SetupDone, Adding,
        Comparing, Diffing, Finished
<1>6. CASE \E a \in Apks : ApkRefused(a)
  BY <1>6, SetupReports DEF ApkRefused, Adding, meta, run
<1>7. CASE \E a \in Apks : BeginApk(a)
  <2>1. PICK a \in Apks : BeginApk(a)
    BY <1>7
  <2>2. /\ UNCHANGED <<cmd, recorded, moved, db, report>> /\ pc = "apks" /\ pc' = "insert"
        /\ todo' = todo \ {ApkItem(a)} /\ work' = {ApkItem(a)}
    BY <2>1 DEF BeginApk, meta, steady, run
  <2>3. todo \cup work \subseteq todo' \cup work'
    BY <1>0, <2>2 DEF Placed, Loops
  <2> QED
    BY <2>2, <2>3, SetupGoesOn DEF Adding
<1>8. CASE \E c \in Comps : InsertComp(c)
  <2>1. /\ UNCHANGED <<cmd, recorded, moved, db, report, pc, todo>> /\ pc = "insert"
        /\ work \subseteq work'
    BY <1>8 DEF InsertComp, meta, steady, run
  <2>2. todo \cup work \subseteq todo' \cup work'
    BY <2>1
  <2> QED
    BY <2>1, <2>2, SetupGoesOn DEF Adding
<1>9. CASE CommitApk
  <2>1. /\ UNCHANGED <<cmd, recorded, moved, report, todo>> /\ pc = "insert"
        /\ pc' = "apks" /\ work' = {}
        /\ db' = [db EXCEPT !.items = @ \cup work] /\ cmd.op = "setup"
    BY <1>9 DEF CommitApk, meta, steady, run
  <2>2. db'.items = db.items \cup work
    BY <1>0, <2>1 DEF DbOK
  <2>3. ApksReached'
    BY <2>1, <2>2 DEF SettingUp, ApksReached, Adding, Comparing
  <2> QED
    BY <2>1, <2>3
    DEF SettingUp, NotRecorded, ServicesReached, SetupRecorded, SetupDone, Adding,
        Comparing, Diffing, Finished
<1>10. CASE ApkCancelled
  BY <1>10, SetupReports DEF ApkCancelled, Rollback, Adding, meta
<1>11. CASE ListServices
  <2>1. /\ UNCHANGED <<cmd, recorded, moved, db, report, work>> /\ pc = "apks" /\ todo = {}
        /\ work = {} /\ pc' = "services" /\ todo' = AllServices
    BY <1>0, <1>11 DEF ListServices, Goto, meta, steady, run, Placed, Loops
  <2> QED
    BY <2>1
    DEF SettingUp, NotRecorded, ApksReached, ServicesReached, SetupRecorded, SetupDone,
        Adding, Comparing, Diffing, Finished, AllServices
<1>12. CASE \E s \in Services : AddService(s)
  <2>1. PICK s \in Services : AddService(s)
    BY <1>12
  <2>2. /\ UNCHANGED <<cmd, recorded, moved, report, work, pc>> /\ pc = "services"
        /\ todo' = todo \ {ServiceItem(s)} /\ cmd.op = "setup"
    BY <2>1 DEF AddService, meta, steady, run
  <2>3. db.items \subseteq db'.items /\ ServiceItem(s) \in db'.items
    BY <1>0, <2>1 DEF AddService, DbOK
  <2>4. ApksReached' /\ ServicesReached'
    BY <2>2, <2>3 DEF SettingUp, ApksReached, ServicesReached, Adding, Comparing
  <2> QED
    BY <2>2, <2>4
    DEF SettingUp, NotRecorded, SetupRecorded, SetupDone, Adding, Comparing, Diffing,
        Finished
<1>13. CASE RecordSetup
  <2>1. /\ pc = "services" /\ todo = {} /\ ~moved /\ cmd' = cmd
        /\ recorded' = recorded \cup {"setup"} /\ cmd.op = "setup"
    BY <1>13 DEF RecordSetup
  <2>2. ServicesAdded /\ (report \/ ApksAdded)
    BY <2>1
    DEF SettingUp, ApksReached, ServicesReached, Adding, ServicesAdded, ApksAdded
  <2>3. CASE cmd.diff /\ Emulator \in db.sources
    <3>1. pc' = "diff" /\ UNCHANGED <<db, report>>
      BY <1>13, <2>3 DEF RecordSetup
    <3> QED
      BY <2>1, <2>2, <2>3, <3>1
      DEF SettingUp, NotRecorded, ApksReached, ServicesReached, SetupRecorded,
          SetupDone, Adding, Comparing, Diffing, Finished, ServicesAdded, ApksAdded
  <2>4. CASE cmd.diff /\ Emulator \notin db.sources
    BY <1>13, <2>4, SetupEndsBadly DEF RecordSetup
  <2>5. CASE ~cmd.diff
    BY <1>13, <2>1, <2>2, <2>5, SetupEndsWell DEF RecordSetup
  <2> QED
    BY <2>3, <2>4, <2>5
<1> QED
  BY <1>1, <1>2, <1>3, <1>4, <1>5, <1>6, <1>7, <1>8, <1>9, <1>10, <1>11, <1>12, <1>13
  DEF SetupSteps

LEMMA DiffSettingUp ==
  ASSUME Sound, SettingUp, DiffSteps, cmd'.op = "setup"
  PROVE  SettingUp'
<1>0. Placed /\ DbOK(db)
  BY DEF Sound, Kept
<1>1. cmd' = cmd /\ pc \in Diffing \cup {"diff"}
  BY DEF DiffSteps, NextSource, BeginPhase, DiffItem, DiffService, ServiceHasRow,
         DiffMethod, ServiceDone, EndPhase, DiffCancelled, Diffed, CopyFile,
         EndOfSources, Goto, steady, run, Diffing
<1>2. Comparing /\ ~moved
  BY <1>0, <1>1 DEF Comparing, Placed, Loops, Diffing
<1>3. /\ ServicesAdded /\ "setup" \in recorded /\ cmd.diff
      /\ report \/ ApksAdded
  BY <1>2
  DEF SettingUp, SetupRecorded, ApksReached, ApksAdded, Comparing, Diffing
<1>4. CASE CopyFile
  <2>1. /\ pc = "copy" /\ files' = [files EXCEPT ![other.src] = other.version]
        /\ EndReporting(db) /\ recorded' = recorded
    BY <1>4 DEF CopyFile
  <2>2. other.src = Emulator /\ other.version = Aosp
    BY <1>1, <2>1 DEF Sound, Held, Source, Diffing
  <2>3. "diff" \in recorded
    BY <1>2, <2>1 DEF SettingUp, SetupRecorded
  <2>4. files'[Emulator] = Aosp
    BY <2>1, <2>2 DEF Sound, Basics, Sources
  <2> QED
    BY <1>2, <1>3, <2>1, <2>3, <2>4, SetupEndsWell
<1>5. CASE EndOfSources
  <2>1. pc = "diff" /\ queue = {}
    BY <1>5 DEF EndOfSources
  <2> QED
    BY <1>1, <2>1 DEF Sound, Held, Queue
<1>6. CASE \E result : End(result, db)
  <2>1. End("error", db) \/ CopyFile \/ EndOfSources
    BY <1>1, <1>2, <1>6
    DEF DiffSteps, NextSource, BeginPhase, DiffItem, DiffService, ServiceHasRow,
        DiffMethod, ServiceDone, EndPhase, DiffCancelled, Diffed, DiffFails, Goto, End
  <2> QED
    BY <1>4, <1>5, <2>1, SetupEndsBadly
<1>7. CASE db'.items = db.items /\ ~(\E result : End(result, db))
  <2>1. /\ pc' \in Diffing \cup {"diff"} /\ report' = report
        /\ recorded' \in {recorded, recorded \cup {"diff"}}
        /\ pc' = "copy" => "diff" \in recorded'
    BY <1>1, <1>2, <1>7
    DEF DiffSteps, NextSource, BeginPhase, DiffItem, DiffService, ServiceHasRow,
        DiffMethod, ServiceDone, EndPhase, DiffCancelled, Diffed, DiffFails, Goto,
        CopyFile, EndOfSources, EndReporting, steady, meta, run, Diffing
  <2> QED
    BY <1>1, <1>3, <1>7, <2>1
    DEF SettingUp, NotRecorded, ApksReached, ServicesReached, SetupRecorded,
        SetupDone, Adding, Comparing, Diffing, Finished, ServicesAdded, ApksAdded
<1> QED
  BY <1>6, <1>7, DiffItems

LEMMA NextSettingUp == Sound /\ SettingUp /\ [Next]_vars => SettingUp'
<1> SUFFICES ASSUME Sound, SettingUp, [Next]_vars, cmd'.op = "setup" PROVE SettingUp'
  BY NoSetup
<1>1. CASE Starts
  <2>1. pc' = "setup"
    BY <1>1 DEF Starts, StartSetup, StartWipe, StartEmulator, StartAddSource,
                StartRemoveSource, StartAddApk, StartAddImpl, Start
  <2> QED
    BY <2>1
    DEF SettingUp, NotRecorded, ApksReached, ServicesReached, SetupRecorded,
        SetupDone, Adding, Comparing, Diffing, Finished
<1>2. CASE OtherSteps
  <2>1. cmd' = cmd
    BY <1>2 DEF OtherSteps, AlreadyDiffed, NoEmulator, BeginDiff, DeleteEmulator,
                InsertEmulator, ReopenDiff, SourceExists, InsertSource, Undo,
                DeleteSource, RemoveFile, ApkExists, ReplaceApk, AddOneApk, DiffAdded,
                DeleteMethods, DeleteDiffs, ReaddMethods, Goto, Fails, steady, run
  <2>2. pc \in {"emulator", "reinsert", "reopen", "addsource", "undo", "removesource",
                "removefile", "addapk", "added", "deletemethods", "deletediffs", "readd"}
    BY <1>2 DEF OtherSteps, AlreadyDiffed, NoEmulator, BeginDiff, DeleteEmulator,
                InsertEmulator, ReopenDiff, SourceExists, InsertSource, Undo,
                DeleteSource, RemoveFile, ApkExists, ReplaceApk, AddOneApk, DiffAdded,
                DeleteMethods, DeleteDiffs, ReaddMethods
  <2> QED
    BY <2>1, <2>2 DEF Sound, Placed, Control
<1>3. CASE Cancel \/ UNCHANGED vars
  <2>1. UNCHANGED <<recorded, files, db, moved, cmd, pc, todo, work, report, outcome>>
    BY <1>3 DEF Cancel, vars, process, meta, run
  <2> QED
    BY <2>1
    DEF SettingUp, NotRecorded, ApksReached, ServicesReached, SetupRecorded,
        SetupDone, Adding, Comparing, Finished, ServicesAdded, ApksAdded
<1>4. CASE Fault
  <2>1. cmd' = cmd /\ recorded' = recorded
    BY <1>4 DEF Fault, meta
  <2>2. End("error", db) \/ (pc = "insert" /\ Rollback /\ cmd.op = "setup")
    BY <1>4, <2>1 DEF Fault, Rollback, DiffFails
  <2> QED
    BY <2>1, <2>2, SetupEndsBadly, SetupReports DEF Rollback, Adding
<1>5. CASE Kill
  BY <1>5, SetupEndsBadly DEF Kill
<1> QED
  BY <1>1, <1>2, <1>3, <1>4, <1>5, StepSettingUp, DiffSettingUp DEF Next, Steps

LEMMA InitSettingUp == Init => SettingUp
  BY DEF Init, SettingUp, NotRecorded, ApksReached, ServicesReached, SetupRecorded,
         SetupDone, Adding, Comparing, Finished

(* Following references finds what the manifest says: a matter of          *)
(* ManifestValues alone, which has a reference definition of it.           *)
ResolutionHolds == \A e \in Elements : AsDeclared(StoredRow(e), e)

(* When setup ends without an error, every APK with a manifest is in the   *)
(* database with what the manifest declares, and so is every service,      *)
(* although single APKs may fail without ending it; and it is recorded,    *)
(* after any history of commands that were cancelled, failed or killed.    *)
THEOREM SetupComplete ==
  ASSUME ResolutionHolds
  PROVE  Spec => []SetupOkMeansAll
<1>1. Sound /\ Whole(db.items) /\ SettingUp => SetupOkMeansAll
  <2> SUFFICES ASSUME Sound, Whole(db.items), SettingUp, Finished("setup")
               PROVE  /\ ApksAdded /\ ServicesAdded /\ "setup" \in recorded
                      /\ cmd.diff => "diff" \in recorded /\ files[Emulator] = Aosp
                      /\ \A e \in Elements : \E row \in OfKind(e.kind) :
                           row.apk = e.apk /\ AsDeclared(row, e)
                      /\ \A m \in OfKind("method") : AsWritten(m)
    BY DEF SetupOkMeansAll, ApksAdded, ServicesAdded
  <2>1. /\ ApksAdded /\ ServicesAdded /\ "setup" \in recorded
        /\ cmd.diff => "diff" \in recorded /\ files[Emulator] = Aosp
    BY DEF SettingUp, SetupDone
  <2>2. ASSUME NEW e \in Elements
        PROVE  \E row \in OfKind(e.kind) : row.apk = e.apk /\ AsDeclared(row, e)
    <3>1. StoredRow(e).kind = e.kind /\ StoredRow(e).apk = e.apk
      BY DeviceDbAssumption
      DEF StoredRow, CompKinds, IpcKinds, IpcRow, ServiceRow, ProviderRow, PermissionRow
    <3>2. e.apk \in Apks \ NoManifest /\ ApkItem(e.apk) \in db.items
      BY <2>1, DeviceDbAssumption DEF ApksAdded
    <3>3. OfApk(e.apk) \subseteq db.items
      BY <3>2 DEF Whole, OfApk
    <3>4. StoredRow(e) \in db.items
      BY <3>1, <3>3 DEF OfApk, CompsOf, Comps
    <3> QED
      BY <3>1, <3>4, ResolutionHolds DEF OfKind, ResolutionHolds
  <2>3. \A m \in OfKind("method") : AsWritten(m)
    <3>1. db.items \subseteq Items
      BY DEF Sound, Kept, DbOK
    <3>2. \A m \in OfKind("method") : m \in Methods
      BY <3>1, ItemFacts DEF OfKind
    <3> QED
      BY <3>2, MethodsAsWritten
  <2> QED
    BY <2>1, <2>2, <2>3
<1>2. Init => Whole(db.items) /\ Open
  BY FreshFacts DEF Init, Whole, Open
<1>3. Sound /\ Whole(db.items) /\ Open /\ [Next]_vars => Whole(db.items)' /\ Open'
  BY NextWhole, NextOpen DEF Whole
<1> QED
  BY <1>1, <1>2, <1>3, InitSound, NextSound, InitSettingUp, NextSettingUp, PTL DEF Spec

-------------------------------------------------------------------------------
(* What a diff writes is true of the item and the table it compares with.  *)

LEMMA ExportedKnown ==
  \A c \in Comps : c.kind \in IpcKinds \cup {"provider"} => c.exported \in BOOLEAN
<1>1. \A text : GetBoolResource(text) \in BOOLEAN \cup {None}
  BY DEF GetBoolResource
<1>2. \A value : ResolveBool(value) \in BOOLEAN \cup {None}
  BY <1>1 DEF ResolveBool
<1>3. \A e \in Elements : e.kind # "permission" => InDoubt(Exported(e)) \in BOOLEAN
  BY <1>2, DeviceDbAssumption DEF InDoubt, Exported
<1>4. ASSUME NEW e \in Elements, StoredRow(e).kind \in IpcKinds \cup {"provider"}
      PROVE  StoredRow(e).exported \in BOOLEAN
  <2>1. e.kind \in CompKinds
    BY DeviceDbAssumption
  <2>2. CASE e.kind = "permission"
    BY <1>4, <2>2 DEF StoredRow, PermissionRow, IpcKinds
  <2>3. CASE e.kind # "permission"
    <3>1. StoredRow(e) \in {IpcRow(e), ServiceRow(e), ProviderRow(e)}
      BY <2>1, <2>3 DEF StoredRow, CompKinds, IpcKinds
    <3>2. StoredRow(e).exported = InDoubt(Exported(e))
      BY <3>1 DEF IpcRow, ServiceRow, ProviderRow
    <3> QED
      BY <1>3, <2>3, <3>2
  <2> QED
    BY <2>2, <2>3
<1> QED
  BY <1>4 DEF Comps

LEMMA ExportedAgrees ==
  ASSUME NEW dev, NEW o, dev.exported \in BOOLEAN, o.exported \in BOOLEAN
  PROVE  ExportedMatches(dev, o) <=> dev.exported = o.exported
  BY Zenon DEF ExportedMatches

LEMMA PermsAgree ==
  ASSUME NEW dev, NEW o, dev.kind \in IpcKinds, o.kind = dev.kind
  PROVE  PermsMatch(dev, o) <=> dev.perm = o.perm
<1>1. ASSUME NEW x, x.kind \in IpcKinds
      PROVE  /\ PermissionFor(x, "Generic") = x.perm
             /\ PermissionFor(x, "Read") = None /\ PermissionFor(x, "Write") = None
  BY <1>1 DEF PermissionFor, IpcKinds
<1>2. ASSUME NEW x, x.kind \in IpcKinds
      PROVE  RequiresPermission(x) <=> x.perm # None
  BY <1>1, <1>2 DEF RequiresPermission, Modes
<1>3. (\A mode \in Modes : PermissionFor(dev, mode) = PermissionFor(o, mode))
        <=> dev.perm = o.perm
  BY <1>1 DEF Modes
<1> QED
  BY <1>2, <1>3 DEF PermsMatch

LEMMA TextsAgree == \A a, b : GetAndCmp(a, b) <=> a = b
  BY DEF GetAndCmp

LEMMA ComparedTruly ==
  ASSUME NEW i \in Items, NEW v \in Versioned, NEW row \in Compare(i, Content[v])
  PROVE  IsTrueOf(row, i, Content[v])
<1>1. CASE Candidates(i, Content[v]) = {}
  BY <1>1 DEF Compare, NotInDiff, IsTrueOf
<1>2. CASE Candidates(i, Content[v]) # {}
  <2>1. PICK o \in Candidates(i, Content[v]) : row = CompareWith(i, o)
    BY <1>2 DEF Compare
  <2>2. o \in Content[v] /\ o.kind = i.kind
    BY DEF Candidates
  <2>3. SUFFICES row.exists /\ row.matches \cap Columns(i.kind) = SameColumns(i, o)
    BY <1>2, <2>3 DEF IsTrueOf
  <2>4. ASSUME i.kind \in IpcKinds \cup {"provider"}
        PROVE  ExportedMatches(i, o) <=> i.exported = o.exported
    <3>1. i.exported \in BOOLEAN
      BY <2>4, ItemFacts, ExportedKnown DEF CompKinds
    <3>2. o.exported \in BOOLEAN
      BY <2>2, <2>4, DeviceDbAssumption DEF Versioned
    <3> QED
      BY <3>1, <3>2, ExportedAgrees
  <2>5. CASE i.kind \in IpcKinds
    <3> DEFINE holds == [exported |-> ExportedMatches(i, o), perm |-> PermsMatch(i, o)]
    <3>1. row = [exists |-> TRUE, matches |-> {c \in DOMAIN holds : holds[c]}]
      BY <2>1, <2>5 DEF CompareWith, InDiff, IpcKinds
    <3>2. DOMAIN holds = {"exported", "perm"} /\ Columns(i.kind) = {"exported", "perm"}
      BY <2>5 DEF Columns, IpcKinds
    <3>3. /\ holds["exported"] <=> i["exported"] = o["exported"]
          /\ holds["perm"] <=> i["perm"] = o["perm"]
      BY <2>2, <2>4, <2>5, PermsAgree
    <3> HIDE DEF holds
    <3> QED
      BY <3>1, <3>2, <3>3 DEF SameColumns
  <2>6. CASE i.kind = "provider"
    <3> DEFINE holds == [exported |-> ExportedMatches(i, o),
                         perm |-> GetAndCmp(i.perm, o.perm),
                         read |-> GetAndCmp(i.read, o.read),
                         write |-> GetAndCmp(i.write, o.write)]
    <3>1. row = [exists |-> TRUE, matches |-> {c \in DOMAIN holds : holds[c]}]
      BY <2>1, <2>6 DEF CompareWith, ProviderInDiff, IpcKinds
    <3>2. /\ DOMAIN holds = {"exported", "perm", "read", "write"}
          /\ Columns(i.kind) = {"exported", "perm", "read", "write"}
      BY <2>6 DEF Columns, IpcKinds
    <3>3. /\ holds["exported"] <=> i["exported"] = o["exported"]
          /\ holds["perm"] <=> i["perm"] = o["perm"]
          /\ holds["read"] <=> i["read"] = o["read"]
          /\ holds["write"] <=> i["write"] = o["write"]
      BY <2>4, <2>6, TextsAgree
    <3> HIDE DEF holds
    <3> QED
      BY <3>1, <3>2, <3>3 DEF SameColumns
  <2>7. CASE i.kind = "permission"
    <3>1. row = [exists |-> TRUE, matches |-> {c \in {"level"} : i.level = o.level}]
      BY <2>1, <2>7 DEF CompareWith, PermissionInDiff, IpcKinds
    <3>2. Columns(i.kind) = {"level"}
      BY <2>7 DEF Columns, IpcKinds
    <3> QED
      BY <3>1, <3>2 DEF SameColumns
  <2>8. CASE i.kind \in {"method", "apk", "service"}
    <3>1. row.exists = TRUE
      BY <2>1, <2>8 DEF CompareWith, MethodInDiff, IpcKinds
    <3>2. Columns(i.kind) = {}
      BY <2>8 DEF Columns, IpcKinds
    <3> QED
      BY <3>1, <3>2 DEF SameColumns
  <2> QED
    BY <2>5, <2>6, <2>7, <2>8, ItemFacts DEF Kinds, CompKinds
<1> QED
  BY <1>1, <1>2

-------------------------------------------------------------------------------
(* What the rows of the database say while diffs are interrupted.          *)

ServiceOf(i) == IF i.kind = "method" THEN ServiceItem(i.service) ELSE i

(* The loops of the diff will come to the item.                            *)
Pending(i) ==
  \/ i \in todo \/ i.kind \in phase
  \/ /\ i.kind = "method"
     /\ ServiceOf(i) \in todo \cup work \/ "service" \in phase

(* An item without a row is still ahead.                                   *)
Remaining ==
  pc \in Diffing /\ cmd.op \in {"setup", "emulator", "addsource"} =>
    \A i \in db.items : RowsFor(i, other.src) = {} => Pending(i)

(* A row of the emulator may be false only as add-service-impl leaves one, *)
(* which compares with a file that is not there yet: it is the row of a    *)
(* service or a method, and the service has a row, which the next diff     *)
(* stumbles over.                                                          *)
False(r) == r.src = Emulator /\ ~IsTrueOf(r.row, r.item, Content[Aosp])
Blocked(r, rows) ==
  /\ r.item.kind \in {"service", "method"}
  /\ \E q \in rows : q.item = ServiceOf(r.item) /\ q.src = Emulator
Explained(rows) == \A r \in rows : False(r) => Blocked(r, rows)

Safe == "setup" \notin recorded /\ ~moved => Explained(db.rows)

(* Setup's own diff has still to come to that service.                     *)
TrueSetup ==
  Comparing =>
    \A r \in db.rows : False(r) =>
      /\ Blocked(r, db.rows)
      /\ pc = "diff" \/ "service" \in phase \/ ServiceOf(r.item) \in todo

TrueSource ==
  cmd.op = "addsource" /\ pc \in {"diff"} \cup Diffing =>
    \A r \in db.rows : r.src = cmd.src => IsTrueOf(r.row, r.item, Content[cmd.version])

Right == Remaining /\ Safe /\ TrueSetup /\ TrueSource

(* Few steps change the rows, and few leave the setup unrecorded.          *)
ChangesRows ==
  \/ \E i \in Items : DiffItem(i) \/ DiffService(i)
  \/ \E m \in Methods : DiffMethod(m)
  \/ Undo \/ DeleteEmulator \/ DeleteSource \/ ReplaceApk \/ DeleteMethods \/ DeleteDiffs

LEMMA EndRows ==
  ASSUME NEW result, NEW content, End(result, content)
  PROVE  db'.rows \in {content.rows, {}}
  BY FreshFacts DEF End

LEMMA SetupRows ==
  ASSUME Sound, SetupSteps
  PROVE  db'.rows \in {db.rows, {}}
<1>0. DbOK(db)
  BY DEF Sound, Kept
<1>1. CASE UNCHANGED db
  BY <1>1
<1>2. CASE \E result : End(result, db)
  BY <1>2, EndRows
<1>3. CASE CommitApk
  BY <1>0, <1>3, ItemsAdded DEF CommitApk, Sound, Kept
<1>4. CASE \E s \in Services : AddService(s)
  BY <1>0, <1>4 DEF AddService, DbOK
<1> QED
  BY <1>1, <1>2, <1>3, <1>4
  DEF SetupSteps, AlreadySetup, BeginFresh, Wipe, UnrecordSetup,
      UnrecordDiff, ForgetDiff, ForgetSetup, SetupCancelled, NoSuchManifest,
      ApkRefused, BeginApk, InsertComp, ApkCancelled, Rollback, ListServices,
      ServiceRefused, RecordSetup, EndReporting, Goto, Fails

LEMMA OtherRows ==
  ASSUME Sound, OtherSteps
  PROVE  db'.rows \in {db.rows, {}} \/ ChangesRows
<1>0. DbOK(db)
  BY DEF Sound, Kept
<1>1. CASE UNCHANGED db \/ ChangesRows
  BY <1>1
<1>2. CASE \E result : End(result, db)
  BY <1>2, EndRows
<1>3. CASE InsertEmulator
  BY <1>0, <1>3, SourceAdded DEF InsertEmulator, Sources
<1>4. CASE InsertSource
  <2>1. cmd.src \in Sources
    BY <1>4 DEF InsertSource, Sound, Placed, Control, Command
  <2> QED
    BY <1>0, <1>4, <2>1, SourceAdded DEF InsertSource
<1>5. CASE ReaddMethods
  BY <1>0, <1>5 DEF ReaddMethods, DbOK
<1> QED
  BY <1>1, <1>2, <1>3, <1>4, <1>5
  DEF OtherSteps, ChangesRows, AlreadyDiffed, NoEmulator, BeginDiff, ReopenDiff,
      SourceExists, RemoveFile, ApkExists, AddOneApk, DiffAdded, Fails

LEMMA RowsSteps ==
  ASSUME Sound, [Next]_vars
  PROVE  db'.rows \in {db.rows, {}} \/ ChangesRows
<1>1. CASE Starts
  BY <1>1 DEF Starts, StartSetup, StartWipe, StartEmulator, StartAddSource,
              StartRemoveSource, StartAddApk, StartAddImpl, Start
<1>2. CASE DiffSteps
  BY <1>2, EndRows
  DEF DiffSteps, ChangesRows, NextSource, BeginPhase, ServiceHasRow, ServiceDone,
      EndPhase, DiffCancelled, Diffed, CopyFile, EndOfSources, EndReporting,
      DiffFails, Goto
<1>3. CASE Cancel \/ Fault \/ Kill \/ UNCHANGED vars
  BY <1>3, EndRows DEF Cancel, Fault, Rollback, DiffFails, Kill, vars
<1> QED
  BY <1>1, <1>2, <1>3, SetupRows, OtherRows DEF Next, Steps

(* A command that takes the record of the setup back, or closes a database *)
(* whose file was removed, leaves an empty one.                            *)
LEMMA Unrecording ==
  ASSUME Sound, [Next]_vars, "setup" \notin recorded', ~moved'
  PROVE  db'.rows = {} \/ ("setup" \notin recorded /\ ~moved)
<1>1. (moved => moved' \/ db' = FreshDb)
      /\ ("setup" \in recorded => "setup" \in recorded' \/ moved)
  <2>0. pc \in {"unrecord", "forget"} => moved
    BY DEF Sound, Placed, Loops
  <2>1. CASE Starts
    BY <2>1 DEF Starts, StartSetup, StartWipe, StartEmulator, StartAddSource,
                StartRemoveSource, StartAddApk, StartAddImpl, Start, meta
  <2>2. CASE SetupSteps
    BY <2>0, <2>2
    DEF SetupSteps, AlreadySetup, BeginFresh, Wipe, UnrecordSetup, UnrecordDiff,
        ForgetDiff, ForgetSetup, SetupCancelled, NoSuchManifest, ApkRefused,
        BeginApk, InsertComp, CommitApk, ApkCancelled, Rollback, ListServices,
        AddService, ServiceRefused, RecordSetup, EndReporting, End, Goto, Fails,
        steady, meta
  <2>3. CASE DiffSteps
    BY <2>3
    DEF DiffSteps, NextSource, BeginPhase, DiffItem, DiffService, ServiceHasRow,
        DiffMethod, ServiceDone, EndPhase, DiffCancelled, Diffed, CopyFile,
        EndOfSources, EndReporting, DiffFails, End, Goto, steady, meta
  <2>4. CASE OtherSteps
    BY <2>4
    DEF OtherSteps, AlreadyDiffed, NoEmulator, BeginDiff, DeleteEmulator,
        InsertEmulator, ReopenDiff, SourceExists, InsertSource, Undo, DeleteSource,
        RemoveFile, ApkExists, ReplaceApk, AddOneApk, DiffAdded, DeleteMethods,
        DeleteDiffs, ReaddMethods, End, Goto, Fails, steady, meta
  <2>5. CASE Cancel \/ Fault \/ Kill \/ UNCHANGED vars
    BY <2>5 DEF Cancel, Fault, Rollback, DiffFails, Kill, End, vars, meta
  <2> QED
    BY <2>1, <2>2, <2>3, <2>4, <2>5 DEF Next, Steps
<1> QED
  BY <1>1, FreshFacts

(* What the steps that write a row have at hand, and the row.              *)
LEMMA RowWritten ==
  ASSUME Sound, NEW i \in db.items, Insert(i), pc \in Diffing
  PROVE  \E new : /\ new.item = i /\ new.src = other.src
                  /\ IsTrueOf(new.row, i, Content[other.version])
                  /\ db'.items = db.items /\ db'.rows = db.rows \cup {new}
<1>1. DbOK(db) /\ i \in Items
  BY DEF Sound, Kept, DbOK
<1>2. other.src \in db.sources /\ other.version \in Versioned
  BY DEF Sound, Held, Source
<1>3. PICK row \in Compare(i, Content[other.version]) :
        LET new == [item |-> i, src |-> other.src, row |-> row]
        IN /\ db'.items = db.items /\ db'.sources = db.sources
           /\ db'.rows = db.rows \cup {new}
           /\ DbOK(db')
  BY <1>1, <1>2, RowAdded
<1> DEFINE new == [item |-> i, src |-> other.src, row |-> row]
<1>4. IsTrueOf(row, i, Content[other.version])
  BY <1>1, <1>2, <1>3, ComparedTruly
<1>5. new.item = i /\ new.src = other.src /\ new.row = row
  OBVIOUS
<1>6. db'.items = db.items /\ db'.rows = db.rows \cup {new}
  BY <1>3
<1> HIDE DEF new
<1> QED
  BY <1>4, <1>5, <1>6

LEMMA Writing ==
  ASSUME Sound, NEW i \in Items, DiffItem(i) \/ DiffService(i) \/ DiffMethod(i)
  PROVE  /\ pc \in Diffing /\ i \in db.items /\ Insert(i)
         /\ cmd' = cmd /\ other' = other /\ pc' \in Diffing
  BY DEF DiffItem, DiffService, DiffMethod, MethodsAtHand, OfKind, Sound, Held, InHand,
         Diffing, steady, run, diff

(* Rows that are there stay explained when one is added that is.           *)
LEMMA MoreExplained ==
  ASSUME NEW rows, NEW more, Explained(rows), NEW new, more = rows \cup {new},
         False(new) => Blocked(new, more)
  PROVE  Explained(more)
  BY DEF Explained, Blocked

LEMMA KeptSafe ==
  ASSUME Sound, Whole(db.items), SettingUp, Safe, [Next]_vars
  PROVE  Safe'
<1> SUFFICES ASSUME "setup" \notin recorded', ~moved', db'.rows # {}
             PROVE  Explained(db'.rows)
  BY DEF Safe, Explained, False, Blocked, ServiceOf
<1>1. "setup" \notin recorded /\ ~moved /\ Explained(db.rows) /\ DbOK(db)
  BY Unrecording DEF Safe, Sound, Kept
<1>2. cmd.op \in {"addapk", "addsource", "removesource"} => pc = "idle"
  BY <1>1 DEF Sound, Held, Prepared
<1>3. ~Comparing
  BY <1>1 DEF SettingUp, SetupRecorded
<1>4. CASE \E i \in Items : DiffItem(i) \/ DiffService(i) \/ DiffMethod(i)
  <2>1. PICK i \in Items : DiffItem(i) \/ DiffService(i) \/ DiffMethod(i)
    BY <1>4
  <2>2. pc \in Diffing /\ i \in db.items /\ Insert(i)
    BY <2>1, Writing
  <2>3. PICK new : /\ new.item = i /\ new.src = other.src
                   /\ IsTrueOf(new.row, i, Content[other.version])
                   /\ db'.items = db.items /\ db'.rows = db.rows \cup {new}
    BY <2>2, RowWritten
  <2>4. cmd.op \in {"emulator", "addimpl"}
    BY <1>2, <1>3, <2>2 DEF Comparing, Diffing, Sound, Placed, Control
  <2>5. CASE cmd.op = "emulator"
    <3>1. other.version = Aosp
      BY <2>2, <2>5 DEF Sound, Held, Source
    <3> QED
      BY <1>1, <2>3, <3>1, MoreExplained DEF False
  <2>6. CASE cmd.op = "addimpl"
    <3>1. ~DiffItem(i)
      <4>1. todo \subseteq {ServiceItem(cmd.service)}
        BY <2>2, <2>6 DEF Sound, Held, Reanalysed, Diffing
      <4> QED
        BY <4>1, KeyFacts DEF DiffItem
    <3>2. CASE DiffService(i)
      <4>1. i.kind = "service" /\ ServiceOf(i) = i
        BY <3>2 DEF DiffService, ServiceOf
      <4> QED
        BY <1>1, <2>3, <4>1, MoreExplained DEF False, Blocked
    <3>3. CASE DiffMethod(i)
      <4>1. i.kind = "method" /\ ServiceOf(i) \in work /\ pc = "methods"
        BY <3>3 DEF DiffMethod, MethodsAtHand, OfKind, ServiceOf
      <4>2. \E q \in db.rows : q.item = ServiceOf(i) /\ q.src = other.src
        BY <4>1 DEF Sound, Held, InHand, RowsFor
      <4> QED
        BY <1>1, <2>3, <4>1, <4>2, MoreExplained DEF False, Blocked
    <3> QED
      BY <2>1, <3>1, <3>2, <3>3
  <2> QED
    BY <2>4, <2>5, <2>6
<1>5. CASE Undo \/ DeleteSource \/ ReplaceApk
  BY <1>2, <1>5 DEF Undo, DeleteSource, ReplaceApk, Sound, Placed, Control
<1>6. CASE DeleteEmulator
  <2>1. db'.rows = {r \in db.rows : r.src # Emulator}
    BY <1>1, <1>6, SourceRemoved DEF DeleteEmulator
  <2> QED
    BY <2>1 DEF Explained, False
<1>7. CASE DeleteMethods
  <2>1. db'.rows = {r \in db.rows : r.item \notin MethodsOf(cmd.service)}
    BY <1>1, <1>7, ItemsRemoved DEF DeleteMethods
  <2>2. \A r \in db.rows : r.item.kind \in {"service", "method"} =>
          ServiceOf(r.item) \notin MethodsOf(cmd.service)
    BY KeyFacts, MethodFacts DEF ServiceOf, MethodsOf
  <2> QED
    BY <1>1, <2>1, <2>2 DEF Explained, Blocked
<1>8. CASE DeleteDiffs
  <2> DEFINE rows == {r \in db.rows : r.item # ServiceItem(cmd.service)}
  <2>1. db' = [db EXCEPT !.rows = rows] /\ pc = "deletediffs"
    BY <1>8 DEF DeleteDiffs
  <2>2. \A r \in rows : r.item \in db.items /\ r.src \in db.sources
    BY <1>1 DEF DbOK
  <2>3. MethodsOf(cmd.service) \cap db.items = {}
    BY <2>1 DEF Sound, Placed, Control, Held, Reanalysed
  <2>4. \A r \in rows : r.item.kind \in {"service", "method"} =>
          ServiceOf(r.item) # ServiceItem(cmd.service)
    <3>1. TAKE r \in rows
    <3>2. r.item \in db.items /\ r.item \in Items /\ r.item # ServiceItem(cmd.service)
      BY <1>1 DEF DbOK
    <3>3. ASSUME r.item.kind = "method" PROVE r.item.service # cmd.service
      BY <2>3, <3>2, <3>3, ItemFacts DEF MethodsOf
    <3> QED
      BY <3>2, <3>3, KeyFacts DEF ServiceOf
  <2>5. Explained(rows)
    BY <1>1, <2>4 DEF Explained, Blocked
  <2> HIDE DEF rows
  <2> QED
    BY <1>1, <2>1, <2>2, <2>5, RowsChanged
<1>9. CASE db'.rows = db.rows
  BY <1>1, <1>9
<1> QED
  BY <1>4, <1>5, <1>6, <1>7, <1>8, <1>9, RowsSteps DEF ChangesRows, Items

(* How a command comes to be comparing, and goes on.                       *)
LEMMA ComesToCompare ==
  ASSUME Sound, [Next]_vars, pc' \in Diffing \cup {"diff"}
  PROVE  /\ cmd' = cmd
         /\ \/ pc \in Diffing \cup {"diff"} /\ (DiffSteps \/ Cancel \/ UNCHANGED vars)
            \/ RecordSetup \/ BeginDiff \/ ReopenDiff \/ InsertSource \/ DiffAdded
<1> USE DEF Diffing
<1>1. CASE Starts
  BY <1>1 DEF Starts, StartSetup, StartWipe, StartEmulator, StartAddSource,
              StartRemoveSource, StartAddApk, StartAddImpl, Start
<1>2. CASE SetupSteps
  BY <1>2
  DEF SetupSteps, AlreadySetup, BeginFresh, Wipe, UnrecordSetup, UnrecordDiff,
      ForgetDiff, ForgetSetup, SetupCancelled, NoSuchManifest, ApkRefused, BeginApk,
      InsertComp, CommitApk, ApkCancelled, Rollback, ListServices, AddService,
      ServiceRefused, RecordSetup, EndReporting, End, Goto, Fails
<1>3. CASE DiffSteps
  BY <1>3
  DEF DiffSteps, NextSource, BeginPhase, DiffItem, DiffService, ServiceHasRow,
      DiffMethod, ServiceDone, EndPhase, DiffCancelled, Diffed, CopyFile,
      EndOfSources, Goto, steady, run
<1>4. CASE OtherSteps
  BY <1>4
  DEF OtherSteps, AlreadyDiffed, NoEmulator, BeginDiff, DeleteEmulator,
      InsertEmulator, ReopenDiff, SourceExists, InsertSource, Undo, DeleteSource,
      RemoveFile, ApkExists, ReplaceApk, AddOneApk, DiffAdded, DeleteMethods,
      DeleteDiffs, ReaddMethods, End, Goto, Fails, steady, run
<1>5. CASE Cancel \/ UNCHANGED vars
  BY <1>5 DEF Cancel, vars, process, run
<1>6. CASE Fault \/ Kill
  BY <1>6 DEF Fault, Rollback, DiffFails, Kill, End
<1> QED
  BY <1>1, <1>2, <1>3, <1>4, <1>5, <1>6 DEF Next, Steps

(* The steps of a diff that goes on.                                       *)
GoingOn ==
  /\ DiffSteps /\ pc' \in Diffing \cup {"diff"} /\ Sound
  /\ Whole(db.items) /\ Remaining /\ TrueSetup /\ TrueSource

LEMMA NextSourceRight ==
  ASSUME GoingOn, NEW s \in Sources, NextSource(s)
  PROVE  Remaining' /\ TrueSetup' /\ TrueSource'
<1>1. /\ pc = "diff" /\ UNCHANGED <<db, cmd>> /\ pc' \in Diffing
      /\ cmd.op # "addimpl" => pc' = "phase"
      /\ cmd.op \notin {"addimpl", "addapk"} => phase' = {"service"} \cup ApkPhases
  BY DEF NextSource, run, Diffing
<1>2. ASSUME cmd.op \in {"setup", "emulator", "addsource"}, NEW i \in db.items
      PROVE  i.kind \in phase' \/ (i.kind = "method" /\ "service" \in phase')
  <2>1. i \in Items
    BY DEF GoingOn, Sound, Kept, DbOK
  <2> QED
    BY <1>1, <1>2, <2>1, ItemFacts DEF ApkPhases, Kinds
<1>3. Remaining'
  BY <1>1, <1>2 DEF Remaining, Pending
<1>4. TrueSetup'
  BY <1>1 DEF GoingOn, TrueSetup, Comparing, False, Blocked, ServiceOf
<1>5. TrueSource'
  BY <1>1 DEF GoingOn, TrueSource
<1> QED
  BY <1>3, <1>4, <1>5

LEMMA BeginPhaseRight ==
  ASSUME GoingOn, NEW k \in Kinds \ {"method"}, BeginPhase(k)
  PROVE  Remaining' /\ TrueSetup' /\ TrueSource'
<1>1. /\ pc = "phase" /\ pc' = "rows" /\ UNCHANGED <<db, cmd, other, work>>
      /\ phase' = phase \ {k}
      /\ todo' = IF k = "service" THEN OfKind(k) ELSE Undone(k)
  BY DEF BeginPhase, steady, run
<1>2. todo = {} /\ work = {}
  BY <1>1 DEF GoingOn, Sound, Placed, Loops
<1>3. \A i \in db.items : i.kind \in {"service", "method"} =>
        ServiceOf(i) \in db.items /\ ServiceOf(i).kind = "service"
  BY KeyFacts DEF GoingOn, Whole, ServiceOf
<1>4. ASSUME NEW i \in db.items, RowsFor(i, other.src) = {}, Pending(i)
      PROVE  Pending(i)'
  <2>1. CASE i.kind = k
    <3>1. i \in todo'
      BY <1>1, <1>4, <2>1 DEF OfKind, Undone
    <3> QED
      BY <3>1 DEF Pending
  <2>2. CASE i.kind = "method" /\ k = "service"
    <3>1. ServiceOf(i) \in todo'
      BY <1>1, <1>3, <2>2 DEF OfKind
    <3> QED
      BY <2>2, <3>1 DEF Pending, ServiceOf
  <2>3. CASE i.kind # k /\ ~(i.kind = "method" /\ k = "service")
    BY <1>1, <1>2, <1>4, <2>3 DEF Pending
  <2> QED
    BY <2>1, <2>2, <2>3
<1>5. Remaining'
  BY <1>1, <1>4 DEF GoingOn, Remaining, Diffing, RowsFor
<1>6. TrueSetup'
  <2>1. SUFFICES ASSUME Comparing, NEW r \in db.rows, False(r)
                 PROVE  Blocked(r, db.rows) /\ ("service" \in phase' \/ ServiceOf(r.item) \in todo')
    BY <1>1 DEF TrueSetup, Comparing, Diffing, False, Blocked, ServiceOf
  <2>2. Blocked(r, db.rows) /\ "service" \in phase
    BY <1>1, <1>2, <2>1 DEF GoingOn, TrueSetup
  <2>3. r.item \in db.items
    BY DEF GoingOn, Sound, Kept, DbOK
  <2>4. CASE k = "service"
    BY <1>1, <1>3, <2>2, <2>3, <2>4 DEF Blocked, OfKind
  <2> QED
    BY <1>1, <2>2, <2>4
<1>7. TrueSource'
  BY <1>1 DEF GoingOn, TrueSource, Diffing
<1> QED
  BY <1>5, <1>6, <1>7

(* A row is written, and the item it is of is no longer ahead.             *)
LEMMA RowRight ==
  ASSUME GoingOn, NEW i \in Items, DiffItem(i) \/ DiffService(i) \/ DiffMethod(i)
  PROVE  Remaining' /\ TrueSetup' /\ TrueSource'
<1>1. /\ pc \in Diffing /\ i \in db.items /\ Insert(i)
      /\ cmd' = cmd /\ other' = other /\ pc' \in Diffing
  BY Writing DEF GoingOn
<1>2. PICK new : /\ new.item = i /\ new.src = other.src
                 /\ IsTrueOf(new.row, i, Content[other.version])
                 /\ db'.items = db.items /\ db'.rows = db.rows \cup {new}
  BY <1>1, RowWritten DEF GoingOn
<1>3. phase' = phase /\ todo \subseteq todo' \cup {i} /\ work \subseteq work'
  BY DEF DiffItem, DiffService, DiffMethod, diff, GoingOn, Sound, Placed, Loops
<1>4. \A j \in db.items : RowsFor(j, other.src)' = {} => RowsFor(j, other.src) = {} /\ j # i
  BY <1>1, <1>2 DEF RowsFor
<1>5. ASSUME NEW j \in db.items, j.kind = "method", ServiceOf(j) \in todo
      PROVE  ServiceOf(j) \in todo' \cup work'
  <2>1. ServiceOf(j).kind = "service"
    BY <1>5, KeyFacts DEF ServiceOf
  <2>2. CASE DiffItem(i)
    BY <1>3, <1>5, <2>1, <2>2 DEF DiffItem
  <2>3. CASE DiffService(i)
    BY <1>3, <1>5, <2>3 DEF DiffService
  <2>4. CASE DiffMethod(i)
    BY <1>5, <2>4 DEF DiffMethod
  <2> QED
    BY <2>2, <2>3, <2>4
<1>6. \A j \in db.items : Pending(j) /\ j # i => Pending(j)'
  BY <1>3, <1>5 DEF Pending, ServiceOf
<1>7. Remaining'
  BY <1>1, <1>2, <1>4, <1>6 DEF GoingOn, Remaining
<1>8. TrueSetup'
  <2>1. SUFFICES ASSUME Comparing, NEW r \in db'.rows, False(r)
                 PROVE  Blocked(r, db'.rows) /\ ("service" \in phase' \/ ServiceOf(r.item) \in todo')
    BY <1>1 DEF TrueSetup, Comparing, False, Blocked, ServiceOf
  <2>2. other.src = Emulator /\ other.version = Aosp
    BY <1>1, <2>1 DEF GoingOn, Sound, Held, Source, Comparing
  <2>3. r \in db.rows
    BY <1>2, <2>1, <2>2 DEF False
  <2>4. Blocked(r, db.rows) /\ ("service" \in phase \/ ServiceOf(r.item) \in todo)
    BY <1>1, <2>1, <2>3 DEF GoingOn, TrueSetup, Diffing
  <2>5. Blocked(r, db'.rows)
    BY <1>2, <2>4 DEF Blocked
  <2>6. ServiceOf(r.item) # i \/ DiffMethod(i)
    <3>1. ASSUME DiffService(i) PROVE ServiceOf(r.item) # i
      BY <2>2, <2>4, <3>1 DEF DiffService, Blocked, RowsFor
    <3>2. ASSUME DiffItem(i) PROVE ServiceOf(r.item) # i
      BY <2>4, <3>2, KeyFacts DEF DiffItem, Blocked, ServiceOf
    <3> QED
      BY <3>1, <3>2
  <2>7. DiffMethod(i) => todo' = todo
    BY DEF DiffMethod
  <2> QED
    BY <1>3, <2>4, <2>5, <2>6, <2>7
<1>9. TrueSource'
  <2>1. SUFFICES ASSUME cmd.op = "addsource", NEW r \in db'.rows, r.src = cmd.src
                 PROVE  IsTrueOf(r.row, r.item, Content[cmd.version])
    BY <1>1 DEF TrueSource
  <2>2. other.version = cmd.version
    BY <1>1, <2>1 DEF GoingOn, Sound, Held, Source
  <2> QED
    BY <1>1, <1>2, <2>1, <2>2 DEF GoingOn, TrueSource
<1> QED
  BY <1>7, <1>8, <1>9

LEMMA QuietRight ==
  ASSUME GoingOn, ServiceDone \/ EndPhase \/ Diffed \/ DiffCancelled \/ CopyFile
                  \/ EndOfSources \/ \E i \in Items : ServiceHasRow(i)
  PROVE  Remaining' /\ TrueSetup' /\ TrueSource'
<1>1. /\ UNCHANGED <<db, cmd, other, todo, phase>>
      /\ work' = work \/ (ServiceDone /\ work' = {})
      /\ pc \in Diffing /\ (pc' = "diff" => cmd.op \notin {"setup", "emulator", "addsource"})
  BY DEF GoingOn, ServiceDone, EndPhase, Diffed, DiffCancelled, CopyFile, EndOfSources,
         ServiceHasRow, DiffFails, EndReporting, End, Goto, steady, run, diff, Diffing
<1>2. ASSUME NEW i \in db.items, RowsFor(i, other.src) = {}, Pending(i)
      PROVE  Pending(i)'
  <2>1. CASE work' = work
    BY <1>1, <1>2, <2>1 DEF Pending
  <2>2. CASE ServiceDone
    <3>1. i.kind = "method" => ServiceOf(i) \notin work
      BY <1>2, <2>2 DEF ServiceDone, MethodsAtHand, OfKind, ServiceOf
    <3> QED
      BY <1>1, <1>2, <3>1 DEF Pending
  <2> QED
    BY <1>1, <2>1, <2>2
<1>3. Remaining'
  BY <1>1, <1>2 DEF GoingOn, Remaining, RowsFor
<1>4. TrueSetup'
  BY <1>1 DEF GoingOn, TrueSetup, Comparing, Diffing, False, Blocked, ServiceOf
<1>5. TrueSource'
  BY <1>1 DEF GoingOn, TrueSource
<1> QED
  BY <1>3, <1>4, <1>5

LEMMA KeptRight ==
  ASSUME Sound, Whole(db.items), SettingUp, Right, [Next]_vars
  PROVE  Right'
<1>1. Safe'
  BY KeptSafe DEF Right
<1>2. SUFFICES ASSUME pc' \in Diffing \cup {"diff"}
               PROVE  Remaining' /\ TrueSetup' /\ TrueSource'
  BY <1>1 DEF Right, Remaining, TrueSetup, TrueSource, Comparing
<1>3. CASE pc \in Diffing \cup {"diff"} /\ DiffSteps
  <2>1. GoingOn
    BY <1>2, <1>3 DEF GoingOn, Right
  <2> QED
    BY <1>3, <2>1, NextSourceRight, BeginPhaseRight, RowRight, QuietRight
    DEF DiffSteps, Items
<1>4. CASE Cancel \/ UNCHANGED vars
  <2>1. UNCHANGED <<db, pc, todo, work, phase, other, cmd>>
    BY <1>4 DEF Cancel, vars, process, diff, run
  <2> QED
    BY <2>1
    DEF Right, Remaining, Pending, RowsFor, TrueSetup, Comparing, False, Blocked,
        ServiceOf, TrueSource
<1>5. CASE RecordSetup
  <2>1. /\ pc = "services" /\ ~moved /\ pc' = "diff" /\ cmd' = cmd /\ cmd.op = "setup"
        /\ db' = db
    BY <1>2, <1>5
    DEF RecordSetup, EndReporting, End, Sound, Placed, Control, Setting, Diffing
  <2>2. Explained(db.rows)
    BY <2>1 DEF SettingUp, NotRecorded, Adding, Right, Safe
  <2> QED
    BY <2>1, <2>2
    DEF Remaining, TrueSetup, Comparing, Explained, False, Blocked, ServiceOf,
        TrueSource, Diffing
<1>6. CASE BeginDiff \/ ReopenDiff \/ DiffAdded
  <2>1. cmd' = cmd /\ cmd.op \in {"emulator", "addapk", "addimpl"} /\ pc' = "diff"
    BY <1>6 DEF BeginDiff, ReopenDiff, DiffAdded, Sound, Placed, Control, steady, run
  <2> QED
    BY <2>1 DEF Remaining, TrueSetup, Comparing, TrueSource, Diffing
<1>7. CASE InsertSource
  <2>1. /\ cmd' = cmd /\ cmd.op = "addsource" /\ pc' = "diff" /\ cmd.src \in Sources
        /\ cmd.src \notin db.sources
        /\ db' = [db EXCEPT !.sources = @ \cup {cmd.src}]
    BY <1>7 DEF InsertSource, Sound, Placed, Control, Command, steady, run
  <2>2. DbOK(db)
    BY DEF Sound, Kept
  <2>3. db'.rows = db.rows
    BY <2>1, <2>2, SourceAdded
  <2>4. \A r \in db.rows : r.src # cmd.src
    BY <2>1, <2>2 DEF DbOK
  <2> QED
    BY <2>1, <2>3, <2>4 DEF Remaining, TrueSetup, Comparing, TrueSource, Diffing
<1> QED
  BY <1>2, <1>3, <1>4, <1>5, <1>6, <1>7, ComesToCompare

LEMMA InitRight == Init => Right
  BY FreshFacts
  DEF Init, Right, Remaining, Safe, Explained, TrueSetup, Comparing, TrueSource, Diffing

(* The commands that a diff is the purpose of end well only after it.      *)
LEMMA EndsWell ==
  ASSUME Sound, [Next]_vars, pc' = "idle", outcome' = "ok",
         \/ cmd'.op = "setup" /\ cmd'.diff
         \/ cmd'.op \in {"addsource", "emulator"}
  PROVE  \/ pc = "idle" /\ UNCHANGED <<db, cmd, outcome>>
         \/ CopyFile
         \/ Diffed /\ cmd.op = "emulator" /\ db' = db /\ cmd' = cmd
<1>1. CASE Starts
  <2>1. outcome' = "none"
    BY <1>1 DEF Starts, StartSetup, StartWipe, StartEmulator, StartAddSource,
                StartRemoveSource, StartAddApk, StartAddImpl, Start
  <2> QED
    BY <2>1
<1>2. CASE SetupSteps
  <2>1. ForgetSetup \/ RecordSetup
    BY <1>2
    DEF SetupSteps, AlreadySetup, BeginFresh, Wipe, UnrecordSetup, UnrecordDiff,
        ForgetDiff, SetupCancelled, NoSuchManifest, ApkRefused, BeginApk, InsertComp,
        CommitApk, ApkCancelled, Rollback, ListServices, AddService, ServiceRefused,
        End, Goto, Fails
  <2>2. ~ForgetSetup
    BY DEF ForgetSetup, Sound, Placed, Control
  <2>3. ~RecordSetup
    BY DEF RecordSetup, End, Sound, Placed, Control, Setting
  <2> QED
    BY <2>1, <2>2, <2>3
<1>3. CASE DiffSteps
  <2>1. ~moved
    BY <1>3 DEF Sound, Placed, Loops, DiffSteps, NextSource, BeginPhase, DiffItem,
                DiffService, ServiceHasRow, DiffMethod, ServiceDone, EndPhase,
                DiffCancelled, Diffed, CopyFile, EndOfSources
  <2>2. ~EndOfSources
    BY DEF EndOfSources, Sound, Held, Queue
  <2> QED
    BY <1>3, <2>1, <2>2
    DEF DiffSteps, NextSource, BeginPhase, DiffItem, DiffService, ServiceHasRow,
        DiffMethod, ServiceDone, EndPhase, DiffCancelled, Diffed, DiffFails, End, Goto
<1>4. CASE OtherSteps
  BY <1>4
  DEF OtherSteps, AlreadyDiffed, NoEmulator, BeginDiff, DeleteEmulator,
      InsertEmulator, ReopenDiff, SourceExists, InsertSource, Undo, DeleteSource,
      RemoveFile, ApkExists, ReplaceApk, AddOneApk, DiffAdded, DeleteMethods,
      DeleteDiffs, ReaddMethods, End, Goto, Fails, Sound, Placed, Control
<1>5. CASE Cancel \/ UNCHANGED vars
  BY <1>5 DEF Cancel, vars, process, run
<1>6. CASE Fault \/ Kill
  BY <1>6 DEF Fault, Rollback, DiffFails, Kill, End
<1> QED
  BY <1>1, <1>2, <1>3, <1>4, <1>5, <1>6 DEF Next, Steps

LEMMA KeptTrue ==
  ASSUME Sound, Whole(db.items), Right, DiffOkMeansTrue, [Next]_vars
  PROVE  DiffOkMeansTrue'
<1> USE DEF DiffOkMeansTrue, TrulyDiffedWith, DiffedWith, RowsFor, Finished
<1>1. CASE pc = "idle" /\ UNCHANGED <<db, cmd, outcome>>
  BY <1>1
<1>2. CASE CopyFile
  <2>1. /\ pc = "copy" /\ ~moved /\ cmd' = cmd /\ cmd.op \in {"setup", "addsource"}
        /\ todo = {} /\ work = {} /\ phase = {}
    BY <1>2 DEF CopyFile, Sound, Placed, Control, Loops, Diffing
  <2>2. db' = db
    BY <1>2, <2>1 DEF CopyFile, EndReporting, End
  <2>3. \A i \in db.items : ~Pending(i)
    BY <2>1 DEF Pending
  <2>4. \A i \in db.items : RowsFor(i, other.src) # {}
    BY <2>1, <2>3 DEF Right, Remaining, Diffing
  <2>5. CASE cmd.op = "setup"
    <3>1. other.src = Emulator
      BY <2>1, <2>5 DEF Sound, Held, Source, Diffing
    <3>2. \A r \in db.rows : ~False(r)
      BY <2>1, <2>5 DEF Right, TrueSetup, Comparing, Diffing
    <3> QED
      BY <2>1, <2>2, <2>4, <2>5, <3>1, <3>2 DEF False
  <2>6. CASE cmd.op = "addsource"
    <3>1. other.src = cmd.src
      BY <2>1, <2>6 DEF Sound, Held, Source, Diffing
    <3>2. \A r \in db.rows : r.src = cmd.src => IsTrueOf(r.row, r.item, Content[cmd.version])
      BY <2>1, <2>6 DEF Right, TrueSource, Diffing
    <3> QED
      BY <2>1, <2>2, <2>4, <2>6, <3>1, <3>2
  <2> QED
    BY <2>1, <2>5, <2>6
<1>3. CASE Diffed /\ cmd.op = "emulator" /\ db' = db /\ cmd' = cmd
  <2>1. /\ pc = "diffed" /\ todo = {} /\ work = {} /\ phase = {}
    BY <1>3 DEF Diffed, Sound, Placed, Loops, Diffing
  <2>2. other.src = Emulator
    BY <1>3, <2>1 DEF Sound, Held, Source, Diffing
  <2>3. \A i \in db.items : ~Pending(i)
    BY <2>1 DEF Pending
  <2>4. \A i \in db.items : RowsFor(i, Emulator) # {}
    BY <1>3, <2>1, <2>2, <2>3 DEF Right, Remaining, Diffing
  <2> QED
    BY <1>3, <2>4
<1> QED
  BY <1>1, <1>2, <1>3, EndsWell

(* After a setup with a diff, or diff-source add, every item has a row     *)
(* that says how it differs from what the source has, although diffs       *)
(* before it were cut short, or compared with another database; and after  *)
(* emulator-diff every item has one.                                       *)
THEOREM DiffsTrue == Spec => []DiffOkMeansTrue
<1>1. Init => Whole(db.items) /\ Open /\ DiffOkMeansTrue
  BY FreshFacts DEF Init, Whole, Open, DiffOkMeansTrue, Finished
<1>2. Sound /\ Whole(db.items) /\ Open /\ [Next]_vars => Whole(db.items)' /\ Open'
  BY NextWhole, NextOpen DEF Whole
<1>3. Sound /\ Whole(db.items) /\ SettingUp /\ Right /\ [Next]_vars => Right'
  BY KeptRight
<1>4. Sound /\ Whole(db.items) /\ Right /\ DiffOkMeansTrue /\ [Next]_vars
        => DiffOkMeansTrue'
  BY KeptTrue
<1> QED
  BY <1>1, <1>2, <1>3, <1>4, InitSound, NextSound, InitSettingUp, NextSettingUp,
     InitRight, PTL DEF Spec

===============================================================================
