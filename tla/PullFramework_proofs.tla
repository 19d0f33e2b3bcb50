-------------------------- MODULE PullFramework_proofs --------------------------
(***************************************************************************)
(* Proofs about PullFramework, for every set of files and groups, every    *)
(* number of workers, every capacity of the channel and every disk that    *)
(* earlier runs can have left.                                             *)
(***************************************************************************)
EXTENDS PullFramework, SequenceTheorems, TLAPS

-------------------------------------------------------------------------------
(* What the operators of PullStatus return.                                *)

LEMMA RowTypes ==
  /\ NewRow \in Row
  /\ \A r \in Row, pl \in Place : WithHost(r, pl) \in Row
  /\ \A r \in Row, b \in BOOLEAN : Attempted(r, b) \in Row
<1>1. NewRow \in Row
  BY DEF Row, NewRow
<1>2. ASSUME NEW r \in Row, NEW pl \in Place
      PROVE  WithHost(r, pl) \in Row
  BY DEF Row, WithHost
<1>3. ASSUME NEW r \in Row, NEW b \in BOOLEAN
      PROVE  Attempted(r, b) \in Row
  BY DEF Row, Attempted
<1> QED
  BY <1>1, <1>2, <1>3

LEMMA PullTypes ==
  ASSUME NEW before \in FileState, NEW o \in PullOutcomes(before)
  PROVE  o.ok \in BOOLEAN /\ o.file \in FileState
<1>1. CASE \E f \in {before, "broken"} : o = [ok |-> FALSE, file |-> f]
  BY <1>1 DEF FileState
<1>2. CASE o = [ok |-> TRUE, file |-> "whole"]
  BY <1>2 DEF FileState
<1>3. CASE o = [ok |-> TRUE, file |-> "broken"]
  BY <1>3 DEF FileState
<1> QED
  BY <1>1, <1>2, <1>3 DEF PullOutcomes

LEMMA DecompileTypes ==
  ASSUME NEW file, NEW before \in SmaliState, NEW o \in DecompileOutcomes(file, before)
  PROVE  o.success \in BOOLEAN /\ o.smali \in SmaliState
<1>1. CASE o = [success |-> FALSE, smali |-> before]
  BY <1>1
<1>2. CASE o = [success |-> TRUE, smali |-> "all"]
  BY <1>2 DEF SmaliState
<1>3. CASE o = [success |-> FALSE, smali |-> "some"]
  BY <1>3 DEF SmaliState
<1> QED
  BY <1>1, <1>2, <1>3 DEF DecompileOutcomes

LEMMA FileTypes ==
  ASSUME NEW kind, NEW file, NEW before \in SmaliState,
         NEW o \in FileOutcomes(kind, file, before)
  PROVE  o.success \in BOOLEAN /\ o.smali \in SmaliState
<1>1. CASE \E s \in {before, "some", "all"}, b \in BOOLEAN : o = [success |-> b, smali |-> s]
  BY <1>1 DEF SmaliState
<1>2. \E s \in {before, "some", "all"}, b \in BOOLEAN : o = [success |-> b, smali |-> s]
  BY DEF FileOutcomes
<1> QED
  BY <1>1, <1>2

(* Writing one element of a sequence leaves a sequence over the same set.  *)
LEMMA ExceptInSeq ==
  ASSUME NEW S, NEW s \in Seq(S), NEW i, NEW v \in S
  PROVE  [s EXCEPT ![i] = v] \in Seq(S)
<1>1. CASE i \in 1 .. Len(s)
  BY <1>1, ExceptSeq
<1>2. CASE i \notin 1 .. Len(s)
  <2>1. s = [k \in 1 .. Len(s) |-> s[k]]
    OBVIOUS
  <2>2. [s EXCEPT ![i] = v] = s
    BY <1>2, <2>1
  <2> QED
    BY <2>2
<1> QED
  BY <1>1, <1>2

-------------------------------------------------------------------------------
(* Items and the states of a worker.                                       *)

LEMMA ItemTypes ==
  /\ \A n \in DOMAIN FrameworkApks :
        ApkItem(n) \in Items /\ FilesOf(ApkItem(n)) = <<FrameworkApks[n]>>
  /\ \A g \in Group : GroupItem(g) \in Items /\ FilesOf(GroupItem(g)) = Members[g]
  /\ \A p, g : ApkItem(p) # GroupItem(g)
  /\ \A p, q : ApkItem(p) = ApkItem(q) <=> p = q
  /\ \A g, h : GroupItem(g) = GroupItem(h) <=> g = h
<1>1. ASSUME NEW n \in DOMAIN FrameworkApks
      PROVE  ApkItem(n) \in Items /\ FilesOf(ApkItem(n)) = <<FrameworkApks[n]>>
  BY DEF Items, ApkItem, FilesOf
<1>2. ASSUME NEW g \in Group PROVE GroupItem(g) \in Items /\ FilesOf(GroupItem(g)) = Members[g]
  BY DEF Items, GroupItem, FilesOf
<1>3. ASSUME NEW p, NEW g PROVE ApkItem(p) # GroupItem(g)
  BY DEF ApkItem, GroupItem
<1>4. ASSUME NEW p, NEW q PROVE ApkItem(p) = ApkItem(q) <=> p = q
  BY DEF ApkItem
<1>5. ASSUME NEW g, NEW h PROVE GroupItem(g) = GroupItem(h) <=> g = h
  BY DEF GroupItem
<1> QED
  BY <1>1, <1>2, <1>3, <1>4, <1>5

(* Every item has a file, and all its files are paths.                     *)
LEMMA FilesTypes ==
  ASSUME NEW item \in Items
  PROVE  /\ FilesOf(item) \in Seq(Path) /\ Len(FilesOf(item)) \in Nat
         /\ 1 \in DOMAIN FilesOf(item)
         /\ DOMAIN FilesOf(item) \subseteq Nat \ {0}
         /\ \A i \in DOMAIN FilesOf(item) : FilesOf(item)[i] \in Path
<1>1. CASE \E n \in DOMAIN FrameworkApks : item = ApkItem(n)
  <2>1. PICK n \in DOMAIN FrameworkApks : item = ApkItem(n)
    BY <1>1
  <2>2. FilesOf(item) = <<FrameworkApks[n]>> /\ FrameworkApks[n] \in Path
    BY <2>1, ItemTypes, FrameworkAssumption
  <2> QED
    BY <2>2
<1>2. CASE \E g \in Group : item = GroupItem(g)
  <2>1. PICK g \in Group : item = GroupItem(g)
    BY <1>2
  <2>2. FilesOf(item) \in Seq(Path) /\ FilesOf(item) # <<>>
    BY <2>1, ItemTypes, FrameworkAssumption
  <2> QED
    BY <2>2
<1> QED
  BY <1>1, <1>2 DEF Items

LEMMA WorkerTypes ==
  /\ \A pc \in IdlePc : Idle(pc) \in WorkerState
  /\ \A pc \in BusyPc, item \in Items, pos \in Nat \ {0}, id \in Nat, r \in Row :
        Busy(pc, item, pos, id, r) \in WorkerState
  /\ \A s \in WorkerState : s.pc \in BusyPc =>
        s.item \in Items /\ s.pos \in Nat \ {0} /\ s.id \in Nat /\ s.row \in Row
  BY DEF Idle, Busy, WorkerState, IdlePc, BusyPc

LEMMA BusyTypes ==
  ASSUME TypeOK, NEW w \in Worker, IsBusy(w)
  PROVE  /\ worker[w].item \in Items /\ worker[w].pos \in Nat \ {0}
         /\ worker[w].id \in Nat /\ worker[w].row \in Row
         /\ worker[w].pos \in DOMAIN FilesOf(worker[w].item)
         /\ PathOf(w) \in Path
<1>1. worker[w] \in WorkerState
  BY DEF TypeOK
<1>2. worker[w].item \in Items /\ worker[w].pos \in DOMAIN FilesOf(worker[w].item)
  BY <1>1, WorkerTypes DEF TypeOK, IsBusy
<1> QED
  BY <1>1, <1>2, WorkerTypes, FilesTypes DEF IsBusy, PathOf

(* A worker goes to an idle state, to a step of the file it has, to a file *)
(* of an item.                                                             *)
LEMMA GotoAt ==
  ASSUME TypeOK, NEW w \in Worker, NEW s, Goto(w, s)
  PROVE  \A v \in Worker : worker'[v] = IF v = w THEN s ELSE worker[v]
BY DEF TypeOK, Goto

WorkerOK ==
  /\ worker \in [Worker -> WorkerState]
  /\ \A w \in Worker : IsBusy(w) => worker[w].pos \in DOMAIN FilesOf(worker[w].item)

LEMMA GotoTypes ==
  ASSUME TypeOK, NEW w \in Worker, NEW s \in WorkerState, Goto(w, s),
         s.pc \in BusyPc => s.pos \in DOMAIN FilesOf(s.item)
  PROVE  WorkerOK'
<1>1. worker' \in [Worker -> WorkerState]
  BY DEF TypeOK, Goto
<1>2. \A v \in Worker :
        worker'[v].pc \in BusyPc => worker'[v].pos \in DOMAIN FilesOf(worker'[v].item)
  BY GotoAt DEF TypeOK, IsBusy
<1>3. \A v \in Worker : IsBusy(v)' <=> worker'[v].pc \in BusyPc
  BY DEF IsBusy, BusyPc
<1>4. \A v \in Worker : DOMAIN FilesOf(worker[v].item)' = DOMAIN FilesOf(worker'[v].item)
  BY DEF FilesOf
<1>5. (\A v \in Worker : IsBusy(v) => worker[v].pos \in DOMAIN FilesOf(worker[v].item))'
  BY <1>2, <1>3, <1>4
<1> QED
  BY <1>1, <1>5 DEF WorkerOK

LEMMA IdleTypes ==
  ASSUME TypeOK, NEW w \in Worker, NEW pc \in IdlePc, Goto(w, Idle(pc))
  PROVE  WorkerOK'
<1>1. Idle(pc) \in WorkerState /\ Idle(pc).pc \notin BusyPc
  BY WorkerTypes DEF Idle, IdlePc, BusyPc
<1> QED
  BY <1>1, GotoTypes

LEMMA BusyGotoTypes ==
  ASSUME TypeOK, NEW w \in Worker, NEW pc \in BusyPc, NEW item \in Items,
         NEW pos \in DOMAIN FilesOf(item), NEW id \in Nat, NEW r \in Row,
         Goto(w, Busy(pc, item, pos, id, r))
  PROVE  WorkerOK'
<1>1. pos \in Nat \ {0}
  BY FilesTypes
<1>2. Busy(pc, item, pos, id, r) \in WorkerState
  BY <1>1, WorkerTypes
<1>3. Busy(pc, item, pos, id, r).pos = pos /\ Busy(pc, item, pos, id, r).item = item
  BY DEF Busy
<1> QED
  BY <1>2, <1>3, GotoTypes

(* A busy worker is what Busy makes of its fields, so the steps that       *)
(* change one or two of them are steps to another such state.              *)
LEMMA StepIsGoto ==
  ASSUME TypeOK, NEW w \in Worker, IsBusy(w), NEW pc \in BusyPc
  PROVE  /\ Step(w, pc) <=>
              Goto(w, Busy(pc, worker[w].item, worker[w].pos, worker[w].id, worker[w].row))
         /\ \A success : Attempt(w, success) <=>
              Goto(w, Busy("update", worker[w].item, worker[w].pos, worker[w].id,
                           Attempted(worker[w].row, success)))
<1>1. worker[w] \in [pc: BusyPc, item: Items, pos: Nat \ {0}, id: Nat, row: Row]
  BY DEF TypeOK, IsBusy, WorkerState, IdlePc, BusyPc
<1>2. [worker[w] EXCEPT !.pc = pc] =
        Busy(pc, worker[w].item, worker[w].pos, worker[w].id, worker[w].row)
  BY <1>1 DEF Busy
<1> QED
  BY <1>2 DEF Step, Attempt

(* A worker goes to another step of its file, or to save its attempt.      *)
LEMMA StepTypes ==
  ASSUME TypeOK, NEW w \in Worker, IsBusy(w), NEW pc \in BusyPc, Step(w, pc)
  PROVE  WorkerOK'
<1>1. Goto(w, Busy(pc, worker[w].item, worker[w].pos, worker[w].id, worker[w].row))
  BY StepIsGoto
<1> QED
  BY <1>1, BusyTypes, BusyGotoTypes

LEMMA AttemptTypes ==
  ASSUME TypeOK, NEW w \in Worker, IsBusy(w), NEW success \in BOOLEAN, Attempt(w, success)
  PROVE  WorkerOK'
<1>1. Goto(w, Busy("update", worker[w].item, worker[w].pos, worker[w].id,
                   Attempted(worker[w].row, success)))
  BY DEF Attempt
<1>2. Attempted(worker[w].row, success) \in Row /\ "update" \in BusyPc
  BY BusyTypes, RowTypes DEF BusyPc
<1> QED
  BY <1>1, <1>2, BusyTypes, BusyGotoTypes

LEMMA FileEndsTypes ==
  ASSUME TypeOK, NEW w \in Worker, IsBusy(w), NEW success, FileEnds(w, success)
  PROVE  WorkerOK' /\ handled' \subseteq Items
<1>1. CASE Goto(w, Busy("status", worker[w].item, worker[w].pos + 1, 0, NewRow))
           /\ worker[w].pos + 1 \in DOMAIN FilesOf(worker[w].item) /\ UNCHANGED handled
  BY <1>1, BusyTypes, BusyGotoTypes, RowTypes DEF BusyPc, TypeOK
<1>2. CASE /\ Goto(w, Idle(IF worker[w].item.kind = "apk" THEN "pool" ELSE "check"))
           /\ handled' = handled \cup {worker[w].item}
  BY <1>2, BusyTypes, IdleTypes DEF IdlePc, TypeOK
<1> QED
  BY <1>1, <1>2 DEF FileEnds

LEMMA HaveStatusTypes ==
  ASSUME TypeOK, NEW w \in Worker, IsBusy(w), NEW id \in Nat, NEW r \in Row,
         HaveStatus(w, id, r)
  PROVE  WorkerOK'
<1>1. WithHost(r, "frameworks") \in Row
  BY RowTypes DEF Place
<1> QED
  BY <1>1, BusyTypes, BusyGotoTypes DEF HaveStatus, BusyPc

-------------------------------------------------------------------------------
(* Type correctness.                                                       *)

LEMMA TypeInit == Init => TypeOK
<1> SUFFICES ASSUME Init PROVE TypeOK
  OBVIOUS
<1>1. PICK d \in [Path -> UNION {StartDisk[p] : p \in Path}] :
        /\ \A p \in Path : d[p] \in StartDisk[p]
        /\ rows = [p \in Path |-> d[p].rows]
        /\ copies = [p \in Path |-> d[p].copy]
        /\ smali = [p \in Path |-> d[p].smali]
  BY DEF Init, DiskInit
<1>2. \A p \in Path : d[p] \in [rows: Seq(Row), copy: [Place -> FileState], smali: SmaliState]
  <2>1. \A p \in Path : StartDisk[p] \subseteq Disk
    BY FrameworkAssumption
  <2> QED
    BY <1>1, <2>1 DEF Disk
<1>3. rows \in [Path -> Seq(Row)] /\ copies \in [Path -> [Place -> FileState]]
      /\ smali \in [Path -> SmaliState]
  BY <1>1, <1>2
<1>4. worker \in [Worker -> WorkerState] /\ \A w \in Worker : ~IsBusy(w)
  BY WorkerTypes DEF Init, IdlePc, Idle, IsBusy, BusyPc
<1>5. chan \in Seq(Group) /\ Len(chan) <= Capacity
  BY FrameworkAssumption DEF Init
<1>6. drainer \in [pc: {"take", "done"}]
  BY DEF Init
<1> QED
  BY <1>3, <1>4, <1>5, <1>6 DEF Init, TypeOK

LEMMA DrainerTypes ==
  ASSUME TypeOK, Drainer
  PROVE  TypeOK'
<1>1. UNCHANGED <<cancelled, phase, pending, worker, rows, copies, smali, result, handled>>
  BY DEF Drainer, diskVars
<1>2. (\A w \in Worker : IsBusy(w) => worker[w].pos \in DOMAIN FilesOf(worker[w].item))'
  BY <1>1 DEF TypeOK, IsBusy, FilesOf
<1>3. fileMap' \subseteq Group
  BY DEF Drainer, DrainTake, DrainCheck, DrainSend, TypeOK
<1>4. drainer' \in [pc: {"take", "done"}] \cup [pc: {"check", "send"}, group: Group]
  BY DEF Drainer, DrainTake, DrainCheck, DrainSend, TypeOK
<1>5. chan' \in Seq(Group) /\ Len(chan') <= Capacity
  <2>1. CASE UNCHANGED chan
    BY <2>1 DEF TypeOK
  <2>2. CASE Len(chan) < Capacity /\ chan' = Append(chan, drainer.group) /\ drainer.pc = "send"
    <3>1. drainer.group \in Group
      BY <2>2 DEF TypeOK
    <3> QED
      BY <2>2, <3>1, FrameworkAssumption DEF TypeOK
  <2> QED
    BY <2>1, <2>2 DEF Drainer, DrainTake, DrainCheck, DrainSend
<1> QED
  BY <1>1, <1>2, <1>3, <1>4, <1>5 DEF TypeOK

LEMMA WorkerStepTypes ==
  ASSUME TypeOK, NEW w \in Worker, WorkerStep(w)
  PROVE  TypeOK'
<1>0. ASSUME WorkerOK', handled' \subseteq Items, pending' \subseteq DOMAIN FrameworkApks,
             chan' \in Seq(Group), Len(chan') <= Capacity, rows' \in [Path -> Seq(Row)],
             copies' \in [Path -> [Place -> FileState]], smali' \in [Path -> SmaliState]
      PROVE  TypeOK'
  BY <1>0 DEF WorkerStep, TypeOK, WorkerOK
<1>1. CASE StartApk(w)
  <2>1. PICK p \in pending :
          /\ pending' = pending \ {p}
          /\ \/ UNCHANGED worker
             \/ Goto(w, Busy("status", ApkItem(p), 1, 0, NewRow))
    BY <1>1 DEF StartApk
  <2>2. p \in DOMAIN FrameworkApks /\ ApkItem(p) \in Items /\ 1 \in DOMAIN FilesOf(ApkItem(p))
    BY ItemTypes, FilesTypes DEF TypeOK
  <2>3. ASSUME UNCHANGED worker PROVE WorkerOK'
    BY <2>3 DEF TypeOK, WorkerOK, IsBusy, FilesOf, BusyPc
  <2>4. ASSUME Goto(w, Busy("status", ApkItem(p), 1, 0, NewRow)) PROVE WorkerOK'
    BY <2>2, <2>4, BusyGotoTypes, RowTypes DEF BusyPc
  <2>5. WorkerOK'
    BY <2>1, <2>3, <2>4
  <2> QED
    BY <1>0, <1>1, <2>1, <2>5 DEF StartApk, TypeOK, diskVars
<1>2. CASE RecvCheck(w)
  BY <1>0, <1>2, IdleTypes DEF RecvCheck, IdlePc, TypeOK, diskVars
<1>3. CASE Recv(w)
  <2>1. CASE chan # <<>>
    <3>1. Head(chan) \in Group /\ Tail(chan) \in Seq(Group) /\ Len(Tail(chan)) <= Capacity
      BY <2>1, HeadTailProperties, FrameworkAssumption DEF TypeOK
    <3>2. chan' = Tail(chan) /\ Goto(w, Busy("status", GroupItem(Head(chan)), 1, 0, NewRow))
      BY <1>3, <2>1 DEF Recv
    <3>3. WorkerOK'
      BY <3>1, <3>2, ItemTypes, FilesTypes, BusyGotoTypes, RowTypes DEF BusyPc
    <3> QED
      BY <1>0, <1>3, <3>1, <3>2, <3>3 DEF Recv, TypeOK, diskVars
  <2>2. CASE chan = <<>>
    BY <1>0, <1>3, <2>2, IdleTypes DEF Recv, IdlePc, TypeOK, diskVars
  <2> QED
    BY <2>1, <2>2
<1>4. CASE GetStatus(w)
  <2>1. IsBusy(w)
    BY <1>4 DEF GetStatus, IsBusy, BusyPc
  <2>2. WorkerOK' /\ handled' \subseteq Items
    <3>1. CASE \E success : FileEnds(w, success)
      BY <2>1, <3>1, FileEndsTypes
    <3>2. CASE Step(w, "create") /\ UNCHANGED handled
      BY <2>1, <3>2, StepIsGoto, BusyTypes, BusyGotoTypes DEF BusyPc, TypeOK
    <3>3. CASE HasRow(PathOf(w)) /\ HaveStatus(w, 1, rows[PathOf(w)][1]) /\ UNCHANGED handled
      <4>1. rows[PathOf(w)][1] \in Row
        BY <2>1, <3>3, BusyTypes DEF HasRow, TypeOK
      <4> QED
        BY <2>1, <3>3, <4>1, HaveStatusTypes DEF TypeOK
    <3> QED
      BY <1>4, <3>1, <3>2, <3>3 DEF GetStatus
  <2> QED
    BY <1>0, <1>4, <2>2 DEF GetStatus, TypeOK, diskVars
<1>5. CASE CreateStatus(w)
  <2>1. IsBusy(w)
    BY <1>5 DEF CreateStatus, IsBusy, BusyPc
  <2>2. CASE /\ rows' = [rows EXCEPT ![PathOf(w)] = Append(@, NewRow)]
             /\ HaveStatus(w, Len(rows[PathOf(w)]) + 1, NewRow)
             /\ UNCHANGED handled
    <3>1. rows' \in [Path -> Seq(Row)]
      BY <2>1, <2>2, BusyTypes, RowTypes DEF TypeOK
    <3>2. WorkerOK'
      BY <2>1, <2>2, BusyTypes, RowTypes, HaveStatusTypes DEF TypeOK
    <3> QED
      BY <1>0, <1>5, <2>2, <3>1, <3>2 DEF CreateStatus, TypeOK
  <2>3. CASE FileEnds(w, FALSE) /\ UNCHANGED rows
    BY <1>0, <1>5, <2>1, <2>3, FileEndsTypes DEF CreateStatus, TypeOK
  <2> QED
    BY <1>5, <2>2, <2>3 DEF CreateStatus
<1>6. CASE PullFile(w)
  <2>1. IsBusy(w) /\ PathOf(w) \in Path
    BY <1>6, BusyTypes DEF PullFile, IsBusy, BusyPc
  <2>2. PICK o \in PullOutcomes(copies[PathOf(w)][HostOf(w)]) :
          /\ copies' = [copies EXCEPT ![PathOf(w)][HostOf(w)] = o.file]
          /\ IF ~o.ok THEN Attempt(w, FALSE)
             ELSE Step(w, IF worker[w].item.kind = "apk" THEN "install" ELSE "decompile")
    BY <1>6 DEF PullFile
  <2>3. WorkerOK'
    <3>1. CASE ~o.ok
      BY <2>1, <2>2, <3>1, AttemptTypes
    <3>2. CASE o.ok
      BY <2>1, <2>2, <3>2, StepTypes DEF BusyPc
    <3> QED
      BY <3>1, <3>2
  <2>4. copies[PathOf(w)] \in [Place -> FileState]
    BY <2>1 DEF TypeOK
  <2>5. [copies[PathOf(w)] EXCEPT ![HostOf(w)] = o.file] \in [Place -> FileState]
    <3>1. CASE HostOf(w) \in Place
      BY <2>2, <2>4, <3>1, PullTypes
    <3>2. CASE HostOf(w) \notin Place
      BY <2>4, <3>2
    <3> QED
      BY <3>1, <3>2
  <2>6. copies' \in [Path -> [Place -> FileState]]
    BY <2>1, <2>2, <2>5 DEF TypeOK
  <2>7. UNCHANGED <<pending, chan, rows, smali, handled>>
    BY <1>6 DEF PullFile
  <2>8. handled' \subseteq Items /\ pending' \subseteq DOMAIN FrameworkApks
    BY <2>7 DEF TypeOK
  <2>9. chan' \in Seq(Group) /\ Len(chan') <= Capacity
    BY <2>7 DEF TypeOK
  <2>10. rows' \in [Path -> Seq(Row)] /\ smali' \in [Path -> SmaliState]
    BY <2>7 DEF TypeOK
  <2> QED
    BY <1>0, <2>3, <2>6, <2>8, <2>9, <2>10, Zenon
<1>7. CASE InstallFramework(w)
  <2>1. IsBusy(w)
    BY <1>7 DEF InstallFramework, IsBusy, BusyPc
  <2>2. ASSUME Step(w, "decompile") PROVE WorkerOK'
    BY <2>1, <2>2, StepTypes DEF BusyPc
  <2>3. ASSUME Attempt(w, FALSE) PROVE WorkerOK'
    BY <2>1, <2>3, AttemptTypes
  <2>4. WorkerOK'
    BY <1>7, <2>2, <2>3 DEF InstallFramework
  <2> QED
    BY <1>0, <1>7, <2>4 DEF InstallFramework, TypeOK, diskVars
<1>8. CASE DecompileFile(w)
  <2> DEFINE file == copies[PathOf(w)][HostOf(w)]
  <2>1. IsBusy(w) /\ PathOf(w) \in Path /\ smali[PathOf(w)] \in SmaliState
    BY <1>8, BusyTypes DEF DecompileFile, IsBusy, BusyPc, TypeOK
  <2>2. PICK o \in IF worker[w].item.kind = "apk"
                   THEN DecompileOutcomes(file, smali[PathOf(w)])
                   ELSE FileOutcomes(Kind[PathOf(w)], file, smali[PathOf(w)]) :
          /\ smali' = [smali EXCEPT ![PathOf(w)] = o.smali]
          /\ Attempt(w, o.success)
    BY <1>8 DEF DecompileFile
  <2>3. o.success \in BOOLEAN /\ o.smali \in SmaliState
    BY <2>1, <2>2, DecompileTypes, FileTypes
  <2>4. WorkerOK'
    BY <2>1, <2>2, <2>3, AttemptTypes
  <2> QED
    BY <1>0, <1>8, <2>1, <2>2, <2>3, <2>4 DEF DecompileFile, TypeOK
<1>9. CASE UpdateStatus(w)
  <2>1. IsBusy(w)
    BY <1>9 DEF UpdateStatus, IsBusy, BusyPc
  <2>2. WorkerOK' /\ handled' \subseteq Items
    BY <1>9, <2>1, FileEndsTypes DEF UpdateStatus
  <2>3. rows' \in [Path -> Seq(Row)]
    <3>1. rows[PathOf(w)] \in Seq(Row)
      BY <2>1, BusyTypes DEF TypeOK
    <3>2. [rows[PathOf(w)] EXCEPT ![worker[w].id] = worker[w].row] \in Seq(Row)
      BY <2>1, <3>1, BusyTypes, ExceptInSeq
    <3> QED
      BY <1>9, <3>2 DEF UpdateStatus, TypeOK
  <2> QED
    BY <1>0, <1>9, <2>2, <2>3 DEF UpdateStatus, TypeOK
<1> QED
  BY <1>1, <1>2, <1>3, <1>4, <1>5, <1>6, <1>7, <1>8, <1>9 DEF WorkerStep

LEMMA TypeStep == TypeOK /\ [Next]_vars => TypeOK'
<1> SUFFICES ASSUME TypeOK, [Next]_vars PROVE TypeOK'
  OBVIOUS
<1>1. CASE Cancel
  BY <1>1 DEF Cancel, TypeOK, diskVars, IsBusy, FilesOf
<1>2. CASE StartFiles
  <2>1. \A w \in Worker : worker'[w] = Idle("check")
    BY <1>2 DEF StartFiles
  <2>2. worker' \in [Worker -> WorkerState] /\ \A w \in Worker : worker'[w].pc \notin BusyPc
    BY <1>2, <2>1, WorkerTypes DEF StartFiles, IdlePc, Idle, BusyPc
  <2> QED
    BY <1>2, <2>2 DEF StartFiles, TypeOK, diskVars, IsBusy, BusyPc
<1>3. CASE Drainer
  BY <1>3, DrainerTypes
<1>4. CASE Return
  BY <1>4 DEF Return, TypeOK, diskVars, IsBusy, FilesOf
<1>5. CASE \E w \in Worker : WorkerStep(w)
  BY <1>5, WorkerStepTypes
<1>6. CASE UNCHANGED vars
  BY <1>6 DEF vars, diskVars, TypeOK, IsBusy, FilesOf
<1> QED
  BY <1>1, <1>2, <1>3, <1>4, <1>5, <1>6 DEF Next

(* Every state of the framework phase is well typed: its threads, each     *)
(* busy one at a file its item has, its channel within its bound, the rows *)
(* and the copies of every file.                                           *)
THEOREM Typing == Spec => []TypeOK
<1>1. Init => TypeOK
  BY TypeInit
<1>2. TypeOK /\ [Next]_vars => TypeOK'
  BY TypeStep
<1> QED
  BY <1>1, <1>2, PTL DEF Spec

-------------------------------------------------------------------------------
(* No item is handled by two workers, and none twice.  The invariant that  *)
(* says so follows an item from where it waits to the worker that has it   *)
(* and to the history; a group waits in the map, with the helper thread or *)
(* in the channel, and in one of them only.                                *)

AtHand == IF drainer.pc \in {"check", "send"} THEN {drainer.group} ELSE {}
InChan == {chan[i] : i \in DOMAIN chan}
Waiting == {ApkItem(p) : p \in pending}
      \cup {GroupItem(g) : g \in fileMap \cup AtHand \cup InChan}

OneWorkerPerItem ==
  \A v, w \in Worker : v # w /\ IsBusy(v) /\ IsBusy(w) => worker[v].item # worker[w].item

QueuedOnce ==
  /\ fileMap \cap (AtHand \cup InChan) = {}
  /\ AtHand \cap InChan = {}
  /\ \A i, j \in DOMAIN chan : chan[i] = chan[j] => i = j

Apart ==
  /\ BusyItems \cap handled = {}
  /\ Waiting \cap (BusyItems \cup handled) = {}

(* The two parts of the phase never overlap.                               *)
Parts ==
  /\ phase = "apks" =>
       /\ drainer.pc = "take" /\ chan = <<>>
       /\ \A w \in Worker : \/ worker[w].pc = "pool"
                            \/ IsBusy(w) /\ worker[w].item.kind = "apk"
  /\ phase = "files" =>
       /\ pending = {}
       /\ \A w \in Worker : /\ worker[w].pc # "pool"
                            /\ IsBusy(w) => worker[w].item.kind = "group"

Exclusion == OneWorkerPerItem /\ QueuedOnce /\ Apart /\ Parts

(* What a step of a busy worker does with the item it has.                 *)
Keeps(w) ==
  /\ \E s : Goto(w, s) /\ s.pc \in BusyPc /\ s.item = worker[w].item
  /\ UNCHANGED handled

Finishes(w) ==
  /\ Goto(w, Idle(IF worker[w].item.kind = "apk" THEN "pool" ELSE "check"))
  /\ handled' = handled \cup {worker[w].item}

LEMMA BusyKeeps ==
  ASSUME NEW w \in Worker, NEW pc \in BusyPc, NEW pos, NEW id, NEW r, UNCHANGED handled,
         Goto(w, Busy(pc, worker[w].item, pos, id, r))
  PROVE  Keeps(w)
BY DEF Keeps, Busy

LEMMA FileEndsItem ==
  ASSUME NEW w \in Worker, NEW success, FileEnds(w, success)
  PROVE  Keeps(w) \/ Finishes(w)
BY BusyKeeps DEF FileEnds, Finishes, BusyPc

LEMMA BusyStep ==
  ASSUME TypeOK, NEW w \in Worker, WorkerStep(w), IsBusy(w)
  PROVE  (Keeps(w) \/ Finishes(w)) /\ UNCHANGED <<pending, chan>>
<1>1. CASE GetStatus(w)
  <2>1. ASSUME Step(w, "create"), UNCHANGED handled PROVE Keeps(w)
    BY <2>1, StepIsGoto, BusyKeeps DEF BusyPc
  <2>2. ASSUME NEW id, NEW r, HaveStatus(w, id, r), UNCHANGED handled PROVE Keeps(w)
    BY <2>2, BusyKeeps DEF HaveStatus, BusyPc
  <2> QED
    BY <1>1, <2>1, <2>2, FileEndsItem DEF GetStatus
<1>2. CASE CreateStatus(w)
  <2>1. ASSUME NEW id, NEW r, HaveStatus(w, id, r), UNCHANGED handled PROVE Keeps(w)
    BY <2>1, BusyKeeps DEF HaveStatus, BusyPc
  <2> QED
    BY <1>2, <2>1, FileEndsItem DEF CreateStatus
<1>3. ASSUME NEW pc \in BusyPc, Step(w, pc), UNCHANGED handled PROVE Keeps(w)
  BY <1>3, StepIsGoto, BusyKeeps
<1>4. ASSUME NEW success, Attempt(w, success), UNCHANGED handled PROVE Keeps(w)
  BY <1>4, BusyKeeps DEF Attempt, BusyPc
<1>5. CASE PullFile(w) \/ InstallFramework(w) \/ DecompileFile(w)
  BY <1>3, <1>4, <1>5 DEF PullFile, InstallFramework, DecompileFile, BusyPc
<1>6. CASE UpdateStatus(w)
  BY <1>6, FileEndsItem DEF UpdateStatus
<1> QED
  BY <1>1, <1>2, <1>5, <1>6 DEF WorkerStep, StartApk, RecvCheck, Recv, IsBusy, BusyPc

(* The same for the set of the items at work.                              *)
Stays == BusyItems' = BusyItems /\ handled' = handled

Takes(item) ==
  /\ item \in Waiting \ (BusyItems \cup handled)
  /\ BusyItems' = BusyItems \cup {item} /\ handled' = handled

Ends(item) ==
  /\ item \in BusyItems
  /\ BusyItems' = BusyItems \ {item} /\ handled' = handled \cup {item}

LEMMA ItemStays ==
  ASSUME TypeOK, OneWorkerPerItem, NEW w \in Worker, NEW s, Goto(w, s), UNCHANGED handled,
         s.pc \in BusyPc <=> IsBusy(w), IsBusy(w) => s.item = worker[w].item
  PROVE  Stays /\ OneWorkerPerItem'
<1>1. \A v \in Worker : worker'[v] = IF v = w THEN s ELSE worker[v]
  BY GotoAt
<1>2. \A v \in Worker : IsBusy(v)' <=> IsBusy(v)
  BY <1>1 DEF IsBusy, BusyPc
<1>3. \A v \in Worker : IsBusy(v) => worker'[v].item = worker[v].item
  BY <1>1
<1>4. BusyItems' = BusyItems
  <2>1. \A q : q \in BusyItems' <=> \E v \in Worker : IsBusy(v)' /\ q = worker'[v].item
    BY DEF BusyItems
  <2>2. \A q : q \in BusyItems <=> \E v \in Worker : IsBusy(v) /\ q = worker[v].item
    BY DEF BusyItems
  <2>3. ASSUME NEW q \in BusyItems' PROVE q \in BusyItems
    <3>1. PICK v \in Worker : IsBusy(v)' /\ q = worker'[v].item
      BY <2>1, <2>3, Zenon
    <3>2. IsBusy(v) /\ q = worker[v].item
      BY <1>2, <1>3, <3>1, Zenon
    <3> QED
      BY <2>2, <3>2, Zenon
  <2>4. ASSUME NEW q \in BusyItems PROVE q \in BusyItems'
    <3>1. PICK v \in Worker : IsBusy(v) /\ q = worker[v].item
      BY <2>2, <2>4, Zenon
    <3>2. IsBusy(v)' /\ q = worker'[v].item
      BY <1>2, <1>3, <3>1, Zenon
    <3> QED
      BY <2>1, <3>2, Zenon
  <2>5. \A q : q \in BusyItems' <=> q \in BusyItems
    BY <2>3, <2>4, Zenon
  <2> QED
    BY <2>5
<1>5. OneWorkerPerItem'
  BY <1>2, <1>3 DEF OneWorkerPerItem
<1> QED
  BY <1>4, <1>5 DEF Stays

LEMMA ItemEnds ==
  ASSUME TypeOK, OneWorkerPerItem, NEW w \in Worker, IsBusy(w), Finishes(w)
  PROVE  Ends(worker[w].item) /\ OneWorkerPerItem'
<1> DEFINE item == worker[w].item
<1>1. PICK pc \in IdlePc : Goto(w, Idle(pc))
  BY DEF Finishes, IdlePc
<1>2. \A v \in Worker : worker'[v] = IF v = w THEN Idle(pc) ELSE worker[v]
  BY <1>1, GotoAt
<1>3. \A v \in Worker : IsBusy(v)' <=> v # w /\ IsBusy(v)
  BY <1>2 DEF IsBusy, Idle, BusyPc, IdlePc
<1>4. \A v \in Worker : IsBusy(v)' => worker'[v].item = worker[v].item /\ worker[v].item # item
  BY <1>2, <1>3 DEF OneWorkerPerItem
<1>5. item \in BusyItems /\ BusyItems' = BusyItems \ {item}
  BY <1>2, <1>3, <1>4 DEF BusyItems
<1>6. OneWorkerPerItem'
  BY <1>3, <1>4 DEF OneWorkerPerItem
<1> QED
  BY <1>5, <1>6 DEF Ends, Finishes

LEMMA ItemTaken ==
  ASSUME TypeOK, OneWorkerPerItem, Apart, NEW w \in Worker, ~IsBusy(w),
         NEW item \in Waiting, Goto(w, Busy("status", item, 1, 0, NewRow)), UNCHANGED handled
  PROVE  Takes(item) /\ OneWorkerPerItem'
<1>1. \A v \in Worker :
        worker'[v] = IF v = w THEN Busy("status", item, 1, 0, NewRow) ELSE worker[v]
  BY GotoAt
<1>2. \A v \in Worker : IsBusy(v)' <=> v = w \/ IsBusy(v)
  BY <1>1 DEF IsBusy, Busy, BusyPc
<1>3. worker'[w].item = item /\ \A v \in Worker \ {w} : worker'[v].item = worker[v].item
  BY <1>1 DEF Busy
<1>4. BusyItems' = BusyItems \cup {item}
  BY <1>2, <1>3 DEF BusyItems
<1>5. \A v \in Worker : IsBusy(v) => worker[v].item # item
  BY DEF Apart, BusyItems
<1>6. OneWorkerPerItem'
  BY <1>2, <1>3, <1>5 DEF OneWorkerPerItem
<1> QED
  BY <1>4, <1>6 DEF Takes, Apart

(* The channel.                                                            *)
LEMMA HeadQueued ==
  ASSUME TypeOK, chan # <<>>
  PROVE  Head(chan) \in InChan
<1>1. Head(chan) = chan[1] /\ 1 \in DOMAIN chan
  BY HeadTailProperties DEF TypeOK
<1> QED
  BY <1>1 DEF InChan

LEMMA Dequeue ==
  ASSUME TypeOK, QueuedOnce, chan # <<>>, chan' = Tail(chan), UNCHANGED <<fileMap, drainer>>
  PROVE  /\ QueuedOnce'
         /\ Head(chan) \in InChan /\ InChan' = InChan \ {Head(chan)}
         /\ AtHand' = AtHand
<1>1. /\ chan \in Seq(Group) /\ Len(chan) \in Nat /\ Len(chan) >= 1
      /\ DOMAIN chan = 1 .. Len(chan) /\ DOMAIN Tail(chan) = 1 .. Len(chan) - 1
      /\ \A i \in 1 .. Len(chan) - 1 : Tail(chan)[i] = chan[i + 1]
      /\ Head(chan) = chan[1]
  BY HeadTailProperties DEF TypeOK
<1>2. Head(chan) \in InChan
  BY HeadQueued
<1>3. \A i \in DOMAIN chan' : i + 1 \in DOMAIN chan /\ i + 1 # 1 /\ chan'[i] = chan[i + 1]
  BY <1>1
<1>4. \A i \in DOMAIN chan : i # 1 => i - 1 \in DOMAIN chan' /\ chan'[i - 1] = chan[i]
  BY <1>1
<1>5. 1 \in DOMAIN chan
  BY <1>1
<1>6. \A g : g \in InChan' <=> g \in InChan /\ g # Head(chan)
  <2>1. ASSUME NEW i \in DOMAIN chan' PROVE chan'[i] \in InChan /\ chan'[i] # Head(chan)
    <3>1. i + 1 \in DOMAIN chan /\ i + 1 # 1 /\ chan'[i] = chan[i + 1]
      BY <1>3
    <3> QED
      BY <1>1, <1>5, <3>1 DEF InChan, QueuedOnce
  <2>2. ASSUME NEW i \in DOMAIN chan, chan[i] # Head(chan) PROVE chan[i] \in InChan'
    <3>1. i - 1 \in DOMAIN chan' /\ chan'[i - 1] = chan[i]
      BY <1>1, <1>4, <2>2
    <3> QED
      BY <3>1 DEF InChan
  <2> QED
    BY <2>1, <2>2 DEF InChan
<1>7. \A i, j \in DOMAIN chan' : chan'[i] = chan'[j] => i = j
  <2> SUFFICES ASSUME NEW i \in DOMAIN chan', NEW j \in DOMAIN chan', chan'[i] = chan'[j]
               PROVE  i = j
    OBVIOUS
  <2>1. i + 1 = j + 1
    BY <1>3 DEF QueuedOnce
  <2> QED
    BY <1>1, <2>1
<1>8. AtHand' = AtHand
  BY DEF AtHand
<1> QED
  BY <1>2, <1>6, <1>7, <1>8 DEF QueuedOnce

LEMMA Enqueue ==
  ASSUME TypeOK, NEW g \in Group, chan' = Append(chan, g)
  PROVE  /\ InChan' = InChan \cup {g}
         /\ (\A i, j \in DOMAIN chan : chan[i] = chan[j] => i = j) /\ g \notin InChan =>
              \A i, j \in DOMAIN chan' : chan'[i] = chan'[j] => i = j
<1>1. /\ chan \in Seq(Group) /\ DOMAIN chan = 1 .. Len(chan) /\ Len(chan) \in Nat
      /\ DOMAIN chan' = 1 .. Len(chan) + 1
      /\ \A i \in 1 .. Len(chan) : chan'[i] = chan[i]
      /\ chan'[Len(chan) + 1] = g
  BY AppendProperties DEF TypeOK
<1>2. \A i \in DOMAIN chan' : i \in DOMAIN chan \/ i = Len(chan) + 1
  BY <1>1
<1>3. InChan' = InChan \cup {g}
  BY <1>1 DEF InChan
<1> QED
  BY <1>1, <1>2, <1>3 DEF InChan

(* A step of any worker.                                                   *)
Moves(w) ==
  \/ /\ Stays /\ UNCHANGED chan
     /\ pending' \subseteq pending /\ (~cancelled => UNCHANGED pending)
  \/ \E item : Ends(item) /\ UNCHANGED <<pending, chan>>
  \/ \E p \in pending : Takes(ApkItem(p)) /\ pending' = pending \ {p} /\ UNCHANGED chan
  \/ /\ chan # <<>> /\ chan' = Tail(chan)
     /\ Takes(GroupItem(Head(chan))) /\ UNCHANGED pending

LEMMA WorkerMoves ==
  ASSUME TypeOK, Exclusion, NEW w \in Worker, WorkerStep(w)
  PROVE  Moves(w) /\ OneWorkerPerItem'
<1> USE DEF Exclusion
<1>1. CASE IsBusy(w)
  <2>1. CASE Keeps(w)
    BY <1>1, <2>1, BusyStep, ItemStays DEF Keeps, Moves
  <2>2. CASE Finishes(w)
    BY <1>1, <2>2, BusyStep, ItemEnds DEF Moves
  <2> QED
    BY <1>1, <2>1, <2>2, BusyStep
<1>2. CASE StartApk(w)
  <2>1. ~IsBusy(w)
    BY <1>2 DEF StartApk, IsBusy, BusyPc
  <2>2. PICK p \in pending :
          /\ pending' = pending \ {p}
          /\ \/ UNCHANGED worker
             \/ Goto(w, Busy("status", ApkItem(p), 1, 0, NewRow))
          /\ ~cancelled => Goto(w, Busy("status", ApkItem(p), 1, 0, NewRow))
    BY <1>2 DEF StartApk
  <2>3. UNCHANGED <<chan, handled>>
    BY <1>2 DEF StartApk
  <2>4. CASE cancelled /\ UNCHANGED worker
    BY <2>2, <2>3, <2>4 DEF Moves, Stays, BusyItems, IsBusy, OneWorkerPerItem
  <2>5. CASE Goto(w, Busy("status", ApkItem(p), 1, 0, NewRow))
    BY <2>1, <2>2, <2>3, <2>5, ItemTaken DEF Moves, Waiting
  <2> QED
    BY <2>2, <2>4, <2>5
<1>3. CASE RecvCheck(w)
  <2>1. ~IsBusy(w) /\ Idle(IF cancelled THEN "done" ELSE "recv").pc \notin BusyPc
    BY <1>3 DEF RecvCheck, IsBusy, BusyPc, Idle
  <2> QED
    BY <1>3, <2>1, ItemStays DEF RecvCheck, Moves
<1>4. CASE Recv(w)
  <2>1. ~IsBusy(w)
    BY <1>4 DEF Recv, IsBusy, BusyPc
  <2>2. CASE chan # <<>>
    <3>1. GroupItem(Head(chan)) \in Waiting
      BY <2>2, HeadQueued DEF Waiting
    <3> QED
      BY <1>4, <2>1, <2>2, <3>1, ItemTaken DEF Recv, Moves
  <2>3. CASE chan = <<>>
    <3>1. Idle(IF drainer.pc = "done" THEN "done" ELSE "check").pc \notin BusyPc
      BY DEF BusyPc, Idle
    <3> QED
      BY <1>4, <2>1, <2>3, <3>1, ItemStays DEF Recv, Moves
  <2> QED
    BY <2>2, <2>3
<1> QED
  BY <1>1, <1>2, <1>3, <1>4
  DEF WorkerStep, GetStatus, CreateStatus, PullFile, InstallFramework, DecompileFile,
      UpdateStatus, IsBusy, BusyPc

LEMMA PartsKept ==
  ASSUME TypeOK, Parts, NEW w \in Worker, NEW s, Goto(w, s), UNCHANGED <<phase, drainer>>,
         pending' \subseteq pending, chan = <<>> => chan' = <<>>,
         phase = "apks"  => s.pc = "pool" \/ (s.pc \in BusyPc /\ s.item.kind = "apk"),
         phase = "files" => s.pc # "pool" /\ (s.pc \in BusyPc => s.item.kind = "group")
  PROVE  Parts'
<1>1. \A v \in Worker : worker'[v] = IF v = w THEN s ELSE worker[v]
  BY GotoAt
<1> QED
  BY <1>1 DEF Parts, IsBusy, BusyPc

LEMMA WorkerParts ==
  ASSUME TypeOK, Parts, NEW w \in Worker, WorkerStep(w)
  PROVE  Parts'
<1>0. UNCHANGED <<phase, drainer>> /\ (phase = "apks" \/ phase = "files")
  BY DEF WorkerStep, TypeOK
<1>1. CASE IsBusy(w)
  <2>1. phase = "apks" => worker[w].item.kind = "apk"
    BY <1>1 DEF Parts, IsBusy, BusyPc
  <2>2. phase = "files" => worker[w].item.kind = "group"
    BY <1>1 DEF Parts
  <2>3. CASE Keeps(w)
    <3>1. PICK s : Goto(w, s) /\ s.pc \in BusyPc /\ s.item = worker[w].item
      BY <2>3 DEF Keeps
    <3> QED
      BY <1>0, <1>1, <2>1, <2>2, <3>1, BusyStep, PartsKept DEF BusyPc
  <2>4. CASE Finishes(w)
    <3>1. \A pc : Idle(pc).pc = pc
      BY DEF Idle
    <3> QED
      BY <1>0, <1>1, <2>1, <2>2, <2>4, <3>1, BusyStep, PartsKept DEF Finishes, BusyPc
  <2> QED
    BY <1>1, <2>3, <2>4, BusyStep
<1>2. CASE StartApk(w)
  <2>1. PICK p \in pending :
          /\ pending' = pending \ {p}
          /\ \/ UNCHANGED worker
             \/ Goto(w, Busy("status", ApkItem(p), 1, 0, NewRow))
    BY <1>2 DEF StartApk
  <2>2. UNCHANGED chan /\ phase = "apks"
    BY <1>2 DEF StartApk
  <2>3. CASE UNCHANGED worker
    BY <1>0, <2>1, <2>2, <2>3 DEF Parts, IsBusy
  <2>4. CASE Goto(w, Busy("status", ApkItem(p), 1, 0, NewRow))
    <3>1. /\ Busy("status", ApkItem(p), 1, 0, NewRow).pc = "status"
          /\ Busy("status", ApkItem(p), 1, 0, NewRow).item.kind = "apk"
      BY DEF Busy, ApkItem
    <3> QED
      BY <1>0, <2>1, <2>2, <2>4, <3>1, PartsKept DEF BusyPc
  <2> QED
    BY <2>1, <2>3, <2>4
<1>3. CASE RecvCheck(w) \/ Recv(w)
  <2>1. phase = "files"
    BY <1>0, <1>3 DEF RecvCheck, Recv, Parts, IsBusy, BusyPc
  <2>2. ASSUME NEW pc \in {"check", "recv", "done"}, Goto(w, Idle(pc)), UNCHANGED <<pending, chan>>
        PROVE  Parts'
    <3>1. Idle(pc).pc = pc
      BY DEF Idle
    <3> QED
      BY <1>0, <2>1, <2>2, <3>1, PartsKept DEF BusyPc
  <2>3. ASSUME NEW g, Goto(w, Busy("status", GroupItem(g), 1, 0, NewRow)), UNCHANGED pending,
               chan # <<>>
        PROVE  Parts'
    <3>1. /\ Busy("status", GroupItem(g), 1, 0, NewRow).pc = "status"
          /\ Busy("status", GroupItem(g), 1, 0, NewRow).item.kind = "group"
      BY DEF Busy, GroupItem
    <3> QED
      BY <1>0, <2>1, <2>3, <3>1, PartsKept
  <2> QED
    BY <1>3, <2>2, <2>3 DEF RecvCheck, Recv
<1> QED
  BY <1>1, <1>2, <1>3
  DEF WorkerStep, GetStatus, CreateStatus, PullFile, InstallFramework, DecompileFile,
      UpdateStatus, IsBusy, BusyPc

LEMMA WorkerExclusion ==
  ASSUME TypeOK, Exclusion, NEW w \in Worker, WorkerStep(w)
  PROVE  Exclusion'
<1> USE DEF Exclusion
<1>0. UNCHANGED <<fileMap, drainer>>
  BY DEF WorkerStep
<1>1. OneWorkerPerItem' /\ Moves(w) /\ Parts'
  BY WorkerMoves, WorkerParts
<1>2. AtHand' = AtHand
  BY <1>0 DEF AtHand
<1>3. CASE UNCHANGED chan
  <2>1. InChan' = InChan /\ QueuedOnce'
    BY <1>0, <1>2, <1>3 DEF InChan, QueuedOnce
  <2>2. Waiting' \subseteq Waiting /\ \A p \in pending : pending' = pending \ {p} => ApkItem(p) \notin Waiting'
    <3>1. pending' \subseteq pending
      BY <1>1, <1>3 DEF Moves
    <3> QED
      BY <1>0, <1>2, <2>1, <3>1, ItemTypes DEF Waiting
  <2>3. Apart'
    <3>1. CASE Stays
      BY <2>2, <3>1 DEF Stays, Apart
    <3>2. CASE \E item : Ends(item)
      BY <2>2, <3>2 DEF Ends, Apart
    <3>3. CASE \E p \in pending : Takes(ApkItem(p)) /\ pending' = pending \ {p}
      BY <2>2, <3>3 DEF Takes, Apart
    <3>4. CASE chan # <<>> /\ chan' = Tail(chan)
      <4>1. Len(chan) \in Nat /\ Len(Tail(chan)) = Len(chan) - 1
        BY <3>4, HeadTailProperties DEF TypeOK
      <4> QED
        BY <1>3, <3>4, <4>1
    <3> QED
      BY <1>1, <3>1, <3>2, <3>3, <3>4 DEF Moves
  <2> QED
    BY <1>1, <2>1, <2>3
<1>4. CASE chan # <<>> /\ chan' = Tail(chan) /\ Takes(GroupItem(Head(chan))) /\ UNCHANGED pending
  <2>1. /\ QueuedOnce' /\ Head(chan) \in InChan /\ InChan' = InChan \ {Head(chan)}
    BY <1>0, <1>4, Dequeue
  <2>2. Waiting' \subseteq Waiting /\ GroupItem(Head(chan)) \notin Waiting'
    BY <1>0, <1>2, <1>4, <2>1, ItemTypes DEF Waiting, QueuedOnce
  <2>3. Apart'
    BY <1>4, <2>2 DEF Takes, Apart
  <2> QED
    BY <1>1, <2>1, <2>3
<1> QED
  BY <1>1, <1>3, <1>4 DEF Moves

LEMMA DrainerExclusion ==
  ASSUME TypeOK, Exclusion, Drainer
  PROVE  Exclusion'
<1> USE DEF Exclusion
<1>0. UNCHANGED <<phase, pending, worker, handled>>
  BY DEF Drainer
<1>1. OneWorkerPerItem' /\ BusyItems' = BusyItems
  BY <1>0 DEF OneWorkerPerItem, BusyItems, IsBusy
<1>2. phase = "files"
  BY DEF Drainer, DrainTake, DrainCheck, DrainSend, Parts, TypeOK
<1>3. Parts'
  BY <1>0, <1>2 DEF Parts, IsBusy
<1>4. ASSUME QueuedOnce', fileMap' \cup AtHand' \cup InChan' \subseteq fileMap \cup AtHand \cup InChan
      PROVE  Exclusion'
  <2>1. Waiting' \subseteq Waiting
    BY <1>0, <1>4 DEF Waiting
  <2> QED
    BY <1>0, <1>1, <1>3, <1>4, <2>1 DEF Apart
<1>5. CASE DrainTake
  <2>1. UNCHANGED chan /\ InChan' = InChan /\ AtHand = {}
    BY <1>5 DEF DrainTake, InChan, AtHand
  <2>2. CASE \E g \in fileMap : fileMap' = fileMap \ {g} /\ drainer' = [pc |-> "check", group |-> g]
    <3>1. PICK g \in fileMap : fileMap' = fileMap \ {g} /\ AtHand' = {g}
      BY <2>2 DEF AtHand
    <3> QED
      BY <1>4, <2>1, <3>1 DEF QueuedOnce
  <2>3. CASE drainer' = [pc |-> "done"] /\ UNCHANGED fileMap
    <3>1. AtHand' = {}
      BY <2>3 DEF AtHand
    <3> QED
      BY <1>4, <2>1, <2>3, <3>1 DEF QueuedOnce
  <2> QED
    BY <1>5, <2>2, <2>3 DEF DrainTake
<1>6. CASE DrainCheck
  <2>1. UNCHANGED <<chan, fileMap>> /\ InChan' = InChan
    BY <1>6 DEF DrainCheck, InChan
  <2>2. AtHand' \subseteq AtHand
    BY <1>6 DEF DrainCheck, AtHand, TypeOK
  <2> QED
    BY <1>4, <2>1, <2>2 DEF QueuedOnce
<1>7. CASE DrainSend
  <2>0. UNCHANGED fileMap /\ AtHand = {drainer.group} /\ drainer.group \in Group
    BY <1>7 DEF DrainSend, AtHand, TypeOK
  <2>1. CASE chan' = Append(chan, drainer.group) /\ drainer' = [pc |-> "take"]
    <3>1. AtHand' = {}
      BY <2>1 DEF AtHand
    <3> QED
      BY <1>4, <2>0, <2>1, <3>1, Enqueue DEF QueuedOnce
  <2>2. CASE drainer' = [drainer EXCEPT !.pc = "check"] /\ UNCHANGED chan
    <3>1. AtHand' = AtHand /\ InChan' = InChan
      BY <1>7, <2>2 DEF DrainSend, AtHand, InChan, TypeOK
    <3> QED
      BY <1>4, <2>0, <2>2, <3>1 DEF QueuedOnce
  <2> QED
    BY <1>7, <2>1, <2>2 DEF DrainSend
<1> QED
  BY <1>5, <1>6, <1>7 DEF Drainer


LEMMA ExclusionInit == Init => Exclusion
<1> SUFFICES ASSUME Init PROVE Exclusion
  OBVIOUS
<1>1. \A w \in Worker : worker[w].pc = "pool" /\ ~IsBusy(w)
  BY DEF Init, Idle, IsBusy, BusyPc
<1>2. BusyItems = {} /\ handled = {}
  BY <1>1 DEF BusyItems, Init
<1>3. drainer.pc = "take" /\ AtHand = {} /\ chan = <<>> /\ InChan = {}
  BY DEF Init, AtHand, InChan
<1>4. phase = "apks"
  BY DEF Init
<1> QED
  BY <1>1, <1>2, <1>3, <1>4 DEF Exclusion, OneWorkerPerItem, QueuedOnce, Apart, Parts

LEMMA OthersExclusion ==
  ASSUME TypeOK, Exclusion, UNCHANGED <<pending, fileMap, drainer, chan, handled>>,
         \A w \in Worker : IsBusy(w)' <=> IsBusy(w),
         \A w \in Worker : IsBusy(w) => worker'[w].item = worker[w].item,
         Parts'
  PROVE  Exclusion'
<1>1. BusyItems' = BusyItems
  <2>1. \A q : q \in BusyItems' <=> \E v \in Worker : IsBusy(v)' /\ q = worker'[v].item
    BY DEF BusyItems
  <2>2. \A q : q \in BusyItems <=> \E v \in Worker : IsBusy(v) /\ q = worker[v].item
    BY DEF BusyItems
  <2> QED
    BY <2>1, <2>2
<1>2. AtHand' = AtHand /\ InChan' = InChan
  BY DEF AtHand, InChan
<1>3. Waiting' = Waiting
  BY <1>2 DEF Waiting
<1>4. OneWorkerPerItem'
  <2>1. \A u, v \in Worker :
          u # v /\ IsBusy(u)' /\ IsBusy(v)' => worker'[u].item # worker'[v].item
    BY DEF Exclusion, OneWorkerPerItem
  <2> QED
    BY <2>1 DEF OneWorkerPerItem
<1>5. QueuedOnce'
  BY <1>2 DEF Exclusion, QueuedOnce
<1> QED
  BY <1>1, <1>3, <1>4, <1>5 DEF Exclusion, Apart

LEMMA ExclusionStep == TypeOK /\ Exclusion /\ [Next]_vars => Exclusion'
<1> SUFFICES ASSUME TypeOK, Exclusion, [Next]_vars PROVE Exclusion'
  OBVIOUS
<1>1. CASE \/ Cancel /\ UNCHANGED <<worker, phase, pending, fileMap, drainer, chan, handled>>
           \/ Return /\ UNCHANGED <<worker, phase, pending, fileMap, drainer, chan, handled>>
           \/ UNCHANGED vars
  <2>1. UNCHANGED <<worker, phase, pending, fileMap, drainer, chan, handled>>
    BY <1>1 DEF vars
  <2>2. Parts'
    BY <2>1 DEF Exclusion, Parts, IsBusy
  <2> QED
    BY <2>1, <2>2, OthersExclusion DEF IsBusy
<1>2. CASE StartFiles
  <2>1. \A w \in Worker : worker'[w].pc = "check" /\ worker'[w].pc \notin BusyPc /\ ~IsBusy(w)
    BY <1>2 DEF StartFiles, Idle, BusyPc
  <2>2. Parts'
    BY <1>2, <2>1 DEF StartFiles, Parts, IsBusy, BusyPc
  <2> QED
    BY <1>2, <2>1, <2>2, OthersExclusion DEF StartFiles, IsBusy, BusyPc
<1>3. CASE Drainer
  BY <1>3, DrainerExclusion
<1>4. CASE \E w \in Worker : WorkerStep(w)
  BY <1>4, WorkerExclusion
<1> QED
  BY <1>1, <1>2, <1>3, <1>4 DEF Next, Cancel, Return

-------------------------------------------------------------------------------
(* The rows while a worker has a file.  A worker that is past the lookup   *)
(* holds the number of a row that exists, and its copy of it counts the    *)
(* attempt before it is written; a file that no other item has does not    *)
(* become decompiled meanwhile; and the files before it in its item were   *)
(* left behind: attempted, skipped or not to be read or written.           *)

Left(p) == Tried(p) \/ Skipped(p) \/ p \in DBErrors
Readable(p) == p \notin DBErrors /\ ~Skipped(p)

PastLookup == {"pull", "install", "decompile", "update"}

HoldsRow(w) ==
  /\ worker[w].pc \in PastLookup => worker[w].id \in DOMAIN rows[PathOf(w)]
  /\ worker[w].pc = "update" => worker[w].row.attempts > 0

StillOpen(w) ==
  worker[w].pc \in BusyPc \ {"status"} /\ Sole(worker[w].item, worker[w].pos) =>
    ~IsDecompiled(PathOf(w))

Behind(w) ==
  IsBusy(w) =>
    \A i \in DOMAIN FilesOf(worker[w].item) : i < worker[w].pos =>
      /\ Left(FilesOf(worker[w].item)[i])
      /\ Sole(worker[w].item, i) /\ Readable(FilesOf(worker[w].item)[i]) =>
           ~IsDecompiled(FilesOf(worker[w].item)[i])

InOrder == \A w \in Worker : HoldsRow(w) /\ StillOpen(w) /\ Behind(w)

(* What a worker does with the rows of the file p that it has.  It goes on *)
(* with the file, or leaves it with a success, or without one.             *)
OnlyAt(p) == \A q \in Path : q # p => rows'[q] = rows[q]

Grows(p) == DOMAIN rows[p] \subseteq DOMAIN rows'[p] /\ (Tried(p) => Tried(p)')

Remains(w, p) ==
  /\ UNCHANGED handled
  /\ Recorded(p) => Recorded(p)'
  /\ worker[w].pc = "status" \/ ~IsDecompiled(p) => ~IsDecompiled(p)'
  /\ \E pc, id, r :
       /\ pc \in BusyPc \ {"status"}
       /\ Goto(w, Busy(pc, worker[w].item, worker[w].pos, id, r))
       /\ pc \in PastLookup => id \in DOMAIN rows'[p]
       /\ pc = "update" => r.attempts > 0

Wins(w, p) == FileEnds(w, TRUE) /\ Recorded(p)'

Fails(w, p) ==
  /\ FileEnds(w, FALSE) /\ Left(p)'
  /\ Readable(p) => worker[w].pc # "status" /\ (~IsDecompiled(p) => ~IsDecompiled(p)')

FileStep(w, p) == OnlyAt(p) /\ Grows(p) /\ (Remains(w, p) \/ Wins(w, p) \/ Fails(w, p))

LEMMA SameRows ==
  ASSUME NEW p, rows'[p] = rows[p]
  PROVE  /\ Grows(p) /\ (Recorded(p)' <=> Recorded(p)) /\ (Left(p)' <=> Left(p))
         /\ IsDecompiled(p)' <=> IsDecompiled(p)
BY DEF Grows, Tried, Recorded, Left, Skipped, IsDecompiled, HasRow

(* Writing the row number id.                                              *)
LEMMA RowWritten ==
  ASSUME NEW rs \in Seq(Row), NEW id \in DOMAIN rs, NEW r \in Row, NEW new,
         new = [rs EXCEPT ![id] = r]
  PROVE  /\ DOMAIN new = DOMAIN rs /\ new[id] = r
         /\ \A i \in DOMAIN rs : i # id => new[i] = rs[i]
         /\ rs # <<>> /\ new # <<>> /\ 1 \in DOMAIN rs
OBVIOUS

LEMMA RowAdded ==
  ASSUME NEW rs \in Seq(Row), NEW r \in Row, NEW new, new = Append(rs, r)
  PROVE  /\ DOMAIN rs \subseteq DOMAIN new /\ Len(rs) + 1 \in DOMAIN new
         /\ \A i \in DOMAIN rs : new[i] = rs[i]
         /\ new # <<>> /\ (rs = <<>> => new[1] = r) /\ (rs # <<>> => 1 \in DOMAIN rs)
OBVIOUS

LEMMA BusyRows ==
  ASSUME TypeOK, NEW w \in Worker, IsBusy(w), WorkerStep(w), HoldsRow(w),
         NEW p \in Path, p = PathOf(w)
  PROVE  FileStep(w, p)
<1>0. rows \in [Path -> Seq(Row)] /\ rows[p] \in Seq(Row)
      /\ worker[w].row \in Row /\ worker[w].id \in Nat
  BY BusyTypes DEF TypeOK
<1>1. ASSUME UNCHANGED rows PROVE OnlyAt(p) /\ Grows(p) /\ (Left(p) => Left(p)')
                                  /\ (Recorded(p) <=> Recorded(p)')
                                  /\ (IsDecompiled(p) <=> IsDecompiled(p)')
  BY <1>1, SameRows DEF OnlyAt
<1>2. CASE GetStatus(w)
  <2>0. UNCHANGED rows /\ worker[w].pc = "status"
    BY <1>2 DEF GetStatus, diskVars
  <2>1. CASE FileEnds(w, FALSE) /\ (Skipped(p) \/ p \in DBErrors)
    BY <1>1, <2>0, <2>1 DEF FileStep, Fails, Left, Readable, Skipped
  <2>2. CASE ~HasRow(p) /\ Step(w, "create") /\ UNCHANGED handled
    <3>1. Goto(w, Busy("create", worker[w].item, worker[w].pos, worker[w].id, worker[w].row))
      BY <2>2, StepIsGoto DEF BusyPc
    <3>2. ~IsDecompiled(p)
      BY <2>2 DEF IsDecompiled
    <3>3. "create" \in BusyPc \ {"status"} /\ "create" \notin PastLookup /\ "create" # "update"
      BY DEF BusyPc, PastLookup
    <3>4. Remains(w, p)
      BY <1>1, <2>0, <2>2, <3>1, <3>2, <3>3 DEF Remains
    <3> QED
      BY <1>1, <2>0, <3>4 DEF FileStep
  <2>3. CASE HasRow(p) /\ ~ShouldDecompile(rows[p][1]) /\ FileEnds(w, TRUE)
    <3>1. 1 \in DOMAIN rows[p]
      BY <1>0, <2>3 DEF HasRow
    <3>2. Recorded(p)
      BY <2>3, <3>1 DEF Recorded, ShouldDecompile
    <3> QED
      BY <1>1, <2>0, <2>3, <3>2 DEF FileStep, Wins
  <2>4. CASE HasRow(p) /\ ShouldDecompile(rows[p][1]) /\ HaveStatus(w, 1, rows[p][1])
             /\ UNCHANGED handled
    <3>1. 1 \in DOMAIN rows'[p]
      BY <1>0, <2>0, <2>4 DEF HasRow
    <3>2. ~IsDecompiled(p)
      BY <2>4 DEF IsDecompiled, ShouldDecompile
    <3>3. \E pc, r : /\ pc \in {"pull", "install", "decompile"}
                    /\ Goto(w, Busy(pc, worker[w].item, worker[w].pos, 1, r))
      BY <2>4 DEF HaveStatus
    <3>4. Remains(w, p)
      BY <1>1, <2>0, <2>4, <3>1, <3>2, <3>3 DEF Remains, BusyPc
    <3> QED
      BY <1>1, <2>0, <3>4 DEF FileStep
  <2> QED
    BY <1>2, <2>1, <2>2, <2>3, <2>4 DEF GetStatus, Skipped
<1>3. CASE CreateStatus(w)
  <2>1. CASE /\ rows' = [rows EXCEPT ![p] = Append(@, NewRow)]
             /\ HaveStatus(w, Len(rows[p]) + 1, NewRow) /\ UNCHANGED handled
    <3>1. rows'[p] = Append(rows[p], NewRow) /\ OnlyAt(p) /\ NewRow \in Row
      BY <1>0, <2>1, RowTypes DEF OnlyAt
    <3>2. /\ DOMAIN rows[p] \subseteq DOMAIN rows'[p] /\ Len(rows[p]) + 1 \in DOMAIN rows'[p]
          /\ \A i \in DOMAIN rows[p] : rows'[p][i] = rows[p][i]
          /\ rows[p] = <<>> => rows'[p][1] = NewRow
          /\ rows[p] # <<>> => 1 \in DOMAIN rows[p]
      BY <1>0, <3>1, RowAdded
    <3>3. Grows(p) /\ (Recorded(p) => Recorded(p)')
      BY <3>2 DEF Grows, Tried, Recorded
    <3>4. ~IsDecompiled(p) => ~IsDecompiled(p)'
      BY <3>2 DEF IsDecompiled, HasRow, NewRow
    <3>5. \E pc, r : /\ pc \in {"pull", "install", "decompile"}
                    /\ Goto(w, Busy(pc, worker[w].item, worker[w].pos, Len(rows[p]) + 1, r))
      BY <2>1 DEF HaveStatus
    <3>6. worker[w].pc = "create"
      BY <1>3 DEF CreateStatus
    <3>7. Remains(w, p)
      BY <2>1, <3>2, <3>3, <3>4, <3>5, <3>6 DEF Remains, BusyPc
    <3> QED
      BY <3>1, <3>3, <3>7 DEF FileStep
  <2>2. CASE p \in DBErrors /\ FileEnds(w, FALSE) /\ UNCHANGED rows
    BY <1>1, <2>2 DEF FileStep, Fails, Left, Readable
  <2> QED
    BY <1>3, <2>1, <2>2 DEF CreateStatus
<1>4. CASE PullFile(w) \/ InstallFramework(w) \/ DecompileFile(w)
  <2>1. /\ UNCHANGED <<rows, handled>>
        /\ worker[w].pc \in PastLookup /\ worker[w].pc # "status"
    BY <1>4 DEF PullFile, InstallFramework, DecompileFile, diskVars, PastLookup
  <2>2. worker[w].id \in DOMAIN rows'[p]
    BY <2>1 DEF HoldsRow
  <2>3. ASSUME NEW pc \in {"install", "decompile"}, Step(w, pc) PROVE Remains(w, p)
    <3>1. Goto(w, Busy(pc, worker[w].item, worker[w].pos, worker[w].id, worker[w].row))
      BY <2>3, StepIsGoto DEF BusyPc
    <3> QED
      BY <1>1, <2>1, <2>2, <2>3, <3>1 DEF Remains, BusyPc
  <2>4. ASSUME NEW success, Attempt(w, success) PROVE Remains(w, p)
    <3>1. Attempted(worker[w].row, success).attempts > 0
      BY <1>0 DEF Attempted, Row
    <3> QED
      BY <1>1, <2>1, <2>2, <2>4, <3>1 DEF Remains, Attempt, BusyPc
  <2>5. (\E pc \in {"install", "decompile"} : Step(w, pc)) \/ \E success : Attempt(w, success)
    BY <1>4 DEF PullFile, InstallFramework, DecompileFile
  <2> QED
    BY <1>1, <2>1, <2>3, <2>4, <2>5 DEF FileStep
<1>5. CASE UpdateStatus(w)
  <2>0. worker[w].pc = "update" /\ worker[w].id \in DOMAIN rows[p] /\ worker[w].row.attempts > 0
    BY <1>5 DEF UpdateStatus, HoldsRow, PastLookup
  <2>1. CASE /\ rows' = [rows EXCEPT ![p][worker[w].id] = worker[w].row]
             /\ FileEnds(w, worker[w].row.decompiled)
    <3>1. rows'[p] = [rows[p] EXCEPT ![worker[w].id] = worker[w].row] /\ OnlyAt(p)
      BY <1>0, <2>1 DEF OnlyAt
    <3>2. /\ DOMAIN rows'[p] = DOMAIN rows[p] /\ rows'[p][worker[w].id] = worker[w].row
          /\ \A i \in DOMAIN rows[p] : i # worker[w].id => rows'[p][i] = rows[p][i]
          /\ rows[p] # <<>> /\ rows'[p] # <<>> /\ 1 \in DOMAIN rows[p]
      BY <1>0, <2>0, <3>1, RowWritten
    <3>3. Tried(p)'
      BY <2>0, <3>2 DEF Tried
    <3>4. Grows(p) /\ Left(p)'
      BY <3>2, <3>3 DEF Grows, Left
    <3>5. CASE worker[w].row.decompiled
      <4>1. FileEnds(w, TRUE)
        BY <1>0, <2>1, <3>5 DEF FileEnds
      <4>2. Recorded(p)'
        BY <2>0, <3>2, <3>5 DEF Recorded
      <4> QED
        BY <3>1, <3>4, <4>1, <4>2 DEF FileStep, Wins
    <3>6. CASE ~worker[w].row.decompiled
      <4>1. FileEnds(w, FALSE)
        BY <1>0, <2>1, <3>6 DEF FileEnds
      <4>2. ~IsDecompiled(p) => ~IsDecompiled(p)'
        BY <3>2, <3>6 DEF IsDecompiled, HasRow
      <4> QED
        BY <2>0, <3>1, <3>4, <4>1, <4>2 DEF FileStep, Fails
    <3> QED
      BY <3>5, <3>6
  <2>2. CASE p \in DBErrors /\ FileEnds(w, FALSE) /\ UNCHANGED rows
    BY <1>1, <2>2 DEF FileStep, Fails, Left, Readable
  <2> QED
    BY <1>5, <2>1, <2>2 DEF UpdateStatus
<1> QED
  BY <1>2, <1>3, <1>4, <1>5 DEF WorkerStep, StartApk, RecvCheck, Recv, IsBusy, BusyPc

(* Another item's worker, or another position, is at another file.         *)
LEMMA Elsewhere ==
  ASSUME TypeOK, OneWorkerPerItem, NEW v \in Worker, NEW w \in Worker, IsBusy(v), IsBusy(w),
         NEW i \in DOMAIN FilesOf(worker[v].item), Sole(worker[v].item, i),
         v # w \/ i # worker[w].pos
  PROVE  FilesOf(worker[v].item)[i] # PathOf(w)
<1>1. /\ worker[w].item \in Items /\ worker[w].pos \in DOMAIN FilesOf(worker[w].item)
      /\ PathOf(w) = FilesOf(worker[w].item)[worker[w].pos]
  BY BusyTypes DEF PathOf
<1>2. v # w => worker[v].item # worker[w].item
  BY DEF OneWorkerPerItem
<1> QED
  BY <1>1, <1>2 DEF Sole

(* A file that a worker left behind stays so, whoever moves.               *)
LEMMA BehindKept ==
  ASSUME TypeOK, OneWorkerPerItem, InOrder, NEW w \in Worker, IsBusy(w),
         NEW p \in Path, p = PathOf(w), OnlyAt(p), Grows(p),
         NEW v \in Worker, IsBusy(v), NEW i \in DOMAIN FilesOf(worker[v].item),
         i < worker[v].pos, NEW r \in Path, r = FilesOf(worker[v].item)[i]
  PROVE  /\ Left(r)'
         /\ Sole(worker[v].item, i) /\ Readable(r) => ~IsDecompiled(r)'
<1>1. Left(r) /\ (Sole(worker[v].item, i) /\ Readable(r) => ~IsDecompiled(r))
  BY DEF InOrder, Behind
<1>2. Left(r)'
  <2>1. Grows(r)
    BY SameRows DEF OnlyAt
  <2> QED
    BY <1>1, <2>1 DEF Left, Grows, Skipped
<1>3. ASSUME Sole(worker[v].item, i), Readable(r) PROVE ~IsDecompiled(r)'
  <2>1. worker[v].pos \in Nat /\ i \in Nat
    BY BusyTypes, FilesTypes
  <2>2. v = w => i # worker[w].pos
    BY <2>1
  <2>3. rows'[r] = rows[r]
    BY <1>3, <2>2, Elsewhere DEF OnlyAt
  <2> QED
    BY <1>1, <1>3, <2>3, SameRows
<1> QED
  BY <1>2, <1>3

(* What holds of a worker that does not move, when another one does.       *)
LEMMA OthersInOrder ==
  ASSUME TypeOK, OneWorkerPerItem, InOrder, NEW w \in Worker, IsBusy(w),
         NEW p \in Path, p = PathOf(w), OnlyAt(p), Grows(p),
         NEW v \in Worker, v # w, worker'[v] = worker[v]
  PROVE  HoldsRow(v)' /\ StillOpen(v)' /\ Behind(v)'
<1>0. CASE ~IsBusy(v)
  BY <1>0 DEF HoldsRow, StillOpen, Behind, IsBusy, PastLookup, BusyPc
<1> SUFFICES ASSUME IsBusy(v) PROVE HoldsRow(v)' /\ StillOpen(v)' /\ Behind(v)'
  BY <1>0
<1> DEFINE files == FilesOf(worker[v].item)
<1>1. PICK q \in Path : q = PathOf(v) /\ q = files[worker[v].pos] /\ worker[v].pos \in DOMAIN files
  BY BusyTypes DEF PathOf
<1>2. /\ files' = files /\ PathOf(v)' = q /\ IsBusy(v)'
      /\ \A i : Sole(worker[v].item, i)' <=> Sole(worker[v].item, i)
  BY <1>1 DEF FilesOf, PathOf, IsBusy, Sole, Items
<1>3. \A i \in DOMAIN files : files[i] \in Path
  BY BusyTypes, FilesTypes
<1>4. Grows(q)
  BY SameRows DEF OnlyAt
<1>5. Sole(worker[v].item, worker[v].pos) => (IsDecompiled(q)' <=> IsDecompiled(q))
  <2>1. Sole(worker[v].item, worker[v].pos) => rows'[q] = rows[q]
    BY <1>1, Elsewhere DEF OnlyAt
  <2> QED
    BY <2>1, SameRows
<1>6. HoldsRow(v)'
  BY <1>1, <1>2, <1>4 DEF InOrder, HoldsRow, Grows
<1>7. StillOpen(v)'
  BY <1>1, <1>2, <1>5 DEF InOrder, StillOpen
<1>8. Behind(v)'
  <2>1. ASSUME NEW i \in DOMAIN files, i < worker[v].pos
        PROVE  /\ Left(files[i])'
               /\ Sole(worker[v].item, i) /\ Readable(files[i]) => ~IsDecompiled(files[i])'
    BY <1>3, <2>1, BehindKept
  <2> QED
    BY <1>2, <2>1 DEF Behind, Readable, Skipped
<1> QED
  BY <1>6, <1>7, <1>8

(* The worker itself goes on with its file.                                *)
LEMMA RemainsInOrder ==
  ASSUME TypeOK, OneWorkerPerItem, InOrder, NEW w \in Worker, IsBusy(w),
         NEW p \in Path, p = PathOf(w), OnlyAt(p), Grows(p), Remains(w, p)
  PROVE  HoldsRow(w)' /\ StillOpen(w)' /\ Behind(w)'
<1> DEFINE files == FilesOf(worker[w].item)
<1>1. PICK pc, id, r :
        /\ pc \in BusyPc \ {"status"}
        /\ Goto(w, Busy(pc, worker[w].item, worker[w].pos, id, r))
        /\ pc \in PastLookup => id \in DOMAIN rows'[p]
        /\ pc = "update" => r.attempts > 0
  BY DEF Remains
<1>2. /\ worker'[w].pc = pc /\ worker'[w].item = worker[w].item
      /\ worker'[w].pos = worker[w].pos /\ worker'[w].id = id /\ worker'[w].row = r
  BY <1>1, GotoAt DEF Busy
<1>3. /\ files' = files /\ PathOf(w)' = p /\ IsBusy(w)'
      /\ \A i : Sole(worker[w].item, i)' <=> Sole(worker[w].item, i)
  BY <1>1, <1>2 DEF FilesOf, PathOf, IsBusy, Sole, Items
<1>7. \A i \in DOMAIN files : files[i] \in Path
  BY BusyTypes, FilesTypes
<1>4. HoldsRow(w)'
  BY <1>1, <1>2, <1>3 DEF HoldsRow
<1>5. StillOpen(w)'
  <2>1. ASSUME Sole(worker[w].item, worker[w].pos) PROVE ~IsDecompiled(p)'
    <3>1. worker[w].pc = "status" \/ ~IsDecompiled(p)
      BY <2>1 DEF InOrder, StillOpen, IsBusy
    <3> QED
      BY <3>1 DEF Remains
  <2> QED
    BY <1>2, <1>3, <2>1 DEF StillOpen
<1>6. Behind(w)'
  <2>1. ASSUME NEW i \in DOMAIN files, i < worker[w].pos
        PROVE  /\ Left(files[i])'
               /\ Sole(worker[w].item, i) /\ Readable(files[i]) => ~IsDecompiled(files[i])'
    <3>1. PICK q \in Path : q = files[i]
      BY <1>7
    <3>2. /\ Left(q)'
          /\ Sole(worker[w].item, i) /\ Readable(q) => ~IsDecompiled(q)'
      BY <2>1, <3>1, BehindKept
    <3> QED
      BY <1>3, <3>1, <3>2
  <2> QED
    BY <1>2, <1>3, <2>1 DEF Behind, Readable, Skipped
<1> QED
  BY <1>4, <1>5, <1>6

(* The worker leaves its file.                                             *)
LEMMA EndsInOrder ==
  ASSUME TypeOK, OneWorkerPerItem, InOrder, NEW w \in Worker, IsBusy(w),
         NEW p \in Path, p = PathOf(w), OnlyAt(p), Grows(p), Wins(w, p) \/ Fails(w, p)
  PROVE  HoldsRow(w)' /\ StillOpen(w)' /\ Behind(w)'
<1> DEFINE files == FilesOf(worker[w].item)
           next == worker[w].pos + 1
<1>1. CASE Goto(w, Idle(IF worker[w].item.kind = "apk" THEN "pool" ELSE "check"))
  <2>1. worker'[w].pc \in {"pool", "check"}
    BY <1>1, GotoAt DEF Idle
  <2> QED
    BY <2>1 DEF HoldsRow, StillOpen, Behind, IsBusy, PastLookup, BusyPc
<1>2. CASE /\ Fails(w, p)
           /\ Goto(w, Busy("status", worker[w].item, next, 0, NewRow))
  <2>1. worker'[w].pc = "status" /\ worker'[w].item = worker[w].item /\ worker'[w].pos = next
    BY <1>2, GotoAt DEF Busy
  <2>2. files' = files /\ \A i : Sole(worker[w].item, i)' <=> Sole(worker[w].item, i)
    BY <2>1 DEF FilesOf, Sole, Items
  <2>3. HoldsRow(w)' /\ StillOpen(w)'
    BY <2>1 DEF HoldsRow, StillOpen, PastLookup
  <2>4. \A i \in DOMAIN files : files[i] \in Path /\ i \in Nat
    BY BusyTypes, FilesTypes
  <2>5. worker[w].pos \in Nat /\ p = files[worker[w].pos]
    BY BusyTypes DEF PathOf
  <2>6. /\ Left(p)'
        /\ Sole(worker[w].item, worker[w].pos) /\ Readable(p) => ~IsDecompiled(p)'
    <3>1. ASSUME Sole(worker[w].item, worker[w].pos), Readable(p) PROVE ~IsDecompiled(p)'
      <4>1. worker[w].pc # "status" /\ (~IsDecompiled(p) => ~IsDecompiled(p)')
        BY <1>2, <3>1 DEF Fails
      <4>2. ~IsDecompiled(p)
        BY <3>1, <4>1 DEF InOrder, StillOpen, IsBusy
      <4> QED
        BY <4>1, <4>2
    <3> QED
      BY <1>2, <3>1 DEF Fails
  <2>7. ASSUME NEW i \in DOMAIN files, i < next
        PROVE  /\ Left(files[i])'
               /\ Sole(worker[w].item, i) /\ Readable(files[i]) => ~IsDecompiled(files[i])'
    <3>1. CASE i < worker[w].pos
      <4>1. PICK r \in Path : r = files[i]
        BY <2>4
      <4>2. /\ Left(r)'
            /\ Sole(worker[w].item, i) /\ Readable(r) => ~IsDecompiled(r)'
        BY <3>1, <4>1, BehindKept
      <4> QED
        BY <2>2, <4>1, <4>2
    <3>2. CASE i = worker[w].pos
      BY <2>2, <2>5, <2>6, <3>2
    <3>3. i < worker[w].pos \/ i = worker[w].pos
      BY <2>4, <2>5, <2>7
    <3> QED
      BY <3>1, <3>2, <3>3
  <2>8. Behind(w)'
    BY <2>1, <2>2, <2>7 DEF Behind, Readable, Skipped
  <2> QED
    BY <2>3, <2>8
<1> QED
  BY <1>1, <1>2 DEF Wins, Fails, FileEnds

(* A worker that has no file takes one, or not.                            *)
LEMMA IdleSteps ==
  ASSUME TypeOK, NEW w \in Worker, ~IsBusy(w), WorkerStep(w)
  PROVE  /\ UNCHANGED <<rows, handled>>
         /\ \/ UNCHANGED worker
            \/ \E t : /\ Goto(w, t)
                      /\ t.pc \notin BusyPc \/ (t.pc = "status" /\ t.pos = 1)
<1>1. StartApk(w) \/ RecvCheck(w) \/ Recv(w)
  BY DEF WorkerStep, GetStatus, CreateStatus, PullFile, InstallFramework, DecompileFile,
     UpdateStatus, IsBusy, BusyPc
<1>2. UNCHANGED <<rows, handled>>
  BY <1>1 DEF StartApk, RecvCheck, Recv, diskVars
<1>3. \A pc : Idle(pc).pc = pc
  BY DEF Idle
<1>4. \A item : /\ Busy("status", item, 1, 0, NewRow).pc = "status"
                /\ Busy("status", item, 1, 0, NewRow).pos = 1
  BY DEF Busy
<1> QED
  BY <1>1, <1>2, <1>3, <1>4 DEF StartApk, RecvCheck, Recv, BusyPc

LEMMA Unmoved ==
  ASSUME UNCHANGED rows, NEW v, worker'[v] = worker[v], HoldsRow(v), StillOpen(v), Behind(v)
  PROVE  HoldsRow(v)' /\ StillOpen(v)' /\ Behind(v)'
<1>1. PICK files : files = FilesOf(worker[v].item)
  OBVIOUS
<1>2. /\ FilesOf(worker[v].item)' = files /\ PathOf(v)' = PathOf(v) /\ (IsBusy(v)' <=> IsBusy(v))
      /\ \A i : Sole(worker[v].item, i)' <=> Sole(worker[v].item, i)
  BY <1>1 DEF FilesOf, PathOf, IsBusy, Sole, Items
<1>3. \A p : (IsDecompiled(p)' <=> IsDecompiled(p)) /\ (Left(p)' <=> Left(p))
  BY SameRows
<1>4. HoldsRow(v)'
  BY <1>2 DEF HoldsRow
<1>5. StillOpen(v)'
  <2>1. PICK p : p = PathOf(v)
    OBVIOUS
  <2> QED
    BY <1>2, <1>3, <2>1 DEF StillOpen
<1>6. Behind(v)'
  BY <1>1, <1>2, <1>3 DEF Behind, Readable, Skipped
<1> QED
  BY <1>4, <1>5, <1>6

LEMMA WorkerInOrder ==
  ASSUME TypeOK, Exclusion, InOrder, NEW w \in Worker, WorkerStep(w)
  PROVE  InOrder'
<1>1. CASE ~IsBusy(w)
  <2>1. UNCHANGED rows
    BY <1>1, IdleSteps
  <2>2. ASSUME NEW v \in Worker, worker'[v] = worker[v]
        PROVE  HoldsRow(v)' /\ StillOpen(v)' /\ Behind(v)'
    BY <2>1, <2>2, Unmoved DEF InOrder
  <2>3. ASSUME NEW t, Goto(w, t), t.pc \notin BusyPc \/ (t.pc = "status" /\ t.pos = 1)
        PROVE  HoldsRow(w)' /\ StillOpen(w)' /\ Behind(w)'
    <3>1. worker'[w] = t
      BY <2>3, GotoAt
    <3>2. HoldsRow(w)' /\ StillOpen(w)'
      BY <2>3, <3>1 DEF HoldsRow, StillOpen, BusyPc, PastLookup
    <3>3. CASE t.pc \notin BusyPc
      BY <3>1, <3>2, <3>3 DEF Behind, IsBusy, BusyPc
    <3>4. CASE t.pc = "status" /\ t.pos = 1
      <4>1. WorkerOK'
        BY WorkerStepTypes DEF TypeOK, WorkerOK
      <4>2. worker'[w].item \in Items /\ worker'[w].pos = 1
        BY <3>1, <3>4, <4>1, WorkerTypes DEF WorkerOK, BusyPc
      <4>3. \A i \in DOMAIN FilesOf(worker'[w].item) : ~(i < 1)
        BY <4>2, FilesTypes
      <4>4. FilesOf(worker[w].item)' = FilesOf(worker'[w].item)
        BY DEF FilesOf
      <4> QED
        BY <3>2, <4>2, <4>3, <4>4 DEF Behind
    <3> QED
      BY <2>3, <3>3, <3>4
  <2>4. CASE UNCHANGED worker
    BY <2>2, <2>4 DEF InOrder
  <2>5. CASE \E t : Goto(w, t) /\ (t.pc \notin BusyPc \/ (t.pc = "status" /\ t.pos = 1))
    <3>1. \A v \in Worker \ {w} : worker'[v] = worker[v]
      BY <2>5, GotoAt
    <3>2. HoldsRow(w)' /\ StillOpen(w)' /\ Behind(w)'
      BY <2>3, <2>5
    <3> QED
      BY <2>2, <3>1, <3>2 DEF InOrder
  <2> QED
    BY <1>1, <2>4, <2>5, IdleSteps
<1>2. CASE IsBusy(w)
  <2>1. PICK p \in Path : p = PathOf(w)
    BY <1>2, BusyTypes
  <2>2. FileStep(w, p) /\ OneWorkerPerItem
    BY <1>2, <2>1, BusyRows DEF InOrder, Exclusion
  <2>3. \A v \in Worker \ {w} : worker'[v] = worker[v]
    <3>1. (\E t : Goto(w, t)) => \A v \in Worker \ {w} : worker'[v] = worker[v]
      BY GotoAt
    <3> QED
      BY <2>2, <3>1 DEF FileStep, Remains, Wins, Fails, FileEnds
  <2>4. HoldsRow(w)' /\ StillOpen(w)' /\ Behind(w)'
    <3>1. CASE Remains(w, p)
      BY <1>2, <2>1, <2>2, <3>1, RemainsInOrder DEF FileStep
    <3>2. CASE Wins(w, p) \/ Fails(w, p)
      BY <1>2, <2>1, <2>2, <3>2, EndsInOrder DEF FileStep
    <3> QED
      BY <2>2, <3>1, <3>2 DEF FileStep
  <2>5. \A v \in Worker \ {w} : HoldsRow(v)' /\ StillOpen(v)' /\ Behind(v)'
    BY <1>2, <2>1, <2>2, <2>3, OthersInOrder DEF FileStep
  <2> QED
    BY <2>4, <2>5 DEF InOrder
<1> QED
  BY <1>1, <1>2

LEMMA InOrderInit == Init => InOrder
<1> SUFFICES ASSUME Init, NEW w \in Worker PROVE HoldsRow(w) /\ StillOpen(w) /\ Behind(w)
  BY DEF InOrder
<1>1. worker[w].pc = "pool"
  BY DEF Init, Idle
<1> QED
  BY <1>1 DEF HoldsRow, StillOpen, Behind, IsBusy, BusyPc, PastLookup

LEMMA InOrderStep == TypeOK /\ Exclusion /\ InOrder /\ [Next]_vars => InOrder'
<1> SUFFICES ASSUME TypeOK, Exclusion, InOrder, [Next]_vars PROVE InOrder'
  OBVIOUS
<1>1. CASE UNCHANGED <<worker, rows>>
  BY <1>1, Unmoved DEF InOrder
<1>2. CASE StartFiles
  <2>1. \A w \in Worker : worker'[w].pc = "check"
    BY <1>2 DEF StartFiles, Idle
  <2> QED
    BY <2>1 DEF InOrder, HoldsRow, StillOpen, Behind, IsBusy, BusyPc, PastLookup
<1>3. CASE \E w \in Worker : WorkerStep(w)
  BY <1>3, WorkerInOrder
<1> QED
  BY <1>1, <1>2, <1>3 DEF Next, Cancel, Drainer, Return, vars, diskVars

(* No worker goes on behind a decompiled file of its group, unless that    *)
(* cannot be read, is a vdex this run skips, or is another item's as well. *)
THEOREM FirstSuccess == Spec => []FirstSuccessStops
<1>1. Init => TypeOK /\ Exclusion /\ InOrder
  BY TypeInit, ExclusionInit, InOrderInit
<1>2. TypeOK /\ Exclusion /\ InOrder /\ [Next]_vars => (TypeOK /\ Exclusion /\ InOrder)'
  BY TypeStep, ExclusionStep, InOrderStep
<1>3. TypeOK /\ InOrder => FirstSuccessStops
  <2> SUFFICES ASSUME TypeOK, InOrder, NEW w \in Worker, IsBusy(w),
                      NEW i \in 1 .. worker[w].pos - 1,
                      IsDecompiled(FilesOf(worker[w].item)[i])
               PROVE  \/ FilesOf(worker[w].item)[i] \in DBErrors
                      \/ Skipped(FilesOf(worker[w].item)[i])
                      \/ ~Sole(worker[w].item, i)
    BY DEF FirstSuccessStops
  <2>1. /\ worker[w].pos \in DOMAIN FilesOf(worker[w].item) /\ worker[w].pos \in Nat
        /\ FilesOf(worker[w].item) \in Seq(Path)
    BY BusyTypes, FilesTypes
  <2>2. i \in DOMAIN FilesOf(worker[w].item) /\ i < worker[w].pos
    BY <2>1
  <2> QED
    BY <2>2 DEF InOrder, Behind, Readable
<1> QED
  BY <1>1, <1>2, <1>3, PTL DEF Spec

-------------------------------------------------------------------------------
(* The phase does what a phase of a pull promises: every step of its       *)
(* threads is a step of PullWork or none.  Why its return is complete:     *)
(* unless the user cancelled, every item waits, is at work or was handled, *)
(* the drainer leaves an empty map and a worker an empty channel.          *)

WorkSafety == Work!Init /\ [][Work!Next]_(Work!workVars)

NoneLost == ~cancelled => Items \subseteq Waiting \cup BusyItems \cup handled
MapEmpty == ~cancelled /\ drainer.pc = "done" => fileMap = {}
LeftEmpty ==
  \A w \in Worker : worker[w].pc = "done" => cancelled \/ (drainer.pc = "done" /\ chan = <<>>)
ReturnIsLast ==
  result # "none" =>
    phase = "files" /\ drainer.pc = "done" /\ \A w \in Worker : worker[w].pc = "done"

Complete == NoneLost /\ MapEmpty /\ LeftEmpty /\ ReturnIsLast

LEMMA CompleteInit == Init => Complete
<1> SUFFICES ASSUME Init PROVE Complete
  OBVIOUS
<1>1. Items \subseteq Waiting
  BY DEF Init, Items, Waiting
<1>2. \A w \in Worker : worker[w].pc = "pool"
  BY DEF Init, Idle
<1> QED
  BY <1>1, <1>2 DEF Init, Complete, NoneLost, MapEmpty, LeftEmpty, ReturnIsLast

LEMMA DrainerComplete ==
  ASSUME TypeOK, Exclusion, Complete, Drainer
  PROVE  Complete'
<1> USE DEF Complete
<1>0. UNCHANGED <<cancelled, phase, pending, worker, handled, result>>
  BY DEF Drainer
<1>1. BusyItems' = BusyItems
  BY <1>0 DEF BusyItems, IsBusy
<1>2. drainer.pc # "done"
  BY DEF Drainer, DrainTake, DrainCheck, DrainSend
<1>3. LeftEmpty' /\ ReturnIsLast'
  BY <1>0, <1>2 DEF LeftEmpty, ReturnIsLast
<1>4. ASSUME ~cancelled => fileMap \cup AtHand \cup InChan \subseteq fileMap' \cup AtHand' \cup InChan'
      PROVE  NoneLost'
  <2>1. ~cancelled => Waiting \subseteq Waiting'
    BY <1>0, <1>4 DEF Waiting
  <2> QED
    BY <1>0, <1>1, <2>1 DEF NoneLost
<1>5. CASE DrainTake
  <2>1. UNCHANGED chan /\ InChan' = InChan /\ AtHand = {}
    BY <1>5 DEF DrainTake, InChan, AtHand
  <2>2. CASE \E g \in fileMap : fileMap' = fileMap \ {g} /\ drainer' = [pc |-> "check", group |-> g]
    <3>1. \E g \in fileMap : fileMap' = fileMap \ {g} /\ AtHand' = {g} /\ drainer'.pc = "check"
      BY <2>2 DEF AtHand
    <3> QED
      BY <1>3, <1>4, <2>1, <3>1 DEF MapEmpty
  <2>3. CASE fileMap = {} /\ UNCHANGED fileMap
    BY <1>3, <1>4, <2>1, <2>3 DEF MapEmpty
  <2> QED
    BY <1>5, <2>2, <2>3 DEF DrainTake
<1>6. CASE DrainCheck
  <2>1. UNCHANGED <<chan, fileMap>> /\ InChan' = InChan
    BY <1>6 DEF DrainCheck, InChan
  <2>2. ~cancelled => AtHand' = AtHand /\ drainer'.pc = "send"
    BY <1>6 DEF DrainCheck, AtHand, TypeOK
  <2> QED
    BY <1>0, <1>3, <1>4, <2>1, <2>2 DEF MapEmpty
<1>7. CASE DrainSend
  <2>0. UNCHANGED fileMap /\ AtHand = {drainer.group} /\ drainer.group \in Group
    BY <1>7 DEF DrainSend, AtHand, TypeOK
  <2>1. CASE chan' = Append(chan, drainer.group) /\ drainer' = [pc |-> "take"]
    <3>1. InChan' = InChan \cup {drainer.group} /\ drainer'.pc # "done"
      BY <2>0, <2>1, Enqueue
    <3> QED
      BY <1>3, <1>4, <2>0, <3>1 DEF MapEmpty
  <2>2. CASE drainer' = [drainer EXCEPT !.pc = "check"] /\ UNCHANGED chan
    <3>1. AtHand' = AtHand /\ InChan' = InChan /\ drainer'.pc # "done"
      BY <1>7, <2>2 DEF DrainSend, AtHand, InChan, TypeOK
    <3> QED
      BY <1>3, <1>4, <2>0, <3>1 DEF MapEmpty
  <2> QED
    BY <1>7, <2>1, <2>2 DEF DrainSend
<1> QED
  BY <1>5, <1>6, <1>7 DEF Drainer

(* Where a worker leaves to.                                               *)
LEMMA WorkerLeaves ==
  ASSUME TypeOK, NEW w \in Worker, WorkerStep(w), worker'[w].pc = "done"
  PROVE  /\ cancelled \/ (drainer.pc = "done" /\ chan = <<>>)
         /\ UNCHANGED chan
<1>1. \A t : Goto(w, t) => worker'[w] = t
  BY GotoAt
<1>2. ~IsBusy(w)
  <2> SUFFICES ASSUME IsBusy(w) PROVE FALSE
    OBVIOUS
  <2>1. Finishes(w) => worker'[w].pc # "done"
    BY <1>1 DEF Finishes, Idle
  <2> QED
    BY <1>1, <2>1, BusyStep DEF Keeps, BusyPc
<1>3. CASE StartApk(w)
  <2>1. worker[w].pc = "pool"
    BY <1>3 DEF StartApk
  <2> QED
    BY <1>1, <1>3, <2>1 DEF StartApk, Busy
<1>4. CASE RecvCheck(w)
  BY <1>1, <1>4 DEF RecvCheck, Idle
<1>5. CASE Recv(w)
  BY <1>1, <1>5 DEF Recv, Idle, Busy
<1> QED
  BY <1>2, <1>3, <1>4, <1>5
  DEF WorkerStep, GetStatus, CreateStatus, PullFile, InstallFramework, DecompileFile,
      UpdateStatus, IsBusy, BusyPc

LEMMA WorkerComplete ==
  ASSUME TypeOK, Exclusion, Complete, NEW w \in Worker, WorkerStep(w)
  PROVE  Complete' /\ result = "none"
<1> USE DEF Complete
<1>0. UNCHANGED <<cancelled, phase, fileMap, drainer, result>>
  BY DEF WorkerStep
<1>1. worker[w].pc # "done"
  BY DEF WorkerStep, StartApk, RecvCheck, Recv, GetStatus, CreateStatus, PullFile,
     InstallFramework, DecompileFile, UpdateStatus
<1>2. result = "none"
  BY <1>1 DEF ReturnIsLast
<1>3. MapEmpty' /\ ReturnIsLast'
  BY <1>0, <1>2 DEF MapEmpty, ReturnIsLast
<1>4. LeftEmpty'
  <2>1. \A v \in Worker \ {w} : worker'[v] = worker[v]
    <3>1. \A t : Goto(w, t) => \A v \in Worker \ {w} : worker'[v] = worker[v]
      BY GotoAt
    <3>2. CASE IsBusy(w)
      BY <3>1, <3>2, BusyStep DEF Keeps, Finishes
    <3>3. CASE StartApk(w) \/ RecvCheck(w) \/ Recv(w)
      BY <3>1, <3>3 DEF StartApk, RecvCheck, Recv
    <3> QED
      BY <3>2, <3>3 DEF WorkerStep, GetStatus, CreateStatus, PullFile, InstallFramework,
         DecompileFile, UpdateStatus, IsBusy, BusyPc
  <2>2. chan = <<>> => chan' = <<>>
    BY WorkerMoves DEF Moves
  <2> QED
    BY <1>0, <2>1, <2>2, WorkerLeaves DEF LeftEmpty
<1>5. NoneLost'
  <2> SUFFICES ASSUME ~cancelled PROVE Items \subseteq Waiting' \cup BusyItems' \cup handled'
    BY <1>0 DEF NoneLost
  <2>0. Items \subseteq Waiting \cup BusyItems \cup handled
    BY DEF NoneLost
  <2>1. AtHand' = AtHand
    BY <1>0 DEF AtHand
  <2>2. CASE /\ chan # <<>> /\ chan' = Tail(chan)
             /\ Takes(GroupItem(Head(chan))) /\ UNCHANGED pending
    <3>1. InChan' = InChan \ {Head(chan)}
      BY <1>0, <2>2, Dequeue DEF Exclusion
    <3>2. Waiting \subseteq Waiting' \cup {GroupItem(Head(chan))}
      BY <1>0, <2>1, <2>2, <3>1 DEF Waiting
    <3> QED
      BY <2>0, <2>2, <3>2 DEF Takes
  <2>3. CASE UNCHANGED chan
    <3>0. InChan' = InChan
      BY <2>3 DEF InChan
    <3>1. CASE UNCHANGED pending
      <4>1. Waiting' = Waiting
        BY <1>0, <2>1, <3>0, <3>1 DEF Waiting
      <4>2. Stays \/ (\E item : Ends(item)) \/ (\E p \in pending : Takes(ApkItem(p)))
        BY <2>3, WorkerMoves, HeadTailProperties DEF Moves, TypeOK
      <4> QED
        BY <2>0, <4>1, <4>2 DEF Stays, Ends, Takes
    <3>2. CASE \E p \in pending : Takes(ApkItem(p)) /\ pending' = pending \ {p}
      <4>1. PICK p \in pending : Takes(ApkItem(p)) /\ pending' = pending \ {p}
        BY <3>2
      <4>2. Waiting \subseteq Waiting' \cup {ApkItem(p)}
        BY <1>0, <2>1, <3>0, <4>1 DEF Waiting
      <4> QED
        BY <2>0, <4>1, <4>2 DEF Takes
    <3> QED
      BY <2>3, <3>1, <3>2, WorkerMoves DEF Moves
  <2> QED
    BY <2>2, <2>3, WorkerMoves DEF Moves
<1> QED
  BY <1>2, <1>3, <1>4, <1>5

(* A step that moves no item.                                              *)
LEMMA SameItems ==
  ASSUME TypeOK, UNCHANGED <<pending, fileMap, drainer, chan, handled>>,
         \/ UNCHANGED worker
         \/ \A w \in Worker : ~IsBusy(w) /\ worker'[w].pc \notin BusyPc
  PROVE  Waiting' = Waiting /\ BusyItems' = BusyItems
<1>1. AtHand' = AtHand /\ InChan' = InChan
  BY DEF AtHand, InChan
<1>2. Waiting' = Waiting
  BY <1>1 DEF Waiting
<1>3. CASE UNCHANGED worker
  BY <1>2, <1>3 DEF BusyItems, IsBusy
<1>4. CASE \A w \in Worker : ~IsBusy(w) /\ worker'[w].pc \notin BusyPc
  <2>1. BusyItems = {} /\ BusyItems' = {}
    BY <1>4 DEF BusyItems, IsBusy, BusyPc
  <2> QED
    BY <1>2, <2>1
<1> QED
  BY <1>3, <1>4

LEMMA StartFilesItems ==
  ASSUME TypeOK, StartFiles
  PROVE  /\ Waiting' = Waiting /\ BusyItems' = BusyItems
         /\ \A w \in Worker : worker'[w].pc # "done"
<1>1. \A w \in Worker : worker'[w].pc = "check" /\ ~IsBusy(w)
  BY DEF StartFiles, Idle
<1> QED
  BY <1>1, SameItems DEF StartFiles, BusyPc

LEMMA CompleteStep == TypeOK /\ Exclusion /\ Complete /\ [Next]_vars => Complete'
<1> SUFFICES ASSUME TypeOK, Exclusion, Complete, [Next]_vars PROVE Complete'
  OBVIOUS
<1> USE DEF Complete, NoneLost, MapEmpty, LeftEmpty, ReturnIsLast
<1>1. CASE Cancel
  BY <1>1 DEF Cancel
<1>2. CASE StartFiles
  <2>1. drainer.pc = "take" /\ result = "none"
    BY <1>2 DEF StartFiles, Exclusion, Parts
  <2> QED
    BY <1>2, <2>1, StartFilesItems DEF StartFiles
<1>3. CASE Drainer
  BY <1>3, DrainerComplete
<1>4. CASE \E w \in Worker : WorkerStep(w)
  BY <1>4, WorkerComplete
<1>5. CASE Return \/ UNCHANGED vars
  <2>1. UNCHANGED <<cancelled, phase, pending, fileMap, drainer, chan, worker, handled>>
    BY <1>5 DEF Return, vars
  <2> QED
    BY <1>5, <2>1, SameItems DEF Return, vars
<1> QED
  BY <1>1, <1>2, <1>3, <1>4, <1>5 DEF Next

LEMMA DoneIsComplete ==
  ASSUME TypeOK, Exclusion, Complete, phase = "files", drainer.pc = "done",
         \A w \in Worker : worker[w].pc = "done"
  PROVE  /\ BusyItems = {}
         /\ cancelled \/ Items \subseteq handled
<1>1. \A w \in Worker : ~IsBusy(w)
  BY DEF IsBusy, BusyPc
<1>2. BusyItems = {}
  BY <1>1 DEF BusyItems
<1>3. ASSUME ~cancelled PROVE Waiting = {}
  <2>1. chan = <<>> /\ fileMap = {} /\ pending = {}
    BY <1>3, FrameworkAssumption DEF Complete, LeftEmpty, MapEmpty, Exclusion, Parts
  <2>2. AtHand = {} /\ InChan = {}
    BY <2>1 DEF AtHand, InChan
  <2> QED
    BY <2>1, <2>2 DEF Waiting
<1> QED
  BY <1>2, <1>3 DEF Complete, NoneLost

LEMMA WaitingAreItems == TypeOK => Waiting \subseteq Items
<1> SUFFICES ASSUME TypeOK PROVE Waiting \subseteq Items
  OBVIOUS
<1>1. pending \subseteq DOMAIN FrameworkApks /\ fileMap \subseteq Group
  BY DEF TypeOK
<1>2. AtHand \subseteq Group
  BY DEF TypeOK, AtHand
<1>3. InChan \subseteq Group
  BY DEF TypeOK, InChan
<1> QED
  BY <1>1, <1>2, <1>3 DEF Waiting, Items

LEMMA StepRefines ==
  TypeOK /\ Exclusion /\ Complete /\ [Next]_vars => [Work!Next]_(Work!workVars)
<1> SUFFICES ASSUME TypeOK, Exclusion, Complete, [Next]_vars
             PROVE  Work!Next \/ UNCHANGED <<cancelled, BusyItems, handled, result>>
  BY DEF Work!workVars
<1>1. CASE Cancel
  <2>1. UNCHANGED <<BusyItems, handled, result>>
    BY <1>1, SameItems DEF Cancel
  <2> QED
    BY <1>1, <2>1 DEF Cancel, Work!Next, Work!Cancel
<1>2. CASE StartFiles
  BY <1>2, StartFilesItems DEF StartFiles
<1>3. CASE Drainer
  BY <1>3 DEF Drainer, BusyItems, IsBusy
<1>4. ASSUME NEW w \in Worker, WorkerStep(w)
      PROVE  Work!Next \/ UNCHANGED <<cancelled, BusyItems, handled, result>>
  <2>1. UNCHANGED <<cancelled, result>> /\ result = "none" /\ Moves(w)
    BY <1>4, WorkerComplete, WorkerMoves DEF WorkerStep
  <2>2. ASSUME NEW item, Takes(item) PROVE Work!Next
    <3>1. item \in Items /\ Work!Begin(item)
      BY <2>1, <2>2, WaitingAreItems DEF Takes, Work!Begin
    <3> QED
      BY <3>1 DEF Work!Next
  <2>3. ASSUME NEW item, Ends(item) PROVE Work!Next
    <3>1. item \in Items
      BY <2>3, BusyTypes DEF Ends, BusyItems
    <3>2. Work!End(item)
      BY <2>1, <2>3 DEF Ends, Work!End
    <3> QED
      BY <3>1, <3>2 DEF Work!Next
  <2> QED
    BY <2>1, <2>2, <2>3 DEF Moves, Stays
<1>5. CASE Return
  <2>1. UNCHANGED <<cancelled, BusyItems, handled>> /\ result = "none" /\ result' = "ok"
    BY <1>5, SameItems DEF Return
  <2>2. Work!Return("ok")
    BY <1>5, <2>1, DoneIsComplete DEF Return, Work!Return
  <2> QED
    BY <2>2 DEF Work!Next
<1>6. CASE UNCHANGED vars
  BY <1>6, SameItems DEF vars
<1> QED
  BY <1>1, <1>2, <1>3, <1>4, <1>5, <1>6 DEF Next

(* The pool, the helper thread, the bounded channel and the cancel flag of *)
(* pull_framework work on every framework APK and every group of files at  *)
(* most once, and without a cancellation the phase returns only when every *)
(* one was worked on: the safety part of ImplementsWork.                   *)
THEOREM Refinement == Spec => WorkSafety
<1>1. Init => Work!Init
  <2> SUFFICES ASSUME Init PROVE Work!Init
    OBVIOUS
  <2>1. BusyItems = {}
    BY DEF Init, Idle, IsBusy, BusyPc, BusyItems
  <2> QED
    BY <2>1 DEF Init, Work!Init
<1>2. Init => TypeOK /\ Exclusion /\ Complete
  BY TypeInit, ExclusionInit, CompleteInit
<1>3. TypeOK /\ Exclusion /\ Complete /\ [Next]_vars => (TypeOK /\ Exclusion /\ Complete)'
  BY TypeStep, ExclusionStep, CompleteStep
<1> QED
  BY <1>1, <1>2, <1>3, StepRefines, PTL DEF Spec, WorkSafety

-------------------------------------------------------------------------------
(* Why no alternative is left out.  An item that was handled was won, by a *)
(* file that is recorded behind files that were left, or lost, all of them *)
(* left; or a worker is at one of its files, behind files that were left.  *)
(* That worker may have another item, which has the file as well: when it  *)
(* writes a failure over the success that settled the item, it is the one  *)
(* that goes on, to the files the item has behind.                         *)

AllBefore(item, i) == \A k \in DOMAIN FilesOf(item) : k < i => Left(FilesOf(item)[k])

Won(item) ==
  \E i \in DOMAIN FilesOf(item) : Recorded(FilesOf(item)[i]) /\ AllBefore(item, i)
Lost(item) == \A i \in DOMAIN FilesOf(item) : Left(FilesOf(item)[i])
At(item, w) ==
  IsBusy(w) /\ \E i \in DOMAIN FilesOf(item) : FilesOf(item)[i] = PathOf(w) /\ AllBefore(item, i)

Settles(item) == Won(item) \/ Lost(item) \/ \E w \in Worker : At(item, w)
Settling == \A item \in handled : GoesOnAlike(item) => Settles(item)

(* What was left stays left.                                               *)
LEMMA LeftKept ==
  ASSUME NEW p \in Path, OnlyAt(p), Grows(p), NEW q \in Path, Left(q)
  PROVE  Left(q)'
<1>1. Grows(q)
  BY SameRows DEF OnlyAt
<1> QED
  BY <1>1 DEF Left, Grows, Skipped

LEMMA BeforeKept ==
  ASSUME NEW p \in Path, OnlyAt(p), Grows(p), NEW item \in Items
  PROVE  /\ \A i : AllBefore(item, i) => AllBefore(item, i)'
         /\ Lost(item) => Lost(item)'
<1>1. \A i \in DOMAIN FilesOf(item) : FilesOf(item)[i] \in Path
  BY FilesTypes
<1>2. FilesOf(item)' = FilesOf(item)
  BY DEF FilesOf
<1>3. \A i \in DOMAIN FilesOf(item) : Left(FilesOf(item)[i]) => Left(FilesOf(item)[i])'
  <2> SUFFICES ASSUME NEW i \in DOMAIN FilesOf(item), Left(FilesOf(item)[i])
               PROVE  Left(FilesOf(item)[i])'
    OBVIOUS
  <2>1. PICK q \in Path : q = FilesOf(item)[i]
    BY <1>1
  <2> QED
    BY <1>2, <2>1, LeftKept
<1> QED
  BY <1>2, <1>3 DEF AllBefore, Lost

(* Behind a failure at one of its files the item is lost, or the worker is *)
(* at its next file.                                                       *)
LEMMA FailsOn ==
  ASSUME TypeOK, NEW w \in Worker, IsBusy(w), NEW p \in Path, p = PathOf(w),
         OnlyAt(p), Grows(p), Fails(w, p),
         NEW item \in Items, GoesOnAlike(item),
         NEW i \in DOMAIN FilesOf(item), FilesOf(item)[i] = p, AllBefore(item, i)
  PROVE  Settles(item)'
<1> DEFINE files == FilesOf(item)
           mine == FilesOf(worker[w].item)
           next == worker[w].pos + 1
<1>1. files' = files /\ DOMAIN files \subseteq Nat /\ files \in Seq(Path)
  BY FilesTypes DEF FilesOf
<1>2. \A k \in DOMAIN files : k < i + 1 => Left(files[k])'
  <2>1. \A k \in DOMAIN files : k < i => Left(files[k])'
    BY <1>1, BeforeKept DEF AllBefore
  <2>2. Left(files[i])'
    BY <1>1 DEF Fails
  <2>3. \A k \in DOMAIN files : k < i + 1 => k < i \/ k = i
    BY <1>1
  <2> QED
    BY <2>1, <2>2, <2>3
<1>3. /\ worker[w].item \in Items /\ worker[w].pos \in DOMAIN mine
      /\ mine[worker[w].pos] = files[i]
  BY BusyTypes DEF PathOf
<1>4. /\ i + 1 \in DOMAIN files <=> next \in DOMAIN mine
      /\ i + 1 \in DOMAIN files => files[i + 1] = mine[next]
  BY <1>3 DEF GoesOnAlike
<1>5. CASE i + 1 \in DOMAIN files
  <2>1. Goto(w, Busy("status", worker[w].item, next, 0, NewRow))
    BY <1>4, <1>5 DEF Fails, FileEnds
  <2>2. worker'[w].pc = "status" /\ worker'[w].item = worker[w].item /\ worker'[w].pos = next
    BY <2>1, GotoAt DEF Busy
  <2>3. IsBusy(w)' /\ PathOf(w)' = files[i + 1]
    BY <1>4, <1>5, <2>2 DEF IsBusy, BusyPc, PathOf, FilesOf
  <2>4. AllBefore(item, i + 1)'
    BY <1>1, <1>2 DEF AllBefore
  <2>5. At(item, w)'
    BY <1>1, <1>5, <2>3, <2>4 DEF At
  <2> QED
    BY <2>5 DEF Settles
<1>6. CASE i + 1 \notin DOMAIN files
  <2>1. \A k \in DOMAIN files : k < i + 1
    BY <1>1, <1>6
  <2>2. Lost(item)'
    BY <1>1, <1>2, <2>1 DEF Lost
  <2> QED
    BY <2>2 DEF Settles
<1> QED
  BY <1>5, <1>6

(* An item that is settled stays so, whatever a worker does.               *)
LEMMA BusySettles ==
  ASSUME TypeOK, NEW w \in Worker, IsBusy(w), NEW p \in Path, p = PathOf(w), FileStep(w, p),
         NEW item \in Items, GoesOnAlike(item), Settles(item)
  PROVE  Settles(item)'
<1> DEFINE files == FilesOf(item)
<1>1. files' = files
  BY DEF FilesOf
<1>2. /\ OnlyAt(p) /\ Grows(p) /\ (Remains(w, p) \/ Wins(w, p) \/ Fails(w, p))
      /\ \A i : AllBefore(item, i) => AllBefore(item, i)'
      /\ Lost(item) => Lost(item)'
  BY BeforeKept DEF FileStep
<1>3. CASE Lost(item)
  BY <1>2, <1>3 DEF Settles
<1>4. ASSUME NEW i \in DOMAIN files, files[i] = p, AllBefore(item, i), Wins(w, p)
      PROVE  Settles(item)'
  <2>1. Won(item)'
    BY <1>1, <1>2, <1>4 DEF Won, Wins
  <2> QED
    BY <2>1 DEF Settles
<1>5. ASSUME NEW v \in Worker, v # w, At(item, v) PROVE Settles(item)'
  <2>1. worker'[v] = worker[v]
    <3>1. \A t : Goto(w, t) => worker'[v] = worker[v]
      BY <1>5, GotoAt
    <3> QED
      BY <1>2, <3>1 DEF Remains, Wins, Fails, FileEnds
  <2>2. PathOf(v)' = PathOf(v) /\ IsBusy(v)'
    BY <1>5, <2>1 DEF PathOf, FilesOf, IsBusy, At
  <2>3. At(item, v)'
    BY <1>1, <1>2, <1>5, <2>2 DEF At
  <2> QED
    BY <2>3 DEF Settles
<1>6. CASE At(item, w)
  <2>1. PICK i \in DOMAIN files : files[i] = p /\ AllBefore(item, i)
    BY <1>6 DEF At
  <2>2. CASE Remains(w, p)
    <3>1. PICK pc, id, r : /\ pc \in BusyPc
                          /\ Goto(w, Busy(pc, worker[w].item, worker[w].pos, id, r))
      BY <2>2 DEF Remains
    <3>2. /\ worker'[w].pc = pc /\ worker'[w].item = worker[w].item
          /\ worker'[w].pos = worker[w].pos
      BY <3>1, GotoAt DEF Busy
    <3>3. PathOf(w)' = p /\ IsBusy(w)'
      BY <3>1, <3>2 DEF PathOf, FilesOf, IsBusy
    <3>4. At(item, w)'
      BY <1>1, <1>2, <2>1, <3>3 DEF At
    <3> QED
      BY <3>4 DEF Settles
  <2> QED
    BY <1>2, <1>4, <2>1, <2>2, FailsOn
<1>7. CASE Won(item)
  <2>1. PICK i \in DOMAIN files : Recorded(files[i]) /\ AllBefore(item, i)
    BY <1>7 DEF Won
  <2>2. ASSUME Recorded(files[i])' PROVE Settles(item)'
    <3>1. Won(item)'
      BY <1>1, <1>2, <2>1, <2>2 DEF Won
    <3> QED
      BY <3>1 DEF Settles
  <2>3. CASE files[i] # p
    <3>1. PICK q \in Path : q = files[i]
      BY FilesTypes
    <3>2. Recorded(q)'
      BY <1>2, <2>1, <2>3, <3>1, SameRows DEF OnlyAt
    <3> QED
      BY <1>1, <2>2, <3>1, <3>2
  <2>4. CASE files[i] = p
    <3>1. CASE Remains(w, p)
      <4>1. Recorded(p)'
        BY <2>1, <2>4, <3>1 DEF Remains
      <4> QED
        BY <1>1, <2>2, <2>4, <4>1
    <3> QED
      BY <1>2, <1>4, <2>1, <2>4, <3>1, FailsOn
  <2> QED
    BY <2>3, <2>4
<1> QED
  BY <1>3, <1>5, <1>6, <1>7 DEF Settles

(* The item that a worker ends is settled.                                 *)
LEMMA EndSettles ==
  ASSUME TypeOK, InOrder, NEW w \in Worker, IsBusy(w), NEW p \in Path, p = PathOf(w),
         FileStep(w, p), NEW item \in handled', item \notin handled
  PROVE  Settles(item)'
<1> DEFINE files == FilesOf(item)
<1>1. /\ item = worker[w].item /\ ~(Remains(w, p))
      /\ Fails(w, p) => worker[w].pos + 1 \notin DOMAIN files
  BY DEF FileStep, Remains, Wins, Fails, FileEnds
<1>2. /\ item \in Items /\ worker[w].pos \in DOMAIN files /\ files[worker[w].pos] = p
      /\ files' = files /\ files \in Seq(Path)
  BY <1>1, BusyTypes, FilesTypes DEF PathOf, FilesOf
<1>3. AllBefore(item, worker[w].pos)
  BY <1>1 DEF InOrder, Behind, AllBefore
<1>4. \A k \in DOMAIN files : k < worker[w].pos => Left(files[k])'
  BY <1>2, <1>3, BeforeKept DEF AllBefore, FileStep
<1>5. CASE Wins(w, p)
  <2>1. \E i \in DOMAIN files : Recorded(files[i])' /\ \A k \in DOMAIN files : k < i => Left(files[k])'
    BY <1>2, <1>4, <1>5 DEF Wins
  <2>2. Won(item)'
    BY <1>2, <2>1 DEF Won, AllBefore
  <2> QED
    BY <2>2 DEF Settles
<1>6. CASE Fails(w, p)
  <2>1. PICK n : n = worker[w].pos
    OBVIOUS
  <2>2. \A k \in DOMAIN files : k < n \/ k = n
    BY <1>1, <1>2, <1>6, <2>1
  <2>3. Left(files[n])'
    BY <1>2, <1>6, <2>1 DEF Fails
  <2>4. Lost(item)'
    BY <1>2, <1>4, <2>1, <2>2, <2>3 DEF Lost
  <2> QED
    BY <2>4 DEF Settles
<1> QED
  BY <1>1, <1>5, <1>6 DEF FileStep

(* A step that writes no row and moves no worker that has a file.          *)
LEMMA QuietSettles ==
  ASSUME UNCHANGED <<rows, handled>>, Settling,
         \A w \in Worker : IsBusy(w) => worker'[w] = worker[w]
  PROVE  Settling'
<1> SUFFICES ASSUME NEW item \in handled, GoesOnAlike(item) PROVE Settles(item)'
  BY DEF Settling, GoesOnAlike, Items
<1>1. FilesOf(item)' = FilesOf(item)
  BY DEF FilesOf
<1>2. \A p : (Left(p)' <=> Left(p)) /\ (Recorded(p)' <=> Recorded(p))
  BY SameRows
<1>3. \A i : AllBefore(item, i)' <=> AllBefore(item, i)
  BY <1>1, <1>2 DEF AllBefore
<1>4. Won(item) => Won(item)'
  BY <1>1, <1>2, <1>3 DEF Won
<1>5. Lost(item) => Lost(item)'
  BY <1>1, <1>2 DEF Lost
<1>6. ASSUME NEW w \in Worker, At(item, w) PROVE At(item, w)'
  <2>1. PathOf(w)' = PathOf(w) /\ IsBusy(w)'
    BY <1>6 DEF At, PathOf, FilesOf, IsBusy
  <2> QED
    BY <1>1, <1>3, <1>6, <2>1 DEF At
<1> QED
  BY <1>4, <1>5, <1>6 DEF Settling, Settles

LEMMA SettlingStep == TypeOK /\ Exclusion /\ InOrder /\ Settling /\ [Next]_vars => Settling'
<1> SUFFICES ASSUME TypeOK, Exclusion, InOrder, Settling, [Next]_vars PROVE Settling'
  OBVIOUS
<1>1. CASE UNCHANGED <<worker, rows, handled>>
  BY <1>1, QuietSettles
<1>2. CASE StartFiles
  BY <1>2, QuietSettles DEF StartFiles, diskVars
<1>3. ASSUME NEW w \in Worker, WorkerStep(w), ~IsBusy(w) PROVE Settling'
  <2>1. UNCHANGED <<rows, handled>> /\ (UNCHANGED worker \/ \E t : Goto(w, t))
    BY <1>3, IdleSteps
  <2>2. \A v \in Worker : IsBusy(v) => worker'[v] = worker[v]
    BY <1>3, <2>1, GotoAt
  <2> QED
    BY <2>1, <2>2, QuietSettles
<1>4. ASSUME NEW w \in Worker, WorkerStep(w), IsBusy(w) PROVE Settling'
  <2>1. PICK p \in Path : p = PathOf(w)
    BY <1>4, BusyTypes
  <2>2. FileStep(w, p)
    BY <1>4, <2>1, BusyRows DEF InOrder
  <2>3. handled' \subseteq Items /\ handled \subseteq Items
    BY <1>4, WorkerStepTypes DEF TypeOK
  <2>4. ASSUME NEW item \in handled', GoesOnAlike(item) PROVE Settles(item)'
    <3>1. CASE item \in handled
      BY <1>4, <2>1, <2>2, <2>3, <2>4, <3>1, BusySettles DEF Settling
    <3>2. CASE item \notin handled
      BY <1>4, <2>1, <2>2, <3>2, EndSettles
    <3> QED
      BY <3>1, <3>2
  <2> QED
    BY <2>4 DEF Settling, GoesOnAlike, Items
<1> QED
  BY <1>1, <1>2, <1>3, <1>4 DEF Next, Cancel, Drainer, Return, vars, diskVars

(* A phase that was not cancelled leaves of every item whose files go on   *)
(* alike wherever they are found a success, or none of its files untried.  *)
THEOREM NoneLeftOut == Spec => []AlternativesTried
<1>1. Init => TypeOK /\ Exclusion /\ InOrder /\ Complete /\ Settling
  BY TypeInit, ExclusionInit, InOrderInit, CompleteInit DEF Init, Settling
<1>2. TypeOK /\ Exclusion /\ InOrder /\ Complete /\ Settling /\ [Next]_vars
        => (TypeOK /\ Exclusion /\ InOrder /\ Complete /\ Settling)'
  BY TypeStep, ExclusionStep, InOrderStep, CompleteStep, SettlingStep
<1>3. TypeOK /\ Exclusion /\ Complete /\ Settling => AlternativesTried
  <2> SUFFICES ASSUME TypeOK, Exclusion, Complete, Settling, result = "ok", ~cancelled,
                      NEW item \in Items, GoesOnAlike(item)
               PROVE  Settled(item)
    BY DEF AlternativesTried
  <2>1. item \in handled /\ \A w \in Worker : ~IsBusy(w)
    BY DoneIsComplete DEF Complete, ReturnIsLast, IsBusy, BusyPc
  <2>2. Won(item) \/ Lost(item)
    BY <2>1 DEF Settling, Settles, At
  <2> QED
    BY <2>2 DEF Won, Lost, Left, Settled
<1> QED
  BY <1>1, <1>2, <1>3, PTL DEF Spec
===============================================================================
