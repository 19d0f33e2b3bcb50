---------------------------- MODULE PullApks_proofs ----------------------------
(***************************************************************************)
(* Proofs about PullApks, for every set of paths, every listing, every     *)
(* number of workers and every capacity of the channel.                    *)
(***************************************************************************)
EXTENDS PullApks, SequenceTheorems, TLAPS

-------------------------------------------------------------------------------
(* What the operators of PullStatus return.                                *)

LEMMA RowTypes ==
  /\ NewRow \in Row
  /\ \A r \in Row, pl \in Place : WithHost(r, pl) \in Row
  /\ \A r \in Row, b \in BOOLEAN : Attempted(r, b) \in Row
<1>1. NewRow \in Row
  BY DEF Row, NewRow
<1>2. ASSUME NEW r \in Row, NEW pl \in Place
      PROVE  WithHost(r, pl) \in Row
  BY DEF Row, WithHost
<1>3. ASSUME NEW r \in Row, NEW b \in BOOLEAN
      PROVE  Attempted(r, b) \in Row
  BY DEF Row, Attempted
<1> QED
  BY <1>1, <1>2, <1>3

LEMMA PullTypes ==
  ASSUME NEW before \in FileState, NEW o \in PullOutcomes(before)
  PROVE  o.ok \in BOOLEAN /\ o.file \in FileState
<1>1. CASE \E f \in {before, "broken"} : o = [ok |-> FALSE, file |-> f]
  BY <1>1 DEF FileState
<1>2. CASE o = [ok |-> TRUE, file |-> "whole"]
  BY <1>2 DEF FileState
<1>3. CASE o = [ok |-> TRUE, file |-> "broken"]
  BY <1>3 DEF FileState
<1> QED
  BY <1>1, <1>2, <1>3 DEF PullOutcomes

LEMMA DecompileTypes ==
  ASSUME NEW file, NEW before \in SmaliState, NEW o \in DecompileOutcomes(file, before)
  PROVE  o.success \in BOOLEAN /\ o.smali \in SmaliState
<1>1. CASE o = [success |-> FALSE, smali |-> before]
  BY <1>1
<1>2. CASE o = [success |-> TRUE, smali |-> "all"]
  BY <1>2 DEF SmaliState
<1>3. CASE o = [success |-> FALSE, smali |-> "some"]
  BY <1>3 DEF SmaliState
<1> QED
  BY <1>1, <1>2, <1>3 DEF DecompileOutcomes

(* Writing one element of a sequence leaves a sequence over the same set.  *)
LEMMA ExceptInSeq ==
  ASSUME NEW S, NEW s \in Seq(S), NEW i, NEW v \in S
  PROVE  [s EXCEPT ![i] = v] \in Seq(S)
<1>1. CASE i \in 1 .. Len(s)
  BY <1>1, ExceptSeq
<1>2. CASE i \notin 1 .. Len(s)
  <2>1. s = [k \in 1 .. Len(s) |-> s[k]]
    OBVIOUS
  <2>2. [s EXCEPT ![i] = v] = s
    BY <1>2, <2>1
  <2> QED
    BY <2>2
<1> QED
  BY <1>1, <1>2

-------------------------------------------------------------------------------
(* Type correctness.                                                       *)

LEMMA TypeInit == Init => TypeOK
<1> SUFFICES ASSUME Init PROVE TypeOK
  OBVIOUS
<1>1. PICK d \in [Path -> StartDisk] :
        /\ rows = [p \in Path |-> d[p].rows]
        /\ copies = [p \in Path |-> d[p].copy]
        /\ smali = [p \in Path |-> d[p].smali]
  BY DEF Init, DiskInit
<1>2. \A p \in Path : d[p] \in [rows: Seq(Row), copy: [Place -> FileState], smali: SmaliState]
  BY ApksAssumption DEF Disk
<1>3. rows \in [Path -> Seq(Row)] /\ copies \in [Path -> [Place -> FileState]]
      /\ smali \in [Path -> SmaliState]
  BY <1>1, <1>2
<1>4. finder \in FinderState /\ finder.pc = "find"
  BY DEF Init, ThreadInit, FinderState, Finding
<1>5. worker \in [Worker -> WorkerState]
  BY DEF Init, ThreadInit, WorkerState, IdlePc, Idle
<1>6. chan \in Seq(Path) /\ Len(chan) <= Capacity
  BY ApksAssumption DEF Init, ThreadInit
<1>7. /\ cancelled \in BOOLEAN /\ seen \in SUBSET Path /\ tried \in SUBSET Path
      /\ result \in {"none", "ok", "err"}
  BY DEF Init, ThreadInit
<1> QED
  BY <1>3, <1>4, <1>5, <1>6, <1>7 DEF TypeOK

LEMMA ListingTypes ==
  ASSUME NEW c \in DOMAIN Listing
  PROVE  /\ Listing[c] \in Seq(Path)
         /\ c \in Nat \ {0}
         /\ Len(Listing[c]) \in Nat
         /\ \A l \in DOMAIN Listing[c] : l \in Nat \ {0} /\ Listing[c][l] \in Path
<1>1. Listing \in Seq(Seq(Path))
  BY ApksAssumption
<1>2. Listing[c] \in Seq(Path) /\ c \in Nat \ {0}
  BY <1>1
<1> QED
  BY <1>2

(* The line the finder is at, and the finder at one of the following ones. *)
LEMMA FinderTypes ==
  ASSUME TypeOK, finder.cmd \in DOMAIN Listing
  PROVE  /\ Finding(finder.cmd, finder.line + 1) \in FinderState
         /\ Finding(finder.cmd, Len(Listing[finder.cmd]) + 1) \in FinderState
         /\ Finding(finder.cmd + 1, 1) \in FinderState
         /\ finder.line \in DOMAIN Listing[finder.cmd] => CurrentLine \in Path
  BY ListingTypes DEF TypeOK, FinderState, Finding, CurrentLine

(* The states a worker goes to.                                            *)
LEMMA WorkerTypes ==
  /\ \A pc \in IdlePc : Idle(pc) \in WorkerState
  /\ \A pc \in BusyPc, p \in Path, id \in Nat, r \in Row : Busy(pc, p, id, r) \in WorkerState
  /\ \A s \in WorkerState : s.pc \in BusyPc => s.path \in Path /\ s.id \in Nat /\ s.row \in Row
  BY DEF Idle, Busy, WorkerState, IdlePc, BusyPc

LEMMA GotoTypes ==
  ASSUME TypeOK, NEW w \in Worker, NEW s \in WorkerState, Goto(w, s)
  PROVE  worker' \in [Worker -> WorkerState]
  BY DEF TypeOK, Goto

LEMMA BusyTypes ==
  ASSUME TypeOK, NEW w \in Worker, IsBusy(w)
  PROVE  worker[w].path \in Path /\ worker[w].id \in Nat /\ worker[w].row \in Row
  BY WorkerTypes DEF TypeOK, IsBusy

LEMMA FinishTypes ==
  ASSUME TypeOK, NEW w \in Worker, IsBusy(w), Finish(w)
  PROVE  worker' \in [Worker -> WorkerState] /\ tried' \in SUBSET Path
<1>1. Idle("check") \in WorkerState
  BY WorkerTypes DEF IdlePc
<1> QED
  BY <1>1, GotoTypes, BusyTypes DEF Finish, TypeOK

LEMMA HaveStatusTypes ==
  ASSUME TypeOK, NEW w \in Worker, IsBusy(w), NEW id \in Nat, NEW r \in Row,
         HaveStatus(w, id, r)
  PROVE  worker' \in [Worker -> WorkerState]
<1>1. WithHost(r, "apks") \in Row
  BY RowTypes DEF Place
<1>2. \A pc \in {"pull", "decompile"} :
        Busy(pc, worker[w].path, id, WithHost(r, "apks")) \in WorkerState
  BY <1>1, WorkerTypes, BusyTypes DEF BusyPc
<1> QED
  BY <1>2, GotoTypes DEF HaveStatus

LEMMA TypeStep == TypeOK /\ [Next]_vars => TypeOK'
<1> SUFFICES ASSUME TypeOK, [Next]_vars PROVE TypeOK'
  OBVIOUS
<1> USE ApksAssumption
<1>1. CASE Cancel
  BY <1>1 DEF Cancel, TypeOK, threadVars, diskVars
<1>2. CASE Finder
  <2>1. CASE FindLine
    <3>1. CASE CurrentLine \in seen
      <4>0. finder' = Finding(finder.cmd, finder.line + 1)
        BY <2>1, <3>1 DEF FindLine
      <4>1. finder' \in FinderState /\ finder'.pc = "find"
        BY <2>1, <4>0, FinderTypes DEF FindLine, Finding
      <4>2. finder'.pc \notin {"check", "send"}
        BY <4>1
      <4>3. UNCHANGED <<cancelled, seen, chan, worker, diskVars, result, tried>>
        BY <2>1, <3>1 DEF FindLine
      <4>4. finder'.pc \in {"check", "send"} =>
              finder'.cmd \in DOMAIN Listing /\ finder'.line \in DOMAIN Listing[finder'.cmd]
        BY <4>2, Zenon
      <4>5. /\ cancelled' = cancelled /\ seen' = seen /\ chan' = chan /\ worker' = worker
            /\ rows' = rows /\ copies' = copies /\ smali' = smali
            /\ result' = result /\ tried' = tried
        BY <4>3, Zenon DEF diskVars
      <4> HIDE ApksAssumption
      <4> QED
        BY <4>1, <4>4, <4>5, Zenon DEF TypeOK
    <3>2. CASE CurrentLine \notin seen
      BY <2>1, <3>2, FinderTypes DEF FindLine, TypeOK, FinderState, diskVars
    <3> QED
      BY <3>1, <3>2
  <2>2. CASE SendCheck
    <3>1. finder' \in FinderState
      BY <2>2, FinderTypes DEF SendCheck, TypeOK, FinderState
    <3>2. finder'.pc = "send" => finder'.cmd = finder.cmd /\ finder'.line = finder.line
      BY <2>2 DEF SendCheck, Finding, TypeOK, FinderState
    <3>3. finder'.pc # "check"
      BY <2>2 DEF SendCheck, Finding, TypeOK, FinderState
    <3> QED
      BY <2>2, <3>1, <3>2, <3>3 DEF SendCheck, TypeOK, diskVars
  <2>3. CASE Send
    <3>1. CurrentLine \in Path
      BY <2>3, FinderTypes DEF Send, TypeOK
    <3>2. chan' \in Seq(Path) /\ Len(chan') <= Capacity
      <4>1. CASE UNCHANGED chan
        BY <4>1 DEF TypeOK
      <4>2. CASE Len(chan) < Capacity /\ chan' = Append(chan, CurrentLine)
        BY <3>1, <4>2 DEF TypeOK
      <4> QED
        BY <2>3, <4>1, <4>2 DEF Send
    <3>3. /\ finder' \in FinderState
          /\ finder'.pc \in {"check", "send"} =>
                finder'.cmd = finder.cmd /\ finder'.line = finder.line
      BY <2>3, FinderTypes DEF Send, TypeOK, FinderState, Finding
    <3> QED
      BY <2>3, <3>2, <3>3 DEF Send, TypeOK, diskVars
  <2>4. CASE EndOfCommand
    <3>1. finder' \in FinderState /\ finder'.pc \notin {"check", "send"}
      BY <2>4, FinderTypes DEF EndOfCommand, TypeOK, FinderState, Finding
    <3> QED
      BY <2>4, <3>1 DEF EndOfCommand, TypeOK, diskVars
  <2>5. CASE FindDone
    BY <2>5 DEF FindDone, TypeOK, FinderState, diskVars
  <2> QED
    BY <1>2, <2>1, <2>2, <2>3, <2>4, <2>5 DEF Finder
<1>3. ASSUME NEW w \in Worker, WorkerStep(w)
      PROVE  TypeOK'
  <2>1. CASE RecvCheck(w)
    <3>1. worker' \in [Worker -> WorkerState]
      BY <2>1, WorkerTypes, GotoTypes DEF RecvCheck, IdlePc
    <3> QED
      BY <2>1, <3>1 DEF RecvCheck, TypeOK, diskVars
  <2>2. CASE Recv(w)
    <3>1. CASE chan # <<>>
      <4>1. Head(chan) \in Path /\ Tail(chan) \in Seq(Path) /\ Len(Tail(chan)) <= Capacity
        BY <3>1, HeadTailProperties DEF TypeOK
      <4>2. chan' = Tail(chan) /\ Goto(w, Busy("status", Head(chan), 0, NewRow))
        BY <2>2, <3>1 DEF Recv
      <4>3. worker' \in [Worker -> WorkerState]
        BY <4>1, <4>2, RowTypes, WorkerTypes, GotoTypes DEF BusyPc
      <4> QED
        BY <2>2, <4>1, <4>2, <4>3 DEF Recv, TypeOK, diskVars
    <3>2. CASE chan = <<>>
      <4>1. worker' \in [Worker -> WorkerState]
        BY <2>2, <3>2, WorkerTypes, GotoTypes DEF Recv, IdlePc
      <4> QED
        BY <2>2, <3>2, <4>1 DEF Recv, TypeOK, diskVars
    <3> QED
      BY <3>1, <3>2
  <2>3. CASE GetStatus(w)
    <3>1. IsBusy(w)
      BY <2>3 DEF GetStatus, IsBusy, BusyPc
    <3>2. worker' \in [Worker -> WorkerState] /\ tried' \in SUBSET Path
      <4>1. CASE Finish(w)
        BY <3>1, <4>1, FinishTypes
      <4>2. CASE Goto(w, Busy("create", worker[w].path, 0, NewRow)) /\ UNCHANGED tried
        BY <3>1, <4>2, BusyTypes, RowTypes, WorkerTypes, GotoTypes DEF BusyPc, TypeOK
      <4>3. CASE /\ HasRow(worker[w].path)
                 /\ HaveStatus(w, 1, rows[worker[w].path][1])
                 /\ UNCHANGED tried
        <5>1. rows[worker[w].path][1] \in Row
          BY <3>1, <4>3, BusyTypes DEF HasRow, TypeOK
        <5> QED
          BY <3>1, <4>3, <5>1, HaveStatusTypes DEF TypeOK
      <4> QED
        BY <2>3, <4>1, <4>2, <4>3 DEF GetStatus
    <3> QED
      BY <2>3, <3>2 DEF GetStatus, TypeOK, diskVars
  <2>4. CASE CreateStatus(w)
    <3>1. IsBusy(w)
      BY <2>4 DEF CreateStatus, IsBusy, BusyPc
    <3>2. CASE /\ rows' = [rows EXCEPT ![worker[w].path] = Append(@, NewRow)]
               /\ HaveStatus(w, Len(rows[worker[w].path]) + 1, NewRow)
               /\ UNCHANGED tried
      <4>1. rows' \in [Path -> Seq(Row)]
        BY <3>1, <3>2, BusyTypes, RowTypes DEF TypeOK
      <4>2. worker' \in [Worker -> WorkerState]
        BY <3>1, <3>2, BusyTypes, RowTypes, HaveStatusTypes DEF TypeOK
      <4> QED
        BY <2>4, <3>2, <4>1, <4>2 DEF CreateStatus, TypeOK
    <3>3. CASE Finish(w) /\ UNCHANGED rows
      BY <2>4, <3>1, <3>3, FinishTypes DEF CreateStatus, TypeOK
    <3> QED
      BY <2>4, <3>2, <3>3 DEF CreateStatus
  <2>5. CASE PullFile(w)
    <3> DEFINE p == worker[w].path
               r == worker[w].row
    <3>1. IsBusy(w)
      BY <2>5 DEF PullFile, IsBusy, BusyPc
    <3>2. p \in Path /\ r \in Row /\ worker[w].id \in Nat
      BY <3>1, BusyTypes
    <3>3. PICK o \in PullOutcomes(copies[p][r.host]) :
            /\ copies' = [copies EXCEPT ![p][r.host] = o.file]
            /\ Goto(w, IF o.ok THEN Busy("decompile", p, worker[w].id, r)
                       ELSE Busy("update", p, worker[w].id, Attempted(r, FALSE)))
      BY <2>5 DEF PullFile
    <3>4. worker' \in [Worker -> WorkerState]
      BY <3>2, <3>3, RowTypes, WorkerTypes, GotoTypes DEF BusyPc
    <3>5. copies' \in [Path -> [Place -> FileState]]
      <4>1. copies[p] \in [Place -> FileState]
        BY <3>2 DEF TypeOK
      <4>2. [copies[p] EXCEPT ![r.host] = o.file] \in [Place -> FileState]
        <5>1. CASE r.host \in Place
          BY <4>1, <5>1, PullTypes
        <5>2. CASE r.host \notin Place
          BY <4>1, <5>2
        <5> QED
          BY <5>1, <5>2
      <4> QED
        BY <3>2, <3>3, <4>2 DEF TypeOK
    <3> QED
      BY <2>5, <3>4, <3>5 DEF PullFile, TypeOK
  <2>6. CASE DecompileApk(w)
    <3> DEFINE p == worker[w].path
               r == worker[w].row
    <3>1. IsBusy(w)
      BY <2>6 DEF DecompileApk, IsBusy, BusyPc
    <3>2. p \in Path /\ r \in Row /\ worker[w].id \in Nat
      BY <3>1, BusyTypes
    <3>3. PICK o \in DecompileOutcomes(copies[p][r.host], smali[p]) :
            /\ smali' = [smali EXCEPT ![p] = o.smali]
            /\ Goto(w, Busy("update", p, worker[w].id, Attempted(r, o.success)))
      BY <2>6 DEF DecompileApk
    <3>4. o.success \in BOOLEAN /\ o.smali \in SmaliState
      BY <3>2, <3>3, DecompileTypes DEF TypeOK
    <3>5. worker' \in [Worker -> WorkerState]
      BY <3>2, <3>3, <3>4, RowTypes, WorkerTypes, GotoTypes DEF BusyPc
    <3> QED
      BY <2>6, <3>2, <3>3, <3>4, <3>5 DEF DecompileApk, TypeOK
  <2>7. CASE UpdateStatus(w)
    <3>1. IsBusy(w)
      BY <2>7 DEF UpdateStatus, IsBusy, BusyPc
    <3>2. worker' \in [Worker -> WorkerState] /\ tried' \in SUBSET Path
      BY <2>7, <3>1, FinishTypes DEF UpdateStatus
    <3>3. rows' \in [Path -> Seq(Row)]
      <4>1. rows[worker[w].path] \in Seq(Row)
        BY <3>1, BusyTypes DEF TypeOK
      <4>2. [rows[worker[w].path] EXCEPT ![worker[w].id] = worker[w].row] \in Seq(Row)
        BY <3>1, <4>1, BusyTypes, ExceptInSeq
      <4> QED
        BY <2>7, <4>2 DEF UpdateStatus, TypeOK
    <3> QED
      BY <2>7, <3>2, <3>3 DEF UpdateStatus, TypeOK
  <2> QED
    BY <1>3, <2>1, <2>2, <2>3, <2>4, <2>5, <2>6, <2>7 DEF WorkerStep
<1>4. CASE Return
  BY <1>4 DEF Return, TypeOK, threadVars, diskVars, Connected, FinderState
<1>5. CASE UNCHANGED vars
  BY <1>5 DEF vars, TypeOK
<1> QED
  BY <1>1, <1>2, <1>3, <1>4, <1>5 DEF Next

(* Every state of pull_apks is well typed: its threads, its channel within *)
(* its bound, the rows and the copies of every path.                       *)
THEOREM Typing == Spec => []TypeOK
<1>1. Init => TypeOK
  BY TypeInit
<1>2. TypeOK /\ [Next]_vars => TypeOK'
  BY TypeStep
<1> QED
  BY <1>1, <1>2, PTL DEF Spec

-------------------------------------------------------------------------------
(* No path is handled by two workers.  The invariant is not inductive on   *)
(* its own: what keeps the finder from sending a path again is its set of  *)
(* seen paths, which must cover every path that was sent.                  *)

Exclusion == OneWorkerPerPath /\ SeenCovers

LEMMA ExclusionInit == Init => Exclusion
<1> SUFFICES ASSUME Init PROVE Exclusion
  OBVIOUS
<1>1. \A w \in Worker : ~IsBusy(w)
  BY DEF Init, ThreadInit, Idle, IsBusy, BusyPc
<1>2. BusyPaths = {}
  BY <1>1 DEF BusyPaths
<1>3. chan = <<>> /\ tried = {} /\ InChan = {} /\ finder.pc = "find"
  BY DEF Init, ThreadInit, InChan, Finding
<1> QED
  BY <1>1, <1>2, <1>3 DEF Exclusion, OneWorkerPerPath, SeenCovers

(* A step of a worker on the path it has.                                  *)
LEMMA SamePath ==
  ASSUME Exclusion, UNCHANGED <<finder, seen, chan, tried>>,
         \A v \in Worker : /\ worker'[v].pc \in BusyPc <=> IsBusy(v)
                           /\ IsBusy(v) => worker'[v].path = worker[v].path
  PROVE  Exclusion'
<1>1. \A v \in Worker : IsBusy(v)' <=> IsBusy(v)
  BY DEF IsBusy, BusyPc
<1>2. BusyPaths' = BusyPaths
  <2>1. \A q : q \in BusyPaths' <=> \E v \in Worker : IsBusy(v)' /\ q = worker'[v].path
    BY DEF BusyPaths
  <2>2. \A q : q \in BusyPaths <=> \E v \in Worker : IsBusy(v) /\ q = worker[v].path
    BY DEF BusyPaths
  <2> QED
    BY <1>1, <2>1, <2>2
<1>3. chan' = chan /\ tried' = tried /\ seen' = seen /\ finder' = finder
  OBVIOUS
<1>4. InChan' = InChan /\ CurrentLine' = CurrentLine
  BY <1>3 DEF InChan, CurrentLine
<1>5. OneWorkerPerPath'
  <2>1. \A u, v \in Worker :
          u # v /\ IsBusy(u)' /\ IsBusy(v)' => worker'[u].path # worker'[v].path
    BY <1>1 DEF Exclusion, OneWorkerPerPath
  <2> QED
    BY <1>2, <1>3, <1>4, <2>1 DEF Exclusion, OneWorkerPerPath
<1>6. SeenCovers'
  BY <1>2, <1>3, <1>4 DEF Exclusion, SeenCovers
<1> QED
  BY <1>5, <1>6 DEF Exclusion

LEMMA GotoSamePath ==
  ASSUME TypeOK, Exclusion, UNCHANGED <<finder, seen, chan, tried>>,
         NEW w \in Worker, NEW s, Goto(w, s),
         s.pc \in BusyPc <=> IsBusy(w),
         IsBusy(w) => s.path = worker[w].path
  PROVE  Exclusion'
<1>1. \A v \in Worker : worker'[v] = IF v = w THEN s ELSE worker[v]
  BY DEF Goto, TypeOK
<1> QED
  BY <1>1, SamePath DEF IsBusy

(* A worker is done with its path.                                         *)
LEMMA FinishedPath ==
  ASSUME TypeOK, Exclusion, UNCHANGED <<finder, seen, chan>>,
         NEW w \in Worker, IsBusy(w), Finish(w)
  PROVE  Exclusion'
<1> DEFINE p == worker[w].path
<1>1. \A v \in Worker : worker'[v] = IF v = w THEN Idle("check") ELSE worker[v]
  BY DEF Finish, Goto, TypeOK
<1>2. \A v \in Worker : IsBusy(v)' <=> v # w /\ IsBusy(v)
  BY <1>1 DEF IsBusy, Idle, BusyPc
<1>3. \A v \in Worker : IsBusy(v)' => worker'[v].path = worker[v].path /\ worker[v].path # p
  BY <1>1, <1>2 DEF Exclusion, OneWorkerPerPath
<1>4. p \in BusyPaths /\ BusyPaths' = BusyPaths \ {p}
  BY <1>1, <1>2, <1>3 DEF BusyPaths
<1>5. tried' = tried \cup {p} /\ InChan' = InChan /\ CurrentLine' = CurrentLine
  BY DEF Finish, InChan, CurrentLine
<1>6. OneWorkerPerPath'
  BY <1>2, <1>3, <1>4, <1>5 DEF Exclusion, OneWorkerPerPath
<1>7. SeenCovers'
  BY <1>4, <1>5 DEF Exclusion, SeenCovers
<1> QED
  BY <1>6, <1>7 DEF Exclusion

(* A worker receives the head of the channel.                              *)
LEMMA ReceivedPath ==
  ASSUME TypeOK, Exclusion, UNCHANGED <<finder, seen, tried>>, chan # <<>>,
         NEW w \in Worker, ~IsBusy(w), chan' = Tail(chan),
         Goto(w, Busy("status", Head(chan), 0, NewRow))
  PROVE  Exclusion'
<1> DEFINE p == Head(chan)
<1>1. \A v \in Worker :
        worker'[v] = IF v = w THEN Busy("status", p, 0, NewRow) ELSE worker[v]
  BY DEF Goto, TypeOK
<1>2. \A v \in Worker : IsBusy(v)' <=> v = w \/ IsBusy(v)
  BY <1>1 DEF IsBusy, Busy, BusyPc
<1>3. worker'[w].path = p /\ \A v \in Worker \ {w} : worker'[v].path = worker[v].path
  BY <1>1 DEF Busy
<1>4. BusyPaths' = BusyPaths \cup {p}
  BY <1>2, <1>3 DEF BusyPaths
<1>5. /\ chan \in Seq(Path) /\ Tail(chan) \in Seq(Path)
      /\ Len(Tail(chan)) = Len(chan) - 1
      /\ \A i \in 1 .. Len(Tail(chan)) : Tail(chan)[i] = chan[i + 1]
      /\ p = chan[1]
  BY HeadTailProperties DEF TypeOK
<1>6. \A i \in DOMAIN chan' : i + 1 \in DOMAIN chan /\ chan'[i] = chan[i + 1]
  BY <1>5
<1>7. 1 \in DOMAIN chan
  BY <1>5
<1>8. p \in InChan /\ InChan' \subseteq InChan \ {p}
  BY <1>5, <1>6, <1>7 DEF InChan, Exclusion, OneWorkerPerPath
<1>9. \A i, j \in DOMAIN chan' : i # j => chan'[i] # chan'[j]
  BY <1>5, <1>6 DEF Exclusion, OneWorkerPerPath
<1>10. OneWorkerPerPath'
  <2>1. \A v \in Worker : IsBusy(v) => worker[v].path # p
    BY <1>8 DEF Exclusion, OneWorkerPerPath, BusyPaths
  <2>2. \A u, v \in Worker :
          u # v /\ IsBusy(u)' /\ IsBusy(v)' => worker'[u].path # worker'[v].path
    BY <1>2, <1>3, <2>1 DEF Exclusion, OneWorkerPerPath
  <2> QED
    BY <1>4, <1>8, <1>9, <2>2 DEF Exclusion, OneWorkerPerPath
<1>11. SeenCovers'
  BY <1>4, <1>8 DEF Exclusion, SeenCovers, CurrentLine
<1> QED
  BY <1>10, <1>11 DEF Exclusion

(* The finder or the user acts: no worker, no attempt, perhaps the finder. *)
LEMMA OtherSteps ==
  ASSUME TypeOK, Exclusion, UNCHANGED <<worker, tried>>
  PROVE  /\ \A v \in Worker : IsBusy(v)' <=> IsBusy(v)
         /\ BusyPaths' = BusyPaths
  BY DEF IsBusy, BusyPaths

(* The finder sends the path it remembered.                                *)
LEMMA SentPath ==
  ASSUME TypeOK, Exclusion, finder.pc = "send", finder'.pc = "find",
         chan' = Append(chan, CurrentLine), UNCHANGED <<seen, worker, tried>>
  PROVE  Exclusion'
<1> DEFINE p == CurrentLine
<1>1. BusyPaths' = BusyPaths /\ \A v \in Worker : IsBusy(v)' <=> IsBusy(v)
  BY OtherSteps
<1>2. p \in seen /\ p \notin InChan \cup BusyPaths \cup tried
  BY DEF Exclusion, SeenCovers
<1>3. chan \in Seq(Path) /\ p \in Path
  <2>1. finder.cmd \in DOMAIN Listing /\ finder.line \in DOMAIN Listing[finder.cmd]
    BY DEF TypeOK
  <2>2. Listing[finder.cmd] \in Seq(Path)
    BY <2>1, ElementOfSeq, ApksAssumption
  <2> QED
    BY <2>1, <2>2, ElementOfSeq DEF TypeOK, CurrentLine
<1>4. /\ DOMAIN chan = 1 .. Len(chan) /\ Len(chan) \in Nat
      /\ DOMAIN chan' = 1 .. Len(chan) + 1
      /\ \A i \in 1 .. Len(chan) : chan'[i] = chan[i]
      /\ chan'[Len(chan) + 1] = p
  BY <1>3, AppendProperties
<1>5. InChan' = InChan \cup {p}
  BY <1>4 DEF InChan
<1>6. \A i, j \in DOMAIN chan' : i # j => chan'[i] # chan'[j]
  <2>1. \A i \in 1 .. Len(chan) : chan[i] # p
    BY <1>2, <1>4 DEF InChan
  <2> QED
    BY <1>4, <2>1 DEF Exclusion, OneWorkerPerPath
<1>7. OneWorkerPerPath'
  BY <1>1, <1>2, <1>5, <1>6 DEF Exclusion, OneWorkerPerPath
<1>8. SeenCovers'
  BY <1>1, <1>2, <1>5 DEF Exclusion, SeenCovers
<1> QED
  BY <1>7, <1>8 DEF Exclusion

(* A step that sends nothing and after which the finder is not sending.    *)
LEMMA NothingSent ==
  ASSUME TypeOK, Exclusion, UNCHANGED <<seen, chan, worker, tried>>,
         \/ UNCHANGED finder
         \/ finder'.pc \notin {"check", "send"}
         \/ /\ finder.pc \in {"check", "send"}
            /\ finder'.cmd = finder.cmd /\ finder'.line = finder.line
  PROVE  Exclusion'
<1>1. BusyPaths' = BusyPaths /\ \A v \in Worker : IsBusy(v)' <=> IsBusy(v)
  BY OtherSteps
<1>2. InChan' = InChan
  BY DEF InChan
<1>3. OneWorkerPerPath'
  BY <1>1, <1>2 DEF Exclusion, OneWorkerPerPath
<1>4. finder'.pc \in {"check", "send"} =>
        finder.pc \in {"check", "send"} /\ CurrentLine' = CurrentLine
  BY DEF CurrentLine
<1>5. SeenCovers'
  BY <1>1, <1>2, <1>4 DEF Exclusion, SeenCovers
<1> QED
  BY <1>3, <1>5 DEF Exclusion

LEMMA FinderExclusion == TypeOK /\ Exclusion /\ Finder => Exclusion'
<1> SUFFICES ASSUME TypeOK, Exclusion, Finder PROVE Exclusion'
  OBVIOUS
<1>0. finder \in FinderState
  BY DEF TypeOK
<1>1. CASE FindLine /\ CurrentLine \in seen
  BY <1>1, NothingSent DEF FindLine, Finding
<1>2. CASE FindLine /\ CurrentLine \notin seen
  <2>1. /\ finder'.pc = "check" /\ CurrentLine' = CurrentLine
        /\ seen' = seen \cup {CurrentLine}
        /\ UNCHANGED <<chan, worker, tried>>
    BY <1>0, <1>2 DEF FindLine, CurrentLine, FinderState
  <2>2. BusyPaths' = BusyPaths /\ \A v \in Worker : IsBusy(v)' <=> IsBusy(v)
    BY <2>1, OtherSteps
  <2>3. InChan' = InChan
    BY <2>1 DEF InChan
  <2>4. OneWorkerPerPath'
    BY <2>1, <2>2, <2>3 DEF Exclusion, OneWorkerPerPath
  <2>5. SeenCovers'
    BY <1>2, <2>1, <2>2, <2>3 DEF Exclusion, SeenCovers
  <2> QED
    BY <2>4, <2>5 DEF Exclusion
<1>3. CASE SendCheck
  BY <1>0, <1>3, NothingSent DEF SendCheck, Finding, FinderState
<1>4. CASE Send /\ Len(chan) < Capacity
  BY <1>4, SentPath DEF Send, Finding, TypeOK
<1>5. CASE Send /\ Len(chan) = Capacity
  BY <1>0, <1>5, NothingSent DEF Send, FinderState, ApksAssumption
<1>6. CASE EndOfCommand
  BY <1>0, <1>6, NothingSent DEF EndOfCommand, Finding, FinderState
<1>7. CASE FindDone
  BY <1>0, <1>7, NothingSent DEF FindDone, FinderState
<1> QED
  BY <1>1, <1>2, <1>3, <1>4, <1>5, <1>6, <1>7 DEF Finder, Send, FindLine

LEMMA WorkerExclusion ==
  ASSUME TypeOK, Exclusion, NEW w \in Worker, WorkerStep(w)
  PROVE  Exclusion'
<1>1. CASE RecvCheck(w)
  BY <1>1, GotoSamePath DEF RecvCheck, IsBusy, Idle, BusyPc
<1>2. CASE Recv(w) /\ chan # <<>>
  BY <1>2, ReceivedPath DEF Recv, IsBusy, BusyPc
<1>3. CASE Recv(w) /\ chan = <<>>
  BY <1>3, GotoSamePath DEF Recv, IsBusy, Idle, BusyPc
<1>4. CASE GetStatus(w)
  <2>1. IsBusy(w)
    BY <1>4 DEF GetStatus, IsBusy, BusyPc
  <2>2. CASE Finish(w)
    BY <1>4, <2>1, <2>2, FinishedPath DEF GetStatus
  <2>3. CASE ~Finish(w)
    BY <1>4, <2>1, <2>3, GotoSamePath DEF GetStatus, HaveStatus, Busy, BusyPc
  <2> QED
    BY <2>2, <2>3
<1>5. CASE CreateStatus(w)
  <2>1. IsBusy(w)
    BY <1>5 DEF CreateStatus, IsBusy, BusyPc
  <2>2. CASE Finish(w)
    BY <1>5, <2>1, <2>2, FinishedPath DEF CreateStatus
  <2>3. CASE ~Finish(w)
    BY <1>5, <2>1, <2>3, GotoSamePath DEF CreateStatus, HaveStatus, Busy, BusyPc
  <2> QED
    BY <2>2, <2>3
<1>6. CASE PullFile(w)
  BY <1>6, GotoSamePath DEF PullFile, IsBusy, Busy, BusyPc
<1>7. CASE DecompileApk(w)
  BY <1>7, GotoSamePath DEF DecompileApk, IsBusy, Busy, BusyPc
<1>8. CASE UpdateStatus(w)
  BY <1>8, FinishedPath DEF UpdateStatus, IsBusy, BusyPc
<1> QED
  BY <1>1, <1>2, <1>3, <1>4, <1>5, <1>6, <1>7, <1>8 DEF WorkerStep, Recv

LEMMA ExclusionStep == TypeOK /\ Exclusion /\ [Next]_vars => Exclusion'
<1> SUFFICES ASSUME TypeOK, Exclusion, [Next]_vars PROVE Exclusion'
  OBVIOUS
<1>1. CASE Cancel
  BY <1>1, NothingSent DEF Cancel, threadVars
<1>2. CASE Finder
  BY <1>2, FinderExclusion
<1>3. CASE \E w \in Worker : WorkerStep(w)
  BY <1>3, WorkerExclusion
<1>4. CASE Return
  BY <1>4, NothingSent DEF Return, threadVars
<1>5. CASE UNCHANGED vars
  BY <1>5, NothingSent DEF vars
<1> QED
  BY <1>1, <1>2, <1>3, <1>4, <1>5 DEF Next

(* Whatever the listings, the channel bound and the pool size: no two      *)
(* workers are ever on one path, and no path is queued or worked on twice. *)
THEOREM OneWorker == Spec => []OneWorkerPerPath
<1>1. Init => Exclusion
  BY ExclusionInit
<1>2. TypeOK /\ Exclusion /\ [Next]_vars => Exclusion'
  BY ExclusionStep
<1>3. Exclusion => OneWorkerPerPath
  BY DEF Exclusion
<1> QED
  BY <1>1, <1>2, <1>3, Typing, PTL DEF Spec

-------------------------------------------------------------------------------
(* A success that is recorded is a success.  Why: a worker past the lookup *)
(* of its row holds a path that is not decompiled, nobody else changes the *)
(* rows or the smali of that path meanwhile (OneWorkerPerPath), and the    *)
(* row it is about to write says decompiled only over a whole smali tree.  *)

HeldIsOpen ==
  \A w \in Worker :
    IsBusy(w) /\ worker[w].pc # "status" => ~IsDecompiled(worker[w].path)

HeldIsReal ==
  \A w \in Worker :
    worker[w].pc = "update" /\ worker[w].row.decompiled =>
      smali[worker[w].path] = "all"

Honest == DecompiledIsReal /\ HeldIsOpen /\ HeldIsReal

(* IsDecompiled after the step, of a path named before it.                 *)
NowDecompiled(p) == rows'[p] # <<>> /\ rows'[p][1].decompiled

LEMMA HonestInit == Init => Honest
<1> SUFFICES ASSUME Init PROVE Honest
  OBVIOUS
<1>1. \A w \in Worker : ~IsBusy(w) /\ worker[w].pc # "update"
  BY DEF Init, ThreadInit, Idle, IsBusy, BusyPc
<1>2. DecompiledIsReal
  <2>1. PICK d \in [Path -> StartDisk] :
          /\ rows = [p \in Path |-> d[p].rows]
          /\ smali = [p \in Path |-> d[p].smali]
    BY DEF Init, DiskInit
  <2>2. \A p \in Path : d[p] \in Disk
    BY <2>1, ApksAssumption
  <2>3. \A p \in Path :
          d[p].rows # <<>> /\ d[p].rows[1].decompiled => d[p].smali = "all"
    BY <2>2 DEF Disk
  <2> QED
    BY <2>1, <2>3 DEF DecompiledIsReal, IsDecompiled, HasRow
<1> QED
  BY <1>1, <1>2 DEF Honest, HeldIsOpen, HeldIsReal

(* A step that changes no row and no smali, and after which every worker   *)
(* holds what it held or has just looked a row up.                         *)
LEMMA RowsKept ==
  ASSUME Honest, UNCHANGED <<rows, smali>>,
         \A v \in Worker :
           \/ worker'[v] = worker[v]
           \/ worker'[v].pc \notin BusyPc
           \/ worker'[v].pc = "status"
           \/ /\ worker'[v].pc \in {"create", "pull", "decompile"}
              /\ ~IsDecompiled(worker'[v].path)
           \/ /\ worker'[v].pc = "update" /\ ~worker'[v].row.decompiled
              /\ ~IsDecompiled(worker'[v].path)
  PROVE  Honest' /\ \A p \in Path : IsDecompiled(p) => IsDecompiled(p)'
<1>1. \A p : IsDecompiled(p)' <=> IsDecompiled(p)
  BY DEF IsDecompiled, HasRow
<1>2. DecompiledIsReal'
  BY <1>1 DEF Honest, DecompiledIsReal
<1>3. HeldIsOpen'
  BY <1>1 DEF Honest, HeldIsOpen, IsBusy, BusyPc
<1>4. HeldIsReal'
  BY DEF Honest, HeldIsReal, BusyPc
<1> QED
  BY <1>1, <1>2, <1>3, <1>4 DEF Honest

LEMMA GotoRowsKept ==
  ASSUME TypeOK, Honest, UNCHANGED <<rows, smali>>,
         NEW w \in Worker, NEW s, Goto(w, s),
         \/ s.pc \notin BusyPc
         \/ s.pc = "status"
         \/ s.pc \in {"create", "pull", "decompile"} /\ ~IsDecompiled(s.path)
         \/ s.pc = "update" /\ ~s.row.decompiled /\ ~IsDecompiled(s.path)
  PROVE  Honest' /\ \A p \in Path : IsDecompiled(p) => IsDecompiled(p)'
<1>1. \A v \in Worker : worker'[v] = IF v = w THEN s ELSE worker[v]
  BY DEF Goto, TypeOK
<1> QED
  BY <1>1, RowsKept

(* A worker changes the rows or the smali of the path it holds, which was  *)
(* not decompiled: what it leaves must be honest, the rest is untouched.   *)
LEMMA HeldChanges ==
  ASSUME TypeOK, OneWorkerPerPath, Honest,
         NEW w \in Worker, IsBusy(w), worker[w].pc # "status",
         NEW s, Goto(w, s),
         \A p \in Path \ {worker[w].path} :
           rows'[p] = rows[p] /\ smali'[p] = smali[p],
         NowDecompiled(worker[w].path) => smali'[worker[w].path] = "all",
         \/ s.pc \notin BusyPc
         \/ s.pc \in BusyPc /\ s.path = worker[w].path
              /\ ~NowDecompiled(worker[w].path)
              /\ (s.pc = "update" /\ s.row.decompiled =>
                    smali'[worker[w].path] = "all")
  PROVE  Honest' /\ \A p \in Path : IsDecompiled(p) => IsDecompiled(p)'
<1> DEFINE q == worker[w].path
<1>1. \A v \in Worker : worker'[v] = IF v = w THEN s ELSE worker[v]
  BY DEF Goto, TypeOK
<1>2. \A v \in Worker \ {w} : IsBusy(v) => worker[v].path \in Path \ {q}
  BY BusyTypes DEF OneWorkerPerPath
<1>3. \A p \in Path \ {q} : NowDecompiled(p) <=> IsDecompiled(p)
  BY DEF NowDecompiled, IsDecompiled, HasRow
<1>8. \A p : IsDecompiled(p)' <=> NowDecompiled(p)
  BY DEF NowDecompiled, IsDecompiled, HasRow
<1>4. ~IsDecompiled(q)
  BY DEF Honest, HeldIsOpen
<1>5. DecompiledIsReal'
  BY <1>3, <1>8 DEF Honest, DecompiledIsReal
<1>6. HeldIsOpen'
  <2> SUFFICES ASSUME NEW v \in Worker,
                      worker'[v].pc \in BusyPc, worker'[v].pc # "status"
               PROVE  ~NowDecompiled(worker'[v].path)
    BY DEF HeldIsOpen, IsBusy, BusyPc, NowDecompiled, IsDecompiled, HasRow
  <2>1. CASE v = w
    BY <1>1, <2>1
  <2>2. CASE v # w
    <3>1. worker'[v] = worker[v] /\ IsBusy(v)
      BY <1>1, <2>2 DEF IsBusy
    <3> QED
      BY <1>2, <1>3, <2>2, <3>1 DEF Honest, HeldIsOpen
  <2> QED
    BY <2>1, <2>2
<1>7. HeldIsReal'
  <2> SUFFICES ASSUME NEW v \in Worker,
                      worker'[v].pc = "update", worker'[v].row.decompiled
               PROVE  smali'[worker'[v].path] = "all"
    BY DEF HeldIsReal
  <2>1. CASE v = w
    BY <1>1, <2>1 DEF BusyPc
  <2>2. CASE v # w
    <3>1. worker'[v] = worker[v] /\ IsBusy(v)
      BY <1>1, <2>2 DEF IsBusy, BusyPc
    <3> QED
      BY <1>2, <2>2, <3>1 DEF Honest, HeldIsReal
  <2> QED
    BY <2>1, <2>2
<1> QED
  BY <1>3, <1>8, <1>4, <1>5, <1>6, <1>7 DEF Honest

LEMMA WorkerHonest ==
  ASSUME TypeOK, OneWorkerPerPath, Honest, NEW w \in Worker, WorkerStep(w)
  PROVE  Honest' /\ \A p \in Path : IsDecompiled(p) => IsDecompiled(p)'
<1> DEFINE p == worker[w].path
<1>1. CASE RecvCheck(w)
  BY <1>1, GotoRowsKept DEF RecvCheck, Idle, BusyPc, diskVars
<1>2. CASE Recv(w)
  BY <1>2, GotoRowsKept DEF Recv, Idle, Busy, BusyPc, diskVars
<1>3. CASE GetStatus(w)
  <2>1. CASE Finish(w)
    BY <1>3, <2>1, GotoRowsKept DEF GetStatus, Finish, Idle, BusyPc, diskVars
  <2>2. CASE ~Finish(w)
    <3>1. ~IsDecompiled(p)
      BY <1>3, <2>2 DEF GetStatus, IsDecompiled, ShouldDecompile
    <3> QED
      BY <1>3, <2>2, <3>1, GotoRowsKept DEF GetStatus, HaveStatus, Busy, diskVars
  <2> QED
    BY <2>1, <2>2
<1>4. CASE CreateStatus(w)
  <2>0. p \in Path /\ IsBusy(w) /\ rows[p] \in Seq(Row)
    BY <1>4, BusyTypes DEF CreateStatus, IsBusy, BusyPc, TypeOK
  <2>1. CASE Finish(w) /\ UNCHANGED rows
    BY <1>4, <2>1, GotoRowsKept DEF CreateStatus, Finish, Idle, BusyPc
  <2>2. CASE /\ rows' = [rows EXCEPT ![p] = Append(@, NewRow)]
             /\ HaveStatus(w, Len(rows[p]) + 1, NewRow)
    <3>1. /\ rows' = [rows EXCEPT ![p] = Append(@, NewRow)]
          /\ HaveStatus(w, Len(rows[p]) + 1, NewRow)
          /\ UNCHANGED smali
      BY <1>4, <2>2 DEF CreateStatus
    <3>2. rows'[p] = Append(rows[p], NewRow)
          /\ \A q \in Path \ {p} : rows'[q] = rows[q]
      BY <2>0, <3>1 DEF TypeOK
    <3>3. ~IsDecompiled(p)
      BY <1>4, <2>0 DEF CreateStatus, Honest, HeldIsOpen
    <3>4. ~NowDecompiled(p)
      <4>1. CASE rows[p] = <<>>
        BY <3>2, <4>1 DEF NowDecompiled, NewRow
      <4>2. CASE rows[p] # <<>>
        <5>1. Append(rows[p], NewRow)[1] = rows[p][1]
          BY <2>0, <4>2, RowTypes, AppendProperties
        <5> QED
          BY <3>2, <3>3, <4>2, <5>1 DEF NowDecompiled, IsDecompiled, HasRow
      <4> QED
        BY <4>1, <4>2
    <3>5. PICK s : /\ Goto(w, s) /\ s.pc \in {"pull", "decompile"} /\ s.path = p
      BY <3>1 DEF HaveStatus, Busy
    <3> QED
      BY <1>4, <2>0, <3>1, <3>2, <3>4, <3>5, HeldChanges DEF CreateStatus, BusyPc
  <2> QED
    BY <1>4, <2>1, <2>2 DEF CreateStatus
<1>5. CASE PullFile(w)
  <2>1. IsBusy(w) /\ ~IsDecompiled(p)
    BY <1>5 DEF PullFile, IsBusy, BusyPc, Honest, HeldIsOpen
  <2>2. PICK s : /\ Goto(w, s) /\ s.path = p
                 /\ \/ s.pc = "decompile"
                    \/ s.pc = "update" /\ ~s.row.decompiled
    BY <1>5 DEF PullFile, Busy, Attempted
  <2> QED
    BY <1>5, <2>1, <2>2, GotoRowsKept DEF PullFile
<1>6. CASE DecompileApk(w)
  <2>1. IsBusy(w) /\ ~IsDecompiled(p) /\ p \in Path
    BY <1>6, BusyTypes DEF DecompileApk, IsBusy, BusyPc, Honest, HeldIsOpen
  <2>2. PICK o \in DecompileOutcomes(copies[p][worker[w].row.host], smali[p]) :
          /\ smali' = [smali EXCEPT ![p] = o.smali]
          /\ Goto(w, Busy("update", p, worker[w].id,
                          Attempted(worker[w].row, o.success)))
    BY <1>6 DEF DecompileApk
  <2>3. o.success => o.smali = "all"
    BY <2>2 DEF DecompileOutcomes
  <2>4. smali'[p] = o.smali /\ \A q \in Path \ {p} : smali'[q] = smali[q]
    BY <2>1, <2>2 DEF TypeOK
  <2>5. rows' = rows /\ ~NowDecompiled(p)
    BY <1>6, <2>1 DEF DecompileApk, NowDecompiled, IsDecompiled, HasRow
  <2>6. PICK s : /\ Goto(w, s) /\ s.pc = "update" /\ s.path = p
                 /\ s.row.decompiled => smali'[p] = "all"
    BY <2>2, <2>3, <2>4 DEF Busy, Attempted
  <2> QED
    BY <1>6, <2>1, <2>4, <2>5, <2>6, HeldChanges DEF DecompileApk, BusyPc
<1>7. CASE UpdateStatus(w)
  <2>1. /\ IsBusy(w) /\ ~IsDecompiled(p) /\ p \in Path
        /\ rows[p] \in Seq(Row) /\ smali' = smali
        /\ Goto(w, Idle("check"))
    BY <1>7, BusyTypes
    DEF UpdateStatus, Finish, IsBusy, BusyPc, Honest, HeldIsOpen, TypeOK
  <2>2. CASE rows' = rows
    BY <2>1, <2>2, GotoRowsKept DEF Idle, BusyPc
  <2>3. CASE rows' = [rows EXCEPT ![p][worker[w].id] = worker[w].row]
    <3>1. rows'[p] = [rows[p] EXCEPT ![worker[w].id] = worker[w].row]
          /\ \A q \in Path \ {p} : rows'[q] = rows[q]
      BY <2>1, <2>3 DEF TypeOK
    <3>2. NowDecompiled(p) => smali'[p] = "all"
      <4> SUFFICES ASSUME rows'[p] # <<>>, rows'[p][1].decompiled
                   PROVE  smali[p] = "all"
        BY <2>1 DEF NowDecompiled
      <4>1. rows[p] # <<>>
        BY <2>1, <3>1
      <4>2. 1 \in DOMAIN rows[p]
        BY <2>1, <4>1
      <4>3. rows'[p][1] = worker[w].row \/ rows'[p][1] = rows[p][1]
        BY <3>1, <4>2
      <4>4. worker[w].row.decompiled
        BY <2>1, <4>1, <4>3 DEF IsDecompiled, HasRow
      <4> QED
        BY <1>7, <4>4 DEF UpdateStatus, Honest, HeldIsReal
    <3> QED
      BY <1>7, <2>1, <3>1, <3>2, HeldChanges DEF UpdateStatus, Idle, BusyPc
  <2> QED
    BY <1>7, <2>2, <2>3 DEF UpdateStatus
<1> QED
  BY <1>1, <1>2, <1>3, <1>4, <1>5, <1>6, <1>7 DEF WorkerStep

LEMMA HonestStep ==
  TypeOK /\ OneWorkerPerPath /\ Honest /\ [Next]_vars =>
    Honest' /\ \A p \in Path : IsDecompiled(p) => IsDecompiled(p)'
<1> SUFFICES ASSUME TypeOK, OneWorkerPerPath, Honest, [Next]_vars
             PROVE  Honest' /\ \A p \in Path : IsDecompiled(p) => IsDecompiled(p)'
  OBVIOUS
<1>1. CASE Cancel
  BY <1>1, RowsKept DEF Cancel, threadVars, diskVars
<1>2. CASE Finder
  BY <1>2, RowsKept
  DEF Finder, FindLine, SendCheck, Send, EndOfCommand, FindDone, diskVars
<1>3. CASE \E w \in Worker : WorkerStep(w)
  BY <1>3, WorkerHonest
<1>4. CASE Return
  BY <1>4, RowsKept DEF Return, threadVars, diskVars
<1>5. CASE UNCHANGED vars
  BY <1>5, RowsKept DEF vars
<1> QED
  BY <1>1, <1>2, <1>3, <1>4, <1>5 DEF Next

(* A row that says decompiled has all the smali of its APK in place,       *)
(* whatever failed, was cancelled or was left by earlier runs.             *)
THEOREM NoFalseSuccess == Spec => []DecompiledIsReal
<1>1. Init => Honest
  BY HonestInit
<1>2. TypeOK /\ OneWorkerPerPath /\ Honest /\ [Next]_vars => Honest'
  BY HonestStep
<1>3. Honest => DecompiledIsReal
  BY DEF Honest
<1> QED
  BY <1>1, <1>2, <1>3, Typing, OneWorker, PTL DEF Spec

(* No step takes a recorded success back.                                  *)
THEOREM SuccessIsFinal == Spec => StaysDecompiled
<1>1. Init => Honest
  BY HonestInit
<1>2. TypeOK /\ OneWorkerPerPath /\ Honest /\ [Next]_vars => Honest'
  BY HonestStep
<1>3. TypeOK /\ OneWorkerPerPath /\ Honest /\ [Next]_vars =>
        [\A p \in Path : IsDecompiled(p) => IsDecompiled(p)']_vars
  BY HonestStep
<1> QED
  BY <1>1, <1>2, <1>3, Typing, OneWorker, PTL DEF Spec, StaysDecompiled

-------------------------------------------------------------------------------
(* pull_apks does what a phase of a pull promises: every step of its       *)
(* finder, its channel and its workers is a step of PullWork or none.      *)

WorkSafety == Work!Init /\ [][Work!Next]_(Work!workVars)

-------------------------------------------------------------------------------
(* What a step of a worker is in PullWork.                                 *)

Sent == InChan \cup BusyPaths \cup tried

Stays ==
  BusyPaths' = BusyPaths /\ tried' = tried /\ InChan' = InChan

Takes(p) ==
  /\ p \in InChan \ (BusyPaths \cup tried)
  /\ BusyPaths' = BusyPaths \cup {p} /\ tried' = tried
  /\ InChan \subseteq InChan' \cup {p}

Ends(p) ==
  /\ p \in BusyPaths
  /\ BusyPaths' = BusyPaths \ {p} /\ tried' = tried \cup {p}
  /\ InChan' = InChan

Moves == Stays \/ (\E p \in Path : Takes(p)) \/ (\E p \in Path : Ends(p))

LEMMA StaysWithPath ==
  ASSUME TypeOK, UNCHANGED <<chan, tried>>, NEW w \in Worker, NEW s, Goto(w, s),
         s.pc \in BusyPc <=> IsBusy(w),
         IsBusy(w) => s.path = worker[w].path
  PROVE  Stays
<1>1. \A v \in Worker : worker'[v] = IF v = w THEN s ELSE worker[v]
  BY DEF Goto, TypeOK
<1>2. \A v \in Worker : IsBusy(v)' <=> IsBusy(v)
  BY <1>1 DEF IsBusy, BusyPc
<1>3. \A v \in Worker : IsBusy(v) => worker'[v].path = worker[v].path
  BY <1>1
<1>4. BusyPaths' = BusyPaths
  <2>1. \A q : q \in BusyPaths' <=> \E v \in Worker : IsBusy(v)' /\ q = worker'[v].path
    BY DEF BusyPaths
  <2>2. \A q : q \in BusyPaths <=> \E v \in Worker : IsBusy(v) /\ q = worker[v].path
    BY DEF BusyPaths
  <2>3. ASSUME NEW q \in BusyPaths' PROVE q \in BusyPaths
    <3>1. PICK v \in Worker : IsBusy(v)' /\ q = worker'[v].path
      BY <2>1, <2>3, Zenon
    <3>2. IsBusy(v) /\ q = worker[v].path
      BY <1>2, <1>3, <3>1, Zenon
    <3> QED
      BY <2>2, <3>2, Zenon
  <2>4. ASSUME NEW q \in BusyPaths PROVE q \in BusyPaths'
    <3>1. PICK v \in Worker : IsBusy(v) /\ q = worker[v].path
      BY <2>2, <2>4, Zenon
    <3>2. IsBusy(v)' /\ q = worker'[v].path
      BY <1>2, <1>3, <3>1, Zenon
    <3> QED
      BY <2>1, <3>2, Zenon
  <2>5. \A q : q \in BusyPaths' <=> q \in BusyPaths
    BY <2>3, <2>4, Zenon
  <2> QED
    BY <2>5
<1> QED
  BY <1>4 DEF Stays, InChan

LEMMA EndsWithPath ==
  ASSUME TypeOK, OneWorkerPerPath, UNCHANGED chan, NEW w \in Worker, IsBusy(w), Finish(w)
  PROVE  Ends(worker[w].path) /\ worker[w].path \in Path
<1> DEFINE p == worker[w].path
<1>1. \A v \in Worker : worker'[v] = IF v = w THEN Idle("check") ELSE worker[v]
  BY DEF Finish, Goto, TypeOK
<1>2. \A v \in Worker : IsBusy(v)' <=> v # w /\ IsBusy(v)
  BY <1>1 DEF IsBusy, Idle, BusyPc
<1>3. \A v \in Worker : IsBusy(v)' => worker'[v].path = worker[v].path /\ worker[v].path # p
  BY <1>1, <1>2 DEF OneWorkerPerPath
<1>4. p \in BusyPaths /\ BusyPaths' = BusyPaths \ {p}
  BY <1>1, <1>2, <1>3 DEF BusyPaths
<1> QED
  BY <1>4, BusyTypes DEF Ends, Finish, InChan

LEMMA TakesPath ==
  ASSUME TypeOK, OneWorkerPerPath, UNCHANGED tried, chan # <<>>,
         NEW w \in Worker, ~IsBusy(w), chan' = Tail(chan),
         Goto(w, Busy("status", Head(chan), 0, NewRow))
  PROVE  Takes(Head(chan)) /\ Head(chan) \in Path
<1> DEFINE p == Head(chan)
<1>1. \A v \in Worker :
        worker'[v] = IF v = w THEN Busy("status", p, 0, NewRow) ELSE worker[v]
  BY DEF Goto, TypeOK
<1>2. \A v \in Worker : IsBusy(v)' <=> v = w \/ IsBusy(v)
  BY <1>1 DEF IsBusy, Busy, BusyPc
<1>3. worker'[w].path = p /\ \A v \in Worker \ {w} : worker'[v].path = worker[v].path
  BY <1>1 DEF Busy
<1>4. BusyPaths' = BusyPaths \cup {p}
  BY <1>2, <1>3 DEF BusyPaths
<1>5. /\ chan \in Seq(Path) /\ Tail(chan) \in Seq(Path)
      /\ Len(Tail(chan)) = Len(chan) - 1
      /\ \A i \in 1 .. Len(Tail(chan)) : Tail(chan)[i] = chan[i + 1]
      /\ p = chan[1] /\ p \in Path
  BY HeadTailProperties DEF TypeOK
<1>6. \A i \in DOMAIN chan : i = 1 \/ (i - 1 \in DOMAIN chan' /\ chan'[i - 1] = chan[i])
  BY <1>5
<1>7. p \in InChan
  <2>1. 1 \in DOMAIN chan
    BY <1>5
  <2> QED
    BY <1>5, <2>1 DEF InChan
<1>8. \A i \in DOMAIN chan : chan[i] \in InChan' \cup {p}
  <2> SUFFICES ASSUME NEW i \in DOMAIN chan, i # 1 PROVE chan[i] \in InChan'
    BY <1>5
  <2>1. i - 1 \in DOMAIN chan' /\ chan'[i - 1] = chan[i]
    BY <1>6
  <2> QED
    BY <2>1 DEF InChan
<1>9. InChan \subseteq InChan' \cup {p}
  BY <1>8 DEF InChan
<1> QED
  BY <1>4, <1>5, <1>7, <1>9 DEF Takes, OneWorkerPerPath

LEMMA WorkerMoves ==
  ASSUME TypeOK, OneWorkerPerPath, NEW w \in Worker, WorkerStep(w)
  PROVE  Moves
<1>1. CASE RecvCheck(w)
  BY <1>1, StaysWithPath DEF RecvCheck, IsBusy, Idle, BusyPc, Moves
<1>2. CASE Recv(w) /\ chan # <<>>
  BY <1>2, TakesPath DEF Recv, IsBusy, BusyPc, Moves
<1>3. CASE Recv(w) /\ chan = <<>>
  BY <1>3, StaysWithPath DEF Recv, IsBusy, Idle, BusyPc, Moves
<1>4. CASE GetStatus(w)
  <2>1. IsBusy(w)
    BY <1>4 DEF GetStatus, IsBusy, BusyPc
  <2>2. CASE Finish(w)
    BY <1>4, <2>1, <2>2, EndsWithPath DEF GetStatus, Moves
  <2>3. CASE ~Finish(w)
    BY <1>4, <2>1, <2>3, StaysWithPath DEF GetStatus, HaveStatus, Busy, BusyPc, Moves
  <2> QED
    BY <2>2, <2>3
<1>5. CASE CreateStatus(w)
  <2>1. IsBusy(w)
    BY <1>5 DEF CreateStatus, IsBusy, BusyPc
  <2>2. CASE Finish(w)
    BY <1>5, <2>1, <2>2, EndsWithPath DEF CreateStatus, Moves
  <2>3. CASE ~Finish(w)
    BY <1>5, <2>1, <2>3, StaysWithPath DEF CreateStatus, HaveStatus, Busy, BusyPc, Moves
  <2> QED
    BY <2>2, <2>3
<1>6. CASE PullFile(w)
  BY <1>6, StaysWithPath DEF PullFile, IsBusy, Busy, BusyPc, Moves
<1>7. CASE DecompileApk(w)
  BY <1>7, StaysWithPath DEF DecompileApk, IsBusy, Busy, BusyPc, Moves
<1>8. CASE UpdateStatus(w)
  BY <1>8, EndsWithPath DEF UpdateStatus, IsBusy, BusyPc, Moves
<1> QED
  BY <1>1, <1>2, <1>3, <1>4, <1>5, <1>6, <1>7, <1>8 DEF WorkerStep, Recv

-------------------------------------------------------------------------------
(* Why an "ok" is complete: unless the user cancelled, every line the      *)
(* finder passed is in its set, every path in the set was sent or is at    *)
(* hand, and a worker leaves only an empty channel whose sender is gone.   *)

AtHand == finder.pc \in {"check", "send"}

Passed(c, l) == c < finder.cmd \/ (c = finder.cmd /\ l < finder.line)

SeenListed == seen \subseteq Listed
SeenSent   == ~cancelled => \A p \in seen : p \in Sent \/ (AtHand /\ p = CurrentLine)
PassedSeen ==
  ~cancelled /\ finder.pc # "err" =>
    \A c \in DOMAIN Listing : \A l \in DOMAIN Listing[c] : Passed(c, l) => Listing[c][l] \in seen
OkIsPast   == finder.pc = "ok" => finder.cmd > Len(Listing)
LeftEmpty  ==
  \A w \in Worker : worker[w].pc = "done" => cancelled \/ (~Connected /\ chan = <<>>)
ReturnIsLast == result # "none" => \A w \in Worker : worker[w].pc = "done"

Complete ==
  SeenListed /\ SeenSent /\ PassedSeen /\ OkIsPast /\ LeftEmpty /\ ReturnIsLast

LEMMA LineListed ==
  ASSUME NEW c \in DOMAIN Listing, NEW l \in DOMAIN Listing[c]
  PROVE  Listing[c][l] \in Listed
BY DEF Listed

LEMMA CompleteInit == Init => Complete
<1> SUFFICES ASSUME Init PROVE Complete
  OBVIOUS
<1>1. /\ finder = [pc |-> "find", cmd |-> 1, line |-> 1] /\ seen = {} /\ result = "none"
      /\ \A w \in Worker : worker[w].pc = "check"
  BY DEF Init, ThreadInit, Finding, Idle
<1>2. \A c \in DOMAIN Listing : \A l \in DOMAIN Listing[c] : ~Passed(c, l)
  <2> SUFFICES ASSUME NEW c \in DOMAIN Listing, NEW l \in DOMAIN Listing[c]
               PROVE  ~Passed(c, l)
    OBVIOUS
  <2>1. c \in Nat \ {0} /\ l \in Nat \ {0}
    BY ListingTypes
  <2> QED
    BY <1>1, <2>1 DEF Passed
<1> QED
  BY <1>1, <1>2 DEF Complete, SeenListed, SeenSent, PassedSeen, OkIsPast, LeftEmpty, ReturnIsLast

-------------------------------------------------------------------------------
(* The finder.                                                             *)

(* The finder moves on without anything that is not passed but seen.       *)
LEMMA FinderPasses ==
  ASSUME TypeOK, PassedSeen, seen \subseteq seen', UNCHANGED cancelled,
         ~cancelled /\ finder'.pc # "err" =>
           /\ finder.pc # "err"
           /\ \A c \in DOMAIN Listing : \A l \in DOMAIN Listing[c] :
                Passed(c, l)' => Passed(c, l) \/ Listing[c][l] \in seen'
  PROVE  PassedSeen'
BY DEF PassedSeen

LEMMA FinderComplete ==
  ASSUME TypeOK, Exclusion, Complete, Finder
  PROVE  Complete'
<1> USE DEF Complete
<1>1. UNCHANGED <<cancelled, worker, tried, result>> /\ Connected
  BY DEF Finder, FindLine, SendCheck, Send, EndOfCommand, FindDone, Connected
<1>2. BusyPaths' = BusyPaths
  BY <1>1, OtherSteps
<1>3. LeftEmpty' /\ ReturnIsLast'
  <2>1. \A w \in Worker : worker[w].pc = "done" => cancelled
    BY <1>1 DEF LeftEmpty
  <2> QED
    BY <1>1, <2>1 DEF LeftEmpty, ReturnIsLast
<1>0. /\ finder.cmd \in Nat \ {0} /\ finder.line \in Nat \ {0} /\ finder \in FinderState
      /\ Len(Listing) \in Nat
  BY ApksAssumption DEF TypeOK, FinderState
<1>9. \A c \in DOMAIN Listing : \A l \in DOMAIN Listing[c] :
        c \in Nat \ {0} /\ l \in Nat \ {0} /\ l <= Len(Listing[c]) /\ Len(Listing[c]) \in Nat
        /\ c <= Len(Listing)
  <2> SUFFICES ASSUME NEW c \in DOMAIN Listing, NEW l \in DOMAIN Listing[c]
               PROVE  c \in Nat \ {0} /\ l \in Nat \ {0} /\ l <= Len(Listing[c])
                      /\ Len(Listing[c]) \in Nat /\ c <= Len(Listing)
    OBVIOUS
  <2> QED
    BY ListingTypes, ApksAssumption
<1>4. SeenListed'
  BY LineListed DEF Finder, FindLine, SendCheck, Send, EndOfCommand, FindDone, SeenListed, CurrentLine
<1>5. CASE FindLine
  <2>1. /\ finder.pc = "find" /\ finder.cmd \in DOMAIN Listing
        /\ finder.line \in DOMAIN Listing[finder.cmd] /\ chan' = chan
        /\ seen' = seen \cup {CurrentLine}
    BY <1>5 DEF FindLine
  <2>2. InChan' = InChan
    BY <2>1 DEF InChan
  <2>3. CASE CurrentLine \in seen
    <3>1. finder' = [pc |-> "find", cmd |-> finder.cmd, line |-> finder.line + 1] /\ seen' = seen
      BY <1>5, <2>3 DEF FindLine, Finding
    <3>2. SeenSent'
      BY <1>1, <1>2, <2>1, <2>2, <3>1 DEF SeenSent, AtHand, Sent
    <3>3. \A c \in DOMAIN Listing : \A l \in DOMAIN Listing[c] :
            Passed(c, l)' => Passed(c, l) \/ (c = finder.cmd /\ l = finder.line)
      BY <1>0, <1>9, <3>1 DEF Passed
    <3>4. PassedSeen'
      BY <1>1, <2>1, <2>3, <3>1, <3>3, FinderPasses DEF CurrentLine
    <3> QED
      BY <1>1, <1>3, <1>4, <3>1, <3>2, <3>4 DEF OkIsPast
  <2>4. CASE CurrentLine \notin seen
    <3>1. finder' = [finder EXCEPT !.pc = "check"]
      BY <1>5, <2>4 DEF FindLine
    <3>2. finder'.pc = "check" /\ finder'.cmd = finder.cmd /\ finder'.line = finder.line
      BY <1>0, <3>1 DEF FinderState
    <3>3. SeenSent'
      BY <1>1, <1>2, <2>1, <2>2, <3>2 DEF SeenSent, AtHand, Sent, CurrentLine
    <3>4. PassedSeen'
      BY <1>1, <2>1, <3>2, FinderPasses DEF Passed
    <3> QED
      BY <1>1, <1>3, <1>4, <3>2, <3>3, <3>4 DEF OkIsPast
  <2> QED
    BY <2>3, <2>4
<1>6. CASE SendCheck
  <2>1. finder.pc = "check" /\ seen' = seen /\ chan' = chan
    BY <1>6 DEF SendCheck
  <2>2. InChan' = InChan
    BY <2>1 DEF InChan
  <2>3. CASE cancelled
    <3>1. finder'.pc # "ok"
      BY <1>6, <2>3 DEF SendCheck, Finding, FinderState, TypeOK
    <3> QED
      BY <1>1, <1>3, <1>4, <2>3, <3>1 DEF SeenSent, PassedSeen, OkIsPast
  <2>4. CASE ~cancelled
    <3>1. finder'.pc = "send" /\ finder'.cmd = finder.cmd /\ finder'.line = finder.line
      BY <1>0, <1>6, <2>4 DEF SendCheck, FinderState
    <3>2. SeenSent'
      BY <1>1, <1>2, <2>1, <2>2, <3>1 DEF SeenSent, AtHand, Sent, CurrentLine
    <3>3. PassedSeen'
      BY <1>1, <2>1, <3>1, FinderPasses DEF Passed
    <3> QED
      BY <1>1, <1>3, <1>4, <3>1, <3>2, <3>3 DEF OkIsPast
  <2> QED
    BY <2>3, <2>4
<1>7. CASE Send
  <2>1. finder.pc = "send" /\ seen' = seen
    BY <1>7 DEF Send
  <2>2. finder.cmd \in DOMAIN Listing /\ finder.line \in DOMAIN Listing[finder.cmd]
    BY <2>1 DEF TypeOK
  <2>3. CASE chan' = Append(chan, CurrentLine) /\ finder' = Finding(finder.cmd, finder.line + 1)
    <3>1. finder'.pc = "find" /\ finder'.cmd = finder.cmd /\ finder'.line = finder.line + 1
      BY <2>3 DEF Finding
    <3>2. InChan' = InChan \cup {CurrentLine}
      <4>1. chan \in Seq(Path) /\ CurrentLine \in Path
        BY <2>2, FinderTypes DEF TypeOK
      <4>2. /\ DOMAIN chan = 1 .. Len(chan) /\ Len(chan) \in Nat
            /\ DOMAIN chan' = 1 .. Len(chan) + 1
            /\ \A i \in 1 .. Len(chan) : chan'[i] = chan[i]
            /\ chan'[Len(chan) + 1] = CurrentLine
        BY <2>3, <4>1, AppendProperties
      <4> QED
        BY <4>2 DEF InChan
    <3>3. SeenSent'
      BY <1>1, <1>2, <2>1, <3>1, <3>2 DEF SeenSent, AtHand, Sent
    <3>4. CurrentLine \in seen
      BY <2>1 DEF Exclusion, SeenCovers
    <3>5. \A c \in DOMAIN Listing : \A l \in DOMAIN Listing[c] :
            Passed(c, l)' => Passed(c, l) \/ (c = finder.cmd /\ l = finder.line)
      BY <1>0, <1>9, <3>1 DEF Passed
    <3>6. PassedSeen'
      BY <1>1, <2>1, <3>1, <3>4, <3>5, FinderPasses DEF CurrentLine
    <3> QED
      BY <1>1, <1>3, <1>4, <3>1, <3>3, <3>6 DEF OkIsPast
  <2>4. CASE finder' = [finder EXCEPT !.pc = "check"] /\ UNCHANGED chan
    <3>1. finder'.pc = "check" /\ finder'.cmd = finder.cmd /\ finder'.line = finder.line
      BY <1>0, <2>4 DEF FinderState
    <3>2. SeenSent'
      BY <1>1, <1>2, <2>1, <2>4, <3>1 DEF SeenSent, AtHand, Sent, CurrentLine, InChan
    <3>3. PassedSeen'
      BY <1>1, <2>1, <3>1, FinderPasses DEF Passed
    <3> QED
      BY <1>1, <1>3, <1>4, <3>1, <3>2, <3>3 DEF OkIsPast
  <2> QED
    BY <1>7, <2>3, <2>4 DEF Send
<1>8. CASE EndOfCommand \/ FindDone
  <2>1. finder.pc = "find" /\ seen' = seen /\ chan' = chan
    BY <1>8 DEF EndOfCommand, FindDone
  <2>2. SeenSent'
    <3>1. finder'.pc \notin {"check", "send"}
      BY <1>0, <1>8 DEF EndOfCommand, FindDone, Finding, FinderState
    <3> QED
      BY <1>1, <1>2, <2>1, <3>1 DEF SeenSent, AtHand, Sent, InChan
  <2>3. CASE /\ finder.cmd \in DOMAIN Listing /\ finder.line > Len(Listing[finder.cmd])
             /\ finder' = Finding(finder.cmd + 1, 1)
    <3>1. finder'.pc = "find" /\ finder'.cmd = finder.cmd + 1 /\ finder'.line = 1
      BY <2>3 DEF Finding
    <3>2. \A c \in DOMAIN Listing : \A l \in DOMAIN Listing[c] : Passed(c, l)' => Passed(c, l)
      BY <1>0, <1>9, <2>3, <3>1 DEF Passed
    <3>3. PassedSeen'
      BY <1>1, <2>1, <3>1, <3>2, FinderPasses
    <3> QED
      BY <1>1, <1>3, <1>4, <2>2, <3>1, <3>3 DEF OkIsPast
  <2>4. CASE finder' = [finder EXCEPT !.pc = "err"]
    <3>1. finder'.pc = "err"
      BY <1>0, <2>4 DEF FinderState
    <3> QED
      BY <1>1, <1>3, <1>4, <2>2, <3>1 DEF OkIsPast, PassedSeen
  <2>5. CASE FindDone
    <3>1. finder'.pc = "ok" /\ finder'.cmd = finder.cmd /\ finder'.line = finder.line
          /\ finder.cmd > Len(Listing)
      BY <1>0, <2>5 DEF FindDone, FinderState
    <3>2. PassedSeen'
      BY <1>1, <2>1, <3>1, FinderPasses DEF Passed
    <3> QED
      BY <1>1, <1>3, <1>4, <2>2, <3>1, <3>2 DEF OkIsPast
  <2> QED
    BY <1>8, <2>3, <2>4, <2>5 DEF EndOfCommand
<1> QED
  BY <1>1, <1>5, <1>6, <1>7, <1>8 DEF Finder

-------------------------------------------------------------------------------
(* The workers, the user and the end.                                      *)

LEMMA WorkerComplete ==
  ASSUME TypeOK, Exclusion, Complete, NEW w \in Worker, WorkerStep(w)
  PROVE  Complete' /\ result = "none"
<1> USE DEF Complete
<1>1. UNCHANGED <<cancelled, finder, seen, result>>
  BY DEF WorkerStep, RecvCheck, Recv, GetStatus, CreateStatus, PullFile, DecompileApk, UpdateStatus
<1>2. Moves
  BY WorkerMoves DEF Exclusion
<1>3. worker[w].pc # "done"
  BY DEF WorkerStep, RecvCheck, Recv, GetStatus, CreateStatus, PullFile, DecompileApk, UpdateStatus
<1>4. result = "none"
  BY <1>3 DEF ReturnIsLast
<1>5. Sent \subseteq Sent'
  BY <1>2 DEF Moves, Stays, Takes, Ends, Sent
<1>6. SeenSent' /\ SeenListed' /\ PassedSeen' /\ OkIsPast'
  BY <1>1, <1>5 DEF SeenSent, SeenListed, PassedSeen, OkIsPast, AtHand, CurrentLine, Passed
<1>7. ReturnIsLast'
  BY <1>1, <1>4 DEF ReturnIsLast
<1>8. \A v \in Worker \ {w} : worker'[v] = worker[v]
  BY DEF WorkerStep, RecvCheck, Recv, GetStatus, CreateStatus, PullFile, DecompileApk, UpdateStatus,
     HaveStatus, Finish, Goto, TypeOK
<1>9. chan = <<>> => chan' = <<>>
  BY DEF WorkerStep, RecvCheck, Recv, GetStatus, CreateStatus, PullFile, DecompileApk, UpdateStatus
<1>10. worker'[w].pc = "done" => cancelled \/ (~Connected /\ chan = <<>>)
  <2>0. \A t : Goto(w, t) => worker'[w] = t
    BY DEF Goto, TypeOK
  <2>1. CASE RecvCheck(w)
    <3>1. worker'[w].pc = IF cancelled THEN "done" ELSE "recv"
      BY <2>0, <2>1 DEF RecvCheck, Idle
    <3> QED
      BY <3>1
  <2>2. CASE Recv(w)
    BY <2>0, <2>2 DEF Recv, Idle, Busy
  <2>3. CASE ~RecvCheck(w) /\ ~Recv(w)
    <3>1. CASE Finish(w)
      BY <2>0, <3>1 DEF Finish, Idle
    <3>2. CASE ~Finish(w)
      <4>0. \A pc \in BusyPc : \A p, id, r : Busy(pc, p, id, r).pc \in BusyPc
        BY DEF Busy
      <4>1. CASE GetStatus(w) \/ CreateStatus(w)
        <5>1. PICK s : Goto(w, s) /\ s.pc \in BusyPc
          BY <3>2, <4>0, <4>1 DEF GetStatus, CreateStatus, HaveStatus, BusyPc
        <5> QED
          BY <2>0, <5>1 DEF BusyPc
      <4>2. CASE PullFile(w) \/ DecompileApk(w)
        <5>1. PICK s : Goto(w, s) /\ s.pc \in BusyPc
          BY <4>0, <4>2 DEF PullFile, DecompileApk, BusyPc
        <5> QED
          BY <2>0, <5>1 DEF BusyPc
      <4> QED
        BY <2>3, <3>2, <4>1, <4>2 DEF WorkerStep, UpdateStatus
    <3> QED
      BY <3>1, <3>2
  <2> QED
    BY <2>1, <2>2, <2>3
<1>11. LeftEmpty'
  BY <1>1, <1>8, <1>9, <1>10 DEF LeftEmpty, Connected
<1> QED
  BY <1>4, <1>6, <1>7, <1>11

LEMMA CompleteStep == TypeOK /\ Exclusion /\ Complete /\ [Next]_vars => Complete'
<1> SUFFICES ASSUME TypeOK, Exclusion, Complete, [Next]_vars PROVE Complete'
  OBVIOUS
<1>1. CASE Cancel
  <2>1. UNCHANGED <<finder, seen, chan, worker, result, tried>> /\ cancelled'
    BY <1>1 DEF Cancel, threadVars
  <2> QED
    BY <2>1 DEF Complete, SeenListed, SeenSent, PassedSeen, OkIsPast, LeftEmpty, ReturnIsLast
<1>2. CASE Finder
  BY <1>2, FinderComplete
<1>3. CASE \E w \in Worker : WorkerStep(w)
  BY <1>3, WorkerComplete
<1>4. CASE Return
  <2>1. UNCHANGED <<cancelled, finder, seen, chan, worker, tried>>
        /\ \A w \in Worker : worker[w].pc = "done"
    BY <1>4 DEF Return, threadVars
  <2>2. Sent' = Sent
    BY <2>1 DEF Sent, InChan, BusyPaths, IsBusy
  <2> QED
    BY <2>1, <2>2 DEF Complete, SeenListed, SeenSent, PassedSeen, OkIsPast, LeftEmpty, ReturnIsLast,
       AtHand, CurrentLine, Passed, Connected
<1>5. CASE UNCHANGED vars
  <2>1. UNCHANGED <<cancelled, finder, seen, chan, worker, tried, result>>
    BY <1>5 DEF vars
  <2>2. Sent' = Sent
    BY <2>1 DEF Sent, InChan, BusyPaths, IsBusy
  <2> QED
    BY <2>1, <2>2 DEF Complete, SeenListed, SeenSent, PassedSeen, OkIsPast, LeftEmpty, ReturnIsLast,
       AtHand, CurrentLine, Passed, Connected
<1> QED
  BY <1>1, <1>2, <1>3, <1>4, <1>5 DEF Next

-------------------------------------------------------------------------------
(* The refinement.                                                         *)

LEMMA OkIsComplete ==
  ASSUME TypeOK, Complete, Return, result' = "ok", ~cancelled
  PROVE  Listed \subseteq tried
<1>1. /\ \A w \in Worker : worker[w].pc = "done"
      /\ finder.pc = "ok"
  BY DEF Return
<1>2. chan = <<>>
  BY <1>1, ApksAssumption DEF Complete, LeftEmpty
<1>3. Sent = tried
  BY <1>1, <1>2 DEF Sent, InChan, BusyPaths, IsBusy, BusyPc
<1>4. \A c \in DOMAIN Listing : \A l \in DOMAIN Listing[c] : Listing[c][l] \in seen
  <2> SUFFICES ASSUME NEW c \in DOMAIN Listing, NEW l \in DOMAIN Listing[c]
               PROVE  Passed(c, l)
    BY <1>1 DEF Complete, PassedSeen
  <2>1. c \in Nat /\ c <= Len(Listing) /\ Len(Listing) \in Nat /\ finder.cmd \in Nat
    BY ApksAssumption DEF TypeOK, FinderState
  <2> QED
    BY <1>1, <2>1 DEF Complete, OkIsPast, Passed
<1>5. seen \subseteq tried
  BY <1>1, <1>3 DEF Complete, SeenSent, AtHand
<1> QED
  BY <1>4, <1>5 DEF Listed

LEMMA StepRefines ==
  TypeOK /\ Exclusion /\ Complete /\ [Next]_vars => [Work!Next]_(Work!workVars)
<1> SUFFICES ASSUME TypeOK, Exclusion, Complete, [Next]_vars
             PROVE  Work!Next \/ UNCHANGED <<cancelled, BusyPaths, tried, result>>
  BY DEF Work!workVars
<1>1. CASE Cancel
  <2>1. BusyPaths' = BusyPaths
    BY <1>1, OtherSteps DEF Cancel, threadVars
  <2> QED
    BY <1>1, <2>1 DEF Cancel, Work!Next, Work!Cancel
<1>2. CASE Finder
  <2>1. UNCHANGED <<cancelled, worker, tried, result>>
    BY <1>2 DEF Finder, FindLine, SendCheck, Send, EndOfCommand, FindDone
  <2> QED
    BY <2>1, OtherSteps
<1>3. ASSUME NEW w \in Worker, WorkerStep(w)
      PROVE  Work!Next \/ UNCHANGED <<cancelled, BusyPaths, tried, result>>
  <2>1. UNCHANGED <<cancelled, result>> /\ result = "none"
    BY <1>3, WorkerComplete
    DEF WorkerStep, RecvCheck, Recv, GetStatus, CreateStatus, PullFile, DecompileApk, UpdateStatus
  <2>2. InChan \cup BusyPaths \subseteq Listed
    BY DEF Exclusion, SeenCovers, Complete, SeenListed
  <2>3. ASSUME NEW p, Takes(p) PROVE Work!Next
    <3>1. p \in Listed \ (BusyPaths \cup tried)
      BY <2>2, <2>3 DEF Takes
    <3>2. Work!Begin(p)
      BY <2>1, <2>3, <3>1 DEF Takes, Work!Begin
    <3> QED
      BY <3>1, <3>2 DEF Work!Next
  <2>4. ASSUME NEW p, Ends(p) PROVE Work!Next
    <3>1. p \in Listed
      BY <2>2, <2>4 DEF Ends
    <3>2. Work!End(p)
      BY <2>1, <2>4 DEF Ends, Work!End
    <3> QED
      BY <3>1, <3>2 DEF Work!Next
  <2> QED
    BY <1>3, <2>1, <2>3, <2>4, WorkerMoves DEF Moves, Stays, Exclusion
<1>4. CASE Return
  <2>1. /\ UNCHANGED <<cancelled, worker, tried>> /\ result = "none"
        /\ result' = finder.pc /\ finder.pc \in {"ok", "err"}
        /\ \A w \in Worker : worker[w].pc = "done"
    BY <1>4 DEF Return, threadVars, Connected
  <2>2. BusyPaths = {} /\ BusyPaths' = BusyPaths
    BY <2>1, OtherSteps DEF BusyPaths, IsBusy, BusyPc
  <2>3. result' = "ok" => cancelled \/ Listed \ (BusyPaths \cup tried) = {}
    BY <1>4, OkIsComplete
  <2> QED
    BY <2>1, <2>2, <2>3 DEF Work!Next, Work!Return
<1>5. CASE UNCHANGED vars
  BY <1>5, OtherSteps DEF vars
<1> QED
  BY <1>1, <1>2, <1>3, <1>4, <1>5 DEF Next

(* The threads of pull_apks, its channel and its cancel flag work on every *)
(* listed APK at most once, and return "ok" without a cancellation only    *)
(* when every one was worked on: the safety part of ImplementsWork.        *)
THEOREM Refinement == Spec => WorkSafety
<1>1. Init => Work!Init
  <2> SUFFICES ASSUME Init PROVE Work!Init
    OBVIOUS
  <2>1. BusyPaths = {}
    BY DEF Init, ThreadInit, Idle, IsBusy, BusyPc, BusyPaths
  <2> QED
    BY <2>1 DEF Init, Work!Init
<1>2. Init => TypeOK /\ Exclusion /\ Complete
  BY TypeInit, ExclusionInit, CompleteInit
<1>3. TypeOK /\ Exclusion /\ Complete /\ [Next]_vars => (TypeOK /\ Exclusion /\ Complete)'
  BY TypeStep, ExclusionStep, CompleteStep
<1> QED
  BY <1>1, <1>2, <1>3, StepRefines, PTL DEF Spec, WorkSafety

===============================================================================
