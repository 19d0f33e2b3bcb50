----------------------------- MODULE Graph_proofs -----------------------------
(***************************************************************************)
(* Proofs about the graph database.  Of GraphSetup: for every set of APKs, *)
(* denylists and sources that may be removed, and any number of            *)
(* cancellations and faults.  Of GraphFind: for every smali, and any       *)
(* sequence of imports, removals and find commands.                        *)
(***************************************************************************)
EXTENDS GraphSetup, GraphFind, FiniteSetTheorems, WellFoundedInduction, TLAPS

-------------------------------------------------------------------------------
(* Facts about the constants of the module.                                *)

LEMMA KindsFacts ==
  /\ Len(Kinds) = 9 /\ DOMAIN Kinds = 1 .. 9
  /\ \A i \in 1 .. 9 : Kinds[i] \in Kind
<1>1. Len(Kinds) = 9 /\ DOMAIN Kinds = 1 .. 9
  BY DEF Kinds
<1>2. \A i \in DOMAIN Kinds : Kinds[i] \in Kind
  BY DEF Kind
<1> QED
  BY <1>1, <1>2

(* The parts of TypeOK an action may leave alone together.                 *)
ControlOK ==
  /\ pc \in {"idle", "record", "finish", "wiped"} \cup Analysis \cup Import
  /\ options \in [forced: BOOLEAN, onlySmalisa: BOOLEAN]
  /\ todo \subseteq apks /\ apks \subseteq Apk
  /\ source \in Source
  /\ next \in 1 .. 10
  /\ next = 10 => pc \in {"idle", "kind", "finish", "wiped"}
  /\ cancelled \in BOOLEAN

DiskOK ==
  /\ csv \in [Source -> CsvState]
  /\ id \in [Source -> 0 .. 2]
  /\ rows \in [Source -> [Kind -> 0 .. 2]]
  /\ loaded \in [Source -> SUBSET Kind]
  /\ strays \in BOOLEAN
  /\ progress \in [smalisa: BOOLEAN, graph: BOOLEAN]

BudgetOK == cancels \in 0 .. MaxCancels /\ faults \in 0 .. MaxFaults

LEMMA TypeParts == TypeOK <=> ControlOK /\ DiskOK /\ BudgetOK
  BY KindsFacts DEF TypeOK, ControlOK, DiskOK, BudgetOK, MaxCopies

LEMMA TypePartsNext == TypeOK' <=> ControlOK' /\ DiskOK' /\ BudgetOK'
  BY KindsFacts DEF TypeOK, ControlOK, DiskOK, BudgetOK, MaxCopies

LEMMA ExitControl == ASSUME Exit PROVE ControlOK'
<1>1. pc' = "idle" /\ next' = 1 /\ cancelled' = FALSE
  BY DEF Exit
<1>2. options' \in [forced: BOOLEAN, onlySmalisa: BOOLEAN]
  BY DEF Exit
<1>3. todo' \subseteq apks' /\ apks' \subseteq Apk
  BY DEF Exit
<1>4. source' \in Source
  BY DEF Exit, Source
<1>5. next' \in 1 .. 10 /\ next' # 10
  BY <1>1
<1>6. cancelled' \in BOOLEAN
  BY <1>1
<1> QED
  BY <1>1, <1>2, <1>3, <1>4, <1>5, <1>6 DEF ControlOK, Source, Analysis, Import

LEMMA FaultBudget == ASSUME BudgetOK, Fault PROVE BudgetOK'
  BY GraphAssumption DEF BudgetOK, Fault

LEMMA SameDisk == ASSUME DiskOK, UNCHANGED disk PROVE DiskOK'
  BY DEF DiskOK, disk, database

LEMMA SameBudget == ASSUME BudgetOK, UNCHANGED budget PROVE BudgetOK'
  BY DEF BudgetOK, budget

LEMMA GotoControl ==
  ASSUME ControlOK, NEW to, Goto(to), to \in Analysis \cup Import \cup {"record"},
         next # 10 \/ to = "kind"
  PROVE  ControlOK'
  BY DEF ControlOK, Goto, Analysis, Import

LEMMA TakeControl ==
  ASSUME ControlOK, NEW to, TakeApk(to), to \in {"analyse", "source"}
  PROVE  ControlOK'
  BY DEF ControlOK, TakeApk, Source, Analysis, Import

-------------------------------------------------------------------------------
(* The rows that a transaction inserts.                                    *)
LEMMA InsertRows ==
  ASSUME NEW s \in Source, NEW k \in Kind,
         rows \in [Source -> [Kind -> 0 .. 2]], Insert(s, k)
  PROVE  /\ rows' \in [Source -> [Kind -> 0 .. 2]]
         /\ rows'[s][k] > 0
         /\ \A t \in Source, l \in Kind : rows[t][l] > 0 => rows'[t][l] > 0
         /\ \A t \in Source, l \in Kind : t # s \/ l # k => rows'[t][l] = rows[t][l]
<1> DEFINE n == IF k \in Ignored THEN 1
                ELSE IF rows[s][k] < MaxCopies THEN rows[s][k] + 1 ELSE rows[s][k]
<1>1. rows[s][k] \in 0 .. 2
  OBVIOUS
<1>2. n \in 1 .. 2
  BY <1>1 DEF MaxCopies
<1>3. rows' = [rows EXCEPT ![s] = [rows[s] EXCEPT ![k] = n]]
  BY DEF Insert
<1> HIDE DEF n
<1> QED
  BY <1>2, <1>3

-------------------------------------------------------------------------------
(* Types.                                                                  *)

(* A phase begins at the framework, with the run's options as they are.    *)
LEMMA BeginControl ==
  ASSUME NEW first, BeginPhase(first), first \in {"analyse", "source"},
         options' \in [forced: BOOLEAN, onlySmalisa: BOOLEAN], apks' \subseteq Apk
  PROVE  ControlOK'
<1>1. pc' = first /\ next' = 1 /\ todo' = apks'
  BY DEF BeginPhase
<1>2. source' \in Source
  BY DEF BeginPhase, Source
<1>3. next' \in 1 .. 10 /\ next' # 10
  BY <1>1
<1>4. cancelled' \in BOOLEAN
  BY DEF BeginPhase
<1> QED
  BY <1>1, <1>2, <1>3, <1>4 DEF ControlOK, Source, Analysis, Import

LEMMA StepControl == ASSUME ControlOK, Step PROVE ControlOK'
<1>1. CASE Analyse
  BY <1>1, GotoControl DEF Analyse, ControlOK, Analysis
<1>2. CASE WriteDone
  BY <1>2, GotoControl DEF WriteDone, ControlOK, Analysis
<1>3. CASE WriteFails \/ LeaveKind \/ LoadFails \/ Finish \/ RecordWipe
  BY <1>3, ExitControl DEF WriteFails, LeaveKind, LoadFails, Finish, RecordWipe
<1>4. CASE NextApk
  BY <1>4, GotoControl, TakeControl DEF NextApk, ControlOK, Analysis
<1>5. CASE RecordSmalisa
  <2>1. CASE options.onlySmalisa
    BY <1>5, <2>1, ExitControl DEF RecordSmalisa
  <2>2. CASE ~options.onlySmalisa
    <3>1. options' = options /\ apks' = apks /\ BeginPhase("source")
      BY <1>5, <2>2 DEF RecordSmalisa
    <3> QED
      BY <3>1, BeginControl DEF ControlOK
  <2> QED
    BY <2>1, <2>2
<1>6. CASE AddSource
  BY <1>6, GotoControl DEF AddSource, ControlOK, Import
<1>7. CASE SkipKind \/ Mark
  <2>1. /\ next \in 1 .. 9 /\ next' = next + 1 /\ pc' = "kind"
        /\ UNCHANGED <<options, apks, todo, source, cancelled>>
    BY <1>7, KindsFacts DEF SkipKind, AtKind, Mark, ControlOK
  <2>2. next' \in 1 .. 10
    BY <2>1
  <2> QED
    BY <2>1, <2>2 DEF ControlOK, Source, Analysis, Import
<1>8. CASE OpenKind
  <2>1. next # 10 /\ Goto("load")
    BY <1>8, KindsFacts DEF OpenKind, AtKind
  <2> QED
    BY <2>1, GotoControl DEF Import
<1>9. CASE LoadDirect \/ LoadStaged \/ Stage
  <2>1. next # 10 /\ (Goto("mark") \/ Goto("staged"))
    BY <1>9 DEF LoadDirect, LoadStaged, Stage, ControlOK
  <2> QED
    BY <2>1, GotoControl DEF Import
<1>10. CASE NextSource
  <2>1. CASE todo = {}
    <3>1. pc' = "finish" /\ UNCHANGED <<options, apks, todo, source, next, cancelled>>
      BY <1>10, <2>1 DEF NextSource, Goto
    <3> QED
      BY <3>1 DEF ControlOK, Source, Analysis, Import
  <2>2. CASE todo # {}
    BY <1>10, <2>2, TakeControl DEF NextSource
  <2> QED
    BY <2>1, <2>2
<1> QED
  BY <1>1, <1>2, <1>3, <1>4, <1>5, <1>6, <1>7, <1>8, <1>9, <1>10 DEF Step

(* The file at hand of a source at hand.                                   *)
LEMMA AtHand ==
  ASSUME ControlOK, pc \in {"load", "staged", "mark"} \/ AtKind
  PROVE  source \in Source /\ next \in 1 .. 9 /\ Kinds[next] \in Kind
<1>1. source \in Source /\ next \in 1 .. 10
  BY DEF ControlOK
<1>2. next # 10
  BY KindsFacts DEF ControlOK, AtKind
<1> QED
  BY <1>1, <1>2, KindsFacts

LEMMA StepDisk == ASSUME ControlOK, DiskOK, Step PROVE DiskOK'
<1> USE DEF DiskOK
<1>1. CASE UNCHANGED disk
  BY <1>1, SameDisk
<1>2. CASE WriteDone
  <2>1. PICK c \in CsvState : csv' = [csv EXCEPT ![source] = c]
    BY <1>2 DEF WriteDone, CsvState
  <2>2. UNCHANGED <<id, rows, loaded, strays, progress>>
    BY <1>2 DEF WriteDone, database
  <2> QED
    BY <2>1, <2>2
<1>3. CASE RecordSmalisa \/ Finish \/ RecordWipe
  <2>1. UNCHANGED <<csv, id, rows, loaded, strays>>
    BY <1>3 DEF RecordSmalisa, Finish, RecordWipe, database
  <2>2. progress' \in [smalisa: BOOLEAN, graph: BOOLEAN]
    BY <1>3 DEF RecordSmalisa, Finish, RecordWipe
  <2> QED
    BY <2>1, <2>2
<1>4. CASE AddSource
  <2>1. id' \in [Source -> 0 .. 2]
    BY <1>4 DEF AddSource, ControlOK
  <2> QED
    BY <1>4, <2>1 DEF AddSource
<1>5. CASE LoadDirect \/ LoadStaged
  <2>1. /\ Insert(source, Kinds[next]) \/ UNCHANGED rows
        /\ UNCHANGED <<csv, id, loaded, progress>>
    BY <1>5 DEF LoadDirect, LoadStaged
  <2>2. source \in Source /\ Kinds[next] \in Kind
    BY <1>5, AtHand DEF LoadDirect, LoadStaged
  <2>3. rows' \in [Source -> [Kind -> 0 .. 2]]
    BY <2>1, <2>2, InsertRows
  <2>4. strays' \in BOOLEAN
    BY <1>5, Zenon DEF LoadDirect, LoadStaged
  <2> QED
    BY <2>1, <2>3, <2>4
<1>6. CASE Mark
  <2>1. source \in Source /\ Kinds[next] \in Kind
    BY <1>6, AtHand DEF Mark
  <2>2. loaded' \in [Source -> SUBSET Kind]
    BY <1>6, <2>1 DEF Mark
  <2> QED
    BY <1>6, <2>2 DEF Mark
<1> QED
  BY <1>1, <1>2, <1>3, <1>4, <1>5, <1>6
  DEF Step, Analyse, WriteFails, NextApk, SkipKind, OpenKind, LeaveKind, Stage,
      LoadFails, NextSource

LEMMA StepBudget == ASSUME BudgetOK, Step PROVE BudgetOK'
<1>1. UNCHANGED budget \/ Fault
  BY DEF Step, Analyse, WriteDone, WriteFails, NextApk, RecordSmalisa, AddSource,
         SkipKind, OpenKind, LeaveKind, LoadDirect, Stage, LoadStaged, LoadFails,
         Mark, NextSource, Finish, RecordWipe
<1> QED
  BY <1>1, FaultBudget, SameBudget

LEMMA StartTyped == ASSUME TypeOK, StartSome PROVE TypeOK'
<1> DEFINE Forced == {FALSE} \cup {CanForce}
<1>0. Forced \subseteq BOOLEAN
  <2>1. CanForce \in BOOLEAN
    BY GraphAssumption
  <2> QED
    BY <2>1
<1>1. PICK forced \in Forced, only \in BOOLEAN, denied \in Denylists :
        Start(forced, only, denied)
  BY DEF StartSome
<1> HIDE DEF Forced
<1>2. DiskOK' /\ BudgetOK'
  BY <1>1, TypeParts, SameDisk, SameBudget DEF Start
<1>3. CASE UNCHANGED memory
  BY <1>2, <1>3, TypeParts, TypePartsNext DEF memory, ControlOK
<1>4. CASE \E first \in {"analyse", "source"} :
             /\ options' = [forced |-> forced, onlySmalisa |-> only]
             /\ apks' = Apk \ denied /\ BeginPhase(first)
  <2>1. options' \in [forced: BOOLEAN, onlySmalisa: BOOLEAN]
    BY <1>0, <1>4
  <2>2. apks' \subseteq Apk
    BY <1>4
  <2> QED
    BY <1>2, <1>4, <2>1, <2>2, BeginControl, TypePartsNext
<1> QED
  BY <1>1, <1>3, <1>4 DEF Start

LEMMA DatabaseTyped == ASSUME TypeOK, Wipe \/ (\E s \in Source : RemoveSource(s))
                       PROVE  TypeOK'
<1>1. CASE Wipe
  <2>1. ControlOK'
    BY <1>1, TypeParts DEF Wipe, Goto, ControlOK, Source, Analysis, Import
  <2>2. /\ id' \in [Source -> 0 .. 2]
        /\ loaded' \in [Source -> SUBSET Kind]
    BY <1>1 DEF Wipe, EmptyDatabase
  <2>3. rows' \in [Source -> [Kind -> 0 .. 2]]
    BY <1>1 DEF Wipe, EmptyDatabase, NoRows
  <2>4. DiskOK' /\ BudgetOK'
    BY <1>1, <2>2, <2>3, TypeParts, SameBudget DEF Wipe, DiskOK
  <2> QED
    BY <2>1, <2>4, TypePartsNext
<1>2. CASE \E s \in Source : RemoveSource(s)
  <2>1. PICK s \in Source : RemoveSource(s)
    BY <1>2
  <2>2. ControlOK' /\ BudgetOK'
    BY <2>1, TypeParts, SameBudget DEF RemoveSource, memory, ControlOK
  <2>3. /\ id' \in [Source -> 0 .. 2]
        /\ loaded' \in [Source -> SUBSET Kind]
    BY <2>1, TypeParts DEF RemoveSource, DiskOK
  <2>4. rows' \in [Source -> [Kind -> 0 .. 2]]
    BY <2>1, TypeParts DEF RemoveSource, DiskOK, NoRows
  <2>5. DiskOK'
    BY <2>1, <2>3, <2>4, TypeParts DEF RemoveSource, DiskOK
  <2> QED
    BY <2>2, <2>5, TypePartsNext
<1> QED
  BY <1>1, <1>2

LEMMA FaultTyped == ASSUME TypeOK, Cancel \/ Crash \/ Failure PROVE TypeOK'
<1>1. CASE Cancel
  <2>1. cancels' \in 0 .. MaxCancels
    BY <1>1, TypeParts, GraphAssumption DEF Cancel, BudgetOK
  <2>2. BudgetOK' /\ DiskOK'
    BY <1>1, <2>1, TypeParts, SameDisk DEF Cancel, BudgetOK
  <2>3. cancelled' \in BOOLEAN
    BY <1>1 DEF Cancel
  <2>4. ControlOK'
    BY <1>1, <2>3, TypeParts DEF Cancel, ControlOK
  <2> QED
    BY <2>2, <2>4, TypePartsNext
<1>2. CASE Crash
  <2>1. csv' \in [Source -> CsvState]
    BY <1>2, TypeParts DEF Crash, DiskOK
  <2>2. DiskOK'
    BY <1>2, <2>1, TypeParts DEF Crash, DiskOK, database
  <2> QED
    BY <1>2, <2>2, TypeParts, TypePartsNext, ExitControl, FaultBudget DEF Crash
<1>3. CASE Failure
  BY <1>3, TypeParts, TypePartsNext, ExitControl, FaultBudget, SameDisk DEF Failure
<1> QED
  BY <1>1, <1>2, <1>3

LEMMA InitTyped == Init => TypeOK
<1> SUFFICES ASSUME Init PROVE TypeOK
  OBVIOUS
<1>1. ControlOK
  <2>1. /\ options \in [forced: BOOLEAN, onlySmalisa: BOOLEAN]
        /\ cancelled \in BOOLEAN
    BY DEF Init
  <2>2. next \in 1 .. 10 /\ next # 10
    BY DEF Init
  <2>3. /\ pc = "idle" /\ source \in Source
        /\ todo \subseteq apks /\ apks \subseteq Apk
    BY DEF Init, Source
  <2> QED
    BY <2>1, <2>2, <2>3 DEF ControlOK
<1>2. /\ id \in [Source -> 0 .. 2] /\ loaded \in [Source -> SUBSET Kind]
      /\ csv \in [Source -> CsvState]
  BY DEF Init, EmptyDatabase, CsvState
<1>3. rows \in [Source -> [Kind -> 0 .. 2]]
  BY DEF Init, EmptyDatabase, NoRows
<1>4. progress \in [smalisa: BOOLEAN, graph: BOOLEAN]
  BY DEF Init
<1>5. BudgetOK
  BY GraphAssumption DEF Init, BudgetOK
<1>6. strays \in BOOLEAN
  BY Zenon DEF Init
<1> QED
  BY <1>1, <1>2, <1>3, <1>4, <1>5, <1>6, TypeParts DEF DiskOK

(* Every run, wipe and removal, with cancellations, failures and kills     *)
(* anywhere, keeps the command within its phases, the file at hand within  *)
(* the nine kinds, and the database within its columns.                    *)
THEOREM Typing == Spec => []TypeOK
<1>1. TypeOK /\ [Next]_vars => TypeOK'
  <2> SUFFICES ASSUME TypeOK, [Next]_vars PROVE TypeOK'
    OBVIOUS
  <2>1. CASE Step
    BY <2>1, TypeParts, TypePartsNext, StepControl, StepDisk, StepBudget
  <2>2. CASE UNCHANGED vars
    BY <2>2, TypeParts, TypePartsNext, SameDisk, SameBudget
    DEF vars, memory, ControlOK
  <2> QED
    BY <2>1, <2>2, StartTyped, DatabaseTyped, FaultTyped DEF Next
<1> QED
  BY <1>1, InitTyped, PTL DEF Spec

-------------------------------------------------------------------------------
(* The load status.                                                        *)

AtSource == {"kind", "load", "staged", "mark"}

(* Only a source with a row has a status; the source at hand has one; and  *)
(* the rows of a file are in the database before it is marked, but for an  *)
(* APK's while the framework is not source 1.                              *)
Settled ==
  /\ \A s \in Source : id[s] = 0 => loaded[s] = {}
  /\ pc \in AtSource => id[source] # 0
  /\ pc = "mark" => rows[source][Kinds[next]] > 0 \/ Apart(source, Kinds[next])
  /\ StatusMeansRows

(* A step that leaves the database alone and stays with its source.        *)
LEMMA DatabaseKept ==
  ASSUME Settled, UNCHANGED database,
         pc' \in AtSource => pc \in AtSource /\ UNCHANGED source,
         pc' # "mark"
  PROVE  Settled'
  BY DEF Settled, StatusMeansRows, database

LEMMA StepSettled == ASSUME TypeOK, Settled, Step PROVE Settled'
<1> USE TypeParts DEF AtSource
<1>1. CASE Analyse \/ NextApk \/ NextSource
  BY <1>1, DatabaseKept DEF Analyse, NextApk, NextSource, Goto, TakeApk, disk
<1>2. CASE WriteDone \/ WriteFails \/ LeaveKind \/ LoadFails \/ Finish \/ RecordWipe
  BY <1>2, DatabaseKept
  DEF WriteDone, WriteFails, LeaveKind, LoadFails, Finish, RecordWipe, Exit, Goto, disk
<1>3. CASE RecordSmalisa
  BY <1>3, DatabaseKept DEF RecordSmalisa, Exit, BeginPhase
<1>4. CASE SkipKind \/ OpenKind \/ Stage
  BY <1>4, DatabaseKept DEF SkipKind, OpenKind, Stage, AtKind, Goto, disk
<1>5. CASE AddSource
  <2>1. /\ source \in Source /\ source' = source /\ pc' = "kind"
        /\ rows' = rows /\ loaded' = loaded
    BY <1>5 DEF AddSource, Goto, ControlOK
  <2>2. CASE id[source] # 0
    BY <1>5, <2>1, <2>2 DEF AddSource, Settled, StatusMeansRows
  <2>3. CASE id[source] = 0
    <3>1. \A s \in Source : id'[s] = 0 => id[s] = 0
      BY <1>5, <2>3 DEF AddSource, DiskOK
    <3>2. id'[source] # 0
      BY <1>5, <2>1, <2>3 DEF AddSource, DiskOK
    <3>3. id'[Framework] = 1 =>
            id[Framework] = 1 \/ \A s \in Source : id[s] = 0
      BY <1>5, <2>1, <2>3 DEF AddSource, DiskOK, Source
    <3> QED
      BY <2>1, <3>1, <3>2, <3>3 DEF Settled, StatusMeansRows
  <2> QED
    BY <2>2, <2>3
<1>6. CASE LoadDirect \/ LoadStaged
  <2>1. /\ Insert(source, Kinds[next]) \/ (Apart(source, Kinds[next]) /\ UNCHANGED rows)
        /\ pc' = "mark" /\ UNCHANGED <<source, next, id, loaded>> /\ pc \in AtSource
    BY <1>6 DEF LoadDirect, LoadStaged, Goto
  <2>2. source \in Source /\ Kinds[next] \in Kind
    BY <1>6, AtHand DEF LoadDirect, LoadStaged
  <2>3. CASE Insert(source, Kinds[next])
    <3>1. /\ rows'[source][Kinds[next]] > 0
          /\ \A t \in Source, l \in Kind : rows[t][l] > 0 => rows'[t][l] > 0
      BY <2>2, <2>3, InsertRows DEF DiskOK
    <3>2. \A t \in Source : loaded[t] \subseteq Kind
      BY DEF DiskOK
    <3>3. StatusMeansRows'
      BY <2>1, <3>1, <3>2 DEF Settled, StatusMeansRows
    <3>4. rows'[source'][Kinds[next']] > 0
      BY <2>1, <3>1 DEF Kinds
    <3> QED
      BY <2>1, <3>3, <3>4 DEF Settled
  <2>4. CASE Apart(source, Kinds[next]) /\ UNCHANGED rows
    <3>1. Apart(source, Kinds[next])'
      BY <2>1, <2>4 DEF Apart, Kinds
    <3> QED
      BY <2>1, <2>4, <3>1 DEF Settled, StatusMeansRows
  <2> QED
    BY <2>1, <2>3, <2>4
<1>7. CASE Mark
  <2>1. source \in Source /\ Kinds[next] \in Kind
    BY <1>7, AtHand DEF Mark
  <2>2. /\ loaded' = [loaded EXCEPT ![source] = @ \cup {Kinds[next]}]
        /\ UNCHANGED <<source, id, rows>> /\ pc = "mark" /\ pc' = "kind"
    BY <1>7 DEF Mark
  <2>3. \A s \in Source : loaded'[s] = IF s = source THEN loaded[s] \cup {Kinds[next]}
                                       ELSE loaded[s]
    BY <2>1, <2>2 DEF DiskOK
  <2> QED
    BY <2>1, <2>2, <2>3 DEF Settled, StatusMeansRows, Apart
<1> QED
  BY <1>1, <1>2, <1>3, <1>4, <1>5, <1>6, <1>7 DEF Step

LEMMA DatabaseSettled ==
  ASSUME TypeOK, Settled, Wipe \/ (\E s \in Source : RemoveSource(s))
  PROVE  Settled'
<1> USE TypeParts DEF AtSource
<1>1. CASE Wipe
  <2>1. pc' = "wiped" /\ \A s \in Source : loaded'[s] = {}
    BY <1>1 DEF Wipe, Goto, EmptyDatabase
  <2> QED
    BY <2>1 DEF Settled, StatusMeansRows
<1>2. ASSUME NEW s \in Source, RemoveSource(s) PROVE Settled'
  <2>1. pc' = "idle"
    BY <1>2 DEF RemoveSource, memory
  <2>2. \A t \in Source :
          /\ id'[t] = IF t = s THEN 0 ELSE id[t]
          /\ loaded'[t] = IF t = s THEN {} ELSE loaded[t]
    BY <1>2 DEF RemoveSource, DiskOK
  <2>3. s # Framework => \A t \in Source \ {s} : rows'[t] = rows[t]
    BY <1>2 DEF RemoveSource
  <2>4. Framework \in Source
    BY DEF Source
  <2>5. StatusMeansRows'
    <3>1. CASE s = Framework
      BY <2>2, <2>4, <3>1 DEF StatusMeansRows
    <3>2. CASE s # Framework
      BY <2>2, <2>3, <2>4, <3>2 DEF Settled, StatusMeansRows
    <3> QED
      BY <3>1, <3>2
  <2> QED
    BY <2>1, <2>2, <2>5 DEF Settled
<1> QED
  BY <1>1, <1>2

(* A file that _load_status marks as loaded has its rows in the database,  *)
(* whatever was cancelled, failed, killed, forced, wiped, removed and      *)
(* repeated before, as long as the framework is source 1.                  *)
THEOREM StatusTrue == Spec => []StatusMeansRows
<1>1. Init => Settled
  BY DEF Init, EmptyDatabase, Settled, StatusMeansRows, AtSource
<1>2. TypeOK /\ Settled /\ [Next]_vars => Settled'
  <2> SUFFICES ASSUME TypeOK, Settled, [Next]_vars PROVE Settled'
    OBVIOUS
  <2>1. CASE StartSome
    BY <2>1, DatabaseKept
    DEF StartSome, Start, BeginPhase, memory, disk, AtSource, Settled, StatusMeansRows,
        database
  <2>2. CASE Cancel
    BY <2>2 DEF Cancel, disk, database, Settled, StatusMeansRows, Apart
  <2>3. CASE Crash \/ Failure
    BY <2>3, DatabaseKept DEF Crash, Failure, Exit, disk, AtSource
  <2>4. CASE UNCHANGED vars
    BY <2>4 DEF vars, memory, disk, database, Settled, StatusMeansRows, Apart
  <2> QED
    BY <2>1, <2>2, <2>3, <2>4, StepSettled, DatabaseSettled DEF Next
<1>3. Settled => StatusMeansRows
  BY DEF Settled
<1> QED
  BY <1>1, <1>2, <1>3, Typing, PTL DEF Spec

-------------------------------------------------------------------------------
(* The order of loading.                                                   *)

(* The kinds a kind's rows are joined with come before it, and none of     *)
(* them is one of which the removal of the framework takes rows.           *)
LEMMA KindsOrdered ==
  \A i \in 1 .. 9 : \A r \in Requires(Kinds[i]) :
    /\ r \in Kind \ Relations
    /\ \E j \in 1 .. 9 : j < i /\ Kinds[j] = r
<1>1. /\ Kinds[1] = "Classes" /\ Kinds[2] = "Supers" /\ Kinds[3] = "Interfaces"
      /\ Kinds[4] = "ClassFields" /\ Kinds[5] = "Methods" /\ Kinds[6] = "Calls"
      /\ Kinds[7] = "MethodFieldAccess" /\ Kinds[8] = "Strings"
      /\ Kinds[9] = "MethodStrings"
  BY DEF Kinds
<1> DEFINE Before(i) == {Kinds[j] : j \in {m \in 1 .. 9 : m < i}}
<1>2. \A i \in 1 .. 9 : i \in {1, 2, 3, 4, 5, 6, 7, 8, 9}
  OBVIOUS
<1>3. \A i \in 1 .. 9 : Requires(Kinds[i]) \subseteq Kind \ Relations
  <2>1. {"Classes", "ClassFields", "Methods", "Strings"} \subseteq Kind
    BY <1>1, KindsFacts
  <2> QED
    BY <1>1, <1>2, <2>1 DEF Requires, Relations
<1>4. \A i \in 1 .. 9 : Requires(Kinds[i]) \subseteq Before(i)
  <2>1. \A i \in 2 .. 9 : "Classes" \in Before(i)
    BY <1>1
  <2>2. \A i \in 5 .. 9 : "ClassFields" \in Before(i)
    BY <1>1
  <2>3. \A i \in 6 .. 9 : "Methods" \in Before(i)
    BY <1>1
  <2>4. "Strings" \in Before(9)
    BY <1>1
  <2> HIDE DEF Before
  <2> QED
    BY <1>1, <1>2, <2>1, <2>2, <2>3, <2>4 DEF Requires
<1> QED
  BY <1>3, <1>4

(* The files before the one at hand are marked; the framework's all are    *)
(* before an APK's turn; and of a marked file the rows are there that      *)
(* others are joined with, also when the framework was removed since.      *)
Ordered ==
  /\ \A s \in Source : \A k \in loaded[s] \ Relations : rows[s][k] > 0
  /\ pc \in Import => \A i \in 1 .. 9 : i < next => Kinds[i] \in loaded[source]
  /\ pc \in Import /\ source # Framework => AllLoaded(Framework)
  /\ pc = "mark" /\ Kinds[next] \notin Relations => rows[source][Kinds[next]] > 0

(* What RequirementsFirst says of one step.                                *)
GrowsInOrder ==
  \A s \in Source, k \in Kind : rows'[s][k] > rows[s][k] =>
    /\ \A r \in Requires(k) : rows[s][r] > 0
    /\ s # Framework => AllLoaded(Framework)

(* A step that leaves the database alone and does not move on.             *)
LEMMA OrderKept ==
  ASSUME TypeOK, Ordered, UNCHANGED database,
         pc' \in Import => pc \in Import /\ UNCHANGED <<source, next>>,
         pc' # "mark"
  PROVE  Ordered' /\ GrowsInOrder
<1>1. Ordered'
  BY DEF Ordered, AllLoaded, database, Source, Relations, Kinds, Kind
<1>2. \A s \in Source, k \in Kind : rows'[s][k] = rows[s][k] /\ rows[s][k] \in 0 .. 2
  BY TypeParts DEF DiskOK, database
<1> QED
  BY <1>1, <1>2 DEF GrowsInOrder

(* Behind the last file of a source all of them are marked.                *)
LEMMA FilesDone ==
  ASSUME TypeOK, Ordered, pc = "kind", next = 10
  PROVE  AllLoaded(source)
<1>1. source \in Source /\ loaded[source] \subseteq Kind
  BY TypeParts DEF ControlOK, DiskOK
<1>2. \A i \in 1 .. 9 : Kinds[i] \in loaded[source]
  BY DEF Ordered, Import
<1>3. Kind \subseteq loaded[source]
  BY <1>2, KindsFacts DEF Kind
<1> QED
  BY <1>1, <1>3 DEF AllLoaded

LEMMA StepOrdered == ASSUME TypeOK, Ordered, Step PROVE Ordered' /\ GrowsInOrder
<1> USE TypeParts
<1>0. \A s \in Source, k \in Kind : rows[s][k] \in 0 .. 2
  BY DEF DiskOK
<1>1. CASE Analyse \/ WriteDone \/ WriteFails \/ LeaveKind \/ LoadFails \/ Finish
           \/ RecordWipe
  BY <1>1, OrderKept
  DEF Analyse, WriteDone, WriteFails, LeaveKind, LoadFails, Finish, RecordWipe, Exit,
      Goto, disk, Import
<1>2. CASE NextApk
  BY <1>2, OrderKept DEF NextApk, Goto, TakeApk, disk, Import
<1>3. CASE OpenKind \/ Stage
  BY <1>3, OrderKept DEF OpenKind, Stage, AtKind, Goto, disk, Import
<1>4. CASE RecordSmalisa
  <2>1. UNCHANGED database
    BY <1>4 DEF RecordSmalisa
  <2>2. CASE Exit
    BY <2>1, <2>2, OrderKept DEF Exit, Import
  <2>3. CASE BeginPhase("source")
    <3>1. pc' = "source" /\ source' = Framework /\ next' = 1
      BY <2>3 DEF BeginPhase
    <3> QED
      BY <1>0, <2>1, <3>1 DEF Ordered, GrowsInOrder, AllLoaded, database
  <2> QED
    BY <1>4, <2>2, <2>3 DEF RecordSmalisa
<1>5. CASE AddSource
  BY <1>0, <1>5 DEF AddSource, Goto, Ordered, GrowsInOrder, AllLoaded, Import
<1>6. CASE SkipKind
  <2>1. /\ next \in 1 .. 9 /\ next' = next + 1 /\ pc = "kind" /\ pc' = "kind"
        /\ Kinds[next] \in loaded[source] /\ UNCHANGED <<source, id, rows, loaded>>
    BY <1>6, KindsFacts DEF SkipKind, AtKind, ControlOK, disk, database
  <2>2. \A i \in 1 .. 9 : i < next' => i < next \/ i = next
    BY <2>1
  <2> QED
    BY <1>0, <2>1, <2>2 DEF Ordered, GrowsInOrder, AllLoaded, Import
<1>7. CASE LoadDirect \/ LoadStaged
  <2> DEFINE kind == Kinds[next]
  <2>1. /\ Insert(source, kind) \/ (kind \in Relations /\ UNCHANGED rows)
        /\ pc' = "mark" /\ pc \in Import /\ UNCHANGED <<source, next, loaded>>
    BY <1>7 DEF LoadDirect, LoadStaged, Goto, Import, Apart
  <2>2. source \in Source /\ kind \in Kind /\ next \in 1 .. 9
    BY <1>7, AtHand DEF LoadDirect, LoadStaged
  <2>3. /\ rows'[source][kind] > 0 \/ kind \in Relations
        /\ \A t \in Source, l \in Kind : rows[t][l] > 0 => rows'[t][l] > 0
        /\ \A t \in Source, l \in Kind :
             t # source \/ l # kind => rows'[t][l] = rows[t][l]
    BY <1>0, <2>1, <2>2, InsertRows DEF DiskOK
  <2>4. \A t \in Source : loaded[t] \subseteq Kind
    BY DEF DiskOK
  <2>5. \A r \in Requires(kind) : rows[source][r] > 0
    <3>1. TAKE r \in Requires(kind)
    <3>2. r \notin Relations /\ \E j \in 1 .. 9 : j < next /\ Kinds[j] = r
      BY <2>2, KindsOrdered
    <3>3. r \in loaded[source]
      BY <2>1, <3>2 DEF Ordered
    <3> QED
      BY <2>2, <3>2, <3>3 DEF Ordered
  <2>6. source # Framework => AllLoaded(Framework)
    BY <2>1 DEF Ordered
  <2>7. GrowsInOrder
    BY <1>0, <2>3, <2>5, <2>6 DEF GrowsInOrder
  <2>8. \A s \in Source : \A k \in loaded'[s] \ Relations : rows'[s][k] > 0
    BY <2>1, <2>3, <2>4 DEF Ordered
  <2>9. rows'[source'][Kinds[next']] > 0 \/ Kinds[next'] \in Relations
    BY <2>1, <2>3
  <2>10. /\ \A i \in 1 .. 9 : i < next' => Kinds[i] \in loaded'[source']
         /\ source' # Framework => AllLoaded(Framework)'
    BY <2>1, <2>6 DEF Ordered, AllLoaded, Kind, Kinds
  <2> QED
    BY <2>7, <2>8, <2>9, <2>10 DEF Ordered, Relations
<1>8. CASE Mark
  <2> DEFINE kind == Kinds[next]
  <2>1. source \in Source /\ kind \in Kind /\ next \in 1 .. 9
    BY <1>8, AtHand DEF Mark
  <2>2. /\ loaded' = [loaded EXCEPT ![source] = @ \cup {kind}]
        /\ next' = next + 1 /\ pc = "mark" /\ pc' = "kind" /\ UNCHANGED <<source, rows>>
    BY <1>8 DEF Mark
  <2>3. \A s \in Source : loaded'[s] = IF s = source THEN loaded[s] \cup {kind}
                                       ELSE loaded[s]
    BY <2>1, <2>2 DEF DiskOK
  <2>4. \A i \in 1 .. 9 : i < next' => Kinds[i] \in loaded'[source]
    BY <2>1, <2>2, <2>3 DEF Ordered, Import
  <2>5. \A s \in Source : \A k \in loaded'[s] \ Relations : rows'[s][k] > 0
    BY <2>1, <2>2, <2>3 DEF Ordered
  <2>6. source # Framework => AllLoaded(Framework)'
    BY <2>2, <2>3 DEF Ordered, AllLoaded, Import, Source
  <2> QED
    BY <1>0, <2>2, <2>4, <2>5, <2>6 DEF Ordered, GrowsInOrder, Relations
<1>9. CASE NextSource
  <2>1. CASE todo = {}
    BY <1>9, <2>1, OrderKept DEF NextSource, Goto, disk, Import
  <2>2. CASE todo # {}
    <3>1. /\ pc = "kind" /\ pc' = "source" /\ next = 10 /\ next' = 1
          /\ source \in Source /\ UNCHANGED <<rows, loaded>>
      BY <1>9, <2>2, KindsFacts DEF NextSource, TakeApk, ControlOK, disk, database
    <3>2. AllLoaded(Framework)
      <4>1. CASE source # Framework
        BY <3>1, <4>1 DEF Ordered, Import
      <4>2. CASE source = Framework
        BY <3>1, <4>2, FilesDone
      <4> QED
        BY <4>1, <4>2
    <3> QED
      BY <1>0, <3>1, <3>2 DEF Ordered, GrowsInOrder, AllLoaded
  <2> QED
    BY <2>1, <2>2
<1> QED
  BY <1>1, <1>2, <1>3, <1>4, <1>5, <1>6, <1>7, <1>8, <1>9 DEF Step

LEMMA DatabaseOrdered ==
  ASSUME TypeOK, Ordered, Wipe \/ (\E s \in Source : RemoveSource(s))
  PROVE  Ordered' /\ GrowsInOrder
<1> USE TypeParts
<1>0. \A s \in Source, k \in Kind : rows[s][k] \in 0 .. 2
  BY DEF DiskOK
<1>1. CASE Wipe
  <2>1. pc' = "wiped" /\ \A s \in Source : loaded'[s] = {}
    BY <1>1 DEF Wipe, Goto, EmptyDatabase
  <2>2. \A s \in Source, k \in Kind : rows'[s][k] = 0
    BY <1>1 DEF Wipe, EmptyDatabase, NoRows
  <2> QED
    BY <1>0, <2>1, <2>2 DEF Ordered, GrowsInOrder, Import
<1>2. ASSUME NEW s \in Source, RemoveSource(s) PROVE Ordered' /\ GrowsInOrder
  <2>1. pc' = "idle" /\ \A t \in Source : loaded[t] \subseteq Kind
    BY <1>2 DEF RemoveSource, memory, DiskOK
  <2>2. \A t \in Source : loaded'[t] = IF t = s THEN {} ELSE loaded[t]
    BY <1>2 DEF RemoveSource, DiskOK
  <2>3. \A t \in Source, k \in Kind : rows'[t][k] = rows[t][k] \/ rows'[t][k] = 0
    BY <1>2 DEF RemoveSource, NoRows
  <2>4. \A t \in Source \ {s}, k \in Kind \ Relations : rows'[t][k] = rows[t][k]
    BY <1>2 DEF RemoveSource
  <2>5. \A t \in Source : \A k \in loaded'[t] \ Relations : rows'[t][k] > 0
    BY <2>1, <2>2, <2>4 DEF Ordered
  <2>6. GrowsInOrder
    BY <1>0, <2>3 DEF GrowsInOrder
  <2> QED
    BY <2>1, <2>5, <2>6 DEF Ordered, Import, Relations
<1> QED
  BY <1>1, <1>2

LEMMA NextOrdered ==
  ASSUME TypeOK, Ordered, [Next]_vars
  PROVE  Ordered' /\ GrowsInOrder
<1>1. CASE StartSome
  <2>1. UNCHANGED database
    BY <1>1 DEF StartSome, Start, disk
  <2>2. CASE UNCHANGED memory
    <3>1. UNCHANGED <<pc, source, next>> /\ pc = "idle"
      BY <1>1, <2>2 DEF memory, StartSome, Start
    <3> QED
      BY <2>1, <3>1, OrderKept DEF Import
  <2>3. CASE pc' \in {"source", "analyse"} /\ source' = Framework /\ next' = 1
    <3>1. \A s \in Source, k \in Kind : rows[s][k] \in 0 .. 2
      BY TypeParts DEF DiskOK
    <3> QED
      BY <2>1, <2>3, <3>1 DEF Ordered, GrowsInOrder, AllLoaded, database
  <2> QED
    BY <1>1, <2>2, <2>3 DEF StartSome, Start, BeginPhase
<1>2. CASE Cancel \/ UNCHANGED vars
  <2>1. UNCHANGED <<pc, source, next, rows, loaded>>
    BY <1>2 DEF Cancel, vars, memory, disk, database
  <2>2. \A s \in Source, k \in Kind : rows[s][k] \in 0 .. 2
    BY TypeParts DEF DiskOK
  <2> QED
    BY <2>1, <2>2 DEF Ordered, GrowsInOrder, AllLoaded
<1>3. CASE Crash \/ Failure
  BY <1>3, OrderKept DEF Crash, Failure, Exit, disk, Import
<1> QED
  BY <1>1, <1>2, <1>3, StepOrdered, DatabaseOrdered DEF Next

LEMMA InitOrdered == Init => Ordered
  BY DEF Init, EmptyDatabase, Ordered, Import

(* While the framework is source 1, rows are inserted only when all the    *)
(* rows that the statements join them with are in the database, whatever   *)
(* was interrupted, removed and repeated before.                           *)
THEOREM OrderOfLoading == Spec => RequirementsFirst
<1>1. TypeOK /\ Ordered /\ [Next]_vars => Ordered' /\ GrowsInOrder
  BY NextOrdered
<1>2. TypeOK /\ StatusMeansRows /\ GrowsInOrder =>
        (id[Framework] = 1 =>
           \A s \in Source, k \in Kind : rows'[s][k] > rows[s][k] =>
             /\ \A r \in Requires(k) : rows[s][r] > 0
             /\ s # Framework =>
                  AllLoaded(Framework) /\ \A l \in Kind : rows[Framework][l] > 0)
  BY DEF GrowsInOrder, StatusMeansRows, AllLoaded, Source
<1> QED
  BY <1>1, <1>2, InitOrdered, Typing, StatusTrue, PTL DEF Spec, RequirementsFirst

-------------------------------------------------------------------------------
(* Runs without a kill or a failure.                                       *)

(* A step after which there was no fault is not one, and comes after none. *)
LEMMA FaultFree ==
  ASSUME TypeOK, [Next]_vars, faults' = 0
  PROVE  faults = 0 /\ ~Fault /\ ~Crash /\ ~Failure
<1>1. faults \in Nat
  BY TypeParts, GraphAssumption DEF BudgetOK
<1>2. ~Fault
  BY <1>1 DEF Fault
<1>3. ~Crash /\ ~Failure
  BY <1>2 DEF Crash, Failure
<1>4. faults = 0
  <2>1. CASE Step
    <3>1. UNCHANGED budget
      BY <1>2, <2>1
      DEF Step, Analyse, WriteDone, WriteFails, NextApk, RecordSmalisa, AddSource,
          SkipKind, OpenKind, LeaveKind, LoadDirect, Stage, LoadStaged, LoadFails,
          Mark, NextSource, Finish, RecordWipe
    <3> QED
      BY <3>1 DEF budget
  <2>2. CASE StartSome
    BY <2>2 DEF StartSome, Start, budget
  <2>3. CASE Wipe \/ (\E s \in Source : RemoveSource(s)) \/ Cancel
    BY <2>3 DEF Wipe, RemoveSource, Cancel, budget
  <2>4. CASE UNCHANGED vars
    BY <2>4 DEF vars, budget
  <2> QED
    BY <1>3, <2>1, <2>2, <2>3, <2>4 DEF Next
<1> QED
  BY <1>2, <1>3, <1>4

(* Rows are there once, and only of files that are marked or about to be;  *)
(* the file that is being loaded is not.                                   *)
Single    == \A s \in Source, k \in Kind : rows[s][k] <= 1
Accounted ==
  \A s \in Source, k \in Kind : rows[s][k] > 0 =>
    k \in loaded[s] \/ (pc = "mark" /\ source = s /\ Kinds[next] = k)
NotMarked == pc \in {"load", "staged"} => Kinds[next] \notin loaded[source]

Once == faults = 0 => Single /\ Accounted /\ NotMarked

LEMMA InsertOnce ==
  ASSUME NEW s \in Source, NEW k \in Kind,
         rows \in [Source -> [Kind -> 0 .. 2]], Insert(s, k), rows[s][k] = 0
  PROVE  rows'[s][k] = 1
<1>1. rows' = [rows EXCEPT ![s] = [rows[s] EXCEPT ![k] = 1]]
  BY DEF Insert, MaxCopies
<1> QED
  BY <1>1

(* A step that leaves the database alone, and the file at hand, too.       *)
LEMMA OnceKept ==
  ASSUME Single, Accounted, NotMarked, UNCHANGED database,
         pc # "mark", pc' \in {"load", "staged"} => pc \in {"load", "staged"}
                                                    /\ UNCHANGED <<source, next>>
  PROVE  Single' /\ Accounted' /\ NotMarked'
  BY DEF Single, Accounted, NotMarked, database, Kinds

LEMMA StepOnce ==
  ASSUME TypeOK, Step, Single, Accounted, NotMarked, ~Fault
  PROVE  Single' /\ Accounted' /\ NotMarked'
<1> USE TypeParts
<1>1. CASE Analyse \/ WriteDone \/ WriteFails \/ LeaveKind \/ LoadFails \/ Finish
           \/ RecordWipe
  BY <1>1, OnceKept
  DEF Analyse, WriteDone, WriteFails, LeaveKind, LoadFails, Finish, RecordWipe, Exit,
      Goto, disk, AtKind
<1>2. CASE NextApk \/ NextSource
  BY <1>2, OnceKept DEF NextApk, NextSource, Goto, TakeApk, disk
<1>3. CASE RecordSmalisa
  BY <1>3, OnceKept DEF RecordSmalisa, Exit, BeginPhase
<1>4. CASE SkipKind \/ Stage
  BY <1>4, OnceKept DEF SkipKind, Stage, AtKind, Goto, disk
<1>5. CASE AddSource
  BY <1>5 DEF AddSource, Goto, Single, Accounted, NotMarked
<1>6. CASE OpenKind
  <2>1. /\ pc = "kind" /\ pc' = "load" /\ Kinds[next] \notin loaded[source]
        /\ UNCHANGED <<source, next, rows, loaded>>
    BY <1>6 DEF OpenKind, AtKind, Goto, disk, database
  <2> QED
    BY <2>1 DEF Single, Accounted, NotMarked
<1>7. CASE LoadDirect \/ LoadStaged
  <2> DEFINE kind == Kinds[next]
  <2>1. /\ Insert(source, kind) \/ UNCHANGED rows
        /\ pc' = "mark" /\ pc \in {"load", "staged"} /\ UNCHANGED <<source, next, loaded>>
    BY <1>7 DEF LoadDirect, LoadStaged, Goto
  <2>2. source \in Source /\ kind \in Kind
    BY <2>1, AtHand
  <2>3. rows[source][kind] = 0
    <3>1. rows[source][kind] \in 0 .. 2
      BY <2>2 DEF DiskOK
    <3>2. ~(rows[source][kind] > 0)
      BY <2>1, <2>2 DEF Accounted, NotMarked
    <3> QED
      BY <3>1, <3>2
  <2>4. rows'[source][kind] <= 1
    BY <2>1, <2>2, <2>3, InsertOnce DEF DiskOK
  <2>5. \A t \in Source, l \in Kind : t # source \/ l # kind => rows'[t][l] = rows[t][l]
    BY <2>1, <2>2, InsertRows DEF DiskOK
  <2>6. Single'
    BY <2>4, <2>5 DEF Single
  <2>7. Accounted'
    BY <2>1, <2>5 DEF Accounted
  <2> QED
    BY <2>1, <2>6, <2>7 DEF NotMarked
<1>8. CASE Mark
  <2>1. source \in Source /\ Kinds[next] \in Kind
    BY <1>8, AtHand DEF Mark
  <2>2. pc' = "kind" /\ UNCHANGED rows
    BY <1>8 DEF Mark
  <2>3. \A s \in Source : loaded'[s] = IF s = source THEN loaded[s] \cup {Kinds[next]}
                                       ELSE loaded[s]
    BY <1>8, <2>1 DEF Mark, DiskOK
  <2> QED
    BY <2>2, <2>3 DEF Single, Accounted, NotMarked
<1> QED
  BY <1>1, <1>2, <1>3, <1>4, <1>5, <1>6, <1>7, <1>8 DEF Step

LEMMA DatabaseOnce ==
  ASSUME TypeOK, Single, Accounted, NotMarked,
         Wipe \/ (\E s \in Source : RemoveSource(s))
  PROVE  Single' /\ Accounted' /\ NotMarked'
<1>1. CASE Wipe
  <2>1. pc' = "wiped"
    BY <1>1 DEF Wipe, Goto
  <2>2. \A s \in Source, k \in Kind : rows'[s][k] = 0
    BY <1>1 DEF Wipe, EmptyDatabase, NoRows
  <2> QED
    BY <2>1, <2>2 DEF Single, Accounted, NotMarked
<1>2. ASSUME NEW s \in Source, RemoveSource(s)
      PROVE  Single' /\ Accounted' /\ NotMarked'
  <2>1. pc = "idle" /\ pc' = "idle"
    BY <1>2 DEF RemoveSource, memory
  <2>2. \A t \in Source : loaded'[t] = IF t = s THEN {} ELSE loaded[t]
    BY <1>2, TypeParts DEF RemoveSource, DiskOK
  <2>3. \A t \in Source, k \in Kind :
          rows'[t][k] = 0 \/ (t # s /\ rows'[t][k] = rows[t][k])
    BY <1>2 DEF RemoveSource, NoRows
  <2> QED
    BY <2>1, <2>2, <2>3 DEF Single, Accounted, NotMarked
<1> QED
  BY <1>1, <1>2

(* However often the setup is cancelled, repeated, forced or wiped, and    *)
(* whatever is removed, no row is in the database twice, as long as no     *)
(* statement fails and no process is killed: load_csv and                  *)
(* update_load_status then always come together.                           *)
THEOREM NothingTwice == Spec => []OneCopy
<1>1. Init => Once
  <2>1. Init => \A s \in Source, k \in Kind : rows[s][k] = 0
    BY DEF Init, EmptyDatabase, NoRows
  <2> QED
    BY <2>1 DEF Init, Once, Single, Accounted, NotMarked
<1>2. TypeOK /\ Once /\ [Next]_vars => Once'
  <2> SUFFICES ASSUME TypeOK, Once, [Next]_vars, faults' = 0
               PROVE  Single' /\ Accounted' /\ NotMarked'
    BY DEF Once
  <2>1. /\ Single /\ Accounted /\ NotMarked
        /\ ~Fault /\ ~Crash /\ ~Failure
    BY FaultFree DEF Once
  <2>2. CASE StartSome
    <3>1. pc = "idle" /\ UNCHANGED database
      BY <2>2 DEF StartSome, Start, disk
    <3>2. pc' \notin {"load", "staged"}
      BY <2>2, <3>1 DEF StartSome, Start, BeginPhase, memory
    <3> QED
      BY <2>1, <3>1, <3>2, OnceKept
  <2>3. CASE Cancel \/ UNCHANGED vars
    <3>1. UNCHANGED <<pc, source, next, rows, loaded>>
      BY <2>3 DEF Cancel, vars, memory, disk, database
    <3> QED
      BY <2>1, <3>1 DEF Single, Accounted, NotMarked
  <2> QED
    BY <2>1, <2>2, <2>3, StepOnce, DatabaseOnce DEF Next
<1>3. Once => OneCopy
  BY DEF Once, Single, OneCopy
<1> QED
  BY <1>1, <1>2, <1>3, Typing, PTL DEF Spec

-------------------------------------------------------------------------------
(* What is recorded at the end.                                            *)

(* Without a fault the files of a source are written completely or not at  *)
(* all, and no file of a source is loaded before they are.                 *)
WholeOrNone  == \A s \in Source : csv[s] \in {"none", "whole"}
LoadedWhole  == \A s \in Source : loaded[s] # {} => csv[s] = "whole"
LoadingWhole == pc \in {"load", "staged", "mark"} => csv[source] = "whole"

FilesWhole == faults = 0 => WholeOrNone /\ LoadedWhole /\ LoadingWhole

(* A step that leaves the files and their status alone.                    *)
LEMMA WholeKept ==
  ASSUME WholeOrNone, LoadedWhole, LoadingWhole, UNCHANGED <<csv, loaded>>,
         pc' \in {"load", "staged", "mark"} =>
           pc \in {"load", "staged", "mark"} /\ UNCHANGED source
  PROVE  WholeOrNone' /\ LoadedWhole' /\ LoadingWhole'
  BY DEF WholeOrNone, LoadedWhole, LoadingWhole

LEMMA StepWhole ==
  ASSUME TypeOK, Step, WholeOrNone, LoadedWhole, LoadingWhole, ~Fault
  PROVE  WholeOrNone' /\ LoadedWhole' /\ LoadingWhole'
<1> USE TypeParts
<1>1. CASE Analyse \/ WriteFails \/ LeaveKind \/ LoadFails \/ Finish \/ RecordWipe
  BY <1>1, WholeKept
  DEF Analyse, WriteFails, LeaveKind, LoadFails, Finish, RecordWipe, Exit, Goto, disk,
      database
<1>2. CASE NextApk \/ NextSource
  BY <1>2, WholeKept DEF NextApk, NextSource, Goto, TakeApk, disk, database
<1>3. CASE RecordSmalisa
  BY <1>3, WholeKept DEF RecordSmalisa, Exit, BeginPhase, database
<1>4. CASE SkipKind \/ Stage \/ LoadDirect \/ LoadStaged
  BY <1>4, WholeKept
  DEF SkipKind, Stage, LoadDirect, LoadStaged, AtKind, Goto, disk, database
<1>5. CASE AddSource
  BY <1>5, WholeKept DEF AddSource, Goto
<1>6. CASE OpenKind
  <2>1. /\ source \in Source /\ csv[source] # "none" /\ source' = source
        /\ UNCHANGED <<csv, loaded>>
    BY <1>6 DEF OpenKind, AtKind, Goto, ControlOK, disk, database
  <2> QED
    BY <2>1 DEF WholeOrNone, LoadedWhole, LoadingWhole
<1>7. CASE WriteDone
  <2>1. source \in Source /\ pc' = "nextapk" /\ UNCHANGED loaded
    BY <1>7 DEF WriteDone, Goto, ControlOK, database
  <2>2. csv' = [csv EXCEPT ![source] = "whole"]
    BY <1>7 DEF WriteDone
  <2>3. \A s \in Source : csv'[s] = IF s = source THEN "whole" ELSE csv[s]
    BY <2>1, <2>2 DEF DiskOK
  <2> QED
    BY <2>1, <2>3 DEF WholeOrNone, LoadedWhole, LoadingWhole
<1>8. CASE Mark
  <2>1. source \in Source /\ pc = "mark" /\ pc' = "kind" /\ UNCHANGED csv
    BY <1>8 DEF Mark, ControlOK
  <2>2. \A s \in Source \ {source} : loaded'[s] = loaded[s]
    BY <1>8, <2>1 DEF Mark, DiskOK
  <2> QED
    BY <2>1, <2>2 DEF WholeOrNone, LoadedWhole, LoadingWhole
<1> QED
  BY <1>1, <1>2, <1>3, <1>4, <1>5, <1>6, <1>7, <1>8 DEF Step

LEMMA NextWhole ==
  ASSUME TypeOK, FilesWhole, [Next]_vars
  PROVE  FilesWhole'
<1> SUFFICES ASSUME faults' = 0
             PROVE  WholeOrNone' /\ LoadedWhole' /\ LoadingWhole'
  BY DEF FilesWhole
<1>1. /\ WholeOrNone /\ LoadedWhole /\ LoadingWhole
      /\ ~Fault /\ ~Crash /\ ~Failure
  BY FaultFree DEF FilesWhole
<1>2. CASE StartSome
  <2>1. UNCHANGED <<csv, loaded>>
    BY <1>2 DEF StartSome, Start, disk, database
  <2>2. pc' \notin {"load", "staged", "mark"}
    BY <1>2 DEF StartSome, Start, BeginPhase, memory
  <2> QED
    BY <1>1, <2>1, <2>2, WholeKept
<1>3. CASE Wipe
  <2>1. pc' = "wiped" /\ UNCHANGED csv /\ \A s \in Source : loaded'[s] = {}
    BY <1>3 DEF Wipe, Goto, EmptyDatabase
  <2> QED
    BY <1>1, <2>1 DEF WholeOrNone, LoadedWhole, LoadingWhole
<1>4. ASSUME NEW s \in Source, RemoveSource(s)
      PROVE  WholeOrNone' /\ LoadedWhole' /\ LoadingWhole'
  <2>1. pc' = "idle" /\ UNCHANGED csv
    BY <1>4 DEF RemoveSource, memory
  <2>2. \A t \in Source : loaded'[t] \in {{}, loaded[t]}
    BY <1>4, TypeParts DEF RemoveSource, DiskOK
  <2> QED
    BY <1>1, <2>1, <2>2 DEF WholeOrNone, LoadedWhole, LoadingWhole
<1>5. CASE Cancel \/ UNCHANGED vars
  <2>1. UNCHANGED <<pc, source, csv, loaded>>
    BY <1>5 DEF Cancel, vars, memory, disk, database
  <2> QED
    BY <1>1, <2>1, WholeKept
<1> QED
  BY <1>1, <1>2, <1>3, <1>4, <1>5, StepWhole DEF Next

(* The sources that the import has passed are loaded.                      *)
Passed == ({Framework} \cup apks) \ (todo \cup {source})
SourcesDone ==
  /\ pc \in Import => \A s \in Passed : AllLoaded(s)
  /\ pc = "finish" => \A s \in {Framework} \cup apks : AllLoaded(s)

(* A step that stays with its source keeps what is loaded.                 *)
LEMMA DoneKept ==
  ASSUME TypeOK, SourcesDone, \A s \in Source : AllLoaded(s) => AllLoaded(s)',
         pc' \in Import => pc \in Import /\ UNCHANGED <<source, todo, apks>>,
         pc' # "finish"
  PROVE  SourcesDone'
<1>1. {Framework} \cup apks \subseteq Source
  BY TypeParts DEF ControlOK, Source
<1> SUFFICES ASSUME pc' \in Import, NEW s \in Passed'
             PROVE  AllLoaded(s)'
  BY DEF SourcesDone
<1>2. s \in Passed /\ AllLoaded(s)
  BY DEF SourcesDone, Passed
<1> QED
  BY <1>1, <1>2 DEF Passed

LEMMA StepDone ==
  ASSUME TypeOK, Ordered, SourcesDone, Step
  PROVE  SourcesDone'
<1> USE TypeParts
<1>0. {Framework} \cup apks \subseteq Source
  BY DEF ControlOK, Source
<1>1. CASE Analyse \/ WriteDone \/ WriteFails \/ NextApk \/ LeaveKind \/ LoadFails
           \/ Finish \/ RecordWipe
  <2>1. pc' \notin Import \cup {"finish"}
    BY <1>1
    DEF Analyse, WriteDone, WriteFails, NextApk, LeaveKind, LoadFails, Finish,
        RecordWipe, Exit, Goto, TakeApk, Import
  <2> QED
    BY <2>1 DEF SourcesDone
<1>2. CASE RecordSmalisa
  <2>1. CASE Exit
    BY <2>1 DEF Exit, SourcesDone, Import
  <2>2. CASE BeginPhase("source")
    <3>1. pc' = "source" /\ source' = Framework /\ todo' = apks'
      BY <2>2 DEF BeginPhase
    <3>2. Passed' = {}
      BY <3>1 DEF Passed
    <3> QED
      BY <3>1, <3>2 DEF SourcesDone
  <2> QED
    BY <1>2, <2>1, <2>2 DEF RecordSmalisa
<1>3. CASE AddSource \/ SkipKind \/ OpenKind \/ LoadDirect \/ Stage \/ LoadStaged
  <2>1. /\ pc \in Import /\ pc' \in Import
        /\ UNCHANGED <<source, todo, apks, loaded>>
    BY <1>3
    DEF AddSource, SkipKind, OpenKind, LoadDirect, Stage, LoadStaged, AtKind, Goto,
        disk, database, Import
  <2> QED
    BY <2>1, DoneKept DEF AllLoaded, Import
<1>4. CASE Mark
  <2>1. /\ pc \in Import /\ pc' = "kind" /\ UNCHANGED <<source, todo, apks>>
    BY <1>4 DEF Mark, Import
  <2>2. source \in Source /\ Kinds[next] \in Kind
    BY <1>4, AtHand DEF Mark
  <2>3. \A s \in Source : loaded'[s] = IF s = source THEN loaded[s] \cup {Kinds[next]}
                                       ELSE loaded[s]
    BY <1>4, <2>2 DEF Mark, DiskOK
  <2>4. \A s \in Source : AllLoaded(s) => AllLoaded(s)'
    BY <2>2, <2>3 DEF AllLoaded
  <2> QED
    BY <2>1, <2>4, DoneKept DEF Import
<1>5. CASE NextSource
  <2>1. pc = "kind" /\ next = 10 /\ UNCHANGED <<apks, loaded>>
    BY <1>5, KindsFacts DEF NextSource, Goto, TakeApk, ControlOK, disk, database
  <2>2. AllLoaded(source)
    BY <2>1, FilesDone
  <2>3. \A s \in Passed : AllLoaded(s)
    BY <2>1 DEF SourcesDone, Import
  <2>4. CASE todo = {}
    <3>1. pc' = "finish"
      BY <1>5, <2>4 DEF NextSource, Goto
    <3>2. \A s \in {Framework} \cup apks : AllLoaded(s)
      BY <2>2, <2>3, <2>4 DEF Passed
    <3> QED
      BY <2>1, <3>1, <3>2 DEF SourcesDone, AllLoaded, Import
  <2>5. CASE todo # {}
    <3>1. pc' = "source" /\ todo' = todo \ {source'}
      BY <1>5, <2>5 DEF NextSource, TakeApk
    <3>2. Passed' \subseteq Passed \cup {source}
      BY <2>1, <3>1 DEF Passed
    <3> QED
      BY <2>1, <2>2, <2>3, <3>1, <3>2 DEF SourcesDone, AllLoaded
  <2> QED
    BY <2>4, <2>5
<1> QED
  BY <1>1, <1>2, <1>3, <1>4, <1>5 DEF Step

LEMMA NextDone ==
  ASSUME TypeOK, Ordered, SourcesDone, [Next]_vars
  PROVE  SourcesDone'
<1>1. CASE StartSome
  <2>1. CASE UNCHANGED memory
    BY <1>1, <2>1 DEF StartSome, Start, memory, SourcesDone, Import
  <2>2. CASE pc' \in {"source", "analyse"} /\ source' = Framework /\ todo' = apks'
    <3>1. Passed' = {}
      BY <2>2 DEF Passed
    <3> QED
      BY <2>2, <3>1 DEF SourcesDone
  <2> QED
    BY <1>1, <2>1, <2>2 DEF StartSome, Start, BeginPhase
<1>2. CASE Wipe \/ (\E s \in Source : RemoveSource(s)) \/ Crash \/ Failure
  <2>1. pc' \in {"wiped", "idle"}
    BY <1>2 DEF Wipe, RemoveSource, Crash, Failure, Goto, Exit, memory
  <2> QED
    BY <2>1 DEF SourcesDone, Import
<1>3. CASE Cancel \/ UNCHANGED vars
  <2>1. UNCHANGED <<pc, source, todo, apks, loaded>>
    BY <1>3 DEF Cancel, vars, memory, disk, database
  <2> QED
    BY <2>1 DEF SourcesDone, Passed, AllLoaded
<1> QED
  BY <1>1, <1>2, <1>3, StepDone DEF Next

(* What DoneMeansAll says of one step.                                     *)
DoneWithAll ==
  progress'.graph /\ ~progress.graph =>
    \A s \in {Framework} \cup apks :
      AllLoaded(s) /\ (faults = 0 => csv[s] = "whole")

(* Only the last step of an import records that the graph is set up.       *)
LEMMA OnlyFinish ==
  ASSUME TypeOK, [Next]_vars, progress'.graph, ~progress.graph
  PROVE  pc = "finish"
<1>1. progress \in [smalisa: BOOLEAN, graph: BOOLEAN] /\ progress' # progress
  BY TypeParts DEF DiskOK
<1>2. ~(UNCHANGED disk) /\ ~(UNCHANGED progress)
  BY <1>1 DEF disk
<1>3. ~StartSome /\ ~Wipe /\ ~(\E s \in Source : RemoveSource(s))
  BY <1>2 DEF StartSome, Start, Wipe, RemoveSource
<1>4. ~Cancel /\ ~Crash /\ ~Failure /\ ~(UNCHANGED vars)
  BY <1>2 DEF Cancel, Crash, Failure, vars
<1>5. ~RecordSmalisa /\ ~RecordWipe
  BY <1>1 DEF RecordSmalisa, RecordWipe
<1>6. Finish
  BY <1>2, <1>3, <1>4, <1>5
  DEF Next, Step, Analyse, WriteDone, WriteFails, NextApk, AddSource, SkipKind,
      OpenKind, LeaveKind, LoadDirect, Stage, LoadStaged, LoadFails, Mark, NextSource
<1> QED
  BY <1>6 DEF Finish

(* The setup is recorded only when every file of the framework and of      *)
(* every APK of that run is marked as loaded, and the analysis of each of  *)
(* these sources was complete unless there was a kill or a failure.        *)
THEOREM AllOfIt == Spec => DoneMeansAll
<1>1. Init => FilesWhole /\ SourcesDone
  BY DEF Init, EmptyDatabase, FilesWhole, WholeOrNone, LoadedWhole, LoadingWhole,
         SourcesDone, Import
<1>2. TypeOK /\ FilesWhole /\ Ordered /\ SourcesDone /\ [Next]_vars
        => FilesWhole' /\ Ordered' /\ SourcesDone'
  BY NextWhole, NextOrdered, NextDone
<1>3. TypeOK /\ FilesWhole /\ SourcesDone /\ [Next]_vars => DoneWithAll
  <2> SUFFICES ASSUME TypeOK, FilesWhole, SourcesDone, [Next]_vars,
                      progress'.graph, ~progress.graph,
                      NEW s \in {Framework} \cup apks
               PROVE  AllLoaded(s) /\ (faults = 0 => csv[s] = "whole")
    BY DEF DoneWithAll
  <2>1. AllLoaded(s)
    BY OnlyFinish DEF SourcesDone
  <2>2. s \in Source /\ loaded[s] # {}
    BY <2>1, TypeParts, KindsFacts DEF AllLoaded, ControlOK, Source
  <2> QED
    BY <2>1, <2>2 DEF FilesWhole, LoadedWhole
<1>4. DoneWithAll =>
        (progress'.graph /\ ~progress.graph =>
           \A s \in {Framework} \cup apks :
             AllLoaded(s) /\ (faults = 0 => csv[s] = "whole"))
  BY DEF DoneWithAll
<1> QED
  BY <1>1, <1>2, <1>3, <1>4, InitOrdered, Typing, PTL DEF Spec, DoneMeansAll

-------------------------------------------------------------------------------
(* A set of naturals below a bound has a least element.                    *)
LEMMA LeastOf ==
  ASSUME NEW n \in Nat, NEW V, V \subseteq 0..n, V # {}
  PROVE  \E i \in V : \A j \in V : i <= j
<1> DEFINE Under(i) == {j \in V : j < i}
           All == {Under(i) : i \in V}
<1>1. \A i \in V : i \in Nat /\ IsFiniteSet(Under(i)) /\ Under(i) \subseteq Nat
  <2> SUFFICES ASSUME NEW i \in V
               PROVE  i \in Nat /\ IsFiniteSet(Under(i)) /\ Under(i) \subseteq Nat
    OBVIOUS
  <2>1. IsFiniteSet(0..n)
    BY FS_Interval
  <2>2. Under(i) \in SUBSET (0..n)
    OBVIOUS
  <2>3. IsFiniteSet(Under(i))
    BY <2>1, <2>2, FS_Subset
  <2> QED
    BY <2>2, <2>3
<1>2. All \subseteq FiniteSubsetsOf(Nat) /\ All # {}
  BY <1>1 DEF FiniteSubsetsOf
<1>3. IsWellFoundedOn(StrictSubsetOrdering(Nat), FiniteSubsetsOf(Nat))
  BY FS_StrictSubsetOrderingWellFounded
<1> HIDE DEF All
<1>4. PICK X \in All : \A Y \in All : <<Y, X>> \notin StrictSubsetOrdering(Nat)
  BY <1>2, <1>3, WFMin
<1>5. PICK i \in V : X = Under(i)
  BY <1>4 DEF All
<1>6. ASSUME NEW j \in V, j < i
      PROVE  FALSE
  <2>1. Under(j) \in All
    BY DEF All
  <2>2. Under(j) \subseteq Under(i) /\ j \in Under(i) /\ j \notin Under(j)
    <3>1. \A x \in V : x \in Int
      OBVIOUS
    <3>2. \A x \in V : x < j => x < i
      BY <1>6, <3>1
    <3>3. ~(j < j)
      BY <3>1
    <3> QED
      BY <1>6, <3>2, <3>3
  <2>3. <<Under(j), Under(i)>> \in StrictSubsetOrdering(Nat)
    BY <1>1, <2>2 DEF StrictSubsetOrdering
  <2> QED
    BY <1>4, <1>5, <2>1, <2>3
<1> QED
  BY <1>1, <1>6

-------------------------------------------------------------------------------
(* What is in the files of a source.                                       *)

LEMMA CsvIs ==
  ASSUME NEW s \in Source
  PROVE  /\ Csv[s].classes = UNION {RowsOfFile(Smali[s][n]).classes : n \in DOMAIN Smali[s]}
         /\ Csv[s].fields = UNION {RowsOfFile(Smali[s][n]).fields : n \in DOMAIN Smali[s]}
         /\ Csv[s].methods = UNION {RowsOfFile(Smali[s][n]).methods : n \in DOMAIN Smali[s]}
         /\ Csv[s].calls = UNION {RowsOfFile(Smali[s][n]).calls : n \in DOMAIN Smali[s]}
         /\ Csv[s].access = UNION {RowsOfFile(Smali[s][n]).access : n \in DOMAIN Smali[s]}
         /\ Csv[s].strings = UNION {RowsOfFile(Smali[s][n]).strings : n \in DOMAIN Smali[s]}
         /\ Csv[s].methodStrings =
              UNION {RowsOfFile(Smali[s][n]).methodStrings : n \in DOMAIN Smali[s]}
<1>1. s \in DOMAIN Smali
  BY RowsAssumption
<1>2. Csv[s] = [t \in Tables |-> UNION {RowsOfFile(Smali[s][n])[t] : n \in DOMAIN Smali[s]}]
  BY <1>1 DEF Csv
<1> QED
  BY <1>2 DEF Tables

LEMMA LinesAre ==
  ASSUME NEW s \in Source, NEW n \in DOMAIN Smali[s]
  PROVE  LET file == Smali[s][n]
         IN /\ Len(file.lines) \in Nat /\ DOMAIN file.lines = 1 .. Len(file.lines)
            /\ \A i \in DOMAIN file.lines :
                 /\ i = 1 <=> file.lines[i].line = "class"
                 /\ file.lines[i].line = "access" =>
                      LET f == file.lines[i].field
                      IN f = [class |-> f.class, name |-> f.name, type |-> f.type]
<1>1. s \in DOMAIN Smali
  BY RowsAssumption
<1> QED
  BY <1>1, SmaliAssumption

(* The class of a file, its methods and fields.                            *)
LEMMA FileIs ==
  ASSUME NEW s \in Source, NEW n \in DOMAIN Smali[s], NEW i \in Reached(Smali[s][n])
  PROVE  /\ \A l \in The(Smali[s][n], "class") : l.name = ClassOf(Smali[s][n])
         /\ 1 \in At(Smali[s][n], "class")
<1> DEFINE file == Smali[s][n]
<1>1. /\ Len(file.lines) \in Nat /\ DOMAIN file.lines = 1 .. Len(file.lines)
      /\ \A j \in DOMAIN file.lines : j = 1 <=> file.lines[j].line = "class"
  BY LinesAre
<1>2. i \in DOMAIN file.lines /\ \A j \in 1 .. i : ~Stops(file.lines[j])
      /\ ~file.ignored
  BY DEF Reached
<1> HIDE DEF file
<1>3. 1 \in DOMAIN file.lines /\ 1 \in 1 .. i /\ 1 .. 1 \subseteq 1 .. i
  BY <1>1, <1>2
<1>4. 1 \in Reached(file)
  BY <1>2, <1>3 DEF Reached
<1>5. 1 \in At(file, "class")
  BY <1>1, <1>3, <1>4 DEF At
<1>6. \A l \in The(file, "class") : l.name = ClassOf(file)
  BY <1>1 DEF The, At, Reached, ClassOf
<1> QED
  BY <1>5, <1>6 DEF file

(* What the files say of a method they relate something to.                *)
MethodKnown(m, s) ==
  m = [class |-> m.class, name |-> m.name, args |-> m.args] /\ Overloads(m, s) # {}

(* A header is the line of a method of the file.                           *)
LEMMA HeaderIs ==
  ASSUME NEW s \in Source, NEW n \in DOMAIN Smali[s], NEW i,
         NEW m \in MethodsAt(Smali[s][n], i)
  PROVE  MethodKnown(m, s)
<1> DEFINE file == Smali[s][n]
<1>1. PICK j \in HeaderAt(file, i) :
        m = [class |-> ClassOf(file), name |-> file.lines[j].name, args |-> file.lines[j].args]
  BY DEF MethodsAt
<1>2. file.lines[j] \in The(file, "method")
  BY <1>1 DEF HeaderAt, The
<1>3. PICK d : d = [class |-> ClassOf(file), name |-> file.lines[j].name,
                    args |-> file.lines[j].args, ret |-> file.lines[j].ret]
  OBVIOUS
<1>4. d \in RowsOfFile(file).methods
  BY <1>2, <1>3 DEF RowsOfFile
<1>5. d \in Csv[s].methods
  BY <1>4, CsvIs
<1>6. d.class = m.class /\ d.name = m.name /\ d.args = m.args
  BY <1>1, <1>3
<1>7. d \in Overloads(m, s)
  BY <1>5, <1>6 DEF Overloads
<1>8. m = [class |-> m.class, name |-> m.name, args |-> m.args]
  BY <1>1
<1> QED
  BY <1>7, <1>8 DEF MethodKnown

(* A source defines the class of every file of which a line was read.      *)
LEMMA ClassDefined ==
  ASSUME NEW s \in Source, NEW n \in DOMAIN Smali[s], Reached(Smali[s][n]) # {}
  PROVE  Defines(s, ClassOf(Smali[s][n]))
<1> DEFINE file == Smali[s][n]
<1>1. 1 \in At(file, "class")
  BY FileIs
<1>2. file.lines[1] \in The(file, "class")
  BY <1>1 DEF The
<1>3. [name |-> file.lines[1].name, flags |-> file.lines[1].flags] \in RowsOfFile(file).classes
  BY <1>2 DEF RowsOfFile
<1>4. [name |-> file.lines[1].name, flags |-> file.lines[1].flags] \in Csv[s].classes
  BY <1>3, CsvIs
<1> QED
  BY <1>4 DEF Defines, ClassOf

LEMMA MethodsDefined ==
  ASSUME NEW s \in Source, NEW m \in Csv[s].methods
  PROVE  /\ m = [class |-> m.class, name |-> m.name, args |-> m.args, ret |-> m.ret]
         /\ Defines(s, m.class)
<1>1. PICK n \in DOMAIN Smali[s] : m \in RowsOfFile(Smali[s][n]).methods
  BY CsvIs
<1>2. PICK l \in The(Smali[s][n], "method") :
        m = [class |-> ClassOf(Smali[s][n]), name |-> l.name, args |-> l.args, ret |-> l.ret]
  BY <1>1 DEF RowsOfFile
<1>3. Reached(Smali[s][n]) # {}
  BY <1>2 DEF The, At
<1> QED
  BY <1>2, <1>3, ClassDefined

LEMMA FieldsDefined ==
  ASSUME NEW s \in Source, NEW f \in Csv[s].fields
  PROVE  f = [class |-> f.class, name |-> f.name, type |-> f.type] /\ Defines(s, f.class)
<1>1. PICK n \in DOMAIN Smali[s] : f \in RowsOfFile(Smali[s][n]).fields
  BY CsvIs
<1>2. PICK l \in The(Smali[s][n], "field") :
        f = [class |-> ClassOf(Smali[s][n]), name |-> l.name, type |-> l.type]
  BY <1>1 DEF RowsOfFile
<1>3. Reached(Smali[s][n]) # {}
  BY <1>2 DEF The, At
<1> QED
  BY <1>2, <1>3, ClassDefined

LEMMA AccessOfMethod ==
  ASSUME NEW s \in Source, NEW a \in Csv[s].access
  PROVE  /\ a = [field |-> a.field, method |-> a.method, action |-> a.action]
         /\ a.field = [class |-> a.field.class, name |-> a.field.name, type |-> a.field.type]
         /\ MethodKnown(a.method, s)
<1>1. PICK n \in DOMAIN Smali[s] : a \in RowsOfFile(Smali[s][n]).access
  BY CsvIs
<1>2. PICK i \in SentAccess(Smali[s][n]) : \E m \in MethodsAt(Smali[s][n], i) :
        a = [field |-> Smali[s][n].lines[i].field, method |-> m,
             action |-> Smali[s][n].lines[i].action]
  BY <1>1 DEF RowsOfFile
<1>3. PICK m \in MethodsAt(Smali[s][n], i) :
        a = [field |-> Smali[s][n].lines[i].field, method |-> m,
             action |-> Smali[s][n].lines[i].action]
  BY <1>2
<1>4. MethodKnown(m, s)
  BY HeaderIs
<1>5. i \in DOMAIN Smali[s][n].lines /\ Smali[s][n].lines[i].line = "access"
  BY DEF SentAccess, At, Reached
<1>6. LET f == Smali[s][n].lines[i].field
      IN f = [class |-> f.class, name |-> f.name, type |-> f.type]
  BY <1>5, LinesAre
<1> QED
  BY <1>3, <1>4, <1>6

LEMMA StringsOfMethod ==
  ASSUME NEW s \in Source, NEW u \in Csv[s].methodStrings
  PROVE  /\ u = [string |-> u.string, method |-> u.method]
         /\ u.string \in Csv[s].strings /\ MethodKnown(u.method, s)
<1>1. PICK n \in DOMAIN Smali[s] : u \in RowsOfFile(Smali[s][n]).methodStrings
  BY CsvIs
<1>2. PICK i \in Strings(Smali[s][n]) : \E m \in MethodsAt(Smali[s][n], i) :
        u = [string |-> StringAt(Smali[s][n], i)[1], method |-> m]
  BY <1>1 DEF RowsOfFile
<1>3. PICK m \in MethodsAt(Smali[s][n], i) :
        u = [string |-> StringAt(Smali[s][n], i)[1], method |-> m]
  BY <1>2
<1>4. MethodKnown(m, s)
  BY HeaderIs
<1>5. StringAt(Smali[s][n], i)[1] \in RowsOfFile(Smali[s][n]).strings
  BY DEF RowsOfFile
<1>6. StringAt(Smali[s][n], i)[1] \in Csv[s].strings
  BY <1>5, CsvIs
<1> QED
  BY <1>3, <1>4, <1>6

LEMMA CallsOfMethod ==
  ASSUME NEW s \in Source, NEW c \in Csv[s].calls
  PROVE  /\ c.callee = [class |-> c.callee.class, name |-> c.callee.name, args |-> c.callee.args]
         /\ MethodKnown(c.caller, s)
<1>1. PICK n \in DOMAIN Smali[s] : c \in RowsOfFile(Smali[s][n]).calls
  BY CsvIs
<1>2. PICK i \in SentCalls(Smali[s][n]) : \E m \in MethodsAt(Smali[s][n], i) :
        c = [caller |-> m, callee |-> Callee(Smali[s][n].lines[i])]
  BY <1>1 DEF RowsOfFile
<1>3. PICK m \in MethodsAt(Smali[s][n], i) :
        c = [caller |-> m, callee |-> Callee(Smali[s][n].lines[i])]
  BY <1>2
<1>4. MethodKnown(m, s)
  BY HeaderIs
<1> QED
  BY <1>3, <1>4 DEF Callee

(* A call that is said is sent where its method first has it.              *)
LEMMA SaidAreSent ==
  ASSUME NEW s \in Source
  PROVE  SaidCalls[s] \subseteq Csv[s].calls
<1> SUFFICES ASSUME NEW c \in SaidCalls[s]
             PROVE  c \in Csv[s].calls
  OBVIOUS
<1>1. s \in DOMAIN Smali
  BY RowsAssumption
<1>2. SaidCalls[s] =
        UNION {UNION {{[caller |-> m, callee |-> Callee(Smali[s][n].lines[i])] :
                         m \in MethodsAt(Smali[s][n], i)}
                      : i \in {i \in At(Smali[s][n], "call") :
                                 Counts(Smali[s][n].lines[i]) /\ ~AlsoOfArray(Smali[s][n], i)}}
               : n \in DOMAIN Smali[s]}
  BY <1>1 DEF SaidCalls
<1>3. PICK n \in DOMAIN Smali[s] : \E i \in At(Smali[s][n], "call") :
        /\ Counts(Smali[s][n].lines[i]) /\ ~AlsoOfArray(Smali[s][n], i)
        /\ \E m \in MethodsAt(Smali[s][n], i) :
             c = [caller |-> m, callee |-> Callee(Smali[s][n].lines[i])]
  BY <1>2
<1> DEFINE file == Smali[s][n]
<1>4. Len(file.lines) \in Nat /\ DOMAIN file.lines = 1 .. Len(file.lines)
  BY LinesAre
<1>5. At(file, "call") \subseteq 0 .. Len(file.lines)
  BY <1>4 DEF At, Reached
<1> HIDE DEF file
<1>6. PICK i \in At(file, "call") :
        /\ Counts(file.lines[i]) /\ ~AlsoOfArray(file, i)
        /\ \E m \in MethodsAt(file, i) : c = [caller |-> m, callee |-> Callee(file.lines[i])]
  BY <1>3 DEF file
<1> DEFINE J == {j \in At(file, "call") :
                   /\ HeaderAt(file, j) = HeaderAt(file, i)
                   /\ Counts(file.lines[j]) /\ Same(file.lines[j], file.lines[i])}
<1>7. i \in J /\ J \subseteq 0 .. Len(file.lines)
  BY <1>5, <1>6 DEF Same
<1>8. PICK j \in J : \A k \in J : j <= k
  <2> HIDE DEF J
  <2> QED
    BY <1>4, <1>7, LeastOf
<1>9. j \in SentCalls(file)
  <2>1. FirstOfMethod(file, j)
    <3> SUFFICES ASSUME NEW k \in At(file, "call"), k < j,
                        HeaderAt(file, k) = HeaderAt(file, j),
                        Counts(file.lines[k]), Same(file.lines[k], file.lines[j])
                 PROVE  FALSE
      BY DEF FirstOfMethod
    <3>1. Same(file.lines[k], file.lines[i])
      BY DEF Same
    <3>2. k \in J
      BY <3>1
    <3>3. k \in Int /\ j \in Int
      BY <1>5
    <3> QED
      BY <1>8, <3>2, <3>3
  <2> QED
    BY <2>1 DEF SentCalls
<1>10. Callee(file.lines[j]) = Callee(file.lines[i])
  <2>1. file.lines[j].full = file.lines[i].full
    BY <1>6 DEF AlsoOfArray
  <2> QED
    BY <2>1 DEF Callee, Same
<1>11. MethodsAt(file, j) = MethodsAt(file, i)
  BY DEF MethodsAt
<1>12. c \in RowsOfFile(file).calls
  BY <1>6, <1>9, <1>10, <1>11 DEF RowsOfFile
<1> QED
  BY <1>12, CsvIs DEF file

-------------------------------------------------------------------------------
(* The rows of what is in the files, and what the tables have of them.     *)

FieldRow(f, s) == [class |-> ClassId(f.class, s), name |-> f.name, type |-> f.type]
MethodRow(m, s) ==
  [class |-> ClassId(m.class, s), name |-> m.name, args |-> m.args, ret |-> m.ret, source |-> s]
Named(r) == [class |-> r.class.name, name |-> r.name, args |-> r.args]

(* The methods of a source that share the signature of m.                  *)
RowsOf(m, s) == {MethodRow(o, s) : o \in Overloads(m, s)}

FieldKnown(f, s) == f \in Csv[DefinedId(f.class, s).source].fields
AccessRow(a, m, s) ==
  [field |-> FieldRow(a.field, DefinedId(a.field.class, s).source), method |-> m,
   action |-> a.action]
StringRow(x, s) == [string |-> x, source |-> s]
UseRow(u, m, s) == [string |-> StringRow(u.string, s), method |-> m]

(* The classes are those of the files, and others of the framework.        *)
ClassesOK(d, L) ==
  /\ \A i \in Ids(d) : /\ i = ClassId(i.name, i.source) /\ i.source \in L
                       /\ i.source # Framework => Defines(i.source, i.name)
  /\ \A s \in L : \A c \in Csv[s].classes : ClassId(c.name, s) \in Ids(d)

FieldsOK(d, L) == d.fields = UNION {{FieldRow(f, s) : f \in Csv[s].fields} : s \in L}

(* The methods are those of the files, and others that a source calls: of  *)
(* a class of its own or, if it has none of that name, of the framework.   *)
MethodOK(d, L, r) ==
  /\ r.class \in Ids(d) /\ r.source \in L /\ r.class.source \in {r.source, Framework}
  /\ Overloads(Named(r), r.class.source) # {} => r \in RowsOf(Named(r), r.class.source)
  /\ r.class.source # r.source => ~Defines(r.source, r.class.name)

MethodsOK(d, L) ==
  /\ \A s \in L : \A m \in Csv[s].methods : MethodRow(m, s) \in d.methods
  /\ \A r \in d.methods : MethodOK(d, L, r)

AccessOK(d, L) ==
  \A r : r \in d.access <=>
    \E s \in L : \E a \in Csv[s].access :
      FieldKnown(a.field, s) /\ \E m \in RowsOf(a.method, s) : r = AccessRow(a, m, s)

StringsOK(d, L) == d.strings = UNION {{StringRow(x, s) : x \in Csv[s].strings} : s \in L}

UsesOK(d, L) ==
  \A r : r \in d.methodStrings <=>
    \E s \in L : \E u \in Csv[s].methodStrings :
      \E m \in RowsOf(u.method, s) : r = UseRow(u, m, s)

(* A call is there whose callee is in a file; before any source was        *)
(* removed, every call is.                                                 *)
Lasting(c, s, never) ==
  LET callee == DefinedId(c.callee.class, s)
  IN /\ never \/ Overloads(c.callee, callee.source) # {}
     /\ c.caller # c.callee \/ callee.source # s

CallsOK(d, L, never) ==
  /\ \A r \in d.calls : r.caller \in d.methods /\ r.callee \in d.methods
  /\ \A s \in L : \A c \in SaidCalls[s] :
       Lasting(c, s, never) =>
         \A m \in RowsOf(c.caller, s) :
           \E r \in d.calls : /\ r.source = s /\ r.caller = m
                              /\ r.callee.class = DefinedId(c.callee.class, s)
                              /\ r.callee.name = c.callee.name /\ r.callee.args = c.callee.args

Code(d) == <<d.fields, d.methods, d.calls, d.access, d.strings, d.methodStrings>>

-------------------------------------------------------------------------------
(* The classes and their hierarchy are loaded.                             *)

LEMMA ResolveIs ==
  ASSUME NEW d, NEW L, ClassesOK(d, L), NEW s \in L, NEW n
  PROVE  Resolve(d, n, s) = {DefinedId(n, s)} \cap Ids(d)
<1>1. CASE Defines(s, n)
  <2>1. ClassId(n, s) \in Ids(d)
    BY <1>1 DEF ClassesOK, Defines
  <2> QED
    BY <1>1, <2>1 DEF Resolve, DefinedId
<1>2. CASE ~Defines(s, n)
  <2>1. ClassId(n, s) \in Ids(d) => s = Framework
    BY <1>2 DEF ClassesOK, ClassId
  <2> QED
    BY <1>2, <2>1 DEF Resolve, DefinedId
<1> QED
  BY <1>1, <1>2

LEMMA DefinedIs ==
  ASSUME NEW s, NEW n
  PROVE  /\ DefinedId(n, s).name = n /\ DefinedId(n, s).source \in {s, Framework}
         /\ DefinedId(n, s) = ClassId(n, DefinedId(n, s).source)
         /\ DefinedId(n, s).source # s => ~Defines(s, n)
BY DEF DefinedId, ClassId

LEMMA SameIds ==
  ASSUME NEW d, NEW e, e.classes = d.classes
  PROVE  Ids(e) = Ids(d)
BY DEF Ids

LEMMA IdsGrow ==
  ASSUME NEW d, NEW e, NEW S, e.classes = d.classes \cup S
  PROVE  /\ Ids(d) \subseteq Ids(e) /\ \A c \in S : IdOf(c) \in Ids(e)
         /\ \A i \in Ids(e) : i \in Ids(d) \/ \E c \in S : i = IdOf(c)
BY DEF Ids

LEMMA ClassesLoaded ==
  ASSUME NEW d, DOMAIN d = Tables, NEW L, ClassesOK(d, L), NEW s
  PROVE  LET e == LoadClasses(d, s)
         IN /\ DOMAIN e = Tables /\ Code(e) = Code(d)
            /\ Ids(d) \subseteq Ids(e) /\ ClassesOK(e, L \cup {s})
<1> DEFINE e == LoadClasses(d, s)
<1>1. /\ DOMAIN e = Tables /\ Code(e) = Code(d)
      /\ e.classes = d.classes \cup {[name |-> c.name, source |-> s, flags |-> c.flags]
                                     : c \in Csv[s].classes}
  BY DEF LoadClasses, Tables, Code
<1> HIDE DEF e
<1>2. /\ Ids(d) \subseteq Ids(e) /\ \A c \in Csv[s].classes : ClassId(c.name, s) \in Ids(e)
      /\ \A i \in Ids(e) : i \in Ids(d) \/ \E c \in Csv[s].classes : i = ClassId(c.name, s)
  <2>1. PICK S : S = {[name |-> c.name, source |-> s, flags |-> c.flags] : c \in Csv[s].classes}
    OBVIOUS
  <2>2. e.classes = d.classes \cup S
    BY <1>1, <2>1
  <2>3. /\ Ids(d) \subseteq Ids(e) /\ \A c \in S : IdOf(c) \in Ids(e)
        /\ \A i \in Ids(e) : i \in Ids(d) \/ \E c \in S : i = IdOf(c)
    BY <2>2, IdsGrow
  <2>4. \A c \in Csv[s].classes : [name |-> c.name, source |-> s, flags |-> c.flags] \in S
    BY <2>1
  <2>5. \A c \in Csv[s].classes :
          IdOf([name |-> c.name, source |-> s, flags |-> c.flags]) = ClassId(c.name, s)
    BY DEF IdOf
  <2>6. \A r \in S : \E c \in Csv[s].classes : IdOf(r) = ClassId(c.name, s)
    BY <2>1, <2>5
  <2>7. \A c \in Csv[s].classes : ClassId(c.name, s) \in Ids(e)
    BY <2>3, <2>4, <2>5
  <2>8. \A i \in Ids(e) : i \in Ids(d) \/ \E c \in Csv[s].classes : i = ClassId(c.name, s)
    BY <2>3, <2>6
  <2> QED
    BY <2>3, <2>7, <2>8
<1>3. ClassesOK(e, L \cup {s})
  BY <1>2 DEF ClassesOK, ClassId, Defines
<1> QED
  BY <1>1, <1>2, <1>3 DEF e

LEMMA UnknownAdded ==
  ASSUME NEW d, DOMAIN d = Tables, NEW L, ClassesOK(d, L), NEW s \in L, Framework \in L,
         NEW N, NEW g
  PROVE  LET e == WithUnknown(d, N, s, g)
         IN /\ DOMAIN e = Tables /\ Code(e) = Code(d)
            /\ Ids(d) \subseteq Ids(e) /\ ClassesOK(e, L)
            /\ \A n \in N : DefinedId(n, s) \in Ids(e)
<1> DEFINE e == WithUnknown(d, N, s, g)
           U == {n \in N : Resolve(d, n, s) = {}}
<1>1. /\ DOMAIN e = Tables /\ Code(e) = Code(d)
      /\ e.classes = d.classes \cup {[name |-> n, source |-> Framework, flags |-> g] : n \in U}
  BY DEF WithUnknown, Tables, Code
<1>2. \A n \in N \ U : DefinedId(n, s) \in Ids(d)
  BY ResolveIs
<1>3. \A n \in U : DefinedId(n, s) = ClassId(n, Framework)
  <2> SUFFICES ASSUME NEW n \in U, Defines(s, n)
               PROVE  FALSE
    BY DEF DefinedId
  <2>1. ClassId(n, s) \in Ids(d)
    BY DEF ClassesOK, Defines
  <2> QED
    BY <2>1 DEF Resolve
<1> HIDE DEF e, U
<1>4. /\ Ids(d) \subseteq Ids(e) /\ \A n \in U : ClassId(n, Framework) \in Ids(e)
      /\ \A i \in Ids(e) : i \in Ids(d) \/ \E n \in U : i = ClassId(n, Framework)
  <2>1. PICK S : S = {[name |-> n, source |-> Framework, flags |-> g] : n \in U}
    OBVIOUS
  <2>2. e.classes = d.classes \cup S
    BY <1>1, <2>1
  <2>3. /\ Ids(d) \subseteq Ids(e) /\ \A c \in S : IdOf(c) \in Ids(e)
        /\ \A i \in Ids(e) : i \in Ids(d) \/ \E c \in S : i = IdOf(c)
    BY <2>2, IdsGrow
  <2>4. \A n \in U : [name |-> n, source |-> Framework, flags |-> g] \in S
    BY <2>1
  <2>5. \A n \in U : IdOf([name |-> n, source |-> Framework, flags |-> g]) = ClassId(n, Framework)
    BY DEF IdOf
  <2>6. \A r \in S : \E n \in U : IdOf(r) = ClassId(n, Framework)
    BY <2>1, <2>5
  <2>7. \A n \in U : ClassId(n, Framework) \in Ids(e)
    BY <2>3, <2>4, <2>5
  <2>8. \A i \in Ids(e) : i \in Ids(d) \/ \E n \in U : i = ClassId(n, Framework)
    BY <2>3, <2>6
  <2> QED
    BY <2>3, <2>7, <2>8
<1>5. ClassesOK(e, L)
  BY <1>4 DEF ClassesOK, ClassId
<1>6. \A n \in N : DefinedId(n, s) \in Ids(e)
  BY <1>2, <1>3, <1>4
<1> QED
  BY <1>1, <1>4, <1>5, <1>6 DEF e

LEMMA HierarchyLoaded ==
  ASSUME NEW d, DOMAIN d = Tables, NEW L, ClassesOK(d, L), NEW s, Framework \in L \cup {s}
  PROVE  LET e == LoadInterfaces(LoadSupers(LoadClasses(d, s), s), s)
         IN /\ DOMAIN e = Tables /\ Code(e) = Code(d)
            /\ Ids(d) \subseteq Ids(e) /\ ClassesOK(e, L \cup {s})
<1> DEFINE M == L \cup {s}
           OK(x) == /\ DOMAIN x = Tables /\ Code(x) = Code(d)
                    /\ Ids(d) \subseteq Ids(x) /\ ClassesOK(x, M)
<1>1. PICK a : a = LoadClasses(d, s)
  OBVIOUS
<1>2. OK(a)
  BY <1>1, ClassesLoaded
<1>3. PICK b : b = WithUnknown(a, {e.parent : e \in Csv[s].supers}, s, "plain")
  OBVIOUS
<1>4. OK(b)
  BY <1>2, <1>3, UnknownAdded
<1>5. PICK c : c = LoadSupers(a, s)
  OBVIOUS
<1>6. DOMAIN c = DOMAIN b /\ c.classes = b.classes /\ Code(c) = Code(b)
  BY <1>3, <1>4, <1>5 DEF LoadSupers, Tables, Code
<1>7. OK(c)
  BY <1>4, <1>6, SameIds DEF ClassesOK
<1>8. PICK k : k = WithUnknown(c, {e.interface : e \in Csv[s].interfaces}, s, "interface")
  OBVIOUS
<1>9. OK(k)
  BY <1>7, <1>8, UnknownAdded
<1>10. PICK h : h = LoadInterfaces(c, s)
  OBVIOUS
<1>11. DOMAIN h = DOMAIN k /\ h.classes = k.classes /\ Code(h) = Code(k)
  BY <1>8, <1>9, <1>10 DEF LoadInterfaces, Tables, Code
<1>12. OK(h)
  BY <1>9, <1>11, SameIds DEF ClassesOK
<1> QED
  BY <1>1, <1>5, <1>10, <1>12

-------------------------------------------------------------------------------
(* Fields, methods and calls are loaded.                                   *)

LEMMA FieldsLoaded ==
  ASSUME NEW d, DOMAIN d = Tables, NEW L, NEW s \in Source, ClassesOK(d, L \cup {s}),
         FieldsOK(d, L)
  PROVE  LET e == LoadFields(d, s)
         IN /\ DOMAIN e = Tables /\ e.classes = d.classes
            /\ e.methods = d.methods /\ e.calls = d.calls /\ e.access = d.access
            /\ e.strings = d.strings /\ e.methodStrings = d.methodStrings
            /\ FieldsOK(e, L \cup {s})
<1> DEFINE e == LoadFields(d, s)
           F == {f \in Csv[s].fields : ClassId(f.class, s) \in Ids(d)}
<1>1. /\ DOMAIN e = Tables /\ e.classes = d.classes
      /\ e.methods = d.methods /\ e.calls = d.calls /\ e.access = d.access
      /\ e.strings = d.strings /\ e.methodStrings = d.methodStrings
      /\ e.fields = d.fields \cup {FieldRow(f, s) : f \in F}
  BY DEF LoadFields, Tables, FieldRow
<1>2. F = Csv[s].fields
  <2> SUFFICES ASSUME NEW f \in Csv[s].fields
               PROVE  ClassId(f.class, s) \in Ids(d)
    OBVIOUS
  <2>1. Defines(s, f.class)
    BY FieldsDefined
  <2> QED
    BY <2>1 DEF Defines, ClassesOK
<1> HIDE DEF e, F
<1>3. FieldsOK(e, L \cup {s})
  BY <1>1, <1>2 DEF FieldsOK
<1> QED
  BY <1>1, <1>3 DEF e

LEMMA MethodsLoaded ==
  ASSUME NEW d, DOMAIN d = Tables, NEW L, NEW s \in Source, ClassesOK(d, L \cup {s}),
         MethodsOK(d, L)
  PROVE  LET e == LoadMethods(d, s)
         IN /\ DOMAIN e = Tables /\ e.classes = d.classes /\ d.methods \subseteq e.methods
            /\ e.fields = d.fields /\ e.calls = d.calls /\ e.access = d.access
            /\ e.strings = d.strings /\ e.methodStrings = d.methodStrings
            /\ MethodsOK(e, L \cup {s})
<1> DEFINE e == LoadMethods(d, s)
           N == {m \in Csv[s].methods : ClassId(m.class, s) \in Ids(d)}
<1>1. /\ DOMAIN e = Tables /\ e.classes = d.classes
      /\ e.fields = d.fields /\ e.calls = d.calls /\ e.access = d.access
      /\ e.strings = d.strings /\ e.methodStrings = d.methodStrings
      /\ e.methods = d.methods \cup {MethodRow(m, s) : m \in N}
  BY DEF LoadMethods, Tables, MethodRow
<1>2. N = Csv[s].methods
  <2> SUFFICES ASSUME NEW m \in Csv[s].methods
               PROVE  ClassId(m.class, s) \in Ids(d)
    OBVIOUS
  <2>1. Defines(s, m.class)
    BY MethodsDefined
  <2> QED
    BY <2>1 DEF Defines, ClassesOK
<1> HIDE DEF e, N
<1>3. Ids(e) = Ids(d)
  BY <1>1, SameIds
<1>4. \A m \in Csv[s].methods : MethodRow(m, s) \in e.methods /\ ClassId(m.class, s) \in Ids(d)
  BY <1>1, <1>2 DEF N
<1>5. ASSUME NEW r \in e.methods
      PROVE  MethodOK(e, L \cup {s}, r)
  <2>1. CASE r \in d.methods
    BY <1>3, <2>1 DEF MethodsOK, MethodOK
  <2>2. CASE r \notin d.methods
    <3>1. PICK m \in Csv[s].methods : r = MethodRow(m, s)
      BY <1>1, <1>2, <2>2
    <3>2. /\ r.class = ClassId(m.class, s) /\ r.source = s /\ r.class.source = s
          /\ r.class.name = m.class /\ r.name = m.name /\ r.args = m.args
      BY <3>1 DEF MethodRow, ClassId
    <3>3. m \in Overloads(Named(r), s)
      BY <3>2 DEF Overloads, Named
    <3>4. r \in RowsOf(Named(r), s)
      BY <3>1, <3>3 DEF RowsOf
    <3> QED
      BY <1>3, <1>4, <3>2, <3>4 DEF MethodOK
  <2> QED
    BY <2>1, <2>2
<1>6. MethodsOK(e, L \cup {s})
  BY <1>1, <1>4, <1>5 DEF MethodsOK
<1> QED
  BY <1>1, <1>6 DEF e

(* Every callee has a row then, and a new one is of no method of a file.   *)
LEMMA CalleesAdded ==
  ASSUME NEW d, DOMAIN d = Tables, NEW L, L \subseteq Source, ClassesOK(d, L), MethodsOK(d, L),
         NEW s \in L, Framework \in L
  PROVE  LET e == WithCallees(d, s)
         IN /\ DOMAIN e = Tables /\ Ids(d) \subseteq Ids(e) /\ d.methods \subseteq e.methods
            /\ e.fields = d.fields /\ e.calls = d.calls /\ e.access = d.access
            /\ e.strings = d.strings /\ e.methodStrings = d.methodStrings
            /\ ClassesOK(e, L) /\ MethodsOK(e, L)
            /\ \A c \in Csv[s].calls :
                 /\ DefinedId(c.callee.class, s) \in Ids(e)
                 /\ MethodsNamed(e, DefinedId(c.callee.class, s), c.callee) # {}
<1>1. PICK k : k = WithUnknown(d, {c.callee.class : c \in Csv[s].calls}, s, "plain")
  OBVIOUS
<1>2. /\ DOMAIN k = Tables /\ Code(k) = Code(d)
      /\ Ids(d) \subseteq Ids(k) /\ ClassesOK(k, L)
      /\ \A c \in Csv[s].calls : DefinedId(c.callee.class, s) \in Ids(k)
  BY <1>1, UnknownAdded
<1>3. k.methods = d.methods /\ k.fields = d.fields /\ k.calls = d.calls /\ k.access = d.access
      /\ k.strings = d.strings /\ k.methodStrings = d.methodStrings
  BY <1>2 DEF Code
<1> DEFINE Row(c) == [class |-> DefinedId(c.callee.class, s), name |-> c.callee.name,
                      args |-> c.callee.args, ret |-> "V", source |-> s]
           Missing(c) == MethodsNamed(k, DefinedId(c.callee.class, s), c.callee) = {}
<1>4. PICK e : e = WithCallees(d, s)
  OBVIOUS
<1>5. \A c \in Csv[s].calls : Resolve(k, c.callee.class, s) = {DefinedId(c.callee.class, s)}
  BY <1>2, ResolveIs
<1>6. PICK new :
        new = UNION {{[class |-> x, name |-> c.callee.name, args |-> c.callee.args,
                       ret |-> "V", source |-> s] :
                        x \in {x \in Resolve(k, c.callee.class, s) :
                                 MethodsNamed(k, x, c.callee) = {}}} :
                     c \in Csv[s].calls}
  OBVIOUS
<1>7. e = [k EXCEPT !.methods = @ \cup new]
  BY <1>1, <1>4, <1>6 DEF WithCallees
<1>8. /\ DOMAIN e = Tables /\ e.classes = k.classes /\ e.methods = k.methods \cup new
      /\ e.fields = d.fields /\ e.calls = d.calls /\ e.access = d.access
      /\ e.strings = d.strings /\ e.methodStrings = d.methodStrings
  BY <1>2, <1>3, <1>7 DEF Tables
<1>9. Ids(e) = Ids(k)
  BY <1>8, SameIds
<1>10. /\ \A c \in Csv[s].calls : Missing(c) => Row(c) \in new
       /\ \A r \in new : \E c \in Csv[s].calls : Missing(c) /\ r = Row(c)
  <2>1. ASSUME NEW c \in Csv[s].calls, Missing(c)
        PROVE  Row(c) \in new
    <3>1. PICK i : i = DefinedId(c.callee.class, s)
      OBVIOUS
    <3>2. i \in {x \in Resolve(k, c.callee.class, s) : MethodsNamed(k, x, c.callee) = {}}
      BY <1>5, <2>1, <3>1
    <3>3. Row(c) \in
            {[class |-> x, name |-> c.callee.name, args |-> c.callee.args, ret |-> "V",
              source |-> s] :
               x \in {x \in Resolve(k, c.callee.class, s) : MethodsNamed(k, x, c.callee) = {}}}
      BY <3>1, <3>2
    <3> QED
      BY <1>6, <3>3
  <2>2. ASSUME NEW r \in new
        PROVE  \E c \in Csv[s].calls : Missing(c) /\ r = Row(c)
    <3>1. PICK c \in Csv[s].calls :
            r \in {[class |-> x, name |-> c.callee.name, args |-> c.callee.args, ret |-> "V",
                    source |-> s] :
                    x \in {x \in Resolve(k, c.callee.class, s) :
                             MethodsNamed(k, x, c.callee) = {}}}
      BY <1>6
    <3>2. PICK x \in Resolve(k, c.callee.class, s) :
            /\ MethodsNamed(k, x, c.callee) = {}
            /\ r = [class |-> x, name |-> c.callee.name, args |-> c.callee.args, ret |-> "V",
                    source |-> s]
      BY <3>1
    <3>3. x = DefinedId(c.callee.class, s)
      BY <1>5
    <3> QED
      BY <3>2, <3>3
  <2> QED
    BY <2>1, <2>2
<1>11. ClassesOK(e, L)
  BY <1>2, <1>9 DEF ClassesOK
<1>12. ASSUME NEW c \in Csv[s].calls, Missing(c)
       PROVE  MethodOK(e, L, Row(c))
  <2>1. PICK i : i = DefinedId(c.callee.class, s)
    OBVIOUS
  <2>2. /\ i \in Ids(e) /\ i.name = c.callee.class /\ i.source \in {s, Framework}
        /\ i = ClassId(i.name, i.source)
        /\ i.source # s => ~Defines(s, i.name)
    BY <1>2, <1>9, <2>1, DefinedIs
  <2>3. PICK r : r = Row(c)
    OBVIOUS
  <2>4. /\ r.class = i /\ r.source = s /\ r.name = c.callee.name /\ r.args = c.callee.args
    BY <2>1, <2>3
  <2>5. ASSUME Overloads(Named(r), i.source) # {}
        PROVE  FALSE
    <3>0. PICK o \in Overloads(Named(r), i.source) : TRUE
      BY <2>5
    <3>1. PICK m : m = MethodRow(o, i.source)
      OBVIOUS
    <3>2. m \in d.methods
      BY <2>2, <3>1 DEF MethodsOK, Overloads
    <3>3. m.class = i /\ m.name = c.callee.name /\ m.args = c.callee.args
      <4>1. o.class = i.name /\ o.name = c.callee.name /\ o.args = c.callee.args
        BY <2>4 DEF Named, Overloads
      <4>2. m.class = ClassId(o.class, i.source) /\ m.name = o.name /\ m.args = o.args
        BY <3>1 DEF MethodRow
      <4> QED
        BY <2>2, <4>1, <4>2
    <3>4. m \in MethodsNamed(k, i, c.callee)
      BY <1>3, <3>2, <3>3 DEF MethodsNamed
    <3> QED
      BY <1>12, <2>1, <3>4
  <2>6. r.class \in Ids(e) /\ r.source \in L /\ r.class.source \in {r.source, Framework}
    BY <2>2, <2>4
  <2>7. r.class.source # r.source => ~Defines(r.source, r.class.name)
    BY <2>2, <2>4
  <2>8. Overloads(Named(r), r.class.source) = {}
    BY <2>4, <2>5
  <2> QED
    BY <2>3, <2>6, <2>7, <2>8 DEF MethodOK
<1> HIDE DEF Row, Missing
<1>13. MethodsOK(e, L)
  <2>1. \A t \in L : \A m \in Csv[t].methods : MethodRow(m, t) \in e.methods
    BY <1>3, <1>8 DEF MethodsOK
  <2>2. ASSUME NEW r \in e.methods
        PROVE  MethodOK(e, L, r)
    <3>1. CASE r \in d.methods
      BY <1>2, <1>9, <3>1 DEF MethodsOK, MethodOK
    <3>2. CASE r \in new
      BY <1>10, <1>12, <3>2
    <3> QED
      BY <1>3, <1>8, <3>1, <3>2
  <2> QED
    BY <2>1, <2>2 DEF MethodsOK
<1>14. ASSUME NEW c \in Csv[s].calls
       PROVE  MethodsNamed(e, DefinedId(c.callee.class, s), c.callee) # {}
  <2>1. CASE Missing(c)
    <3>1. Row(c) \in e.methods
      BY <1>8, <1>10, <2>1
    <3>2. Row(c) \in MethodsNamed(e, DefinedId(c.callee.class, s), c.callee)
      BY <3>1 DEF MethodsNamed, Row
    <3> QED
      BY <3>2
  <2>2. CASE ~Missing(c)
    BY <1>8, <2>2 DEF Missing, MethodsNamed
  <2> QED
    BY <2>1, <2>2
<1> QED
  BY <1>2, <1>3, <1>4, <1>8, <1>9, <1>11, <1>13, <1>14

(* A call is lost only if both ends are one row: direct recursion.         *)
LEMMA CallsLoaded ==
  ASSUME NEW d, DOMAIN d = Tables, NEW L, NEW s \in Source, NEW M, M = L \cup {s},
         M \subseteq Source, Framework \in M, ClassesOK(d, M),
         MethodsOK(d, M), NEW never, CallsOK(d, L, never)
  PROVE  LET e == LoadCalls(d, s)
         IN /\ DOMAIN e = Tables /\ Ids(d) \subseteq Ids(e)
            /\ e.fields = d.fields /\ e.access = d.access
            /\ e.strings = d.strings /\ e.methodStrings = d.methodStrings
            /\ ClassesOK(e, M) /\ MethodsOK(e, M) /\ CallsOK(e, M, never)
<1>1. PICK k : k = WithCallees(d, s)
  OBVIOUS
<1>2. /\ DOMAIN k = Tables /\ Ids(d) \subseteq Ids(k) /\ d.methods \subseteq k.methods
      /\ k.fields = d.fields /\ k.calls = d.calls /\ k.access = d.access
      /\ k.strings = d.strings /\ k.methodStrings = d.methodStrings
      /\ ClassesOK(k, M) /\ MethodsOK(k, M)
      /\ \A c \in Csv[s].calls :
           /\ DefinedId(c.callee.class, s) \in Ids(k)
           /\ MethodsNamed(k, DefinedId(c.callee.class, s), c.callee) # {}
  BY <1>1, CalleesAdded
<1> DEFINE ends(c) == MethodsNamed(k, ClassId(c.caller.class, s), c.caller) \X
                      UNION {MethodsNamed(k, x, c.callee) : x \in Resolve(k, c.callee.class, s)}
<1>3. PICK e : e = LoadCalls(d, s)
  OBVIOUS
<1>4. PICK new : new = {[caller |-> p[1], callee |-> p[2], source |-> s] :
                          p \in {p \in UNION {ends(c) : c \in Csv[s].calls} : p[1] # p[2]}}
  OBVIOUS
<1>5. e = [k EXCEPT !.calls = @ \cup new]
  BY <1>1, <1>3, <1>4 DEF LoadCalls
<1>6. /\ DOMAIN e = Tables /\ e.classes = k.classes /\ e.methods = k.methods
      /\ e.calls = k.calls \cup new /\ e.fields = d.fields /\ e.access = d.access
      /\ e.strings = d.strings /\ e.methodStrings = d.methodStrings
  BY <1>2, <1>5 DEF Tables
<1>7. Ids(e) = Ids(k)
  BY <1>6, SameIds
<1>8. ClassesOK(e, M) /\ MethodsOK(e, M)
  BY <1>2, <1>6, <1>7 DEF ClassesOK, MethodsOK, MethodOK
<1>9. ASSUME NEW r \in new
      PROVE  r.caller \in k.methods /\ r.callee \in k.methods
  <2>1. PICK c \in Csv[s].calls : \E p \in ends(c) :
               r = [caller |-> p[1], callee |-> p[2], source |-> s]
    BY <1>4
  <2>2. PICK p \in ends(c) : r = [caller |-> p[1], callee |-> p[2], source |-> s]
    BY <2>1
  <2>3. p[1] \in k.methods /\ p[2] \in k.methods
    BY DEF MethodsNamed
  <2> QED
    BY <2>2, <2>3
<1>10. \A r \in e.calls : r.caller \in e.methods /\ r.callee \in e.methods
  BY <1>2, <1>6, <1>9 DEF CallsOK
<1>11. ASSUME NEW c \in SaidCalls[s], Lasting(c, s, never), NEW x \in RowsOf(c.caller, s)
       PROVE  \E r \in e.calls : /\ r.source = s /\ r.caller = x
                                 /\ r.callee.class = DefinedId(c.callee.class, s)
                                 /\ r.callee.name = c.callee.name /\ r.callee.args = c.callee.args
  <2>1. c \in Csv[s].calls
    BY SaidAreSent
  <2>2. c.callee = [class |-> c.callee.class, name |-> c.callee.name, args |-> c.callee.args]
    BY <2>1, CallsOfMethod
  <2>3. c.caller = [class |-> c.caller.class, name |-> c.caller.name, args |-> c.caller.args]
    BY <2>1, CallsOfMethod DEF MethodKnown
  <2>4. PICK o \in Overloads(c.caller, s) : x = MethodRow(o, s)
    BY DEF RowsOf
  <2>5. x \in k.methods
    BY <1>2, <2>4 DEF MethodsOK, Overloads
  <2>6. /\ x.class = ClassId(c.caller.class, s) /\ x.name = c.caller.name /\ x.args = c.caller.args
    BY <2>4 DEF MethodRow, Overloads
  <2>7. x \in MethodsNamed(k, ClassId(c.caller.class, s), c.caller)
    BY <2>5, <2>6 DEF MethodsNamed
  <2>8. PICK i : i = DefinedId(c.callee.class, s)
    OBVIOUS
  <2>9. i.name = c.callee.class /\ i \in Ids(k)
    BY <1>2, <2>1, <2>8, DefinedIs
  <2>10. Resolve(k, c.callee.class, s) = {i}
    <3>1. Resolve(k, c.callee.class, s) = {DefinedId(c.callee.class, s)} \cap Ids(k)
      BY <1>2, ResolveIs
    <3> QED
      BY <2>8, <2>9, <3>1
  <2>11. PICK y \in MethodsNamed(k, i, c.callee) : TRUE
    BY <1>2, <2>1, <2>8
  <2>12. y.class = i /\ y.name = c.callee.name /\ y.args = c.callee.args
    BY DEF MethodsNamed
  <2>13. x # y
    <3> SUFFICES ASSUME x = y
                 PROVE  FALSE
      OBVIOUS
    <3>1. i = ClassId(c.caller.class, s) /\ c.caller.name = c.callee.name
          /\ c.caller.args = c.callee.args
      BY <2>6, <2>12
    <3>2. i.name = c.caller.class /\ i.source = s
      BY <3>1 DEF ClassId
    <3>3. c.caller = c.callee
      BY <2>2, <2>3, <2>9, <3>1, <3>2
    <3> QED
      BY <1>11, <2>8, <3>2, <3>3 DEF Lasting
  <2>14. <<x, y>> \in ends(c)
    BY <2>7, <2>10
  <2>15. <<x, y>> \in {p \in UNION {ends(b) : b \in Csv[s].calls} : p[1] # p[2]}
    BY <2>1, <2>13, <2>14
  <2>16. [caller |-> x, callee |-> y, source |-> s] \in new
    <3>1. PICK p : p = <<x, y>>
      OBVIOUS
    <3>2. p \in {q \in UNION {ends(b) : b \in Csv[s].calls} : q[1] # q[2]}
          /\ p[1] = x /\ p[2] = y
      BY <2>15, <3>1
    <3> HIDE DEF ends
    <3> QED
      BY <1>4, <3>2
  <2> QED
    BY <1>6, <2>8, <2>12, <2>16
<1>12. CallsOK(e, M, never)
  <2>1. ASSUME NEW t \in M, NEW c \in SaidCalls[t], Lasting(c, t, never),
               NEW x \in RowsOf(c.caller, t)
        PROVE  \E r \in e.calls : /\ r.source = t /\ r.caller = x
                                  /\ r.callee.class = DefinedId(c.callee.class, t)
                                  /\ r.callee.name = c.callee.name /\ r.callee.args = c.callee.args
    <3>1. CASE t = s
      BY <1>11, <2>1, <3>1
    <3>2. CASE t \in L
      BY <1>2, <1>6, <2>1, <3>2 DEF CallsOK
    <3> QED
      BY <3>1, <3>2
  <2> QED
    BY <1>10, <2>1 DEF CallsOK
<1> QED
  BY <1>2, <1>3, <1>6, <1>7, <1>8, <1>12

-------------------------------------------------------------------------------
(* The methods and fields of a file are those that its relations meet.     *)

LEMMA OwnMethod ==
  ASSUME NEW d, NEW L, MethodsOK(d, L), NEW s \in L, L \subseteq Source,
         NEW m, MethodKnown(m, s)
  PROVE  /\ MethodsNamed(d, ClassId(m.class, s), m) = RowsOf(m, s)
         /\ RowsOf(m, s) \subseteq d.methods /\ RowsOf(m, s) # {}
         /\ \A r \in RowsOf(m, s) : r.source = s /\ r.class.source = s /\ Named(r) = m
<1>1. ASSUME NEW r \in RowsOf(m, s)
      PROVE  /\ r \in d.methods /\ r.source = s /\ r.class.source = s /\ Named(r) = m
             /\ r \in MethodsNamed(d, ClassId(m.class, s), m)
  <2>1. PICK o \in Overloads(m, s) : r = MethodRow(o, s)
    BY DEF RowsOf
  <2>2. o \in Csv[s].methods /\ o.class = m.class /\ o.name = m.name /\ o.args = m.args
    BY DEF Overloads
  <2>3. r \in d.methods
    BY <2>1, <2>2 DEF MethodsOK
  <2>4. /\ r.class = ClassId(m.class, s) /\ r.class.name = m.class /\ r.class.source = s
        /\ r.name = m.name /\ r.args = m.args /\ r.source = s
    BY <2>1, <2>2 DEF MethodRow, ClassId
  <2>5. Named(r) = m
    BY <2>4 DEF Named, MethodKnown
  <2>6. r \in MethodsNamed(d, ClassId(m.class, s), m)
    BY <2>3, <2>4 DEF MethodsNamed
  <2> QED
    BY <2>3, <2>4, <2>5, <2>6
<1>2. ASSUME NEW y \in MethodsNamed(d, ClassId(m.class, s), m)
      PROVE  y \in RowsOf(m, s)
  <2>1. y \in d.methods /\ y.class = ClassId(m.class, s) /\ y.name = m.name /\ y.args = m.args
    BY DEF MethodsNamed
  <2>2. y.class.name = m.class /\ y.class.source = s
    BY <2>1 DEF ClassId
  <2>3. Named(y) = m
    BY <2>1, <2>2 DEF Named, MethodKnown
  <2>4. Overloads(Named(y), y.class.source) # {}
    BY <2>2, <2>3 DEF MethodKnown
  <2>5. y \in RowsOf(Named(y), y.class.source)
    BY <2>1, <2>4 DEF MethodsOK, MethodOK
  <2> QED
    BY <2>2, <2>3, <2>5
<1>3. RowsOf(m, s) # {}
  BY DEF RowsOf, MethodKnown
<1> QED
  BY <1>1, <1>2, <1>3

LEMMA OwnField ==
  ASSUME NEW d, NEW L, L \subseteq Source, ClassesOK(d, L), FieldsOK(d, L), NEW s \in L,
         Framework \in L, NEW f, f = [class |-> f.class, name |-> f.name, type |-> f.type]
  PROVE  LET i == DefinedId(f.class, s)
             found == {g \in d.fields : /\ g.class \in Resolve(d, f.class, s)
                                        /\ g.name = f.name /\ g.type = f.type}
         IN found = IF FieldKnown(f, s) THEN {FieldRow(f, i.source)} ELSE {}
<1>1. PICK i : i = DefinedId(f.class, s)
  OBVIOUS
<1>2. i.name = f.class /\ i.source \in L /\ i = ClassId(f.class, i.source)
  BY <1>1, DefinedIs
<1>3. PICK found : found = {g \in d.fields : /\ g.class \in Resolve(d, f.class, s)
                                             /\ g.name = f.name /\ g.type = f.type}
  OBVIOUS
<1>4. Resolve(d, f.class, s) = {i} \cap Ids(d)
  BY <1>1, ResolveIs
<1>5. ASSUME NEW g \in found
      PROVE  FieldKnown(f, s) /\ g = FieldRow(f, i.source)
  <2>1. g \in d.fields /\ g.class = i /\ g.name = f.name /\ g.type = f.type
    BY <1>3, <1>4
  <2>2. PICK t \in L : \E h \in Csv[t].fields : g = FieldRow(h, t)
    BY <2>1 DEF FieldsOK
  <2>3. PICK h \in Csv[t].fields : g = FieldRow(h, t)
    BY <2>2
  <2>4. g.class = ClassId(h.class, t) /\ g.name = h.name /\ g.type = h.type
    BY <2>3 DEF FieldRow
  <2>5. t = i.source /\ h.class = i.name
    BY <2>1, <2>4 DEF ClassId
  <2>6. h = [class |-> h.class, name |-> h.name, type |-> h.type]
    BY FieldsDefined
  <2>7. h = f
    BY <1>2, <2>1, <2>4, <2>5, <2>6
  <2> QED
    BY <1>1, <2>3, <2>5, <2>7 DEF FieldKnown
<1>6. ASSUME FieldKnown(f, s)
      PROVE  FieldRow(f, i.source) \in found
  <2>1. f \in Csv[i.source].fields
    BY <1>1, <1>6 DEF FieldKnown
  <2>2. FieldRow(f, i.source) \in d.fields
    BY <1>2, <2>1 DEF FieldsOK
  <2>3. Defines(i.source, f.class)
    BY <1>2, <2>1, FieldsDefined
  <2>4. i \in Ids(d)
    BY <1>2, <2>3 DEF ClassesOK, Defines
  <2>5. FieldRow(f, i.source).class = i /\ FieldRow(f, i.source).name = f.name
        /\ FieldRow(f, i.source).type = f.type
    BY <1>2 DEF FieldRow
  <2> QED
    BY <1>3, <1>4, <2>2, <2>4, <2>5
<1>7. CASE FieldKnown(f, s)
  BY <1>1, <1>3, <1>5, <1>6, <1>7
<1>8. CASE ~FieldKnown(f, s)
  BY <1>1, <1>3, <1>5, <1>8
<1> QED
  BY <1>7, <1>8

(* Accesses, strings and their uses are loaded.                            *)
LEMMA AccessLoaded ==
  ASSUME NEW d, DOMAIN d = Tables, NEW L, NEW s \in Source, NEW M, M = L \cup {s},
         M \subseteq Source, Framework \in M, ClassesOK(d, M),
         FieldsOK(d, M), MethodsOK(d, M), AccessOK(d, L)
  PROVE  LET e == LoadAccess(d, s)
         IN /\ DOMAIN e = Tables /\ e.classes = d.classes /\ e.fields = d.fields
            /\ e.methods = d.methods /\ e.calls = d.calls
            /\ e.strings = d.strings /\ e.methodStrings = d.methodStrings
            /\ AccessOK(e, M)
<1> DEFINE found(a) == {f \in d.fields : /\ f.class \in Resolve(d, a.field.class, s)
                                         /\ f.name = a.field.name /\ f.type = a.field.type}
           rowsOf(a) ==
             {[field |-> f, method |-> m, action |-> a.action] :
                f \in found(a), m \in MethodsNamed(d, ClassId(a.method.class, s), a.method)}
<1> HIDE DEF found, rowsOf
<1>1. PICK e : e = LoadAccess(d, s)
  OBVIOUS
<1>2. PICK new : new = UNION {rowsOf(a) : a \in Csv[s].access}
  OBVIOUS
<1>3. e = [d EXCEPT !.access = @ \cup new]
  BY <1>1, <1>2 DEF LoadAccess, found, rowsOf
<1>4. /\ DOMAIN e = Tables /\ e.classes = d.classes /\ e.fields = d.fields
      /\ e.methods = d.methods /\ e.calls = d.calls /\ e.access = d.access \cup new
      /\ e.strings = d.strings /\ e.methodStrings = d.methodStrings
  BY <1>3 DEF Tables
<1>5. ASSUME NEW a \in Csv[s].access, NEW r
      PROVE  r \in rowsOf(a) <=>
               FieldKnown(a.field, s) /\ \E m \in RowsOf(a.method, s) : r = AccessRow(a, m, s)
  <2> USE DEF found, rowsOf
  <2>1. /\ a.field = [class |-> a.field.class, name |-> a.field.name, type |-> a.field.type]
        /\ MethodKnown(a.method, s)
    BY AccessOfMethod
  <2>2. PICK f : f = a.field
    OBVIOUS
  <2>3. PICK i : i = DefinedId(f.class, s)
    OBVIOUS
  <2>4. found(a) = IF FieldKnown(f, s) THEN {FieldRow(f, i.source)} ELSE {}
    BY <1>4, <2>1, <2>2, <2>3, OwnField
  <2>5. MethodsNamed(d, ClassId(a.method.class, s), a.method) = RowsOf(a.method, s)
    BY <2>1, OwnMethod
  <2> HIDE DEF found
  <2>6. r \in rowsOf(a) <=> \E g \in found(a) : \E m \in RowsOf(a.method, s) :
                             r = [field |-> g, method |-> m, action |-> a.action]
    BY <2>5
  <2> HIDE DEF rowsOf
  <2>7. \A m : AccessRow(a, m, s) = [field |-> FieldRow(f, i.source), method |-> m,
                                    action |-> a.action]
    BY <2>2, <2>3 DEF AccessRow
  <2>8. CASE FieldKnown(f, s)
    BY <2>2, <2>4, <2>6, <2>7, <2>8
  <2>9. CASE ~FieldKnown(f, s)
    BY <2>2, <2>4, <2>6, <2>9
  <2> QED
    BY <2>8, <2>9
<1>6. \A r : r \in new <=> \E a \in Csv[s].access : r \in rowsOf(a)
  BY <1>2
<1>7. AccessOK(e, M)
  BY <1>4, <1>5, <1>6 DEF AccessOK
<1> QED
  BY <1>1, <1>4, <1>7

LEMMA StringsLoaded ==
  ASSUME NEW d, DOMAIN d = Tables, NEW L, NEW s, NEW M, M = L \cup {s}, StringsOK(d, L)
  PROVE  LET e == LoadStrings(d, s)
         IN /\ DOMAIN e = Tables /\ e.classes = d.classes /\ e.fields = d.fields
            /\ e.methods = d.methods /\ e.calls = d.calls /\ e.access = d.access
            /\ e.methodStrings = d.methodStrings
            /\ StringsOK(e, M)
<1>1. PICK e : e = LoadStrings(d, s)
  OBVIOUS
<1>2. /\ DOMAIN e = Tables /\ e.classes = d.classes /\ e.fields = d.fields
      /\ e.methods = d.methods /\ e.calls = d.calls /\ e.access = d.access
      /\ e.strings = d.strings \cup {StringRow(x, s) : x \in Csv[s].strings}
      /\ e.methodStrings = d.methodStrings
  BY <1>1 DEF LoadStrings, Tables, StringRow
<1>3. StringsOK(e, M)
  BY <1>2 DEF StringsOK
<1> QED
  BY <1>1, <1>2, <1>3

LEMMA UsesLoaded ==
  ASSUME NEW d, DOMAIN d = Tables, NEW L, NEW s \in Source, NEW M, M = L \cup {s},
         M \subseteq Source, MethodsOK(d, M), StringsOK(d, M), UsesOK(d, L)
  PROVE  LET e == LoadMethodStrings(d, s)
         IN /\ DOMAIN e = Tables /\ e.classes = d.classes /\ e.fields = d.fields
            /\ e.methods = d.methods /\ e.calls = d.calls /\ e.access = d.access
            /\ e.strings = d.strings
            /\ UsesOK(e, M)
<1> DEFINE texts(u) == {x \in d.strings : x.string = u.string /\ x.source = s}
           rowsOf(u) ==
             {[string |-> x, method |-> m] :
                x \in texts(u), m \in MethodsNamed(d, ClassId(u.method.class, s), u.method)}
<1> HIDE DEF texts, rowsOf
<1>1. PICK e : e = LoadMethodStrings(d, s)
  OBVIOUS
<1>2. PICK new : new = UNION {rowsOf(u) : u \in Csv[s].methodStrings}
  OBVIOUS
<1>3. e = [d EXCEPT !.methodStrings = @ \cup new]
  BY <1>1, <1>2 DEF LoadMethodStrings, texts, rowsOf
<1>4. /\ DOMAIN e = Tables /\ e.classes = d.classes /\ e.fields = d.fields
      /\ e.methods = d.methods /\ e.calls = d.calls /\ e.access = d.access
      /\ e.strings = d.strings /\ e.methodStrings = d.methodStrings \cup new
  BY <1>3 DEF Tables
<1>5. ASSUME NEW u \in Csv[s].methodStrings, NEW r
      PROVE  r \in rowsOf(u) <=> \E m \in RowsOf(u.method, s) : r = UseRow(u, m, s)
  <2> USE DEF texts, rowsOf
  <2>1. u.string \in Csv[s].strings /\ MethodKnown(u.method, s)
    BY StringsOfMethod
  <2>2. StringRow(u.string, s) \in d.strings
    BY <2>1 DEF StringsOK
  <2>3. StringRow(u.string, s) \in texts(u)
    BY <2>2 DEF StringRow
  <2>4. ASSUME NEW x \in texts(u)
        PROVE  x = StringRow(u.string, s)
    <3>1. PICK t \in M : \E y \in Csv[t].strings : x = StringRow(y, t)
      BY DEF StringsOK
    <3> QED
      BY <3>1 DEF StringRow
  <2>5. texts(u) = {StringRow(u.string, s)}
    BY <2>3, <2>4
  <2>6. MethodsNamed(d, ClassId(u.method.class, s), u.method) = RowsOf(u.method, s)
    BY <2>1, OwnMethod
  <2> HIDE DEF texts
  <2>7. r \in rowsOf(u) <=> \E m \in RowsOf(u.method, s) :
                             r = [string |-> StringRow(u.string, s), method |-> m]
    BY <2>5, <2>6
  <2> QED
    BY <2>7 DEF UseRow
<1>6. \A r : r \in new <=> \E u \in Csv[s].methodStrings : r \in rowsOf(u)
  BY <1>2
<1>7. UsesOK(e, M)
  BY <1>4, <1>5, <1>6 DEF UsesOK
<1> QED
  BY <1>1, <1>4, <1>7

-------------------------------------------------------------------------------
(* What the database has of the sources L.                                 *)

Content(d, L, never) ==
  /\ DOMAIN d = Tables /\ L \subseteq Source
  /\ ClassesOK(d, L) /\ FieldsOK(d, L) /\ MethodsOK(d, L)
  /\ AccessOK(d, L) /\ StringsOK(d, L) /\ UsesOK(d, L)
  /\ CallsOK(d, L, never)

LEMMA MethodsStay ==
  ASSUME NEW d, NEW e, NEW L, Ids(d) \subseteq Ids(e), e.methods = d.methods, MethodsOK(d, L)
  PROVE  MethodsOK(e, L)
BY DEF MethodsOK, MethodOK

(* The whole import of a source.                                           *)
LEMMA SourceAdded ==
  ASSUME NEW d, NEW L, NEW never, Content(d, L, never), NEW s \in Source,
         Framework \in L \cup {s}
  PROVE  Content(WithSource(d, s), L \cup {s}, never)
<1>1. PICK M : M = L \cup {s}
  OBVIOUS
<1>2. M \subseteq Source /\ Framework \in M /\ s \in M
  BY <1>1 DEF Content
<1>3. PICK h : h = LoadInterfaces(LoadSupers(LoadClasses(d, s), s), s)
  OBVIOUS
<1>4. DOMAIN h = Tables /\ Code(h) = Code(d) /\ Ids(d) \subseteq Ids(h) /\ ClassesOK(h, M)
  BY <1>1, <1>3, HierarchyLoaded DEF Content
<1>5. /\ h.fields = d.fields /\ h.methods = d.methods /\ h.calls = d.calls
      /\ h.access = d.access /\ h.strings = d.strings /\ h.methodStrings = d.methodStrings
  BY <1>4 DEF Code
<1>6. /\ FieldsOK(h, L) /\ MethodsOK(h, L) /\ AccessOK(h, L)
      /\ StringsOK(h, L) /\ UsesOK(h, L) /\ CallsOK(h, L, never)
  <2>1. FieldsOK(h, L) /\ AccessOK(h, L) /\ StringsOK(h, L) /\ UsesOK(h, L)
    BY <1>5 DEF Content, FieldsOK, AccessOK, StringsOK, UsesOK
  <2>2. MethodsOK(h, L)
    BY <1>4, <1>5, MethodsStay DEF Content
  <2>3. CallsOK(h, L, never)
    BY <1>5 DEF Content, CallsOK
  <2> QED
    BY <2>1, <2>2, <2>3
<1>7. PICK f : f = LoadFields(h, s)
  OBVIOUS
<1>8. /\ DOMAIN f = Tables /\ f.classes = h.classes
      /\ f.methods = h.methods /\ f.calls = h.calls /\ f.access = h.access
      /\ f.strings = h.strings /\ f.methodStrings = h.methodStrings
      /\ FieldsOK(f, M)
  BY <1>1, <1>4, <1>6, <1>7, FieldsLoaded
<1>9. Ids(f) = Ids(h)
  BY <1>8, SameIds
<1>10. /\ ClassesOK(f, M) /\ MethodsOK(f, L) /\ AccessOK(f, L)
       /\ StringsOK(f, L) /\ UsesOK(f, L) /\ CallsOK(f, L, never)
  <2>1. ClassesOK(f, M)
    BY <1>4, <1>9 DEF ClassesOK
  <2>2. MethodsOK(f, L)
    BY <1>6, <1>8, <1>9, MethodsStay
  <2>3. AccessOK(f, L) /\ StringsOK(f, L) /\ UsesOK(f, L)
    BY <1>6, <1>8 DEF AccessOK, StringsOK, UsesOK
  <2>4. CallsOK(f, L, never)
    BY <1>6, <1>8 DEF CallsOK
  <2> QED
    BY <2>1, <2>2, <2>3, <2>4
<1>11. PICK m : m = LoadMethods(f, s)
  OBVIOUS
<1>12. /\ DOMAIN m = Tables /\ m.classes = f.classes /\ f.methods \subseteq m.methods
       /\ m.fields = f.fields /\ m.calls = f.calls /\ m.access = f.access
       /\ m.strings = f.strings /\ m.methodStrings = f.methodStrings
       /\ MethodsOK(m, M)
  BY <1>1, <1>8, <1>10, <1>11, MethodsLoaded
<1>13. Ids(m) = Ids(f)
  BY <1>12, SameIds
<1>14. /\ ClassesOK(m, M) /\ FieldsOK(m, M) /\ AccessOK(m, L)
       /\ StringsOK(m, L) /\ UsesOK(m, L) /\ CallsOK(m, L, never)
  <2>1. ClassesOK(m, M)
    BY <1>10, <1>13 DEF ClassesOK
  <2>2. FieldsOK(m, M)
    BY <1>8, <1>12 DEF FieldsOK
  <2>3. AccessOK(m, L) /\ StringsOK(m, L) /\ UsesOK(m, L)
    BY <1>10, <1>12 DEF AccessOK, StringsOK, UsesOK
  <2>4. CallsOK(m, L, never)
    BY <1>10, <1>12 DEF CallsOK
  <2> QED
    BY <2>1, <2>2, <2>3, <2>4
<1>15. PICK c : c = LoadCalls(m, s)
  OBVIOUS
<1>16. /\ DOMAIN c = Tables /\ Ids(m) \subseteq Ids(c)
       /\ c.fields = m.fields /\ c.access = m.access
       /\ c.strings = m.strings /\ c.methodStrings = m.methodStrings
       /\ ClassesOK(c, M) /\ MethodsOK(c, M) /\ CallsOK(c, M, never)
  BY <1>1, <1>2, <1>12, <1>14, <1>15, CallsLoaded
<1>17. FieldsOK(c, M) /\ AccessOK(c, L) /\ StringsOK(c, L) /\ UsesOK(c, L)
  BY <1>14, <1>16 DEF FieldsOK, AccessOK, StringsOK, UsesOK
<1>18. PICK a : a = LoadAccess(c, s)
  OBVIOUS
<1>19. /\ DOMAIN a = Tables /\ a.classes = c.classes /\ a.fields = c.fields
       /\ a.methods = c.methods /\ a.calls = c.calls
       /\ a.strings = c.strings /\ a.methodStrings = c.methodStrings
       /\ AccessOK(a, M)
  BY <1>1, <1>2, <1>16, <1>17, <1>18, AccessLoaded
<1>20. PICK x : x = LoadStrings(a, s)
  OBVIOUS
<1>21. StringsOK(a, L)
  BY <1>17, <1>19 DEF StringsOK
<1>22. /\ DOMAIN x = Tables /\ x.classes = a.classes /\ x.fields = a.fields
       /\ x.methods = a.methods /\ x.calls = a.calls /\ x.access = a.access
       /\ x.methodStrings = a.methodStrings
       /\ StringsOK(x, M)
  BY <1>1, <1>19, <1>20, <1>21, StringsLoaded
<1>23. PICK u : u = LoadMethodStrings(x, s)
  OBVIOUS
<1>24. Ids(x) = Ids(c)
  BY <1>19, <1>22, SameIds
<1>25. MethodsOK(x, M) /\ UsesOK(x, L)
  <2>1. MethodsOK(x, M)
    BY <1>16, <1>19, <1>22, <1>24, MethodsStay
  <2>2. UsesOK(x, L)
    BY <1>17, <1>19, <1>22 DEF UsesOK
  <2> QED
    BY <2>1, <2>2
<1>26. /\ DOMAIN u = Tables /\ u.classes = x.classes /\ u.fields = x.fields
       /\ u.methods = x.methods /\ u.calls = x.calls /\ u.access = x.access
       /\ u.strings = x.strings
       /\ UsesOK(u, M)
  BY <1>1, <1>2, <1>22, <1>23, <1>25, UsesLoaded
<1>27. Ids(u) = Ids(c)
  BY <1>24, <1>26, SameIds
<1>28. ClassesOK(u, M) /\ FieldsOK(u, M) /\ MethodsOK(u, M)
  <2>1. ClassesOK(u, M)
    BY <1>16, <1>27 DEF ClassesOK
  <2>2. FieldsOK(u, M)
    BY <1>17, <1>19, <1>22, <1>26 DEF FieldsOK
  <2>3. MethodsOK(u, M)
    BY <1>16, <1>19, <1>22, <1>26, <1>27, MethodsStay
  <2> QED
    BY <2>1, <2>2, <2>3
<1>29. AccessOK(u, M) /\ StringsOK(u, M) /\ CallsOK(u, M, never)
  <2>1. AccessOK(u, M)
    BY <1>19, <1>22, <1>26 DEF AccessOK
  <2>2. StringsOK(u, M)
    BY <1>22, <1>26 DEF StringsOK
  <2>3. CallsOK(u, M, never)
    BY <1>16, <1>19, <1>22, <1>26 DEF CallsOK
  <2> QED
    BY <2>1, <2>2, <2>3
<1>30. WithSource(d, s) = u
  BY <1>3, <1>7, <1>11, <1>15, <1>18, <1>20, <1>23 DEF WithSource
<1> QED
  BY <1>1, <1>2, <1>26, <1>28, <1>29, <1>30 DEF Content

(* The removal of an APK: what the others say is still there, but for      *)
(* calls of what no file defines.                                          *)
LEMMA SourceGone ==
  ASSUME NEW d, NEW L, NEW never, Content(d, L, never), NEW t \in L, t # Framework, Framework \in L
  PROVE  Content(WithoutSource(d, t), L \ {t}, FALSE)
<1> DEFINE gone == {IdOf(c) : c \in {c \in d.classes : c.source = t}}
           kept == {m \in d.methods : m.source # t /\ m.class \notin gone}
           fields == {f \in d.fields : f.class \notin gone}
           strings == {x \in d.strings : x.source # t}
<1>1. PICK M : M = L \ {t}
  OBVIOUS
<1>2. /\ M \subseteq L /\ M \subseteq Source /\ Framework \in M
      /\ \A s \in M : s # t
      /\ \A s \in L : s \in M \/ s = t
  BY <1>1 DEF Content
<1>3. PICK e : e = WithoutSource(d, t)
  OBVIOUS
<1>4. /\ DOMAIN e = Tables /\ e.classes = {c \in d.classes : c.source # t}
      /\ e.fields = fields /\ e.methods = kept /\ e.strings = strings
      /\ e.calls = {c \in d.calls : c.source # t /\ c.caller \in kept /\ c.callee \in kept}
      /\ e.access = {a \in d.access : a.field \in fields /\ a.method \in kept}
      /\ e.methodStrings = {u \in d.methodStrings : u.string \in strings /\ u.method \in kept}
  BY <1>3 DEF WithoutSource, Tables
<1>5. ClassesOK(d, L) /\ FieldsOK(d, L) /\ MethodsOK(d, L) /\ AccessOK(d, L)
      /\ StringsOK(d, L) /\ UsesOK(d, L) /\ CallsOK(d, L, never)
  BY DEF Content
<1>6. \A i \in Ids(d) : i \in gone <=> i.source = t
  BY DEF Ids, IdOf, ClassId
<1>7. \A i : i \in Ids(e) <=> i \in Ids(d) /\ i.source # t
  <2>1. \A i \in Ids(e) : i \in Ids(d) /\ i.source # t
    BY <1>4 DEF Ids, IdOf, ClassId
  <2>2. ASSUME NEW i \in Ids(d), i.source # t
        PROVE  i \in Ids(e)
    <3>1. PICK c \in d.classes : i = IdOf(c)
      BY DEF Ids
    <3>2. c.source # t
      BY <2>2, <3>1 DEF IdOf, ClassId
    <3> QED
      BY <1>4, <3>1, <3>2 DEF Ids
  <2> QED
    BY <2>1, <2>2
<1> HIDE DEF gone, kept, fields, strings
<1>8. ClassesOK(e, M)
  <2>1. ASSUME NEW s \in M, NEW c \in Csv[s].classes
        PROVE  ClassId(c.name, s) \in Ids(e)
    <3>1. ClassId(c.name, s) \in Ids(d) /\ ClassId(c.name, s).source = s
      BY <1>2, <1>5 DEF ClassesOK, ClassId
    <3> QED
      BY <1>2, <1>7, <3>1
  <2> QED
    BY <1>2, <1>5, <1>7, <2>1 DEF ClassesOK
<1>9. ASSUME NEW s \in L, NEW f \in Csv[s].fields
      PROVE  FieldRow(f, s) \in fields <=> s # t
  <2>1. FieldRow(f, s) \in d.fields
    BY <1>5 DEF FieldsOK
  <2>2. Defines(s, f.class)
    BY <1>2, FieldsDefined DEF Content
  <2>3. ClassId(f.class, s) \in Ids(d) /\ ClassId(f.class, s).source = s
        /\ FieldRow(f, s).class = ClassId(f.class, s)
    BY <1>5, <2>2 DEF ClassesOK, Defines, ClassId, FieldRow
  <2> QED
    BY <1>6, <2>1, <2>3 DEF fields
<1>10. FieldsOK(e, M)
  <2>1. ASSUME NEW r \in e.fields
        PROVE  \E s \in M : \E f \in Csv[s].fields : r = FieldRow(f, s)
    <3>1. r \in d.fields /\ r \in fields
      BY <1>4 DEF fields
    <3>2. PICK s \in L : \E f \in Csv[s].fields : r = FieldRow(f, s)
      BY <1>5, <3>1 DEF FieldsOK
    <3> QED
      BY <1>2, <1>9, <3>1, <3>2
  <2>2. ASSUME NEW s \in M, NEW f \in Csv[s].fields
        PROVE  FieldRow(f, s) \in e.fields
    BY <1>2, <1>4, <1>9
  <2> QED
    BY <2>1, <2>2 DEF FieldsOK
<1>11. \A r \in d.methods : r \in kept <=> r.source # t /\ r.class.source # t
  BY <1>5, <1>6 DEF kept, MethodsOK, MethodOK
<1>12. \A s \in L : \A m \in Csv[s].methods : MethodRow(m, s) \in kept <=> s # t
  <2> SUFFICES ASSUME NEW s \in L, NEW m \in Csv[s].methods
               PROVE  MethodRow(m, s) \in kept <=> s # t
    OBVIOUS
  <2>1. MethodRow(m, s) \in d.methods
    BY <1>5 DEF MethodsOK
  <2>2. MethodRow(m, s).source = s /\ MethodRow(m, s).class.source = s
    BY DEF MethodRow, ClassId
  <2> QED
    BY <1>11, <2>1, <2>2
<1>13. ASSUME NEW s \in L, NEW m, NEW r \in RowsOf(m, s)
       PROVE  r \in kept <=> s # t
  BY <1>12 DEF RowsOf, Overloads
<1>14. MethodsOK(e, M)
  <2>1. \A s \in M : \A m \in Csv[s].methods : MethodRow(m, s) \in e.methods
    BY <1>2, <1>4, <1>12
  <2>2. ASSUME NEW r \in e.methods
        PROVE  MethodOK(e, M, r)
    <3>1. r \in d.methods /\ r \in kept
      BY <1>4 DEF kept
    <3>2. MethodOK(d, L, r)
      BY <1>5, <3>1 DEF MethodsOK
    <3>3. r.class \in Ids(e) /\ r.source \in M
      BY <1>2, <1>7, <1>11, <3>1, <3>2 DEF MethodOK
    <3> QED
      BY <3>2, <3>3 DEF MethodOK
  <2> QED
    BY <2>1, <2>2 DEF MethodsOK
<1>15. AccessOK(e, M)
  <2>1. ASSUME NEW s \in L, NEW a \in Csv[s].access, FieldKnown(a.field, s),
               NEW m \in RowsOf(a.method, s)
        PROVE  AccessRow(a, m, s) \in e.access <=> s # t
    <3>1. PICK i : i = DefinedId(a.field.class, s)
      OBVIOUS
    <3>2. i.source \in {s, Framework} /\ i.source \in L /\ a.field \in Csv[i.source].fields
      BY <2>1, <3>1, DefinedIs DEF FieldKnown
    <3>4. PICK r : r = AccessRow(a, m, s)
      OBVIOUS
    <3>5. r.field = FieldRow(a.field, i.source) /\ r.method = m
      BY <3>1, <3>4 DEF AccessRow
    <3>6. r \in d.access
      BY <1>5, <2>1, <3>4 DEF AccessOK
    <3>7. r.field \in fields <=> i.source # t
      BY <1>9, <3>2, <3>5
    <3>8. r.method \in kept <=> s # t
      BY <1>13, <3>5
    <3> QED
      BY <1>4, <3>2, <3>4, <3>6, <3>7, <3>8
  <2>2. ASSUME NEW r \in e.access
        PROVE  \E s \in M : \E a \in Csv[s].access :
                 FieldKnown(a.field, s) /\ \E m \in RowsOf(a.method, s) : r = AccessRow(a, m, s)
    <3>1. r \in d.access
      BY <1>4
    <3>2. PICK s \in L : \E a \in Csv[s].access :
                 FieldKnown(a.field, s) /\ \E m \in RowsOf(a.method, s) : r = AccessRow(a, m, s)
      BY <1>5, <3>1 DEF AccessOK
    <3> QED
      BY <1>2, <2>1, <2>2, <3>2
  <2>3. \A s \in M : \A a \in Csv[s].access : FieldKnown(a.field, s) =>
          \A m \in RowsOf(a.method, s) : AccessRow(a, m, s) \in e.access
    BY <1>2, <2>1
  <2> QED
    BY <2>2, <2>3 DEF AccessOK
<1>16. \A s \in L : \A x \in Csv[s].strings : StringRow(x, s) \in strings <=> s # t
  BY <1>5 DEF StringsOK, strings, StringRow
<1>17. StringsOK(e, M)
  <2>1. ASSUME NEW r \in e.strings
        PROVE  \E s \in M : \E x \in Csv[s].strings : r = StringRow(x, s)
    <3>1. r \in d.strings /\ r \in strings
      BY <1>4 DEF strings
    <3>2. PICK s \in L : \E x \in Csv[s].strings : r = StringRow(x, s)
      BY <1>5, <3>1 DEF StringsOK
    <3> QED
      BY <1>2, <1>16, <3>1, <3>2
  <2>2. \A s \in M : \A x \in Csv[s].strings : StringRow(x, s) \in e.strings
    BY <1>2, <1>4, <1>16
  <2> QED
    BY <2>1, <2>2 DEF StringsOK
<1>18. UsesOK(e, M)
  <2>1. ASSUME NEW s \in L, NEW u \in Csv[s].methodStrings, NEW m \in RowsOf(u.method, s)
        PROVE  UseRow(u, m, s) \in e.methodStrings <=> s # t
    <3>1. u.string \in Csv[s].strings
      BY StringsOfMethod DEF Content
    <3>2. PICK r : r = UseRow(u, m, s)
      OBVIOUS
    <3>3. r.string = StringRow(u.string, s) /\ r.method = m
      BY <3>2 DEF UseRow
    <3>4. r \in d.methodStrings
      BY <1>5, <3>2 DEF UsesOK
    <3>5. r.string \in strings <=> s # t
      BY <1>16, <3>1, <3>3
    <3>6. r.method \in kept <=> s # t
      BY <1>13, <3>3
    <3> QED
      BY <1>4, <3>2, <3>4, <3>5, <3>6
  <2>2. ASSUME NEW r \in e.methodStrings
        PROVE  \E s \in M : \E u \in Csv[s].methodStrings :
                 \E m \in RowsOf(u.method, s) : r = UseRow(u, m, s)
    <3>1. r \in d.methodStrings
      BY <1>4
    <3>2. PICK s \in L : \E u \in Csv[s].methodStrings :
                 \E m \in RowsOf(u.method, s) : r = UseRow(u, m, s)
      BY <1>5, <3>1 DEF UsesOK
    <3> QED
      BY <1>2, <2>1, <2>2, <3>2
  <2>3. \A s \in M : \A u \in Csv[s].methodStrings :
          \A m \in RowsOf(u.method, s) : UseRow(u, m, s) \in e.methodStrings
    BY <1>2, <2>1
  <2> QED
    BY <2>2, <2>3 DEF UsesOK
<1>19. CallsOK(e, M, FALSE)
  <2>1. \A r \in e.calls : r.caller \in e.methods /\ r.callee \in e.methods
    BY <1>4
  <2>2. ASSUME NEW s \in M, NEW c \in SaidCalls[s], Lasting(c, s, FALSE),
               NEW m \in RowsOf(c.caller, s)
        PROVE  \E r \in e.calls : /\ r.source = s /\ r.caller = m
                                  /\ r.callee.class = DefinedId(c.callee.class, s)
                                  /\ r.callee.name = c.callee.name /\ r.callee.args = c.callee.args
    <3>1. PICK i : i = DefinedId(c.callee.class, s)
      OBVIOUS
    <3>2. /\ i.name = c.callee.class /\ i.source \in {s, Framework}
          /\ Overloads(c.callee, i.source) # {} /\ Lasting(c, s, never)
      BY <2>2, <3>1, DefinedIs DEF Lasting
    <3>3. s \in L /\ s # t /\ i.source # t /\ i.source \in Source
      BY <1>2, <3>2
    <3>4. PICK r \in d.calls : /\ r.source = s /\ r.caller = m
                               /\ r.callee.class = i
                               /\ r.callee.name = c.callee.name /\ r.callee.args = c.callee.args
      BY <1>5, <3>1, <3>2, <3>3 DEF CallsOK
    <3>5. r.caller \in d.methods /\ r.callee \in d.methods
      BY <1>5 DEF CallsOK
    <3>7. r.caller \in kept
      BY <1>13, <3>3, <3>4
    <3>8. c.callee = [class |-> c.callee.class, name |-> c.callee.name, args |-> c.callee.args]
      BY <1>2, SaidAreSent, CallsOfMethod
    <3>9. Named(r.callee) = c.callee
      BY <3>2, <3>4, <3>8 DEF Named
    <3>10. r.callee.source = i.source
      <4>1. r.callee \in RowsOf(c.callee, i.source)
        BY <1>5, <3>2, <3>4, <3>5, <3>9 DEF MethodsOK, MethodOK
      <4> QED
        BY <4>1 DEF RowsOf, MethodRow
    <3>11. r.callee \in kept
      BY <1>11, <3>3, <3>4, <3>5, <3>10
    <3>12. r \in e.calls
      BY <1>4, <3>3, <3>4, <3>7, <3>11
    <3> QED
      BY <3>1, <3>4, <3>12
  <2> QED
    BY <2>1, <2>2 DEF CallsOK
<1> QED
  BY <1>1, <1>2, <1>3, <1>4, <1>8, <1>10, <1>14, <1>15, <1>17, <1>18, <1>19 DEF Content

-------------------------------------------------------------------------------
(* The invariant: what the database has of the sources imported into it.   *)

FindInv ==
  /\ sources # {} => Framework \in sources
  /\ removals \in Nat
  /\ Content(db, sources, removals = 0)

(* Before the first import there is nothing to hold.                       *)
LEMMA NoSource ==
  Content(EmptyDb, {}, TRUE)
BY DEF Content, EmptyDb, Tables, ClassesOK, FieldsOK, MethodsOK, AccessOK, StringsOK, UsesOK,
       CallsOK, Ids

(* The find commands only read.                                            *)
LEMMA CommandsKeep ==
  ASSUME FindInv, Command
  PROVE  FindInv'
BY DEF Command, FindInv

LEMMA FindStep ==
  ASSUME FindInv, FindNext
  PROVE  FindInv'
<1>1. ASSUME NEW s \in Source, ImportSource(s)
      PROVE  FindInv'
  <2>1. db' = WithSource(db, s) /\ sources' = sources \cup {s} /\ removals' = removals
    BY <1>1 DEF ImportSource
  <2>2. Framework \in sources \cup {s}
    BY <1>1 DEF ImportSource
  <2>3. PICK never : never = (removals = 0)
    OBVIOUS
  <2>4. Content(db, sources, never)
    BY <2>3 DEF FindInv
  <2>5. Content(db', sources', never)
    BY <2>1, <2>2, <2>4, SourceAdded
  <2>6. never = (removals' = 0)
    BY <2>1, <2>3
  <2> QED
    BY <2>1, <2>2, <2>5, <2>6 DEF FindInv
<1>2. ASSUME NEW s \in Apk, DropSource(s)
      PROVE  FindInv'
  <2>1. /\ db' = WithoutSource(db, s) /\ sources' = sources \ {s} /\ removals' = removals + 1
        /\ s \in sources
    BY <1>2 DEF DropSource
  <2>2. s # Framework /\ Framework \in sources
    BY <2>1, RowsAssumption DEF FindInv
  <2>3. PICK never : never = (removals = 0)
    OBVIOUS
  <2>4. Content(db, sources, never)
    BY <2>3 DEF FindInv
  <2>5. Content(db', sources', FALSE)
    BY <2>1, <2>2, <2>4, SourceGone
  <2>6. removals' \in Nat /\ removals' # 0
    BY <2>1 DEF FindInv
  <2>7. PICK now : now = (removals' = 0)
    OBVIOUS
  <2>8. Content(db', sources', now)
    <3>1. now = FALSE
      BY <2>6, <2>7
    <3> QED
      BY <2>5, <3>1
  <2> QED
    BY <2>1, <2>2, <2>6, <2>7, <2>8 DEF FindInv
<1>3. ASSUME NEW q, NEW n, NEW noCache, NEW s, NEW json,
             Callers(q, s, n, json, noCache)
      PROVE  Command
  BY <1>3 DEF Callers
<1>4. ASSUME NEW q, NEW n, NEW noCache, NEW s, NEW json,
             Outgoing(q, s, n, json, noCache)
      PROVE  Command
  BY <1>4 DEF Outgoing
<1>5. ASSUME NEW q, NEW n, NEW noCache, NEW o, Ipc(q, o, n, noCache)
      PROVE  Command
  BY <1>5 DEF Ipc
<1>6. ASSUME NEW name, NEW args, NEW t, NEW noAbstract, NEW noCache,
             ClassesWith(name, args, t, noAbstract, noCache)
      PROVE  Command
  BY <1>6 DEF ClassesWith
<1>7. ASSUME NEW a, NEW o, NEW noCache, ParseUri(a, o, noCache)
      PROVE  Command
  BY <1>7 DEF ParseUri
<1>8. ASSUME NEW a, NEW noPerms, NEW strict, NEW noCache,
             IntentActivities(a, noPerms, strict, noCache)
      PROVE  Command
  BY <1>8 DEF IntentActivities
<1>9. \/ \E s \in Source : ImportSource(s)
      \/ \E s \in Apk : DropSource(s)
      \/ Command
  BY <1>3, <1>4, <1>5, <1>6, <1>7, <1>8 DEF FindNext
<1> QED
  BY <1>1, <1>2, <1>9, CommandsKeep

(* Whatever is imported, removed and searched for in whatever order, the  *)
(* tables hold what the files of the sources in them say.                  *)
THEOREM FindInvariant == FindSpec => []FindInv
<1>1. FindInit => FindInv
  <2> SUFFICES ASSUME FindInit
               PROVE  FindInv
    OBVIOUS
  <2>1. db = EmptyDb /\ sources = {} /\ removals = 0
    BY DEF FindInit
  <2>2. PICK never : never = (removals = 0)
    OBVIOUS
  <2>3. Content(db, sources, never)
    <3>1. never = TRUE
      BY <2>1, <2>2
    <3> QED
      BY <2>1, <3>1, NoSource
  <2> QED
    BY <2>1, <2>2, <2>3 DEF FindInv
<1>2. FindInv /\ [FindNext]_findVars => FindInv'
  <2> SUFFICES ASSUME FindInv, [FindNext]_findVars
               PROVE  FindInv'
    OBVIOUS
  <2>1. CASE FindNext
    BY <2>1, FindStep
  <2>2. CASE UNCHANGED findVars
    BY <2>2 DEF findVars, FindInv
  <2> QED
    BY <2>1, <2>2
<1> QED
  BY <1>1, <1>2, PTL DEF FindSpec

-------------------------------------------------------------------------------
(* What the searches find in such a database.                              *)

LEMMA OptionIs ==
  ASSUME NEW v, NEW w
  PROVE  /\ Some(v) # None /\ Some(v)[1] = v
         /\ Fits(Some(v), w) <=> v = w
         /\ Fits(None, w)
BY DEF Some, None, Fits

LEMMA SpelledIs ==
  ASSUME NEW d, NEW L, NEW never, Content(d, L, never), NEW s \in L, NEW m, MethodKnown(m, s)
  PROVE  /\ MethodIds(d, Spelled(s, m)) = RowsOf(m, s)
         /\ MethodSpecs(d, Spelled(s, m)) = RowsOf(m, s)
         /\ MethodSearchOk(Spelled(s, m))
<1>1. MethodsOK(d, L) /\ L \subseteq Source /\ ClassesOK(d, L)
  BY DEF Content
<1>2. Defines(s, m.class)
  BY <1>1, MethodsDefined DEF MethodKnown, Overloads
<1>3. /\ MethodsNamed(d, ClassId(m.class, s), m) = RowsOf(m, s)
      /\ \A r \in RowsOf(m, s) : r \in d.methods /\ r.source = s /\ Named(r) = m
  BY <1>1, OwnMethod
<1>4. PICK q : q = Spelled(s, m)
  OBVIOUS
<1>5. /\ q.class = Some(m.class) /\ q.name = Some(m.name) /\ q.args = Some(m.args)
      /\ q.source = Some(s)
  BY <1>4 DEF Spelled
<1>6. ASSUME NEW r \in RowsOf(m, s)
      PROVE  r \in MethodIds(d, q) /\ r.class \in Ids(d)
  <2>1. r \in d.methods /\ r.source = s
    BY <1>3
  <2>2. r.class.name = m.class /\ r.name = m.name /\ r.args = m.args
    BY <1>3 DEF Named
  <2>3. r.class \in Ids(d)
    BY <1>1, <2>1 DEF MethodsOK, MethodOK
  <2> QED
    BY <1>5, <2>1, <2>2, <2>3, OptionIs DEF MethodIds
<1>7. ASSUME NEW x \in MethodIds(d, q)
      PROVE  x \in RowsOf(m, s)
  <2>1. x \in d.methods /\ x.name = m.name /\ x.class.name = m.class /\ x.args = m.args
        /\ x.source = s
    BY <1>5, OptionIs DEF MethodIds
  <2>2. x.class.source = s
    BY <1>1, <1>2, <2>1 DEF MethodsOK, MethodOK
  <2>3. x.class \in Ids(d)
    BY <1>1, <2>1 DEF MethodsOK, MethodOK
  <2>4. x.class = ClassId(m.class, s)
    BY <1>1, <2>1, <2>2, <2>3 DEF ClassesOK
  <2> QED
    BY <1>3, <2>1, <2>4 DEF MethodsNamed
<1>8. MethodIds(d, q) = RowsOf(m, s)
  BY <1>6, <1>7
<1>9. MethodSpecs(d, q) = RowsOf(m, s)
  BY <1>6, <1>8 DEF MethodSpecs
<1>10. MethodSearchOk(q)
  BY <1>5, OptionIs DEF MethodSearchOk
<1> QED
  BY <1>4, <1>8, <1>9, <1>10

(* A row of a method is printed as the file has it.                        *)
LEMMA PrintedIs ==
  ASSUME NEW m, NEW s
  PROVE  /\ \A r \in RowsOf(m, s) : MethodSpec(r, s) \in MethodsOf(m, s)
         /\ \A p \in MethodsOf(m, s) : \E r \in RowsOf(m, s) : p = MethodSpec(r, s)
<1>1. \A o : MethodSpec(MethodRow(o, s), s) = MethodOf(o, s)
  BY DEF MethodSpec, MethodRow, MethodOf, ClassId
<1> QED
  BY <1>1 DEF RowsOf, MethodsOf

LEMMA CallsFound ==
  FindInv => CallsPresent
<1> SUFFICES ASSUME FindInv
             PROVE  CallsPresent
  OBVIOUS
<1>1. PICK never : never = (removals = 0)
  OBVIOUS
<1>2. Content(db, sources, never)
  BY <1>1 DEF FindInv
<1>3. ASSUME NEW s \in sources, NEW c \in SaidCalls[s],
             LET callee == DefinedId(c.callee.class, s)
             IN /\ Overloads(c.callee, callee.source) # {} \/ removals = 0
                /\ c.caller # c.callee \/ callee.source # s,
             NEW m \in Overloads(c.caller, s)
      PROVE  \E row \in db.calls :
               /\ row.source = s /\ row.callee.class = DefinedId(c.callee.class, s)
               /\ MethodSpec(row.caller, s) = MethodOf(m, s)
               /\ row.callee.name = c.callee.name /\ row.callee.args = c.callee.args
  <2>1. Lasting(c, s, never)
    BY <1>1, <1>3 DEF Lasting
  <2>2. MethodRow(m, s) \in RowsOf(c.caller, s)
    BY DEF RowsOf
  <2>3. PICK row \in db.calls :
          /\ row.source = s /\ row.caller = MethodRow(m, s)
          /\ row.callee.class = DefinedId(c.callee.class, s)
          /\ row.callee.name = c.callee.name /\ row.callee.args = c.callee.args
    BY <1>2, <2>1, <2>2 DEF Content, CallsOK
  <2>4. MethodSpec(MethodRow(m, s), s) = MethodOf(m, s)
    BY DEF MethodSpec, MethodRow, MethodOf, ClassId
  <2> QED
    BY <2>3, <2>4
<1> QED
  BY <1>3 DEF CallsPresent

LEMMA DefinitionsFound ==
  FindInv => DefinitionsPresent
<1> SUFFICES ASSUME FindInv
             PROVE  DefinitionsPresent
  OBVIOUS
<1>1. PICK never : never = (removals = 0)
  OBVIOUS
<1>2. Content(db, sources, never)
  BY <1>1 DEF FindInv
<1>3. /\ ClassesOK(db, sources) /\ FieldsOK(db, sources) /\ MethodsOK(db, sources)
      /\ sources \subseteq Source
  BY <1>2 DEF Content
<1>4. ASSUME NEW s \in sources, NEW c \in Csv[s].classes
      PROVE  c.name \in ClassesFor(db, s) /\ s \in SourcesOfClass(db, c.name)
  <2>1. ClassId(c.name, s) \in Ids(db)
    BY <1>3 DEF ClassesOK
  <2>2. PICK r \in db.classes : ClassId(c.name, s) = ClassId(r.name, r.source)
    BY <2>1 DEF Ids, IdOf
  <2>3. r.name = c.name /\ r.source = s
    BY <2>2 DEF ClassId
  <2> QED
    BY <2>3 DEF ClassesFor, SourcesOfClass
<1>5. ASSUME NEW s \in sources, NEW m \in Csv[s].methods, NEW t \in {None, Some(s)}
      PROVE  /\ MethodOf(m, s) \in MethodsByName(db, m.name, t)[1]
             /\ MethodOf(m, s) \in MethodsByClass(db, m.class, t)[1]
             /\ MethodOf(m, s) \in MethodsBySource(db, s)[1]
  <2>1. PICK r : r = MethodRow(m, s)
    OBVIOUS
  <2>2. r \in db.methods /\ r.class \in Ids(db)
    BY <1>3, <2>1 DEF MethodsOK, MethodOK
  <2>3. /\ r.class.name = m.class /\ r.name = m.name /\ r.args = m.args /\ r.ret = m.ret
        /\ r.source = s
    BY <2>1 DEF MethodRow, ClassId
  <2>4. MethodSpec(r, r.source) = MethodOf(m, s)
    BY <2>3 DEF MethodSpec, MethodOf
  <2>5. Fits(t, s)
    BY OptionIs
  <2>6. ASSUME NEW q, MethodSearchOk(q), Fits(q.name, m.name), Fits(q.class, m.class),
               Fits(q.args, m.args), Fits(q.source, s)
        PROVE  MethodOf(m, s) \in MethodSpecsFor(db, q)[1]
    <3>1. r \in MethodSpecs(db, q)
      BY <2>2, <2>3, <2>6 DEF MethodSpecs, MethodIds
    <3>2. PICK found : found = {MethodSpec(x, x.source) : x \in MethodSpecs(db, q)}
      OBVIOUS
    <3>3. MethodSpecsFor(db, q) = Some(found)
      BY <2>6, <3>2 DEF MethodSpecsFor
    <3>4. MethodOf(m, s) \in found
      BY <2>4, <3>1, <3>2
    <3> QED
      BY <3>3, <3>4, OptionIs
  <2>7. MethodOf(m, s) \in MethodsByName(db, m.name, t)[1]
    <3>1. PICK q : q = [name |-> Some(m.name), class |-> None, args |-> None, source |-> t]
      OBVIOUS
    <3>2. q.name = Some(m.name) /\ q.class = None /\ q.args = None /\ q.source = t
      BY <3>1
    <3>3. MethodSearchOk(q)
      BY <3>2, OptionIs DEF MethodSearchOk
    <3>4. /\ Fits(q.name, m.name) /\ Fits(q.class, m.class) /\ Fits(q.args, m.args)
          /\ Fits(q.source, s)
      BY <2>5, <3>2, OptionIs
    <3> QED
      BY <2>6, <3>1, <3>3, <3>4 DEF MethodsByName
  <2>8. MethodOf(m, s) \in MethodsByClass(db, m.class, t)[1]
    <3>1. PICK q : q = [name |-> None, class |-> Some(m.class), args |-> None, source |-> t]
      OBVIOUS
    <3>2. q.name = None /\ q.class = Some(m.class) /\ q.args = None /\ q.source = t
      BY <3>1
    <3>3. MethodSearchOk(q)
      BY <3>2, OptionIs DEF MethodSearchOk
    <3>4. /\ Fits(q.name, m.name) /\ Fits(q.class, m.class) /\ Fits(q.args, m.args)
          /\ Fits(q.source, s)
      BY <2>5, <3>2, OptionIs
    <3> QED
      BY <2>6, <3>1, <3>3, <3>4 DEF MethodsByClass
  <2>9. MethodOf(m, s) \in MethodsBySource(db, s)[1]
    <3>1. PICK found :
            found = {MethodSpec(x, s) : x \in {x \in MethodsFor(db, s) : x.class \in Ids(db)}}
      OBVIOUS
    <3>2. r \in {x \in MethodsFor(db, s) : x.class \in Ids(db)}
      BY <2>2, <2>3 DEF MethodsFor
    <3>3. MethodOf(m, s) \in found
      BY <2>3, <2>4, <3>1, <3>2
    <3> QED
      BY <3>1, <3>3, OptionIs DEF MethodsBySource
  <2> QED
    BY <2>7, <2>8, <2>9
<1>6. ASSUME NEW s \in sources, NEW f \in Csv[s].fields, NEW name \in {None, Some(f.name)}
      PROVE  FieldOf(f, s) \in FieldsBySpec(db, f.class, name, Some(s))[1]
  <2>1. PICK r : r = FieldRow(f, s)
    OBVIOUS
  <2>2. r \in db.fields /\ r.class = ClassId(f.class, s)
    BY <1>3, <2>1 DEF FieldsOK, FieldRow
  <2>3. r.class.name = f.class /\ r.name = f.name /\ r.type = f.type /\ r.class.source = s
    BY <2>1 DEF FieldRow, ClassId
  <2>4. r.class \in Ids(db)
    BY <1>3, <2>2, FieldsDefined DEF ClassesOK, Defines
  <2>5. PICK q : q = [class |-> Some(f.class), name |-> name, type |-> None, source |-> Some(s)]
    OBVIOUS
  <2>6. q.class = Some(f.class) /\ q.name = name /\ q.type = None /\ q.source = Some(s)
    BY <2>5
  <2>7. FieldSearchOk(q)
    BY <2>6 DEF FieldSearchOk
  <2>8. Some(r.class.name) = q.class /\ Fits(q.name, r.name) /\ Fits(q.type, r.type)
        /\ Fits(q.source, r.class.source)
    BY <2>3, <2>6, OptionIs
  <2>9. r \in FieldSpecs(db, q)
    BY <2>2, <2>4, <2>8 DEF FieldSpecs, FieldIds
  <2>10. PICK found : found = {FieldSpec(x) : x \in FieldSpecs(db, q)}
    OBVIOUS
  <2>11. FieldSpec(r) = FieldOf(f, s)
    BY <2>3 DEF FieldSpec, FieldOf
  <2>12. FieldOf(f, s) \in found
    BY <2>9, <2>10, <2>11
  <2>13. FieldsBySpec(db, f.class, name, Some(s)) = Some(found)
    BY <2>5, <2>7, <2>10 DEF FieldsBySpec
  <2> QED
    BY <2>12, <2>13, OptionIs
<1> QED
  BY <1>4, <1>5, <1>6 DEF DefinitionsPresent

(* An access as the files say it.                                          *)
Printed(r) ==
  [field |-> FieldSpec(r.field), method |-> Named(r.method), source |-> r.method.source,
   action |-> r.action]

LEMMA AccessIs ==
  ASSUME FindInv
  PROVE  /\ \A r \in db.access :
              /\ r.field \in db.fields /\ r.method \in db.methods
              /\ r.method.class.source = r.method.source
              /\ r.method \in RowsOf(Named(r.method), r.method.source)
              /\ Printed(r) \in Accesses
         /\ \A a \in Accesses :
              /\ MethodKnown(a.method, a.source) /\ a.source \in sources
              /\ \A m \in RowsOf(a.method, a.source) :
                   \E r \in db.access : a = Printed(r) /\ r.method = m
<1>1. /\ FieldsOK(db, sources) /\ MethodsOK(db, sources) /\ AccessOK(db, sources)
      /\ sources \subseteq Source
  BY DEF FindInv, Content
<1>2. ASSUME NEW s \in sources, NEW a \in Csv[s].access, FieldKnown(a.field, s),
             NEW m \in RowsOf(a.method, s)
      PROVE  LET r == AccessRow(a, m, s)
                 p == [field |-> FieldOf(a.field, DefinedId(a.field.class, s).source),
                       method |-> a.method, source |-> s, action |-> a.action]
             IN /\ r \in db.access /\ r.field \in db.fields /\ r.method \in db.methods
                /\ r.method = m /\ r.method.class.source = r.method.source
                /\ r.method \in RowsOf(Named(r.method), r.method.source)
                /\ Printed(r) = p /\ p \in Accesses
  <2>1. PICK i : i = DefinedId(a.field.class, s)
    OBVIOUS
  <2>2. PICK r : r = AccessRow(a, m, s)
    OBVIOUS
  <2>3. PICK f : f = FieldRow(a.field, i.source)
    OBVIOUS
  <2>4. MethodKnown(a.method, s)
    BY <1>1, AccessOfMethod
  <2>5. r.field = f /\ r.method = m /\ r.action = a.action
    BY <2>1, <2>2, <2>3 DEF AccessRow
  <2>6. i.source \in sources
    BY <2>1, DefinedIs DEF FindInv
  <2>7. f \in db.fields
    <3>1. a.field \in Csv[i.source].fields
      BY <1>2, <2>1 DEF FieldKnown
    <3> QED
      BY <1>1, <2>3, <2>6, <3>1 DEF FieldsOK
  <2>8. m \in db.methods /\ m.source = s /\ m.class.source = s /\ Named(m) = a.method
    BY <1>1, <2>4, OwnMethod
  <2>9. r \in db.access
    BY <1>1, <1>2, <2>2 DEF AccessOK
  <2>10. /\ f.class.name = a.field.class /\ f.class.source = i.source
         /\ f.name = a.field.name /\ f.type = a.field.type
    BY <2>3 DEF FieldRow, ClassId
  <2>11. PICK p : p = [field |-> FieldOf(a.field, i.source), method |-> a.method,
                       source |-> s, action |-> a.action]
    OBVIOUS
  <2>12. FieldSpec(f) = FieldOf(a.field, i.source)
    BY <2>10 DEF FieldSpec, FieldOf
  <2>13. Printed(r) = p
    BY <2>5, <2>8, <2>11, <2>12 DEF Printed
  <2>14. p \in Accesses
    <3>1. a \in {b \in Csv[s].access : b.field \in Csv[DefinedId(b.field.class, s).source].fields}
      BY <1>2 DEF FieldKnown
    <3>2. p \in
            {[field |-> FieldOf(b.field, DefinedId(b.field.class, s).source),
              method |-> b.method, source |-> s, action |-> b.action] :
               b \in {b \in Csv[s].access :
                        b.field \in Csv[DefinedId(b.field.class, s).source].fields}}
      BY <2>1, <2>11, <3>1
    <3> QED
      BY <3>2 DEF Accesses
  <2> QED
    BY <2>1, <2>2, <2>5, <2>7, <2>8, <2>9, <2>11, <2>13, <2>14
<1>3. ASSUME NEW r \in db.access
      PROVE  /\ r.field \in db.fields /\ r.method \in db.methods
             /\ r.method.class.source = r.method.source
             /\ r.method \in RowsOf(Named(r.method), r.method.source)
             /\ Printed(r) \in Accesses
  <2>1. PICK s \in sources : \E a \in Csv[s].access :
          FieldKnown(a.field, s) /\ \E m \in RowsOf(a.method, s) : r = AccessRow(a, m, s)
    BY <1>1 DEF AccessOK
  <2>2. PICK a \in Csv[s].access :
          FieldKnown(a.field, s) /\ \E m \in RowsOf(a.method, s) : r = AccessRow(a, m, s)
    BY <2>1
  <2>3. PICK m \in RowsOf(a.method, s) : r = AccessRow(a, m, s)
    BY <2>2
  <2> QED
    BY <1>2, <2>2, <2>3
<1>4. ASSUME NEW a \in Accesses
      PROVE  /\ MethodKnown(a.method, a.source) /\ a.source \in sources
             /\ \A m \in RowsOf(a.method, a.source) :
                  \E r \in db.access : a = Printed(r) /\ r.method = m
  <2>1. PICK s \in sources : \E b \in Csv[s].access :
          /\ b.field \in Csv[DefinedId(b.field.class, s).source].fields
          /\ a = [field |-> FieldOf(b.field, DefinedId(b.field.class, s).source),
                  method |-> b.method, source |-> s, action |-> b.action]
    BY DEF Accesses
  <2>2. PICK b \in Csv[s].access :
          /\ b.field \in Csv[DefinedId(b.field.class, s).source].fields
          /\ a = [field |-> FieldOf(b.field, DefinedId(b.field.class, s).source),
                  method |-> b.method, source |-> s, action |-> b.action]
    BY <2>1
  <2>3. FieldKnown(b.field, s)
    BY <2>2 DEF FieldKnown
  <2>4. a.method = b.method /\ a.source = s
    BY <2>2
  <2>5. MethodKnown(a.method, a.source)
    BY <1>1, <2>4, AccessOfMethod
  <2>6. ASSUME NEW m \in RowsOf(b.method, s)
        PROVE  \E r \in db.access : a = Printed(r) /\ r.method = m
    BY <1>2, <2>2, <2>3
  <2> QED
    BY <2>4, <2>5, <2>6
<1> QED
  BY <1>3, <1>4

LEMMA AccessesFound ==
  FindInv => AccessesPresent
<1> SUFFICES ASSUME FindInv, NEW only \in [write : BOOLEAN, read : BOOLEAN]
             PROVE
    LET asked == {a \in Accesses : Fits(Operation(only), a.action)}
    IN /\ ~(only.write /\ only.read) =>
            \A f \in {a.field : a \in Accesses} :
              MethodsByField(db, f.class, f.name, only, Some(f.source)) =
                Some(UNION {MethodsOf(a.method, a.source) :
                              a \in {a \in asked : /\ a.field.class = f.class
                                                   /\ a.field.name = f.name
                                                   /\ a.field.source = f.source}})
       /\ \A by \in Accesses :
            FieldsByMethod(db, Spelled(by.source, by.method), only) =
              Some({a.field : a \in {a \in asked : /\ a.method = by.method
                                                   /\ a.source = by.source}})
  BY DEF AccessesPresent
<1>1. PICK op : op = Operation(only)
  OBVIOUS
<1>2. PICK asked : asked = {a \in Accesses : Fits(op, a.action)}
  OBVIOUS
<1>3. /\ \A r \in db.access :
           /\ r.field \in db.fields /\ r.method \in db.methods
           /\ r.method.class.source = r.method.source
           /\ r.method \in RowsOf(Named(r.method), r.method.source)
           /\ Printed(r) \in Accesses
      /\ \A a \in Accesses :
           /\ MethodKnown(a.method, a.source) /\ a.source \in sources
           /\ \A m \in RowsOf(a.method, a.source) :
                \E r \in db.access : a = Printed(r) /\ r.method = m
  BY AccessIs
<1>4. \A r : /\ Printed(r).field = FieldSpec(r.field) /\ Printed(r).method = Named(r.method)
             /\ Printed(r).source = r.method.source /\ Printed(r).action = r.action
  BY DEF Printed
<1>5. \A r \in db.access : Printed(r) \in asked <=> Fits(op, r.action)
  BY <1>2, <1>3, <1>4
<1>6. \A a \in asked : \A m \in RowsOf(a.method, a.source) :
        \E r \in db.access : a = Printed(r) /\ r.method = m /\ Fits(op, r.action)
  <2> SUFFICES ASSUME NEW a \in asked, NEW m \in RowsOf(a.method, a.source)
               PROVE  \E r \in db.access : a = Printed(r) /\ r.method = m /\ Fits(op, r.action)
    OBVIOUS
  <2>1. a \in Accesses /\ Fits(op, a.action)
    BY <1>2
  <2>2. PICK r \in db.access : a = Printed(r) /\ r.method = m
    BY <1>3, <2>1
  <2> QED
    BY <1>4, <2>1, <2>2
<1>7. ASSUME NEW f, ~(only.write /\ only.read)
      PROVE  MethodsByField(db, f.class, f.name, only, Some(f.source)) =
                Some(UNION {MethodsOf(a.method, a.source) :
                              a \in {a \in asked : /\ a.field.class = f.class
                                                   /\ a.field.name = f.name
                                                   /\ a.field.source = f.source}})
  <2>1. PICK q : q = [class |-> Some(f.class), name |-> Some(f.name), type |-> None,
                      source |-> Some(f.source)]
    OBVIOUS
  <2>2. /\ q.class = Some(f.class) /\ q.name = Some(f.name) /\ q.type = None
        /\ q.source = Some(f.source)
    BY <2>1
  <2>3. PICK fields : fields = FieldIds(db, q)
    OBVIOUS
  <2>4. \A g \in db.fields : g \in fields <=>
          /\ FieldSpec(g).class = f.class /\ FieldSpec(g).name = f.name
          /\ FieldSpec(g).source = f.source
    <3> SUFFICES ASSUME NEW g \in db.fields
                 PROVE  g \in fields <=> /\ g.class.name = f.class /\ g.name = f.name
                                         /\ g.class.source = f.source
      BY DEF FieldSpec
    <3>1. Some(g.class.name) = q.class <=> g.class.name = f.class
      BY <2>2, OptionIs
    <3>2. Fits(q.name, g.name) <=> g.name = f.name
      BY <2>2, OptionIs
    <3>3. Fits(q.type, g.type)
      BY <2>2, OptionIs
    <3>4. Fits(q.source, g.class.source) <=> g.class.source = f.source
      BY <2>2, OptionIs
    <3> QED
      BY <2>3, <3>1, <3>2, <3>3, <3>4 DEF FieldIds
  <2>5. PICK found :
          found = UNION {{MethodSpec(m, m.class.source) : m \in MethodsReferencing(db, g, op)}
                         : g \in fields}
    OBVIOUS
  <2>6. MethodsByField(db, f.class, f.name, only, Some(f.source)) = Some(found)
    BY <1>1, <1>7, <2>1, <2>3, <2>5 DEF MethodsByField
  <2>7. PICK said : said = UNION {MethodsOf(a.method, a.source) :
                                    a \in {a \in asked : /\ a.field.class = f.class
                                                         /\ a.field.name = f.name
                                                         /\ a.field.source = f.source}}
    OBVIOUS
  <2>8. ASSUME NEW x \in found
        PROVE  x \in said
    <3>1. PICK g \in fields : \E m \in MethodsReferencing(db, g, op) :
                 x = MethodSpec(m, m.class.source)
      BY <2>5
    <3>2. PICK m \in MethodsReferencing(db, g, op) : x = MethodSpec(m, m.class.source)
      BY <3>1
    <3>3. PICK r \in db.access : r.field = g /\ Fits(op, r.action) /\ m = r.method
      BY DEF MethodsReferencing
    <3>4. Printed(r) \in asked
      BY <1>5, <3>3
    <3>5. /\ Printed(r).field.class = f.class /\ Printed(r).field.name = f.name
          /\ Printed(r).field.source = f.source
      BY <1>3, <1>4, <2>4, <3>3
    <3>6. x \in MethodsOf(Printed(r).method, Printed(r).source)
      <4>1. x = MethodSpec(r.method, r.method.source)
        BY <1>3, <3>2, <3>3
      <4>2. r.method \in RowsOf(Named(r.method), r.method.source)
        BY <1>3
      <4>3. x \in MethodsOf(Named(r.method), r.method.source)
        BY <4>1, <4>2, PrintedIs
      <4> QED
        BY <1>4, <4>3
    <3> QED
      BY <2>7, <3>4, <3>5, <3>6
  <2>9. ASSUME NEW x \in said
        PROVE  x \in found
    <3>1. PICK a \in asked : /\ a.field.class = f.class /\ a.field.name = f.name
                             /\ a.field.source = f.source
                             /\ x \in MethodsOf(a.method, a.source)
      BY <2>7
    <3>2. PICK m \in RowsOf(a.method, a.source) : x = MethodSpec(m, a.source)
      BY <3>1, PrintedIs
    <3>3. PICK r \in db.access : a = Printed(r) /\ r.method = m /\ Fits(op, r.action)
      BY <1>6
    <3>4. r.field \in fields
      BY <1>3, <1>4, <2>4, <3>1, <3>3
    <3>5. r.method \in MethodsReferencing(db, r.field, op)
      BY <3>3 DEF MethodsReferencing
    <3>6. x = MethodSpec(r.method, r.method.class.source)
      BY <1>3, <1>4, <3>2, <3>3
    <3> QED
      BY <2>5, <3>4, <3>5, <3>6
  <2> QED
    BY <2>6, <2>7, <2>8, <2>9
<1>8. ASSUME NEW b \in Accesses
      PROVE  FieldsByMethod(db, Spelled(b.source, b.method), only) =
               Some({a.field : a \in {a \in asked : a.method = b.method /\ a.source = b.source}})
  <2>1. PICK m : m = b.method
    OBVIOUS
  <2>2. PICK s : s = b.source
    OBVIOUS
  <2>3. PICK q : q = Spelled(s, m)
    OBVIOUS
  <2>4. MethodKnown(m, s) /\ s \in sources
    BY <1>3, <2>1, <2>2
  <2>5. /\ \A r \in RowsOf(m, s) : r.source = s /\ Named(r) = m
        /\ RowsOf(m, s) # {}
    BY <2>4, OwnMethod DEF FindInv, Content
  <2>6. PICK never : never = (removals = 0)
    OBVIOUS
  <2>7. MethodIds(db, q) = RowsOf(m, s) /\ MethodSearchOk(q)
    BY <2>3, <2>4, <2>6, SpelledIs DEF FindInv
  <2>8. PICK ids : ids = MethodIds(db, q)
    OBVIOUS
  <2>9. PICK found :
          found = UNION {{FieldSpec(r.field) : r \in {r \in FieldRefs(db, x) : Fits(op, r.op)}}
                         : x \in ids}
    OBVIOUS
  <2>10. FieldsByMethod(db, q, only) = Some(found)
    BY <1>1, <2>7, <2>8, <2>9 DEF FieldsByMethod
  <2>11. PICK said : said = {a.field : a \in {a \in asked : a.method = m /\ a.source = s}}
    OBVIOUS
  <2>12. ASSUME NEW z \in found
         PROVE  z \in said
    <3>1. PICK x \in ids : \E r \in {r \in FieldRefs(db, x) : Fits(op, r.op)} :
                 z = FieldSpec(r.field)
      BY <2>9
    <3>2. PICK r \in FieldRefs(db, x) : Fits(op, r.op) /\ z = FieldSpec(r.field)
      BY <3>1
    <3>3. PICK a \in db.access : a.method = x /\ r = [field |-> a.field, op |-> a.action]
      BY DEF FieldRefs
    <3>4. Fits(op, a.action) /\ z = FieldSpec(a.field)
      BY <3>2, <3>3
    <3>5. Named(a.method) = m /\ a.method.source = s
      BY <2>5, <2>7, <2>8, <3>3
    <3>6. /\ Printed(a) \in asked /\ Printed(a).method = m /\ Printed(a).source = s
          /\ z = Printed(a).field
      BY <1>4, <1>5, <3>4, <3>5
    <3> QED
      BY <2>11, <3>6
  <2>13. ASSUME NEW z \in said
         PROVE  z \in found
    <3>1. PICK a \in asked : a.method = m /\ a.source = s /\ z = a.field
      BY <2>11
    <3>2. PICK x \in RowsOf(m, s) : TRUE
      BY <2>5
    <3>3. PICK r \in db.access : a = Printed(r) /\ r.method = x /\ Fits(op, r.action)
      BY <1>6, <3>1
    <3>4. PICK e : e = [field |-> r.field, op |-> r.action]
      OBVIOUS
    <3>5. e \in FieldRefs(db, x)
      BY <3>3, <3>4 DEF FieldRefs
    <3>6. Fits(op, e.op) /\ z = FieldSpec(e.field)
      BY <1>4, <3>1, <3>3, <3>4
    <3> QED
      BY <2>7, <2>8, <2>9, <3>5, <3>6
  <2> QED
    BY <2>1, <2>2, <2>3, <2>10, <2>11, <2>12, <2>13
<1> QED
  BY <1>1, <1>2, <1>7, <1>8

LEMMA StringsFound ==
  FindInv => StringsPresent
<1> SUFFICES ASSUME FindInv, NEW s \in sources
             PROVE
    LET uses == Csv[s].methodStrings
        usedBy(m) == {u.string : u \in {u \in uses : u.method = m}}
    IN /\ StringsBySource(db, Some(s)) = Csv[s].strings
       /\ \A x \in Csv[s].strings :
            /\ [string |-> x, source |-> s] \in FindStrings(db, x, Some(s))
            /\ MethodsByString(db, x, Some(s)) =
                 Some(UNION {MethodsOf(u.method, s) : u \in {u \in uses : u.string = x}})
       /\ \A m \in {u.method : u \in uses} :
            StringsByMethod(db, Spelled(s, m)) =
              Some({[method |-> p, strings |-> usedBy(m)] : p \in MethodsOf(m, s)})
  BY DEF StringsPresent
<1>1. PICK never : never = (removals = 0)
  OBVIOUS
<1>2. Content(db, sources, never)
  BY <1>1 DEF FindInv
<1>3. /\ StringsOK(db, sources) /\ UsesOK(db, sources) /\ MethodsOK(db, sources)
      /\ s \in Source /\ sources \subseteq Source
  BY <1>2 DEF Content
<1>4. PICK uses : uses = Csv[s].methodStrings
  OBVIOUS
<1>5. \A x \in Csv[s].strings : StringRow(x, s) \in db.strings
  BY <1>3 DEF StringsOK
<1>6. \A x \in db.strings :
        x.source = s => x.string \in Csv[s].strings /\ x = StringRow(x.string, s)
  BY <1>3 DEF StringsOK, StringRow
<1>7. StringsBySource(db, Some(s)) = Csv[s].strings
  <2>1. OrFramework(Some(s))[1] = s
    BY OptionIs DEF OrFramework
  <2>2. StringsFor(db, s) = Csv[s].strings
    BY <1>5, <1>6 DEF StringsFor, StringRow
  <2> QED
    BY <2>1, <2>2 DEF StringsBySource
<1>8. ASSUME NEW x \in db.strings
      PROVE  x \in Matching(db, x.string)
  BY PatternAssumption DEF Matching, IsPattern
<1>9. ASSUME NEW x \in Csv[s].strings
      PROVE  [string |-> x, source |-> s] \in FindStrings(db, x, Some(s))
  <2>1. PICK r : r = StringRow(x, s)
    OBVIOUS
  <2>2. r \in db.strings /\ r.string = x /\ r.source = s /\ r = [string |-> x, source |-> s]
    BY <1>5, <2>1 DEF StringRow
  <2>3. r \in FindStrings(db, x, Some(s))
    BY <1>8, <2>2, OptionIs DEF FindStrings
  <2> QED
    BY <2>2, <2>3
<1>10. ASSUME NEW t \in sources, NEW u \in Csv[t].methodStrings, NEW m \in RowsOf(u.method, t)
       PROVE  LET r == UseRow(u, m, t)
              IN /\ r \in db.methodStrings /\ r.string \in db.strings
                 /\ r.string.string = u.string /\ r.string.source = t
                 /\ r.method = m /\ m.source = t /\ Named(m) = u.method
  <2>1. u.string \in Csv[t].strings /\ MethodKnown(u.method, t)
    BY <1>3, StringsOfMethod
  <2>2. PICK r : r = UseRow(u, m, t)
    OBVIOUS
  <2>3. r.string = StringRow(u.string, t) /\ r.method = m
    BY <2>2 DEF UseRow
  <2>4. r \in db.methodStrings
    BY <1>3, <2>2 DEF UsesOK
  <2>5. StringRow(u.string, t) \in db.strings
    BY <1>3, <2>1 DEF StringsOK
  <2>6. StringRow(u.string, t).string = u.string /\ StringRow(u.string, t).source = t
    BY DEF StringRow
  <2>7. m.source = t /\ Named(m) = u.method
    BY <1>3, <2>1, OwnMethod
  <2> QED
    BY <2>2, <2>3, <2>4, <2>5, <2>6, <2>7
<1>11. \A r \in db.methodStrings :
         \E t \in sources : \E u \in Csv[t].methodStrings :
           \E m \in RowsOf(u.method, t) : r = UseRow(u, m, t)
  BY <1>3 DEF UsesOK
<1>12. ASSUME NEW r \in db.methodStrings, r.string.source = s \/ r.method.source = s
       PROVE  \E u \in uses :
                /\ r.method \in RowsOf(u.method, s) /\ Named(r.method) = u.method
                /\ r.string.string = u.string /\ r.string.source = s
  <2>1. PICK t \in sources : \E u \in Csv[t].methodStrings :
          \E m \in RowsOf(u.method, t) : r = UseRow(u, m, t)
    BY <1>11
  <2>2. PICK u \in Csv[t].methodStrings : \E m \in RowsOf(u.method, t) : r = UseRow(u, m, t)
    BY <2>1
  <2>3. PICK m \in RowsOf(u.method, t) : r = UseRow(u, m, t)
    BY <2>2
  <2>4. /\ r.string.string = u.string /\ r.string.source = t
        /\ r.method = m /\ m.source = t /\ Named(m) = u.method
    BY <1>10, <2>3
  <2> QED
    BY <1>4, <1>12, <2>4
<1>13. ASSUME NEW x \in Csv[s].strings
       PROVE  MethodsByString(db, x, Some(s)) =
                Some(UNION {MethodsOf(u.method, s) : u \in {u \in uses : u.string = x}})
  <2>1. PICK found : found = {MethodSpec(r.method, r.string.source) :
                                r \in {r \in UsesOf(db, x) : Fits(Some(s), r.string.source)}}
    OBVIOUS
  <2>2. PICK said : said = UNION {MethodsOf(u.method, s) : u \in {u \in uses : u.string = x}}
    OBVIOUS
  <2>3. ASSUME NEW z \in found
        PROVE  z \in said
    <3>1. PICK r \in UsesOf(db, x) : Fits(Some(s), r.string.source)
                                     /\ z = MethodSpec(r.method, r.string.source)
      BY <2>1
    <3>2. r \in db.methodStrings /\ r.string.string = x /\ r.string.source = s
      BY <3>1, OptionIs DEF UsesOf
    <3>3. PICK u \in uses : r.method \in RowsOf(u.method, s) /\ u.string = x
      BY <1>12, <3>2
    <3>4. z \in MethodsOf(u.method, s)
      BY <3>1, <3>2, <3>3, PrintedIs
    <3> QED
      BY <2>2, <3>3, <3>4
  <2>4. ASSUME NEW z \in said
        PROVE  z \in found
    <3>1. PICK u \in uses : u.string = x /\ z \in MethodsOf(u.method, s)
      BY <2>2
    <3>2. PICK m \in RowsOf(u.method, s) : z = MethodSpec(m, s)
      BY <3>1, PrintedIs
    <3>3. PICK r : r = UseRow(u, m, s)
      OBVIOUS
    <3>4. /\ r \in db.methodStrings /\ r.string \in db.strings /\ r.string.string = x
          /\ r.string.source = s /\ r.method = m
      BY <1>4, <1>10, <3>1, <3>3
    <3>5. r \in UsesOf(db, x)
      BY <1>8, <3>4 DEF UsesOf
    <3>6. Fits(Some(s), r.string.source)
      BY <3>4, OptionIs
    <3>7. z = MethodSpec(r.method, r.string.source)
      BY <3>2, <3>4
    <3> QED
      BY <2>1, <3>5, <3>6, <3>7
  <2>5. MethodsByString(db, x, Some(s)) = Some(found)
    BY <2>1 DEF MethodsByString
  <2> QED
    BY <2>2, <2>3, <2>4, <2>5
<1>14. ASSUME NEW v \in uses
       PROVE  StringsByMethod(db, Spelled(s, v.method)) =
                Some({[method |-> p,
                       strings |-> {u.string : u \in {u \in uses : u.method = v.method}}] :
                        p \in MethodsOf(v.method, s)})
  <2>1. PICK m : m = v.method
    OBVIOUS
  <2>2. MethodKnown(m, s)
    BY <1>3, <1>4, <2>1, StringsOfMethod
  <2>3. PICK q : q = Spelled(s, m)
    OBVIOUS
  <2>4. MethodSearchOk(q) /\ MethodSpecs(db, q) = RowsOf(m, s)
    BY <1>2, <2>2, <2>3, SpelledIs
  <2>5. PICK said : said = {u.string : u \in {u \in uses : u.method = m}}
    OBVIOUS
  <2>6. ASSUME NEW r \in RowsOf(m, s)
        PROVE  StringsForMethod(db, r) = said /\ r.source = s
    <3>1. r.source = s /\ Named(r) = m
      BY <1>2, <2>2, OwnMethod DEF Content
    <3>2. ASSUME NEW z \in StringsForMethod(db, r)
          PROVE  z \in said
      <4>1. PICK w \in db.methodStrings : w.method = r /\ z = w.string.string
        BY DEF StringsForMethod
      <4>2. PICK u \in uses : Named(w.method) = u.method /\ w.string.string = u.string
        BY <1>12, <3>1, <4>1
      <4> QED
        BY <2>5, <3>1, <4>1, <4>2
    <3>3. ASSUME NEW z \in said
          PROVE  z \in StringsForMethod(db, r)
      <4>1. PICK u \in uses : u.method = m /\ z = u.string
        BY <2>5
      <4>2. PICK w : w = UseRow(u, r, s)
        OBVIOUS
      <4>3. w \in db.methodStrings /\ w.string.string = z /\ w.method = r
        BY <1>4, <1>10, <4>1, <4>2
      <4> QED
        BY <4>3 DEF StringsForMethod
    <3> QED
      BY <3>1, <3>2, <3>3
  <2>7. said # {}
    BY <2>1, <2>5
  <2>8. PICK found :
          found = {[method |-> MethodSpec(y, y.source), strings |-> StringsForMethod(db, y)] :
                     y \in {y \in MethodSpecs(db, q) : StringsForMethod(db, y) # {}}}
    OBVIOUS
  <2>9. PICK all : all = {[method |-> p, strings |-> said] : p \in MethodsOf(m, s)}
    OBVIOUS
  <2>10. ASSUME NEW z \in found
         PROVE  z \in all
    <3>1. PICK y \in RowsOf(m, s) :
            z = [method |-> MethodSpec(y, y.source), strings |-> StringsForMethod(db, y)]
      BY <2>4, <2>8
    <3>2. z = [method |-> MethodSpec(y, s), strings |-> said]
      BY <2>6, <3>1
    <3>3. MethodSpec(y, s) \in MethodsOf(m, s)
      BY PrintedIs
    <3> QED
      BY <2>9, <3>2, <3>3
  <2>11. ASSUME NEW z \in all
         PROVE  z \in found
    <3>1. PICK p \in MethodsOf(m, s) : z = [method |-> p, strings |-> said]
      BY <2>9
    <3>2. PICK y \in RowsOf(m, s) : p = MethodSpec(y, s)
      BY PrintedIs
    <3>3. StringsForMethod(db, y) = said /\ y.source = s
      BY <2>6
    <3>4. y \in {x \in MethodSpecs(db, q) : StringsForMethod(db, x) # {}}
      BY <2>4, <2>7, <3>3
    <3>5. z = [method |-> MethodSpec(y, y.source), strings |-> StringsForMethod(db, y)]
      BY <3>1, <3>2, <3>3
    <3> QED
      BY <2>8, <3>4, <3>5
  <2>12. StringsByMethod(db, q) = Some(found)
    BY <2>4, <2>8 DEF StringsByMethod
  <2> QED
    BY <2>1, <2>3, <2>5, <2>9, <2>10, <2>11, <2>12
<1>15. \A m \in {u.method : u \in uses} :
         StringsByMethod(db, Spelled(s, m)) =
           Some({[method |-> p, strings |-> {u.string : u \in {u \in uses : u.method = m}}] :
                   p \in MethodsOf(m, s)})
  BY <1>14
<1> QED
  BY <1>4, <1>7, <1>9, <1>13, <1>15

(* Nothing that is in the smali of a source that add_directory imported is *)
(* lost: the find commands by class, name, source, field and string find   *)
(* it, and of accesses and strings nothing else, but that the methods of   *)
(* one signature, which differ in what they return, are not told apart.    *)
THEOREM RelationsFound == FindSpec => []RelationsPresent
<1>1. FindInv => RelationsPresent
  BY CallsFound, DefinitionsFound, AccessesFound, StringsFound DEF RelationsPresent
<1> QED
  BY <1>1, FindInvariant, PTL

===============================================================================
