------------------------------- MODULE Ui_proofs -------------------------------
(***************************************************************************)
(* Proofs about the two interfaces: about DiffUi, for every list of items  *)
(* of every tab, every way they are filtered and every number of sessions, *)
(* and about PullUi, for every set of files, any workers, any capacity of  *)
(* the channel and any number of keys.                                     *)
(***************************************************************************)
EXTENDS DiffUi, PullUi, FiniteSetTheorems, WellFoundedInduction, TLAPS

-------------------------------------------------------------------------------
(* Tabs, items and indices.                                                *)

LEMMA TabFacts ==
  /\ DOMAIN Tabs = 1..7 /\ Len(Tabs) = 7
  /\ \A n \in 1..7 : Tabs[n] \in TabSet
  /\ "SystemServices" \in TabSet /\ "Apks" \in TabSet
  /\ \A t \in TabSet : \E n \in 1..7 : Tabs[n] = t
<1>1. DOMAIN Tabs = 1..7 /\ Len(Tabs) = 7
  BY DEF Tabs
<1>2. TabSet = {Tabs[n] : n \in 1..7}
  BY <1>1 DEF TabSet, Range
<1>3. Tabs[1] = "SystemServices" /\ Tabs[3] = "Apks"
  BY DEF Tabs
<1> QED
  BY <1>1, <1>2, <1>3

(* A set of naturals below a bound has a least element.                    *)
LEMMA LeastOf ==
  ASSUME NEW n \in Nat, NEW V, V \subseteq 0..n, V # {}
  PROVE  \E i \in V : \A j \in V : i <= j
<1> DEFINE Below(i) == {j \in V : j < i}
           All == {Below(i) : i \in V}
<1>1. \A i \in V : i \in Nat /\ IsFiniteSet(Below(i)) /\ Below(i) \subseteq Nat
  <2> SUFFICES ASSUME NEW i \in V
               PROVE  i \in Nat /\ IsFiniteSet(Below(i)) /\ Below(i) \subseteq Nat
    OBVIOUS
  <2>1. IsFiniteSet(0..n)
    BY FS_Interval
  <2>2. Below(i) \in SUBSET (0..n)
    OBVIOUS
  <2>3. IsFiniteSet(Below(i))
    BY <2>1, <2>2, FS_Subset
  <2> QED
    BY <2>2, <2>3
<1>2. All \subseteq FiniteSubsetsOf(Nat) /\ All # {}
  BY <1>1 DEF FiniteSubsetsOf
<1>3. IsWellFoundedOn(StrictSubsetOrdering(Nat), FiniteSubsetsOf(Nat))
  BY FS_StrictSubsetOrderingWellFounded
<1> HIDE DEF All
<1>4. PICK X \in All : \A Y \in All : <<Y, X>> \notin StrictSubsetOrdering(Nat)
  BY <1>2, <1>3, WFMin
<1>5. PICK i \in V : X = Below(i)
  BY <1>4 DEF All
<1>6. ASSUME NEW j \in V, j < i
      PROVE  FALSE
  <2>1. Below(j) \in All
    BY DEF All
  <2>2. Below(j) \subseteq Below(i) /\ j \in Below(i) /\ j \notin Below(j)
    <3>1. \A x \in V : x \in Int
      OBVIOUS
    <3>2. \A x \in V : x < j => x < i
      BY <1>6, <3>1
    <3>3. ~(j < j)
      BY <3>1
    <3> QED
      BY <1>6, <3>2, <3>3
  <2>3. <<Below(j), Below(i)>> \in StrictSubsetOrdering(Nat)
    BY <1>1, <2>2 DEF StrictSubsetOrdering
  <2> QED
    BY <1>4, <1>5, <2>1, <2>3
<1> QED
  BY <1>1, <1>6

LEMMA ItemFacts ==
  ASSUME tab \in TabSet
  PROVE  /\ Count \in Nat
         /\ \A i \in 0..Count - 1 : At(i) \in Item /\ At(i).id \in Nat \ {0}
         /\ \A i, j \in 0..Count - 1 : At(i).id = At(j).id => i = j
         /\ \A h : Visible(h) \subseteq 0..Count - 1
<1>1. Items[tab] \in Seq(Item)
  BY DiffUiAssumption
<1>2. Count \in Nat /\ DOMAIN Items[tab] = 1..Count
  BY <1>1 DEF Count
<1>3. \A i \in 0..Count - 1 : At(i) \in Item /\ i + 1 \in DOMAIN Items[tab]
  BY <1>1, <1>2 DEF At
<1>4. \A x \in Item : x.id \in Nat \ {0}
  BY DEF Item
<1>5. ASSUME NEW i \in 0..Count - 1, NEW j \in 0..Count - 1, At(i).id = At(j).id
      PROVE  i = j
  <2>1. i + 1 = j + 1
    BY <1>3, <1>5, DiffUiAssumption DEF At
  <2> QED
    BY <1>2, <2>1
<1>6. \A h : Visible(h) \subseteq 0..Count - 1
  BY DEF Visible
<1> QED
  BY <1>2, <1>3, <1>4, <1>5, <1>6

(* Going on from an index, around the end, meets every other one.          *)
Meet(n, i, j, d) == \E k \in 1..n : (i + d * k) % n = j

LEMMA Meets ==
  ASSUME NEW n \in Nat \ {0}, NEW i \in 0..n - 1, NEW j \in 0..n - 1, NEW d \in {1, -1}
  PROVE  Meet(n, i, j, d)
<1> SUFFICES \E k \in 1..n : (i + d * k) % n = j
  BY DEF Meet
<1>1. j % n = j /\ (j + n) % n = j /\ (j - n) % n = j
  OBVIOUS
<1>2. CASE d = 1 /\ i < j
  <2>1. j - i \in 1..n /\ i + d * (j - i) = j
    BY <1>2
  <2> QED
    BY <1>1, <2>1
<1>3. CASE d = 1 /\ ~(i < j)
  <2>1. j - i + n \in 1..n /\ i + d * (j - i + n) = j + n
    BY <1>3
  <2> QED
    BY <1>1, <2>1
<1>4. CASE d = -1 /\ j < i
  <2>1. i - j \in 1..n /\ i + d * (i - j) = j
    BY <1>4
  <2> QED
    BY <1>1, <2>1
<1>5. CASE d = -1 /\ ~(j < i)
  <2>1. i - j + n \in 1..n /\ i + d * (i - j + n) = j - n
    BY <1>5
  <2> QED
    BY <1>1, <2>1
<1>6. d = 1 \/ d = -1
  OBVIOUS
<1> QED
  BY <1>2, <1>3, <1>4, <1>5, <1>6, Zenon

(* inc_selection and dec_selection end on an item that they may select.    *)
LEMMA NearestIn ==
  ASSUME tab \in TabSet, sel \in 0..Count - 1, NEW V, V \subseteq 0..Count - 1, V # {},
         NEW d \in {1, -1}
  PROVE  Nearest(d, V) \in V
<1> DEFINE Met(k) == (sel + d * k) % Count
           steps == {k \in 1..Count : Met(k) \in V}
           least(k) == \A l \in steps : k <= l
<1>1. Count \in Nat \ {0}
  BY ItemFacts
<1>2. PICK j \in V : TRUE
  OBVIOUS
<1>3. \E k \in 1..Count : Met(k) = j
  <2>1. j \in 0..Count - 1
    BY <1>2
  <2> HIDE DEF Met, steps
  <2>2. Meet(Count, sel, j, d)
    BY <1>1, <2>1, Meets
  <2>3. PICK k \in 1..Count : (sel + d * k) % Count = j
    BY <2>2, Zenon DEF Meet
  <2> QED
    BY <2>3, Zenon DEF Met
<1>4. steps # {} /\ steps \subseteq 0..Count
  <2>1. PICK k \in 1..Count : Met(k) = j
    BY <1>3
  <2>2. k \in steps
    BY <1>2, <2>1, Zenon
  <2>3. 1..Count \subseteq 0..Count
    BY <1>1
  <2> QED
    BY <2>2, <2>3, Zenon
<1>5. Nearest(d, V) = Met(CHOOSE k \in steps : least(k))
  BY Zenon DEF Nearest
<1> HIDE DEF steps
<1>6. \E k \in steps : least(k)
  BY <1>1, <1>4, LeastOf
<1>7. (CHOOSE k \in steps : least(k)) \in steps
  BY <1>6
<1> QED
  BY <1>5, <1>7 DEF steps

-------------------------------------------------------------------------------
(* Type correctness.                                                       *)

Box(t) == [focus : 0..Len(Checks(t)), expanded : BOOLEAN,
           owner : {NoOwner} \cup Owners(t), on : SUBSET Range(Checks(t))]

TabOK ==
  /\ tab \in TabSet /\ sel \in Nat /\ (Count > 0 => sel < Count)
  /\ selectedId \in Nat /\ hidden \subseteq Nat /\ filter \subseteq Chars
  /\ box \in Box(tab) /\ owners \subseteq Nat

UiOK ==
  /\ inBox \in BOOLEAN /\ (inBox => HasBox(tab))
  /\ showHidden \in BOOLEAN /\ editing \in BOOLEAN

SearchOK == search \in Seq(Chars) /\ Len(search) <= MaxSearch

KeptOK ==
  /\ mode \in {"off", "on", "stuck", "panicked"}
  /\ state \in [TabSet -> SUBSET Nat]
  /\ kept \in [TabSet -> SUBSET Nat] /\ meant \in [TabSet -> SUBSET Nat]
  /\ file \in {"none", "written", "broken"} /\ disk \in [TabSet -> SUBSET Nat]
  /\ toggles \in 0..MaxToggles /\ sessions \in 0..MaxSessions

LEMMA TypeParts ==
  /\ TypeOK <=> TabOK /\ UiOK /\ SearchOK /\ KeptOK
  /\ TypeOK' <=> TabOK' /\ UiOK' /\ SearchOK' /\ KeptOK'
BY DEF TypeOK, TabOK, UiOK, SearchOK, KeptOK, Box

LEMMA CheckFacts ==
  \A t \in TabSet :
    /\ Len(Checks(t)) \in Nat
    /\ DOMAIN Checks(t) = 1..Len(Checks(t))
    /\ t = "SystemServiceMethods" =>
         Len(Checks(t)) = 3 /\ "binders" \in Range(Checks(t))
    /\ HasBox(t) => t = "SystemServiceMethods" \/ t \in IpcTabs
<1> SUFFICES ASSUME NEW t \in TabSet
             PROVE  /\ Len(Checks(t)) \in Nat
                    /\ DOMAIN Checks(t) = 1..Len(Checks(t))
                    /\ t = "SystemServiceMethods" =>
                         Len(Checks(t)) = 3 /\ "binders" \in Range(Checks(t))
                    /\ HasBox(t) => t = "SystemServiceMethods" \/ t \in IpcTabs
  OBVIOUS
<1>1. Len(Checks(t)) \in Nat /\ DOMAIN Checks(t) = 1..Len(Checks(t))
  <2>1. CASE t = "SystemServiceMethods"
    BY <2>1 DEF Checks
  <2>2. CASE t = "Services"
    BY <2>2 DEF Checks
  <2>3. CASE t \notin {"SystemServiceMethods", "Services"} /\ t \in IpcTabs
    <3>1. Checks(t) = <<"no_perms", "normal_perms">>
      BY <2>3 DEF Checks
    <3> QED
      BY <3>1
  <2>4. CASE t \notin {"SystemServiceMethods", "Services"} /\ t \notin IpcTabs
    BY <2>4 DEF Checks
  <2> QED
    BY <2>1, <2>2, <2>3, <2>4
<1>2. ASSUME t = "SystemServiceMethods"
      PROVE  Len(Checks(t)) = 3 /\ "binders" \in Range(Checks(t))
  <2>1. Checks(t) = <<"new", "modified", "binders">>
    BY <1>2 DEF Checks
  <2>2. Checks(t)[3] = "binders" /\ 3 \in DOMAIN Checks(t)
    BY <2>1
  <2> QED
    BY <2>1, <2>2 DEF Range
<1>3. HasBox(t) => t = "SystemServiceMethods" \/ t \in IpcTabs
  BY DEF HasBox, Checks, IpcTabs
<1> QED
  BY <1>1, <1>2, <1>3

LEMMA NewTabTypes ==
  \A t \in TabSet, st \in [TabSet -> SUBSET Nat] : NewTab(t, st) => TabOK'
<1> SUFFICES ASSUME NEW t \in TabSet, NEW st \in [TabSet -> SUBSET Nat], NewTab(t, st)
             PROVE  TabOK'
  OBVIOUS
<1>1. tab' = t /\ sel' = 0 /\ selectedId' = 0 /\ filter' = {} /\ hidden' = st[t]
  BY DEF NewTab
<1>2. (Count > 0 => sel < Count)'
  <2>1. Items[t] \in Seq(Item)
    BY DiffUiAssumption
  <2> QED
    BY <1>1, <2>1 DEF Count
<1>3. owners' \subseteq Nat
  BY TabFacts DEF NewTab, HiddenOwners
<1>4. NewBox(t) \in Box(t)
  <2>1. 0 \in 0..Len(Checks(t))
    BY CheckFacts
  <2>2. (IF t = "SystemServiceMethods" THEN {"binders"} ELSE {}) \in SUBSET Range(Checks(t))
    BY CheckFacts
  <2> QED
    BY <2>1, <2>2 DEF NewBox, Box
<1>5. box' \in Box(tab')
  BY <1>1, <1>4 DEF NewTab
<1> QED
  BY <1>1, <1>2, <1>3, <1>5 DEF TabOK

LEMMA TypeInit == Init => TypeOK
<1> SUFFICES ASSUME Init PROVE TypeOK
  OBVIOUS
<1>1. tab = "SystemServices" /\ tab \in TabSet
  BY TabFacts DEF Init, Tabs
<1>2. Count > 0 => sel < Count
  BY <1>1, ItemFacts DEF Init
<1>3. box \in Box(tab)
  <2>1. 0 \in 0..Len(Checks(tab))
    BY <1>1, CheckFacts
  <2>2. box = NewBox(tab) /\ NewBox(tab).on = {}
    BY <1>1 DEF Init, Tabs, NewBox
  <2> QED
    BY <2>1, <2>2 DEF NewBox, Box
<1>4. TabOK
  BY <1>1, <1>2, <1>3 DEF Init, TabOK
<1>5. UiOK
  BY Zenon DEF Init, UiOK
<1>7. SearchOK
  <2>1. search = <<>>
    BY DEF Init
  <2> QED
    BY <2>1, DiffUiAssumption DEF SearchOK
<1>6. KeptOK
  <2>1. NothingHidden \in [TabSet -> SUBSET Nat]
    BY DEF NothingHidden
  <2>2. 0 \in 0..MaxToggles /\ 0 \in 0..MaxSessions
    BY DiffUiAssumption
  <2> QED
    BY <2>1, <2>2 DEF Init, KeptOK
<1> QED
  BY <1>4, <1>5, <1>6, <1>7, TypeParts


(* What the keys of the list do to the selection.                          *)
LEMMA StepPicks ==
  ASSUME TabOK, NEW d \in {1, -1}, NEW V, V \subseteq 0..Count - 1, Step(d, V)
  PROVE  UNCHANGED <<sel, selectedId>> \/ \E i \in 0..Count - 1 : Select(i)
<1>1. CASE V = {}
  BY <1>1 DEF Step
<1>2. CASE V # {}
  <2>1. Count \in Nat
    BY ItemFacts DEF TabOK
  <2>2. sel \in 0..Count - 1
    <3>1. PICK j \in 0..Count - 1 : TRUE
      BY <1>2
    <3>2. Count > 0
      BY <2>1, <3>1
    <3> QED
      BY <2>1, <3>2 DEF TabOK
  <2>3. Nearest(d, V) \in V
    BY <1>2, <2>2, NearestIn DEF TabOK
  <2> QED
    BY <1>2, <2>3 DEF Step
<1> QED
  BY <1>1, <1>2

LEMMA Start0Picks ==
  ASSUME TabOK, Start0
  PROVE  \/ mode' \in {"panicked", "stuck"} /\ UNCHANGED <<sel, selectedId>>
         \/ mode' = mode /\ \E i \in 0..Count - 1 : Select(i)
<1>1. CASE VisibleIdx = {}
  BY <1>1 DEF Start0
<1>2. CASE VisibleIdx # {}
  <2> DEFINE first(i) == \A j \in VisibleIdx : i <= j
  <2>1. Count \in Nat /\ VisibleIdx \subseteq 0..Count - 1
    BY ItemFacts DEF TabOK, VisibleIdx
  <2>2. VisibleIdx \subseteq 0..Count
    BY <2>1
  <2>3. \E i \in VisibleIdx : first(i)
    BY <1>2, <2>1, <2>2, LeastOf
  <2>4. (CHOOSE i \in VisibleIdx : first(i)) \in VisibleIdx
    BY <2>3
  <2>5. mode' = mode /\ Select(CHOOSE i \in VisibleIdx : first(i))
    BY <1>2, Zenon DEF Start0
  <2> QED
    BY <2>1, <2>4, <2>5
<1> QED
  BY <1>1, <1>2

LEMMA End0Picks ==
  ASSUME TabOK, End0
  PROVE  \/ mode' \in {"panicked", "stuck"} /\ UNCHANGED <<sel, selectedId>>
         \/ mode' = mode /\ \E i \in 0..Count - 1 : Select(i)
         \/ mode' = "stuck" /\ sel' \in 0..Count - 1 /\ UNCHANGED selectedId
<1>1. Count \in Nat
  BY ItemFacts DEF TabOK
<1>2. Count # 0 => Count - 1 \in 0..Count - 1
  BY <1>1
<1> QED
  BY <1>2 DEF End0

(* What the kinds of actions leave well typed.                             *)
LEMMA TabKept == TabOK /\ UNCHANGED tabVars => TabOK'
BY DEF TabOK, tabVars, Count

LEMMA SelectKept ==
  ASSUME TabOK, UNCHANGED <<tab, hidden, filter, owners, box>>,
         \/ UNCHANGED <<sel, selectedId>>
         \/ \E i \in 0..Count - 1 : Select(i)
         \/ sel' \in 0..Count - 1 /\ UNCHANGED selectedId
  PROVE  TabOK'
<1>1. Count \in Nat /\ Count' = Count
  BY ItemFacts DEF TabOK, Count
<1>2. sel' \in Nat /\ (Count' > 0 => sel' < Count')
  BY <1>1 DEF TabOK, Select
<1>3. selectedId' \in Nat
  BY ItemFacts DEF TabOK, Select
<1>4. tab' \in TabSet /\ hidden' \subseteq Nat /\ filter' \subseteq Chars
      /\ box' \in Box(tab') /\ owners' \subseteq Nat
  BY DEF TabOK
<1> QED
  BY <1>2, <1>3, <1>4 DEF TabOK

LEMMA UiKept == UiOK /\ UNCHANGED <<tab, inBox, showHidden, editing>> => UiOK'
BY DEF UiOK

LEMMA SearchKept == SearchOK /\ UNCHANGED search => SearchOK'
BY DEF SearchOK

LEMMA ElseKept ==
  KeptOK /\ Else /\ mode' \in {"off", "on", "stuck", "panicked"} => KeptOK'
BY DEF KeptOK, Else

LEMMA NewAppletTypes ==
  \A st \in [TabSet -> SUBSET Nat] :
    NewApplet(st) => TabOK' /\ UiOK' /\ SearchOK' /\ state' = st
<1> SUFFICES ASSUME NEW st \in [TabSet -> SUBSET Nat], NewApplet(st)
             PROVE  TabOK' /\ UiOK' /\ SearchOK' /\ state' = st
  OBVIOUS
<1>1. TabOK'
  BY NewTabTypes, TabFacts DEF NewApplet
<1>2. UiOK'
  BY Zenon DEF NewApplet, UiOK
<1>3. search' = <<>>
  BY DEF NewApplet
<1>4. SearchOK'
  BY <1>3, DiffUiAssumption DEF SearchOK
<1> QED
  BY <1>1, <1>2, <1>4 DEF NewApplet

LEMMA UpdatedTypes == TabOK /\ KeptOK => UpdatedState \in [TabSet -> SUBSET Nat]
BY DEF TabOK, KeptOK, UpdatedState


LEMMA TypeStep == TypeOK /\ [Next]_vars => TypeOK'
<1> SUFFICES ASSUME TabOK, UiOK, SearchOK, KeptOK, [Next]_vars
             PROVE  TabOK' /\ UiOK' /\ SearchOK' /\ KeptOK'
  BY TypeParts
<1> DEFINE Goal == TabOK' /\ UiOK' /\ SearchOK' /\ KeptOK'
<1> USE DEF uiVars
<1>1. CASE Start
  <2>1. disk \in [TabSet -> SUBSET Nat] /\ NewApplet(disk)
    BY <1>1 DEF Start, KeptOK
  <2>2. TabOK' /\ UiOK' /\ SearchOK' /\ state' = disk
    BY <2>1, NewAppletTypes
  <2>3. sessions' \in 0..MaxSessions
    BY <1>1, DiffUiAssumption DEF Start, KeptOK
  <2> QED
    BY <1>1, <2>1, <2>2, <2>3 DEF Start, KeptOK
<1>2. CASE Quit
  <2>1. NothingHidden \in [TabSet -> SUBSET Nat] /\ NewApplet(NothingHidden)
    BY <1>2 DEF Quit, NothingHidden
  <2>2. /\ TabOK' /\ UiOK' /\ SearchOK'
        /\ state' = NothingHidden
    BY <2>1, NewAppletTypes
  <2>3. file' \in {"none", "written", "broken"} /\ disk' \in [TabSet -> SUBSET Nat]
    BY <1>2, <2>1, UpdatedTypes DEF Quit, KeptOK
  <2> QED
    BY <1>2, <2>1, <2>2, <2>3 DEF Quit, KeptOK
<1>3. CASE Abort
  <2>1. NothingHidden \in [TabSet -> SUBSET Nat] /\ NewApplet(NothingHidden)
    BY <1>3 DEF Abort, NothingHidden
  <2>2. /\ TabOK' /\ UiOK' /\ SearchOK'
        /\ state' = NothingHidden
    BY <2>1, NewAppletTypes
  <2> QED
    BY <1>3, <2>1, <2>2 DEF Abort, KeptOK
<1>4. ASSUME NEW d \in {1, -1}, GoTab(d)
      PROVE  Goal
  <2>1. state' = UpdatedState /\ state' \in [TabSet -> SUBSET Nat]
    BY <1>4, UpdatedTypes DEF GoTab
  <2>2. TabOK'
    <3> DEFINE n == CHOOSE n \in DOMAIN Tabs : Tabs[n] = tab
               t == Tabs[((n - 1 + d) % Len(Tabs)) + 1]
    <3>1. n \in 1..7
      BY TabFacts DEF TabOK
    <3>2. ((n - 1 + d) % 7) + 1 \in 1..7
      <4> HIDE DEF n
      <4>1. n - 1 + d \in Int
        BY <3>1
      <4> QED
        BY <4>1
    <3>3. t \in TabSet
      BY <3>2, TabFacts
    <3>4. NewTab(t, state') \/ UNCHANGED tabVars
      BY <1>4 DEF GoTab
    <3> HIDE DEF t
    <3> QED
      BY <2>1, <3>3, <3>4, NewTabTypes, TabKept
  <2>3. UiOK'
    <3>1. inBox = FALSE
      BY <1>4 DEF GoTab, ListKeys, UiOK
    <3> QED
      BY <1>4, <3>1, Zenon DEF GoTab, UiOK
  <2>4. SearchOK'
    BY <1>4, SearchKept DEF GoTab
  <2>5. KeptOK'
    BY <1>4, <2>1 DEF GoTab, KeptOK
  <2> QED
    BY <2>2, <2>3, <2>4, <2>5
<1>5. ASSUME NEW d \in {1, -1}, MoveSelection(d)
      PROVE  Goal
  <2>1. VisibleIdx \subseteq 0..Count - 1
    BY ItemFacts DEF VisibleIdx, TabOK
  <2>2. TabOK'
    BY <1>5, <2>1, StepPicks, SelectKept DEF MoveSelection
  <2>3. UiOK' /\ SearchOK' /\ KeptOK'
    BY <1>5, UiKept, SearchKept, ElseKept DEF MoveSelection, KeptOK
  <2> QED
    BY <2>2, <2>3
<1>6. CASE SelectStart
  <2>1. TabOK' /\ mode' \in {"off", "on", "stuck", "panicked"}
    BY <1>6, Start0Picks, SelectKept DEF SelectStart, KeptOK
  <2>2. UiOK' /\ SearchOK' /\ KeptOK'
    BY <1>6, <2>1, UiKept, SearchKept, ElseKept DEF SelectStart
  <2> QED
    BY <2>1, <2>2
<1>7. CASE SelectEnd
  <2>1. TabOK' /\ mode' \in {"off", "on", "stuck", "panicked"}
    BY <1>7, End0Picks, SelectKept DEF SelectEnd, KeptOK
  <2>2. UiOK' /\ SearchOK' /\ KeptOK'
    BY <1>7, <2>1, UiKept, SearchKept, ElseKept DEF SelectEnd
  <2> QED
    BY <2>1, <2>2
<1>8. CASE ToggleHidden
  <2>1. sel \in 0..Count - 1 /\ At(sel).id \in Nat
    BY <1>8, ItemFacts DEF ToggleHidden, TabOK
  <2>2. hidden' \subseteq Nat
    BY <1>8, <2>1 DEF ToggleHidden, TabOK, Toggled
  <2>3. tab' = tab /\ Count' = Count /\ Visible(hidden') \subseteq 0..Count - 1
    BY <1>8, ItemFacts DEF ToggleHidden, TabOK, Count
  <2>4. UNCHANGED <<sel, selectedId>> \/ \E i \in 0..Count - 1 : Select(i)
    BY <1>8, <2>3, StepPicks DEF ToggleHidden
  <2>5. sel' \in Nat /\ (Count' > 0 => sel' < Count')
    BY <2>3, <2>4, ItemFacts DEF TabOK, Select
  <2>6. selectedId' \in Nat
    BY <2>4, ItemFacts DEF TabOK, Select
  <2>7. filter' \subseteq Chars /\ box' \in Box(tab') /\ owners' \subseteq Nat
    BY <1>8 DEF ToggleHidden, TabOK
  <2>8. TabOK'
    BY <2>2, <2>3, <2>5, <2>6, <2>7 DEF TabOK
  <2>9. toggles' \in 0..MaxToggles
    BY <1>8, DiffUiAssumption DEF ToggleHidden, KeptOK
  <2>10. meant' \in [TabSet -> SUBSET Nat]
    BY <1>8, <2>1 DEF ToggleHidden, KeptOK, Toggled
  <2>11. KeptOK'
    BY <1>8, <2>9, <2>10 DEF ToggleHidden, KeptOK
  <2>12. UiOK' /\ SearchOK'
    BY <1>8, UiKept, SearchKept DEF ToggleHidden
  <2> QED
    BY <2>8, <2>11, <2>12
<1>9. CASE ToggleShowHidden
  <2>1. TabOK' /\ SearchOK' /\ KeptOK'
    BY <1>9, TabKept, SearchKept, ElseKept DEF ToggleShowHidden, KeptOK
  <2>2. UiOK'
    BY <1>9, Zenon DEF ToggleShowHidden, tabVars, UiOK
  <2> QED
    BY <2>1, <2>2
<1>10. CASE EditSearch
  <2>1. TabOK' /\ SearchOK' /\ KeptOK'
    BY <1>10, TabKept, SearchKept, ElseKept DEF EditSearch, KeptOK
  <2>2. UiOK'
    BY <1>10, Zenon DEF EditSearch, tabVars, UiOK
  <2> QED
    BY <2>1, <2>2
<1>11. ASSUME NEW s \in Seq(Chars), Len(s) <= MaxSearch, SetSearch(s), mode' = mode, Else,
              UNCHANGED <<tab, sel, selectedId, hidden, owners, box, inBox, showHidden, editing>>
       PROVE  Goal
  <2>1. filter' \subseteq Chars
    <3>1. Range(s) \subseteq Chars
      BY <1>11 DEF Range
    <3> QED
      BY <1>11, <3>1 DEF SetSearch, TabOK
  <2>2. TabOK'
    BY <1>11, <2>1 DEF TabOK, Count
  <2>3. SearchOK'
    BY <1>11 DEF SetSearch, SearchOK
  <2>4. UiOK' /\ KeptOK'
    BY <1>11, UiKept, ElseKept DEF KeptOK
  <2> QED
    BY <2>2, <2>3, <2>4
<1>12. ASSUME NEW c \in Chars, Type(c)
       PROVE  Goal
  <2>1. Append(search, c) \in Seq(Chars) /\ Len(Append(search, c)) <= MaxSearch
    BY <1>12, DiffUiAssumption DEF Type, SearchOK
  <2> QED
    BY <1>11, <1>12, <2>1 DEF Type
<1>13. CASE Backspace
  <2>1. Front(search) \in Seq(Chars) /\ Len(Front(search)) <= MaxSearch
    BY <1>13, DiffUiAssumption DEF Backspace, SearchOK, Front
  <2> QED
    BY <1>11, <1>13, <2>1 DEF Backspace
<1>14. CASE SwitchSection
  <2>1. TabOK' /\ SearchOK' /\ KeptOK'
    BY <1>14, TabKept, SearchKept, ElseKept DEF SwitchSection, KeptOK
  <2>2. UiOK'
    BY <1>14, Zenon DEF SwitchSection, tabVars, UiOK
  <2> QED
    BY <2>1, <2>2
<1>15. ASSUME BoxElse, box' \in Box(tab), mode' = mode
       PROVE  Goal
  <2>1. TabOK'
    BY <1>15 DEF BoxElse, TabOK, Count
  <2>2. UiOK' /\ SearchOK' /\ KeptOK'
    BY <1>15, UiKept, SearchKept, ElseKept DEF BoxElse, KeptOK
  <2> QED
    BY <2>1, <2>2
<1>16. box.focus \in 0..Len(Checks(tab)) /\ Len(Checks(tab)) \in Nat
  BY CheckFacts DEF TabOK, Box
<1>17. CASE MoveFocus
  <2>1. PICK f \in {NextFocus(box.focus), PrevFocus(box.focus)} : box' = [box EXCEPT !.focus = f]
    BY <1>17 DEF MoveFocus
  <2>2. f \in 0..Len(Checks(tab))
    BY <1>16, CheckFacts DEF NextFocus, PrevFocus, TabOK
  <2>3. box' \in Box(tab)
    BY <2>1, <2>2 DEF TabOK, Box
  <2> QED
    BY <1>15, <1>17, <2>3 DEF MoveFocus, BoxElse
<1>18. CASE Press
  <2>1. CASE box.focus = 0
    <3>1. box' = [box EXCEPT !.expanded = ~@]
      BY <1>18, <2>1 DEF Press
    <3>2. box' \in Box(tab)
      BY <3>1 DEF TabOK, Box
    <3> QED
      BY <1>15, <1>18, <3>2 DEF Press, BoxElse
  <2>2. CASE box.focus # 0
    <3>1. box' = [box EXCEPT !.on = Toggled(@, Checks(tab)[box.focus])]
      BY <1>18, <2>2 DEF Press
    <3>2. Checks(tab)[box.focus] \in Range(Checks(tab))
      BY <1>16, <2>2, CheckFacts DEF Range, TabOK
    <3>3. box' \in Box(tab)
      BY <3>1, <3>2 DEF TabOK, Box, Toggled
    <3> QED
      BY <1>15, <1>18, <3>3 DEF Press, BoxElse
  <2> QED
    BY <2>1, <2>2
<1>19. CASE ChooseOwner
  <2>1. PICK o \in {NoOwner} \cup Owners(tab) : box' = [box EXCEPT !.owner = o]
    BY <1>19 DEF ChooseOwner
  <2>2. box' \in Box(tab)
    BY <2>1 DEF TabOK, Box
  <2> QED
    BY <1>15, <1>19, <2>2 DEF ChooseOwner, BoxElse
<1>20. CASE UNCHANGED vars
  <2>1. UNCHANGED tabVars /\ UNCHANGED uiVars /\ Else /\ mode' = mode
    BY <1>20 DEF vars, tabVars, Else
  <2> QED
    BY <2>1, TabKept, UiKept, SearchKept, ElseKept DEF tabVars, KeptOK
<1> QED
  BY <1>1, <1>2, <1>3, <1>4, <1>5, <1>6, <1>7, <1>8, <1>9, <1>10, <1>12, <1>13, <1>14,
     <1>17, <1>18, <1>19, <1>20 DEF Next, Stopped

(* Every state of every sequence of sessions is well typed.                *)
THEOREM Typing == Spec => []TypeOK
<1>1. Init => TypeOK
  BY TypeInit
<1>2. TypeOK /\ [Next]_vars => TypeOK'
  BY TypeStep
<1> QED
  BY <1>1, <1>2, PTL DEF Spec


-------------------------------------------------------------------------------
(* What the user hid: the active tab has its own set, the state those of   *)
(* the others, and the customizer what is hidden of the owners' tab.       *)

Kept ==
  mode = "on" =>
    \A t \in TabSet : meant[t] = IF t = tab THEN hidden ELSE state[t]

OwnersKept == mode = "on" => owners = HiddenOwners(tab, meant)

DiskKept ==
  /\ file # "broken" => disk = kept
  /\ mode = "on" => file # "broken"

LEMMA UpdatedIsMeant ==
  ASSUME TypeOK, Kept, mode = "on"
  PROVE  UpdatedState = meant
<1>1. UpdatedState = [t \in TabSet |-> IF t = tab THEN hidden ELSE state[t]]
  BY DEF TypeOK, UpdatedState
<1>2. meant = [t \in TabSet |-> meant[t]]
  BY DEF TypeOK
<1>3. \A t \in TabSet : meant[t] = IF t = tab THEN hidden ELSE state[t]
  BY DEF Kept
<1> QED
  BY <1>1, <1>2, <1>3

(* The actions that touch neither what is hidden nor what it is kept in.   *)
LEMMA SameHidden ==
  ASSUME Kept, OwnersKept, mode' = "on" => mode = "on",
         UNCHANGED <<tab, hidden, owners, state, meant>>
  PROVE  Kept' /\ OwnersKept'
BY DEF Kept, OwnersKept

LEMMA NewAppletKeeps ==
  \A st \in [TabSet -> SUBSET Nat] :
    NewApplet(st) /\ meant' = st => Kept' /\ OwnersKept'
<1> SUFFICES ASSUME NEW st \in [TabSet -> SUBSET Nat], NewApplet(st), meant' = st
             PROVE  Kept' /\ OwnersKept'
  OBVIOUS
<1>1. /\ state' = st /\ meant' = st /\ tab' = "SystemServices"
      /\ hidden' = st["SystemServices"] /\ owners' = HiddenOwners(tab', st)
  BY DEF NewApplet, NewTab
<1> QED
  BY <1>1 DEF Kept, OwnersKept

LEMMA KeptInit == Init => Kept /\ OwnersKept /\ DiskKept
BY DEF Init, Kept, OwnersKept, DiskKept

LEMMA KeptStep ==
  ASSUME TypeOK, Kept, OwnersKept, DiskKept, [Next]_vars
  PROVE  Kept' /\ OwnersKept'
<1> DEFINE Goal == Kept' /\ OwnersKept'
<1> USE DEF uiVars
<1>1. CASE Start
  <2>1. NewApplet(disk) /\ meant' = disk
    BY <1>1 DEF Start, DiskKept
  <2> QED
    BY <2>1, NewAppletKeeps DEF TypeOK
<1>2. CASE Quit \/ Abort
  <2>1. mode' = "off"
    BY <1>2 DEF Quit, Abort
  <2> QED
    BY <2>1 DEF Kept, OwnersKept
<1>3. ASSUME NEW d \in {1, -1}, GoTab(d)
      PROVE  Goal
  <2>1. mode = "on" /\ state' = meant /\ meant' = meant
    BY <1>3, UpdatedIsMeant DEF GoTab, ListKeys
  <2>2. PICK t : NewTab(t, state') \/ UNCHANGED tabVars
    BY <1>3 DEF GoTab
  <2>3. CASE NewTab(t, state')
    BY <2>1, <2>3 DEF NewTab, Kept, OwnersKept
  <2>4. CASE UNCHANGED tabVars
    BY <2>1, <2>4 DEF tabVars, Kept, OwnersKept, TypeOK
  <2> QED
    BY <2>2, <2>3, <2>4
<1>4. ASSUME NEW d \in {1, -1}, MoveSelection(d)
      PROVE  Goal
  BY <1>4, SameHidden DEF MoveSelection, Else
<1>5. CASE SelectStart
  <2>1. mode = "on"
    BY <1>5 DEF SelectStart, NotEditing, ListKeys
  <2> QED
    BY <1>5, <2>1, SameHidden DEF SelectStart, Else
<1>6. CASE SelectEnd
  <2>1. mode = "on"
    BY <1>6 DEF SelectEnd, NotEditing, ListKeys
  <2> QED
    BY <1>6, <2>1, SameHidden DEF SelectEnd, Else
<1>7. CASE ToggleHidden
  <2> DEFINE h == Toggled(hidden, At(sel).id)
  <2>1. mode = "on" /\ tab \in TabSet /\ meant[tab] = hidden
    BY <1>7 DEF ToggleHidden, NotEditing, ListKeys, Kept, TypeOK
  <2>2. /\ hidden' = h /\ meant' = [meant EXCEPT ![tab] = h]
        /\ mode' = mode /\ tab' = tab /\ owners' = owners /\ state' = state
    BY <1>7, <2>1 DEF ToggleHidden
  <2> HIDE DEF h
  <2>3. \A t \in TabSet : meant'[t] = IF t = tab THEN h ELSE meant[t]
    BY <2>2 DEF TypeOK
  <2>4. Kept'
    BY <2>1, <2>2, <2>3 DEF Kept
  <2>5. HiddenOwners(tab, meant') = HiddenOwners(tab, meant)
    BY <2>3, TabFacts DEF HiddenOwners, IpcTabs
  <2>6. OwnersKept'
    BY <2>1, <2>2, <2>5 DEF OwnersKept
  <2> QED
    BY <2>4, <2>6
<1>8. CASE ToggleShowHidden
  BY <1>8, SameHidden DEF ToggleShowHidden, tabVars, Else
<1>9. CASE EditSearch
  BY <1>9, SameHidden DEF EditSearch, tabVars, Else
<1>10. ASSUME NEW c \in Chars, Type(c)
       PROVE  Goal
  BY <1>10, SameHidden DEF Type, Else
<1>11. CASE Backspace
  BY <1>11, SameHidden DEF Backspace, Else
<1>12. CASE SwitchSection
  BY <1>12, SameHidden DEF SwitchSection, tabVars, Else
<1>13. CASE MoveFocus
  BY <1>13, SameHidden DEF MoveFocus, BoxElse, Else
<1>14. CASE Press
  BY <1>14, SameHidden DEF Press, BoxElse, Else
<1>15. CASE ChooseOwner
  BY <1>15, SameHidden DEF ChooseOwner, BoxElse, Else
<1>16. CASE UNCHANGED vars
  BY <1>16, SameHidden DEF vars
<1> QED
  BY <1>1, <1>2, <1>3, <1>4, <1>5, <1>6, <1>7, <1>8, <1>9, <1>10, <1>11, <1>12, <1>13,
     <1>14, <1>15, <1>16 DEF Next, Stopped

(* The file is written at the end of a session only, and has then what the *)
(* user meant; a file that was cut off lets no session begin.              *)
LEMMA DiskStep ==
  ASSUME TypeOK, Kept, DiskKept, [Next]_vars
  PROVE  DiskKept'
<1>1. CASE Quit
  <2>1. UpdatedState = meant /\ mode' = "off"
    BY <1>1, UpdatedIsMeant DEF Quit
  <2> QED
    BY <1>1, <2>1 DEF Quit, DiskKept
<1>2. CASE ~Quit
  <2>1. UNCHANGED <<file, disk, kept>>
    BY <1>2 DEF Next, Start, Abort, GoTab, MoveSelection, SelectStart, SelectEnd,
       ToggleHidden, ToggleShowHidden, EditSearch, Type, Backspace, SwitchSection,
       MoveFocus, Press, ChooseOwner, Stopped, BoxElse, Else, vars
  <2>2. mode' = "on" => mode = "on" \/ file # "broken"
    BY <1>2 DEF Next, Start, Abort, GoTab, MoveSelection, SelectStart, SelectEnd,
       Start0, End0, ToggleHidden, ToggleShowHidden, EditSearch, Type, Backspace,
       SwitchSection, MoveFocus, Press, ChooseOwner, Stopped, BoxElse, BoxKeys,
       ListKeys, NotEditing, vars
  <2> QED
    BY <2>1, <2>2 DEF DiskKept
<1> QED
  BY <1>1, <1>2

LEMMA KeptAlways == Spec => [](TypeOK /\ Kept /\ OwnersKept /\ DiskKept)
<1>1. Init => TypeOK /\ Kept /\ OwnersKept /\ DiskKept
  BY TypeInit, KeptInit
<1>2. (TypeOK /\ Kept /\ OwnersKept /\ DiskKept) /\ [Next]_vars =>
        (TypeOK /\ Kept /\ OwnersKept /\ DiskKept)'
  BY TypeStep, KeptStep, DiskStep
<1> QED
  BY <1>1, <1>2, PTL DEF Spec

(* No item of a hidden service or APK is visible, as the customizer a tab  *)
(* was made with is never older than what the user hid: its owners are     *)
(* hidden on another tab, and each change of tabs makes a new customizer.  *)
THEOREM OwnersGone == Spec => []HiddenOwnersGone
<1>1. ASSUME TypeOK, Kept, OwnersKept
      PROVE  HiddenOwnersGone
  <2> SUFFICES ASSUME mode = "on", HasBox(tab), NEW i \in VisibleIdx
               PROVE  At(i).owner \notin
                        meant[IF tab = "SystemServiceMethods" THEN "SystemServices" ELSE "Apks"]
    BY DEF HiddenOwnersGone
  <2>1. ~Ignored(At(i), hidden)
    BY DEF VisibleIdx, Visible
  <2>2. At(i).owner \notin owners
    BY <2>1 DEF Ignored
  <2>3. tab = "SystemServiceMethods" \/ tab \in IpcTabs
    BY <1>1, CheckFacts DEF TypeOK
  <2> QED
    BY <1>1, <2>2, <2>3 DEF OwnersKept, HiddenOwners
<1> QED
  BY <1>1, KeptAlways, PTL

(* What the user hid in sessions that were stored in full is on disk, and  *)
(* a session has that and what it changed since, in the active tab and the *)
(* state: until a store is cut off, after which no session begins.         *)
THEOREM HiddenStays == Spec => []HiddenKept
<1>1. Kept /\ DiskKept => HiddenKept
  BY DEF Kept, DiskKept, HiddenKept
<1> QED
  BY <1>1, KeptAlways, PTL


-------------------------------------------------------------------------------
(* The two cursors: sel and selectedId are of the same item, or both are   *)
(* as the tab was made with.                                               *)

OneCursor ==
  mode = "on" => \/ selectedId = 0 /\ sel = 0
                 \/ sel \in 0..Count - 1 /\ selectedId = At(sel).id

LEMMA SameCursor ==
  ASSUME OneCursor, mode' = "on" => mode = "on", UNCHANGED <<tab, sel, selectedId>>
  PROVE  OneCursor'
BY DEF OneCursor, Count, At

LEMMA SelectCursor ==
  ASSUME OneCursor, mode' = "on" => mode = "on", UNCHANGED tab,
         \/ UNCHANGED <<sel, selectedId>>
         \/ \E i \in 0..Count - 1 : Select(i)
  PROVE  OneCursor'
<1>1. CASE UNCHANGED <<sel, selectedId>>
  BY <1>1, SameCursor
<1>2. CASE \E i \in 0..Count - 1 : Select(i)
  BY <1>2 DEF OneCursor, Select, Count, At
<1> QED
  BY <1>1, <1>2

LEMMA CursorStep ==
  ASSUME TypeOK, OneCursor, [Next]_vars
  PROVE  OneCursor'
<1> TabOK
  BY TypeParts
<1>1. CASE Start
  BY <1>1 DEF Start, NewApplet, NewTab, OneCursor
<1>2. CASE Quit \/ Abort
  <2>1. mode' = "off"
    BY <1>2 DEF Quit, Abort
  <2> QED
    BY <2>1 DEF OneCursor
<1>3. ASSUME NEW d \in {1, -1}, GoTab(d)
      PROVE  OneCursor'
  <2>1. PICK t : NewTab(t, state') \/ UNCHANGED tabVars
    BY <1>3 DEF GoTab
  <2>2. CASE NewTab(t, state')
    BY <2>2 DEF NewTab, OneCursor
  <2>3. CASE UNCHANGED tabVars
    BY <1>3, <2>3, SameCursor DEF tabVars, GoTab
  <2> QED
    BY <2>1, <2>2, <2>3
<1>4. ASSUME NEW d \in {1, -1}, MoveSelection(d)
      PROVE  OneCursor'
  <2>1. VisibleIdx \subseteq 0..Count - 1
    BY ItemFacts DEF VisibleIdx, TypeOK
  <2> QED
    BY <1>4, <2>1, StepPicks, SelectCursor DEF MoveSelection
<1>5. CASE SelectStart
  BY <1>5, Start0Picks, SelectCursor DEF SelectStart, NotEditing, ListKeys
<1>6. CASE SelectEnd
  <2>1. CASE mode' = "on"
    BY <1>6, <2>1, End0Picks, SelectCursor DEF SelectEnd, NotEditing, ListKeys
  <2>2. CASE mode' # "on"
    BY <2>2 DEF OneCursor
  <2> QED
    BY <2>1, <2>2
<1>7. CASE ToggleHidden
  <2>1. Visible(hidden') \subseteq 0..Count - 1
    BY ItemFacts DEF TypeOK
  <2>2. UNCHANGED <<sel, selectedId>> \/ \E i \in 0..Count - 1 : Select(i)
    BY <1>7, <2>1, StepPicks DEF ToggleHidden
  <2> QED
    BY <1>7, <2>2, SelectCursor DEF ToggleHidden
<1>8. CASE ToggleShowHidden
  BY <1>8, SameCursor DEF ToggleShowHidden, tabVars
<1>9. CASE EditSearch
  BY <1>9, SameCursor DEF EditSearch, tabVars
<1>10. ASSUME NEW c \in Chars, Type(c)
       PROVE  OneCursor'
  BY <1>10, SameCursor DEF Type
<1>11. CASE Backspace
  BY <1>11, SameCursor DEF Backspace
<1>12. CASE SwitchSection
  BY <1>12, SameCursor DEF SwitchSection, tabVars
<1>13. CASE MoveFocus
  BY <1>13, SameCursor DEF MoveFocus, BoxElse
<1>14. CASE Press
  BY <1>14, SameCursor DEF Press, BoxElse
<1>15. CASE ChooseOwner
  BY <1>15, SameCursor DEF ChooseOwner, BoxElse
<1>16. CASE UNCHANGED vars
  BY <1>16, SameCursor DEF vars
<1> QED
  BY <1>1, <1>2, <1>3, <1>4, <1>5, <1>6, <1>7, <1>8, <1>9, <1>10, <1>11, <1>12, <1>13,
     <1>14, <1>15, <1>16 DEF Next, Stopped

(* Ids are those of one item each, so the item with the id of the cursor   *)
(* is the item at its index; before anything is selected no item has the   *)
(* id 0, and the first visible one is at index 0 if that is visible.       *)
LEMMA CursorSuffices ==
  ASSUME TypeOK, OneCursor, mode = "on", sel \in VisibleIdx
  PROVE  Highlighted = sel
<1> DEFINE ids == {i \in VisibleIdx : At(i).id = selectedId}
           from == IF ids = {} THEN VisibleIdx ELSE ids
           first(i) == \A j \in from : i <= j
<1>1. Highlighted = CHOOSE i \in from : first(i)
  BY Zenon DEF Highlighted
<1>2. /\ Count \in Nat /\ VisibleIdx \subseteq 0..Count - 1
      /\ \A i \in 0..Count - 1 : At(i).id # 0
      /\ \A i, j \in 0..Count - 1 : At(i).id = At(j).id => i = j
  BY ItemFacts DEF TypeOK, VisibleIdx
<1>3. sel \in from /\ \A j \in from : sel <= j /\ j \in Int
  <2>1. CASE selectedId = 0 /\ sel = 0
    <3>1. ids = {}
      BY <1>2, <2>1
    <3>2. from = VisibleIdx
      BY <3>1
    <3> HIDE DEF from
    <3> QED
      BY <1>2, <2>1, <3>2
  <2>2. CASE sel \in 0..Count - 1 /\ selectedId = At(sel).id
    <3>1. ids = {sel}
      BY <1>2, <2>2
    <3>2. from = {sel}
      BY <3>1
    <3> HIDE DEF from
    <3> QED
      BY <1>2, <2>2, <3>2
  <2> QED
    BY <2>1, <2>2 DEF OneCursor
<1> HIDE DEF from
<1>4. \A i \in from : first(i) => i = sel
  BY <1>3
<1>5. first(sel)
  BY <1>3
<1> HIDE DEF first
<1> QED
  BY <1>1, <1>3, <1>4, <1>5

(* The item the keys act on is the highlighted one whenever it is visible, *)
(* however search, boxes and hidden items changed since it was selected.   *)
THEOREM CursorShown == Spec => []SelectedIsHighlighted
<1>1. Init => TypeOK /\ OneCursor
  BY TypeInit DEF Init, OneCursor
<1>2. (TypeOK /\ OneCursor) /\ [Next]_vars => (TypeOK /\ OneCursor)'
  BY TypeStep, CursorStep
<1>3. TypeOK /\ OneCursor => SelectedIsHighlighted
  BY CursorSuffices DEF SelectedIsHighlighted
<1> QED
  BY <1>1, <1>2, <1>3, PTL DEF Spec


-------------------------------------------------------------------------------
(* The interface of a pull: its lists.                                     *)

Entry == [item : Paths, status : Statuses]

(* What is in progress comes last.                                         *)
Sorted(l) == \A i, j \in DOMAIN l : i < j /\ Busy(l[i]) => Busy(l[j])

(* The first entry of a path says how it ended.                            *)
FirstSays(l, p, s) ==
  \E i \in DOMAIN l : l[i].item = p /\ l[i].status = s
                      /\ \A j \in DOMAIN l : l[j].item = p => i <= j

(* In a list that is sorted but for one entry, the entries in progress are *)
(* those after some place.                                                 *)
LEMMA Boundary ==
  ASSUME NEW m \in Seq(Entry), NEW x \in DOMAIN m,
         \A i, j \in DOMAIN m \ {x} : i < j /\ Busy(m[i]) => Busy(m[j])
  PROVE  \E k \in 0 .. Len(m) : \A i \in DOMAIN m \ {x} : Busy(m[i]) <=> k < i
<1> DEFINE B == {i \in DOMAIN m \ {x} : Busy(m[i])}
<1>1. DOMAIN m = 1 .. Len(m) /\ Len(m) \in Nat
  OBVIOUS
<1>2. CASE B = {}
  <2>1. \A i \in DOMAIN m \ {x} : Busy(m[i]) <=> Len(m) < i
    BY <1>1, <1>2
  <2> QED
    BY <1>1, <2>1
<1>3. CASE B # {}
  <2>1. B \subseteq 0 .. Len(m)
    BY <1>1
  <2>2. PICK b \in B : \A j \in B : b <= j
    <3> HIDE DEF B
    <3> QED
      BY <1>1, <1>3, <2>1, LeastOf
  <2>3. b \in 1 .. Len(m) /\ b # x /\ Busy(m[b])
    BY <1>1
  <2>4. \A i \in DOMAIN m \ {x} : Busy(m[i]) => b <= i
    BY <2>2
  <2>5. \A i \in DOMAIN m \ {x} : b < i => Busy(m[i])
    BY <1>1, <2>3
  <2>6. \A i \in DOMAIN m \ {x} : Busy(m[i]) <=> b - 1 < i
    <3> SUFFICES ASSUME NEW i \in DOMAIN m \ {x}
                 PROVE  Busy(m[i]) <=> b - 1 < i
      OBVIOUS
    <3>1. i \in Int /\ b \in Int
      BY <1>1, <2>3
    <3>2. b - 1 < i <=> (b = i \/ b < i)
      BY <3>1
    <3>3. b <= i <=> (b = i \/ b < i)
      BY <3>1
    <3> HIDE DEF B
    <3> QED
      BY <2>3, <2>4, <2>5, <3>2, <3>3
  <2>7. b - 1 \in 0 .. Len(m)
    BY <1>1, <2>3
  <2> QED
    BY <2>6, <2>7
<1> QED
  BY <1>2, <1>3

(* Such a list can be sorted: the entry goes where those in progress begin. *)
LEMMA OrdersExist ==
  ASSUME NEW m \in Seq(Entry), NEW x \in DOMAIN m, ~Busy(m[x]),
         \A i, j \in DOMAIN m \ {x} : i < j /\ Busy(m[i]) => Busy(m[j])
  PROVE  Orders(m) # {}
<1> DEFINE n == Len(m)
<1>1. DOMAIN m = 1 .. n /\ n \in Nat
  OBVIOUS
<1>2. PICK k \in 0 .. n : \A i \in 1 .. n : i # x => (Busy(m[i]) <=> k < i)
  BY <1>1, Boundary
<1> HIDE DEF n
<1>3. n \in Nat /\ k \in Nat /\ k <= n /\ x \in 1 .. n /\ x \in Nat
  BY <1>1, <1>2
<1>4. CASE x <= k
  <2> DEFINE o == [i \in DOMAIN m |-> i]
  <2>1. o \in Bijection(DOMAIN m, DOMAIN m)
    BY DEF Bijection, Injection, Surjection, IsInjective
  <2>2. \A i \in 1 .. n : Busy(m[i]) <=> k < i
    <3> SUFFICES ASSUME NEW i \in 1 .. n
                 PROVE  Busy(m[i]) <=> k < i
      OBVIOUS
    <3>1. x = i => ~(k < i)
      BY <1>3, <1>4
    <3> QED
      BY <1>2, <3>1
  <2>3. \A i, j \in 1 .. n : i < j => Before(m, i, j)
    <3> SUFFICES ASSUME NEW i \in 1 .. n, NEW j \in 1 .. n, i < j
                 PROVE  Before(m, i, j)
      OBVIOUS
    <3>1. k < i => k < j
      BY <1>3
    <3>2. Busy(m[i]) => Busy(m[j])
      BY <2>2, <3>1
    <3> QED
      BY <3>2 DEF Before
  <2>4. o \in Orders(m)
    BY <1>1, <2>1, <2>3 DEF Orders
  <2> QED
    BY <2>4
<1>5. CASE k < x
  <2> DEFINE o == [i \in 1 .. n |-> IF i <= k \/ x < i THEN i
                                    ELSE IF i = k + 1 THEN x ELSE i - 1]
  <2>1. \A i \in 1 .. n : /\ i <= k => o[i] = i
                          /\ i = k + 1 => o[i] = x
                          /\ k + 1 < i /\ i <= x => o[i] = i - 1
                          /\ x < i => o[i] = i
    <3> SUFFICES ASSUME NEW i \in 1 .. n
                 PROVE  /\ i <= k => o[i] = i
                        /\ i = k + 1 => o[i] = x
                        /\ k + 1 < i /\ i <= x => o[i] = i - 1
                        /\ x < i => o[i] = i
      OBVIOUS
    <3>1. o[i] = IF i <= k \/ x < i THEN i ELSE IF i = k + 1 THEN x ELSE i - 1
      OBVIOUS
    <3>2. /\ i = k + 1 => ~(i <= k) /\ ~(x < i)
          /\ k + 1 < i /\ i <= x => ~(i <= k) /\ ~(x < i) /\ i # k + 1
      BY <1>3, <1>5
    <3> HIDE DEF o
    <3> QED
      BY <3>1, <3>2
  <2>2. DOMAIN o = 1 .. n /\ o = [i \in 1 .. n |-> o[i]]
    OBVIOUS
  <2> HIDE DEF o
  <2>3. \A i \in 1 .. n : o[i] \in 1 .. n
    BY <1>3, <1>5, <2>1
  <2>4. \A i \in 1 .. n : o[i] = x <=> i = k + 1
    BY <1>3, <1>5, <2>1
  <2>5. \A i, j \in 1 .. n : i < j /\ i # k + 1 /\ j # k + 1 => o[i] < o[j]
    BY <1>3, <1>5, <2>1
  <2>6. /\ \A i \in 1 .. n : i <= k => o[i] <= k
        /\ \A i \in 1 .. n : k + 1 < i => k < o[i]
    BY <1>3, <1>5, <2>1
  <2>7. \A j \in 1 .. n : \E i \in 1 .. n : o[i] = j
    <3> SUFFICES ASSUME NEW j \in 1 .. n
                 PROVE  \E i \in 1 .. n : o[i] = j
      OBVIOUS
    <3>1. CASE j <= k \/ x < j
      BY <2>1, <3>1
    <3>2. CASE j = x
      <4>1. k + 1 \in 1 .. n
        BY <1>3, <1>5
      <4> QED
        BY <2>1, <3>2, <4>1
    <3>3. CASE k < j /\ j < x
      <4>1. j + 1 \in 1 .. n /\ k + 1 < j + 1 /\ j + 1 <= x /\ (j + 1) - 1 = j
        BY <1>3, <3>3
      <4> QED
        BY <2>1, <4>1
    <3> QED
      BY <1>3, <3>1, <3>2, <3>3
  <2>8. o \in Bijection(1 .. n, 1 .. n)
    <3>1. \A i, j \in 1 .. n : i < j => o[i] # o[j]
      <4> SUFFICES ASSUME NEW i \in 1 .. n, NEW j \in 1 .. n, i < j
                   PROVE  o[i] # o[j]
        OBVIOUS
      <4>1. CASE i = k + 1 \/ j = k + 1
        BY <2>4, <4>1
      <4>2. CASE i # k + 1 /\ j # k + 1
        BY <2>3, <2>5, <4>2
      <4> QED
        BY <4>1, <4>2
    <3>2. \A i, j \in 1 .. n : o[i] = o[j] => i = j
      BY <3>1
    <3>3. o \in [1 .. n -> 1 .. n]
      BY <2>2, <2>3
    <3> QED
      BY <2>7, <3>2, <3>3 DEF Bijection, Injection, Surjection, IsInjective
  <2>9. \A i, j \in 1 .. n : i < j => Before(m, o[i], o[j])
    <3> SUFFICES ASSUME NEW i \in 1 .. n, NEW j \in 1 .. n, i < j
                 PROVE  Before(m, o[i], o[j])
      OBVIOUS
    <3>1. o[i] \in 1 .. n /\ o[j] \in 1 .. n /\ o[i] \in Int /\ o[j] \in Int
      BY <2>3
    <3>2. CASE o[i] = x
      <4>1. ~Busy(m[o[i]]) /\ Busy(m[o[j]])
        <5>1. k < o[j] /\ o[j] # x
          BY <1>3, <2>4, <2>6, <3>2
        <5> QED
          BY <1>2, <1>3, <3>1, <3>2, <5>1
      <4> QED
        BY <4>1 DEF Before
    <3>3. CASE o[i] # x /\ o[j] = x
      <4>1. o[i] <= k
        BY <1>3, <2>4, <2>6, <3>3
      <4>2. o[i] < o[j] /\ ~(k < o[i])
        BY <1>3, <1>5, <3>1, <3>3, <4>1
      <4>3. ~Busy(m[o[i]]) /\ ~Busy(m[o[j]])
        BY <1>2, <3>1, <3>3, <4>2
      <4> QED
        BY <4>2, <4>3 DEF Before
    <3>4. CASE o[i] # x /\ o[j] # x
      <4>1. o[i] < o[j]
        BY <2>4, <2>5, <3>4
      <4>2. k < o[i] => k < o[j]
        BY <1>3, <3>1, <4>1
      <4>3. Busy(m[o[i]]) => Busy(m[o[j]])
        BY <1>2, <3>1, <3>4, <4>2
      <4> QED
        BY <4>1, <4>3 DEF Before
    <3> QED
      BY <3>2, <3>3, <3>4
  <2>10. o \in Orders(m)
    BY <1>1, <2>8, <2>9 DEF Orders
  <2> QED
    BY <2>10
<1> QED
  BY <1>3, <1>4, <1>5

(* What a list that can be sorted is when it is.                           *)
LEMMA BusyLastIs ==
  ASSUME NEW m \in Seq(Entry), Orders(m) # {}
  PROVE  \E o \in Orders(m) : BusyLast(m) = [i \in DOMAIN m |-> m[o[i]]]
<1> DEFINE c == CHOOSE o \in Orders(m) : TRUE
<1>1. c \in Orders(m)
  OBVIOUS
<1>2. BusyLast(m) = [i \in DOMAIN m |-> m[c[i]]]
  BY Zenon DEF BusyLast
<1> HIDE DEF c
<1> QED
  BY <1>1, <1>2

LEMMA OrderIs ==
  ASSUME NEW m \in Seq(Entry), NEW o \in Orders(m)
  PROVE  /\ \A i \in DOMAIN m : o[i] \in DOMAIN m
         /\ \A j \in DOMAIN m : \E i \in DOMAIN m : o[i] = j
         /\ \A i, j \in DOMAIN m : o[i] = o[j] => i = j
         /\ \A i, j \in DOMAIN m : i < j => Before(m, o[i], o[j])
BY DEF Orders, Bijection, Injection, Surjection, IsInjective

LEMMA BusyLastProperties ==
  ASSUME NEW m \in Seq(Entry), Orders(m) # {}
  PROVE  /\ BusyLast(m) \in Seq(Entry) /\ Sorted(BusyLast(m))
         /\ \A i \in DOMAIN m :
              (\A j \in DOMAIN m : m[j].item = m[i].item /\ j # i => Before(m, i, j))
                => FirstSays(BusyLast(m), m[i].item, m[i].status)
<1>1. PICK o \in Orders(m) : BusyLast(m) = [i \in DOMAIN m |-> m[o[i]]]
  BY BusyLastIs
<1> DEFINE l == BusyLast(m)
<1>2. /\ \A i \in DOMAIN m : o[i] \in DOMAIN m
      /\ \A j \in DOMAIN m : \E i \in DOMAIN m : o[i] = j
      /\ \A i, j \in DOMAIN m : o[i] = o[j] => i = j
      /\ \A i, j \in DOMAIN m : i < j => Before(m, o[i], o[j])
  BY OrderIs
<1>3. DOMAIN m = 1 .. Len(m) /\ Len(m) \in Nat /\ \A i \in DOMAIN m : m[i] \in Entry
  OBVIOUS
<1>4. DOMAIN l = DOMAIN m /\ \A i \in DOMAIN m : l[i] = m[o[i]]
  BY <1>1
<1>5. l \in Seq(Entry)
  BY <1>1, <1>2, <1>3
<1> HIDE DEF l
<1>6. Sorted(l)
  <2> SUFFICES ASSUME NEW i \in DOMAIN m, NEW j \in DOMAIN m, i < j, Busy(m[o[i]])
               PROVE  Busy(m[o[j]])
    BY <1>4 DEF Sorted
  <2> QED
    BY <1>2 DEF Before
<1>7. ASSUME NEW i \in DOMAIN m,
             \A j \in DOMAIN m : m[j].item = m[i].item /\ j # i => Before(m, i, j)
      PROVE  FirstSays(l, m[i].item, m[i].status)
  <2>1. PICK a \in DOMAIN m : o[a] = i
    BY <1>2
  <2>2. ASSUME NEW b \in DOMAIN m, l[b].item = m[i].item
        PROVE  a <= b
    <3>1. CASE a = b
      BY <1>3, <3>1
    <3>2. CASE b < a
      <4>1. Before(m, o[b], i)
        BY <1>2, <2>1, <3>2
      <4>2. o[b] # i /\ o[b] \in DOMAIN m /\ m[o[b]].item = m[i].item
        <5>1. b # a
          BY <1>3, <3>2
        <5>2. o[b] # o[a] /\ o[b] \in DOMAIN m
          BY <1>2, <5>1
        <5>3. l[b] = m[o[b]]
          BY <1>4
        <5> QED
          BY <2>1, <2>2, <5>2, <5>3
      <4>3. Before(m, i, o[b])
        BY <1>7, <4>2
      <4>4. ~(i < o[b] /\ o[b] < i)
        BY <1>3, <4>2
      <4> QED
        BY <4>1, <4>3, <4>4 DEF Before
    <3> QED
      BY <1>3, <3>1, <3>2
  <2> QED
    BY <1>4, <2>1, <2>2 DEF FirstSays
<1> QED
  BY <1>5, <1>6, <1>7 DEF l

(* An update leaves the list sorted, says on the first entry of its path   *)
(* how that ended, and changes nothing of what the others say.             *)
LEMMA UpdatedSays ==
  ASSUME NEW l \in Seq(Entry), Sorted(l), NEW p \in Paths, NEW s \in {"failed", "succeeded"}
  PROVE  /\ Updated(l, p, s) \in Seq(Entry) /\ Sorted(Updated(l, p, s))
         /\ FirstSays(Updated(l, p, s), p, s)
         /\ \A q \in Paths \ {p}, t \in Statuses :
              FirstSays(l, q, t) => FirstSays(Updated(l, p, s), q, t)
<1>1. DOMAIN l = 1 .. Len(l) /\ Len(l) \in Nat /\ \A i \in DOMAIN l : l[i] \in Entry
  OBVIOUS
<1> DEFINE at1 == {i \in DOMAIN l : l[i].item = p}
(* The list before it is sorted: m, the entry at x has changed.            *)
<1>2. \E m \in Seq(Entry) : \E x \in DOMAIN m :
        /\ Updated(l, p, s) = BusyLast(m)
        /\ DOMAIN l \subseteq DOMAIN m /\ DOMAIN m \subseteq DOMAIN l \cup {x}
        /\ \A i \in DOMAIN l \ {x} : m[i] = l[i]
        /\ m[x].item = p /\ m[x].status = s
        /\ \A j \in DOMAIN m : m[j].item = p => x <= j
        /\ x \in DOMAIN l => l[x].item = p
        /\ x \notin DOMAIN l => \A i \in DOMAIN l : i < x
  <2> DEFINE e == [item |-> p, status |-> s]
  <2>1. e \in Entry /\ e.item = p /\ e.status = s
    BY DEF Entry, Statuses
  <2>2. CASE at1 = {}
    <3> DEFINE m == Append(l, e)
               x == Len(l) + 1
    <3>1. Updated(l, p, s) = BusyLast(m)
      BY <2>2, Zenon DEF Updated
    <3>2. /\ m \in Seq(Entry) /\ DOMAIN m = 1 .. x /\ x \in DOMAIN m /\ m[x] = e
          /\ \A i \in DOMAIN l : m[i] = l[i] /\ i < x /\ i \in DOMAIN m
      BY <1>1, <2>1
    <3>3. DOMAIN m \subseteq DOMAIN l \cup {x} /\ x \notin DOMAIN l
      BY <1>1, <3>2
    <3> HIDE DEF m, x, e
    <3>4. \A j \in DOMAIN m : m[j].item = p => j = x
      BY <2>2, <3>2, <3>3
    <3>5. \A j \in DOMAIN m : j = x => x <= j
      <4>1. x \in Int
        BY <1>1 DEF x
      <4> QED
        BY <4>1
    <3> QED
      BY <2>1, <3>1, <3>2, <3>3, <3>4, <3>5
  <2>3. CASE at1 # {}
    <3>1. at1 \subseteq 0 .. Len(l)
      BY <1>1
    <3>2. \E i \in at1 : \A j \in at1 : i <= j
      <4> HIDE DEF at1
      <4> QED
        BY <1>1, <2>3, <3>1, LeastOf
    <3> DEFINE x == CHOOSE i \in at1 : \A j \in at1 : i <= j
               m == [l EXCEPT ![x].status = s]
    <3>3. x \in at1 /\ \A j \in at1 : x <= j
      <4> HIDE DEF at1
      <4> QED
        BY <3>2
    <3>4. Updated(l, p, s) = BusyLast(m)
      BY <2>3, Zenon DEF Updated
    <3> HIDE DEF x
    <3>5. x \in DOMAIN l /\ l[x].item = p /\ l[x] \in Entry
      BY <1>1, <3>3
    <3>6. DOMAIN m = DOMAIN l /\ m[x] = [l[x] EXCEPT !.status = s]
          /\ \A i \in DOMAIN l \ {x} : m[i] = l[i]
      BY <3>5
    <3>7. m[x] \in Entry /\ m[x].item = p /\ m[x].status = s
      BY <3>5, <3>6 DEF Entry, Statuses
    <3> HIDE DEF m
    <3>8. m \in Seq(Entry)
      <4>1. m = [i \in 1 .. Len(l) |-> m[i]]
        <5>1. m = [i \in DOMAIN m |-> m[i]]
          BY <3>6 DEF m
        <5> QED
          BY <1>1, <3>6, <5>1
      <4>2. \A i \in 1 .. Len(l) : m[i] \in Entry
        BY <1>1, <3>6, <3>7
      <4> QED
        BY <1>1, <4>1, <4>2
    <3>9. \A j \in DOMAIN m : m[j].item = p => x <= j
      <4> SUFFICES ASSUME NEW j \in DOMAIN m, m[j].item = p
                   PROVE  x <= j
        OBVIOUS
      <4>1. j \in at1
        BY <3>5, <3>6
      <4> QED
        BY <3>3, <4>1
    <3> HIDE DEF at1
    <3> QED
      BY <3>4, <3>5, <3>6, <3>7, <3>8, <3>9
  <2> QED
    BY <2>2, <2>3
<1>0. PICK m \in Seq(Entry) : \E x \in DOMAIN m :
        /\ Updated(l, p, s) = BusyLast(m)
        /\ DOMAIN l \subseteq DOMAIN m /\ DOMAIN m \subseteq DOMAIN l \cup {x}
        /\ \A i \in DOMAIN l \ {x} : m[i] = l[i]
        /\ m[x].item = p /\ m[x].status = s
        /\ \A j \in DOMAIN m : m[j].item = p => x <= j
        /\ x \in DOMAIN l => l[x].item = p
        /\ x \notin DOMAIN l => \A i \in DOMAIN l : i < x
  BY <1>2
<1>3. PICK x \in DOMAIN m :
        /\ Updated(l, p, s) = BusyLast(m)
        /\ DOMAIN l \subseteq DOMAIN m /\ DOMAIN m \subseteq DOMAIN l \cup {x}
        /\ \A i \in DOMAIN l \ {x} : m[i] = l[i]
        /\ m[x].item = p /\ m[x].status = s
        /\ \A j \in DOMAIN m : m[j].item = p => x <= j
        /\ x \in DOMAIN l => l[x].item = p
        /\ x \notin DOMAIN l => \A i \in DOMAIN l : i < x
  BY <1>0
<1> HIDE DEF at1
<1>4. ~Busy(m[x])
  BY <1>3 DEF Busy
<1>5. \A i, j \in DOMAIN m \ {x} : i < j /\ Busy(m[i]) => Busy(m[j])
  BY <1>3 DEF Sorted
<1>6. Orders(m) # {}
  BY <1>4, <1>5, OrdersExist
<1>7. \A i \in DOMAIN m : i \in Int
  OBVIOUS
<1>8. BusyLast(m) \in Seq(Entry) /\ Sorted(BusyLast(m))
  BY <1>6, BusyLastProperties
<1>9. FirstSays(BusyLast(m), p, s)
  <2>1. \A j \in DOMAIN m : m[j].item = m[x].item /\ j # x => Before(m, x, j)
    <3> SUFFICES ASSUME NEW j \in DOMAIN m, m[j].item = p, j # x
                 PROVE  Before(m, x, j)
      BY <1>3
    <3>1. x < j
      BY <1>3, <1>7
    <3> QED
      BY <1>4, <3>1 DEF Before
  <2> QED
    BY <1>3, <1>6, <2>1, BusyLastProperties
<1>10. ASSUME NEW q \in Paths \ {p}, NEW t \in Statuses, FirstSays(l, q, t)
       PROVE  FirstSays(BusyLast(m), q, t)
  <2>1. PICK i \in DOMAIN l : /\ l[i].item = q /\ l[i].status = t
                              /\ \A j \in DOMAIN l : l[j].item = q => i <= j
    BY <1>10 DEF FirstSays
  <2>2. i # x /\ i \in DOMAIN m /\ m[i] = l[i]
    BY <1>3, <1>10, <2>1
  <2>3. \A j \in DOMAIN m : m[j].item = m[i].item /\ j # i => Before(m, i, j)
    <3> SUFFICES ASSUME NEW j \in DOMAIN m, m[j].item = q, j # i
                 PROVE  Before(m, i, j)
      BY <2>1, <2>2
    <3>1. j # x /\ j \in DOMAIN l /\ l[j].item = q
      BY <1>3, <1>10
    <3>2. i < j
      BY <1>7, <2>1, <2>2, <3>1
    <3>3. Busy(m[i]) => Busy(m[j])
      BY <1>5, <2>2, <3>1, <3>2
    <3> QED
      BY <3>2, <3>3 DEF Before
  <2> QED
    BY <1>6, <2>1, <2>2, <2>3, BusyLastProperties
<1> QED
  BY <1>3, <1>8, <1>9, <1>10

(* A new entry in progress at the end.                                     *)
LEMMA BegunSays ==
  ASSUME NEW l \in Seq(Entry), Sorted(l), NEW e \in Entry, Busy(e), NEW m, m = Append(l, e)
  PROVE  /\ m \in Seq(Entry) /\ Sorted(m)
         /\ \A q \in Paths, t \in Statuses : FirstSays(l, q, t) => FirstSays(m, q, t)
<1> DEFINE n == Len(l) + 1
<1>1. /\ DOMAIN l = 1 .. Len(l) /\ Len(l) \in Nat /\ m \in Seq(Entry)
      /\ DOMAIN m = 1 .. n /\ m[n] = e /\ \A i \in DOMAIN l : m[i] = l[i]
  OBVIOUS
<1>2. /\ \A i \in DOMAIN m : i \in DOMAIN l \/ i = n
      /\ \A i \in DOMAIN l : i \in DOMAIN m /\ i < n /\ i <= n
      /\ \A i \in DOMAIN m : ~(n < i)
  BY <1>1
<1> HIDE DEF n
<1>3. Sorted(m)
  BY <1>1, <1>2 DEF Sorted
<1>4. \A q \in Paths, t \in Statuses : FirstSays(l, q, t) => FirstSays(m, q, t)
  BY <1>1, <1>2 DEF FirstSays
<1> QED
  BY <1>1, <1>3, <1>4

-------------------------------------------------------------------------------
(* Its types.                                                              *)

Evt == [block : Blocks, kind : Kinds, path : Paths \cup {None}]

(* A worker that is busy has a path; the receiver is there while the loop  *)
(* runs; an event that is not dropped has a path.                          *)
Jobs == \A w \in Workers : at[w] # "idle" => job[w] \in Paths
Open == ui \in {"key", "tick", "check"} => rxOpen
Named == \A i \in DOMAIN chan : chan[i].kind # "other" => chan[i].path \in Paths
Lists == \A b \in Blocks : Sorted(list[b])

PullTypes ==
  /\ phase \in {"framework", "apks", "ok", "err"}
  /\ searched \in BOOLEAN
  /\ todo \subseteq Paths
  /\ job \in [Workers -> Paths \cup {None}]
  /\ at \in [Workers -> {"idle", "pull", "pulling", "decompile", "decompiling"}]
  /\ pulled \in [Paths -> {None, "failed", "succeeded"}]
  /\ decomp \in [Paths -> {None, "failed", "succeeded"}]

ChanTypes == chan \in Seq(Evt) /\ Len(chan) <= Bound

AppletTypes ==
  /\ cancelled \in BOOLEAN /\ rxOpen \in BOOLEAN
  /\ joined \in BOOLEAN
  /\ ui \in {"key", "tick", "check", "unwinding"} \cup Ended
  /\ quit \in {"none", "wait", "immediate"}
  /\ list \in [Blocks -> Seq(Entry)]
  /\ focus \in Blocks /\ selIdx \in Nat /\ keys \in 0..MaxKeys

LEMMA PullTypeParts == PullUiTypes <=> PullTypes /\ ChanTypes /\ AppletTypes
BY DEF PullUiTypes, PullTypes, ChanTypes, AppletTypes, Evt, Entry

Result(b, p) == IF b = "pull" THEN pulled[p] ELSE decomp[p]

EndsOf(b, p) ==
  {i \in DOMAIN chan : /\ chan[i].block = b /\ chan[i].path = p
                       /\ chan[i].kind \in {"failed", "succeeded"}}

(* What the lists will tell of a path is how the last attempt at it ended: *)
(* either its last event on the channel says so, or the list does.         *)
Told ==
  rxOpen =>
    \A b \in Blocks, p \in Paths :
      /\ \A i \in EndsOf(b, p) :
           (\A j \in EndsOf(b, p) : j <= i) => chan[i].kind = Result(b, p)
      /\ EndsOf(b, p) = {} /\ Result(b, p) # None => FirstSays(list[b], p, Result(b, p))

PullUiInv ==
  PullTypes /\ ChanTypes /\ AppletTypes /\ Jobs /\ Open /\ Named /\ Lists /\ Told

-------------------------------------------------------------------------------
(* Events that are sent and taken.                                         *)

LEMMA SentInv ==
  ASSUME ChanTypes, Named, Told, NEW e \in Evt, Send(e), e.kind # "other" => e.path \in Paths,
         UNCHANGED <<rxOpen, list>>,
         \A b \in Blocks, p \in Paths :
           IF e.block = b /\ e.path = p /\ e.kind \in {"failed", "succeeded"}
           THEN Result(b, p)' = e.kind
           ELSE Result(b, p)' = Result(b, p)
  PROVE  ChanTypes' /\ Named' /\ Told'
<1>1. CASE ~rxOpen
  <2>1. chan' = chan
    BY <1>1 DEF Send
  <2> QED
    BY <1>1, <2>1 DEF ChanTypes, Named, Told
<1>2. CASE rxOpen
  <2> DEFINE n == Len(chan) + 1
  <2>1. chan' = Append(chan, e) /\ Len(chan) < Bound /\ chan \in Seq(Evt)
    BY <1>2 DEF Send, ChanTypes
  <2>2. /\ chan' \in Seq(Evt) /\ DOMAIN chan = 1 .. Len(chan) /\ DOMAIN chan' = 1 .. n
        /\ chan'[n] = e /\ \A i \in DOMAIN chan : chan'[i] = chan[i]
        /\ Len(chan') = n /\ n \in Nat \ {0}
    BY <2>1
  <2>3. ChanTypes'
    BY <2>1, <2>2, PullUiAssumption DEF ChanTypes
  <2>4. /\ \A i \in DOMAIN chan' : i \in DOMAIN chan \/ i = n
        /\ \A i \in DOMAIN chan : i \in DOMAIN chan' /\ i # n /\ ~(n <= i)
        /\ n \in DOMAIN chan'
    BY <2>2
  <2> HIDE DEF n
  <2>5. Named'
    BY <2>2, <2>4 DEF Named
  <2>6. ASSUME NEW b \in Blocks, NEW p \in Paths
        PROVE  /\ \A i \in EndsOf(b, p)' :
                    (\A j \in EndsOf(b, p)' : j <= i) => chan'[i].kind = Result(b, p)'
               /\ EndsOf(b, p)' = {} /\ Result(b, p)' # None
                    => FirstSays(list[b], p, Result(b, p)')
    <3>1. /\ \A i \in EndsOf(b, p) :
               (\A j \in EndsOf(b, p) : j <= i) => chan[i].kind = Result(b, p)
          /\ EndsOf(b, p) = {} /\ Result(b, p) # None => FirstSays(list[b], p, Result(b, p))
      BY <1>2 DEF Told
    <3>2. CASE e.block = b /\ e.path = p /\ e.kind \in {"failed", "succeeded"}
      <4>1. n \in EndsOf(b, p)'
        BY <2>2, <2>4, <3>2 DEF EndsOf
      <4>2. \A i \in EndsOf(b, p)' : n <= i => i = n
        BY <2>4 DEF EndsOf
      <4>3. chan'[n].kind = Result(b, p)'
        BY <2>2, <3>2
      <4> QED
        BY <4>1, <4>2, <4>3
    <3>3. CASE ~(e.block = b /\ e.path = p /\ e.kind \in {"failed", "succeeded"})
      <4>1. EndsOf(b, p)' = EndsOf(b, p)
        BY <2>2, <2>4, <3>3 DEF EndsOf
      <4>2. Result(b, p)' = Result(b, p)
        BY <3>3
      <4>3. \A i \in EndsOf(b, p) : chan'[i] = chan[i]
        BY <2>2 DEF EndsOf
      <4> QED
        BY <3>1, <4>1, <4>2, <4>3
    <3> QED
      BY <3>2, <3>3
  <2>7. Told'
    BY <2>6 DEF Told
  <2> QED
    BY <2>3, <2>5, <2>7
<1> QED
  BY <1>1, <1>2

LEMMA StillTold ==
  ASSUME Told, UNCHANGED <<rxOpen, list, chan, pulled, decomp>>
  PROVE  Told'
<1>1. \A b, p : Result(b, p)' = Result(b, p) /\ EndsOf(b, p)' = EndsOf(b, p)
  BY DEF Result, EndsOf
<1> QED
  BY <1>1 DEF Told

LEMMA OnEventIs ==
  ASSUME AppletTypes, NEW e \in Evt, OnEvent(e)
  PROVE  /\ focus' = focus /\ selIdx' \in Nat
         /\ e.kind = "other" => list' = list
         /\ e.kind = "begin" =>
              list' = [list EXCEPT ![e.block] =
                         Append(list[e.block], [item |-> e.path, status |-> "in_progress"])]
         /\ e.kind \in {"failed", "succeeded"} =>
              list' = [list EXCEPT ![e.block] = Updated(list[e.block], e.path, e.kind)]
<1>1. CASE e.kind = "other"
  BY <1>1 DEF OnEvent, shown, AppletTypes
<1>2. CASE e.kind # "other"
  <2>1. focus' = focus /\ selIdx' \in {selIdx, selIdx + 1}
    BY <1>2 DEF OnEvent, Tracked
  <2>2. selIdx' \in Nat
    <3>1. selIdx \in Nat
      BY DEF AppletTypes
    <3> QED
      BY <2>1, <3>1
  <2>3. list' = [list EXCEPT ![e.block] =
                   IF e.kind = "begin"
                   THEN Append(list[e.block], [item |-> e.path, status |-> "in_progress"])
                   ELSE Updated(list[e.block], e.path, e.kind)]
    BY <1>2 DEF OnEvent
  <2> QED
    BY <1>2, <2>1, <2>2, <2>3
<1> QED
  BY <1>1, <1>2

LEMMA DrainInv ==
  ASSUME PullUiInv, Drain
  PROVE  PullUiInv'
<1>0. /\ PullTypes /\ ChanTypes /\ AppletTypes /\ Jobs /\ Open /\ Named /\ Lists /\ Told
      /\ ui = "tick" /\ chan # <<>> /\ OnEvent(Head(chan)) /\ chan' = Tail(chan)
      /\ UNCHANGED <<cancelled, rxOpen, ui, quit, phase, searched, todo, job, at, pulled, decomp,
                     keys, joined>>
  BY DEF PullUiInv, Drain, UiKeeps, pullVars
<1>1. /\ Len(chan) \in Nat \ {0} /\ DOMAIN chan = 1 .. Len(chan)
      /\ chan' \in Seq(Evt) /\ DOMAIN chan' = 1 .. Len(chan) - 1 /\ Len(chan') = Len(chan) - 1
      /\ Head(chan) = chan[1] /\ chan[1] \in Evt
      /\ \A i \in 1 .. Len(chan) - 1 : chan'[i] = chan[i + 1]
  BY <1>0 DEF ChanTypes
<1>2. PICK e \in Evt : e = Head(chan)
  BY <1>1
<1>3. ChanTypes'
  BY <1>0, <1>1, PullUiAssumption DEF ChanTypes
<1>4. /\ \A i \in DOMAIN chan' : i + 1 \in DOMAIN chan /\ chan'[i] = chan[i + 1] /\ i \in Int
      /\ \A i \in DOMAIN chan : i \in Int /\ (i = 1 \/ i - 1 \in DOMAIN chan')
      /\ 1 \in DOMAIN chan
  BY <1>1
<1>5. Named'
  BY <1>0, <1>4 DEF Named
<1>6. e.kind # "other" => e.path \in Paths
  BY <1>0, <1>1, <1>2, <1>4 DEF Named
<1>7. e.block \in Blocks /\ e.kind \in {"begin", "failed", "succeeded", "other"} /\ e = chan[1]
  BY <1>1, <1>2 DEF Evt, Kinds
<1>8. /\ focus' = focus /\ selIdx' \in Nat
      /\ e.kind = "other" => list' = list
      /\ e.kind = "begin" =>
           list' = [list EXCEPT ![e.block] =
                      Append(list[e.block], [item |-> e.path, status |-> "in_progress"])]
      /\ e.kind \in {"failed", "succeeded"} =>
           list' = [list EXCEPT ![e.block] = Updated(list[e.block], e.path, e.kind)]
  BY <1>0, <1>2, OnEventIs
<1>9. list \in [Blocks -> Seq(Entry)] /\ list[e.block] \in Seq(Entry) /\ Sorted(list[e.block])
  BY <1>0, <1>7 DEF AppletTypes, Lists
<1>10. /\ list' \in [Blocks -> Seq(Entry)]
       /\ Sorted(list'[e.block])
       /\ \A b \in Blocks \ {e.block} : list'[b] = list[b]
       /\ \A q \in Paths, t \in Statuses :
            FirstSays(list[e.block], q, t) /\ (e.kind \in {"failed", "succeeded"} => q # e.path)
              => FirstSays(list'[e.block], q, t)
       /\ e.kind \in {"failed", "succeeded"} => FirstSays(list'[e.block], e.path, e.kind)
  <2>1. CASE e.kind = "other"
    BY <1>8, <1>9, <2>1
  <2>2. CASE e.kind = "begin"
    <3>0. PICK m : m = Append(list[e.block], [item |-> e.path, status |-> "in_progress"])
      OBVIOUS
    <3>1. /\ m \in Seq(Entry) /\ Sorted(m)
          /\ \A q \in Paths, t \in Statuses :
               FirstSays(list[e.block], q, t) => FirstSays(m, q, t)
      <4>1. PICK b \in Entry : b = [item |-> e.path, status |-> "in_progress"]
        BY <1>6, <2>2 DEF Entry, Statuses
      <4>2. PICK l \in Seq(Entry) : l = list[e.block]
        BY <1>9
      <4>3. Busy(b) /\ Sorted(l) /\ m = Append(l, b)
        BY <1>9, <3>0, <4>1, <4>2 DEF Busy
      <4>4. /\ m \in Seq(Entry) /\ Sorted(m)
            /\ \A q \in Paths, t \in Statuses : FirstSays(l, q, t) => FirstSays(m, q, t)
        BY <4>3, BegunSays
      <4> QED
        BY <4>2, <4>4
    <3>2. list' = [list EXCEPT ![e.block] = m]
      BY <1>8, <2>2, <3>0
    <3> QED
      BY <1>7, <1>9, <2>2, <3>1, <3>2
  <2>3. CASE e.kind \in {"failed", "succeeded"}
    <3> DEFINE m == Updated(list[e.block], e.path, e.kind)
    <3>1. /\ m \in Seq(Entry) /\ Sorted(m) /\ FirstSays(m, e.path, e.kind)
          /\ \A q \in Paths \ {e.path}, t \in Statuses :
               FirstSays(list[e.block], q, t) => FirstSays(m, q, t)
      BY <1>6, <1>9, <2>3, UpdatedSays
    <3>2. list' = [list EXCEPT ![e.block] = m]
      BY <1>8, <2>3
    <3> HIDE DEF m
    <3> QED
      BY <1>7, <1>9, <2>3, <3>1, <3>2
  <2> QED
    BY <1>7, <2>1, <2>2, <2>3
<1>11. Lists'
  BY <1>0, <1>10 DEF Lists
<1>12. AppletTypes'
  BY <1>0, <1>8, <1>10 DEF AppletTypes
<1>13. PullTypes' /\ Jobs' /\ Open'
  BY <1>0 DEF PullTypes, Jobs, Open
<1>14. ASSUME NEW b \in Blocks, NEW p \in Paths
       PROVE  /\ \A i \in EndsOf(b, p)' :
                   (\A j \in EndsOf(b, p)' : j <= i) => chan'[i].kind = Result(b, p)
              /\ EndsOf(b, p)' = {} /\ Result(b, p) # None
                   => FirstSays(list'[b], p, Result(b, p))
  <2>1. /\ \A i \in EndsOf(b, p) :
             (\A j \in EndsOf(b, p) : j <= i) => chan[i].kind = Result(b, p)
        /\ EndsOf(b, p) = {} /\ Result(b, p) # None => FirstSays(list[b], p, Result(b, p))
    BY <1>0 DEF Told, Open
  <2>2. /\ \A i \in EndsOf(b, p)' : i \in DOMAIN chan' /\ i + 1 \in EndsOf(b, p)
        /\ \A i \in EndsOf(b, p) : i \in Int /\ (i = 1 \/ i - 1 \in EndsOf(b, p)')
    BY <1>4 DEF EndsOf
  <2>3. ASSUME NEW i \in EndsOf(b, p)', \A j \in EndsOf(b, p)' : j <= i
        PROVE  chan'[i].kind = Result(b, p)
    <3>1. i \in 1 .. Len(chan) - 1
      BY <1>1, <2>2
    <3>2. \A j \in EndsOf(b, p) : j <= i + 1
      <4> SUFFICES ASSUME NEW j \in EndsOf(b, p)
                   PROVE  j <= i + 1
        OBVIOUS
      <4>1. CASE j = 1
        BY <1>1, <3>1, <4>1
      <4>2. CASE j - 1 \in EndsOf(b, p)'
        <5>1. j - 1 <= i /\ j \in Int
          BY <2>2, <2>3, <4>2
        <5> QED
          BY <1>1, <3>1, <5>1
      <4> QED
        BY <2>2, <4>1, <4>2
    <3> QED
      BY <1>1, <2>1, <2>2, <3>1, <3>2
  <2>4. ASSUME EndsOf(b, p)' = {}, Result(b, p) # None
        PROVE  FirstSays(list'[b], p, Result(b, p))
    <3>1. Result(b, p) \in {"failed", "succeeded"} /\ Result(b, p) \in Statuses
      BY <1>0, <2>4 DEF PullTypes, Result, Statuses
    <3>2. CASE 1 \in EndsOf(b, p)
      <4>1. \A j \in EndsOf(b, p) : j = 1
        BY <2>2, <2>4
      <4>2. \A j \in EndsOf(b, p) : j <= 1
        BY <4>1
      <4>3. chan[1].kind = Result(b, p) /\ e.block = b /\ e.path = p
            /\ e.kind \in {"failed", "succeeded"}
        BY <1>7, <2>1, <3>2, <4>2 DEF EndsOf
      <4> QED
        BY <1>7, <1>10, <4>3
    <3>3. CASE 1 \notin EndsOf(b, p)
      <4>1. EndsOf(b, p) = {}
        BY <2>2, <2>4, <3>3
      <4>2. FirstSays(list[b], p, Result(b, p))
        BY <2>1, <2>4, <4>1
      <4>3. ~(e.block = b /\ e.path = p /\ e.kind \in {"failed", "succeeded"})
        BY <1>4, <1>7, <3>3 DEF EndsOf
      <4> QED
        BY <1>10, <3>1, <4>2, <4>3
    <3> QED
      BY <3>2, <3>3
  <2> QED
    BY <2>3, <2>4
<1>15. Told'
  <2>1. \A b, p : Result(b, p)' = Result(b, p)
    BY <1>0 DEF Result
  <2> QED
    BY <1>0, <1>14, <2>1 DEF Told, Open
<1> QED
  BY <1>3, <1>5, <1>11, <1>12, <1>13, <1>15 DEF PullUiInv

-------------------------------------------------------------------------------
(* The other steps.                                                        *)

(* The interface's steps that take no event.                               *)
LEMMA LoopInv ==
  ASSUME PullUiInv, AppletTypes', Open',
         UNCHANGED <<phase, searched, todo, job, at, pulled, decomp, list>>,
         (rxOpen' = rxOpen /\ chan' = chan) \/ (~rxOpen' /\ chan' = <<>>)
  PROVE  PullUiInv'
<1>1. PullTypes' /\ Jobs' /\ Lists'
  BY DEF PullUiInv, PullTypes, Jobs, Lists
<1>2. CASE rxOpen' = rxOpen /\ chan' = chan
  <2>1. ChanTypes' /\ Named' /\ Told'
    BY <1>2, StillTold DEF PullUiInv, ChanTypes, Named
  <2> QED
    BY <1>1, <2>1 DEF PullUiInv
<1>3. CASE ~rxOpen' /\ chan' = <<>>
  <2>1. ChanTypes' /\ Named' /\ Told'
    BY <1>3, PullUiAssumption DEF ChanTypes, Named, Told
  <2> QED
    BY <1>1, <2>1 DEF PullUiInv
<1> QED
  BY <1>2, <1>3

LEMMA UiInv ==
  ASSUME PullUiInv, Key \/ TerminalFails \/ NoKey \/ Drained \/ ExitNow \/ Check \/ Unwound
  PROVE  PullUiInv'
<1>0. AppletTypes /\ Open
  BY DEF PullUiInv
<1>1. CASE NoKey \/ Drained \/ ExitNow \/ Unwound
  <2>1. AppletTypes' /\ Open'
    BY <1>0, <1>1 DEF AppletTypes, Open, NoKey, Drained, ExitNow, Unwound, UiKeeps, Ended
  <2> QED
    BY <1>1, <2>1, LoopInv DEF NoKey, Drained, ExitNow, Unwound, UiKeeps, pullVars
<1>2. CASE Unwind /\ UNCHANGED pullVars /\ UNCHANGED joined /\ keys' \in 0 .. MaxKeys
  <2>1. AppletTypes' /\ Open'
    BY <1>0, <1>2 DEF AppletTypes, Open, Unwind
  <2> QED
    BY <1>2, <2>1, LoopInv DEF Unwind, pullVars
<1>3. CASE Check
  <2>1. /\ cancelled' \in BOOLEAN /\ joined' \in BOOLEAN /\ ui = "check"
        /\ UNCHANGED <<quit, list, focus, selIdx, keys>> /\ UNCHANGED pullVars
    BY <1>0, <1>3 DEF AppletTypes, Check, Leaves
  <2>2. CASE ui' = "key" /\ UNCHANGED <<chan, rxOpen>>
    <3>1. AppletTypes'
      BY <1>0, <2>1, <2>2 DEF AppletTypes
    <3>2. Open'
      BY <1>0, <2>1, <2>2 DEF Open
    <3> QED
      BY <2>1, <2>2, <3>1, <3>2, LoopInv DEF pullVars
  <2>3. CASE Leaves
    <3>1. AppletTypes'
      BY <1>0, <2>1, <2>3 DEF AppletTypes, Leaves, Ended
    <3>2. Open'
      BY <2>3 DEF Open, Leaves
    <3> QED
      BY <2>1, <2>3, <3>1, <3>2, LoopInv DEF pullVars, Leaves
  <2> QED
    BY <1>3, <2>2, <2>3 DEF Check
<1>4. ASSUME Key
      PROVE  keys' \in 0 .. MaxKeys
  <2>1. keys \in 0 .. MaxKeys /\ keys < MaxKeys /\ keys' = keys + 1 /\ MaxKeys \in Nat
    BY <1>0, <1>4, PullUiAssumption DEF AppletTypes, Key
  <2> QED
    BY <2>1
<1>5. CASE Key /\ ~Unwind
  <2>1. selIdx' \in Nat
    <3>1. selIdx \in Nat
      BY <1>0 DEF AppletTypes
    <3>2. selIdx' \in {0, selIdx, selIdx - 1, selIdx + 1} /\ (selIdx = 0 => selIdx' # selIdx - 1)
      BY <1>5, <3>1 DEF Key, Focus, QuitBy, Escape, Top, Dec, Inc, shown
    <3> QED
      BY <3>1, <3>2
  <2>2. /\ focus' \in Blocks /\ quit' \in {"none", "wait", "immediate"}
        /\ UNCHANGED <<list, cancelled, chan, rxOpen, joined>> /\ ui' \in {"tick", "check"}
        /\ UNCHANGED pullVars /\ ui = "key"
    BY <1>0, <1>5 DEF AppletTypes, Blocks, Key, Focus, QuitBy, Escape, Top, Dec, Inc, shown
  <2>3. AppletTypes' /\ Open'
    BY <1>0, <1>4, <1>5, <2>1, <2>2 DEF AppletTypes, Open
  <2> QED
    BY <2>2, <2>3, LoopInv DEF pullVars
<1> QED
  BY <1>0, <1>1, <1>2, <1>3, <1>4, <1>5 DEF Key, TerminalFails, UiKeeps, AppletTypes

(* The pull's steps, which leave the applet alone.                         *)
LEMMA PullInv ==
  ASSUME PullUiInv, PullTypes', Jobs', ChanTypes', Named', Told',
         UNCHANGED <<cancelled, rxOpen, ui, quit, joined, list, focus, selIdx, keys>>
  PROVE  PullUiInv'
BY DEF PullUiInv, AppletTypes, Open, Lists

LEMMA QuietInv ==
  ASSUME PullUiInv, PullTypes', Jobs', UNCHANGED <<chan, pulled, decomp>>,
         UNCHANGED <<cancelled, rxOpen, ui, quit, joined, list, focus, selIdx, keys>>
  PROVE  PullUiInv'
<1>1. ChanTypes' /\ Named' /\ Told'
  BY StillTold DEF PullUiInv, ChanTypes, Named
<1> QED
  BY <1>1, PullInv

LEMMA SearchInv ==
  ASSUME PullUiInv, Search \/ EndPhase
  PROVE  PullUiInv'
<1>0. PullTypes /\ ChanTypes /\ Jobs /\ Named /\ Told
  BY DEF PullUiInv
<1>1. CASE Search
  <2>1. Other \in Evt /\ Other.kind = "other"
    BY DEF Other, Evt, Blocks, Kinds
  <2>2. ChanTypes' /\ Named' /\ Told'
    BY <1>0, <1>1, <2>1, SentInv DEF Search, Result
  <2>3. todo' \subseteq Paths
    BY <1>1 DEF Search, Paths
  <2>4. PullTypes' /\ Jobs'
    BY <1>0, <1>1, <2>3 DEF PullTypes, Jobs, Search
  <2> QED
    BY <1>1, <2>2, <2>4, PullInv DEF Search
<1>2. CASE EndPhase
  <2>1. PullTypes' /\ Jobs'
    BY <1>0, <1>2 DEF PullTypes, Jobs, EndPhase
  <2> QED
    BY <1>2, <2>1, QuietInv DEF EndPhase
<1> QED
  BY <1>1, <1>2

(* An event of a worker about its path.                                    *)
LEMMA EventIs ==
  ASSUME NEW b \in Blocks, NEW k \in {"begin", "failed", "succeeded"}, NEW p \in Paths
  PROVE  LET e == [block |-> b, kind |-> k, path |-> p]
         IN e \in Evt /\ e.block = b /\ e.kind = k /\ e.path = p
BY DEF Evt, Kinds

LEMMA TakeStepInv ==
  ASSUME PullUiInv, NEW w \in Workers, Take(w) \/ EndSilently(w)
  PROVE  PullUiInv'
<1>0. PullTypes /\ Jobs
  BY DEF PullUiInv
<1>1. CASE Take(w)
  <2>1. PICK p \in todo :
          /\ todo' = todo \ {p} /\ job' = [job EXCEPT ![w] = p]
          /\ at' = [at EXCEPT ![w] = IF pulled[p] = "succeeded" THEN "decompile" ELSE "pull"]
    BY <1>1 DEF Take
  <2>2. p \in Paths
    BY <1>0 DEF PullTypes
  <2>3. PullTypes' /\ Jobs'
    BY <1>0, <1>1, <2>1, <2>2 DEF PullTypes, Jobs, Take, WorkerKeeps
  <2> QED
    BY <1>1, <2>3, QuietInv DEF Take, WorkerKeeps
<1>2. CASE EndSilently(w)
  <2>1. PullTypes' /\ Jobs'
    BY <1>0, <1>2 DEF PullTypes, Jobs, EndSilently, WorkerKeeps, Rest
  <2> QED
    BY <1>2, <2>1, QuietInv DEF EndSilently, WorkerKeeps
<1> QED
  BY <1>1, <1>2

LEMMA BeginInv ==
  ASSUME PullUiInv, NEW w \in Workers, BeginPull(w) \/ BeginDecompile(w)
  PROVE  PullUiInv'
<1>0. PullTypes /\ ChanTypes /\ Jobs /\ Named /\ Told
  BY DEF PullUiInv
<1>1. PICK b \in Blocks :
        /\ Send([block |-> b, kind |-> "begin", path |-> job[w]])
        /\ at' = [at EXCEPT ![w] = IF b = "pull" THEN "pulling" ELSE "decompiling"]
        /\ at[w] # "idle" /\ UNCHANGED <<todo, job, pulled, decomp>> /\ WorkerKeeps
  BY DEF BeginPull, BeginDecompile, Blocks
<1>2. job[w] \in Paths
  BY <1>0, <1>1 DEF Jobs
<1>3. PICK e \in Evt : Send(e) /\ e.kind = "begin" /\ e.path \in Paths
  BY <1>1, <1>2, EventIs
<1>4. ChanTypes' /\ Named' /\ Told'
  BY <1>0, <1>1, <1>3, SentInv DEF Result, WorkerKeeps
<1>5. PullTypes' /\ Jobs'
  BY <1>0, <1>1, <1>2 DEF PullTypes, Jobs, WorkerKeeps
<1> QED
  BY <1>1, <1>4, <1>5, PullInv DEF WorkerKeeps

LEMMA EndPullInv ==
  ASSUME PullUiInv, NEW w \in Workers, NEW r \in {"failed", "succeeded"}, EndPull(w, r)
  PROVE  PullUiInv'
<1>0. /\ PullTypes /\ ChanTypes /\ Jobs /\ Named /\ Told
      /\ Send([block |-> "pull", kind |-> r, path |-> job[w]])
      /\ pulled' = [pulled EXCEPT ![job[w]] = r] /\ UNCHANGED <<todo, decomp>> /\ WorkerKeeps
  BY DEF PullUiInv, EndPull
<1>1. job[w] \in Paths
  BY <1>0 DEF Jobs, EndPull
<1>2. PICK e \in Evt : Send(e) /\ e.block = "pull" /\ e.kind = r /\ e.path = job[w]
  BY <1>0, <1>1, EventIs DEF Blocks
<1>3. /\ pulled' \in [Paths -> {None, "failed", "succeeded"}] /\ pulled'[job[w]] = r
      /\ \A p \in Paths \ {job[w]} : pulled'[p] = pulled[p]
  BY <1>0, <1>1 DEF PullTypes
<1>4. ChanTypes' /\ Named' /\ Told'
  BY <1>0, <1>1, <1>2, <1>3, SentInv DEF Result, WorkerKeeps
<1>5. PullTypes' /\ Jobs'
  <2>1. /\ job' \in [Workers -> Paths \cup {None}]
        /\ at' \in [Workers -> {"idle", "pull", "pulling", "decompile", "decompiling"}]
        /\ \A v \in Workers : at'[v] # "idle" => at[v] # "idle" /\ job'[v] = job[v]
    <3>1. CASE r = "succeeded"
      BY <1>0, <3>1 DEF PullTypes, EndPull
    <3>2. CASE r # "succeeded"
      BY <1>0, <3>2 DEF PullTypes, EndPull, Rest
    <3> QED
      BY <3>1, <3>2
  <2> QED
    BY <1>0, <1>3, <2>1 DEF PullTypes, Jobs, WorkerKeeps
<1> QED
  BY <1>0, <1>4, <1>5, PullInv DEF WorkerKeeps

LEMMA EndDecompileInv ==
  ASSUME PullUiInv, NEW w \in Workers, NEW r \in {"failed", "succeeded"}, EndDecompile(w, r)
  PROVE  PullUiInv'
<1>0. /\ PullTypes /\ ChanTypes /\ Jobs /\ Named /\ Told
      /\ Send([block |-> "decompile", kind |-> r, path |-> job[w]])
      /\ decomp' = [decomp EXCEPT ![job[w]] = r] /\ UNCHANGED <<todo, pulled>>
      /\ Rest(w) /\ WorkerKeeps
  BY DEF PullUiInv, EndDecompile
<1>1. job[w] \in Paths
  BY <1>0 DEF Jobs, EndDecompile
<1>2. PICK e \in Evt : Send(e) /\ e.block = "decompile" /\ e.kind = r /\ e.path = job[w]
  BY <1>0, <1>1, EventIs DEF Blocks
<1>3. /\ decomp' \in [Paths -> {None, "failed", "succeeded"}] /\ decomp'[job[w]] = r
      /\ \A p \in Paths \ {job[w]} : decomp'[p] = decomp[p]
  BY <1>0, <1>1 DEF PullTypes
<1>4. ChanTypes' /\ Named' /\ Told'
  <2>1. \A b \in Blocks, p \in Paths :
          IF e.block = b /\ e.path = p /\ e.kind \in {"failed", "succeeded"}
          THEN Result(b, p)' = e.kind
          ELSE Result(b, p)' = Result(b, p)
    BY <1>0, <1>2, <1>3 DEF Result, Blocks
  <2> QED
    BY <1>0, <1>1, <1>2, <2>1, SentInv DEF WorkerKeeps
<1>5. PullTypes' /\ Jobs'
  <2>1. /\ job' \in [Workers -> Paths \cup {None}]
        /\ at' \in [Workers -> {"idle", "pull", "pulling", "decompile", "decompiling"}]
        /\ \A v \in Workers : at'[v] # "idle" => at[v] # "idle" /\ job'[v] = job[v]
    BY <1>0 DEF PullTypes, Rest
  <2> QED
    BY <1>0, <1>3, <2>1 DEF PullTypes, Jobs, WorkerKeeps
<1> QED
  BY <1>0, <1>4, <1>5, PullInv DEF WorkerKeeps

LEMMA PullUiInitInv == PullUiInit => PullUiInv
<1> SUFFICES ASSUME PullUiInit
             PROVE  PullUiInv
  OBVIOUS
<1>1. PullTypes
  BY DEF PullUiInit, PullTypes
<1>2. ChanTypes /\ Named
  BY PullUiAssumption DEF PullUiInit, ChanTypes, Named
<1>3. AppletTypes
  <2>1. keys \in 0 .. MaxKeys /\ selIdx \in Nat
    BY PullUiAssumption DEF PullUiInit
  <2>2. list \in [Blocks -> Seq(Entry)]
    BY DEF PullUiInit
  <2> QED
    BY <2>1, <2>2 DEF PullUiInit, AppletTypes, Blocks
<1>4. Jobs /\ Open /\ Lists
  BY DEF PullUiInit, Jobs, Open, Lists, Sorted
<1>5. Told
  <2>1. \A b \in Blocks, p \in Paths : EndsOf(b, p) = {} /\ Result(b, p) = None
    BY DEF PullUiInit, EndsOf, Result
  <2> QED
    BY <2>1 DEF Told
<1> QED
  BY <1>1, <1>2, <1>3, <1>4, <1>5 DEF PullUiInv

LEMMA PullUiStepInv ==
  ASSUME PullUiInv, [PullUiNext]_pullUiVars
  PROVE  PullUiInv'
<1>1. ASSUME NEW w \in Workers, WorkerStep(w)
      PROVE  PullUiInv'
  BY <1>1, TakeStepInv, BeginInv, EndPullInv, EndDecompileInv DEF WorkerStep
<1>2. CASE UNCHANGED pullUiVars
  <2>1. AppletTypes' /\ Open'
    BY <1>2 DEF PullUiInv, AppletTypes, Open, pullUiVars
  <2> QED
    BY <1>2, <2>1, LoopInv DEF pullUiVars
<1> QED
  BY <1>1, <1>2, SearchInv, UiInv, DrainInv DEF PullUiNext, UiStep, Terminated

LEMMA PullUiInvariant == PullUiSpec => []PullUiInv
BY PullUiInitInv, PullUiStepInv, PTL DEF PullUiSpec

(* Every state of the interface of a pull is well typed, for any files,    *)
(* workers, capacity of the channel and number of keys: there are never    *)
(* more events than the channel holds.                                     *)
THEOREM PullUiTyping == PullUiSpec => []PullUiTypes
<1>1. PullUiInv => PullUiTypes
  BY PullTypeParts DEF PullUiInv
<1> QED
  BY <1>1, PullUiInvariant, PTL

(* What is in progress stays at the end of both lists, whatever order the  *)
(* workers' events come in.                                                *)
THEOREM ProgressLast == PullUiSpec => []InProgressLast
<1>1. PullUiInv => InProgressLast
  BY DEF PullUiInv, Lists, Sorted, Busy, InProgressLast
<1> QED
  BY <1>1, PullUiInvariant, PTL

(* Once its events are taken, the first entry of a path says how the last  *)
(* attempt at it ended, in both lists, for any number of attempts by any   *)
(* workers.                                                                *)
THEOREM OutcomesTold == PullUiSpec => []OutcomeShown
<1>1. ASSUME PullUiInv, ui \in {"key", "tick", "check"}, chan = <<>>,
             NEW b \in Blocks, NEW p \in Paths, Result(b, p) # None
      PROVE  FirstSays(list[b], p, Result(b, p))
  <2>1. EndsOf(b, p) = {}
    BY <1>1 DEF EndsOf
  <2> QED
    BY <1>1, <2>1 DEF PullUiInv, Told, Open
<1>2. PullUiInv => OutcomeShown
  <2> SUFFICES ASSUME PullUiInv, ui \in {"key", "tick", "check"}, chan = <<>>,
                      NEW b \in Blocks, NEW p \in Paths, Result(b, p) # None
               PROVE  \E i \in {i \in DOMAIN list[b] : list[b][i].item = p} :
                        /\ list[b][i].status = Result(b, p)
                        /\ \A j \in {k \in DOMAIN list[b] : list[b][k].item = p} : i <= j
    BY DEF OutcomeShown, Result
  <2>1. FirstSays(list[b], p, Result(b, p))
    BY <1>1
  <2> QED
    BY <2>1 DEF FirstSays
<1> QED
  BY <1>2, PullUiInvariant, PTL

===============================================================================
