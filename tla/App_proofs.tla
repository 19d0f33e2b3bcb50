------------------------------- MODULE App_proofs -------------------------------
(***************************************************************************)
(* Proofs about the test application.  First its project (AppProject), for *)
(* every set of requests, ids, permissions and services, and any number of *)
(* commands and faults; then its server and the server's client            *)
(* (AppServer), for every set of requests and services, and any number of  *)
(* kills.                                                                  *)
(***************************************************************************)
EXTENDS AppProject, AppServer, SequenceTheorems, TLAPS

-------------------------------------------------------------------------------
(* The operations of the commands.                                         *)

LEMMA TailIs ==
  ASSUME NEW S, NEW s \in Seq(S), s # <<>>
  PROVE  /\ Len(s) \in Nat /\ Len(s) >= 1 /\ DOMAIN s = 1 .. Len(s) /\ Head(s) = s[1]
         /\ Tail(s) \in Seq(S) /\ DOMAIN Tail(s) = 1 .. Len(s) - 1
         /\ Len(Tail(s)) = Len(s) - 1
         /\ \A i \in 1 .. Len(s) - 1 : Tail(s)[i] = s[i + 1]
BY HeadTailProperties

LEMMA Joined ==
  ASSUME NEW S, NEW s \in Seq(S), NEW t \in Seq(S), NEW u, u = s \o t
  PROVE  /\ u \in Seq(S) /\ Len(u) = Len(s) + Len(t)
         /\ \A i \in 1 .. Len(s) : u[i] = s[i]
         /\ \A i \in 1 .. Len(t) : u[Len(s) + i] = t[i]
OBVIOUS

LEMMA JoinedPair ==
  ASSUME NEW S, NEW a \in S, NEW b \in S, NEW s \in Seq(S), NEW u, u = <<a, b>> \o s
  PROVE  /\ u \in Seq(S) /\ Len(u) = 2 + Len(s) /\ u[1] = a /\ u[2] = b
         /\ \A i \in 1 .. Len(s) : u[2 + i] = s[i]
OBVIOUS

LEMMA JoinedFirst ==
  ASSUME NEW S, NEW a \in S, NEW s \in Seq(S), NEW u, u = <<a>> \o s
  PROVE  /\ u \in Seq(S) /\ Len(u) = 1 + Len(s) /\ u[1] = a
         /\ \A i \in 1 .. Len(s) : u[1 + i] = s[i]
OBVIOUS

LEMMA JoinedLast ==
  ASSUME NEW S, NEW a \in S, NEW s \in Seq(S), NEW u, u = s \o <<a>>
  PROVE  /\ u \in Seq(S) /\ Len(u) = Len(s) + 1 /\ u[Len(u)] = a
         /\ \A i \in 1 .. Len(s) : u[i] = s[i]
OBVIOUS

LEMMA FunctionIsSeq ==
  ASSUME NEW S, NEW n \in Nat, NEW f \in [1 .. n -> S]
  PROVE  f \in Seq(S) /\ Len(f) = n
<1>1. f \in Seq(S)
  BY SeqDef
<1>2. DOMAIN f = 1 .. Len(f) /\ Len(f) \in Nat
  BY <1>1, LenProperties
<1> QED
  BY <1>1, <1>2

LEMMA FilesAre ==
  /\ Lists = {<<"layout", "exp">>, <<"layout", "fail">>, <<"layout", "conf">>,
              <<"code", "exp">>, <<"code", "fail">>, <<"code", "conf">>}
  /\ Config = <<"config">> /\ Manifest = <<"manifest">> /\ AppBuild = <<"build">>
  /\ AppBuild # Config /\ AppBuild # Manifest /\ Config # Manifest
  /\ \A f \in Lists : f # AppBuild /\ f # Config /\ f # Manifest
  /\ Generated = Lists \cup {Config, Manifest, AppBuild}
<1>1. Lists = {<<"layout", "exp">>, <<"layout", "fail">>, <<"layout", "conf">>,
               <<"code", "exp">>, <<"code", "fail">>, <<"code", "conf">>}
  BY DEF Lists, ListFile, Statuses
<1>2. \A f \in Lists : f[1] \in {"layout", "code"}
  BY <1>1
<1>3. Config[1] = "config" /\ Manifest[1] = "manifest" /\ AppBuild[1] = "build"
  BY DEF Config, Manifest, AppBuild
<1> QED
  BY <1>1, <1>2, <1>3 DEF Config, Manifest, AppBuild, Generated

LEMMA BaseActivitiesAre ==
  /\ BaseActivities \in Seq(Lists) /\ Len(BaseActivities) = 6
  /\ \A f \in Lists : \E i \in 1 .. 6 : BaseActivities[i] = f
<1>1. BaseActivities = <<<<"layout", "exp">>, <<"code", "exp">>, <<"layout", "conf">>,
                         <<"code", "conf">>, <<"layout", "fail">>, <<"code", "fail">>>>
  BY DEF BaseActivities, ListFile
<1>2. BaseActivities \in Seq(Lists) /\ Len(BaseActivities) = 6
  BY <1>1, FilesAre
<1>3. \A f \in Lists : \E i \in 1 .. 6 : BaseActivities[i] = f
  BY <1>1, FilesAre
<1> QED
  BY <1>2, <1>3

LEMMA OperationsAre ==
  /\ \A name \in {"wipe", "clear", "perms", "done", "gradle"} : Op(name) \in Operation
  /\ \A f \in Generated : Write(f) \in Operation /\ Empty(f) \in Operation
  /\ \A f \in Fixed : Fix(f) \in Operation
  /\ \A name \in {"template", "insert", "delete", "unlink"}, t \in Tests :
       Of(name, t) \in Operation
  /\ \A t \in Tests, s \in Statuses :
       [op |-> "status", test |-> t, status |-> s] \in Operation
  /\ \A id \in Ids : SetId(id) \in Operation
<1>1. \A name \in {"wipe", "clear", "perms", "done", "gradle"} : Op(name) \in Operation
  BY DEF Op, Operation
<1>2. \A f \in Generated : Write(f) \in Operation /\ Empty(f) \in Operation
  BY DEF Write, Empty, Operation
<1>3. \A f \in Fixed : Fix(f) \in Operation
  BY DEF Fix, Operation
<1>4. \A name \in {"template", "insert", "delete", "unlink"}, t \in Tests :
        Of(name, t) \in Operation
  BY DEF Of, Operation
<1>5. \A t \in Tests, s \in Statuses :
        [op |-> "status", test |-> t, status |-> s] \in Operation
  BY DEF Operation
<1>6. \A id \in Ids : SetId(id) \in Operation
  BY DEF SetId, Operation
<1> QED
  BY <1>1, <1>2, <1>3, <1>4, <1>5, <1>6

(* update() writes every file that depends on the tests and permissions,   *)
(* and nothing else.                                                       *)
Kept == {Config, Manifest} \cup Lists

LEMMA UpdateIs ==
  /\ Update \in Seq(Operation) /\ Len(Update) = 8
  /\ \A i \in 1 .. 8 : \E f \in Kept : Update[i] = Write(f)
  /\ \A f \in Kept : \E i \in 1 .. 8 : Update[i] = Write(f)
<1> DEFINE names == <<Config, Manifest>> \o BaseActivities
<1>1. names \in Seq(Kept) /\ Len(names) = 8
      /\ names[1] = Config /\ names[2] = Manifest
      /\ \A i \in 1 .. 6 : names[2 + i] = BaseActivities[i]
  <2> DEFINE first == <<Config, Manifest>>
  <2>1. first \in Seq(Kept) /\ BaseActivities \in Seq(Kept)
    BY BaseActivitiesAre DEF Kept
  <2>2. Len(first) = 2 /\ first[1] = Config /\ first[2] = Manifest
    OBVIOUS
  <2>3. names = first \o BaseActivities
    OBVIOUS
  <2> HIDE DEF first, names
  <2>4. /\ names \in Seq(Kept) /\ Len(names) = Len(first) + Len(BaseActivities)
        /\ \A i \in 1 .. Len(first) : names[i] = first[i]
        /\ \A i \in 1 .. Len(BaseActivities) : names[Len(first) + i] = BaseActivities[i]
    BY <2>1, <2>3, Joined
  <2> QED
    BY <2>2, <2>4, BaseActivitiesAre
<1>2. Update = [i \in 1 .. 8 |-> Write(names[i])]
  BY <1>1 DEF Update, Each
<1>3. DOMAIN Update = 1 .. 8 /\ \A i \in 1 .. 8 : Update[i] = Write(names[i])
  BY <1>2
<1>4. \A i \in 1 .. 8 : names[i] \in Kept
  BY <1>1, ElementOfSeq
<1>5. \A f \in Kept : \E i \in 1 .. 8 : names[i] = f
  <2> SUFFICES ASSUME NEW f \in Kept PROVE \E i \in 1 .. 8 : names[i] = f
    OBVIOUS
  <2>1. CASE f \in {Config, Manifest}
    BY <1>1, <2>1
  <2>2. CASE f \in Lists
    <3>1. PICK k \in 1 .. 6 : BaseActivities[k] = f
      BY <2>2, BaseActivitiesAre
    <3>2. 2 + k \in 1 .. 8 /\ names[2 + k] = f
      BY <1>1, <3>1
    <3> QED
      BY <3>2
  <2> QED
    BY <2>1, <2>2 DEF Kept
<1> HIDE DEF names
<1>6. \A f \in Kept : f \in Generated
  BY FilesAre DEF Kept
<1>7. Update \in [1 .. 8 -> Operation]
  BY <1>2, <1>4, <1>6, OperationsAre
<1>8. Update \in Seq(Operation) /\ Len(Update) = 8
  BY <1>7, FunctionIsSeq
<1> QED
  BY <1>3, <1>4, <1>5, <1>8

(* setup() writes the application id into the build after it was set.      *)
IsTemplate(o) ==
  \/ \E f \in Fixed : o = Fix(f)
  \/ \E f \in Generated : o = Write(f)
  \/ \E f \in Generated \ {AppBuild} : o = Empty(f)

LEMMA TemplatesAre ==
  /\ Templates \in Seq(Operation) /\ Len(Templates) = 16
  /\ Templates[3] = Write(AppBuild)
  /\ \A i \in 1 .. 16 : IsTemplate(Templates[i])
<1> DEFINE T == {o \in Operation : IsTemplate(o)}
           first == <<Fix("settings"), Write(Config), Write(AppBuild), Fix("rootBuild"), Empty(Manifest)>>
           second == Each(BaseActivities, Empty)
           names == <<"sources", "gitignore", "metadata", "mainManifest", "properties">>
           third == Each(names, Fix)
<1>1. /\ \A f \in Fixed : Fix(f) \in T
      /\ \A f \in Generated : Write(f) \in T
      /\ \A f \in Generated \ {AppBuild} : Empty(f) \in T
  BY OperationsAre DEF IsTemplate
<1>2. "settings" \in Fixed /\ "rootBuild" \in Fixed
  BY DEF Fixed
<1>3. Config \in Generated /\ AppBuild \in Generated /\ Manifest \in Generated \ {AppBuild}
      /\ Lists \subseteq Generated \ {AppBuild}
  BY FilesAre
<1> HIDE DEF T
<1>4. first \in Seq(T) /\ Len(first) = 5 /\ first[3] = Write(AppBuild)
  BY <1>1, <1>2, <1>3
<1>5. second \in Seq(T) /\ Len(second) = 6
  <2>1. second = [i \in 1 .. 6 |-> Empty(BaseActivities[i])]
    BY BaseActivitiesAre DEF Each
  <2>2. \A i \in 1 .. 6 : BaseActivities[i] \in Lists
    BY BaseActivitiesAre, ElementOfSeq
  <2>3. second \in [1 .. 6 -> T]
    BY <1>1, <1>3, <2>1, <2>2
  <2> QED
    BY <2>3, FunctionIsSeq
<1>6. third \in Seq(T) /\ Len(third) = 5
  <2>1. DOMAIN names = 1 .. 5 /\ \A i \in 1 .. 5 : names[i] \in Fixed
    BY DEF Fixed
  <2>2. third = [i \in 1 .. 5 |-> Fix(names[i])]
    BY <2>1 DEF Each
  <2>3. third \in [1 .. 5 -> T]
    BY <1>1, <2>1, <2>2
  <2> QED
    BY <2>3, FunctionIsSeq
<1> DEFINE most == first \o second
<1>7. Templates = most \o third
  BY DEF Templates
<1> HIDE DEF first, second, third
<1>8. most \in Seq(T) /\ Len(most) = 11 /\ most[3] = Write(AppBuild)
  <2>1. most = first \o second
    OBVIOUS
  <2>2. first \in Seq(T) /\ second \in Seq(T)
    BY <1>4, <1>5
  <2> HIDE DEF most
  <2>3. /\ most \in Seq(T) /\ Len(most) = Len(first) + Len(second)
        /\ \A i \in 1 .. Len(first) : most[i] = first[i]
    BY <2>1, <2>2, Joined
  <2> QED
    BY <1>4, <1>5, <2>3
<1> HIDE DEF most
<1>9. Templates \in Seq(T) /\ Len(Templates) = 16 /\ Templates[3] = Write(AppBuild)
  <2>1. most \in Seq(T) /\ third \in Seq(T)
    BY <1>6, <1>8
  <2>2. /\ Templates \in Seq(T) /\ Len(Templates) = Len(most) + Len(third)
        /\ \A i \in 1 .. Len(most) : Templates[i] = most[i]
    BY <1>7, <2>1, Joined
  <2> QED
    BY <1>6, <1>8, <2>2
<1>10. T \subseteq Operation /\ \A o \in T : IsTemplate(o)
  BY DEF T
<1> QED
  BY <1>9, <1>10, ElementOfSeq, SeqMonotonic

(* The operations of a setup after the wipe: the id comes first, the       *)
(* build's file and the record of the setup later.                         *)
SetupOps(id) == (<<SetId(id), Fix("wrapper"), Op("perms")>> \o Templates) \o <<Op("done")>>

LEMMA SetupOpsAre ==
  ASSUME NEW id \in Ids
  PROVE  /\ SetupOps(id) \in Seq(Operation) /\ Len(SetupOps(id)) = 20
         /\ SetupOps(id)[1] = SetId(id) /\ SetupOps(id)[6] = Write(AppBuild)
         /\ SetupOps(id)[20] = Op("done")
         /\ \A i \in 2 .. 19 : SetupOps(id)[i] = Op("perms") \/ IsTemplate(SetupOps(id)[i])
<1> DEFINE first == <<SetId(id), Fix("wrapper"), Op("perms")>>
           last == <<Op("done")>>
<1>1. first \in Seq(Operation) /\ Len(first) = 3 /\ first[1] = SetId(id)
      /\ first[2] = Fix("wrapper") /\ first[3] = Op("perms")
  BY OperationsAre DEF Fixed
<1>2. last \in Seq(Operation) /\ Len(last) = 1 /\ last[1] = Op("done")
  BY OperationsAre
<1>3. IsTemplate(first[2])
  BY <1>1 DEF IsTemplate, Fixed
<1> DEFINE most == first \o Templates
<1>4. SetupOps(id) = most \o last
  BY DEF SetupOps
<1> HIDE DEF first, last
<1>5. /\ most \in Seq(Operation) /\ Len(most) = 19
      /\ \A i \in 1 .. 3 : most[i] = first[i]
      /\ \A i \in 1 .. 16 : most[3 + i] = Templates[i]
  <2>1. most = first \o Templates
    OBVIOUS
  <2>2. first \in Seq(Operation) /\ Templates \in Seq(Operation)
    BY <1>1, TemplatesAre
  <2> HIDE DEF most
  <2>3. /\ most \in Seq(Operation) /\ Len(most) = Len(first) + Len(Templates)
        /\ \A i \in 1 .. Len(first) : most[i] = first[i]
        /\ \A i \in 1 .. Len(Templates) : most[Len(first) + i] = Templates[i]
    BY <2>1, <2>2, Joined
  <2>4. Len(first) = 3 /\ Len(Templates) = 16
    BY <1>1, TemplatesAre
  <2> QED
    BY <2>3, <2>4
<1> HIDE DEF most
<1>6. \A i \in 2 .. 19 : most[i] = Op("perms") \/ IsTemplate(most[i])
  <2> SUFFICES ASSUME NEW i \in 2 .. 19
               PROVE  most[i] = Op("perms") \/ IsTemplate(most[i])
    OBVIOUS
  <2>1. CASE i \in {2, 3}
    BY <1>1, <1>3, <1>5, <2>1
  <2>2. CASE i \in 4 .. 19
    <3>1. i - 3 \in 1 .. 16 /\ 3 + (i - 3) = i
      BY <2>2
    <3>2. most[i] = Templates[i - 3]
      BY <1>5, <3>1
    <3> QED
      BY <3>1, <3>2, TemplatesAre
  <2> QED
    BY <2>1, <2>2
<1>7. most[6] = Write(AppBuild)
  <2>1. 3 \in 1 .. 16 /\ 3 + 3 = 6
    OBVIOUS
  <2> QED
    BY <1>5, <2>1, TemplatesAre
<1>8. SetupOps(id) \in Seq(Operation) /\ Len(SetupOps(id)) = 20
      /\ SetupOps(id)[20] = Op("done")
      /\ \A i \in 1 .. 19 : SetupOps(id)[i] = most[i]
  <2> DEFINE all == SetupOps(id)
  <2>1. all = most \o last
    BY <1>4
  <2>2. most \in Seq(Operation) /\ last \in Seq(Operation)
    BY <1>2, <1>5
  <2> HIDE DEF all
  <2>3. /\ all \in Seq(Operation) /\ Len(all) = Len(most) + Len(last)
        /\ \A i \in 1 .. Len(most) : all[i] = most[i]
        /\ \A i \in 1 .. Len(last) : all[Len(most) + i] = last[i]
    BY <2>1, <2>2, Joined
  <2>4. Len(most) = 19 /\ Len(last) = 1 /\ 19 + 1 = 20 /\ 1 \in 1 .. 1
    BY <1>2, <1>5
  <2>5. all \in Seq(Operation) /\ Len(all) = 20 /\ all[20] = Op("done")
        /\ \A i \in 1 .. 19 : all[i] = most[i]
    BY <1>2, <2>3, <2>4
  <2> QED
    BY <2>5 DEF all
<1>9. SetupOps(id)[1] = SetId(id) /\ SetupOps(id)[6] = Write(AppBuild)
  <2>1. 1 \in 1 .. 19 /\ 1 \in 1 .. 3 /\ 6 \in 1 .. 19
    OBVIOUS
  <2> QED
    BY <1>1, <1>5, <1>7, <1>8, <2>1, Zenon
<1>10. \A i \in 2 .. 19 : SetupOps(id)[i] = Op("perms") \/ IsTemplate(SetupOps(id)[i])
  <2>1. \A i \in 2 .. 19 : i \in 1 .. 19
    OBVIOUS
  <2> QED
    BY <1>6, <1>8, <2>1, Zenon
<1> QED
  BY <1>8, <1>9, <1>10, Zenon

(* The same after a wipe, and the operations of the other commands.        *)
LEMMA RecreateOpsAre ==
  ASSUME NEW id \in Ids, NEW u, u = <<Op("wipe"), Op("clear")>> \o SetupOps(id)
  PROVE  /\ u \in Seq(Operation) /\ Len(u) = 22
         /\ u[1] = Op("wipe") /\ u[2] = Op("clear")
         /\ \A i \in 1 .. 20 : u[2 + i] = SetupOps(id)[i]
<1>1. Op("wipe") \in Operation /\ Op("clear") \in Operation /\ SetupOps(id) \in Seq(Operation)
  BY OperationsAre, SetupOpsAre
<1>2. Len(SetupOps(id)) = 20
  BY SetupOpsAre
<1>3. /\ u \in Seq(Operation) /\ Len(u) = 2 + Len(SetupOps(id))
      /\ u[1] = Op("wipe") /\ u[2] = Op("clear")
      /\ \A i \in 1 .. Len(SetupOps(id)) : u[2 + i] = SetupOps(id)[i]
  BY <1>1, JoinedPair
<1>4. u \in Seq(Operation) /\ u[1] = Op("wipe") /\ u[2] = Op("clear")
  BY <1>3, Zenon
<1>5. Len(u) = 22
  <2>1. Len(u) = 2 + Len(SetupOps(id))
    BY <1>3, Zenon
  <2> QED
    BY <1>2, <2>1
<1>6. \A i \in 1 .. 20 : u[2 + i] = SetupOps(id)[i]
  BY <1>2, <1>3, Zenon
<1> QED
  BY <1>4, <1>5, <1>6, Zenon

LEMMA SetupIs ==
  ASSUME NEW id \in Ids
  PROVE  /\ ((<<>> \o <<SetId(id), Fix("wrapper"), Op("perms")>>) \o Templates)
              \o <<Op("done")>> = SetupOps(id)
         /\ ((<<Op("wipe"), Op("clear")>> \o <<SetId(id), Fix("wrapper"), Op("perms")>>)
              \o Templates) \o <<Op("done")>>
            = <<Op("wipe"), Op("clear")>> \o SetupOps(id)
<1> DEFINE pre == <<Op("wipe"), Op("clear")>>
           three == <<SetId(id), Fix("wrapper"), Op("perms")>>
           last == <<Op("done")>>
<1>1. pre \in Seq(Operation) /\ three \in Seq(Operation) /\ last \in Seq(Operation)
      /\ Templates \in Seq(Operation)
  BY OperationsAre, TemplatesAre DEF Fixed
<1> HIDE DEF pre, three, last
<1>2. <<>> \o three = three
  BY <1>1, ConcatEmptySeq
<1>3. (pre \o three) \o Templates = pre \o (three \o Templates)
  BY <1>1, ConcatAssociative
<1>4. three \o Templates \in Seq(Operation)
  BY <1>1, ConcatProperties
<1>5. (pre \o (three \o Templates)) \o last = pre \o ((three \o Templates) \o last)
  <2> DEFINE mid == three \o Templates
  <2>1. mid \in Seq(Operation)
    BY <1>4
  <2> HIDE DEF mid
  <2>2. (pre \o mid) \o last = pre \o (mid \o last)
    BY <1>1, <2>1, ConcatAssociative
  <2> QED
    BY <2>2 DEF mid
<1>6. ((<<>> \o three) \o Templates) \o last = (three \o Templates) \o last
      /\ ((pre \o three) \o Templates) \o last = pre \o ((three \o Templates) \o last)
  BY <1>2, <1>3, <1>5, Zenon
<1> QED
  BY <1>6 DEF SetupOps, pre, three, last

LEMMA NewOpsAre ==
  ASSUME NEW t \in Tests, NEW u, u = <<Of("template", t), Of("insert", t)>> \o Update
  PROVE  /\ u \in Seq(Operation) /\ Len(u) = 10
         /\ u[1] = Of("template", t) /\ u[2] = Of("insert", t)
         /\ \A i \in 3 .. 10 : \E f \in Kept : u[i] = Write(f)
<1>1. Of("template", t) \in Operation /\ Of("insert", t) \in Operation
      /\ Update \in Seq(Operation)
  BY OperationsAre, UpdateIs
<1>2. Len(Update) = 8
  BY UpdateIs
<1>3. /\ u \in Seq(Operation) /\ Len(u) = 2 + Len(Update)
      /\ u[1] = Of("template", t) /\ u[2] = Of("insert", t)
      /\ \A i \in 1 .. Len(Update) : u[2 + i] = Update[i]
  BY <1>1, JoinedPair
<1>4. u \in Seq(Operation) /\ u[1] = Of("template", t) /\ u[2] = Of("insert", t)
  BY <1>3
<1>5. Len(u) = 10 /\ \A i \in 1 .. 8 : u[2 + i] = Update[i]
  BY <1>2, <1>3
<1>6. ASSUME NEW i \in 3 .. 10
      PROVE  \E f \in Kept : u[i] = Write(f)
  <2>1. i - 2 \in 1 .. 8 /\ 2 + (i - 2) = i
    OBVIOUS
  <2> QED
    BY <1>5, <2>1, UpdateIs
<1> QED
  BY <1>4, <1>5, <1>6

LEMMA RemoveOpsAre ==
  ASSUME NEW t \in Tests, NEW u, u = (<<Of("delete", t)>> \o Update) \o <<Of("unlink", t)>>
  PROVE  /\ u \in Seq(Operation) /\ Len(u) = 10
         /\ u[1] = Of("delete", t) /\ u[10] = Of("unlink", t)
         /\ \A i \in 2 .. 9 : \E f \in Kept : u[i] = Write(f)
<1> DEFINE most == <<Of("delete", t)>> \o Update
<1>1. Of("delete", t) \in Operation /\ Of("unlink", t) \in Operation
      /\ Update \in Seq(Operation)
  BY OperationsAre, UpdateIs
<1>2. most = <<Of("delete", t)>> \o Update /\ u = most \o <<Of("unlink", t)>>
  OBVIOUS
<1> HIDE DEF most
<1>3. /\ most \in Seq(Operation) /\ Len(most) = 1 + Len(Update)
      /\ most[1] = Of("delete", t)
      /\ \A i \in 1 .. Len(Update) : most[1 + i] = Update[i]
  BY <1>1, <1>2, JoinedFirst
<1>4. /\ u \in Seq(Operation) /\ Len(u) = Len(most) + 1 /\ u[Len(u)] = Of("unlink", t)
      /\ \A i \in 1 .. Len(most) : u[i] = most[i]
  BY <1>1, <1>2, <1>3, JoinedLast
<1>5. Len(Update) = 8
  BY UpdateIs
<1>6. Len(most) = 9 /\ most[1] = Of("delete", t) /\ \A i \in 1 .. 8 : most[1 + i] = Update[i]
  BY <1>3, <1>5
<1>7. u \in Seq(Operation) /\ Len(u) = 10 /\ u[1] = Of("delete", t)
      /\ u[10] = Of("unlink", t) /\ \A i \in 1 .. 9 : u[i] = most[i]
  BY <1>4, <1>6
<1>8. ASSUME NEW i \in 2 .. 9
      PROVE  \E f \in Kept : u[i] = Write(f)
  <2>1. i - 1 \in 1 .. 8 /\ 1 + (i - 1) = i /\ i \in 1 .. 9
    OBVIOUS
  <2> QED
    BY <1>6, <1>7, <2>1, UpdateIs
<1> QED
  BY <1>7, <1>8

LEMMA RegenerateIs ==
  /\ Regenerate \in Seq(Operation)
  /\ \A i \in 1 .. Len(Regenerate) : \E f \in Kept : Regenerate[i] = Write(f)
  /\ ~noregen => \A f \in Kept : \E i \in 1 .. Len(Regenerate) : Regenerate[i] = Write(f)
<1>1. CASE noregen
  BY <1>1 DEF Regenerate
<1>2. CASE ~noregen
  BY <1>2, UpdateIs DEF Regenerate
<1> QED
  BY <1>1, <1>2

LEMMA StatusOpsAre ==
  ASSUME NEW first \in Operation
  PROVE  /\ <<first>> \o Regenerate \in Seq(Operation)
         /\ Len(<<first>> \o Regenerate) >= 1
         /\ (<<first>> \o Regenerate)[1] = first
         /\ \A i \in 2 .. Len(<<first>> \o Regenerate) :
              \E f \in Kept : (<<first>> \o Regenerate)[i] = Write(f)
<1> DEFINE u == <<first>> \o Regenerate
<1>1. Regenerate \in Seq(Operation)
  BY RegenerateIs
<1>2. u = <<first>> \o Regenerate
  OBVIOUS
<1> HIDE DEF u
<1>3. /\ u \in Seq(Operation) /\ Len(u) = 1 + Len(Regenerate) /\ u[1] = first
      /\ \A i \in 1 .. Len(Regenerate) : u[1 + i] = Regenerate[i]
  BY <1>1, <1>2, JoinedFirst
<1>4. Len(Regenerate) \in Nat
  BY <1>1, LenProperties
<1>5. ASSUME NEW i \in 2 .. Len(u)
      PROVE  \E f \in Kept : u[i] = Write(f)
  <2>1. i - 1 \in 1 .. Len(Regenerate) /\ 1 + (i - 1) = i
    BY <1>3, <1>4
  <2> QED
    BY <1>3, <2>1, RegenerateIs
<1>6. /\ u \in Seq(Operation) /\ Len(u) >= 1 /\ u[1] = first
      /\ \A i \in 2 .. Len(u) : \E f \in Kept : u[i] = Write(f)
  BY <1>3, <1>4, <1>5
<1> QED
  BY <1>6 DEF u

LEMMA BuildOpsAre ==
  ASSUME NEW u, u = Regenerate \o <<Op("gradle")>>
  PROVE  /\ u \in Seq(Operation) /\ Len(u) >= 1 /\ u[Len(u)] = Op("gradle")
         /\ \A i \in 1 .. Len(u) - 1 : \E f \in Kept : u[i] = Write(f)
         /\ ~noregen => \A f \in Kept : \E i \in 1 .. Len(u) : u[i] = Write(f)
<1>1. Op("gradle") \in Operation /\ Regenerate \in Seq(Operation)
  BY OperationsAre, RegenerateIs
<1>4. /\ u \in Seq(Operation) /\ Len(u) = Len(Regenerate) + 1 /\ u[Len(u)] = Op("gradle")
      /\ \A i \in 1 .. Len(Regenerate) : u[i] = Regenerate[i]
  BY <1>1, JoinedLast
<1>5. Len(Regenerate) \in Nat
  BY <1>1, LenProperties
<1>6. Len(u) = Len(Regenerate) + 1 /\ u[Len(u)] = Op("gradle")
  BY <1>4
<1>7. ~noregen => \A f \in Kept : \E i \in 1 .. Len(u) : u[i] = Write(f)
  <2> SUFFICES ASSUME ~noregen, NEW f \in Kept
               PROVE  \E i \in 1 .. Len(u) : u[i] = Write(f)
    OBVIOUS
  <2>1. PICK i \in 1 .. Len(Regenerate) : Regenerate[i] = Write(f)
    BY RegenerateIs
  <2>2. i \in 1 .. Len(u) /\ u[i] = Write(f)
    BY <1>4, <1>5, <1>6, <2>1
  <2> QED
    BY <2>2
<1>8. \A i \in 1 .. Len(u) - 1 : \E f \in Kept : u[i] = Write(f)
  <2> SUFFICES ASSUME NEW i \in 1 .. Len(u) - 1
               PROVE  \E f \in Kept : u[i] = Write(f)
    OBVIOUS
  <2>1. i \in 1 .. Len(Regenerate)
    BY <1>5, <1>6
  <2>2. u[i] = Regenerate[i]
    BY <1>4, <2>1
  <2>3. \E f \in Kept : Regenerate[i] = Write(f)
    BY <2>1, RegenerateIs
  <2> QED
    BY <2>2, <2>3
<1>9. u \in Seq(Operation)
  BY <1>4
<1>10. Len(u) >= 1
  BY <1>5, <1>6
<1> QED
  BY <1>6, <1>7, <1>8, <1>9, <1>10, Zenon

LEMMA IdOpsAre ==
  ASSUME NEW id \in Ids
  PROVE  /\ <<SetId(id), Write(AppBuild)>> \in Seq(Operation)
         /\ Len(<<SetId(id), Write(AppBuild)>>) = 2
         /\ <<SetId(id), Write(AppBuild)>>[1] = SetId(id)
         /\ <<SetId(id), Write(AppBuild)>>[2] = Write(AppBuild)
<1>1. SetId(id) \in Operation /\ Write(AppBuild) \in Operation
  BY OperationsAre, FilesAre
<1> QED
  BY <1>1

LEMMA Names ==
  /\ \A n : Op(n).op = n
  /\ \A f : /\ Write(f).op = "write" /\ Write(f).file = f
            /\ Empty(f).op = "empty" /\ Empty(f).file = f /\ Fix(f).op = "fix"
  /\ \A n, t : Of(n, t).op = n /\ Of(n, t).test = t
  /\ \A id : SetId(id).op = "id" /\ SetId(id).id = id
BY DEF Op, Write, Empty, Fix, Of, SetId

LEMMA TemplateNames ==
  ASSUME NEW o, IsTemplate(o)
  PROVE  o.op \in {"fix", "write", "empty"} /\ (o.op = "empty" => o.file # AppBuild)
BY Names DEF IsTemplate

LEMMA Fields ==
  ASSUME NEW o \in Operation
  PROVE  /\ o.op \in {"wipe", "clear", "perms", "done", "gradle", "write", "empty", "fix",
                      "template", "insert", "delete", "unlink", "status", "id"}
         /\ o.op \in {"write", "empty"} => o.file \in Generated
         /\ o.op = "fix" => o.file \in Fixed
         /\ o.op \in {"template", "insert", "delete", "unlink", "status"} => o.test \in Tests
         /\ o.op = "status" => o.status \in Statuses
         /\ o.op = "id" => o.id \in Ids
BY DEF Operation

LEMMA ClassNames ==
  ASSUME NEW r \in TestRequests, Answerable(r)
  PROVE  ClassName(r) \in Tests
<1>1. r.kind \in Kinds /\ r.method \in Seq(STRING) /\ r.txn \in Seq(STRING)
  BY AppProjectAssumption
<1>2. ASSUME r.kind = "system"
      PROVE  r.method \o r.txn # None
  <2>1. r.method # None \/ r.txn # None
    BY <1>2 DEF Answerable
  <2>2. Len(r.method) + Len(r.txn) # 0
    <3> DEFINE m == Len(r.method)
               n == Len(r.txn)
    <3>1. m \in Nat /\ n \in Nat
      BY <1>1, LenProperties
    <3>2. m # 0 \/ n # 0
      BY <1>1, <2>1 DEF None
    <3> HIDE DEF m, n
    <3>3. m + n # 0
      BY <3>1, <3>2
    <3> QED
      BY <3>3 DEF m, n
  <2>3. Len(r.method \o r.txn) = Len(r.method) + Len(r.txn)
    BY <1>1, ConcatProperties
  <2>4. Len(None) = 0
    BY DEF None
  <2> QED
    BY <2>2, <2>3, <2>4
<1> QED
  BY <1>2 DEF Tests

-------------------------------------------------------------------------------
(* Type correctness.                                                       *)

File == [id : Ids \cup {"", "absent", "torn"}, perms : SUBSET Permissions, tests : SUBSET Tests]

ContentOK ==
  /\ tests \in [Tests -> Statuses \cup {"none"}]
  /\ perms \subseteq Permissions /\ appId \in Ids /\ done \in BOOLEAN

DiskOK ==
  /\ src \in [Tests -> {"absent", "torn", "template", "edited"}]
  /\ gen \in [Generated -> File]
  /\ fixed \in [Fixed -> {"absent", "torn", "whole"}] /\ noregen \in BOOLEAN

ControlOK ==
  /\ run \in Runs \cup {"none"} /\ todo \in Seq(Operation) /\ cut \subseteq Runs
  /\ commands \in 0 .. MaxCommands /\ faults \in 0 .. MaxFaults

LEMMA TypeParts == TypeOK <=> ContentOK /\ DiskOK /\ ControlOK
BY DEF TypeOK, ContentOK, DiskOK, ControlOK, File

LEMMA TypeInit == Init => TypeOK
<1> SUFFICES ASSUME Init PROVE TypeOK
  OBVIOUS
<1>1. ContentOK
  BY AppProjectAssumption DEF Init, ContentOK
<1>2. Absent \in File
  BY DEF Absent, Blank, File
<1>3. DiskOK
  BY <1>2 DEF Init, DiskOK
<1>4. ControlOK
  <2>1. todo \in Seq(Operation)
    BY DEF Init
  <2>2. commands \in 0 .. MaxCommands /\ faults \in 0 .. MaxFaults
    <3>1. MaxCommands \in Nat /\ MaxFaults \in Nat
      BY AppProjectAssumption
    <3>2. commands = 0 /\ faults = 0
      BY DEF Init
    <3> QED
      BY <3>1, <3>2
  <2>3. run \in Runs \cup {"none"} /\ cut \subseteq Runs
    BY DEF Init
  <2> QED
    BY <2>1, <2>2, <2>3 DEF ControlOK
<1> QED
  BY <1>1, <1>3, <1>4, TypeParts

(* The commands, and their lists of operations.                            *)
SetupOf(id) == IF done THEN <<Op("wipe"), Op("clear")>> \o SetupOps(id) ELSE SetupOps(id)

LEMMA SetupStarts ==
  ASSUME NEW force \in BOOLEAN, NEW id \in Ids, Setup(force, id)
  PROVE  Command(IF done THEN "recreate" ELSE "setup", SetupOf(id))
<1>1. CASE done
  BY <1>1, SetupIs DEF Setup, SetupOf
<1>2. CASE ~done
  BY <1>2, SetupIs DEF Setup, SetupOf
<1> QED
  BY <1>1, <1>2

Begins ==
  \/ \E force \in BOOLEAN, id \in Ids : Setup(force, id)
  \/ \E r \in TestRequests : NewTest(r)
  \/ \E t \in Tests : RemoveTest(t) \/ \E s \in Statuses : ChangeStatus(t, s)
  \/ \E id \in Ids : SetAppId(id)
  \/ Build

(* A list of operations that a command may begin with, the run it is and   *)
(* the tests that had a row then.                                          *)
BeginsNew(u) ==
  \E t \in Tests :
    /\ done /\ tests[t] = "none" /\ run' = "new"
    /\ Len(u) = 10 /\ u[1] = Of("template", t) /\ u[2] = Of("insert", t)
    /\ \A i \in 3 .. 10 : \E f \in Kept : u[i] = Write(f)
BeginsRemove(u) ==
  \E t \in Tests :
    /\ done /\ tests[t] # "none" /\ run' = "remove"
    /\ Len(u) = 10 /\ u[1] = Of("delete", t) /\ u[10] = Of("unlink", t)
    /\ \A i \in 2 .. 9 : \E f \in Kept : u[i] = Write(f)
BeginsStatus(u) ==
  /\ done /\ run' = "status" /\ Len(u) >= 1
  /\ u[1].op = "status" /\ tests[u[1].test] # "none"
  /\ \A i \in 2 .. Len(u) : \E f \in Kept : u[i] = Write(f)
BeginsId(u) ==
  /\ done /\ run' = "id" /\ Len(u) = 2
  /\ \E id \in Ids : u[1] = SetId(id)
  /\ u[2] = Write(AppBuild)
BeginsBuild(u) ==
  /\ done /\ run' = "build"
  /\ Len(u) >= 1 /\ u[Len(u)] = Op("gradle")
  /\ \A i \in 1 .. Len(u) - 1 : \E f \in Kept : u[i] = Write(f)
  /\ ~noregen => \A f \in Kept : \E i \in 1 .. Len(u) : u[i] = Write(f)
BeginsSetup(u) ==
  /\ ~done /\ run' = "setup" /\ \E id \in Ids : u = SetupOps(id)
BeginsAgain(u) ==
  /\ done /\ run' = "recreate" /\ Len(u) = 22
  /\ u[1] = Op("wipe") /\ u[2] = Op("clear")
  /\ \E id \in Ids : \A i \in 1 .. 20 : u[2 + i] = SetupOps(id)[i]

LEMMA Beginnings ==
  ASSUME ContentOK, Begins
  PROVE  /\ run = "none" /\ todo' \in Seq(Operation) /\ run' \in Runs
         /\ commands < MaxCommands /\ commands' = commands + 1
         /\ UNCHANGED <<database, disk, cut, faults>>
         /\ \/ BeginsNew(todo') \/ BeginsRemove(todo') \/ BeginsStatus(todo')
            \/ BeginsId(todo') \/ BeginsBuild(todo')
            \/ BeginsSetup(todo') \/ BeginsAgain(todo')
<1> DEFINE Goal == /\ run = "none" /\ todo' \in Seq(Operation) /\ run' \in Runs
                   /\ commands < MaxCommands /\ commands' = commands + 1
                   /\ UNCHANGED <<database, disk, cut, faults>>
                   /\ \/ BeginsNew(todo') \/ BeginsRemove(todo') \/ BeginsStatus(todo')
                      \/ BeginsId(todo') \/ BeginsBuild(todo')
                      \/ BeginsSetup(todo') \/ BeginsAgain(todo')
<1> SUFFICES Goal
  OBVIOUS
<1>1. ASSUME NEW force \in BOOLEAN, NEW id \in Ids, Setup(force, id)
      PROVE  Goal
  <2>1. Command(IF done THEN "recreate" ELSE "setup", SetupOf(id))
    BY <1>1, SetupStarts
  <2>2. CASE ~done
    <3>1. todo' = SetupOps(id) /\ run' = "setup"
      BY <2>1, <2>2 DEF Command, SetupOf
    <3>2. BeginsSetup(todo')
      BY <2>2, <3>1 DEF BeginsSetup
    <3> QED
      BY <2>1, <3>1, <3>2, SetupOpsAre DEF Command, Runs
  <2>3. CASE done
    <3>1. todo' = <<Op("wipe"), Op("clear")>> \o SetupOps(id) /\ run' = "recreate"
      BY <2>1, <2>3 DEF Command, SetupOf
    <3>2. /\ todo' \in Seq(Operation) /\ Len(todo') = 22
          /\ todo'[1] = Op("wipe") /\ todo'[2] = Op("clear")
          /\ \A i \in 1 .. 20 : todo'[2 + i] = SetupOps(id)[i]
      BY <3>1, RecreateOpsAre
    <3>3. BeginsAgain(todo')
      BY <2>3, <3>1, <3>2 DEF BeginsAgain
    <3> QED
      BY <2>1, <3>1, <3>2, <3>3 DEF Command, Runs
  <2> QED
    BY <2>2, <2>3
<1>2. ASSUME NEW r \in TestRequests, NewTest(r)
      PROVE  Goal
  <2> DEFINE t == ClassName(r)
  <2>1. t \in Tests
    BY <1>2, ClassNames DEF NewTest
  <2>2. /\ done /\ tests[t] = "none"
        /\ Command("new", <<Of("template", t), Of("insert", t)>> \o Update)
    BY <1>2 DEF NewTest
  <2> HIDE DEF t
  <2>3. todo' = <<Of("template", t), Of("insert", t)>> \o Update
    BY <2>2 DEF Command
  <2>4. /\ todo' \in Seq(Operation) /\ Len(todo') = 10
        /\ todo'[1] = Of("template", t) /\ todo'[2] = Of("insert", t)
        /\ \A i \in 3 .. 10 : \E f \in Kept : todo'[i] = Write(f)
    BY <2>1, <2>3, NewOpsAre
  <2>5. BeginsNew(todo')
    BY <2>1, <2>2, <2>4 DEF BeginsNew, Command
  <2> QED
    BY <2>2, <2>4, <2>5 DEF Command, Runs
<1>3. ASSUME NEW t \in Tests, RemoveTest(t)
      PROVE  Goal
  <2>1. /\ done /\ tests[t] # "none"
        /\ Command("remove", (<<Of("delete", t)>> \o Update) \o <<Of("unlink", t)>>)
    BY <1>3 DEF RemoveTest
  <2>2. todo' = (<<Of("delete", t)>> \o Update) \o <<Of("unlink", t)>>
    BY <2>1 DEF Command
  <2>3. /\ todo' \in Seq(Operation) /\ Len(todo') = 10
        /\ todo'[1] = Of("delete", t) /\ todo'[10] = Of("unlink", t)
        /\ \A i \in 2 .. 9 : \E f \in Kept : todo'[i] = Write(f)
    BY <2>2, RemoveOpsAre
  <2>4. BeginsRemove(todo')
    BY <2>1, <2>3 DEF BeginsRemove, Command
  <2> QED
    BY <2>1, <2>3, <2>4 DEF Command, Runs
<1>4. ASSUME NEW t \in Tests, NEW s \in Statuses, ChangeStatus(t, s)
      PROVE  Goal
  <2> DEFINE o == [op |-> "status", test |-> t, status |-> s]
  <2>1. /\ done /\ tests[t] # "none" /\ Command("status", <<o>> \o Regenerate)
    BY <1>4 DEF ChangeStatus
  <2>2. o \in Operation
    BY OperationsAre
  <2>3. o.op = "status" /\ o.test = t
    OBVIOUS
  <2> HIDE DEF o
  <2>4. todo' = <<o>> \o Regenerate
    BY <2>1 DEF Command
  <2>5. /\ todo' \in Seq(Operation) /\ Len(todo') >= 1 /\ todo'[1] = o
        /\ \A i \in 2 .. Len(todo') : \E f \in Kept : todo'[i] = Write(f)
    BY <2>2, <2>4, StatusOpsAre
  <2>6. BeginsStatus(todo')
    BY <2>1, <2>3, <2>5 DEF BeginsStatus, Command
  <2> QED
    BY <2>1, <2>5, <2>6 DEF Command, Runs
<1>5. ASSUME NEW id \in Ids, SetAppId(id)
      PROVE  Goal
  <2>1. done /\ Command("id", <<SetId(id), Write(AppBuild)>>)
    BY <1>5 DEF SetAppId
  <2>2. todo' = <<SetId(id), Write(AppBuild)>>
    BY <2>1 DEF Command
  <2>3. BeginsId(todo') /\ todo' \in Seq(Operation)
    BY <2>1, <2>2, IdOpsAre DEF BeginsId, Command
  <2> QED
    BY <2>1, <2>3 DEF Command, Runs
<1>6. CASE Build
  <2>1. done /\ Command("build", Regenerate \o <<Op("gradle")>>)
    BY <1>6 DEF Build
  <2>2. todo' = Regenerate \o <<Op("gradle")>>
    BY <2>1 DEF Command
  <2>3. /\ todo' \in Seq(Operation) /\ Len(todo') >= 1 /\ todo'[Len(todo')] = Op("gradle")
        /\ \A i \in 1 .. Len(todo') - 1 : \E f \in Kept : todo'[i] = Write(f)
        /\ ~noregen => \A f \in Kept : \E i \in 1 .. Len(todo') : todo'[i] = Write(f)
    BY <2>2, BuildOpsAre
  <2>4. BeginsBuild(todo')
    BY <2>1, <2>3 DEF BeginsBuild, Command
  <2> QED
    BY <2>1, <2>3, <2>4 DEF Command, Runs
<1> QED
  BY <1>1, <1>2, <1>3, <1>4, <1>5, <1>6 DEF Begins

-------------------------------------------------------------------------------
(* The steps of a command.                                                 *)

Operates ==
  \/ Wipe \/ Clear \/ AddPermissions \/ UpdateId \/ Finish \/ UpdateRow
  \/ Render \/ WriteFixed \/ RenderTest \/ Unlink \/ Gradle

LEMMA NextIs ==
  Next <=> Begins \/ Operates \/ Succeed \/ Fail \/ Refused
           \/ (\E t \in Tests : Edit(t)) \/ StopRegeneration
BY DEF Next, Begins, Operates

LEMMA Heads ==
  ASSUME ControlOK, todo # <<>>
  PROVE  /\ Len(todo) \in Nat /\ Len(todo) >= 1 /\ DOMAIN todo = 1 .. Len(todo)
         /\ Head(todo) = todo[1] /\ todo[1] \in Operation
         /\ Tail(todo) \in Seq(Operation) /\ DOMAIN Tail(todo) = 1 .. Len(todo) - 1
         /\ Len(Tail(todo)) = Len(todo) - 1
         /\ \A i \in 1 .. Len(todo) - 1 : Tail(todo)[i] = todo[i + 1]
<1>1. todo \in Seq(Operation)
  BY DEF ControlOK
<1>2. /\ Len(todo) \in Nat /\ Len(todo) >= 1 /\ DOMAIN todo = 1 .. Len(todo)
      /\ Head(todo) = todo[1]
      /\ Tail(todo) \in Seq(Operation) /\ DOMAIN Tail(todo) = 1 .. Len(todo) - 1
      /\ Len(Tail(todo)) = Len(todo) - 1
      /\ \A i \in 1 .. Len(todo) - 1 : Tail(todo)[i] = todo[i + 1]
  BY <1>1, TailIs
<1>3. todo[1] \in Operation
  BY <1>1, <1>2, ElementOfSeq
<1> QED
  BY <1>2, <1>3

LEMMA Operating ==
  ASSUME Operates
  PROVE  todo # <<>> /\ todo' = Tail(todo) /\ UNCHANGED <<run, cut, commands, faults>>
BY DEF Operates, Wipe, Clear, AddPermissions, UpdateId, Finish, UpdateRow, Render,
       WriteFixed, RenderTest, Unlink, Gradle, Doing, Next1

LEMMA FileIs ==
  ASSUME NEW i \in Ids \cup {"", "absent", "torn"},
         NEW p \in SUBSET Permissions, NEW t \in SUBSET Tests
  PROVE  [id |-> i, perms |-> p, tests |-> t] \in File
BY DEF File

LEMMA Contents ==
  ASSUME ContentOK, NEW f \in Generated
  PROVE  Content(f) \in File
<1> DEFINE i == IF f \in {Config, AppBuild} THEN appId ELSE ""
           p == IF f = Manifest THEN perms ELSE {}
           t == IF f = Manifest THEN Recorded ELSE IF f \in Lists THEN Listed(f[2]) ELSE {}
<1>1. i \in Ids \cup {"", "absent", "torn"}
  BY DEF ContentOK
<1>2. p \in SUBSET Permissions
  BY DEF ContentOK
<1>3. t \in SUBSET Tests
  BY DEF Recorded, Listed
<1>4. Content(f) = [id |-> i, perms |-> p, tests |-> t]
  BY DEF Content
<1> HIDE DEF i, p, t
<1> QED
  BY <1>1, <1>2, <1>3, <1>4, FileIs

LEMMA RemovedTypes ==
  ASSUME DiskOK, NEW parts, Removed(parts)
  PROVE  DiskOK'
<1>1. Absent \in File
  BY DEF Absent, Blank, File
<1>2. src' \in [Tests -> {"absent", "torn", "template", "edited"}]
  BY DEF Removed, DiskOK
<1>3. gen' \in [Generated -> File]
  BY <1>1 DEF Removed, DiskOK
<1>4. fixed' \in [Fixed -> {"absent", "torn", "whole"}]
  BY DEF Removed, DiskOK
<1>5. noregen' \in BOOLEAN
  BY DEF Removed, DiskOK
<1> QED
  BY <1>2, <1>3, <1>4, <1>5 DEF DiskOK

LEMMA OperationTypes ==
  ASSUME ContentOK, DiskOK, ControlOK, Operates
  PROVE  (ContentOK /\ DiskOK /\ ControlOK)'
<1> DEFINE o == todo[1]
<1>1. todo # <<>> /\ todo' = Tail(todo) /\ UNCHANGED <<run, cut, commands, faults>>
  BY Operating
<1>2. Head(todo) = o /\ o \in Operation /\ Tail(todo) \in Seq(Operation)
  BY <1>1, Heads
<1>3. ControlOK'
  BY <1>1, <1>2 DEF ControlOK
<1> HIDE DEF o
<1>4. CASE Wipe
  BY <1>3, <1>4 DEF Wipe, ContentOK, DiskOK, disk
<1>5. CASE Clear
  BY <1>3, <1>5, RemovedTypes DEF Clear, ContentOK, database
<1>6. CASE AddPermissions
  BY <1>3, <1>6 DEF AddPermissions, ContentOK, DiskOK, disk
<1>7. CASE UpdateId
  BY <1>2, <1>3, <1>7, Fields DEF UpdateId, Doing, ContentOK, DiskOK, disk
<1>8. CASE Finish
  BY <1>3, <1>8 DEF Finish, ContentOK, DiskOK, disk
<1>9. CASE UpdateRow
  <2>1. o.test \in Tests /\ (o.op = "status" => o.status \in Statuses)
    BY <1>2, <1>9, Fields DEF UpdateRow, Doing
  <2>2. "exp" \in Statuses
    BY DEF Statuses
  <2>3. tests' \in [Tests -> Statuses \cup {"none"}]
    BY <1>2, <1>9, <2>1, <2>2 DEF UpdateRow, Doing, ContentOK
  <2> QED
    BY <1>3, <1>9, <2>3 DEF UpdateRow, ContentOK, DiskOK, disk
<1>10. CASE Render
  <2>1. o.file \in Generated
    BY <1>2, <1>10, Fields DEF Render, Doing
  <2>2. Content(o.file) \in File /\ Blank \in File
    BY <2>1, Contents DEF Blank, File
  <2>3. gen' \in [Generated -> File]
    BY <1>2, <1>10, <2>1, <2>2 DEF Render, DiskOK
  <2> QED
    BY <1>3, <1>10, <2>3 DEF Render, ContentOK, DiskOK, database
<1>11. CASE WriteFixed
  BY <1>2, <1>3, <1>11, Fields DEF WriteFixed, Doing, ContentOK, DiskOK, database
<1>12. CASE RenderTest
  BY <1>2, <1>3, <1>12, Fields DEF RenderTest, Doing, ContentOK, DiskOK, database
<1>13. CASE Unlink
  BY <1>2, <1>3, <1>13, Fields DEF Unlink, Doing, ContentOK, DiskOK, database
<1>14. CASE Gradle
  BY <1>3, <1>14 DEF Gradle, ContentOK, DiskOK, database, disk
<1> QED
  BY <1>3, <1>4, <1>5, <1>6, <1>7, <1>8, <1>9, <1>10, <1>11, <1>12, <1>13, <1>14 DEF Operates

LEMMA HalfDoneTypes ==
  ASSUME DiskOK, ControlOK, todo # <<>>, HalfDone
  PROVE  DiskOK'
<1> DEFINE o == todo[1]
<1>1. Head(todo) = o /\ o \in Operation
  BY Heads
<1>2. Torn \in File
  BY DEF Torn, Blank, File
<1> HIDE DEF o
<1>3. CASE UNCHANGED disk
  BY <1>3 DEF DiskOK, disk
<1>4. CASE /\ Doing("write") \/ Doing("empty")
           /\ gen' = [gen EXCEPT ![Head(todo).file] = Torn]
           /\ UNCHANGED <<src, fixed, noregen>>
  BY <1>2, <1>4 DEF DiskOK
<1>5. CASE /\ Doing("fix")
           /\ fixed' = [fixed EXCEPT ![Head(todo).file] = "torn"]
           /\ UNCHANGED <<src, gen, noregen>>
  BY <1>5 DEF DiskOK
<1>6. CASE /\ Doing("template")
           /\ src' = [src EXCEPT ![Head(todo).test] = "torn"]
           /\ UNCHANGED <<gen, fixed, noregen>>
  BY <1>6 DEF DiskOK
<1>7. ASSUME NEW parts, Removed(parts)
      PROVE  DiskOK'
  BY <1>7, RemovedTypes
<1> QED
  BY <1>3, <1>4, <1>5, <1>6, <1>7 DEF HalfDone

(* Nothing is left to do when no command runs.                             *)
Idle == run = "none" => todo = <<>>

(* A command that ends, or is cut off, leaves nothing to do.               *)
Stops == run' = "none" /\ todo' = <<>> /\ cut' = cut \cup {run}

LEMMA StopTypes ==
  ASSUME run \in Runs \cup {"none"}, cut \subseteq Runs, Idle, todo # <<>>, Stops
  PROVE  /\ run' \in Runs \cup {"none"} /\ todo' \in Seq(Operation)
         /\ cut' \subseteq Runs /\ Idle'
<1>1. run \in Runs
  BY DEF Idle
<1>2. cut' \subseteq Runs
  BY <1>1 DEF Stops
<1>3. todo' \in Seq(Operation)
  BY DEF Stops
<1> QED
  BY <1>2, <1>3 DEF Stops, Idle

LEMMA TypeStep == TypeOK /\ Idle /\ [Next]_vars => TypeOK' /\ Idle'
<1> SUFFICES ASSUME ContentOK, DiskOK, ControlOK, Idle, [Next]_vars
             PROVE  (ContentOK /\ DiskOK /\ ControlOK /\ Idle)'
  <2>1. TypeOK' <=> (ContentOK /\ DiskOK /\ ControlOK)'
    BY DEF TypeOK, ContentOK, DiskOK, ControlOK, File
  <2> QED
    BY <2>1, TypeParts
<1>1. CASE Begins
  <2>1. /\ todo' \in Seq(Operation) /\ run' \in Runs
        /\ commands < MaxCommands /\ commands' = commands + 1
        /\ UNCHANGED <<database, disk, cut, faults>>
    BY <1>1, Beginnings
  <2>2. MaxCommands \in Nat
    BY AppProjectAssumption
  <2>3. commands' \in 0 .. MaxCommands
    BY <2>1, <2>2 DEF ControlOK
  <2>4. Idle'
    BY <2>1 DEF Idle, Runs
  <2> QED
    BY <2>1, <2>3, <2>4 DEF ContentOK, DiskOK, ControlOK, database, disk
<1>2. CASE Operates
  <2>1. Idle'
    BY <1>2, Operating DEF Idle
  <2> QED
    BY <1>2, <2>1, OperationTypes
<1>3. CASE Succeed
  BY <1>3 DEF Succeed, ContentOK, DiskOK, ControlOK, Idle, database, disk
<1>4. CASE Fail
  <2>1. DiskOK'
    BY <1>4, HalfDoneTypes DEF Fail
  <2>2. MaxFaults \in Nat
    BY AppProjectAssumption
  <2>3. faults' \in 0 .. MaxFaults
    BY <1>4, <2>2 DEF Fail, ControlOK
  <2>4. ContentOK'
    BY <1>4 DEF Fail, ContentOK, database
  <2>5. /\ run' \in Runs \cup {"none"} /\ todo' \in Seq(Operation)
        /\ cut' \subseteq Runs /\ Idle'
    BY <1>4, StopTypes DEF Fail, Stops, ControlOK
  <2>6. commands' \in 0 .. MaxCommands
    BY <1>4 DEF Fail, ControlOK
  <2> QED
    BY <2>1, <2>3, <2>4, <2>5, <2>6 DEF ControlOK
<1>5. CASE Refused
  <2>1. /\ run' \in Runs \cup {"none"} /\ todo' \in Seq(Operation)
        /\ cut' \subseteq Runs /\ Idle'
    BY <1>5, StopTypes DEF Refused, Doing, Stops, ControlOK
  <2>2. commands' \in 0 .. MaxCommands /\ faults' \in 0 .. MaxFaults
    BY <1>5 DEF Refused, ControlOK
  <2>3. ContentOK' /\ DiskOK'
    BY <1>5 DEF Refused, ContentOK, DiskOK, database, disk
  <2> QED
    BY <2>1, <2>2, <2>3 DEF ControlOK
<1>6. ASSUME NEW t \in Tests, Edit(t)
      PROVE  (ContentOK /\ DiskOK /\ ControlOK /\ Idle)'
  BY <1>6 DEF Edit, ContentOK, DiskOK, ControlOK, Idle, database
<1>7. CASE StopRegeneration
  BY <1>7 DEF StopRegeneration, ContentOK, DiskOK, ControlOK, Idle, database
<1>8. CASE UNCHANGED vars
  BY <1>8 DEF vars, ContentOK, DiskOK, ControlOK, Idle
<1> QED
  BY <1>1, <1>2, <1>3, <1>4, <1>5, <1>6, <1>7, <1>8, NextIs

LEMMA IdleInit == Init => Idle
BY DEF Init, Idle

(* Every row, file, operation and counter has its type.                    *)
THEOREM Typing == Spec => []TypeOK
<1>1. Spec => [](TypeOK /\ Idle)
  BY TypeInit, IdleInit, TypeStep, PTL DEF Spec
<1> QED
  BY <1>1, PTL

-------------------------------------------------------------------------------
(* What the steps do to the rows and to the files of the tests.            *)

LEMMA Effects ==
  ASSUME ContentOK, DiskOK, ControlOK, Operates, NEW o, o = todo[1]
  PROVE  /\ \A t \in Tests :
              \/ tests'[t] = tests[t]
              \/ o.op \in {"wipe", "delete"} /\ tests'[t] = "none"
              \/ o.op \in {"insert", "status"} /\ o.test = t
         /\ o.op = "wipe" => \A t \in Tests : tests'[t] = "none"
         /\ o.op = "delete" => tests'[o.test] = "none"
         /\ \A t \in Tests :
              \/ src'[t] = src[t]
              \/ o.op = "template" /\ o.test = t /\ src'[t] = "template"
              \/ o.op = "unlink" /\ o.test = t
              \/ o.op = "clear"
         /\ o.op = "template" => src'[o.test] = "template"
<1>1. Head(todo) = o /\ o \in Operation
  BY Operating, Heads
<1>2. o.op \in {"template", "insert", "delete", "unlink", "status"} => o.test \in Tests
  BY <1>1, Fields
<1>3. DOMAIN tests = Tests /\ DOMAIN src = Tests
  BY DEF ContentOK, DiskOK
<1>4. CASE Wipe
  BY <1>1, <1>4 DEF Wipe, Doing, disk
<1>5. CASE Clear
  BY <1>1, <1>5 DEF Clear, Doing, database
<1>6. CASE AddPermissions
  BY <1>1, <1>6 DEF AddPermissions, Doing, disk
<1>7. CASE UpdateId
  BY <1>1, <1>7 DEF UpdateId, Doing, disk
<1>8. CASE Finish
  BY <1>1, <1>8 DEF Finish, Doing, disk
<1>9. CASE UpdateRow
  BY <1>1, <1>2, <1>3, <1>9 DEF UpdateRow, Doing, disk
<1>10. CASE Render
  BY <1>1, <1>10 DEF Render, Doing, database
<1>11. CASE WriteFixed
  BY <1>1, <1>11 DEF WriteFixed, Doing, database
<1>12. CASE RenderTest
  BY <1>1, <1>2, <1>3, <1>12 DEF RenderTest, Doing, database
<1>13. CASE Unlink
  BY <1>1, <1>2, <1>3, <1>13 DEF Unlink, Doing, database
<1>14. CASE Gradle
  BY <1>1, <1>14 DEF Gradle, Doing, database, disk
<1> QED
  BY <1>4, <1>5, <1>6, <1>7, <1>8, <1>9, <1>10, <1>11, <1>12, <1>13, <1>14 DEF Operates

LEMMA HalfEffects ==
  ASSUME DiskOK, ControlOK, todo # <<>>, HalfDone, NEW o, o = todo[1]
  PROVE  \A t \in Tests : \/ src'[t] = src[t]
                          \/ o.op = "template" /\ o.test = t
                          \/ o.op = "clear"
<1>1. Head(todo) = o
  BY Heads
<1>2. DOMAIN src = Tests
  BY DEF DiskOK
<1> QED
  BY <1>1, <1>2 DEF HalfDone, Doing, disk

-------------------------------------------------------------------------------
(* When an operation on a test or on the whole project is due.  A file is  *)
(* only made for a test that has no row, the row follows at once, and a    *)
(* file only goes after its row, all of them after all rows.               *)
Due(i) ==
  /\ todo[i].op = "template" => i = 1 /\ run = "new" /\ tests[todo[1].test] = "none"
  /\ todo[i].op = "insert" =>
       /\ run = "new"
       /\ \/ i = 1 /\ src[todo[1].test] = "template"
          \/ i = 2 /\ todo[1] = Of("template", todo[2].test)
  /\ todo[i].op = "status" => i = 1 /\ run = "status" /\ tests[todo[1].test] # "none"
  /\ todo[i].op = "delete" => i = 1 /\ run = "remove"
  /\ todo[i].op = "unlink" =>
       /\ run = "remove"
       /\ tests[todo[i].test] = "none" \/ (i > 1 /\ todo[1] = Of("delete", todo[i].test))
  /\ todo[i].op = "wipe" => i = 1 /\ run = "recreate"
  /\ todo[i].op = "clear" =>
       /\ run = "recreate"
       /\ \/ i = 1 /\ \A t \in Tests : tests[t] = "none"
          \/ i = 2 /\ todo[1].op = "wipe"

Prepared == \A i \in 1 .. Len(todo) : Due(i)

(* Operations that are always due.                                         *)
Anytime == {"write", "empty", "fix", "perms", "done", "gradle", "id"}

LEMMA AnytimeDue ==
  ASSUME NEW i, todo'[i].op \in Anytime
  PROVE  Due(i)'
BY DEF Due, Anytime

LEMMA WritesAnytime ==
  /\ \A f : Write(f).op \in Anytime
  /\ \A o : IsTemplate(o) => o.op \in Anytime
  /\ Op("perms").op \in Anytime /\ Op("done").op \in Anytime /\ Op("gradle").op \in Anytime
  /\ \A id : SetId(id).op \in Anytime
BY Names, TemplateNames DEF Anytime

LEMMA SetupAnytime ==
  ASSUME NEW id \in Ids, NEW i \in 1 .. 20
  PROVE  SetupOps(id)[i].op \in Anytime
<1>1. i = 1 \/ i = 20 \/ i \in 2 .. 19
  OBVIOUS
<1> QED
  BY <1>1, SetupOpsAre, WritesAnytime


LEMMA BeginsDue ==
  ASSUME ContentOK, Begins
  PROVE  Prepared'
<1>1. UNCHANGED tests /\ UNCHANGED src
  BY Beginnings DEF database, disk
<1> SUFFICES ASSUME NEW i \in 1 .. Len(todo')
             PROVE  Due(i)'
  BY DEF Prepared
<1>2. CASE BeginsNew(todo')
  <2>1. PICK t \in Tests :
          /\ tests[t] = "none" /\ run' = "new"
          /\ Len(todo') = 10 /\ todo'[1] = Of("template", t) /\ todo'[2] = Of("insert", t)
          /\ \A k \in 3 .. 10 : \E f \in Kept : todo'[k] = Write(f)
    BY <1>2 DEF BeginsNew
  <2>2. i = 1 \/ i = 2 \/ i \in 3 .. 10
    BY <2>1
  <2>3. CASE i = 1
    BY <1>1, <2>1, <2>3, Names DEF Due
  <2>4. CASE i = 2
    BY <2>1, <2>4, Names DEF Due
  <2>5. CASE i \in 3 .. 10
    BY <2>1, <2>5, WritesAnytime, AnytimeDue
  <2> QED
    BY <2>2, <2>3, <2>4, <2>5
<1>3. CASE BeginsRemove(todo')
  <2>1. PICK t \in Tests :
          /\ tests[t] # "none" /\ run' = "remove"
          /\ Len(todo') = 10 /\ todo'[1] = Of("delete", t) /\ todo'[10] = Of("unlink", t)
          /\ \A k \in 2 .. 9 : \E f \in Kept : todo'[k] = Write(f)
    BY <1>3 DEF BeginsRemove
  <2>2. i = 1 \/ i = 10 \/ i \in 2 .. 9
    BY <2>1
  <2>3. CASE i = 1
    BY <2>1, <2>3, Names DEF Due
  <2>4. CASE i = 10
    BY <2>1, <2>4, Names DEF Due
  <2>5. CASE i \in 2 .. 9
    BY <2>1, <2>5, WritesAnytime, AnytimeDue
  <2> QED
    BY <2>2, <2>3, <2>4, <2>5
<1>4. CASE BeginsStatus(todo')
  <2>1. /\ run' = "status" /\ todo'[1].op = "status" /\ tests[todo'[1].test] # "none"
        /\ \A k \in 2 .. Len(todo') : \E f \in Kept : todo'[k] = Write(f)
    BY <1>4 DEF BeginsStatus
  <2>2. i = 1 \/ i \in 2 .. Len(todo')
    OBVIOUS
  <2>3. CASE i = 1
    BY <1>1, <2>1, <2>3 DEF Due
  <2>4. CASE i \in 2 .. Len(todo')
    BY <2>1, <2>4, WritesAnytime, AnytimeDue
  <2> QED
    BY <2>2, <2>3, <2>4
<1>5. CASE BeginsId(todo')
  <2>1. Len(todo') = 2 /\ (\E id \in Ids : todo'[1] = SetId(id)) /\ todo'[2] = Write(AppBuild)
    BY <1>5 DEF BeginsId
  <2>2. i = 1 \/ i = 2
    BY <2>1
  <2> QED
    BY <2>1, <2>2, WritesAnytime, AnytimeDue
<1>6. CASE BeginsBuild(todo')
  <2>1. /\ todo'[Len(todo')] = Op("gradle")
        /\ \A k \in 1 .. Len(todo') - 1 : \E f \in Kept : todo'[k] = Write(f)
    BY <1>6 DEF BeginsBuild
  <2>2. i = Len(todo') \/ i \in 1 .. Len(todo') - 1
    OBVIOUS
  <2> QED
    BY <2>1, <2>2, WritesAnytime, AnytimeDue
<1>7. CASE BeginsSetup(todo')
  <2>1. PICK id \in Ids : todo' = SetupOps(id)
    BY <1>7 DEF BeginsSetup
  <2>2. i \in 1 .. 20
    BY <2>1, SetupOpsAre
  <2> QED
    BY <2>1, <2>2, SetupAnytime, AnytimeDue
<1>8. CASE BeginsAgain(todo')
  <2>1. PICK id \in Ids :
          /\ run' = "recreate" /\ Len(todo') = 22
          /\ todo'[1] = Op("wipe") /\ todo'[2] = Op("clear")
          /\ \A k \in 1 .. 20 : todo'[2 + k] = SetupOps(id)[k]
    BY <1>8 DEF BeginsAgain
  <2>2. i = 1 \/ i = 2 \/ (i - 2 \in 1 .. 20 /\ 2 + (i - 2) = i)
    BY <2>1
  <2>3. CASE i = 1
    BY <2>1, <2>3, Names DEF Due
  <2>4. CASE i = 2
    BY <2>1, <2>4, Names DEF Due
  <2>5. CASE i - 2 \in 1 .. 20 /\ 2 + (i - 2) = i
    <3>1. todo'[i] = SetupOps(id)[i - 2]
      BY <2>1, <2>5
    <3> QED
      BY <2>5, <3>1, SetupAnytime, AnytimeDue
  <2> QED
    BY <2>2, <2>3, <2>4, <2>5
<1> QED
  BY <1>2, <1>3, <1>4, <1>5, <1>6, <1>7, <1>8, Beginnings

LEMMA OperatesDue ==
  ASSUME ContentOK, DiskOK, ControlOK, Prepared, Operates
  PROVE  Prepared'
<1> DEFINE o == todo[1]
<1>1. todo # <<>> /\ todo' = Tail(todo) /\ run' = run
  BY Operating
<1>2. /\ Len(todo) \in Nat /\ Len(todo) >= 1 /\ Len(todo') = Len(todo) - 1
      /\ \A i \in 1 .. Len(todo) - 1 : todo'[i] = todo[i + 1]
  BY <1>1, Heads
<1>3. /\ \A t \in Tests :
           \/ tests'[t] = tests[t]
           \/ o.op \in {"wipe", "delete"} /\ tests'[t] = "none"
           \/ o.op \in {"insert", "status"} /\ o.test = t
      /\ o.op = "wipe" => \A t \in Tests : tests'[t] = "none"
      /\ o.op = "delete" => tests'[o.test] = "none"
      /\ o.op = "template" => src'[o.test] = "template"
  BY Effects
<1>4. todo \in Seq(Operation)
  BY DEF ControlOK
<1> SUFFICES ASSUME NEW i \in 1 .. Len(todo')
             PROVE  Due(i)'
  BY DEF Prepared
<1>5. /\ i \in 1 .. Len(todo) - 1 /\ i + 1 \in 1 .. Len(todo) /\ 1 \in 1 .. Len(todo)
      /\ i + 1 # 1 /\ (i + 1 = 2 => i = 1)
  BY <1>2
<1>6. todo'[i] = todo[i + 1] /\ Due(i + 1) /\ Due(1)
  BY <1>2, <1>5 DEF Prepared
<1> DEFINE p == todo[i + 1]
<1>7. p \in Operation
  BY <1>4, <1>5, ElementOfSeq
<1>8. p.op \notin {"template", "status", "delete", "wipe"}
  BY <1>5, <1>6 DEF Due
<1>9. ASSUME p.op = "insert"
      PROVE  run = "new" /\ i = 1 /\ src'[p.test] = "template"
  <2>1. run = "new" /\ i + 1 = 2 /\ o = Of("template", todo[2].test)
    BY <1>5, <1>6, <1>9 DEF Due
  <2>2. i = 1 /\ o.op = "template" /\ o.test = todo[2].test
    BY <1>5, <2>1, Names
  <2>3. o.test = p.test
    BY <2>1, <2>2
  <2> QED
    BY <1>3, <2>1, <2>2, <2>3
<1>10. ASSUME p.op = "unlink"
       PROVE  run = "remove" /\ tests'[p.test] = "none"
  <2>1. /\ run = "remove" /\ p.test \in Tests
        /\ tests[p.test] = "none" \/ o = Of("delete", p.test)
    BY <1>6, <1>7, <1>10, Fields DEF Due
  <2>2. CASE o = Of("delete", p.test)
    <3>1. o.op = "delete" /\ o.test = p.test
      BY <2>2, Names
    <3> QED
      BY <1>3, <2>1, <3>1
  <2>3. CASE tests[p.test] = "none"
    <3>1. o.op \notin {"insert", "status"}
      BY <1>6, <2>1 DEF Due
    <3> QED
      BY <1>3, <2>1, <2>3, <3>1
  <2> QED
    BY <2>1, <2>2, <2>3
<1>11. ASSUME p.op = "clear"
       PROVE  run = "recreate" /\ i = 1 /\ \A t \in Tests : tests'[t] = "none"
  <2>1. run = "recreate" /\ i + 1 = 2 /\ o.op = "wipe"
    BY <1>5, <1>6, <1>11 DEF Due
  <2> QED
    BY <1>3, <1>5, <2>1
<1>12. todo'[i] = p /\ (i = 1 => todo'[1] = p)
  BY <1>6
<1> HIDE DEF o, p
<1> QED
  BY <1>1, <1>8, <1>9, <1>10, <1>11, <1>12 DEF Due


LEMMA DueInit == Init => Prepared /\ TestsHaveFiles
<1> SUFFICES ASSUME Init PROVE Prepared /\ TestsHaveFiles
  OBVIOUS
<1>1. Len(todo) = 0
  BY DEF Init
<1> QED
  BY <1>1 DEF Init, Prepared, TestsHaveFiles

(* The first of the operations left, and what its being due means for the  *)
(* tests: the file of a test that has a row is not touched.                *)
LEMMA RowsUntouched ==
  ASSUME ContentOK, DiskOK, ControlOK, Prepared, todo # <<>>, NEW o, o = todo[1],
         NEW t \in Tests, tests[t] # "none"
  PROVE  o.op # "clear" /\ (o.op \in {"template", "unlink"} => o.test # t)
<1>1. Due(1)
  BY Heads DEF Prepared
<1> QED
  BY <1>1 DEF Due

LEMMA FilesStay ==
  ASSUME ContentOK, DiskOK, ControlOK, Prepared, Operates \/ Fail,
         NEW t \in Tests, tests[t] # "none"
  PROVE  src'[t] = src[t]
<1> DEFINE o == todo[1]
<1>1. todo # <<>>
  BY Operating DEF Fail
<1>2. o.op # "clear" /\ (o.op \in {"template", "unlink"} => o.test # t)
  BY <1>1, RowsUntouched
<1>3. CASE Operates
  <2>1. \/ src'[t] = src[t]
        \/ o.op = "template" /\ o.test = t
        \/ o.op = "unlink" /\ o.test = t
        \/ o.op = "clear"
    BY <1>3, Effects
  <2> QED
    BY <1>2, <2>1
<1>4. CASE Fail
  <2>1. \/ src'[t] = src[t]
        \/ o.op = "template" /\ o.test = t
        \/ o.op = "clear"
    BY <1>1, <1>4, HalfEffects DEF Fail
  <2> QED
    BY <1>2, <2>1
<1> QED
  BY <1>3, <1>4

(* A row that is new has its file already.                                 *)
LEMMA RowsFollow ==
  ASSUME ContentOK, DiskOK, ControlOK, Prepared, Operates,
         NEW t \in Tests, tests[t] = "none", tests'[t] # "none"
  PROVE  src'[t] = "template"
<1> DEFINE o == todo[1]
<1>1. todo # <<>>
  BY Operating
<1>2. Due(1)
  BY <1>1, Heads DEF Prepared
<1>3. /\ \/ tests'[t] = tests[t]
         \/ o.op \in {"wipe", "delete"} /\ tests'[t] = "none"
         \/ o.op \in {"insert", "status"} /\ o.test = t
      /\ \/ src'[t] = src[t]
         \/ o.op = "template" /\ o.test = t /\ src'[t] = "template"
         \/ o.op = "unlink" /\ o.test = t
         \/ o.op = "clear"
  BY Effects
<1>4. o.op \in {"insert", "status"} /\ o.test = t
  BY <1>3
<1>5. o.op = "insert" /\ src[t] = "template"
  BY <1>2, <1>4 DEF Due
<1> QED
  BY <1>3, <1>5

LEMMA DueStep ==
  ASSUME ContentOK, DiskOK, ControlOK, Prepared, [Next]_vars
  PROVE  Prepared'
<1>1. CASE Begins
  BY <1>1, BeginsDue
<1>2. CASE Operates
  BY <1>2, OperatesDue
<1>3. CASE Succeed \/ Fail \/ Refused
  <2>1. todo' = <<>>
    BY <1>3 DEF Succeed, Fail, Refused
  <2>2. Len(todo') = 0
    BY <2>1
  <2> QED
    BY <2>2 DEF Prepared
<1>4. CASE (\E t \in Tests : Edit(t)) \/ StopRegeneration
  <2>1. todo' = todo /\ run = "none" /\ run' = run /\ tests' = tests
    BY <1>4 DEF Edit, StopRegeneration, database
  <2> SUFFICES ASSUME NEW i \in 1 .. Len(todo) PROVE Due(i)'
    BY <2>1 DEF Prepared
  <2>2. Due(i)
    BY DEF Prepared
  <2> QED
    BY <2>1, <2>2 DEF Due
<1>5. CASE UNCHANGED vars
  BY <1>5 DEF vars, Prepared, Due
<1> QED
  BY <1>1, <1>2, <1>3, <1>4, <1>5, NextIs

LEMMA FilesStep ==
  ASSUME ContentOK, DiskOK, ControlOK, Prepared, TestsHaveFiles, [Next]_vars
  PROVE  TestsHaveFiles'
<1> SUFFICES ASSUME NEW t \in Tests, tests'[t] # "none"
             PROVE  src'[t] \in {"template", "edited"}
  BY DEF TestsHaveFiles
<1>1. tests[t] # "none" => src[t] \in {"template", "edited"}
  BY DEF TestsHaveFiles
<1>2. CASE Operates
  <2>1. CASE tests[t] = "none"
    BY <1>2, <2>1, RowsFollow
  <2>2. CASE tests[t] # "none"
    BY <1>1, <1>2, <2>2, FilesStay
  <2> QED
    BY <2>1, <2>2
<1>3. CASE Fail
  <2>1. tests' = tests
    BY <1>3 DEF Fail, database
  <2> QED
    BY <1>1, <1>3, <2>1, FilesStay
<1>4. CASE Begins
  BY <1>1, <1>4, Beginnings DEF database, disk
<1>5. CASE Succeed \/ Refused \/ StopRegeneration \/ UNCHANGED vars
  BY <1>1, <1>5 DEF Succeed, Refused, StopRegeneration, vars, database, disk
<1>6. ASSUME NEW u \in Tests, Edit(u)
      PROVE  src'[t] \in {"template", "edited"}
  BY <1>1, <1>6 DEF Edit, database, DiskOK
<1> QED
  BY <1>2, <1>3, <1>4, <1>5, <1>6, NextIs

(* A test that the database has, and that every update of the templates    *)
(* names, has a source file, whatever failed and when.                     *)
THEOREM FilesOfTests == Spec => []TestsHaveFiles
<1>1. Init => TypeOK /\ Idle /\ Prepared /\ TestsHaveFiles
  BY TypeInit, IdleInit, DueInit
<1>2. TypeOK /\ Idle /\ Prepared /\ TestsHaveFiles /\ [Next]_vars
      => TypeOK' /\ Idle' /\ Prepared' /\ TestsHaveFiles'
  BY TypeStep, TypeParts, DueStep, FilesStep
<1> QED
  BY <1>1, <1>2, PTL DEF Spec

(* What the user wrote into the file of a recorded test stays: no command, *)
(* complete or cut off, writes or removes it before the row is gone.       *)
THEOREM EditsStay == Spec => WorkKept
<1> DEFINE Stay == \A t \in Tests : tests[t] # "none" /\ src[t] = "edited" => src'[t] = "edited"
<1>1. Init => TypeOK /\ Idle /\ Prepared
  BY TypeInit, IdleInit, DueInit
<1>2. TypeOK /\ Idle /\ Prepared /\ [Next]_vars => TypeOK' /\ Idle' /\ Prepared'
  BY TypeStep, TypeParts, DueStep
<1>3. TypeOK /\ Idle /\ Prepared /\ [Next]_vars => [Stay]_vars
  <2> SUFFICES ASSUME ContentOK, DiskOK, ControlOK, Prepared, Next,
                      NEW t \in Tests, tests[t] # "none", src[t] = "edited"
               PROVE  src'[t] = "edited"
    BY TypeParts
  <2>1. CASE Operates \/ Fail
    BY <2>1, FilesStay
  <2>2. CASE Begins
    BY <2>2, Beginnings DEF disk
  <2>3. CASE Succeed \/ Refused \/ StopRegeneration
    BY <2>3 DEF Succeed, Refused, StopRegeneration, disk
  <2>4. ASSUME NEW u \in Tests, Edit(u)
        PROVE  src'[t] = "edited"
    BY <2>4 DEF Edit, DiskOK
  <2> QED
    BY <2>1, <2>2, <2>3, <2>4, NextIs
<1> QED
  BY <1>1, <1>2, <1>3, PTL DEF Spec, WorkKept


-------------------------------------------------------------------------------
(* What gradle builds.                                                     *)

Pending(f) == \E i \in 1 .. Len(todo) : todo[i] = Write(f)

(* A build writes every kept file, unless it is as recorded already, before *)
(* it runs gradle.                                                         *)
OnlyBuilds(i) ==
  /\ todo[i].op = "gradle" => i = Len(todo) /\ run = "build"
  /\ run = "build" => todo[i].op \in {"write", "gradle"}
Regenerated ==
  /\ \A i \in 1 .. Len(todo) : OnlyBuilds(i)
  /\ run = "build" /\ todo # <<>> /\ ~noregen =>
       \A f \in Kept : gen[f] = Content(f) \/ Pending(f)

(* The application id is written to the build file after it is recorded.   *)
DoneRuns == (run \notin {"none", "setup"} => done) /\ (run = "setup" /\ todo # <<>> => ~done)
BuildLast(i) ==
  /\ todo[i].op \in {"id", "clear"} =>
       \E j \in 1 .. Len(todo) : j > i /\ todo[j] = Write(AppBuild)
  /\ todo[i] = Write(AppBuild) => run \in {"id", "recreate", "setup"}
  /\ todo[i].op = "empty" => todo[i].file # AppBuild
  /\ todo[i].op = "done" => i = Len(todo) /\ run \in {"setup", "recreate"}
  /\ todo[i].op = "perms" => run \in {"setup", "recreate"}
Trusted == run \in {"setup", "recreate", "id"} \/ (done /\ cut \cap {"id", "recreate"} = {})
IdWritten == Trusted => gen[AppBuild].id = appId \/ Pending(AppBuild)
IdKept == DoneRuns /\ (\A i \in 1 .. Len(todo) : BuildLast(i)) /\ IdWritten

LEMMA WriteIs ==
  /\ \A f \in Kept : Write(f) # Write(AppBuild)
  /\ \A f, g : Write(f) = Write(g) => f = g
  /\ \A o \in Operation : o.op = "write" => o = Write(o.file)
<1>1. \A f, g : Write(f) = Write(g) => f = g
  <2> SUFFICES ASSUME NEW f, NEW g, Write(f) = Write(g) PROVE f = g
    OBVIOUS
  <2>1. Write(f).file = f /\ Write(g).file = g
    BY Names
  <2> QED
    BY <2>1
<1>2. AppBuild \notin Kept
  BY FilesAre DEF Kept
<1>3. ASSUME NEW o \in Operation, o.op = "write"
      PROVE  o = Write(o.file)
  BY <1>3 DEF Operation, Write
<1> QED
  BY <1>1, <1>2, <1>3

(* What follows from the name of an operation alone.                       *)
LEMMA BuildLastSimple ==
  ASSUME NEW i, \/ todo'[i].op \in {"fix", "template", "insert", "delete", "unlink", "status",
                                    "wipe", "gradle"}
                \/ \E f \in Kept : todo'[i] = Write(f)
  PROVE  BuildLast(i)'
<1>1. CASE \E f \in Kept : todo'[i] = Write(f)
  <2>1. todo'[i].op = "write" /\ todo'[i] # Write(AppBuild)
    BY <1>1, Names, WriteIs
  <2> QED
    BY <2>1 DEF BuildLast
<1>2. CASE todo'[i].op \in {"fix", "template", "insert", "delete", "unlink", "status", "wipe",
                            "gradle"}
  <2>1. todo'[i] # Write(AppBuild)
    BY <1>2, Names
  <2> QED
    BY <1>2, <2>1 DEF BuildLast
<1> QED
  BY <1>1, <1>2

LEMMA SetupBuildLast ==
  ASSUME NEW id \in Ids, NEW i, NEW k \in 1 .. 20, todo'[i] = SetupOps(id)[k],
         run' \in {"setup", "recreate"},
         k = 20 => i = Len(todo'),
         k = 1 => \E j \in 1 .. Len(todo') : j > i /\ todo'[j] = Write(AppBuild)
  PROVE  BuildLast(i)'
<1>1. CASE k = 1
  <2>1. todo'[i].op = "id" /\ todo'[i] # Write(AppBuild)
    BY <1>1, SetupOpsAre, Names
  <2> QED
    BY <1>1, <2>1 DEF BuildLast
<1>2. CASE k = 20
  <2>1. todo'[i].op = "done" /\ todo'[i] # Write(AppBuild)
    BY <1>2, SetupOpsAre, Names
  <2> QED
    BY <1>2, <2>1 DEF BuildLast
<1>3. CASE k \in 2 .. 19
  <2> DEFINE o == SetupOps(id)[k]
  <2>1. o = Op("perms") \/ IsTemplate(o)
    BY <1>3, SetupOpsAre
  <2> HIDE DEF o
  <2>2. o.op \in {"perms", "fix", "write", "empty"} /\ (o.op = "empty" => o.file # AppBuild)
    BY <2>1, Names, TemplateNames
  <2>3. todo'[i].op \in {"perms", "fix", "write", "empty"}
        /\ (todo'[i].op = "empty" => todo'[i].file # AppBuild)
    BY <2>2 DEF o
  <2> QED
    BY <2>3 DEF BuildLast
<1> QED
  BY <1>1, <1>2, <1>3


LEMMA SetupGradle ==
  ASSUME NEW id \in Ids, NEW k \in 1 .. 20
  PROVE  SetupOps(id)[k].op # "gradle"
<1> DEFINE o == SetupOps(id)[k]
<1>1. k = 1 \/ k = 20 \/ k \in 2 .. 19
  OBVIOUS
<1>2. o = SetId(id) \/ o = Op("done") \/ o = Op("perms") \/ IsTemplate(o)
  BY <1>1, SetupOpsAre
<1> HIDE DEF o
<1>3. o.op # "gradle"
  BY <1>2, Names, TemplateNames
<1> QED
  BY <1>3 DEF o

LEMMA OtherRuns ==
  ASSUME NEW i, run' # "build", todo'[i].op # "gradle"
  PROVE  OnlyBuilds(i)'
BY DEF OnlyBuilds

(* The commands that do not set the application id leave it as it was.     *)
LEMMA IdAsBefore ==
  ASSUME Idle, IdKept, run = "none", run' \in {"new", "status", "remove", "build"}, done,
         UNCHANGED <<database, disk, cut>>
  PROVE  DoneRuns' /\ IdWritten'
<1>1. todo = <<>>
  BY DEF Idle
<1>2. ~Pending(AppBuild)
  BY <1>1 DEF Pending
<1>3. DoneRuns'
  BY DEF DoneRuns, database
<1>4. Trusted' => Trusted
  BY DEF Trusted, database
<1>5. Trusted => gen[AppBuild].id = appId
  BY <1>2 DEF IdKept, IdWritten
<1> QED
  BY <1>3, <1>4, <1>5 DEF IdWritten, database, disk

LEMMA BeginsRecorded ==
  ASSUME ContentOK, ControlOK, Idle, IdKept, Begins
  PROVE  Regenerated' /\ IdKept'
<1>1. run = "none" /\ UNCHANGED <<database, disk, cut, faults>> /\ UNCHANGED <<database, disk, cut>>
  BY Beginnings
<1> DEFINE Fine(i) == OnlyBuilds(i)' /\ BuildLast(i)'
           All == \A i \in 1 .. Len(todo') : Fine(i)
<1>2. CASE BeginsNew(todo')
  <2>1. PICK t \in Tests :
          /\ done /\ run' = "new"
          /\ Len(todo') = 10 /\ todo'[1] = Of("template", t) /\ todo'[2] = Of("insert", t)
          /\ \A k \in 3 .. 10 : \E f \in Kept : todo'[k] = Write(f)
    BY <1>2 DEF BeginsNew
  <2>2. ASSUME NEW i \in 1 .. Len(todo')
        PROVE  Fine(i)
    <3>1. i = 1 \/ i = 2 \/ i \in 3 .. 10
      BY <2>1
    <3>2. todo'[i].op \in {"template", "insert"} \/ \E f \in Kept : todo'[i] = Write(f)
      BY <2>1, <3>1, Names
    <3>3. todo'[i].op # "gradle"
      BY <3>2, Names
    <3> QED
      BY <2>1, <3>2, <3>3, OtherRuns, BuildLastSimple
  <2>3. DoneRuns' /\ IdWritten'
    BY <1>1, <2>1, IdAsBefore
  <2> QED
    BY <2>1, <2>2, <2>3 DEF Regenerated, IdKept
<1>3. CASE BeginsRemove(todo')
  <2>1. PICK t \in Tests :
          /\ done /\ run' = "remove"
          /\ Len(todo') = 10 /\ todo'[1] = Of("delete", t) /\ todo'[10] = Of("unlink", t)
          /\ \A k \in 2 .. 9 : \E f \in Kept : todo'[k] = Write(f)
    BY <1>3 DEF BeginsRemove
  <2>2. ASSUME NEW i \in 1 .. Len(todo')
        PROVE  Fine(i)
    <3>1. i = 1 \/ i = 10 \/ i \in 2 .. 9
      BY <2>1
    <3>2. todo'[i].op \in {"delete", "unlink"} \/ \E f \in Kept : todo'[i] = Write(f)
      BY <2>1, <3>1, Names
    <3>3. todo'[i].op # "gradle"
      BY <3>2, Names
    <3> QED
      BY <2>1, <3>2, <3>3, OtherRuns, BuildLastSimple
  <2>3. DoneRuns' /\ IdWritten'
    BY <1>1, <2>1, IdAsBefore
  <2> QED
    BY <2>1, <2>2, <2>3 DEF Regenerated, IdKept
<1>4. CASE BeginsStatus(todo')
  <2>1. /\ done /\ run' = "status" /\ todo'[1].op = "status"
        /\ \A k \in 2 .. Len(todo') : \E f \in Kept : todo'[k] = Write(f)
    BY <1>4 DEF BeginsStatus
  <2>2. ASSUME NEW i \in 1 .. Len(todo')
        PROVE  Fine(i)
    <3>1. i = 1 \/ i \in 2 .. Len(todo')
      OBVIOUS
    <3>2. todo'[i].op = "status" \/ \E f \in Kept : todo'[i] = Write(f)
      BY <2>1, <3>1
    <3>3. todo'[i].op # "gradle"
      BY <3>2, Names
    <3> QED
      BY <2>1, <3>2, <3>3, OtherRuns, BuildLastSimple
  <2>3. DoneRuns' /\ IdWritten'
    BY <1>1, <2>1, IdAsBefore
  <2> QED
    BY <2>1, <2>2, <2>3 DEF Regenerated, IdKept
<1>5. CASE BeginsBuild(todo')
  <2>1. /\ done /\ run' = "build" /\ Len(todo') >= 1
        /\ todo'[Len(todo')] = Op("gradle")
        /\ \A k \in 1 .. Len(todo') - 1 : \E f \in Kept : todo'[k] = Write(f)
        /\ ~noregen => \A f \in Kept : \E k \in 1 .. Len(todo') : todo'[k] = Write(f)
    BY <1>5 DEF BeginsBuild
  <2>2. ASSUME NEW i \in 1 .. Len(todo')
        PROVE  Fine(i)
    <3>1. CASE i = Len(todo')
      <4>1. todo'[i].op = "gradle"
        BY <2>1, <3>1, Names
      <4> QED
        BY <2>1, <3>1, <4>1, BuildLastSimple DEF OnlyBuilds
    <3>2. CASE i \in 1 .. Len(todo') - 1
      <4>1. \E f \in Kept : todo'[i] = Write(f)
        BY <2>1, <3>2
      <4>2. todo'[i].op = "write"
        BY <4>1, Names
      <4> QED
        BY <4>1, <4>2, BuildLastSimple DEF OnlyBuilds
    <3> QED
      BY <2>1, <3>1, <3>2
  <2>3. DoneRuns' /\ IdWritten'
    BY <1>1, <2>1, IdAsBefore
  <2>4. ~noregen' => \A f \in Kept : Pending(f)'
    BY <1>1, <2>1 DEF Pending, disk
  <2> QED
    BY <2>2, <2>3, <2>4 DEF Regenerated, IdKept
<1>6. CASE BeginsId(todo')
  <2>1. /\ done /\ run' = "id" /\ Len(todo') = 2
        /\ (\E id \in Ids : todo'[1] = SetId(id)) /\ todo'[2] = Write(AppBuild)
    BY <1>6 DEF BeginsId
  <2>2. todo'[1].op = "id" /\ todo'[2].op = "write" /\ todo'[1] # Write(AppBuild)
    BY <2>1, Names
  <2>3. 2 \in 1 .. Len(todo') /\ 2 > 1
    BY <2>1
  <2>4. Fine(1)
    BY <2>1, <2>2, <2>3 DEF OnlyBuilds, BuildLast
  <2>5. Fine(2)
    BY <2>1, <2>2 DEF OnlyBuilds, BuildLast
  <2>6. All
    BY <2>1, <2>4, <2>5
  <2>7. Pending(AppBuild)'
    BY <2>1, <2>3 DEF Pending
  <2>8. DoneRuns'
    BY <1>1, <2>1 DEF DoneRuns, database
  <2> QED
    BY <2>1, <2>6, <2>7, <2>8 DEF Regenerated, IdKept, IdWritten
<1>7. CASE BeginsSetup(todo')
  <2>1. PICK id \in Ids : ~done /\ run' = "setup" /\ todo' = SetupOps(id)
    BY <1>7 DEF BeginsSetup
  <2>2. Len(todo') = 20 /\ todo'[6] = Write(AppBuild)
    BY <2>1, SetupOpsAre
  <2>3. ASSUME NEW i \in 1 .. Len(todo')
        PROVE  Fine(i)
    <3>1. i \in 1 .. 20 /\ (i = 1 => 6 > i) /\ 6 \in 1 .. Len(todo')
      BY <2>2
    <3>2. todo'[i] = SetupOps(id)[i]
      BY <2>1
    <3>3. BuildLast(i)'
      BY <2>1, <2>2, <3>1, <3>2, SetupBuildLast
    <3>4. todo'[i].op # "gradle"
      BY <3>1, <3>2, SetupGradle
    <3> QED
      BY <2>1, <3>3, <3>4, OtherRuns
  <2>4. Pending(AppBuild)'
    BY <2>2 DEF Pending
  <2>5. DoneRuns'
    BY <1>1, <2>1 DEF DoneRuns, database
  <2> QED
    BY <2>1, <2>3, <2>4, <2>5 DEF Regenerated, IdKept, IdWritten
<1>8. CASE BeginsAgain(todo')
  <2>1. PICK id \in Ids :
          /\ done /\ run' = "recreate" /\ Len(todo') = 22
          /\ todo'[1] = Op("wipe") /\ todo'[2] = Op("clear")
          /\ \A k \in 1 .. 20 : todo'[2 + k] = SetupOps(id)[k]
    BY <1>8 DEF BeginsAgain
  <2>2. todo'[8] = Write(AppBuild) /\ 8 \in 1 .. Len(todo')
    <3>1. 6 \in 1 .. 20 /\ 2 + 6 = 8
      OBVIOUS
    <3>2. todo'[8] = SetupOps(id)[6]
      BY <2>1, <3>1
    <3> QED
      BY <2>1, <3>2, SetupOpsAre
  <2>3. todo'[1].op = "wipe" /\ todo'[2].op = "clear" /\ todo'[2] # Write(AppBuild)
    BY <2>1, Names
  <2>4. Fine(1)
    BY <2>1, <2>3, OtherRuns, BuildLastSimple
  <2>5. Fine(2)
    <3>1. 8 > 2
      OBVIOUS
    <3> QED
      BY <2>1, <2>2, <2>3, <3>1, OtherRuns DEF BuildLast
  <2>6. ASSUME NEW i \in 3 .. 22
        PROVE  Fine(i)
    <3>1. /\ i - 2 \in 1 .. 20 /\ 2 + (i - 2) = i
          /\ (i - 2 = 1 => 8 > i) /\ (i - 2 = 20 => i = 22)
      OBVIOUS
    <3>2. todo'[i] = SetupOps(id)[i - 2]
      BY <2>1, <3>1
    <3>3. BuildLast(i)'
      BY <2>1, <2>2, <3>1, <3>2, SetupBuildLast
    <3>4. todo'[i].op # "gradle"
      BY <3>1, <3>2, SetupGradle
    <3> QED
      BY <2>1, <3>3, <3>4, OtherRuns
  <2>7. All
    <3>1. \A i \in 1 .. Len(todo') : i = 1 \/ i = 2 \/ i \in 3 .. 22
      BY <2>1
    <3> HIDE DEF Fine
    <3> QED
      BY <2>4, <2>5, <2>6, <3>1
  <2>8. Pending(AppBuild)'
    BY <2>2 DEF Pending
  <2>9. DoneRuns'
    BY <1>1, <2>1 DEF DoneRuns, database
  <2> QED
    BY <2>1, <2>7, <2>8, <2>9 DEF Regenerated, IdKept, IdWritten
<1> QED
  BY <1>2, <1>3, <1>4, <1>5, <1>6, <1>7, <1>8, Beginnings


LEMMA FileEffects ==
  ASSUME ContentOK, DiskOK, ControlOK, Operates, NEW o, o = todo[1]
  PROVE  /\ noregen' = noregen \/ o.op = "clear"
         /\ done' = done \/ o.op = "done"
         /\ appId' = appId \/ o.op = "id"
         /\ (tests' = tests /\ perms' = perms)
              \/ o.op \in {"wipe", "insert", "status", "delete", "perms"}
         /\ \A f \in Generated : \/ gen'[f] = gen[f]
                                 \/ o.op = "clear"
                                 \/ o.op \in {"write", "empty"} /\ o.file = f
         /\ o.op = "write" => o.file \in Generated /\ gen'[o.file] = Content(o.file)
<1>1. Head(todo) = o /\ o \in Operation
  BY Operating, Heads
<1>2. o.op \in {"write", "empty"} => o.file \in Generated
  BY <1>1, Fields
<1>3. DOMAIN gen = Generated
  BY DEF DiskOK
<1>4. CASE Wipe
  BY <1>1, <1>4 DEF Wipe, Doing, disk
<1>5. CASE Clear
  BY <1>1, <1>5 DEF Clear, Doing, database
<1>6. CASE AddPermissions
  BY <1>1, <1>6 DEF AddPermissions, Doing, disk
<1>7. CASE UpdateId
  BY <1>1, <1>7 DEF UpdateId, Doing, disk
<1>8. CASE Finish
  BY <1>1, <1>8 DEF Finish, Doing, disk
<1>9. CASE UpdateRow
  BY <1>1, <1>9 DEF UpdateRow, Doing, disk
<1>10. CASE Render
  BY <1>1, <1>2, <1>3, <1>10 DEF Render, Doing, database
<1>11. CASE WriteFixed
  BY <1>1, <1>11 DEF WriteFixed, Doing, database
<1>12. CASE RenderTest
  BY <1>1, <1>12 DEF RenderTest, Doing, database
<1>13. CASE Unlink
  BY <1>1, <1>13 DEF Unlink, Doing, database
<1>14. CASE Gradle
  BY <1>1, <1>14 DEF Gradle, Doing, database, disk
<1> QED
  BY <1>4, <1>5, <1>6, <1>7, <1>8, <1>9, <1>10, <1>11, <1>12, <1>13, <1>14 DEF Operates

LEMMA HalfFileEffects ==
  ASSUME DiskOK, ControlOK, todo # <<>>, HalfDone, NEW o, o = todo[1], NEW f \in Generated
  PROVE  gen'[f] = gen[f] \/ o.op = "clear" \/ (o.op \in {"write", "empty"} /\ o.file = f)
<1>1. Head(todo) = o
  BY Heads
<1>2. DOMAIN gen = Generated
  BY DEF DiskOK
<1> QED
  BY <1>1, <1>2 DEF HalfDone, Doing, disk

(* What is still to be written, but for what the first operation writes.   *)
LEMMA PendingAfter ==
  ASSUME ControlOK, Operates, NEW f, Pending(f)
  PROVE  Pending(f)' \/ todo[1] = Write(f)
<1>1. todo # <<>> /\ todo' = Tail(todo)
  BY Operating
<1>2. /\ Len(todo) \in Nat /\ Len(todo) >= 1 /\ Len(todo') = Len(todo) - 1
      /\ \A i \in 1 .. Len(todo) - 1 : todo'[i] = todo[i + 1]
  BY <1>1, Heads
<1>3. PICK i \in 1 .. Len(todo) : todo[i] = Write(f)
  BY DEF Pending
<1>4. CASE i # 1
  <2>1. i - 1 \in 1 .. Len(todo) - 1 /\ (i - 1) + 1 = i /\ i - 1 \in 1 .. Len(todo')
    BY <1>2, <1>4
  <2>2. todo'[i - 1] = Write(f)
    BY <1>2, <1>3, <2>1
  <2> QED
    BY <2>1, <2>2 DEF Pending
<1> QED
  BY <1>3, <1>4

LEMMA OperatesRegenerated ==
  ASSUME ContentOK, DiskOK, ControlOK, Regenerated, Operates
  PROVE  Regenerated'
<1> DEFINE o == todo[1]
<1>1. todo # <<>> /\ todo' = Tail(todo) /\ run' = run
  BY Operating
<1>2. /\ Len(todo) \in Nat /\ Len(todo) >= 1 /\ Len(todo') = Len(todo) - 1
      /\ \A i \in 1 .. Len(todo) - 1 : todo'[i] = todo[i + 1]
  BY <1>1, Heads
<1>3. ASSUME NEW i \in 1 .. Len(todo')
      PROVE  OnlyBuilds(i)'
  <2>1. i \in 1 .. Len(todo) - 1 /\ i + 1 \in 1 .. Len(todo)
        /\ (i + 1 = Len(todo) => i = Len(todo'))
    BY <1>2
  <2>2. todo'[i] = todo[i + 1] /\ OnlyBuilds(i + 1)
    BY <1>2, <2>1 DEF Regenerated
  <2> QED
    BY <1>1, <2>1, <2>2 DEF OnlyBuilds
<1>4. ASSUME run = "build", todo' # <<>>, ~noregen', NEW f \in Kept
      PROVE  gen'[f] = Content(f)' \/ Pending(f)'
  <2>1. 1 \in 1 .. Len(todo)
    BY <1>2
  <2>2. OnlyBuilds(1)
    BY <2>1 DEF Regenerated
  <2>3. o.op = "write"
    <3>1. CASE o.op = "gradle"
      <4>1. Len(todo) = 1
        BY <2>2, <3>1 DEF OnlyBuilds
      <4>2. Len(todo') = 0 /\ todo' \in Seq(Operation)
        BY <1>1, <1>2, <4>1, Heads
      <4>3. todo' = <<>>
        BY <4>2, EmptySeq
      <4> QED
        BY <1>4, <4>3
    <3> QED
      BY <1>4, <2>2, <3>1 DEF OnlyBuilds
  <2>4. /\ noregen' = noregen /\ appId' = appId /\ tests' = tests /\ perms' = perms
        /\ o.file \in Generated /\ gen'[o.file] = Content(o.file)
        /\ \A g \in Generated : gen'[g] = gen[g] \/ o.file = g
    BY <2>3, FileEffects
  <2>5. Content(f)' = Content(f)
    BY <2>4 DEF Content, Recorded, Listed
  <2>6. f \in Generated
    BY FilesAre DEF Kept
  <2>7. CASE Pending(f)
    <3>1. o = Write(f) => o.file = f
      BY Names
    <3> QED
      BY <2>4, <2>5, <2>7, <3>1, PendingAfter
  <2>8. CASE gen[f] = Content(f)
    BY <2>4, <2>5, <2>6, <2>8
  <2>9. ~noregen
    BY <1>4, <2>4
  <2> QED
    BY <1>1, <1>4, <2>7, <2>8, <2>9 DEF Regenerated
<1> QED
  BY <1>1, <1>3, <1>4 DEF Regenerated

LEMMA OperatesIdKept ==
  ASSUME ContentOK, DiskOK, ControlOK, IdKept, Operates
  PROVE  IdKept'
<1> DEFINE o == todo[1]
<1>1. todo # <<>> /\ todo' = Tail(todo) /\ run' = run /\ cut' = cut
  BY Operating
<1>2. /\ Len(todo) \in Nat /\ Len(todo) >= 1 /\ Len(todo') = Len(todo) - 1
      /\ \A i \in 1 .. Len(todo) - 1 : todo'[i] = todo[i + 1]
  BY <1>1, Heads
<1>3. 1 \in 1 .. Len(todo) /\ BuildLast(1)
  BY <1>2 DEF IdKept
<1>4. /\ done' = done \/ o.op = "done"
      /\ appId' = appId \/ o.op = "id"
      /\ \/ gen'[AppBuild] = gen[AppBuild]
         \/ o.op = "clear"
         \/ o.op \in {"write", "empty"} /\ o.file = AppBuild
      /\ o.op = "write" => gen'[o.file] = Content(o.file)
  BY FileEffects, FilesAre
<1>5. /\ o.op = "done" => todo' = <<>> /\ run \in {"setup", "recreate"} /\ done'
      /\ done => done'
  <2>1. o.op = "done" => done'
    BY <1>1, Heads DEF Operates, Wipe, Clear, AddPermissions, UpdateId, Finish, UpdateRow,
       Render, WriteFixed, RenderTest, Unlink, Gradle, Doing
  <2>2. ASSUME o.op = "done"
        PROVE  todo' = <<>> /\ run \in {"setup", "recreate"}
    <3>1. Len(todo) = 1 /\ run \in {"setup", "recreate"}
      BY <1>3, <2>2 DEF BuildLast
    <3>2. Len(todo') = 0 /\ todo' \in Seq(Operation)
      BY <1>1, <1>2, <3>1, Heads
    <3> QED
      BY <3>1, <3>2, EmptySeq
  <2> QED
    BY <1>4, <2>1, <2>2
<1>6. DoneRuns'
  BY <1>1, <1>4, <1>5 DEF IdKept, DoneRuns
<1>7. ASSUME NEW i \in 1 .. Len(todo')
      PROVE  BuildLast(i)'
  <2>1. i \in 1 .. Len(todo) - 1 /\ i + 1 \in 1 .. Len(todo)
        /\ (i + 1 = Len(todo) => i = Len(todo'))
    BY <1>2
  <2>2. todo'[i] = todo[i + 1] /\ BuildLast(i + 1)
    BY <1>2, <2>1 DEF IdKept
  <2>3. ASSUME todo'[i].op \in {"id", "clear"}
        PROVE  \E j \in 1 .. Len(todo') : j > i /\ todo'[j] = Write(AppBuild)
    <3>1. PICK j \in 1 .. Len(todo) : j > i + 1 /\ todo[j] = Write(AppBuild)
      BY <2>2, <2>3 DEF BuildLast
    <3>2. j - 1 \in 1 .. Len(todo') /\ j - 1 > i /\ (j - 1) + 1 = j
          /\ j - 1 \in 1 .. Len(todo) - 1
      BY <1>2, <2>1, <3>1
    <3>3. todo'[j - 1] = Write(AppBuild)
      BY <1>2, <3>1, <3>2
    <3> QED
      BY <3>2, <3>3
  <2> QED
    BY <1>1, <2>1, <2>2, <2>3 DEF BuildLast
<1>8. ASSUME Trusted'
      PROVE  gen'[AppBuild].id = appId' \/ Pending(AppBuild)'
  <2>1. Trusted
    BY <1>1, <1>4, <1>5, <1>8 DEF Trusted
  <2>2. gen[AppBuild].id = appId \/ Pending(AppBuild)
    BY <2>1 DEF IdKept, IdWritten
  <2>3. CASE o.op \in {"id", "clear"}
    <3>1. PICK j \in 1 .. Len(todo) : j > 1 /\ todo[j] = Write(AppBuild)
      BY <1>3, <2>3 DEF BuildLast
    <3>2. j - 1 \in 1 .. Len(todo') /\ (j - 1) + 1 = j /\ j - 1 \in 1 .. Len(todo) - 1
      BY <1>2, <3>1
    <3>3. todo'[j - 1] = Write(AppBuild)
      BY <1>2, <3>1, <3>2
    <3> QED
      BY <3>2, <3>3 DEF Pending
  <2>4. CASE o.op = "write" /\ o.file = AppBuild
    <3>1. gen'[AppBuild] = Content(AppBuild) /\ appId' = appId
      BY <1>4, <2>4
    <3>2. Content(AppBuild).id = appId
      BY DEF Content
    <3> QED
      BY <3>1, <3>2
  <2>5. CASE o.op \notin {"id", "clear"} /\ ~(o.op = "write" /\ o.file = AppBuild)
    <3>1. gen'[AppBuild] = gen[AppBuild] /\ appId' = appId
      BY <1>3, <1>4, <2>5 DEF BuildLast
    <3>2. o # Write(AppBuild)
      BY <2>5, Names
    <3> QED
      BY <2>2, <3>1, <3>2, PendingAfter
  <2> QED
    BY <2>3, <2>4, <2>5
<1> QED
  BY <1>6, <1>7, <1>8 DEF IdKept, IdWritten


LEMMA RecordedInit == Init => Regenerated /\ IdKept
<1> SUFFICES ASSUME Init PROVE Regenerated /\ IdKept
  OBVIOUS
<1>1. Len(todo) = 0 /\ todo = <<>> /\ run = "none" /\ ~done
  BY DEF Init
<1> QED
  BY <1>1 DEF Regenerated, IdKept, DoneRuns, IdWritten, Trusted

(* A run that is over has nothing left to write.                           *)
LEMMA OverRecorded ==
  ASSUME run' = "none", todo' = <<>>, IdWritten'
  PROVE  Regenerated' /\ IdKept'
<1>1. Len(todo') = 0
  OBVIOUS
<1> QED
  BY <1>1 DEF Regenerated, IdKept, DoneRuns

LEMMA SucceedRecorded ==
  ASSUME IdKept, Succeed
  PROVE  Regenerated' /\ IdKept'
<1>1. /\ run' = "none" /\ todo = <<>> /\ todo' = <<>> /\ gen' = gen /\ appId' = appId
      /\ done' = done
      /\ cut' = IF run \in {"setup", "recreate"} THEN {} ELSE cut \ {run}
  BY DEF Succeed, database, disk
<1>2. ~Pending(AppBuild)
  BY <1>1 DEF Pending
<1>3. Trusted' => Trusted
  <2>1. CASE run \in {"setup", "recreate", "id"}
    BY <2>1 DEF Trusted
  <2>2. CASE run \notin {"setup", "recreate", "id"}
    BY <1>1, <2>2 DEF Trusted
  <2> QED
    BY <2>1, <2>2
<1>4. IdWritten'
  BY <1>1, <1>2, <1>3 DEF IdKept, IdWritten
<1> QED
  BY <1>1, <1>4, OverRecorded

(* A command that is cut off and whose name does not say that it sets the  *)
(* id left the build file alone.                                           *)
LEMMA StopRecorded ==
  ASSUME ContentOK, DiskOK, ControlOK, Idle, Prepared, IdKept, Fail \/ Refused
  PROVE  Regenerated' /\ IdKept'
<1> DEFINE o == todo[1]
<1>1. /\ todo # <<>> /\ run' = "none" /\ todo' = <<>> /\ cut' = cut \cup {run}
      /\ appId' = appId /\ done' = done
  BY DEF Fail, Refused, Doing, database
<1>2. 1 \in 1 .. Len(todo) /\ BuildLast(1) /\ Due(1) /\ o \in Operation
  BY <1>1, Heads DEF IdKept, Prepared
<1>3. ASSUME Trusted'
      PROVE  gen'[AppBuild].id = appId' \/ Pending(AppBuild)'
  <2>1. done /\ cut \cap {"id", "recreate"} = {} /\ run \notin {"id", "recreate"}
    BY <1>1, <1>3 DEF Trusted
  <2>2. run # "setup"
    BY <1>1, <2>1 DEF IdKept, DoneRuns
  <2>3. ~Pending(AppBuild)
    <3> SUFFICES ASSUME NEW i \in 1 .. Len(todo), todo[i] = Write(AppBuild) PROVE FALSE
      BY DEF Pending
    <3>1. BuildLast(i)
      BY DEF IdKept
    <3> QED
      BY <2>1, <2>2, <3>1 DEF BuildLast
  <2>4. gen[AppBuild].id = appId
    BY <2>1, <2>3 DEF IdKept, IdWritten, Trusted
  <2>5. gen'[AppBuild] = gen[AppBuild]
    <3>1. CASE Refused
      BY <3>1 DEF Refused, disk
    <3>2. CASE Fail
      <4>1. \/ gen'[AppBuild] = gen[AppBuild]
            \/ o.op = "clear"
            \/ o.op \in {"write", "empty"} /\ o.file = AppBuild
        BY <1>1, <3>2, HalfFileEffects, FilesAre DEF Fail
      <4>2. o.op # "clear"
        BY <1>2, <2>1 DEF Due
      <4>3. ~(o.op = "empty" /\ o.file = AppBuild)
        BY <1>2 DEF BuildLast
      <4>4. ~(o.op = "write" /\ o.file = AppBuild)
        <5> SUFFICES ASSUME o.op = "write", o.file = AppBuild PROVE FALSE
          OBVIOUS
        <5>1. o = Write(AppBuild)
          BY <1>2, WriteIs
        <5> QED
          BY <1>2, <2>3, <5>1 DEF Pending
      <4> QED
        BY <4>1, <4>2, <4>3, <4>4
    <3> QED
      BY <3>1, <3>2
  <2> QED
    BY <1>1, <2>4, <2>5
<1> QED
  BY <1>1, <1>3, OverRecorded DEF IdWritten

LEMMA RecordedStep ==
  ASSUME ContentOK, DiskOK, ControlOK, Idle, Prepared, Regenerated, IdKept, [Next]_vars
  PROVE  Regenerated' /\ IdKept'
<1>1. CASE Begins
  BY <1>1, BeginsRecorded
<1>2. CASE Operates
  BY <1>2, OperatesRegenerated, OperatesIdKept
<1>3. CASE Succeed
  BY <1>3, SucceedRecorded
<1>4. CASE Fail \/ Refused
  BY <1>4, StopRecorded
<1>5. CASE (\E t \in Tests : Edit(t)) \/ StopRegeneration
  <2>1. /\ run = "none" /\ run' = run /\ todo' = todo /\ cut' = cut
        /\ gen' = gen /\ appId' = appId /\ done' = done
    BY <1>5 DEF Edit, StopRegeneration, database
  <2>2. todo = <<>> /\ todo' = <<>>
    BY <2>1 DEF Idle
  <2>3. IdWritten'
    BY <2>1 DEF IdKept, IdWritten, Trusted, Pending
  <2> QED
    BY <2>1, <2>2, <2>3, OverRecorded
<1>6. CASE UNCHANGED vars
  <2>1. \A f : (Content(f)' = Content(f)) /\ (Pending(f)' <=> Pending(f))
    BY <1>6 DEF vars, Content, Recorded, Listed, Pending
  <2>2. Regenerated'
    BY <1>6, <2>1 DEF vars, Regenerated, OnlyBuilds
  <2>3. IdKept'
    BY <1>6, <2>1 DEF vars, IdKept, DoneRuns, BuildLast, IdWritten, Trusted
  <2> QED
    BY <2>2, <2>3
<1> QED
  BY <1>1, <1>2, <1>3, <1>4, <1>5, <1>6, NextIs

LEMMA BuiltIsRecorded ==
  ASSUME ContentOK, DiskOK, ControlOK, Regenerated, IdKept
  PROVE  BuiltAsRecorded
<1> SUFFICES ASSUME Doing("gradle"), ~noregen
             PROVE  /\ gen[Manifest].tests = Recorded /\ gen[Manifest].perms = perms
                    /\ \A form \in {"layout", "code"} :
                         /\ UNION {gen[ListFile(form, s)].tests : s \in Statuses} = Recorded
                         /\ \A s \in Statuses : \A t \in gen[ListFile(form, s)].tests : tests[t] = s
                    /\ \A f \in Generated \ {AppBuild} : gen[f] \notin {Absent, Torn}
                    /\ gen[Config].id = appId
                    /\ cut \cap {"id", "recreate"} = {} => gen[AppBuild].id = appId
  BY DEF BuiltAsRecorded
<1>1. todo # <<>> /\ todo[1].op = "gradle"
  BY Heads DEF Doing
<1>2. Len(todo) = 1 /\ run = "build"
  <2>1. 1 \in 1 .. Len(todo)
    BY <1>1, Heads
  <2>2. OnlyBuilds(1)
    BY <2>1 DEF Regenerated
  <2> QED
    BY <1>1, <2>2 DEF OnlyBuilds
<1>3. \A f : ~Pending(f)
  BY <1>1, <1>2, Names DEF Pending
<1>4. \A f \in Kept : gen[f] = Content(f)
  BY <1>1, <1>2, <1>3 DEF Regenerated
<1>5. Config \in Kept /\ Manifest \in Kept /\ Lists \subseteq Kept
      /\ Generated \ {AppBuild} = Kept /\ Config # Manifest
  BY FilesAre DEF Kept
<1>6. /\ gen[Manifest].tests = Recorded /\ gen[Manifest].perms = perms
      /\ gen[Config].id = appId
  <2>1. Content(Manifest).tests = Recorded /\ Content(Manifest).perms = perms
    BY DEF Content
  <2>2. Content(Config).id = appId
    BY DEF Content
  <2> QED
    BY <1>4, <1>5, <2>1, <2>2
<1>7. ASSUME NEW form \in {"layout", "code"}, NEW s \in Statuses
      PROVE  gen[ListFile(form, s)].tests = Listed(s)
  <2>1. ListFile(form, s) \in Lists /\ ListFile(form, s)[2] = s
    BY DEF Lists, ListFile
  <2>2. ListFile(form, s) # Manifest
    BY <2>1, FilesAre
  <2>3. Content(ListFile(form, s)).tests = Listed(s)
    BY <2>1, <2>2 DEF Content
  <2>4. gen[ListFile(form, s)] = Content(ListFile(form, s))
    BY <1>4, <1>5, <2>1
  <2> QED
    BY <2>3, <2>4
<1>8. ASSUME NEW form \in {"layout", "code"}
      PROVE  UNION {gen[ListFile(form, s)].tests : s \in Statuses} = Recorded
  <2>1. UNION {gen[ListFile(form, s)].tests : s \in Statuses} = UNION {Listed(s) : s \in Statuses}
    BY <1>7
  <2>2. UNION {Listed(s) : s \in Statuses} = Recorded
    BY DEF Listed, Recorded, ContentOK, Statuses
  <2> QED
    BY <2>1, <2>2
<1>9. \A form \in {"layout", "code"} : \A s \in Statuses :
        \A t \in gen[ListFile(form, s)].tests : tests[t] = s
  BY <1>7 DEF Listed
<1>10. ASSUME NEW f \in Kept
       PROVE  gen[f] \notin {Absent, Torn}
  <2>1. Content(f).id \in {appId, ""}
    BY DEF Content
  <2>2. Absent.id = "absent" /\ Torn.id = "torn"
    BY DEF Absent, Torn, Blank
  <2>3. appId # "absent" /\ appId # "torn"
    BY AppProjectAssumption DEF ContentOK
  <2> QED
    BY <1>4, <2>1, <2>2, <2>3
<1>11. ASSUME cut \cap {"id", "recreate"} = {}
       PROVE  gen[AppBuild].id = appId
  <2>1. done
    BY <1>2 DEF IdKept, DoneRuns
  <2> QED
    BY <1>3, <1>11, <2>1 DEF IdKept, IdWritten, Trusted
<1> QED
  BY <1>5, <1>6, <1>8, <1>9, <1>10, <1>11

(* When gradle runs on files that dtu keeps, they say what the database    *)
(* says: the tests, by status, the permissions and the application id,     *)
(* this one unless a command that sets it was cut off.                     *)
THEOREM BuildsWhatIsRecorded == Spec => []BuiltAsRecorded
<1>1. Init => TypeOK /\ Idle /\ Prepared /\ Regenerated /\ IdKept
  BY TypeInit, IdleInit, DueInit, RecordedInit
<1>2. TypeOK /\ Idle /\ Prepared /\ Regenerated /\ IdKept /\ [Next]_vars
      => TypeOK' /\ Idle' /\ Prepared' /\ Regenerated' /\ IdKept'
  BY TypeStep, TypeParts, DueStep, RecordedStep
<1>3. TypeOK /\ Regenerated /\ IdKept => BuiltAsRecorded
  BY TypeParts, BuiltIsRecorded
<1> QED
  BY <1>1, <1>2, <1>3, PTL DEF Spec

-------------------------------------------------------------------------------
(* The application server: type correctness.                               *)

SrvPc == {"none", "queued", "command", "payload", "run", "poll", "bound", "await", "connected",
          "answer", "closed", "reset"}
Why == {"none", "payload", "request", "exception", "timeout", "couldn't bind", "null binder"}
Answer == [status : {"none", "GOOD", "FAIL"}, why : Why, of : SUBSET Requests]
Result == {"none", "usage", "refused", "io", "server", "invalid", "ok"}

(* The parts of the state that a safety property of the server is about.   *)
ServerTypes ==
  /\ queue \in Seq(Requests)
  /\ client \in [Requests -> {"start", "header", "payload", "read", "end"}]
  /\ sent \in [Requests -> Nat]
  /\ srv \in [Requests -> SrvPc]
  /\ answer \in [Requests -> Answer]
  /\ out \in [Requests -> 0 .. 3]
  /\ result \in [Requests -> Result]
  /\ thread \in [Requests -> {"none", "open", "transact", "report"}]
  /\ files \in [Services -> SUBSET Requests]
  /\ binder \in [Requests -> BOOLEAN] /\ bound \in [Requests -> BOOLEAN]
  /\ ran \in [Requests -> {0, 1}]
  /\ mixed \subseteq Requests
  /\ kind \in [Requests -> {"none", "call", "sh", "shell", "bind"}]
  /\ service \in [Requests -> Services]

(* A handler that has not run its request yet.                             *)
Before == {"none", "queued", "command", "payload", "run", "bound", "await", "connected"}

(* Each connection waits in the queue once.                                *)
QueuedOnce ==
  /\ \A i \in DOMAIN queue : srv[queue[i]] = "queued"
  /\ \A i, j \in DOMAIN queue : queue[i] = queue[j] => i = j

NothingDone(r) ==
  ran[r] = 0 /\ thread[r] = "none" /\ answer[r] = Nothing /\ out[r] = 0

(* One request, its handler and its thread.                                *)
Consistent(r) ==
  /\ srv[r] \in Before => NothingDone(r)
  /\ srv[r] = "poll" => out[r] = 0
  /\ srv[r] = "answer" => out[r] # 3 /\ answer[r].status # "none"
  /\ thread[r] # "none" => ran[r] = 0
  /\ thread[r] # "none" \/ srv[r] = "poll" => kind[r] = "shell"
  /\ bound[r] => srv[r] \in {"bound", "await", "connected"}
  /\ answer[r].status = "GOOD" => ran[r] = 1
  /\ answer[r].status = "none" => out[r] = 0 /\ answer[r] = Nothing
  /\ kind[r] # "shell" /\ answer[r].status = "FAIL" /\ answer[r].why # "exception" => ran[r] = 0

(* Its client.                                                             *)
ClientKnows(r) ==
  /\ client[r] = "start" => srv[r] = "none"
  /\ result[r] = "ok" => Closed(r) /\ ran[r] = 1 /\ (r \notin Raw => out[r] = 3)
  /\ result[r] = "refused" => client[r] = "end" /\ srv[r] = "none"

(* Two shell commands of a service that run together are mixed; the files  *)
(* of one that is not hold what it wrote.                                  *)
RunningMixed ==
  \A q, r \in Requests :
    q # r /\ service[q] = service[r] /\ q \in Running(service[q]) /\ r \in Running(service[r])
      => q \in mixed /\ r \in mixed

FilesOwn(r) ==
  r \notin mixed =>
    /\ thread[r] = "transact" => files[service[r]] = {}
    /\ thread[r] = "report" => files[service[r]] = {r}
    /\ thread[r] = "none" /\ srv[r] = "poll" /\ ran[r] = 1 => files[service[r]] = {r}
    /\ kind[r] = "shell" /\ answer[r].status = "GOOD" => answer[r].of = {r}

ServerInv ==
  /\ ServerTypes /\ QueuedOnce /\ RunningMixed
  /\ \A r \in Requests : Consistent(r) /\ ClientKnows(r) /\ FilesOwn(r)

-------------------------------------------------------------------------------
(* What a step at one request leaves of the others.                        *)

InRun(r) == thread[r] # "none" \/ srv[r] = "poll"

Same(r) ==
  /\ srv'[r] = srv[r] /\ answer'[r] = answer[r] /\ out'[r] = out[r]
  /\ thread'[r] = thread[r] /\ ran'[r] = ran[r] /\ bound'[r] = bound[r]
  /\ client'[r] = client[r] /\ result'[r] = result[r]

OnlyAt(q) ==
  /\ kind' = kind /\ service' = service /\ mixed \subseteq mixed'
  /\ \A r \in Requests \ {q} :
       Same(r) /\ (r \notin mixed' /\ InRun(r) => files'[service[r]] = files[service[r]])

LEMMA OthersStay ==
  ASSUME NEW r \in Requests, kind' = kind, service' = service, mixed \subseteq mixed', Same(r),
         r \notin mixed' /\ InRun(r) => files'[service[r]] = files[service[r]],
         Consistent(r), ClientKnows(r), FilesOwn(r)
  PROVE  Consistent(r)' /\ ClientKnows(r)' /\ FilesOwn(r)'
<1>1. NothingDone(r)' <=> NothingDone(r)
  BY DEF Same, NothingDone
<1>2. Consistent(r)'
  BY <1>1 DEF Same, Consistent
<1>3. ClientKnows(r)'
  BY DEF Same, ClientKnows, Closed
<1>4. FilesOwn(r)'
  BY DEF Same, FilesOwn, InRun
<1> QED
  BY <1>2, <1>3, <1>4

LEMMA StepAt ==
  ASSUME ServerInv, NEW q \in Requests, OnlyAt(q), ServerTypes', QueuedOnce', RunningMixed',
         Consistent(q)', ClientKnows(q)', FilesOwn(q)'
  PROVE  ServerInv'
<1>1. ASSUME NEW r \in Requests \ {q}
      PROVE  Consistent(r)' /\ ClientKnows(r)' /\ FilesOwn(r)'
  BY <1>1, OthersStay DEF OnlyAt, ServerInv
<1> QED
  BY <1>1 DEF ServerInv

LEMMA QueueStays ==
  ASSUME QueuedOnce, queue' = queue, queue \in Seq(Requests),
         \A r \in Requests : srv[r] = "queued" => srv'[r] = "queued"
  PROVE  QueuedOnce'
<1>1. \A i \in DOMAIN queue : queue[i] \in Requests
  OBVIOUS
<1> QED
  BY <1>1 DEF QueuedOnce

LEMMA MixedStays ==
  ASSUME RunningMixed, service' = service, mixed \subseteq mixed',
         \A r \in Requests : InRun(r)' => InRun(r)
  PROVE  RunningMixed'
<1>1. \A r \in Requests : r \in Running(service[r]) <=> InRun(r)
  BY DEF Running, InRun
<1>2. \A r \in Requests : (r \in Running(service[r]))' <=> InRun(r)'
  BY DEF Running, InRun
<1> QED
  BY <1>1, <1>2 DEF RunningMixed

-------------------------------------------------------------------------------
(* Answers, and the steps in which a handler makes one.                    *)

LEMMA AnswersAre ==
  /\ Nothing \in Answer /\ Nothing.status = "none"
  /\ \A S \in SUBSET Requests : /\ Good(S) \in Answer /\ Good(S).status = "GOOD"
                                /\ Good(S).of = S
  /\ \A w \in Why : /\ Failure(w) \in Answer /\ Failure(w).status = "FAIL"
                    /\ Failure(w).why = w
BY DEF Nothing, Good, Failure, Answer, Why

LEMMA AnswersTypes ==
  ASSUME ServerTypes, NEW q \in Requests, NEW a \in Answer, Answers(q, a)
  PROVE  /\ answer' \in [Requests -> Answer] /\ srv' \in [Requests -> SrvPc]
         /\ answer'[q] = a /\ srv'[q] = "answer"
         /\ \A r \in Requests \ {q} : answer'[r] = answer[r] /\ srv'[r] = srv[r]
BY DEF ServerTypes, Answers, SrvTo, SrvPc

LEMMA AnswerInv ==
  ASSUME ServerInv, NEW q \in Requests, NEW a \in Answer, Answers(q, a),
         a.status \in {"GOOD", "FAIL"},
         srv[q] \in {"payload", "run", "poll", "await", "connected"},
         UNCHANGED <<queue, client, kind, service, sent, out, result, thread, files, mixed>>,
         ran' \in [Requests -> {0, 1}], bound' \in [Requests -> BOOLEAN],
         binder' \in [Requests -> BOOLEAN],
         \A r \in Requests \ {q} : ran'[r] = ran[r] /\ bound'[r] = bound[r],
         ~bound'[q], thread[q] # "none" => ran'[q] = 0,
         a.status = "GOOD" => ran'[q] = 1,
         kind[q] # "shell" /\ a.status = "FAIL" /\ a.why # "exception" => ran'[q] = 0,
         q \notin mixed /\ kind[q] = "shell" /\ a.status = "GOOD" => a.of = {q}
  PROVE  ServerInv'
<1>0. ServerTypes /\ Consistent(q) /\ ClientKnows(q) /\ FilesOwn(q)
  BY DEF ServerInv
<1>1. /\ answer' \in [Requests -> Answer] /\ srv' \in [Requests -> SrvPc]
      /\ answer'[q] = a /\ srv'[q] = "answer"
      /\ \A r \in Requests \ {q} : answer'[r] = answer[r] /\ srv'[r] = srv[r]
  BY <1>0, AnswersTypes
<1>2. ServerTypes'
  BY <1>0, <1>1 DEF ServerTypes
<1>3. OnlyAt(q)
  BY <1>1 DEF OnlyAt, Same
<1>4. QueuedOnce'
  BY <1>0, <1>1, QueueStays DEF ServerInv, ServerTypes
<1>5. RunningMixed'
  BY <1>1, MixedStays DEF ServerInv, InRun
<1>6. Consistent(q)'
  BY <1>0, <1>1 DEF ServerTypes, Consistent, NothingDone, Before
<1>7. ClientKnows(q)'
  BY <1>0, <1>1 DEF ClientKnows, Closed
<1>8. FilesOwn(q)'
  BY <1>0, <1>1 DEF FilesOwn, Consistent, NothingDone, Before
<1> QED
  BY <1>2, <1>3, <1>4, <1>5, <1>6, <1>7, <1>8, StepAt

LEMMA RanTypes ==
  ASSUME ServerTypes, NEW q \in Requests, ran[q] = 0, Ran(q)
  PROVE  ran' \in [Requests -> {0, 1}] /\ ran'[q] = 1
         /\ \A r \in Requests \ {q} : ran'[r] = ran[r]
BY DEF ServerTypes, Ran

LEMMA ReadRequestInv ==
  ASSUME ServerInv, NEW q \in Requests, ReadRequest(q)
  PROVE  ServerInv'
<1>0. ServerTypes /\ Consistent(q) /\ ClientKnows(q) /\ FilesOwn(q) /\ srv[q] = "payload"
      /\ UNCHANGED <<queue, client, kind, service, sent, out, result, thread, files, mixed,
                     ran, bound, binder>>
  BY DEF ServerInv, ReadRequest, conn, asked, device
<1>1. ran[q] = 0 /\ thread[q] = "none" /\ ~bound[q]
  BY <1>0 DEF Consistent, Before, NothingDone
<1>2. CASE \E w \in Why : Answers(q, Failure(w))
  <2>1. PICK a \in Answer : Answers(q, a) /\ a.status = "FAIL"
    BY <1>2, AnswersAre
  <2> QED
    BY <1>0, <1>1, <2>1, AnswerInv DEF ServerTypes
<1>3. CASE SrvTo(q, "run") /\ UNCHANGED answer
  <2>1. /\ srv' \in [Requests -> SrvPc] /\ srv'[q] = "run"
        /\ \A r \in Requests \ {q} : srv'[r] = srv[r]
    BY <1>0, <1>3 DEF ServerTypes, SrvTo, SrvPc
  <2>2. ServerTypes'
    BY <1>0, <1>3, <2>1 DEF ServerTypes
  <2>3. OnlyAt(q)
    BY <1>0, <1>3, <2>1 DEF OnlyAt, Same
  <2>4. QueuedOnce' /\ RunningMixed'
    BY <1>0, <2>1, QueueStays, MixedStays DEF ServerInv, ServerTypes, InRun
  <2>5. Consistent(q)' /\ ClientKnows(q)' /\ FilesOwn(q)'
    BY <1>0, <1>1, <1>3, <2>1 DEF Consistent, ClientKnows, FilesOwn, NothingDone, Before, Closed
  <2> QED
    BY <2>2, <2>3, <2>4, <2>5, StepAt
<1> QED
  BY <1>2, <1>3 DEF ReadRequest, Why

LEMMA RunCallInv ==
  ASSUME ServerInv, NEW q \in Requests, RunCall(q)
  PROVE  ServerInv'
<1>0. ServerTypes /\ Consistent(q) /\ srv[q] = "run" /\ kind[q] = "call"
      /\ UNCHANGED <<queue, client, kind, service, sent, out, result, thread, files, mixed,
                     bound, binder>>
  BY DEF ServerInv, RunCall, conn, asked
<1>1. ran[q] = 0 /\ thread[q] = "none" /\ ~bound[q]
  BY <1>0 DEF Consistent, Before, NothingDone
<1>2. CASE Ran(q) /\ Answers(q, Good({q}))
  <2>1. PICK a \in Answer : Answers(q, a) /\ a.status = "GOOD"
    BY <1>2, AnswersAre
  <2> QED
    BY <1>0, <1>1, <1>2, <2>1, RanTypes, AnswerInv DEF ServerTypes
<1>3. CASE Answers(q, Failure("exception")) /\ (Ran(q) \/ UNCHANGED ran)
  <2>1. PICK a \in Answer : Answers(q, a) /\ a.status = "FAIL" /\ a.why = "exception"
    BY <1>3, AnswersAre DEF Why
  <2> QED
    BY <1>0, <1>1, <1>3, <2>1, RanTypes, AnswerInv DEF ServerTypes
<1> QED
  BY <1>2, <1>3 DEF RunCall

LEMMA RunProcessInv ==
  ASSUME ServerInv, NEW q \in Requests, RunProcess(q)
  PROVE  ServerInv'
<1>0. ServerTypes /\ Consistent(q) /\ srv[q] = "run" /\ kind[q] = "sh"
      /\ Ran(q) /\ Answers(q, Good({q}))
      /\ UNCHANGED <<queue, client, kind, service, sent, out, result, thread, files, mixed,
                     bound, binder>>
  BY DEF ServerInv, RunProcess, conn, asked
<1>1. ran[q] = 0 /\ thread[q] = "none" /\ ~bound[q]
  BY <1>0 DEF Consistent, Before, NothingDone
<1>2. PICK a \in Answer : Answers(q, a) /\ a.status = "GOOD"
  BY <1>0, AnswersAre
<1> QED
  BY <1>0, <1>1, <1>2, RanTypes, AnswerInv DEF ServerTypes

(* The result of a shell command: what the files hold then, the exception  *)
(* that the service threw, or a timeout.                                   *)
LEMMA PollResultInv ==
  ASSUME ServerInv, NEW q \in Requests, PollResult(q)
  PROVE  ServerInv'
<1>0. ServerTypes /\ Consistent(q) /\ FilesOwn(q) /\ srv[q] = "poll"
      /\ UNCHANGED <<queue, client, kind, service, sent, out, result, thread, files, mixed,
                     ran, bound, binder>>
  BY DEF ServerInv, PollResult, conn, asked, device
<1>1. kind[q] = "shell" /\ ~bound[q] /\ (thread[q] # "none" => ran[q] = 0)
  BY <1>0 DEF Consistent
<1>2. CASE ran[q] = 1 /\ Answers(q, Good(files[service[q]]))
  <2>1. files[service[q]] \in SUBSET Requests
    BY <1>0 DEF ServerTypes
  <2>2. PICK a \in Answer : /\ Answers(q, a) /\ a.status = "GOOD"
                            /\ a.of = files[service[q]]
    BY <1>2, <2>1, AnswersAre
  <2>3. q \notin mixed => a.of = {q}
    BY <1>0, <1>1, <1>2, <2>2 DEF FilesOwn
  <2> QED
    BY <1>0, <1>1, <1>2, <2>2, <2>3, AnswerInv DEF ServerTypes
<1>3. CASE answer[q] # Nothing /\ Answers(q, answer[q])
  <2>1. CASE answer[q].status = "none"
    BY <1>0, <1>3, <2>1 DEF Consistent
  <2>2. CASE answer[q].status # "none"
    <3>1. PICK a \in Answer : a = answer[q] /\ Answers(q, a) /\ a.status \in {"GOOD", "FAIL"}
      BY <1>0, <1>3, <2>2 DEF ServerTypes, Answer
    <3>2. a.status = "GOOD" => ran[q] = 1
      BY <1>0, <3>1 DEF Consistent
    <3>3. q \notin mixed /\ a.status = "GOOD" => a.of = {q}
      BY <1>0, <1>1, <3>1 DEF FilesOwn
    <3> QED
      BY <1>0, <1>1, <3>1, <3>2, <3>3, AnswerInv DEF ServerTypes
  <2> QED
    BY <2>1, <2>2
<1>4. CASE ran[q] = 0 /\ Answers(q, Failure("timeout"))
  <2>1. PICK a \in Answer : Answers(q, a) /\ a.status = "FAIL"
    BY <1>4, AnswersAre DEF Why
  <2> QED
    BY <1>0, <1>1, <1>4, <2>1, AnswerInv DEF ServerTypes
<1> QED
  BY <1>2, <1>3, <1>4 DEF PollResult

-------------------------------------------------------------------------------
(* The client's steps.                                                     *)

LEMMA ClientEndsInv ==
  ASSUME ServerInv, NEW q \in Requests, NEW res \in Result, ClientEnds(q, res),
         UNCHANGED <<queue, kind, service, sent, srv, answer, out, thread, files, binder, bound,
                     ran, mixed>>,
         res = "ok" => Closed(q) /\ ran[q] = 1 /\ (q \notin Raw => out[q] = 3),
         res = "refused" => srv[q] = "none"
  PROVE  ServerInv'
<1>0. ServerTypes /\ Consistent(q) /\ ClientKnows(q) /\ FilesOwn(q)
  BY DEF ServerInv
<1>1. /\ client' \in [Requests -> {"start", "header", "payload", "read", "end"}]
      /\ result' \in [Requests -> Result]
      /\ client'[q] = "end" /\ result'[q] = res
      /\ \A r \in Requests \ {q} : client'[r] = client[r] /\ result'[r] = result[r]
  BY <1>0 DEF ServerTypes, ClientEnds, ClientTo
<1>2. ServerTypes'
  BY <1>0, <1>1 DEF ServerTypes
<1>3. OnlyAt(q)
  BY <1>1 DEF OnlyAt, Same
<1>4. QueuedOnce' /\ RunningMixed'
  BY <1>0, QueueStays, MixedStays DEF ServerInv, ServerTypes, InRun
<1>5. ClientKnows(q)'
  BY <1>0, <1>1 DEF ClientKnows, Closed
<1>6. Consistent(q)' /\ FilesOwn(q)'
  BY <1>0 DEF Consistent, FilesOwn, NothingDone
<1> QED
  BY <1>2, <1>3, <1>4, <1>5, <1>6, StepAt

LEMMA NothingMoves ==
  ASSUME ServerInv,
         UNCHANGED <<queue, client, kind, service, sent, srv, answer, out, result, thread, files,
                     binder, bound, ran, mixed>>
  PROVE  ServerInv'
<1>1. ServerTypes' /\ QueuedOnce'
  BY DEF ServerInv, ServerTypes, QueuedOnce
<1>2. RunningMixed'
  BY DEF ServerInv, RunningMixed, Running
<1>3. ASSUME NEW r \in Requests
      PROVE  Consistent(r)' /\ ClientKnows(r)' /\ FilesOwn(r)'
  BY <1>3 DEF ServerInv, Consistent, ClientKnows, FilesOwn, NothingDone, Closed
<1> QED
  BY <1>1, <1>2, <1>3 DEF ServerInv

LEMMA RefuseArgumentsInv ==
  ASSUME ServerInv, NEW q \in Requests, RefuseArguments(q)
  PROVE  ServerInv'
BY ClientEndsInv DEF RefuseArguments, asked, device, Result

LEMMA ForwardPortInv ==
  ASSUME ServerInv, NEW q \in Requests, ForwardPort(q)
  PROVE  ServerInv'
<1>1. CASE UNCHANGED conn
  BY <1>1, NothingMoves DEF ForwardPort, conn, asked, device
<1>2. CASE ClientEnds(q, "refused") /\ UNCHANGED <<asked, sent, out>>
  <2>1. srv[q] = "none"
    BY DEF ServerInv, ClientKnows, ForwardPort, Starts
  <2> QED
    BY <1>2, <2>1, ClientEndsInv DEF ForwardPort, asked, device, Result
<1> QED
  BY <1>1, <1>2 DEF ForwardPort

LEMMA ConnectInv ==
  ASSUME ServerInv, NEW q \in Requests, Connect(q)
  PROVE  ServerInv'
<1>0. /\ ServerTypes /\ Consistent(q) /\ ClientKnows(q) /\ FilesOwn(q) /\ QueuedOnce
      /\ client[q] = "start" /\ ClientTo(q, "header")
      /\ UNCHANGED <<kind, service, sent, answer, out, result, thread, files, binder, bound,
                     ran, mixed>>
  BY DEF ServerInv, Connect, Starts, asked, device
<1>1. srv[q] = "none" /\ NothingDone(q) /\ ~bound[q] /\ result[q] \notin {"ok", "refused"}
  BY <1>0 DEF ClientKnows, Consistent, Before, Closed
<1>2. /\ client' \in [Requests -> {"start", "header", "payload", "read", "end"}]
      /\ client'[q] = "header" /\ \A r \in Requests \ {q} : client'[r] = client[r]
  BY <1>0 DEF ServerTypes, ClientTo
<1>3. /\ srv' \in [Requests -> SrvPc] /\ srv'[q] \in {"queued", "reset"}
      /\ \A r \in Requests \ {q} : srv'[r] = srv[r]
      /\ queue' = queue \/ (queue' = Append(queue, q) /\ srv'[q] = "queued")
  BY <1>0 DEF Connect, ServerTypes, SrvPc
<1>4. queue' \in Seq(Requests)
  <2>1. queue \in Seq(Requests) /\ Append(queue, q) \in Seq(Requests)
    BY <1>0 DEF ServerTypes
  <2> QED
    BY <1>3, <2>1
<1>5. ServerTypes'
  BY <1>0, <1>2, <1>3, <1>4 DEF ServerTypes
<1>6. OnlyAt(q)
  BY <1>0, <1>2, <1>3 DEF OnlyAt, Same
<1>7. QueuedOnce'
  <2>1. CASE queue' = queue
    BY <1>0, <1>1, <1>3, <2>1, QueueStays DEF ServerTypes
  <2>2. CASE queue' = Append(queue, q) /\ srv'[q] = "queued"
    <3>1. \A i \in DOMAIN queue : queue[i] \in Requests \ {q} /\ srv'[queue[i]] = "queued"
      BY <1>0, <1>1, <1>3 DEF ServerTypes, QueuedOnce
    <3>2. /\ DOMAIN queue' = DOMAIN queue \cup {Len(queue) + 1}
          /\ queue'[Len(queue) + 1] = q
          /\ \A i \in DOMAIN queue : queue'[i] = queue[i] /\ i # Len(queue) + 1
      BY <1>0, <2>2 DEF ServerTypes
    <3>3. \A i \in DOMAIN queue' : srv'[queue'[i]] = "queued"
      BY <2>2, <3>1, <3>2
    <3>4. \A i, j \in DOMAIN queue' : queue'[i] = queue'[j] => i = j
      BY <1>0, <3>1, <3>2 DEF QueuedOnce
    <3> QED
      BY <3>3, <3>4 DEF QueuedOnce
  <2> QED
    BY <1>3, <2>1, <2>2
<1>8. RunningMixed'
  BY <1>0, <1>3, MixedStays DEF ServerInv, InRun
<1>9. Consistent(q)' /\ ClientKnows(q)' /\ FilesOwn(q)'
  BY <1>0, <1>1, <1>2, <1>3 DEF Consistent, ClientKnows, FilesOwn, NothingDone, Nothing, Before
<1> QED
  BY <1>5, <1>6, <1>7, <1>8, <1>9, StepAt

LEMMA WritePartInv ==
  ASSUME ServerInv, NEW q \in Requests, WritePart(q)
  PROVE  ServerInv'
<1>0. /\ ServerTypes /\ Consistent(q) /\ ClientKnows(q) /\ FilesOwn(q)
      /\ client[q] \in {"header", "payload"}
      /\ UNCHANGED <<queue, kind, service, answer, out, thread, files, binder, bound, ran, mixed>>
  BY DEF ServerInv, WritePart, asked, device
<1>1. CASE ClientEnds(q, "io") /\ UNCHANGED <<sent, srv>>
  BY <1>0, <1>1, ClientEndsInv DEF Result
<1>2. CASE /\ sent' = [sent EXCEPT ![q] = @ + 1]
           /\ ClientTo(q, IF client[q] = "header" THEN "payload" ELSE "read")
           /\ srv' = IF srv[q] = "closed" THEN [srv EXCEPT ![q] = "reset"] ELSE srv
           /\ UNCHANGED result
  <2>1. sent' \in [Requests -> Nat]
    BY <1>0, <1>2 DEF ServerTypes
  <2>2. /\ client' \in [Requests -> {"start", "header", "payload", "read", "end"}]
        /\ client'[q] \in {"payload", "read"} /\ \A r \in Requests \ {q} : client'[r] = client[r]
    BY <1>0, <1>2 DEF ServerTypes, ClientTo
  <2>3. /\ srv' \in [Requests -> SrvPc] /\ \A r \in Requests \ {q} : srv'[r] = srv[r]
        /\ srv'[q] = srv[q] \/ (srv[q] = "closed" /\ srv'[q] = "reset")
    BY <1>0, <1>2 DEF ServerTypes, SrvPc
  <2>4. ServerTypes'
    BY <1>0, <1>2, <2>1, <2>2, <2>3 DEF ServerTypes
  <2>5. OnlyAt(q)
    BY <1>0, <1>2, <2>2, <2>3 DEF OnlyAt, Same
  <2>6. QueuedOnce' /\ RunningMixed'
    BY <1>0, <2>3, QueueStays, MixedStays DEF ServerInv, ServerTypes, InRun
  <2>7. Consistent(q)' /\ ClientKnows(q)' /\ FilesOwn(q)'
    BY <1>0, <1>2, <2>2, <2>3
       DEF Consistent, ClientKnows, FilesOwn, NothingDone, Nothing, Before, Closed
  <2> QED
    BY <2>4, <2>5, <2>6, <2>7, StepAt
<1> QED
  BY <1>1, <1>2 DEF WritePart

(* What a client makes of the parts of an answer that came.                *)
LEMMA ReceivedIs ==
  ASSUME NEW q \in Requests, out[q] \in 0 .. 3
  PROVE  /\ Received(q) \in Result \ {"refused"}
         /\ Received(q) = "ok" => /\ out[q] \in {2, 3} /\ answer[q].status # "FAIL"
                                  /\ out[q] = 2 => q \in Raw
<1> DEFINE late == out[q] = 2 /\ (answer[q].status = "FAIL" \/ Decodes(q))
           fail == out[q] = 3 /\ answer[q].status = "FAIL"
<1>0. /\ out[q] \in {0, 1} => out[q] < 2 /\ ~late /\ ~fail
      /\ out[q] \in {2, 3} => ~(out[q] < 2)
      /\ out[q] \in {0, 1, 2, 3} /\ ~(late /\ fail)
  OBVIOUS
<1> HIDE DEF late, fail
<1>1. CASE out[q] \in {0, 1}
  <2>1. Received(q) = "io"
    <3> USE DEF late, fail
    <3> QED
      BY <1>0, <1>1, Zenon DEF Received
  <2> QED
    BY <2>1 DEF Result
<1>2. CASE out[q] \in {2, 3} /\ late
  <2>1. Received(q) = "invalid"
    <3> USE DEF late, fail
    <3> QED
      BY <1>0, <1>2, Zenon DEF Received
  <2> QED
    BY <2>1 DEF Result
<1>3. CASE out[q] \in {2, 3} /\ fail
  <2>1. Received(q) = "server"
    <3> USE DEF late, fail
    <3> QED
      BY <1>0, <1>3, Zenon DEF Received
  <2> QED
    BY <2>1 DEF Result
<1>4. CASE out[q] \in {2, 3} /\ ~late /\ ~fail
  <2>1. Received(q) = "ok"
    <3> USE DEF late, fail
    <3> QED
      BY <1>0, <1>4, Zenon DEF Received
  <2>2. answer[q].status # "FAIL" /\ (out[q] = 2 => q \in Raw)
    BY <1>4 DEF late, fail, Decodes
  <2> QED
    BY <1>4, <2>1, <2>2 DEF Result
<1> QED
  BY <1>0, <1>1, <1>2, <1>3, <1>4

LEMMA ReadResponseInv ==
  ASSUME ServerInv, NEW q \in Requests, ReadResponse(q)
  PROVE  ServerInv'
<1>0. /\ ServerTypes /\ Consistent(q) /\ Closed(q)
      /\ UNCHANGED <<queue, kind, service, sent, srv, answer, out, thread, files, binder, bound,
                     ran, mixed>>
  BY DEF ServerInv, ReadResponse, asked, device
<1>1. PICK res \in Result \ {"refused"} :
        /\ ClientEnds(q, res)
        /\ res = "ok" => /\ out[q] \in {2, 3} /\ answer[q].status # "FAIL"
                         /\ out[q] = 2 => q \in Raw
  <2>1. CASE ClientEnds(q, Received(q))
    <3>1. out[q] \in 0 .. 3
      BY <1>0 DEF ServerTypes
    <3> QED
      BY <2>1, <3>1, ReceivedIs
  <2>2. CASE ClientEnds(q, "io")
    BY <2>2 DEF Result
  <2> QED
    BY <2>1, <2>2 DEF ReadResponse
<1>2. ASSUME res = "ok"
      PROVE  ran[q] = 1 /\ (q \notin Raw => out[q] = 3)
  <2>1. out[q] \in {2, 3} /\ (out[q] = 2 => q \in Raw)
    BY <1>1, <1>2
  <2>2. answer[q].status = "GOOD"
    BY <1>0, <1>1, <1>2, <2>1 DEF ServerTypes, Consistent, Answer
  <2> QED
    BY <1>0, <2>1, <2>2 DEF Consistent
<1> QED
  BY <1>0, <1>1, <1>2, ClientEndsInv

-------------------------------------------------------------------------------
(* The handler's steps that make no answer.                                *)

(* Where only a handler's place changes, and what it may know.             *)
LEMMA SrvToInv ==
  ASSUME ServerInv, NEW q \in Requests, NEW pc \in SrvPc, SrvTo(q, pc),
         srv[q] \notin {"none", "queued", "closed", "reset"},
         UNCHANGED <<queue, client, kind, service, sent, answer, result, thread, files,
                     ran, mixed>>,
         out' \in [Requests -> 0 .. 3], bound' \in [Requests -> BOOLEAN],
         binder' \in [Requests -> BOOLEAN],
         \A r \in Requests \ {q} : out'[r] = out[r] /\ bound'[r] = bound[r],
         pc \notin {"none", "queued", "poll"},
         Consistent(q)'
  PROVE  ServerInv'
<1>0. ServerTypes /\ Consistent(q) /\ ClientKnows(q) /\ FilesOwn(q)
  BY DEF ServerInv
<1>1. /\ srv' \in [Requests -> SrvPc] /\ srv'[q] = pc
      /\ \A r \in Requests \ {q} : srv'[r] = srv[r]
  BY <1>0 DEF ServerTypes, SrvTo
<1>2. ServerTypes'
  BY <1>0, <1>1 DEF ServerTypes
<1>3. OnlyAt(q)
  BY <1>1 DEF OnlyAt, Same
<1>4. QueuedOnce' /\ RunningMixed'
  BY <1>0, <1>1, QueueStays, MixedStays DEF ServerInv, ServerTypes, InRun
<1>5. ClientKnows(q)' /\ FilesOwn(q)'
  BY <1>0, <1>1 DEF ClientKnows, FilesOwn, Closed
<1> QED
  BY <1>2, <1>3, <1>4, <1>5, StepAt

(* A handler at a place of Before goes to another one, or closes.          *)
LEMMA BeforeInv ==
  ASSUME ServerInv, NEW q \in Requests, NEW pc \in SrvPc, SrvTo(q, pc),
         srv[q] \in {"command", "payload", "run", "bound", "await"},
         UNCHANGED <<queue, client, kind, service, sent, answer, out, result, thread, files,
                     ran, mixed>>,
         bound' \in [Requests -> BOOLEAN], binder' \in [Requests -> BOOLEAN],
         \A r \in Requests \ {q} : bound'[r] = bound[r],
         pc \in {"payload", "run", "bound", "await", "connected", "closed", "reset"},
         bound'[q] => pc \in {"bound", "await", "connected"}
  PROVE  ServerInv'
<1>0. ServerTypes /\ Consistent(q)
  BY DEF ServerInv
<1>1. srv'[q] = pc
  BY <1>0 DEF ServerTypes, SrvTo
<1>2. NothingDone(q) /\ NothingDone(q)'
  BY <1>0 DEF Consistent, NothingDone, Before
<1>3. Consistent(q)'
  BY <1>0, <1>1, <1>2 DEF Consistent, NothingDone, Nothing
<1> QED
  BY <1>0, <1>3, SrvToInv DEF ServerTypes

LEMMA ReadCommandInv ==
  ASSUME ServerInv, NEW q \in Requests, ReadCommand(q)
  PROVE  ServerInv'
<1>1. PICK pc \in {"payload", "closed", "reset"} : SrvTo(q, pc)
  BY DEF ReadCommand, Close
<1>2. ~bound[q]
  BY DEF ServerInv, Consistent, ReadCommand
<1> QED
  BY <1>1, <1>2, BeforeInv DEF ServerInv, ServerTypes, ReadCommand, SrvPc, conn, asked, device

LEMMA AwaitServiceInv ==
  ASSUME ServerInv, NEW q \in Requests, AwaitService(q)
  PROVE  ServerInv'
BY BeforeInv DEF ServerInv, ServerTypes, AwaitService, SrvPc, conn, asked, device

LEMMA NullBindingInv ==
  ASSUME ServerInv, NEW q \in Requests, NullBinding(q)
  PROVE  ServerInv'
BY BeforeInv DEF ServerInv, ServerTypes, NullBinding, SrvPc, conn, asked, device

(* The binder of a service comes or goes.                                  *)
LEMMA BinderMoves ==
  ASSUME ServerInv, binder' \in [Requests -> BOOLEAN],
         UNCHANGED <<queue, client, kind, service, sent, srv, answer, out, result, thread, files,
                     bound, ran, mixed>>
  PROVE  ServerInv'
<1>1. ServerTypes' /\ QueuedOnce'
  BY DEF ServerInv, ServerTypes, QueuedOnce
<1>2. RunningMixed'
  BY DEF ServerInv, RunningMixed, Running
<1>3. ASSUME NEW r \in Requests
      PROVE  Consistent(r)' /\ ClientKnows(r)' /\ FilesOwn(r)'
  BY <1>3 DEF ServerInv, Consistent, ClientKnows, FilesOwn, NothingDone, Closed
<1> QED
  BY <1>1, <1>2, <1>3 DEF ServerInv

LEMMA ServiceConnectedInv ==
  ASSUME ServerInv, NEW q \in Requests, ServiceConnected(q)
  PROVE  ServerInv'
<1>0. binder' \in [Requests -> BOOLEAN]
  BY DEF ServerInv, ServerTypes, ServiceConnected
<1>1. CASE srv[q] = "await" /\ SrvTo(q, "connected")
  BY <1>0, <1>1, BeforeInv DEF ServerInv, ServerTypes, ServiceConnected, SrvPc, conn, asked
<1>2. CASE UNCHANGED srv
  BY <1>0, <1>2, BinderMoves DEF ServiceConnected, conn, asked
<1> QED
  BY <1>1, <1>2 DEF ServiceConnected

LEMMA ServiceDisconnectedInv ==
  ASSUME ServerInv, NEW q \in Requests, ServiceDisconnected(q)
  PROVE  ServerInv'
<1>0. binder' \in [Requests -> BOOLEAN]
  BY DEF ServerInv, ServerTypes, ServiceDisconnected
<1> QED
  BY <1>0, BinderMoves DEF ServiceDisconnected, conn, asked

LEMMA BindServiceInv ==
  ASSUME ServerInv, NEW q \in Requests, BindService(q)
  PROVE  ServerInv'
<1>0. /\ ServerTypes /\ Consistent(q) /\ srv[q] = "run" /\ kind[q] = "bind"
      /\ UNCHANGED <<queue, client, kind, service, sent, out, result, thread, files, mixed,
                     ran, binder>>
  BY DEF ServerInv, BindService, conn, asked
<1>1. ran[q] = 0 /\ thread[q] = "none" /\ ~bound[q]
  BY <1>0 DEF Consistent, Before, NothingDone
<1>2. CASE bound' = [bound EXCEPT ![q] = TRUE] /\ SrvTo(q, "bound") /\ UNCHANGED answer
  BY <1>0, <1>2, BeforeInv DEF ServerTypes, SrvPc
<1>3. CASE Answers(q, Failure("couldn't bind")) /\ UNCHANGED bound
  <2>1. PICK a \in Answer : Answers(q, a) /\ a.status = "FAIL"
    BY <1>3, AnswersAre DEF Why
  <2> QED
    BY <1>0, <1>1, <1>3, <2>1, AnswerInv DEF ServerTypes
<1> QED
  BY <1>2, <1>3 DEF BindService

LEMMA AwaitEndsInv ==
  ASSUME ServerInv, NEW q \in Requests, AwaitEnds(q)
  PROVE  ServerInv'
<1>0. /\ ServerTypes /\ Consistent(q) /\ srv[q] \in {"await", "connected"}
      /\ UNCHANGED <<queue, client, kind, service, sent, out, result, thread, files, mixed>>
  BY DEF ServerInv, AwaitEnds, conn, asked
<1>1. ran[q] = 0 /\ thread[q] = "none"
  BY <1>0 DEF Consistent, Before, NothingDone
<1>2. /\ bound' \in [Requests -> BOOLEAN] /\ binder' \in [Requests -> BOOLEAN] /\ ~bound'[q]
      /\ \A r \in Requests \ {q} : bound'[r] = bound[r]
  BY <1>0 DEF ServerTypes, AwaitEnds, Unbind
<1>3. CASE \E w \in Why : Answers(q, Failure(w)) /\ (UNCHANGED ran \/ (w = "exception" /\ Ran(q)))
  <2>1. PICK a \in Answer : /\ Answers(q, a) /\ a.status = "FAIL"
                            /\ UNCHANGED ran \/ (a.why = "exception" /\ Ran(q))
    BY <1>3, AnswersAre
  <2> QED
    BY <1>0, <1>1, <1>2, <2>1, RanTypes, AnswerInv DEF ServerTypes
<1>4. CASE Answers(q, Good({q})) /\ Ran(q)
  <2>1. PICK a \in Answer : Answers(q, a) /\ a.status = "GOOD" /\ a.of = {q}
    BY <1>4, AnswersAre
  <2> QED
    BY <1>0, <1>1, <1>2, <1>4, <2>1, RanTypes, AnswerInv DEF ServerTypes
<1> QED
  BY <1>3, <1>4 DEF AwaitEnds, Unbind, Why

LEMMA RespondInv ==
  ASSUME ServerInv, NEW q \in Requests, Respond(q)
  PROVE  ServerInv'
<1>0. /\ ServerTypes /\ Consistent(q) /\ ClientKnows(q) /\ srv[q] = "answer"
      /\ UNCHANGED <<queue, client, kind, service, sent, answer, result, thread, files, mixed,
                     ran, bound, binder>>
  BY DEF ServerInv, Respond, asked, device
<1>1. out[q] \in 0 .. 2 /\ ~bound[q] /\ answer[q].status # "none"
  BY <1>0 DEF Consistent, ServerTypes
<1>2. CASE UNCHANGED out /\ \E pc \in {"closed", "reset"} : SrvTo(q, pc)
  <2>1. PICK pc \in {"closed", "reset"} : SrvTo(q, pc)
    BY <1>2
  <2>2. srv'[q] = pc
    BY <1>0, <2>1 DEF ServerTypes, SrvTo
  <2>3. Consistent(q)'
    BY <1>0, <1>1, <1>2, <2>2 DEF Consistent, NothingDone, Before
  <2> QED
    BY <1>0, <1>2, <2>1, <2>3, SrvToInv DEF ServerTypes, SrvPc
<1>3. CASE out' = [out EXCEPT ![q] = @ + 1]
  <2>1. /\ out' \in [Requests -> 0 .. 3] /\ out'[q] = out[q] + 1
        /\ \A r \in Requests \ {q} : out'[r] = out[r]
    BY <1>0, <1>1, <1>3 DEF ServerTypes
  <2>2. PICK pc \in {"answer", "closed", "reset"} :
          SrvTo(q, pc) /\ (pc = "answer" => out[q] # 2)
    <3>1. CASE out[q] = 2 /\ \E n \in {1, 2} : Close(q, n)
      BY <3>1 DEF Close
    <3>2. CASE out[q] # 2 /\ UNCHANGED srv
      BY <1>0, <3>2 DEF SrvTo, ServerTypes
    <3>3. out[q] = 2 => Close(q, IF answer[q].why = "request" THEN 1 ELSE 2)
      BY <1>1, <1>3, <1>0 DEF Respond, ServerTypes
    <3> QED
      BY <1>0, <1>1, <1>3, <3>1, <3>2, <3>3 DEF Respond, ServerTypes
  <2>3. srv'[q] = pc
    BY <1>0, <2>2 DEF ServerTypes, SrvTo
  <2>4. Consistent(q)'
    BY <1>0, <1>1, <2>1, <2>2, <2>3 DEF Consistent, NothingDone, Before
  <2> QED
    BY <1>0, <2>1, <2>2, <2>4, SrvToInv DEF ServerTypes, SrvPc
<1> QED
  BY <1>2, <1>3 DEF Respond, Close

-------------------------------------------------------------------------------
(* Shell commands.                                                         *)

LEMMA ApartOrMixed ==
  ASSUME ServerInv, NEW q \in Requests, NEW r \in Requests \ {q}, InRun(q), InRun(r),
         r \notin mixed
  PROVE  service[r] # service[q]
BY DEF ServerInv, RunningMixed, Running, InRun

(* Where only the thread of a shell command moves, and its files.          *)
LEMMA ThreadInv ==
  ASSUME ServerInv, NEW q \in Requests, thread[q] # "none",
         UNCHANGED <<queue, client, kind, service, sent, srv, out, result, bound, binder, mixed>>,
         ServerTypes',
         \A r \in Requests \ {q} : /\ thread'[r] = thread[r] /\ ran'[r] = ran[r]
                                  /\ answer'[r] = answer[r],
         \A s \in Services \ {service[q]} : files'[s] = files[s],
         Consistent(q)', ClientKnows(q)', FilesOwn(q)'
  PROVE  ServerInv'
<1>1. \A r \in Requests \ {q} :
        r \notin mixed /\ InRun(r) => files'[service[r]] = files[service[r]]
  BY ApartOrMixed DEF InRun, ServerInv, ServerTypes
<1>2. OnlyAt(q)
  BY <1>1 DEF OnlyAt, Same
<1>3. QueuedOnce'
  BY QueueStays DEF ServerInv, ServerTypes
<1>4. RunningMixed'
  BY MixedStays DEF ServerInv, InRun
<1> QED
  BY <1>2, <1>3, <1>4, StepAt

LEMMA StartShellInv ==
  ASSUME ServerInv, NEW q \in Requests, StartShell(q)
  PROVE  ServerInv'
<1>0. /\ ServerTypes /\ Consistent(q) /\ ClientKnows(q) /\ RunningMixed
      /\ srv[q] = "run" /\ kind[q] = "shell"
      /\ UNCHANGED <<queue, client, kind, service, sent, answer, out, result, files, bound,
                     binder, ran>>
  BY DEF ServerInv, StartShell, conn, asked
<1>1. NothingDone(q) /\ ~bound[q]
  BY <1>0 DEF Consistent, Before
<1>2. /\ thread' \in [Requests -> {"none", "open", "transact", "report"}] /\ thread'[q] = "open"
      /\ \A r \in Requests \ {q} : thread'[r] = thread[r]
  BY <1>0 DEF ServerTypes, StartShell
<1>3. /\ srv' \in [Requests -> SrvPc] /\ srv'[q] = "poll"
      /\ \A r \in Requests \ {q} : srv'[r] = srv[r]
  BY <1>0 DEF ServerTypes, StartShell, SrvTo, SrvPc
<1>4. /\ mixed \subseteq mixed' /\ mixed' \subseteq Requests
      /\ Running(service[q]) # {} => {q} \cup Running(service[q]) \subseteq mixed'
  BY <1>0 DEF ServerTypes, StartShell, Running
<1>5. ServerTypes'
  BY <1>0, <1>2, <1>3, <1>4 DEF ServerTypes
<1>6. OnlyAt(q)
  BY <1>0, <1>2, <1>3, <1>4 DEF OnlyAt, Same
<1>7. QueuedOnce'
  BY <1>0, <1>3, QueueStays DEF ServerInv, ServerTypes
<1>8. \A r \in Requests \ {q} : InRun(r)' => r \in Running(service[r])
  BY <1>2, <1>3 DEF InRun, Running
<1>9. RunningMixed'
  <2> SUFFICES ASSUME NEW a \in Requests, NEW b \in Requests \ {a}, service[a] = service[b],
                      InRun(a)', InRun(b)'
               PROVE  a \in mixed' /\ b \in mixed'
    BY <1>0 DEF RunningMixed, Running, InRun
  <2>1. CASE a = q
    BY <1>4, <1>8, <2>1
  <2>2. CASE b = q
    BY <1>4, <1>8, <2>2
  <2>3. CASE a # q /\ b # q
    BY <1>0, <1>4, <1>8, <2>3 DEF RunningMixed
  <2> QED
    BY <2>1, <2>2, <2>3
<1>10. Consistent(q)' /\ ClientKnows(q)' /\ FilesOwn(q)'
  BY <1>0, <1>1, <1>2, <1>3
     DEF Consistent, ClientKnows, FilesOwn, NothingDone, Nothing, Before, Closed
<1> QED
  BY <1>5, <1>6, <1>7, <1>9, <1>10, StepAt

LEMMA OpenFilesInv ==
  ASSUME ServerInv, NEW q \in Requests, OpenFiles(q)
  PROVE  ServerInv'
<1>0. /\ ServerTypes /\ Consistent(q) /\ ClientKnows(q) /\ FilesOwn(q) /\ thread[q] = "open"
      /\ UNCHANGED <<queue, client, kind, service, sent, srv, answer, out, result, bound, binder,
                     ran, mixed>>
  BY DEF ServerInv, OpenFiles, conn, asked
<1>1. /\ thread' \in [Requests -> {"none", "open", "transact", "report"}]
      /\ thread'[q] = "transact" /\ \A r \in Requests \ {q} : thread'[r] = thread[r]
  BY <1>0 DEF ServerTypes, OpenFiles
<1>2. /\ files' \in [Services -> SUBSET Requests] /\ files'[service[q]] = {}
      /\ \A s \in Services \ {service[q]} : files'[s] = files[s]
  BY <1>0 DEF ServerTypes, OpenFiles
<1>3. ServerTypes'
  BY <1>0, <1>1, <1>2 DEF ServerTypes
<1>4. Consistent(q)' /\ ClientKnows(q)' /\ FilesOwn(q)'
  BY <1>0, <1>1, <1>2 DEF Consistent, ClientKnows, FilesOwn, NothingDone, Closed
<1> QED
  BY <1>0, <1>1, <1>2, <1>3, <1>4, ThreadInv

LEMMA ServiceWritesInv ==
  ASSUME ServerInv, NEW q \in Requests, ServiceWrites(q)
  PROVE  ServerInv'
<1>0. /\ ServerTypes /\ Consistent(q) /\ ClientKnows(q) /\ FilesOwn(q) /\ thread[q] = "transact"
      /\ UNCHANGED <<queue, client, kind, service, sent, srv, answer, out, result, bound, binder,
                     ran, mixed>>
  BY DEF ServerInv, ServiceWrites, conn, asked
<1>1. /\ thread' \in [Requests -> {"none", "open", "transact", "report"}]
      /\ thread'[q] = "report" /\ \A r \in Requests \ {q} : thread'[r] = thread[r]
  BY <1>0 DEF ServerTypes, ServiceWrites
<1>2. /\ files' \in [Services -> SUBSET Requests]
      /\ files'[service[q]] = files[service[q]] \cup {q}
      /\ \A s \in Services \ {service[q]} : files'[s] = files[s]
  BY <1>0 DEF ServerTypes, ServiceWrites
<1>3. ServerTypes'
  BY <1>0, <1>1, <1>2 DEF ServerTypes
<1>4. Consistent(q)' /\ ClientKnows(q)' /\ FilesOwn(q)'
  BY <1>0, <1>1, <1>2 DEF Consistent, ClientKnows, FilesOwn, NothingDone, Closed
<1> QED
  BY <1>0, <1>1, <1>2, <1>3, <1>4, ThreadInv

LEMMA ServiceReportsInv ==
  ASSUME ServerInv, NEW q \in Requests, ServiceReports(q)
  PROVE  ServerInv'
<1>0. /\ ServerTypes /\ Consistent(q) /\ ClientKnows(q) /\ FilesOwn(q)
      /\ thread[q] \in {"transact", "report"}
      /\ UNCHANGED <<queue, client, kind, service, sent, srv, out, result, files, bound, binder,
                     mixed>>
  BY DEF ServerInv, ServiceReports, conn, asked
<1>1. /\ thread' \in [Requests -> {"none", "open", "transact", "report"}]
      /\ thread'[q] = "none" /\ \A r \in Requests \ {q} : thread'[r] = thread[r]
  BY <1>0 DEF ServerTypes, ServiceReports
<1>2. ran[q] = 0 /\ kind[q] = "shell" /\ srv[q] \notin Before /\ answer[q].status # "GOOD"
      /\ result[q] # "ok"
  BY <1>0 DEF Consistent, NothingDone, ClientKnows
<1>3. CASE thread[q] = "report" /\ Ran(q) /\ UNCHANGED answer
  <2>1. /\ ran' \in [Requests -> {0, 1}] /\ ran'[q] = 1
        /\ \A r \in Requests \ {q} : ran'[r] = ran[r]
    BY <1>0, <1>2, <1>3, RanTypes
  <2>2. ServerTypes'
    BY <1>0, <1>1, <1>3, <2>1 DEF ServerTypes
  <2>3. Consistent(q)' /\ ClientKnows(q)' /\ FilesOwn(q)'
    BY <1>0, <1>1, <1>2, <1>3, <2>1 DEF Consistent, ClientKnows, FilesOwn, NothingDone, Closed
  <2> QED
    BY <1>0, <1>1, <1>3, <2>1, <2>2, <2>3, ThreadInv
<1>4. CASE UNCHANGED <<ran, answer>>
  <2>1. ServerTypes'
    BY <1>0, <1>1, <1>4 DEF ServerTypes
  <2>2. Consistent(q)' /\ ClientKnows(q)' /\ FilesOwn(q)'
    BY <1>0, <1>1, <1>2, <1>4 DEF Consistent, ClientKnows, FilesOwn, NothingDone, Closed
  <2> QED
    BY <1>0, <1>1, <1>4, <2>1, <2>2, ThreadInv
<1>5. CASE /\ UNCHANGED ran /\ srv[q] = "poll"
           /\ answer' = [answer EXCEPT ![q] = Failure("exception")]
  <2>1. PICK a \in Answer : answer' = [answer EXCEPT ![q] = a] /\ a.status = "FAIL"
    BY <1>5, AnswersAre DEF Why
  <2>2. /\ answer' \in [Requests -> Answer] /\ answer'[q].status = "FAIL"
        /\ \A r \in Requests \ {q} : answer'[r] = answer[r]
    BY <1>0, <2>1 DEF ServerTypes
  <2>3. ServerTypes'
    BY <1>0, <1>1, <1>5, <2>2 DEF ServerTypes
  <2>4. Consistent(q)' /\ ClientKnows(q)' /\ FilesOwn(q)'
    BY <1>0, <1>1, <1>2, <1>5, <2>2
       DEF Consistent, ClientKnows, FilesOwn, NothingDone, Closed, Before
  <2> QED
    BY <1>0, <1>1, <1>5, <2>2, <2>3, <2>4, ThreadInv
<1> QED
  BY <1>3, <1>4, <1>5 DEF ServiceReports

-------------------------------------------------------------------------------
(* The server as a whole.                                                  *)

LEMMA TakeInv ==
  ASSUME ServerInv, Take
  PROVE  ServerInv'
<1>1. Head(queue) \in Requests
  BY DEF ServerInv, ServerTypes, Take
<1>2. PICK q \in Requests : q = Head(queue)
  BY <1>1
<1>3. /\ ServerTypes /\ QueuedOnce /\ queue # << >> /\ queue' = Tail(queue) /\ SrvTo(q, "command")
      /\ UNCHANGED <<client, kind, service, sent, answer, out, result, thread, files, bound,
                     binder, ran, mixed>>
  BY <1>2 DEF ServerInv, Take, conn, asked, device
<1>4. /\ 1 \in DOMAIN queue /\ q = queue[1] /\ queue' \in Seq(Requests)
      /\ \A i \in DOMAIN queue' : /\ i \in Nat \ {0} /\ i + 1 \in DOMAIN queue
                                  /\ queue'[i] = queue[i + 1] /\ queue[i + 1] \in Requests
  BY <1>3, <1>2 DEF ServerTypes
<1>5. Consistent(q) /\ ClientKnows(q) /\ FilesOwn(q) /\ srv[q] = "queued"
  BY <1>3, <1>4 DEF ServerInv, QueuedOnce
<1>6. /\ srv' \in [Requests -> SrvPc] /\ srv'[q] = "command"
      /\ \A r \in Requests \ {q} : srv'[r] = srv[r]
  BY <1>3, <1>4 DEF ServerTypes, SrvTo, SrvPc
<1>7. NothingDone(q) /\ ~bound[q]
  BY <1>5 DEF Consistent, Before
<1>8. ServerTypes'
  BY <1>3, <1>4, <1>6 DEF ServerTypes
<1>9. OnlyAt(q)
  BY <1>3, <1>6 DEF OnlyAt, Same
<1>10. QueuedOnce'
  <2>1. \A i \in DOMAIN queue' : queue'[i] # q
    BY <1>3, <1>4 DEF QueuedOnce
  <2>2. \A i \in DOMAIN queue' : srv'[queue'[i]] = "queued"
    BY <1>3, <1>4, <1>6, <2>1 DEF QueuedOnce
  <2>3. \A i, j \in DOMAIN queue' : queue'[i] = queue'[j] => i = j
    <3> TAKE i, j \in DOMAIN queue'
    <3>1. queue'[i] = queue'[j] => i + 1 = j + 1
      BY <1>3, <1>4 DEF QueuedOnce
    <3> QED
      BY <1>4, <3>1
  <2> QED
    BY <2>2, <2>3 DEF QueuedOnce
<1>11. RunningMixed'
  BY <1>3, <1>6, MixedStays DEF ServerInv, InRun
<1>12. Consistent(q)' /\ ClientKnows(q)' /\ FilesOwn(q)'
  BY <1>3, <1>5, <1>6, <1>7
     DEF Consistent, ClientKnows, FilesOwn, NothingDone, Nothing, Before, Closed
<1> QED
  BY <1>4, <1>8, <1>9, <1>10, <1>11, <1>12, StepAt

LEMMA AppEndsInv ==
  ASSUME ServerInv, AppEnds
  PROVE  ServerInv'
<1>0. /\ ServerTypes /\ queue' = << >>
      /\ UNCHANGED <<client, kind, service, sent, answer, out, result, files, ran, mixed>>
  BY DEF ServerInv, AppEnds, conn, asked
<1>1. \A r \in Requests : thread'[r] = "none" /\ ~binder'[r] /\ ~bound'[r]
  BY DEF AppEnds
<1>2. \A r \in Requests : \/ srv[r] \in {"none", "closed", "reset"} /\ srv'[r] = srv[r]
                          \/ srv[r] # "none" /\ srv'[r] \in {"closed", "reset"}
  BY DEF AppEnds
<1>3. ServerTypes'
  <2>1. /\ srv' \in [Requests -> SrvPc] /\ queue' \in Seq(Requests)
        /\ thread' \in [Requests -> {"none", "open", "transact", "report"}]
        /\ binder' \in [Requests -> BOOLEAN] /\ bound' \in [Requests -> BOOLEAN]
    BY <1>0 DEF AppEnds, SrvPc, ServerTypes
  <2> QED
    BY <1>0, <2>1 DEF ServerTypes
<1>4. QueuedOnce'
  BY <1>0 DEF QueuedOnce
<1>5. RunningMixed'
  BY <1>1, <1>2 DEF RunningMixed, Running
<1>6. ASSUME NEW r \in Requests
      PROVE  Consistent(r)' /\ ClientKnows(r)' /\ FilesOwn(r)'
  <2>1. Consistent(r) /\ ClientKnows(r) /\ FilesOwn(r)
    BY DEF ServerInv
  <2>2. /\ ~bound'[r] /\ thread'[r] = "none" /\ srv'[r] \in {"none", "closed", "reset"}
        /\ (srv'[r] = "none" <=> srv[r] = "none") /\ (Closed(r) => Closed(r)')
    BY <1>1, <1>2 DEF Closed
  <2>3. Consistent(r)'
    BY <1>0, <2>1, <2>2 DEF Consistent, NothingDone, Before
  <2>4. ClientKnows(r)' /\ FilesOwn(r)'
    BY <1>0, <2>1, <2>2 DEF ClientKnows, FilesOwn
  <2> QED
    BY <2>3, <2>4
<1> QED
  BY <1>3, <1>4, <1>5, <1>6 DEF ServerInv

LEMMA ServerInitInv == ServerInit => ServerInv
<1> SUFFICES ASSUME ServerInit
             PROVE  ServerInv
  OBVIOUS
<1>1. /\ kind \in [Requests -> {"none", "call", "sh", "shell", "bind"}]
      /\ service \in [Requests -> Services]
  BY ServerAssumption DEF ServerInit
<1>2. ServerTypes
  <2>1. client \in [Requests -> {"start", "header", "payload", "read", "end"}]
    BY DEF ServerInit
  <2>2. Nothing \in Answer
    BY AnswersAre
  <2> QED
    BY <1>1, <2>1, <2>2 DEF ServerInit, ServerTypes, SrvPc, Result
<1>3. QueuedOnce /\ RunningMixed
  BY DEF ServerInit, QueuedOnce, RunningMixed, Running
<1>4. ASSUME NEW r \in Requests
      PROVE  Consistent(r) /\ ClientKnows(r) /\ FilesOwn(r)
  <2>1. NothingDone(r) /\ srv[r] = "none" /\ ~bound[r] /\ result[r] = "none"
    BY DEF ServerInit, NothingDone
  <2>2. Consistent(r)
    BY <2>1, AnswersAre DEF Consistent, NothingDone
  <2>3. ClientKnows(r) /\ FilesOwn(r)
    BY <2>1, AnswersAre DEF ClientKnows, FilesOwn, NothingDone
  <2> QED
    BY <2>2, <2>3
<1> QED
  BY <1>2, <1>3, <1>4 DEF ServerInv

LEMMA ServerStep ==
  ASSUME ServerInv, [ServerNext]_serverVars
  PROVE  ServerInv'
<1>1. ASSUME NEW q \in Requests, ClientStep(q)
      PROVE  ServerInv'
  BY <1>1, RefuseArgumentsInv, ForwardPortInv, ConnectInv, WritePartInv, ReadResponseInv
     DEF ClientStep
<1>2. ASSUME NEW q \in Requests, HandlerStep(q)
      PROVE  ServerInv'
  BY <1>2, ReadCommandInv, ReadRequestInv, RunCallInv, RunProcessInv, RespondInv, StartShellInv,
     PollResultInv, BindServiceInv, AwaitServiceInv, AwaitEndsInv DEF HandlerStep
<1>3. ASSUME NEW q \in Requests, OthersStep(q)
      PROVE  ServerInv'
  BY <1>3, OpenFilesInv, ServiceWritesInv, ServiceReportsInv, AppEndsInv, ServiceConnectedInv,
     NullBindingInv, ServiceDisconnectedInv DEF OthersStep, NoBinder
<1>4. CASE Take \/ Kill
  BY <1>4, TakeInv, AppEndsInv DEF Kill
<1>5. CASE StartServer \/ UNCHANGED serverVars
  BY <1>5, NothingMoves DEF StartServer, serverVars, conn, asked, device
<1> QED
  BY <1>1, <1>2, <1>3, <1>4, <1>5 DEF ServerNext, Done

LEMMA ServerInvariant == ServerSpec => []ServerInv
BY ServerInitInv, ServerStep, PTL DEF ServerSpec

(* The parts of the server's state keep their types whatever the clients,  *)
(* the services and the system do: a request runs at most once, and no     *)
(* more than an answer's three parts are written.                          *)
THEOREM ServerTyping == ServerSpec => []ServerTypes
<1>1. ServerInv => ServerTypes
  BY DEF ServerInv
<1> QED
  BY <1>1, ServerInvariant, PTL

(* The output a client is given of a shell command is that command's, all  *)
(* of it, and nothing of another one, unless one of the same service ran   *)
(* before it was read, whatever the requests, the services and the order   *)
(* in which threads, services and the system take their steps.             *)
THEOREM OutputsOwn == ServerSpec => []ShellOutputOwn
<1>1. ServerInv => ShellOutputOwn
  BY DEF ServerInv, FilesOwn, ShellOutputOwn
<1> QED
  BY <1>1, ServerInvariant, PTL

(* What a client returns is true of what the device did: a result comes of *)
(* a request that ran once and, where it is decoded, of a whole answer; a  *)
(* refused connection or request, and a test or transaction whose service  *)
(* did not connect in time, ran nothing, then or later, and a failed one   *)
(* left no binding.  An exception says nothing of whether the callee ran.  *)
THEOREM ResultsTrue == ServerSpec => []ResultsAreTrue
<1>1. ASSUME ServerInv, NEW r \in Requests
      PROVE  /\ ran[r] <= 1
             /\ result[r] = "ok" => ran[r] = 1 /\ (r \notin Raw => out[r] = 3)
             /\ result[r] = "refused" => ran[r] = 0
             /\ NotTried(r) => ran[r] = 0
             /\ kind[r] = "bind" /\ answer[r].status = "FAIL" => ~bound[r]
  <2>0. ServerTypes /\ Consistent(r) /\ ClientKnows(r)
    BY <1>1 DEF ServerInv
  <2>1. ran[r] <= 1
    <3>1. ran[r] \in {0, 1}
      BY <2>0 DEF ServerTypes
    <3> QED
      BY <3>1
  <2>2. result[r] = "ok" => ran[r] = 1 /\ (r \notin Raw => out[r] = 3)
    BY <2>0 DEF ClientKnows
  <2>3. result[r] = "refused" => ran[r] = 0
    BY <2>0 DEF ClientKnows, Consistent, NothingDone, Before
  <2>4. answer[r].status = "FAIL" => ~bound[r]
    BY <2>0 DEF Consistent, NothingDone, Before, Nothing
  <2> QED
    BY <2>0, <2>1, <2>2, <2>3, <2>4 DEF Consistent, NotTried
<1>2. ServerInv => ResultsAreTrue
  BY <1>1 DEF ResultsAreTrue
<1> QED
  BY <1>2, ServerInvariant, PTL
=================================================================================
