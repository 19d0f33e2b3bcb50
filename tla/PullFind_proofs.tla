---------------------------- MODULE PullFind_proofs ----------------------------
(***************************************************************************)
(* Proofs about the search for framework files: its groups are sorted, and *)
(* a search that succeeded collected each file as often as it was printed. *)
(***************************************************************************)
EXTENDS PullFind, FiniteSetTheorems, SequenceTheorems, TLAPS

-------------------------------------------------------------------------------
(* Counting in sequences.                                                  *)

LEMMA TimesIsNat ==
  ASSUME NEW S, NEW s \in Seq(S), NEW x
  PROVE  IsFiniteSet({i \in DOMAIN s : s[i] = x}) /\ Times(x, s) \in Nat
<1>1. DOMAIN s = 1 .. Len(s) /\ IsFiniteSet(1 .. Len(s))
  BY FS_Interval
<1>2. IsFiniteSet({i \in DOMAIN s : s[i] = x})
  <2>1. {i \in DOMAIN s : s[i] = x} \in SUBSET (1 .. Len(s))
    BY <1>1
  <2> QED
    BY <2>1, <1>1, FS_Subset
<1> QED
  BY <1>2, FS_CardinalityType DEF Times

LEMMA ShiftIsInjective == \A a, b, k \in Int : a + k = b + k => a = b
  OBVIOUS

(* Moving a set of numbers keeps its size.                                 *)
LEMMA ShiftedCardinality ==
  ASSUME NEW A \in SUBSET Int, IsFiniteSet(A), NEW k \in Int,
         NEW B, B = {i + k : i \in A}
  PROVE  IsFiniteSet(B) /\ Cardinality(B) = Cardinality(A)
<1> DEFINE f == [i \in A |-> i + k]
<1>1. f \in Injection(A, B)
  <2>1. f \in [A -> B]
    OBVIOUS
  <2>2. ASSUME NEW a \in A, NEW b \in A, f[a] = f[b] PROVE a = b
    <3>1. f[a] = a + k /\ f[b] = b + k
      OBVIOUS
    <3>2. a + k = b + k
      BY <2>2, <3>1
    <3>3. a \in Int /\ b \in Int
      OBVIOUS
    <3> QED
      BY <3>2, <3>3, ShiftIsInjective
  <2> QED
    BY <2>1, <2>2 DEF Injection, IsInjective
<1>2. f \in Surjection(A, B)
  BY DEF Surjection
<1> QED
  BY <1>1, <1>2, FS_Surjection

LEMMA TimesConcat ==
  ASSUME NEW S, NEW s \in Seq(S), NEW t \in Seq(S), NEW x
  PROVE  Times(x, s \o t) = Times(x, s) + Times(x, t)
<1> DEFINE A == {i \in DOMAIN s : s[i] = x}
           B == {i \in DOMAIN t : t[i] = x}
           C == {i \in DOMAIN (s \o t) : (s \o t)[i] = x}
           D == {i + Len(s) : i \in B}
<1>1. Len(s) \in Nat /\ Len(t) \in Nat /\ DOMAIN s = 1 .. Len(s) /\ DOMAIN t = 1 .. Len(t)
  OBVIOUS
<1>2. s \o t \in Seq(S) /\ DOMAIN (s \o t) = 1 .. Len(s) + Len(t)
  BY ConcatProperties
<1>3. \A i \in 1 .. Len(s) + Len(t) :
         (s \o t)[i] = IF i <= Len(s) THEN s[i] ELSE t[i - Len(s)]
  BY ConcatProperties
<1>4. IsFiniteSet(A) /\ IsFiniteSet(B)
  BY TimesIsNat
<1>5. IsFiniteSet(D) /\ Cardinality(D) = Cardinality(B)
  <2>1. B \in SUBSET Int
    BY <1>1
  <2>2. Len(s) \in Int
    BY <1>1
  <2>3. D = {i + Len(s) : i \in B}
    OBVIOUS
  <2> HIDE DEF B, D
  <2> QED
    BY <2>1, <2>2, <2>3, <1>4, ShiftedCardinality
<1>6. C = A \cup D
  <2>1. ASSUME NEW i \in C PROVE i \in A \cup D
    <3>1. i \in 1 .. Len(s) + Len(t) /\ (s \o t)[i] = x
      BY <1>2
    <3>2. CASE i <= Len(s)
      BY <3>1, <3>2, <1>1, <1>3
    <3>3. CASE ~(i <= Len(s))
      <4>1. i - Len(s) \in B /\ i = (i - Len(s)) + Len(s)
        BY <3>1, <3>3, <1>1, <1>3
      <4> QED
        BY <4>1
    <3> QED
      BY <3>2, <3>3
  <2>2. ASSUME NEW i \in A PROVE i \in C
    BY <1>1, <1>2, <1>3
  <2>3. ASSUME NEW i \in B PROVE i + Len(s) \in C
    <3>1. i + Len(s) \in 1 .. Len(s) + Len(t) /\ ~(i + Len(s) <= Len(s)) /\ i + Len(s) - Len(s) = i
      BY <1>1
    <3> QED
      BY <3>1, <1>2, <1>3
  <2> QED
    BY <2>1, <2>2, <2>3
<1>7. A \cap D = {}
  BY <1>1
<1>8. Cardinality(A \cup D) = Cardinality(A) + Cardinality(D) - 0
  <2> HIDE DEF A, D
  <2>1. Cardinality(A \cap D) = 0
    BY <1>7, FS_EmptySet
  <2> QED
    BY <2>1, <1>4, <1>5, FS_Union
<1>9. Cardinality(A) \in Nat /\ Cardinality(B) \in Nat
  BY <1>4, FS_CardinalityType
<1> HIDE DEF A, B, C, D
<1>10. Cardinality(C) = Cardinality(A) + Cardinality(B)
  BY <1>5, <1>6, <1>8, <1>9
<1> QED
  BY <1>10 DEF Times, A, B, C

LEMMA TimesSingle ==
  ASSUME NEW S, NEW y \in S, NEW x
  PROVE  Times(x, <<y>>) = IF x = y THEN 1 ELSE 0
<1>1. DOMAIN <<y>> = {1} /\ <<y>>[1] = y
  OBVIOUS
<1>2. CASE x = y
  <2>1. {i \in DOMAIN <<y>> : <<y>>[i] = x} = {1}
    BY <1>1, <1>2
  <2> QED
    BY <2>1, <1>2, FS_Singleton DEF Times
<1>3. CASE x # y
  <2>1. {i \in DOMAIN <<y>> : <<y>>[i] = x} = {}
    BY <1>1, <1>3
  <2> QED
    BY <2>1, <1>3, FS_EmptySet DEF Times
<1> QED
  BY <1>2, <1>3

LEMMA TimesAppend ==
  ASSUME NEW S, NEW s \in Seq(S), NEW y \in S, NEW x
  PROVE  Times(x, Append(s, y)) = Times(x, s) + (IF x = y THEN 1 ELSE 0)
<1>1. <<y>> \in Seq(S) /\ Append(s, y) = s \o <<y>>
  BY AppendIsConcat
<1>2. Times(x, s \o <<y>>) = Times(x, s) + Times(x, <<y>>)
  BY <1>1, TimesConcat
<1>3. Times(x, <<y>>) = IF x = y THEN 1 ELSE 0
  BY TimesSingle
<1> QED
  BY <1>1, <1>2, <1>3

LEMMA TimesTail ==
  ASSUME NEW S, NEW s \in Seq(S), s # <<>>, NEW x
  PROVE  Times(x, s) = Times(x, Tail(s)) + (IF x = Head(s) THEN 1 ELSE 0)
<1>1. Head(s) \in S /\ Tail(s) \in Seq(S) /\ <<Head(s)>> \in Seq(S)
  BY HeadTailProperties
<1>2. s = <<Head(s)>> \o Tail(s)
  <2> DEFINE u == <<Head(s)>> \o Tail(s)
  <2>1. u \in Seq(S) /\ Len(u) = 1 + Len(Tail(s))
    BY <1>1, ConcatProperties
  <2>2. \A i \in 1 .. 1 + Len(Tail(s)) :
           u[i] = IF i <= 1 THEN <<Head(s)>>[i] ELSE Tail(s)[i - 1]
    <3>1. Len(<<Head(s)>>) = 1
      OBVIOUS
    <3> QED
      BY <3>1, <1>1, ConcatProperties
  <2>3. Len(u) = Len(s) /\ Len(s) \in Nat
    BY <2>1, HeadTailProperties
  <2>4. ASSUME NEW i \in 1 .. Len(s) PROVE s[i] = u[i]
    <3>1. CASE i = 1
      BY <3>1, <2>1, <2>2, <2>3
    <3>2. CASE i # 1
      <4>1. i - 1 \in 1 .. Len(Tail(s)) /\ ~(i <= 1) /\ (i - 1) + 1 = i
        BY <3>2, <2>1, <2>3
      <4>2. Tail(s)[i - 1] = s[i]
        BY <4>1, HeadTailProperties
      <4> QED
        BY <4>1, <4>2, <2>1, <2>2, <2>3
    <3> QED
      BY <3>1, <3>2
  <2> HIDE DEF u
  <2>5. s = u
    BY <2>1, <2>3, <2>4, SeqEqual
  <2> QED
    BY <2>5 DEF u
<1>3. Times(x, s) = Times(x, <<Head(s)>>) + Times(x, Tail(s))
  BY <1>1, <1>2, TimesConcat
<1>4. Times(x, <<Head(s)>>) = IF x = Head(s) THEN 1 ELSE 0
  BY <1>1, TimesSingle
<1>5. Times(x, Tail(s)) \in Nat
  BY <1>1, TimesIsNat
<1> QED
  BY <1>3, <1>4, <1>5
-------------------------------------------------------------------------------
(* push and sort.                                                          *)

Inserted(v, n, f) == SubSeq(v, 1, n) \o <<f>> \o SubSeq(v, n + 1, Len(v))

LEMMA InsertedProperties ==
  ASSUME NEW S, NEW v \in Seq(S), NEW f \in S, NEW n \in 0 .. Len(v)
  PROVE  /\ Inserted(v, n, f) \in Seq(S)
         /\ Len(Inserted(v, n, f)) = Len(v) + 1
         /\ \A i \in 1 .. Len(v) + 1 :
               Inserted(v, n, f)[i] = IF i <= n THEN v[i]
                                      ELSE IF i = n + 1 THEN f ELSE v[i - 1]
         /\ \A x : Times(x, Inserted(v, n, f)) = Times(x, v) + (IF x = f THEN 1 ELSE 0)
<1> DEFINE a == SubSeq(v, 1, n)
           b == SubSeq(v, n + 1, Len(v))
           af == a \o <<f>>
           w == af \o b
<1>1. Len(v) \in Nat /\ n \in Nat /\ n <= Len(v) /\ \A i \in 1 .. Len(v) : v[i] \in S
  BY ElementOfSeq
<1>2. a \in Seq(S) /\ Len(a) = n /\ \A i \in 1 .. n : a[i] = v[i]
  <2>1. 1 \in Int /\ n \in Int /\ \A i \in 1 .. n : v[i] \in S
    BY <1>1
  <2>2. /\ a \in Seq(S) /\ Len(a) = IF 1 <= n THEN n - 1 + 1 ELSE 0
        /\ \A i \in 1 .. n - 1 + 1 : a[i] = v[1 + i - 1]
    BY <2>1, SubSeqProperties
  <2>3. n - 1 + 1 = n /\ \A i \in 1 .. n : 1 + i - 1 = i
    BY <1>1
  <2>4. \A i \in 1 .. n : a[i] = v[i]
    BY <2>2, <2>3
  <2> QED
    BY <2>2, <2>4, <1>1
<1>3. b \in Seq(S) /\ Len(b) = Len(v) - n /\ \A i \in 1 .. Len(v) - n : b[i] = v[n + i]
  <2>1. n + 1 \in Int /\ Len(v) \in Int /\ \A i \in n + 1 .. Len(v) : v[i] \in S
    BY <1>1
  <2>2. /\ b \in Seq(S) /\ Len(b) = IF n + 1 <= Len(v) THEN Len(v) - (n + 1) + 1 ELSE 0
        /\ \A i \in 1 .. Len(v) - (n + 1) + 1 : b[i] = v[n + 1 + i - 1]
    BY <2>1, SubSeqProperties
  <2>3. Len(v) - (n + 1) + 1 = Len(v) - n /\ \A i \in Nat : n + 1 + i - 1 = n + i
    BY <1>1
  <2>4. \A i \in 1 .. Len(v) - n : b[i] = v[n + i]
    BY <2>2, <2>3
  <2> QED
    BY <2>2, <2>4, <1>1
<1>4. v = a \o b
  <2>1. 1 \in 1 .. Len(v) + 1 /\ n \in 1 - 1 .. Len(v) /\ Len(v) \in n .. Len(v)
    BY <1>1
  <2>2. a \o b = SubSeq(v, 1, Len(v))
    BY <2>1, ConcatAdjacentSubSeq
  <2> QED
    BY <2>2, SubSeqFull
<1> HIDE DEF a, b
<1>5. <<f>> \in Seq(S) /\ Len(<<f>>) = 1 /\ <<f>>[1] = f
  OBVIOUS
<1>6. /\ af \in Seq(S) /\ Len(af) = n + 1
      /\ \A i \in 1 .. n + 1 : af[i] = IF i <= n THEN v[i] ELSE f
  <2>1. /\ af \in Seq(S) /\ Len(af) = n + 1
        /\ \A i \in 1 .. n + 1 : af[i] = IF i <= n THEN a[i] ELSE <<f>>[i - n]
    BY <1>2, <1>5, ConcatProperties
  <2>2. ASSUME NEW i \in 1 .. n + 1 PROVE af[i] = IF i <= n THEN v[i] ELSE f
    <3>1. CASE i <= n
      BY <3>1, <2>1, <1>1, <1>2
    <3>2. CASE ~(i <= n)
      <4>1. i - n = 1
        BY <3>2, <1>1
      <4> QED
        BY <3>2, <4>1, <2>1, <1>5
    <3> QED
      BY <3>1, <3>2
  <2> QED
    BY <2>1, <2>2
<1>7. /\ w \in Seq(S) /\ Len(w) = n + 1 + (Len(v) - n)
      /\ \A i \in 1 .. n + 1 + (Len(v) - n) :
            w[i] = IF i <= n + 1 THEN af[i] ELSE b[i - (n + 1)]
  <2> HIDE DEF af
  <2>1. /\ w \in Seq(S) /\ Len(w) = Len(af) + Len(b)
        /\ \A i \in 1 .. Len(af) + Len(b) :
              w[i] = IF i <= Len(af) THEN af[i] ELSE b[i - Len(af)]
    BY <1>3, <1>6, ConcatProperties
  <2>2. Len(af) = n + 1 /\ Len(b) = Len(v) - n
    BY <1>3, <1>6
  <2> HIDE DEF w
  <2> QED
    BY <2>1, <2>2
<1>8. n + 1 + (Len(v) - n) = Len(v) + 1
  BY <1>1
<1>9. ASSUME NEW i \in 1 .. Len(v) + 1
      PROVE  w[i] = IF i <= n THEN v[i] ELSE IF i = n + 1 THEN f ELSE v[i - 1]
  <2> HIDE DEF w, af
  <2>1. CASE i <= n + 1
    <3>1. w[i] = af[i] /\ i \in 1 .. n + 1
      BY <2>1, <1>1, <1>7, <1>8
    <3> QED
      BY <2>1, <3>1, <1>6, <1>1
  <2>2. CASE ~(i <= n + 1)
    <3>1. i - (n + 1) \in 1 .. Len(v) - n /\ n + (i - (n + 1)) = i - 1
      BY <2>2, <1>1
    <3>2. i \in 1 .. n + 1 + (Len(v) - n)
      BY <1>8
    <3>3. w[i] = b[i - (n + 1)]
      BY <2>2, <3>2, <1>7
    <3>4. b[i - (n + 1)] = v[i - 1]
      BY <3>1, <1>3
    <3>5. ~(i <= n) /\ i # n + 1
      BY <2>2, <1>1
    <3> QED
      BY <3>3, <3>4, <3>5
  <2> QED
    BY <2>1, <2>2
<1>10. ASSUME NEW x PROVE Times(x, w) = Times(x, v) + (IF x = f THEN 1 ELSE 0)
  <2>1. Times(x, w) = Times(x, af) + Times(x, b)
    <3> HIDE DEF af
    <3> QED
      BY <1>3, <1>6, TimesConcat
  <2>2. Times(x, af) = Times(x, a) + Times(x, <<f>>)
    BY <1>2, <1>5, TimesConcat
  <2>3. Times(x, v) = Times(x, a) + Times(x, b)
    BY <1>2, <1>3, <1>4, TimesConcat
  <2>4. Times(x, <<f>>) = IF x = f THEN 1 ELSE 0
    BY TimesSingle
  <2>5. Times(x, a) \in Nat /\ Times(x, b) \in Nat
    BY <1>2, <1>3, TimesIsNat
  <2> HIDE DEF w, af
  <2> QED
    BY <2>1, <2>2, <2>3, <2>4, <2>5
<1>11. Inserted(v, n, f) = w
  BY DEF Inserted, a, b
<1> HIDE DEF w, af
<1> QED
  BY <1>7, <1>8, <1>9, <1>10, <1>11

LEMMA KindIsInt == \A f \in File : Kind[f] \in Int
<1>1. Kind \in [File -> Kinds]
  BY FindAssumption
<1>2. Kinds \subseteq Int
  BY DEF Kinds, Jar, VDex, Dex, Apex, Apk
<1> QED
  BY <1>1, <1>2

Sorted(v) == \A i, j \in DOMAIN v : i < j => Kind[v[i]] <= Kind[v[j]]

(* In a sorted group the files that are not after f are a prefix of it.    *)
LEMMA PrefixOfSorted ==
  ASSUME NEW v \in Seq(File), NEW f \in File
  PROVE  LET n == Cardinality({i \in DOMAIN v : Kind[v[i]] <= Kind[f]})
         IN  /\ n \in 0 .. Len(v)
             /\ Sorted(v) =>
                  \A i \in DOMAIN v : Kind[v[i]] <= Kind[f] <=> i <= n
<1> DEFINE D == {i \in DOMAIN v : Kind[v[i]] <= Kind[f]}
           n == Cardinality(D)
<1>1. Len(v) \in Nat /\ DOMAIN v = 1 .. Len(v) /\ \A i \in 1 .. Len(v) : v[i] \in File
  BY ElementOfSeq
<1>2. IsFiniteSet(1 .. Len(v)) /\ Cardinality(1 .. Len(v)) = Len(v)
  <2>1. 1 \in Int /\ Len(v) \in Int /\ Len(v) - 1 + 1 = Len(v) /\ (1 > Len(v) => Len(v) = 0)
    BY <1>1
  <2>2. /\ IsFiniteSet(1 .. Len(v))
        /\ Cardinality(1 .. Len(v)) = IF 1 > Len(v) THEN 0 ELSE Len(v) - 1 + 1
    BY <2>1, FS_Interval
  <2> QED
    BY <2>1, <2>2
<1>3. D \in SUBSET (1 .. Len(v))
  BY <1>1
<1>4. IsFiniteSet(D) /\ n \in Nat /\ n <= Len(v)
  BY <1>2, <1>3, FS_Subset, FS_CardinalityType
<1>5. n \in 0 .. Len(v)
  BY <1>1, <1>4
<1>6. ASSUME Sorted(v) PROVE D = 1 .. n
  <2>1. ASSUME NEW i \in D PROVE i \in 1 .. n
    <3>1. i \in 1 .. Len(v) /\ i \in Nat
      BY <1>3, <1>1
    <3>2. 1 .. i \in SUBSET D
      <4> SUFFICES ASSUME NEW j \in 1 .. i PROVE j \in D
        OBVIOUS
      <4>1. j \in 1 .. Len(v)
        BY <3>1, <1>1
      <4>2. CASE j = i
        BY <4>2
      <4>3. CASE j < i
        <5>1. Kind[v[j]] <= Kind[v[i]] /\ Kind[v[i]] <= Kind[f]
          BY <4>1, <4>3, <1>1, <1>6 DEF Sorted
        <5>2. Kind[v[j]] \in Int /\ Kind[v[i]] \in Int /\ Kind[f] \in Int
          BY <3>1, <4>1, <1>1, KindIsInt
        <5> QED
          BY <5>1, <5>2, <4>1, <1>1
      <4> QED
        BY <4>2, <4>3, <3>1
    <3>3. Cardinality(1 .. i) <= n /\ Cardinality(1 .. i) = i
      <4>1. Cardinality(1 .. i) = i
        BY <3>1, FS_Interval
      <4> HIDE DEF D
      <4> QED
        BY <4>1, <3>2, <1>4, FS_Subset
    <3> QED
      BY <3>1, <3>3, <1>4
  <2>2. IsFiniteSet(1 .. n) /\ Cardinality(1 .. n) = n
    BY <1>4, FS_Interval
  <2>3. D \in SUBSET (1 .. n)
    BY <2>1
  <2> HIDE DEF D
  <2> QED
    BY <2>2, <2>3, FS_Subset
<1>7. Sorted(v) => \A i \in DOMAIN v : Kind[v[i]] <= Kind[f] <=> i <= n
  <2> SUFFICES ASSUME Sorted(v), NEW i \in DOMAIN v
               PROVE  Kind[v[i]] <= Kind[f] <=> i <= n
    OBVIOUS
  <2>1. i \in D <=> i \in 1 .. n
    BY <1>6
  <2>2. i \in D <=> Kind[v[i]] <= Kind[f]
    OBVIOUS
  <2>3. i \in 1 .. n <=> i <= n
    BY <1>1, <1>4
  <2> QED
    BY <2>1, <2>2, <2>3
<1> QED
  BY <1>5, <1>7

LEMMA PushSortedProperties ==
  ASSUME NEW v \in Seq(File), NEW f \in File
  PROVE  /\ PushSorted(v, f) \in Seq(File) \ {<<>>}
         /\ \A x : Times(x, PushSorted(v, f)) = Times(x, v) + (IF x = f THEN 1 ELSE 0)
         /\ Sorted(v) => Sorted(PushSorted(v, f))
<1> DEFINE n == Cardinality({i \in DOMAIN v : Kind[v[i]] <= Kind[f]})
           w == Inserted(v, n, f)
<1>1. PushSorted(v, f) = w
  BY DEF PushSorted, Inserted
<1>2. n \in 0 .. Len(v) /\ (Sorted(v) => \A i \in DOMAIN v : Kind[v[i]] <= Kind[f] <=> i <= n)
  BY PrefixOfSorted
<1> HIDE DEF n
<1>3. /\ w \in Seq(File) /\ Len(w) = Len(v) + 1
      /\ \A i \in 1 .. Len(v) + 1 :
            w[i] = IF i <= n THEN v[i] ELSE IF i = n + 1 THEN f ELSE v[i - 1]
      /\ \A x : Times(x, w) = Times(x, v) + (IF x = f THEN 1 ELSE 0)
  BY <1>2, InsertedProperties
<1>4. Len(v) \in Nat /\ n \in Nat /\ DOMAIN v = 1 .. Len(v) /\ DOMAIN w = 1 .. Len(v) + 1
  BY <1>2, <1>3
<1> HIDE DEF w
<1>5. w # <<>>
  BY <1>3, <1>4
<1>6. ASSUME Sorted(v) PROVE Sorted(w)
  <2> SUFFICES ASSUME NEW i \in 1 .. Len(v) + 1, NEW j \in 1 .. Len(v) + 1, i < j
               PROVE  Kind[w[i]] <= Kind[w[j]]
    BY <1>4 DEF Sorted
  <2>1. \A k \in 1 .. Len(v) : v[k] \in File
    BY ElementOfSeq
  <2>2. \A g \in File : Kind[g] \in Int
    BY KindIsInt
  <2>3. \A k \in 1 .. Len(v) : (k <= n => Kind[v[k]] <= Kind[f]) /\ (~(k <= n) => Kind[f] <= Kind[v[k]])
    BY <1>2, <1>4, <1>6, <2>1, <2>2
  <2>4. \A k, m \in 1 .. Len(v) : k <= m => Kind[v[k]] <= Kind[v[m]]
    BY <1>4, <1>6, <2>1, <2>2 DEF Sorted
  <2>5. CASE j <= n
    BY <2>5, <2>4, <1>2, <1>3, <1>4
  <2>6. CASE j = n + 1
    BY <2>6, <2>3, <1>2, <1>3, <1>4
  <2>7. CASE j > n + 1
    <3>1. w[j] = v[j - 1] /\ j - 1 \in 1 .. Len(v) /\ ~(j - 1 <= n)
      BY <2>7, <1>3, <1>4
    <3>2. CASE i <= n
      <4>1. w[i] = v[i] /\ i \in 1 .. Len(v) /\ i <= j - 1
        BY <2>7, <3>2, <1>2, <1>3, <1>4
      <4> QED
        BY <3>1, <4>1, <2>4
    <3>3. CASE i = n + 1
      <4>1. w[i] = f
        BY <3>3, <1>3, <1>4
      <4> QED
        BY <3>1, <4>1, <2>3
    <3>4. CASE i > n + 1
      <4>1. w[i] = v[i - 1] /\ i - 1 \in 1 .. Len(v) /\ i - 1 <= j - 1
        BY <3>4, <1>3, <1>4
      <4> QED
        BY <3>1, <4>1, <2>4
    <3> QED
      BY <3>2, <3>3, <3>4, <1>4
  <2> QED
    BY <2>5, <2>6, <2>7, <1>4
<1> QED
  BY <1>1, <1>3, <1>5, <1>6

-------------------------------------------------------------------------------
(* Typing.                                                                 *)

LEMMA CurrentDirIsDir ==
  ASSUME TypeOK, lister.pc \in {"check", "send"}
  PROVE  CurrentDir \in Dir
<1>1. lister.cmd \in DOMAIN DirListing /\ lister.line \in DOMAIN DirListing[lister.cmd]
  BY DEF TypeOK
<1>2. DirListing \in Seq(Seq(Dir))
  BY FindAssumption
<1>3. DirListing[lister.cmd] \in Seq(Dir)
  BY <1>1, <1>2, ElementOfSeq
<1> QED
  BY <1>1, <1>3, ElementOfSeq DEF CurrentDir

LEMMA WalkIsTyped ==
  ASSUME TypeOK, walker.pc \in {"walk", "sendcheck", "send"}
  PROVE  /\ walker.dir \in Dir /\ walker.line \in Nat \ {0}
         /\ walker = [pc |-> walker.pc, dir |-> walker.dir, line |-> walker.line]
         /\ FilesIn[walker.dir] \in Seq(File)
<1>1. walker \in [pc: {"walk", "sendcheck", "send"}, dir: Dir, line: Nat \ {0}]
  BY DEF TypeOK, WalkerState, Ended
<1> QED
  BY <1>1, FindAssumption

LEMMA CurrentFileIsFound ==
  ASSUME TypeOK, walker.pc \in {"sendcheck", "send"}
  PROVE  CurrentFile \in Found
<1>1. walker.line \in DOMAIN FilesIn[walker.dir]
  BY DEF TypeOK
<1>2. walker.dir \in Dir /\ FilesIn[walker.dir] \in Seq(File)
  BY WalkIsTyped
<1>3. FilesIn[walker.dir][walker.line] \in File
  BY <1>1, <1>2, ElementOfSeq
<1> QED
  BY <1>2, <1>3 DEF CurrentFile, Found

LEMMA TypeInit == Init => TypeOK
<1> SUFFICES ASSUME Init PROVE TypeOK
  OBVIOUS
<1>1. lister \in ListerState /\ lister.pc = "find"
  BY DEF Init, ListerState
<1>2. walker \in WalkerState /\ walker.pc = "check"
  BY DEF Init, WalkerState
<1>3. dirChan \in Seq(Dir) /\ Len(dirChan) = 0 /\ fileChan \in Seq(Found) /\ Len(fileChan) = 0
  BY DEF Init
<1>4. apks \in Seq(File) /\ DOMAIN groups = {}
  BY DEF Init
<1>5. DirCapacity \in Nat /\ FileCapacity \in Nat
  BY FindAssumption
<1>6. Len(dirChan) <= DirCapacity /\ Len(fileChan) <= FileCapacity
  BY <1>3, <1>5
<1>7. cancelled \in BOOLEAN /\ collector \in {"check", "recv"} \cup Ended /\ result \in {"none"} \cup Ended
  BY DEF Init
<1> QED
  BY <1>1, <1>2, <1>3, <1>4, <1>6, <1>7 DEF TypeOK

ListerPlaced ==
  lister.pc \in {"check", "send"} =>
    lister.cmd \in DOMAIN DirListing /\ lister.line \in DOMAIN DirListing[lister.cmd]

DirChanOK == dirChan \in Seq(Dir) /\ Len(dirChan) <= DirCapacity

LEMMA ListerTypes ==
  ASSUME TypeOK, Lister
  PROVE  TypeOK'
<1>0. DirCapacity \in Nat /\ lister \in ListerState /\ DirChanOK /\ ListerPlaced
  BY FindAssumption DEF TypeOK, DirChanOK, ListerPlaced
<1>1. CASE ListLine
  <2>1. lister' \in ListerState /\ ListerPlaced'
    BY <1>0, <1>1 DEF ListLine, ListerState, ListerPlaced
  <2> QED
    BY <1>1, <2>1 DEF ListLine, TypeOK, Lister, ListerPlaced
<1>2. CASE ListCheck
  <2>1. lister.pc = "check" /\ DirListing[lister.cmd] \in Seq(Dir)
    <3>1. lister.pc = "check" /\ lister.cmd \in DOMAIN DirListing
      BY <1>0, <1>2 DEF ListCheck, ListerPlaced
    <3> QED
      BY <3>1, FindAssumption, ElementOfSeq
  <2>2. Len(DirListing[lister.cmd]) + 1 \in Nat \ {0}
    BY <2>1
  <2>3. lister' \in ListerState /\ ListerPlaced'
    BY <1>0, <1>2, <2>1, <2>2 DEF ListCheck, ListerState, ListerPlaced, Ended
  <2> QED
    BY <1>2, <2>3 DEF ListCheck, TypeOK, Lister, ListerPlaced
<1>3. CASE ListSend
  <2>1. lister' \in ListerState /\ ListerPlaced'
    <3>1. CASE lister' = [lister EXCEPT !.pc = "find", !.line = @ + 1]
      <4>1. lister.line + 1 \in Nat \ {0}
        BY <1>0 DEF ListerState
      <4>2. lister' = [lister EXCEPT !.pc = "find", !.line = lister.line + 1]
        BY <3>1
      <4> QED
        BY <1>0, <4>1, <4>2 DEF ListerState, ListerPlaced
    <3>2. CASE lister' = [lister EXCEPT !.pc = "check"]
      BY <1>0, <1>3, <3>2 DEF ListSend, ListerState, ListerPlaced
    <3> QED
      BY <3>1, <3>2, <1>3 DEF ListSend
  <2>2. CurrentDir \in Dir
    BY <1>3, CurrentDirIsDir DEF ListSend
  <2>3. DirChanOK'
    <3>1. CASE UNCHANGED dirChan
      BY <3>1, <1>0 DEF DirChanOK
    <3>2. CASE Len(dirChan) < DirCapacity /\ dirChan' = Append(dirChan, CurrentDir)
      <4>1. dirChan' \in Seq(Dir) /\ Len(dirChan') = Len(dirChan) + 1 /\ Len(dirChan) \in Nat
        BY <3>2, <2>2, <1>0, AppendProperties DEF DirChanOK
      <4> QED
        BY <4>1, <3>2, <1>0 DEF DirChanOK
    <3> QED
      BY <3>1, <3>2, <1>3 DEF ListSend
  <2> QED
    BY <2>1, <2>3 DEF TypeOK, Lister, ListerPlaced, DirChanOK
<1>4. CASE ListEnd
  <2>1. lister' \in ListerState /\ ListerPlaced'
    <3>1. CASE lister' = [lister EXCEPT !.cmd = @ + 1, !.line = 1]
      <4>1. lister.cmd + 1 \in Nat \ {0} /\ 1 \in Nat \ {0}
        BY <1>0 DEF ListerState
      <4>2. lister' = [lister EXCEPT !.cmd = lister.cmd + 1, !.line = 1]
        BY <3>1
      <4>3. lister.pc = "find"
        BY <1>4 DEF ListEnd
      <4> QED
        BY <1>0, <4>1, <4>2, <4>3 DEF ListerState, ListerPlaced
    <3>2. CASE lister' = [lister EXCEPT !.pc = "err"]
      BY <1>0, <3>2 DEF ListerState, ListerPlaced, Ended
    <3> QED
      BY <3>1, <3>2, <1>4 DEF ListEnd
  <2> QED
    BY <1>4, <2>1 DEF ListEnd, TypeOK, Lister, ListerPlaced
<1>5. CASE ListDone
  <2>1. lister' \in ListerState /\ ListerPlaced'
    BY <1>0, <1>5 DEF ListDone, ListerState, ListerPlaced, Ended
  <2> QED
    BY <1>5, <2>1 DEF ListDone, TypeOK, Lister, ListerPlaced
<1> QED
  BY <1>1, <1>2, <1>3, <1>4, <1>5 DEF Lister

WalkerPlaced ==
  walker.pc \in {"sendcheck", "send"} => walker.line \in DOMAIN FilesIn[walker.dir]

FileChanOK == fileChan \in Seq(Found) /\ Len(fileChan) <= FileCapacity

Walking == [pc: {"walk", "sendcheck", "send"}, dir: Dir, line: Nat \ {0}]

LEMMA WalkerTypes ==
  ASSUME TypeOK, Walker
  PROVE  TypeOK'
<1>0. /\ DirCapacity \in Nat /\ FileCapacity \in Nat /\ walker \in WalkerState
      /\ DirChanOK /\ FileChanOK /\ WalkerPlaced
  BY FindAssumption DEF TypeOK, DirChanOK, FileChanOK, WalkerPlaced
<1>a. walker.pc \in {"walk", "sendcheck", "send"} => walker \in Walking
  BY <1>0 DEF WalkerState, Walking, Ended
<1>b. Walking \subseteq WalkerState /\ \A p \in {"check", "recv"} \cup Ended : [pc |-> p] \in WalkerState
  BY DEF Walking, WalkerState
<1>1. CASE WalkCheck
  <2>1. walker' \in WalkerState /\ WalkerPlaced'
    BY <1>1, <1>b DEF WalkCheck, WalkerPlaced, Ended
  <2> QED
    BY <1>1, <2>1 DEF WalkCheck, TypeOK, Walker, WalkerPlaced
<1>2. CASE WalkRecv
  <2>1. CASE dirChan # <<>> /\ walker' = [pc |-> "walk", dir |-> Head(dirChan), line |-> 1]
             /\ dirChan' = Tail(dirChan)
    <3>1. Head(dirChan) \in Dir /\ Tail(dirChan) \in Seq(Dir) /\ Len(Tail(dirChan)) = Len(dirChan) - 1
      BY <2>1, <1>0, HeadTailProperties DEF DirChanOK
    <3>2. DirChanOK'
      <4>1. Len(dirChan) \in Nat
        BY <1>0 DEF DirChanOK
      <4> QED
        BY <2>1, <3>1, <4>1, <1>0 DEF DirChanOK
    <3>3. walker' \in WalkerState /\ WalkerPlaced'
      BY <2>1, <3>1, <1>b DEF Walking, WalkerPlaced
    <3> QED
      BY <1>2, <3>2, <3>3 DEF WalkRecv, TypeOK, Walker, WalkerPlaced, DirChanOK
  <2>2. CASE walker' = [pc |-> IF lister.pc \in Ended THEN "ok" ELSE "check"] /\ UNCHANGED dirChan
    <3>1. walker' \in WalkerState /\ WalkerPlaced'
      BY <2>2, <1>b DEF WalkerPlaced, Ended
    <3> QED
      BY <1>2, <2>2, <3>1 DEF WalkRecv, TypeOK, Walker, WalkerPlaced
  <2> QED
    BY <1>2, <2>1, <2>2 DEF WalkRecv
<1>3. CASE WalkLine
  <2>1. walker' \in WalkerState /\ WalkerPlaced'
    BY <1>3, <1>a, <1>b DEF WalkLine, WalkerPlaced, Walking
  <2> QED
    BY <1>3, <2>1 DEF WalkLine, TypeOK, Walker, WalkerPlaced
<1>4. CASE WalkSendCheck
  <2>1. Len(FilesIn[walker.dir]) + 1 \in Nat \ {0}
    <3>1. FilesIn[walker.dir] \in Seq(File)
      BY <1>4, WalkIsTyped DEF WalkSendCheck
    <3> QED
      BY <3>1
  <2>2. walker' \in WalkerState /\ WalkerPlaced'
    <3>1. CASE walker' = [pc |-> "err"]
      BY <3>1, <1>b DEF WalkerPlaced, Ended
    <3>2. CASE walker' = [walker EXCEPT !.pc = "send"]
      BY <1>0, <1>4, <3>2, <1>a, <1>b DEF WalkSendCheck, WalkerPlaced, Walking
    <3>3. CASE walker' = [walker EXCEPT !.pc = "walk", !.line = Len(FilesIn[walker.dir]) + 1]
      BY <1>4, <2>1, <3>3, <1>a, <1>b DEF WalkSendCheck, WalkerPlaced, Walking
    <3> QED
      BY <3>1, <3>2, <3>3, <1>4 DEF WalkSendCheck
  <2> QED
    BY <1>4, <2>2 DEF WalkSendCheck, TypeOK, Walker, WalkerPlaced
<1>5. CASE WalkSend
  <2>1. walker' \in WalkerState /\ WalkerPlaced'
    <3>1. CASE walker' = [walker EXCEPT !.pc = "walk", !.line = @ + 1]
      <4>1. walker \in Walking
        BY <1>5, <1>a DEF WalkSend
      <4>2. walker.line + 1 \in Nat \ {0}
        BY <4>1 DEF Walking
      <4>3. walker' = [walker EXCEPT !.pc = "walk", !.line = walker.line + 1]
        BY <3>1
      <4> QED
        BY <4>1, <4>2, <4>3, <1>b DEF WalkerPlaced, Walking
    <3>2. CASE walker' = [walker EXCEPT !.pc = "sendcheck"]
      BY <1>0, <1>5, <3>2, <1>a, <1>b DEF WalkSend, WalkerPlaced, Walking
    <3> QED
      BY <3>1, <3>2, <1>5 DEF WalkSend
  <2>2. FileChanOK'
    <3>1. CASE UNCHANGED fileChan
      BY <3>1, <1>0 DEF FileChanOK
    <3>2. CASE Len(fileChan) < FileCapacity /\ fileChan' = Append(fileChan, CurrentFile)
      <4>1. CurrentFile \in Found
        BY <1>5, CurrentFileIsFound DEF WalkSend
      <4>2. fileChan' \in Seq(Found) /\ Len(fileChan') = Len(fileChan) + 1 /\ Len(fileChan) \in Nat
        BY <3>2, <4>1, <1>0, AppendProperties DEF FileChanOK
      <4> QED
        BY <4>2, <3>2, <1>0 DEF FileChanOK
    <3> QED
      BY <3>1, <3>2, <1>5 DEF WalkSend
  <2> QED
    BY <1>5, <2>1, <2>2 DEF WalkSend, TypeOK, Walker, WalkerPlaced, FileChanOK
<1>6. CASE WalkEnd
  <2>1. walker' \in WalkerState /\ WalkerPlaced'
    BY <1>6, <1>b DEF WalkEnd, WalkerPlaced, Ended
  <2> QED
    BY <1>6, <2>1 DEF WalkEnd, TypeOK, Walker, WalkerPlaced
<1> QED
  BY <1>1, <1>2, <1>3, <1>4, <1>5, <1>6 DEF Walker

GroupsOK ==
  /\ DOMAIN groups \subseteq Dir \X {Name[f] : f \in File}
  /\ \A k \in DOMAIN groups : groups[k] \in Seq(File) \ {<<>>}

LEMMA ReceivedTypes ==
  ASSUME TypeOK, NEW g \in Found, Received(g)
  PROVE  GroupsOK' /\ apks' \in Seq(File)
<1>0. GroupsOK /\ apks \in Seq(File) /\ g.file \in File /\ g.dir \in Dir
  BY DEF TypeOK, GroupsOK, Found
<1>1. CASE Kind[g.file] = Apk
  <2>1. apks' \in Seq(File) /\ UNCHANGED groups
    BY <1>0, <1>1 DEF Received
  <2> QED
    BY <2>1, <1>0 DEF GroupsOK
<1>2. CASE Kind[g.file] # Apk
  <2>1. Key(g) \in Dir \X {Name[f] : f \in File}
    BY <1>0 DEF Key
  <2>2. DOMAIN groups' = DOMAIN groups \cup {Key(g)} /\ UNCHANGED apks
    BY <1>2 DEF Received
  <2>3. ASSUME NEW k \in DOMAIN groups' PROVE groups'[k] \in Seq(File) \ {<<>>}
    <3>1. CASE k # Key(g)
      <4>1. groups'[k] = groups[k] /\ k \in DOMAIN groups
        BY <1>2, <3>1, <2>2, <2>3 DEF Received
      <4> QED
        BY <4>1, <1>0 DEF GroupsOK
    <3>2. CASE k = Key(g) /\ k \in DOMAIN groups
      <4>1. groups'[k] = PushSorted(groups[k], g.file)
        BY <1>2, <3>2, <2>2, <2>3 DEF Received
      <4>2. groups[k] \in Seq(File)
        BY <3>2, <1>0 DEF GroupsOK
      <4> QED
        BY <4>1, <4>2, <1>0, PushSortedProperties
    <3>3. CASE k = Key(g) /\ k \notin DOMAIN groups
      <4>1. groups'[k] = <<g.file>>
        BY <1>2, <3>3, <2>2, <2>3 DEF Received
      <4> QED
        BY <4>1, <1>0
    <3> QED
      BY <3>1, <3>2, <3>3
  <2> QED
    BY <2>1, <2>2, <2>3, <1>0 DEF GroupsOK
<1> QED
  BY <1>1, <1>2

LEMMA CollectorTypes ==
  ASSUME TypeOK, Collector
  PROVE  TypeOK'
<1>0. FileCapacity \in Nat /\ FileChanOK
  BY FindAssumption DEF TypeOK, FileChanOK
<1>1. CASE CollectCheck
  BY <1>1 DEF CollectCheck, Collector, TypeOK, Ended
<1>2. CASE CollectRecv /\ fileChan = <<>>
  BY <1>2 DEF CollectRecv, Collector, TypeOK, Ended
<1>3. CASE CollectRecv /\ fileChan # <<>>
  <2>1. Received(Head(fileChan)) /\ fileChan' = Tail(fileChan) /\ collector' = "check"
    BY <1>3 DEF CollectRecv
  <2>2. /\ Head(fileChan) \in Found /\ Tail(fileChan) \in Seq(Found)
        /\ Len(Tail(fileChan)) = Len(fileChan) - 1 /\ Len(fileChan) \in Nat
    BY <1>0, <1>3, HeadTailProperties DEF FileChanOK
  <2>3. FileChanOK'
    BY <2>1, <2>2, <1>0 DEF FileChanOK
  <2>4. GroupsOK' /\ apks' \in Seq(File)
    BY <2>1, <2>2, ReceivedTypes
  <2> QED
    BY <2>1, <2>3, <2>4 DEF Collector, TypeOK, FileChanOK, GroupsOK
<1> QED
  BY <1>1, <1>2, <1>3 DEF Collector

LEMMA TypeStep == TypeOK /\ [Next]_vars => TypeOK'
<1> SUFFICES ASSUME TypeOK, [Next]_vars PROVE TypeOK'
  OBVIOUS
<1>1. CASE Cancel
  BY <1>1 DEF Cancel, TypeOK
<1>2. CASE Return
  BY <1>2 DEF Return, TypeOK, Ended
<1>3. CASE UNCHANGED vars
  BY <1>3 DEF vars, TypeOK
<1> QED
  BY <1>1, <1>2, <1>3, ListerTypes, WalkerTypes, CollectorTypes DEF Next

(* In every state of the search its threads, channels and groups have      *)
(* their types: a position is one of the listing it is in, no channel is   *)
(* over its bound and no group is empty.                                   *)
THEOREM Typing == Spec => []TypeOK
<1>1. Init => TypeOK
  BY TypeInit
<1>2. TypeOK /\ [Next]_vars => TypeOK'
  BY TypeStep
<1> QED
  BY <1>1, <1>2, PTL DEF Spec

-------------------------------------------------------------------------------
(* The order of a group.                                                   *)

LEMMA SortedStep == TypeOK /\ GroupsSorted /\ [Next]_vars => GroupsSorted'
<1> SUFFICES ASSUME TypeOK, GroupsSorted, [Next]_vars PROVE GroupsSorted'
  OBVIOUS
<1>0. GroupsOK /\ \A k \in DOMAIN groups : Sorted(groups[k])
  BY DEF TypeOK, GroupsOK, GroupsSorted, Sorted
<1>1. CASE UNCHANGED groups
  BY <1>1 DEF GroupsSorted
<1>2. CASE CollectRecv /\ fileChan # <<>> /\ Kind[Head(fileChan).file] # Apk
  <2> DEFINE g == Head(fileChan)
  <2>1. g \in Found /\ g.file \in File
    <3>1. fileChan \in Seq(Found) /\ fileChan # <<>>
      BY <1>2 DEF TypeOK
    <3>2. g \in Found
      BY <3>1, HeadTailProperties
    <3> QED
      BY <3>2 DEF Found
  <2>2. groups' = [k \in DOMAIN groups \cup {Key(g)} |->
                      IF k # Key(g) THEN groups[k]
                      ELSE IF k \in DOMAIN groups
                           THEN PushSorted(groups[k], g.file) ELSE <<g.file>>]
    BY <1>2 DEF CollectRecv, Received
  <2> HIDE DEF g
  <2>3. ASSUME NEW k \in DOMAIN groups' PROVE Sorted(groups'[k])
    <3>1. CASE k # Key(g)
      <4>1. groups'[k] = groups[k] /\ k \in DOMAIN groups
        BY <2>2, <3>1
      <4> QED
        BY <4>1, <1>0
    <3>2. CASE k = Key(g) /\ k \in DOMAIN groups
      <4>1. groups'[k] = PushSorted(groups[k], g.file)
        BY <2>2, <3>2
      <4> QED
        BY <4>1, <3>2, <2>1, <1>0, PushSortedProperties DEF GroupsOK
    <3>3. CASE k = Key(g) /\ k \notin DOMAIN groups
      <4>1. groups'[k] = <<g.file>>
        BY <2>2, <3>3
      <4>2. \A i, j \in DOMAIN <<g.file>> : ~(i < j)
        OBVIOUS
      <4> QED
        BY <4>1, <4>2 DEF Sorted
    <3> QED
      BY <3>1, <3>2, <3>3
  <2> QED
    BY <2>3 DEF GroupsSorted, Sorted
<1>3. CASE Collector
  BY <1>1, <1>2, <1>3 DEF Collector, CollectCheck, CollectRecv, Received
<1> QED
  BY <1>1, <1>3 DEF Next, vars, Cancel, Lister, Walker, Return

(* However the device lists the files and the threads take turns, every    *)
(* group is in the order its files are to be tried in: push and sort keep  *)
(* it so after each file.                                                  *)
THEOREM OrderOfGroups == Spec => []GroupsSorted
<1>1. Init => TypeOK /\ GroupsSorted
  BY TypeInit DEF Init, GroupsSorted
<1>2. TypeOK /\ GroupsSorted /\ [Next]_vars => (TypeOK /\ GroupsSorted)'
  BY TypeStep, SortedStep
<1> QED
  BY <1>1, <1>2, PTL DEF Spec

-------------------------------------------------------------------------------
(* Places of the listings.                                                 *)

Slots(d) == UNION {{<<c, i>> : i \in {j \in DOMAIN DirListing[c] : DirListing[c][j] = d}} :
                   c \in DOMAIN DirListing}

(* The places with d before line l of search c, and how often f is printed *)
(* before line l of the walk of d.                                         *)
Before(d, c, l) == {p \in Slots(d) : p[1] < c \/ (p[1] = c /\ p[2] < l)}
Walked(d, f, l) == Cardinality({i \in DOMAIN FilesIn[d] : i < l /\ FilesIn[d][i] = f})

LEMMA SlotsAre ==
  ASSUME NEW d
  PROVE  /\ \A p \in Slots(d) : \E c \in DOMAIN DirListing : \E i \in DOMAIN DirListing[c] :
               p = <<c, i>> /\ DirListing[c][i] = d
         /\ \A c \in DOMAIN DirListing : \A i \in DOMAIN DirListing[c] :
               DirListing[c][i] = d => <<c, i>> \in Slots(d)
  BY DEF Slots

LEMMA ListingTypes ==
  /\ DOMAIN DirListing = 1 .. Len(DirListing) /\ Len(DirListing) \in Nat
  /\ \A c \in DOMAIN DirListing :
        /\ DirListing[c] \in Seq(Dir)
        /\ DOMAIN DirListing[c] = 1 .. Len(DirListing[c]) /\ Len(DirListing[c]) \in Nat
<1>1. DirListing \in Seq(Seq(Dir))
  BY FindAssumption
<1>2. \A c \in DOMAIN DirListing : DirListing[c] \in Seq(Dir)
  BY <1>1, ElementOfSeq
<1> QED
  BY <1>1, <1>2

LEMMA BeforeFirst == \A d : Before(d, 1, 1) = {}
<1> SUFFICES ASSUME NEW d, NEW p \in Before(d, 1, 1) PROVE FALSE
  OBVIOUS
<1>1. p \in Slots(d) /\ (p[1] < 1 \/ (p[1] = 1 /\ p[2] < 1))
  BY DEF Before
<1>2. PICK c \in DOMAIN DirListing : \E i \in DOMAIN DirListing[c] : p = <<c, i>>
  BY <1>1, SlotsAre
<1>3. PICK i \in DOMAIN DirListing[c] : p = <<c, i>>
  BY <1>2
<1>4. c \in Nat /\ i \in Nat /\ ~(c < 1) /\ ~(i < 1)
  BY ListingTypes
<1> QED
  BY <1>1, <1>3, <1>4

LEMMA BeforeNext ==
  ASSUME NEW d, NEW c \in DOMAIN DirListing, NEW l \in DOMAIN DirListing[c]
  PROVE  /\ <<c, l>> \notin Before(d, c, l)
         /\ Before(d, c, l + 1) = Before(d, c, l) \cup
               (IF DirListing[c][l] = d THEN {<<c, l>>} ELSE {})
<1>1. c \in Nat /\ l \in Nat
  BY ListingTypes
<1>2. <<c, l>> \notin Before(d, c, l)
  <2>1. <<c, l>>[1] = c /\ <<c, l>>[2] = l /\ ~(c < c) /\ ~(l < l)
    BY <1>1
  <2> QED
    BY <2>1 DEF Before
<1>3. ASSUME NEW p \in Slots(d), p \in Before(d, c, l + 1), p \notin Before(d, c, l)
      PROVE  p = <<c, l>> /\ DirListing[c][l] = d
  <2>1. PICK b \in DOMAIN DirListing : \E i \in DOMAIN DirListing[b] :
                p = <<b, i>> /\ DirListing[b][i] = d
    BY SlotsAre
  <2>2. PICK i \in DOMAIN DirListing[b] : p = <<b, i>> /\ DirListing[b][i] = d
    BY <2>1
  <2>3. b \in Nat /\ i \in Nat
    BY ListingTypes
  <2>4. (b < c \/ (b = c /\ i < l + 1)) /\ ~(b < c \/ (b = c /\ i < l))
    BY <1>3, <2>2 DEF Before
  <2>5. b = c /\ i = l
    BY <2>3, <2>4, <1>1
  <2> QED
    BY <2>2, <2>5
<1>4. ASSUME NEW p \in Before(d, c, l) PROVE p \in Before(d, c, l + 1)
  <2>1. p \in Slots(d) /\ (p[1] < c \/ (p[1] = c /\ p[2] < l))
    BY DEF Before
  <2>2. PICK b \in DOMAIN DirListing : \E i \in DOMAIN DirListing[b] : p = <<b, i>>
    BY <2>1, SlotsAre
  <2>3. PICK i \in DOMAIN DirListing[b] : p = <<b, i>>
    BY <2>2
  <2>4. p[2] = i /\ i \in Nat
    BY <2>3, ListingTypes
  <2>5. p[2] < l => p[2] < l + 1
    BY <2>4, <1>1
  <2> QED
    BY <2>1, <2>5 DEF Before
<1>5. ASSUME DirListing[c][l] = d PROVE <<c, l>> \in Before(d, c, l + 1)
  <2>1. <<c, l>> \in Slots(d)
    BY <1>5, SlotsAre
  <2>2. <<c, l>>[1] = c /\ <<c, l>>[2] = l /\ l < l + 1
    BY <1>1
  <2> QED
    BY <2>1, <2>2 DEF Before
<1>6. \A p \in Before(d, c, l + 1) : p \in Slots(d)
  BY DEF Before
<1> QED
  BY <1>2, <1>3, <1>4, <1>5, <1>6

LEMMA BeforeEnd ==
  ASSUME NEW d, NEW c \in DOMAIN DirListing, NEW l \in Nat, l > Len(DirListing[c])
  PROVE  Before(d, c + 1, 1) = Before(d, c, l)
<1> SUFFICES ASSUME NEW p \in Slots(d)
             PROVE  p[1] < c + 1 \/ (p[1] = c + 1 /\ p[2] < 1)
                      <=> p[1] < c \/ (p[1] = c /\ p[2] < l)
  BY DEF Before
<1>1. PICK b \in DOMAIN DirListing : \E i \in DOMAIN DirListing[b] : p = <<b, i>>
  BY SlotsAre
<1>2. PICK i \in DOMAIN DirListing[b] : p = <<b, i>>
  BY <1>1
<1>3. b \in Nat /\ c \in Nat /\ i \in Nat /\ 1 <= i /\ i <= Len(DirListing[b])
      /\ Len(DirListing[b]) \in Nat /\ p[1] = b /\ p[2] = i
  BY <1>2, ListingTypes
<1>4. b = c => i < l
  BY <1>3
<1> QED
  BY <1>3, <1>4

LEMMA BeforeAll ==
  ASSUME NEW d, NEW c \in Nat, NEW l, c > Len(DirListing)
  PROVE  Before(d, c, l) = Slots(d)
<1> SUFFICES ASSUME NEW p \in Slots(d) PROVE p[1] < c
  BY DEF Before
<1>1. PICK b \in DOMAIN DirListing : \E i \in DOMAIN DirListing[b] : p = <<b, i>>
  BY SlotsAre
<1>2. p[1] = b /\ b \in Nat /\ b <= Len(DirListing) /\ Len(DirListing) \in Nat
  BY <1>1, ListingTypes
<1> QED
  BY <1>2

LEMMA WalkedCounts ==
  ASSUME NEW d \in Dir, NEW f
  PROVE  /\ \A l \in Nat : Walked(d, f, l) \in Nat
         /\ Walked(d, f, 1) = 0
         /\ \A l \in DOMAIN FilesIn[d] :
               Walked(d, f, l + 1) = Walked(d, f, l) + (IF FilesIn[d][l] = f THEN 1 ELSE 0)
         /\ \A l \in Nat : l > Len(FilesIn[d]) => Walked(d, f, l) = Times(f, FilesIn[d])
<1> DEFINE s == FilesIn[d]
           A(l) == {i \in DOMAIN s : i < l /\ s[i] = f}
<1>1. s \in Seq(File) /\ DOMAIN s = 1 .. Len(s) /\ Len(s) \in Nat
  BY FindAssumption
<1>2. ASSUME NEW l PROVE IsFiniteSet(A(l)) /\ Cardinality(A(l)) \in Nat
  <2>1. IsFiniteSet({i \in DOMAIN s : s[i] = f})
    BY <1>1, TimesIsNat
  <2>2. A(l) \in SUBSET {i \in DOMAIN s : s[i] = f}
    OBVIOUS
  <2> HIDE DEF A
  <2> QED
    BY <2>1, <2>2, FS_Subset, FS_CardinalityType
<1>3. A(1) = {}
  BY <1>1
<1>4. ASSUME NEW l \in DOMAIN s
      PROVE  l \notin A(l) /\ A(l + 1) = A(l) \cup (IF s[l] = f THEN {l} ELSE {})
  <2>1. l \in Nat /\ \A i \in 1 .. Len(s) : i < l + 1 <=> i < l \/ i = l
    BY <1>1
  <2>2. ~(l < l)
    BY <2>1
  <2> QED
    BY <1>1, <2>1, <2>2
<1>5. ASSUME NEW l \in DOMAIN s
      PROVE  Cardinality(A(l + 1)) = Cardinality(A(l)) + (IF s[l] = f THEN 1 ELSE 0)
  <2> HIDE DEF A
  <2>1. CASE s[l] = f
    <3>1. A(l + 1) = A(l) \cup {l} /\ l \notin A(l)
      BY <2>1, <1>4
    <3> QED
      BY <2>1, <3>1, <1>2, FS_AddElement
  <2>2. CASE s[l] # f
    <3>1. A(l + 1) = A(l)
      BY <2>2, <1>4
    <3> QED
      BY <2>2, <3>1, <1>2
  <2> QED
    BY <2>1, <2>2
<1>6. ASSUME NEW l \in Nat, l > Len(s) PROVE A(l) = {i \in DOMAIN s : s[i] = f}
  BY <1>1, <1>6
<1>7. \A l : Walked(d, f, l) = Cardinality(A(l))
  BY DEF Walked
<1>8. Times(f, s) = Cardinality({i \in DOMAIN s : s[i] = f})
  BY DEF Times
<1>9. Walked(d, f, 1) = 0
  BY <1>3, <1>7, FS_EmptySet
<1>10. \A l \in Nat : Walked(d, f, l) \in Nat
  BY <1>2, <1>7
<1>11. ASSUME NEW l \in DOMAIN s
       PROVE  Walked(d, f, l + 1) = Walked(d, f, l) + (IF s[l] = f THEN 1 ELSE 0)
  <2> HIDE DEF A, s
  <2> QED
    BY <1>5, <1>7
<1>12. ASSUME NEW l \in Nat, l > Len(s) PROVE Walked(d, f, l) = Times(f, s)
  <2>1. A(l) = {i \in DOMAIN s : s[i] = f}
    BY <1>6, <1>12
  <2> HIDE DEF A
  <2> QED
    BY <2>1, <1>7, <1>8
<1> QED
  BY <1>9, <1>10, <1>11, <1>12

-------------------------------------------------------------------------------
(* Nothing is lost.                                                        *)

(* No thread failed, and no listing was cut short.                         *)
Lossless ==
  /\ "err" \notin {lister.pc, walker.pc, collector}
  /\ Helper = "fsdump" \/ ~cancelled

(* A thread that ended well saw the end of its input.                      *)
Ends ==
  /\ lister.pc = "ok" => lister.cmd > Len(DirListing)
  /\ walker.pc = "ok" => lister.pc \in Ended /\ dirChan = <<>>
  /\ collector = "ok" => walker.pc \in Ended /\ fileChan = <<>>
  /\ result = "ok" => {lister.pc, walker.pc, collector} = {"ok"}

At(d) == walker.pc \in {"walk", "sendcheck", "send"} /\ walker.dir = d
Passed(d) == Before(d, lister.cmd, lister.line)
FoundIn(f, d) == [file |-> f, dir |-> d]

(* c files in the group, q on their channel, n directories on theirs and h *)
(* at the walker, of p that were listed, w of the last one's t files taken.*)
Balanced(c, q, n, h, p, w, t) == c + q + (n + h) * t = p * t + w

Counted(d, f) ==
  Balanced(TimesCollected(FoundIn(f, d)), Times(FoundIn(f, d), fileChan),
           Times(d, dirChan), IF At(d) THEN 1 ELSE 0, Cardinality(Passed(d)),
           IF At(d) THEN Walked(d, f, walker.line) ELSE 0, Times(f, FilesIn[d]))

AllCounted ==
  \A d \in Dir : /\ IsFiniteSet(Passed(d))
                 /\ \A f \in Wanted : Kind[f] # Apk => Counted(d, f)

(* An APK is in the list or on its way to it.                              *)
HasApk(f) == InSeq(f, apks) \/ \E i \in DOMAIN fileChan : fileChan[i].file = f

ApksKept ==
  \A d \in Dir, f \in Wanted : Kind[f] = Apk =>
    /\ At(d) => \A i \in DOMAIN FilesIn[d] :
                  i < walker.line /\ FilesIn[d][i] = f => HasApk(f)
    /\ Passed(d) # {} /\ InSeq(f, FilesIn[d]) =>
         InSeq(d, dirChan) \/ At(d) \/ HasApk(f)

SearchInv == Ends /\ (Lossless => AllCounted /\ ApksKept)

LEMMA Arithmetic ==
  ASSUME NEW c \in Nat, NEW q \in Nat, NEW n \in Nat, NEW h \in Nat, NEW p \in Nat,
         NEW w \in Nat, NEW t \in Nat, Balanced(c, q, n, h, p, w, t)
  PROVE  /\ Balanced(c, q, n + 1, h, p + 1, w, t)
         /\ Balanced(c, q + 1, n, h, p, w + 1, t)
         /\ q > 0 => Balanced(c + 1, q - 1, n, h, p, w, t)
         /\ h = 1 /\ w = t => Balanced(c, q, n, 0, p, 0, t)
         /\ q = 0 /\ n = 0 /\ h = 0 /\ w = 0 => c = p * t
<1>1. \A a, b \in Nat : a * b \in Nat /\ (a + 1) * b = a * b + b
  OBVIOUS
<1>2. c + q + (n + h) * t = p * t + w
  BY DEF Balanced
<1>3. (n + 1 + h) * t = (n + h) * t + t /\ (p + 1) * t = p * t + t
  <2>1. n + 1 + h = (n + h) + 1 /\ n + h \in Nat
    OBVIOUS
  <2> QED
    BY <2>1, <1>1
<1>4. (n + h) * t \in Nat /\ p * t \in Nat /\ n * t \in Nat
  <2>1. n + h \in Nat
    OBVIOUS
  <2> QED
    BY <2>1, <1>1
<1>5. Balanced(c, q, n + 1, h, p + 1, w, t)
  BY <1>2, <1>3, <1>4 DEF Balanced
<1>6. Balanced(c, q + 1, n, h, p, w + 1, t)
  BY <1>2, <1>4 DEF Balanced
<1>7. q > 0 => Balanced(c + 1, q - 1, n, h, p, w, t)
  BY <1>2, <1>4 DEF Balanced
<1>8. ASSUME h = 1, w = t PROVE Balanced(c, q, n, 0, p, 0, t)
  <2>1. (n + h) * t = n * t + t
    BY <1>1, <1>8
  <2>2. n + 0 = n
    OBVIOUS
  <2>3. c + q + n * t = p * t + 0
    BY <2>1, <1>2, <1>4, <1>8
  <2> QED
    BY <2>2, <2>3 DEF Balanced
<1>9. ASSUME q = 0, n = 0, h = 0, w = 0 PROVE c = p * t
  <2>1. n + h = 0 /\ 0 * t = 0
    BY <1>9
  <2> QED
    BY <2>1, <1>2, <1>4, <1>9
<1> QED
  BY <1>5, <1>6, <1>7, <1>8, <1>9

LEMMA LosslessBack ==
  ASSUME TypeOK, [Next]_vars, Lossless'
  PROVE  Lossless
<1>1. "err" \notin {lister.pc, walker.pc, collector}
  BY DEF Lossless, Next, vars, Cancel, Lister, ListLine, ListCheck, ListSend, ListEnd, ListDone,
         Walker, WalkCheck, WalkRecv, WalkLine, WalkSendCheck, WalkSend, WalkEnd,
         Collector, CollectCheck, CollectRecv, Return
<1>2. cancelled => cancelled'
  BY DEF Next, vars, Cancel, Lister, Walker, Collector, Return
<1> QED
  BY <1>1, <1>2 DEF Lossless

(* What a step of the lister does to the places passed and the channel.    *)
LEMMA ListerMoves ==
  ASSUME TypeOK, Ends, Lister, Lossless, Lossless'
  PROVE  \/ UNCHANGED dirChan /\ \A d : Passed(d)' = Passed(d)
         \/ /\ CurrentDir \in Dir
            /\ dirChan' = Append(dirChan, CurrentDir)
            /\ \A d : /\ <<lister.cmd, lister.line>> \notin Passed(d)
                      /\ Passed(d)' = Passed(d) \cup
                           (IF CurrentDir = d THEN {<<lister.cmd, lister.line>>} ELSE {})
<1>0. /\ lister \in ListerState /\ lister.cmd \in Nat /\ lister.line \in Nat
      /\ Helper \in {"adb", "fsdump"}
  BY HelperAssumption DEF TypeOK, ListerState
<1>1. CASE lister'.cmd = lister.cmd /\ lister'.line = lister.line /\ UNCHANGED dirChan
  BY <1>1 DEF Passed
<1>2. CASE ListLine \/ ListDone
  <2>1. lister'.cmd = lister.cmd /\ lister'.line = lister.line /\ UNCHANGED dirChan
    BY <1>2, <1>0 DEF ListLine, ListDone, ListerState
  <2> QED
    BY <2>1, <1>1
<1>3. CASE ListCheck
  <2>1. ~cancelled
    <3> SUFFICES ASSUME cancelled PROVE FALSE
      OBVIOUS
    <3>1. cancelled' /\ Helper = "fsdump"
      BY <1>0, <1>3 DEF Lossless, Lister
    <3>2. lister' = [lister EXCEPT !.pc = "err"]
      BY <1>3, <3>1 DEF ListCheck
    <3>3. lister'.pc = "err"
      BY <3>2, <1>0 DEF ListerState
    <3> QED
      BY <3>3 DEF Lossless
  <2>2. lister'.cmd = lister.cmd /\ lister'.line = lister.line /\ UNCHANGED dirChan
    BY <1>3, <2>1, <1>0 DEF ListCheck, ListerState
  <2> QED
    BY <2>2, <1>1
<1>4. CASE ListSend
  <2>1. lister.pc = "send"
    BY <1>4 DEF ListSend
  <2>2. walker.pc \notin Ended
    BY <2>1 DEF Ends, Lossless, Ended
  <2>3. CASE lister' = [lister EXCEPT !.pc = "check"] /\ UNCHANGED dirChan
    <3>1. lister'.cmd = lister.cmd /\ lister'.line = lister.line
      BY <2>3, <1>0 DEF ListerState
    <3> QED
      BY <2>3, <3>1, <1>1
  <2>4. CASE lister' = [lister EXCEPT !.pc = "find", !.line = @ + 1]
             /\ dirChan' = Append(dirChan, CurrentDir)
    <3>1. lister.cmd \in DOMAIN DirListing /\ lister.line \in DOMAIN DirListing[lister.cmd]
      BY <2>1 DEF TypeOK
    <3>2. lister'.cmd = lister.cmd /\ lister'.line = lister.line + 1
      BY <2>4, <1>0 DEF ListerState
    <3>3. CurrentDir \in Dir
      BY <2>1, CurrentDirIsDir
    <3>4. ASSUME NEW d
          PROVE  /\ <<lister.cmd, lister.line>> \notin Passed(d)
                 /\ Passed(d)' = Passed(d) \cup
                      (IF CurrentDir = d THEN {<<lister.cmd, lister.line>>} ELSE {})
      BY <3>1, <3>2, BeforeNext DEF Passed, CurrentDir
    <3> QED
      BY <2>4, <3>3, <3>4
  <2> QED
    BY <1>4, <2>2, <2>3, <2>4 DEF ListSend
<1>5. CASE ListEnd
  <2>1. ~(lister' = [lister EXCEPT !.pc = "err"])
    <3> SUFFICES ASSUME lister' = [lister EXCEPT !.pc = "err"] PROVE FALSE
      OBVIOUS
    <3>1. lister'.pc = "err"
      BY <1>0 DEF ListerState
    <3> QED
      BY <3>1 DEF Lossless
  <2>2. /\ lister.cmd \in DOMAIN DirListing /\ lister.line > Len(DirListing[lister.cmd])
        /\ lister' = [lister EXCEPT !.cmd = @ + 1, !.line = 1] /\ UNCHANGED dirChan
    BY <1>5, <2>1 DEF ListEnd
  <2>3. lister'.cmd = lister.cmd + 1 /\ lister'.line = 1
    BY <2>2, <1>0 DEF ListerState
  <2>4. \A d : Passed(d)' = Passed(d)
    BY <2>2, <2>3, <1>0, BeforeEnd DEF Passed
  <2> QED
    BY <2>2, <2>4
<1> QED
  BY <1>2, <1>3, <1>4, <1>5 DEF Lister

(* What a step of the walker does to its place and the channels.           *)
WalkerStays ==
  /\ UNCHANGED <<dirChan, fileChan>>
  /\ \A d \in Dir : /\ At(d)' <=> At(d)
                    /\ At(d) => \A f \in Wanted, i \in DOMAIN FilesIn[d] :
                         FilesIn[d][i] = f => (i < walker'.line <=> i < walker.line)

WalkerTakes ==
  /\ dirChan # <<>> /\ dirChan' = Tail(dirChan) /\ UNCHANGED fileChan
  /\ walker'.line = 1
  /\ \A d \in Dir : ~At(d) /\ (At(d)' <=> d = Head(dirChan))

WalkerSends ==
  /\ UNCHANGED dirChan /\ fileChan' = Append(fileChan, CurrentFile) /\ CurrentFile \in Found
  /\ walker.line \in DOMAIN FilesIn[walker.dir] /\ walker'.line = walker.line + 1
  /\ \A d \in Dir : (At(d)' <=> At(d)) /\ (At(d) <=> d = walker.dir)

WalkerLeaves ==
  /\ UNCHANGED <<dirChan, fileChan>>
  /\ \A d \in Dir : ~At(d)' /\ (At(d) => walker.line \in Nat /\ walker.line > Len(FilesIn[d]))

LEMMA WalkerMoves ==
  ASSUME TypeOK, Ends, Walker, Lossless, Lossless'
  PROVE  WalkerStays \/ WalkerTakes \/ WalkerSends \/ WalkerLeaves
<1>0. Helper \in {"adb", "fsdump"} /\ walker'.pc # "err" /\ cancelled' = cancelled
  BY HelperAssumption DEF Lossless, Walker
<1>1. CASE WalkCheck
  BY <1>1 DEF WalkCheck, WalkerStays, At
<1>2. CASE WalkRecv
  <2>1. CASE dirChan # <<>>
    BY <1>2, <2>1 DEF WalkRecv, WalkerTakes, At
  <2>2. CASE dirChan = <<>>
    BY <1>2, <2>2 DEF WalkRecv, WalkerStays, At, Ended
  <2> QED
    BY <2>1, <2>2
<1>3. ASSUME walker.pc \in {"walk", "sendcheck", "send"}
      PROVE  /\ walker.dir \in Dir /\ walker.line \in Nat
             /\ walker = [pc |-> walker.pc, dir |-> walker.dir, line |-> walker.line]
             /\ FilesIn[walker.dir] \in Seq(File)
             /\ \A d : At(d) <=> d = walker.dir
  BY <1>3, WalkIsTyped DEF At
<1>4. CASE WalkLine
  <2>1. /\ walker.pc = "walk" /\ walker.line \in DOMAIN FilesIn[walker.dir]
        /\ UNCHANGED <<dirChan, fileChan>>
    BY <1>4 DEF WalkLine
  <2>2. CASE walker' = [walker EXCEPT !.pc = "sendcheck"]
    <3>1. walker'.pc = "sendcheck" /\ walker'.dir = walker.dir /\ walker'.line = walker.line
      BY <2>1, <2>2, <1>3
    <3> QED
      BY <2>1, <3>1 DEF WalkerStays, At
  <2>3. CASE CurrentFile.file \notin Wanted /\ walker' = [walker EXCEPT !.line = @ + 1]
    <3>1. walker'.pc = "walk" /\ walker'.dir = walker.dir /\ walker'.line = walker.line + 1
      BY <2>1, <2>3, <1>3
    <3>2. FilesIn[walker.dir][walker.line] \notin Wanted
      BY <2>3 DEF CurrentFile
    <3>3. ASSUME NEW d \in Dir, At(d), NEW f \in Wanted, NEW i \in DOMAIN FilesIn[d], FilesIn[d][i] = f
          PROVE  i < walker'.line <=> i < walker.line
      <4>1. d = walker.dir /\ i # walker.line /\ i \in Nat
        BY <3>2, <3>3, <2>1, <1>3
      <4> QED
        BY <4>1, <3>1, <2>1, <1>3
    <3>4. \A d \in Dir : At(d)' <=> At(d)
      BY <2>1, <3>1 DEF At
    <3> QED
      BY <2>1, <3>3, <3>4 DEF WalkerStays
  <2> QED
    BY <1>4, <2>2, <2>3 DEF WalkLine
<1>5. CASE WalkSendCheck
  <2>1. walker.pc = "sendcheck" /\ UNCHANGED <<dirChan, fileChan>>
    BY <1>5 DEF WalkSendCheck
  <2>2. ~cancelled
    BY <1>0, <1>5 DEF WalkSendCheck, Lossless
  <2>3. walker' = [walker EXCEPT !.pc = "send"]
    BY <1>5, <2>2 DEF WalkSendCheck
  <2>4. walker'.pc = "send" /\ walker'.dir = walker.dir /\ walker'.line = walker.line
    BY <2>1, <2>3, <1>3
  <2> QED
    BY <2>1, <2>4 DEF WalkerStays, At
<1>6. CASE WalkSend
  <2>1. walker.pc = "send" /\ UNCHANGED dirChan
    BY <1>6 DEF WalkSend
  <2>2. collector \notin Ended
    BY <2>1 DEF Ends, Lossless, Ended
  <2>3. CASE walker' = [walker EXCEPT !.pc = "sendcheck"] /\ UNCHANGED fileChan
    <3>1. walker'.pc = "sendcheck" /\ walker'.dir = walker.dir /\ walker'.line = walker.line
      BY <2>1, <2>3, <1>3
    <3> QED
      BY <2>1, <2>3, <3>1 DEF WalkerStays, At
  <2>4. CASE walker' = [walker EXCEPT !.pc = "walk", !.line = @ + 1]
             /\ fileChan' = Append(fileChan, CurrentFile)
    <3>1. walker'.pc = "walk" /\ walker'.dir = walker.dir /\ walker'.line = walker.line + 1
      BY <2>1, <2>4, <1>3
    <3>2. walker.line \in DOMAIN FilesIn[walker.dir]
      BY <2>1 DEF TypeOK
    <3>3. CurrentFile \in Found
      BY <2>1, CurrentFileIsFound
    <3>4. \A d \in Dir : (At(d)' <=> At(d)) /\ (At(d) <=> d = walker.dir)
      BY <2>1, <3>1 DEF At
    <3> QED
      BY <2>1, <2>4, <3>1, <3>2, <3>3, <3>4 DEF WalkerSends
  <2> QED
    BY <1>6, <2>2, <2>3, <2>4 DEF WalkSend
<1>7. CASE WalkEnd
  <2>1. /\ walker.pc = "walk" /\ walker' = [pc |-> "check"] /\ walker.line > Len(FilesIn[walker.dir])
        /\ UNCHANGED <<dirChan, fileChan>>
    BY <1>0, <1>7 DEF WalkEnd
  <2>2. \A d : ~At(d)'
    BY <2>1 DEF At
  <2> QED
    BY <2>1, <2>2, <1>3 DEF WalkerLeaves
<1> QED
  BY <1>1, <1>2, <1>4, <1>5, <1>6, <1>7 DEF Walker

LEMMA EndsStep ==
  ASSUME TypeOK, Ends, [Next]_vars
  PROVE  Ends'
<1>0. lister \in ListerState /\ \A x \in Ended : x \in {"ok", "err"}
  BY DEF TypeOK, Ended
<1>1. CASE Lister
  <2>1. lister.pc \notin Ended /\ result # "ok"
    <3>1. lister.pc \notin Ended
      BY <1>1 DEF Lister, ListLine, ListCheck, ListSend, ListEnd, ListDone, Ended
    <3> QED
      BY <3>1 DEF Ends, Ended
  <2>2. walker.pc # "ok" /\ UNCHANGED <<walker, collector, fileChan, result>>
    BY <1>1, <2>1 DEF Ends, Lister
  <2>3. lister'.pc = "ok" => lister'.cmd > Len(DirListing)
    <3>1. CASE ListDone
      <4>1. lister'.cmd = lister.cmd
        BY <3>1, <1>0 DEF ListDone, ListerState
      <4> QED
        BY <3>1, <4>1 DEF ListDone
    <3>2. CASE ListLine \/ ListCheck \/ ListSend \/ ListEnd
      <4>1. lister'.pc # "ok"
        BY <3>2, <1>0, <2>1 DEF ListLine, ListCheck, ListSend, ListEnd, ListerState, Ended
      <4> QED
        BY <4>1
    <3> QED
      BY <3>1, <3>2, <1>1 DEF Lister
  <2> QED
    BY <2>1, <2>2, <2>3 DEF Ends
<1>2. CASE Walker
  <2>1. walker.pc \notin Ended /\ result # "ok" /\ collector # "ok"
    <3>1. walker.pc \notin Ended
      BY <1>2 DEF Walker, WalkCheck, WalkRecv, WalkLine, WalkSendCheck, WalkSend, WalkEnd, Ended
    <3> QED
      BY <3>1 DEF Ends, Ended
  <2>2. UNCHANGED <<lister, collector, result>>
    BY <1>2 DEF Walker
  <2>3. walker'.pc = "ok" => lister.pc \in Ended /\ dirChan' = <<>>
    <3>1. CASE WalkRecv /\ dirChan = <<>>
      BY <3>1 DEF WalkRecv
    <3>2. CASE WalkRecv /\ dirChan # <<>>
      <4>1. walker'.pc # "ok"
        BY <3>2 DEF WalkRecv
      <4> QED
        BY <4>1
    <3>3. CASE ~WalkRecv
      <4>1. walker'.pc # "ok"
        <5>1. CASE walker.pc = "check"
          BY <5>1, <3>3, <1>2 DEF Walker, WalkCheck, WalkLine, WalkSendCheck, WalkSend, WalkEnd
        <5>2. CASE walker.pc # "check"
          <6>1. walker.pc \in {"walk", "sendcheck", "send"}
            BY <5>2, <3>3, <1>2 DEF Walker, WalkCheck, WalkLine, WalkSendCheck, WalkSend, WalkEnd
          <6>2. walker = [pc |-> walker.pc, dir |-> walker.dir, line |-> walker.line]
            BY <6>1, WalkIsTyped
          <6>3. \A l : [walker EXCEPT !.pc = "walk", !.line = l].pc = "walk"
            BY <6>2
          <6>4. \A x : [walker EXCEPT !.pc = x].pc = x
            BY <6>2
          <6>5. \A l : [walker EXCEPT !.line = l].pc = walker.pc
            BY <6>2
          <6>6. WalkLine \/ WalkSendCheck \/ WalkSend \/ WalkEnd
            BY <6>1, <3>3, <1>2 DEF Walker, WalkCheck
          <6>7. CASE WalkLine
            BY <6>1, <6>4, <6>5, <6>7 DEF WalkLine
          <6>8. CASE WalkSendCheck
            BY <6>3, <6>4, <6>8 DEF WalkSendCheck
          <6>9. CASE WalkSend
            BY <6>3, <6>4, <6>9 DEF WalkSend
          <6>10. CASE WalkEnd
            BY <6>10 DEF WalkEnd
          <6> QED
            BY <6>6, <6>7, <6>8, <6>9, <6>10
        <5> QED
          BY <5>1, <5>2
      <4> QED
        BY <4>1
    <3> QED
      BY <3>1, <3>2, <3>3
  <2> QED
    BY <2>1, <2>2, <2>3 DEF Ends
<1>3. CASE Collector
  BY <1>3 DEF Collector, CollectCheck, CollectRecv, Ends, Ended
<1>4. CASE Return
  BY <1>4 DEF Return, Ends, Ended
<1>5. CASE Cancel \/ UNCHANGED vars
  BY <1>5 DEF Cancel, vars, Ends
<1> QED
  BY <1>1, <1>2, <1>3, <1>4, <1>5 DEF Next

LEMMA CountsAreNat ==
  ASSUME TypeOK, NEW d \in Dir, IsFiniteSet(Passed(d)), NEW f \in Wanted
  PROVE  /\ TimesCollected(FoundIn(f, d)) \in Nat
         /\ Times(FoundIn(f, d), fileChan) \in Nat
         /\ Times(d, dirChan) \in Nat
         /\ Cardinality(Passed(d)) \in Nat
         /\ At(d) => walker.line \in Nat /\ Walked(d, f, walker.line) \in Nat
         /\ Times(f, FilesIn[d]) \in Nat
<1>1. fileChan \in Seq(Found) /\ dirChan \in Seq(Dir) /\ GroupsOK
  BY DEF TypeOK, GroupsOK
<1>2. TimesCollected(FoundIn(f, d)) \in Nat
  <2>1. CASE Key(FoundIn(f, d)) \in DOMAIN groups
    <3>1. groups[Key(FoundIn(f, d))] \in Seq(File)
      BY <2>1, <1>1 DEF GroupsOK
    <3> QED
      BY <2>1, <3>1, TimesIsNat DEF TimesCollected
  <2>2. CASE Key(FoundIn(f, d)) \notin DOMAIN groups
    BY <2>2 DEF TimesCollected
  <2> QED
    BY <2>1, <2>2
<1>3. Times(FoundIn(f, d), fileChan) \in Nat /\ Times(d, dirChan) \in Nat
  BY <1>1, TimesIsNat
<1>4. Times(f, FilesIn[d]) \in Nat
  <2>1. FilesIn[d] \in Seq(File)
    BY FindAssumption
  <2> QED
    BY <2>1, TimesIsNat
<1>5. At(d) => walker.line \in Nat /\ Walked(d, f, walker.line) \in Nat
  BY WalkIsTyped, WalkedCounts DEF At
<1> QED
  BY <1>2, <1>3, <1>4, <1>5, FS_CardinalityType

LEMMA CountedByLister ==
  ASSUME TypeOK, Ends, Lossless, AllCounted, Lister, Lossless'
  PROVE  AllCounted'
<1>1. UNCHANGED <<walker, fileChan, groups>>
  BY DEF Lister
<1>2. CASE UNCHANGED dirChan /\ \A d : Passed(d)' = Passed(d)
  BY <1>1, <1>2 DEF AllCounted, Counted, At, TimesCollected
<1>3. ASSUME CurrentDir \in Dir, dirChan' = Append(dirChan, CurrentDir),
             \A d : /\ <<lister.cmd, lister.line>> \notin Passed(d)
                    /\ Passed(d)' = Passed(d) \cup
                         (IF CurrentDir = d THEN {<<lister.cmd, lister.line>>} ELSE {})
      PROVE  AllCounted'
  <2> SUFFICES ASSUME NEW d \in Dir
               PROVE  /\ IsFiniteSet(Passed(d)')
                      /\ \A f \in Wanted : Kind[f] # Apk => Counted(d, f)'
    BY DEF AllCounted
  <2>1. dirChan \in Seq(Dir)
    BY DEF TypeOK
  <2>2. Times(d, dirChan') = Times(d, dirChan) + (IF d = CurrentDir THEN 1 ELSE 0)
    BY <1>3, <2>1, TimesAppend
  <2>3. IsFiniteSet(Passed(d))
    BY DEF AllCounted
  <2>4. CASE d = CurrentDir
    <3>1. Passed(d)' = Passed(d) \cup {<<lister.cmd, lister.line>>} /\ <<lister.cmd, lister.line>> \notin Passed(d)
      BY <1>3, <2>4
    <3>2. IsFiniteSet(Passed(d)') /\ Cardinality(Passed(d)') = Cardinality(Passed(d)) + 1
      BY <3>1, <2>3, FS_AddElement
    <3>3. ASSUME NEW f \in Wanted, Kind[f] # Apk PROVE Counted(d, f)'
      <4> DEFINE h == IF At(d) THEN 1 ELSE 0
                 w == IF At(d) THEN Walked(d, f, walker.line) ELSE 0
                 c == TimesCollected(FoundIn(f, d))
                 q == Times(FoundIn(f, d), fileChan)
                 n == Times(d, dirChan)
                 p == Cardinality(Passed(d))
                 t == Times(f, FilesIn[d])
      <4>1. Balanced(c, q, n, h, p, w, t)
        BY <3>3 DEF AllCounted, Counted
      <4>2. c \in Nat /\ q \in Nat /\ n \in Nat /\ h \in Nat /\ p \in Nat /\ w \in Nat /\ t \in Nat
        BY <2>3, CountsAreNat
      <4>3. Balanced(c, q, n + 1, h, p + 1, w, t)
        <5> HIDE DEF c, q, n, h, p, w, t
        <5> QED
          BY <4>1, <4>2, Arithmetic
      <4>4. Times(d, dirChan') = n + 1 /\ Cardinality(Passed(d)') = p + 1
        BY <2>2, <2>4, <3>2
      <4>5. c' = c /\ q' = q /\ h' = h /\ w' = w
        BY <1>1 DEF TimesCollected, At
      <4> QED
        BY <4>3, <4>4, <4>5 DEF Counted
    <3> QED
      BY <3>2, <3>3
  <2>5. CASE d # CurrentDir
    <3>1. Passed(d)' = Passed(d)
      BY <1>3, <2>5
    <3>2. Times(d, dirChan') = Times(d, dirChan)
      <4>1. Times(d, dirChan) \in Nat
        BY <2>1, TimesIsNat
      <4> QED
        BY <2>2, <2>5, <4>1
    <3>3. ASSUME NEW f \in Wanted, Kind[f] # Apk PROVE Counted(d, f)'
      <4>1. Counted(d, f)
        BY <3>3 DEF AllCounted
      <4> QED
        BY <4>1, <3>1, <3>2, <1>1 DEF Counted, At, TimesCollected
    <3> QED
      BY <2>3, <3>1, <3>3
  <2> QED
    BY <2>4, <2>5
<1> QED
  BY <1>2, <1>3, ListerMoves

LEMMA CountedByWalker ==
  ASSUME TypeOK, Ends, Lossless, AllCounted, Walker, Lossless'
  PROVE  AllCounted'
<1>1. UNCHANGED <<lister, groups>>
  BY DEF Walker
<1> SUFFICES ASSUME NEW d \in Dir
             PROVE  /\ IsFiniteSet(Passed(d)')
                    /\ \A f \in Wanted : Kind[f] # Apk => Counted(d, f)'
  BY DEF AllCounted
<1>2. Passed(d)' = Passed(d) /\ IsFiniteSet(Passed(d))
  BY <1>1 DEF AllCounted, Passed
<1>3. ASSUME NEW f \in Wanted, Kind[f] # Apk PROVE Counted(d, f)'
  <2> DEFINE h == IF At(d) THEN 1 ELSE 0
             w == IF At(d) THEN Walked(d, f, walker.line) ELSE 0
             c == TimesCollected(FoundIn(f, d))
             q == Times(FoundIn(f, d), fileChan)
             n == Times(d, dirChan)
             p == Cardinality(Passed(d))
             t == Times(f, FilesIn[d])
  <2>1. Balanced(c, q, n, h, p, w, t)
    BY <1>3 DEF AllCounted, Counted
  <2>2. c \in Nat /\ q \in Nat /\ n \in Nat /\ h \in Nat /\ p \in Nat /\ w \in Nat /\ t \in Nat
    BY <1>2, CountsAreNat
  <2>3. c' = c /\ p' = p /\ t' = t
    BY <1>1, <1>2 DEF TimesCollected
  <2>4. FilesIn[d] \in Seq(File) /\ fileChan \in Seq(Found) /\ dirChan \in Seq(Dir)
    BY FindAssumption DEF TypeOK
  <2>5. Counted(d, f)' <=> Balanced(c', q', n', h', p', w', t')
    BY DEF Counted
  <2>6. CASE WalkerStays
    <3>1. q' = q /\ n' = n /\ h' = h
      BY <2>6 DEF WalkerStays
    <3>2. w' = w
      <4>1. CASE At(d)
        <5>1. {i \in DOMAIN FilesIn[d] : i < walker'.line /\ FilesIn[d][i] = f}
                = {i \in DOMAIN FilesIn[d] : i < walker.line /\ FilesIn[d][i] = f}
          BY <2>6, <4>1 DEF WalkerStays
        <5> QED
          BY <2>6, <4>1, <5>1 DEF WalkerStays, Walked
      <4>2. CASE ~At(d)
        BY <2>6, <4>2 DEF WalkerStays
      <4> QED
        BY <4>1, <4>2
    <3> HIDE DEF c, q, n, h, p, w, t
    <3> QED
      BY <2>1, <2>3, <2>5, <3>1, <3>2
  <2>7. CASE WalkerTakes
    <3>1. q' = q
      BY <2>7 DEF WalkerTakes
    <3>2. h = 0 /\ w = 0 /\ w' = 0
      BY <2>7, WalkedCounts DEF WalkerTakes
    <3>3. n = n' + h'
      <4>1. Times(d, dirChan) = Times(d, Tail(dirChan)) + (IF d = Head(dirChan) THEN 1 ELSE 0)
        BY <2>4, <2>7, TimesTail DEF WalkerTakes
      <4> QED
        BY <4>1, <2>7 DEF WalkerTakes
    <3>4. n + h = n' + h'
      BY <2>2, <3>2, <3>3
    <3> HIDE DEF c, q, n, h, p, w, t
    <3> QED
      BY <2>1, <2>3, <2>5, <3>1, <3>2, <3>4 DEF Balanced
  <2>8. CASE WalkerSends
    <3>1. n' = n /\ h' = h
      BY <2>8 DEF WalkerSends
    <3>2. Times(FoundIn(f, d), fileChan')
            = Times(FoundIn(f, d), fileChan) + (IF FoundIn(f, d) = CurrentFile THEN 1 ELSE 0)
      BY <2>4, <2>8, TimesAppend DEF WalkerSends
    <3>3. CASE ~At(d)
      <4>1. w = 0 /\ w' = 0 /\ FoundIn(f, d) # CurrentFile
        BY <2>8, <3>3 DEF WalkerSends, FoundIn, CurrentFile
      <4>2. q' = q
        BY <2>2, <3>2, <4>1
      <4> HIDE DEF c, q, n, h, p, w, t
      <4> QED
        BY <2>1, <2>3, <2>5, <3>1, <4>1, <4>2
    <3>4. CASE At(d)
      <4>1. d = walker.dir /\ walker.line \in DOMAIN FilesIn[d]
        BY <2>8, <3>4 DEF WalkerSends
      <4>2. FoundIn(f, d) = CurrentFile <=> FilesIn[d][walker.line] = f
        BY <4>1 DEF FoundIn, CurrentFile
      <4>3. Walked(d, f, walker.line + 1)
              = Walked(d, f, walker.line) + (IF FilesIn[d][walker.line] = f THEN 1 ELSE 0)
        <5>1. \A l \in DOMAIN FilesIn[d] :
                 Walked(d, f, l + 1) = Walked(d, f, l) + (IF FilesIn[d][l] = f THEN 1 ELSE 0)
          BY WalkedCounts
        <5> QED
          BY <4>1, <5>1
      <4>4. w = Walked(d, f, walker.line) /\ w' = Walked(d, f, walker.line + 1)
        <5>1. At(d)' /\ walker'.line = walker.line + 1
          BY <2>8, <3>4 DEF WalkerSends
        <5>2. w' = Walked(d, f, walker'.line)
          BY <5>1
        <5> QED
          BY <3>4, <5>1, <5>2
      <4>5. CASE FilesIn[d][walker.line] = f
        <5>1. q' = q + 1 /\ w' = w + 1
          BY <3>2, <4>2, <4>3, <4>4, <4>5
        <5> HIDE DEF c, q, n, h, p, w, t
        <5>2. Balanced(c, q + 1, n, h, p, w + 1, t)
          BY <2>1, <2>2, Arithmetic
        <5> QED
          BY <5>1, <5>2, <2>3, <2>5, <3>1
      <4>6. CASE FilesIn[d][walker.line] # f
        <5>1. q' = q
          <6>1. q' = q + 0
            BY <3>2, <4>2, <4>6
          <6> HIDE DEF q
          <6> QED
            BY <6>1, <2>2
        <5>2. w' = w
          <6>1. Walked(d, f, walker.line + 1) = Walked(d, f, walker.line) + 0
            BY <4>3, <4>6
          <6>2. Walked(d, f, walker.line) \in Nat
            BY <3>4, <1>2, CountsAreNat
          <6> QED
            BY <4>4, <6>1, <6>2
        <5> HIDE DEF c, q, n, h, p, w, t
        <5> QED
          BY <2>1, <2>3, <2>5, <3>1, <5>1, <5>2
      <4> QED
        BY <4>5, <4>6
    <3> QED
      BY <3>3, <3>4
  <2>9. CASE WalkerLeaves
    <3>1. q' = q /\ n' = n /\ h' = 0 /\ w' = 0
      BY <2>9 DEF WalkerLeaves
    <3>2. CASE At(d)
      <4>1. h = 1 /\ w = t
        BY <2>9, <3>2, WalkedCounts DEF WalkerLeaves
      <4> HIDE DEF c, q, n, h, p, w, t
      <4>2. Balanced(c, q, n, 0, p, 0, t)
        BY <2>1, <2>2, <4>1, Arithmetic
      <4> QED
        BY <4>2, <2>3, <2>5, <3>1
    <3>3. CASE ~At(d)
      <4>1. h = 0 /\ w = 0
        BY <3>3
      <4> HIDE DEF c, q, n, h, p, w, t
      <4> QED
        BY <2>1, <2>3, <2>5, <3>1, <4>1
    <3> QED
      BY <3>2, <3>3
  <2> QED
    BY <2>6, <2>7, <2>8, <2>9, WalkerMoves
<1> QED
  BY <1>2, <1>3

(* A file is counted in its own group and in no other.                     *)
LEMMA CollectedCounts ==
  ASSUME GroupsOK, NEW g \in Found, Received(g), NEW d \in Dir, NEW f, Kind[f] # Apk
  PROVE  TimesCollected(FoundIn(f, d))'
           = TimesCollected(FoundIn(f, d)) + (IF FoundIn(f, d) = g THEN 1 ELSE 0)
<1> DEFINE k == Key(FoundIn(f, d))
<1>1. g.file \in File /\ g.dir \in Dir /\ g = [file |-> g.file, dir |-> g.dir]
  BY DEF Found
<1>2. FoundIn(f, d).file = f /\ FoundIn(f, d).dir = d /\ (FoundIn(f, d) = g <=> f = g.file /\ d = g.dir)
  BY <1>1 DEF FoundIn
<1>3. k = Key(g) => d = g.dir
  BY <1>2 DEF Key
<1>4. FoundIn(f, d) = g => k = Key(g)
  OBVIOUS
<1>5. k \in DOMAIN groups => groups[k] \in Seq(File) /\ Times(f, groups[k]) \in Nat
  BY TimesIsNat DEF GroupsOK
<1>6. TimesCollected(FoundIn(f, d)) = IF k \in DOMAIN groups THEN Times(f, groups[k]) ELSE 0
  BY <1>2 DEF TimesCollected
<1>7. TimesCollected(FoundIn(f, d))' = IF k \in DOMAIN groups' THEN Times(f, groups'[k]) ELSE 0
  BY <1>2 DEF TimesCollected
<1> HIDE DEF k
<1>8. CASE Kind[g.file] = Apk
  <2>1. groups' = groups /\ FoundIn(f, d) # g
    BY <1>2, <1>8 DEF Received
  <2> QED
    BY <2>1, <1>5, <1>6, <1>7
<1>9. CASE Kind[g.file] # Apk
  <2>1. groups' = [j \in DOMAIN groups \cup {Key(g)} |->
                      IF j # Key(g) THEN groups[j]
                      ELSE IF j \in DOMAIN groups
                           THEN PushSorted(groups[j], g.file) ELSE <<g.file>>]
    BY <1>9 DEF Received
  <2>2. CASE k # Key(g)
    <3>1. (k \in DOMAIN groups' <=> k \in DOMAIN groups) /\ (k \in DOMAIN groups => groups'[k] = groups[k])
      BY <2>1, <2>2
    <3>2. FoundIn(f, d) # g
      BY <1>4, <2>2
    <3> QED
      BY <3>1, <3>2, <1>5, <1>6, <1>7
  <2>3. CASE k = Key(g)
    <3>0. (FoundIn(f, d) = g <=> f = g.file) /\ k \in DOMAIN groups'
      BY <1>2, <1>3, <2>1, <2>3
    <3>1. CASE k \in DOMAIN groups
      <4>1. groups'[k] = PushSorted(groups[k], g.file)
        BY <2>1, <2>3, <3>1
      <4>2. Times(f, groups'[k]) = Times(f, groups[k]) + (IF f = g.file THEN 1 ELSE 0)
        BY <4>1, <3>1, <1>1, <1>5, PushSortedProperties
      <4> QED
        BY <4>2, <3>0, <3>1, <1>6, <1>7
    <3>2. CASE k \notin DOMAIN groups
      <4>1. groups'[k] = <<g.file>>
        BY <2>1, <2>3, <3>2
      <4>2. Times(f, <<g.file>>) = IF f = g.file THEN 1 ELSE 0
        BY <1>1, TimesSingle
      <4> QED
        BY <4>1, <4>2, <3>0, <3>2, <1>6, <1>7
    <3> QED
      BY <3>1, <3>2
  <2> QED
    BY <2>2, <2>3
<1> QED
  BY <1>8, <1>9

LEMMA CountedByCollector ==
  ASSUME TypeOK, Ends, Lossless, AllCounted, Collector, Lossless'
  PROVE  AllCounted'
<1>1. UNCHANGED <<lister, walker, dirChan>>
  BY DEF Collector
<1> SUFFICES ASSUME NEW d \in Dir
             PROVE  /\ IsFiniteSet(Passed(d)')
                    /\ \A f \in Wanted : Kind[f] # Apk => Counted(d, f)'
  BY DEF AllCounted
<1>2. Passed(d)' = Passed(d) /\ IsFiniteSet(Passed(d))
  BY <1>1 DEF AllCounted, Passed
<1>3. ASSUME NEW f \in Wanted, Kind[f] # Apk PROVE Counted(d, f)'
  <2>1. Counted(d, f)
    BY <1>3 DEF AllCounted
  <2>2. CASE UNCHANGED <<fileChan, groups>>
    BY <2>1, <2>2, <1>1, <1>2 DEF Counted, At, TimesCollected
  <2>3. CASE fileChan # <<>> /\ fileChan' = Tail(fileChan) /\ Received(Head(fileChan))
    <3> DEFINE h == IF At(d) THEN 1 ELSE 0
               w == IF At(d) THEN Walked(d, f, walker.line) ELSE 0
               c == TimesCollected(FoundIn(f, d))
               q == Times(FoundIn(f, d), fileChan)
               n == Times(d, dirChan)
               p == Cardinality(Passed(d))
               t == Times(f, FilesIn[d])
               g == Head(fileChan)
    <3>1. Balanced(c, q, n, h, p, w, t)
      BY <2>1 DEF Counted
    <3>2. c \in Nat /\ q \in Nat /\ n \in Nat /\ h \in Nat /\ p \in Nat /\ w \in Nat /\ t \in Nat
      BY <1>2, CountsAreNat
    <3>3. h' = h /\ w' = w /\ n' = n /\ p' = p /\ t' = t
      BY <1>1, <1>2 DEF At
    <3>4. Counted(d, f)' <=> Balanced(c', q', n', h', p', w', t')
      BY DEF Counted
    <3>5. fileChan \in Seq(Found) /\ GroupsOK
      BY DEF TypeOK, GroupsOK
    <3>6. g \in Found /\ g.file \in File /\ g.dir \in Dir /\ g = [file |-> g.file, dir |-> g.dir]
      <4>1. g \in Found
        BY <2>3, <3>5, HeadTailProperties
      <4> QED
        BY <4>1 DEF Found
    <3>7. q = Times(FoundIn(f, d), Tail(fileChan)) + (IF FoundIn(f, d) = g THEN 1 ELSE 0)
      BY <2>3, <3>5, TimesTail
    <3>8. Times(FoundIn(f, d), Tail(fileChan)) \in Nat
      BY <2>3, <3>5, HeadTailProperties, TimesIsNat
    <3>9. q' = Times(FoundIn(f, d), Tail(fileChan))
      BY <2>3
    <3>10. c' = c + (IF FoundIn(f, d) = g THEN 1 ELSE 0)
      BY <2>3, <3>5, <3>6, <1>3, CollectedCounts
    <3>11. CASE FoundIn(f, d) = g
      <4>1. c' = c + 1 /\ q' = q - 1 /\ q > 0
        BY <3>7, <3>8, <3>9, <3>10, <3>11
      <4> HIDE DEF c, q, n, h, p, w, t
      <4>2. Balanced(c + 1, q - 1, n, h, p, w, t)
        BY <3>1, <3>2, <4>1, Arithmetic
      <4> QED
        BY <3>3, <3>4, <4>1, <4>2
    <3>12. CASE FoundIn(f, d) # g
      <4>1. c' = c /\ q' = q
        <5>1. c' = c + 0 /\ q = Times(FoundIn(f, d), Tail(fileChan)) + 0
          BY <3>7, <3>10, <3>12
        <5> HIDE DEF c
        <5> QED
          BY <5>1, <3>2, <3>8, <3>9
      <4> HIDE DEF c, q, n, h, p, w, t
      <4> QED
        BY <3>1, <3>3, <3>4, <4>1
    <3> QED
      BY <3>11, <3>12
  <2> QED
    BY <2>2, <2>3 DEF Collector, CollectCheck, CollectRecv
<1> QED
  BY <1>2, <1>3

LEMMA KeptByLister ==
  ASSUME TypeOK, Ends, Lossless, ApksKept, Lister, Lossless'
  PROVE  ApksKept'
<1>1. UNCHANGED <<walker, fileChan, apks>>
  BY DEF Lister
<1> SUFFICES ASSUME NEW d \in Dir, NEW f \in Wanted, Kind[f] = Apk
             PROVE  /\ At(d)' => \A i \in DOMAIN FilesIn[d] :
                          i < walker'.line /\ FilesIn[d][i] = f => HasApk(f)'
                    /\ Passed(d)' # {} /\ InSeq(f, FilesIn[d]) =>
                          InSeq(d, dirChan') \/ At(d)' \/ HasApk(f)'
  BY DEF ApksKept
<1>2. (HasApk(f)' <=> HasApk(f)) /\ (At(d)' <=> At(d)) /\ walker' = walker
  BY <1>1 DEF HasApk, InSeq, At
<1>3. /\ At(d) => \A i \in DOMAIN FilesIn[d] : i < walker.line /\ FilesIn[d][i] = f => HasApk(f)
      /\ Passed(d) # {} /\ InSeq(f, FilesIn[d]) => InSeq(d, dirChan) \/ At(d) \/ HasApk(f)
  BY DEF ApksKept
<1>4. CASE UNCHANGED dirChan /\ \A e : Passed(e)' = Passed(e)
  BY <1>2, <1>3, <1>4
<1>5. ASSUME CurrentDir \in Dir, dirChan' = Append(dirChan, CurrentDir),
             \A e : Passed(e)' = Passed(e) \cup
                       (IF CurrentDir = e THEN {<<lister.cmd, lister.line>>} ELSE {})
      PROVE  Passed(d)' # {} => Passed(d) # {} \/ InSeq(d, dirChan')
  <2>1. dirChan \in Seq(Dir)
    BY DEF TypeOK
  <2>2. CASE d = CurrentDir
    <3>1. dirChan'[Len(dirChan) + 1] = d /\ Len(dirChan) + 1 \in DOMAIN dirChan'
      BY <1>5, <2>1, <2>2, AppendProperties
    <3> QED
      BY <3>1 DEF InSeq
  <2>3. CASE d # CurrentDir
    BY <1>5, <2>3
  <2> QED
    BY <2>2, <2>3
<1>6. ASSUME CurrentDir \in Dir, dirChan' = Append(dirChan, CurrentDir)
      PROVE  InSeq(d, dirChan) => InSeq(d, dirChan')
  <2>1. dirChan \in Seq(Dir)
    BY DEF TypeOK
  <2>2. \A i \in DOMAIN dirChan : i \in DOMAIN dirChan' /\ dirChan'[i] = dirChan[i]
    BY <1>6, <2>1, AppendProperties
  <2> QED
    BY <2>2 DEF InSeq
<1> QED
  BY <1>2, <1>3, <1>4, <1>5, <1>6, ListerMoves

LEMMA KeptByWalker ==
  ASSUME TypeOK, Ends, Lossless, ApksKept, Walker, Lossless'
  PROVE  ApksKept'
<1>1. UNCHANGED <<lister, apks>>
  BY DEF Walker
<1> SUFFICES ASSUME NEW d \in Dir, NEW f \in Wanted, Kind[f] = Apk
             PROVE  /\ At(d)' => \A i \in DOMAIN FilesIn[d] :
                          i < walker'.line /\ FilesIn[d][i] = f => HasApk(f)'
                    /\ Passed(d)' # {} /\ InSeq(f, FilesIn[d]) =>
                          InSeq(d, dirChan') \/ At(d)' \/ HasApk(f)'
  BY DEF ApksKept
<1>2. Passed(d)' = Passed(d)
  BY <1>1 DEF Passed
<1>3. /\ At(d) => \A i \in DOMAIN FilesIn[d] : i < walker.line /\ FilesIn[d][i] = f => HasApk(f)
      /\ Passed(d) # {} /\ InSeq(f, FilesIn[d]) => InSeq(d, dirChan) \/ At(d) \/ HasApk(f)
  BY DEF ApksKept
<1>4. FilesIn[d] \in Seq(File) /\ fileChan \in Seq(Found) /\ dirChan \in Seq(Dir)
  BY FindAssumption DEF TypeOK
<1>5. UNCHANGED fileChan => (HasApk(f)' <=> HasApk(f))
  BY <1>1 DEF HasApk, InSeq
<1>6. CASE WalkerStays
  BY <1>2, <1>3, <1>5, <1>6 DEF WalkerStays
<1>7. CASE WalkerTakes
  <2>1. HasApk(f)' <=> HasApk(f)
    BY <1>5, <1>7 DEF WalkerTakes
  <2>2. \A i \in DOMAIN FilesIn[d] : ~(i < walker'.line)
    BY <1>4, <1>7 DEF WalkerTakes
  <2>3. InSeq(d, dirChan) => InSeq(d, dirChan') \/ At(d)'
    <3> SUFFICES ASSUME NEW i \in DOMAIN dirChan, dirChan[i] = d, d # Head(dirChan)
                 PROVE  InSeq(d, dirChan')
      BY <1>7 DEF WalkerTakes, InSeq
    <3>1. dirChan # <<>> /\ dirChan' = Tail(dirChan) /\ i # 1
      BY <1>4, <1>7 DEF WalkerTakes
    <3>2. i - 1 \in 1 .. Len(dirChan) - 1 /\ (i - 1) + 1 = i
      BY <3>1, <1>4
    <3>3. DOMAIN Tail(dirChan) = 1 .. Len(dirChan) - 1 /\ Tail(dirChan)[i - 1] = dirChan[i]
      BY <3>1, <3>2, <1>4, HeadTailProperties
    <3> QED
      BY <3>1, <3>2, <3>3 DEF InSeq
  <2> QED
    BY <2>1, <2>2, <2>3, <1>2, <1>3, <1>7 DEF WalkerTakes
<1>8. CASE WalkerSends
  <2>1. CurrentFile \in Found /\ fileChan' = Append(fileChan, CurrentFile)
    BY <1>8 DEF WalkerSends
  <2>2. /\ \A i \in DOMAIN fileChan : i \in DOMAIN fileChan' /\ fileChan'[i] = fileChan[i]
        /\ Len(fileChan) + 1 \in DOMAIN fileChan' /\ fileChan'[Len(fileChan) + 1] = CurrentFile
    BY <2>1, <1>4, AppendProperties
  <2>3. HasApk(f) => HasApk(f)'
    BY <2>2, <1>1 DEF HasApk, InSeq
  <2>4. CurrentFile.file = f => HasApk(f)'
    BY <2>2 DEF HasApk
  <2>5. UNCHANGED dirChan /\ (At(d)' <=> At(d)) /\ walker'.line = walker.line + 1
        /\ walker.line \in DOMAIN FilesIn[walker.dir] /\ (At(d) <=> d = walker.dir)
    BY <1>8 DEF WalkerSends
  <2>6. ASSUME At(d), NEW i \in DOMAIN FilesIn[d], i < walker'.line, FilesIn[d][i] = f
        PROVE  HasApk(f)'
    <3>1. d = walker.dir /\ walker.line \in Nat /\ i \in Nat
      BY <2>5, <2>6, <1>4
    <3>2. CASE i < walker.line
      BY <3>2, <2>3, <2>6, <1>3
    <3>3. CASE i = walker.line
      BY <3>1, <3>3, <2>4, <2>6 DEF CurrentFile
    <3> QED
      BY <3>1, <3>2, <3>3, <2>5, <2>6
  <2> QED
    BY <2>3, <2>5, <2>6, <1>2, <1>3
<1>9. CASE WalkerLeaves
  <2>1. HasApk(f)' <=> HasApk(f)
    BY <1>5, <1>9 DEF WalkerLeaves
  <2>2. At(d) /\ InSeq(f, FilesIn[d]) => HasApk(f)
    <3> SUFFICES ASSUME At(d), NEW i \in DOMAIN FilesIn[d], FilesIn[d][i] = f PROVE HasApk(f)
      BY DEF InSeq
    <3>1. i < walker.line
      BY <1>4, <1>9 DEF WalkerLeaves
    <3> QED
      BY <3>1, <1>3
  <2> QED
    BY <2>1, <2>2, <1>2, <1>3, <1>9 DEF WalkerLeaves
<1> QED
  BY <1>6, <1>7, <1>8, <1>9, WalkerMoves

LEMMA KeptByCollector ==
  ASSUME TypeOK, Ends, Lossless, ApksKept, Collector, Lossless'
  PROVE  ApksKept'
<1>1. UNCHANGED <<lister, walker, dirChan>>
  BY DEF Collector
<1>2. ASSUME NEW f \in Wanted, Kind[f] = Apk, HasApk(f) PROVE HasApk(f)'
  <2>1. CASE UNCHANGED <<fileChan, apks>>
    BY <2>1, <1>2 DEF HasApk, InSeq
  <2>2. CASE fileChan # <<>> /\ fileChan' = Tail(fileChan) /\ Received(Head(fileChan))
    <3>0. fileChan \in Seq(Found) /\ apks \in Seq(File)
      BY DEF TypeOK
    <3>1. Head(fileChan) \in Found /\ Head(fileChan).file \in File /\ Head(fileChan) = fileChan[1]
      <4>1. Head(fileChan) \in Found /\ Head(fileChan) = fileChan[1]
        BY <2>2, <3>0, HeadTailProperties
      <4> QED
        BY <4>1 DEF Found
    <3>2. CASE InSeq(f, apks)
      <4>1. CASE apks' = apks
        BY <4>1, <3>2 DEF HasApk, InSeq
      <4>2. CASE apks' = Append(apks, Head(fileChan).file)
        <5>1. \A i \in DOMAIN apks : i \in DOMAIN apks' /\ apks'[i] = apks[i]
          BY <4>2, <3>0, <3>1, AppendProperties
        <5> QED
          BY <5>1, <3>2 DEF HasApk, InSeq
      <4> QED
        BY <4>1, <4>2, <2>2 DEF Received
    <3>3. ASSUME NEW i \in DOMAIN fileChan, fileChan[i].file = f PROVE HasApk(f)'
      <4>1. CASE i = 1
        <5>1. apks' = Append(apks, f)
          BY <2>2, <3>1, <3>3, <4>1, <1>2 DEF Received
        <5>2. Len(apks) + 1 \in DOMAIN apks' /\ apks'[Len(apks) + 1] = f
          <6>1. f \in File
            BY <3>1, <3>3, <4>1
          <6> QED
            BY <6>1, <5>1, <3>0, AppendProperties
        <5> QED
          BY <5>2 DEF HasApk, InSeq
      <4>2. CASE i # 1
        <5>1. i - 1 \in 1 .. Len(fileChan) - 1 /\ (i - 1) + 1 = i
          BY <4>2, <3>0
        <5>2. DOMAIN Tail(fileChan) = 1 .. Len(fileChan) - 1 /\ Tail(fileChan)[i - 1] = fileChan[i]
          BY <5>1, <2>2, <3>0, HeadTailProperties
        <5>3. i - 1 \in DOMAIN fileChan' /\ fileChan'[i - 1].file = f
          BY <5>1, <5>2, <2>2, <3>3
        <5> QED
          BY <5>3 DEF HasApk
      <4> QED
        BY <4>1, <4>2
    <3> QED
      BY <3>2, <3>3, <1>2 DEF HasApk
  <2> QED
    BY <2>1, <2>2 DEF Collector, CollectCheck, CollectRecv
<1> QED
  BY <1>1, <1>2 DEF ApksKept, At, Passed

LEMMA SearchStep == TypeOK /\ SearchInv /\ [Next]_vars => SearchInv'
<1> SUFFICES ASSUME TypeOK, SearchInv, [Next]_vars PROVE SearchInv'
  OBVIOUS
<1>1. Ends'
  BY EndsStep DEF SearchInv
<1>2. ASSUME Lossless' PROVE AllCounted' /\ ApksKept'
  <2>1. Ends /\ Lossless /\ AllCounted /\ ApksKept
    BY <1>2, LosslessBack DEF SearchInv
  <2>2. CASE Lister
    BY <2>1, <2>2, <1>2, CountedByLister, KeptByLister
  <2>3. CASE Walker
    BY <2>1, <2>3, <1>2, CountedByWalker, KeptByWalker
  <2>4. CASE Collector
    BY <2>1, <2>4, <1>2, CountedByCollector, KeptByCollector
  <2>5. CASE Cancel \/ Return \/ UNCHANGED vars
    <3>1. UNCHANGED <<lister, walker, dirChan, fileChan, groups, apks>>
      BY <2>5 DEF Cancel, Return, vars
    <3> QED
      BY <2>1, <3>1 DEF AllCounted, ApksKept, Counted, At, Passed, TimesCollected, HasApk, InSeq
  <2> QED
    BY <2>2, <2>3, <2>4, <2>5 DEF Next
<1> QED
  BY <1>1, <1>2 DEF SearchInv

LEMMA SearchInit == Init => SearchInv
<1> SUFFICES ASSUME Init PROVE SearchInv
  OBVIOUS
<1>1. Ends
  BY DEF Init, Ends
<1>2. \A d : Passed(d) = {} /\ ~At(d)
  BY BeforeFirst DEF Init, Passed, At
<1>3. ASSUME NEW d \in Dir, NEW f \in Wanted PROVE Counted(d, f)
  <2>1. TimesCollected(FoundIn(f, d)) = 0
    BY DEF Init, TimesCollected
  <2>2. \A x : Times(x, <<>>) = 0
    BY FS_EmptySet DEF Times
  <2>3. Times(FoundIn(f, d), fileChan) = 0 /\ Times(d, dirChan) = 0
    BY <2>2 DEF Init
  <2>4. Cardinality(Passed(d)) = 0
    BY <1>2, FS_EmptySet
  <2>5. Times(f, FilesIn[d]) \in Nat
    <3>1. FilesIn[d] \in Seq(File)
      BY FindAssumption
    <3> QED
      BY <3>1, TimesIsNat
  <2>6. \A t \in Nat : Balanced(0, 0, 0, 0, 0, 0, t)
    BY DEF Balanced
  <2> QED
    BY <2>1, <2>3, <2>4, <2>5, <2>6, <1>2 DEF Counted
<1>4. AllCounted
  BY <1>2, <1>3, FS_EmptySet DEF AllCounted
<1>5. ApksKept
  BY <1>2 DEF ApksKept
<1> QED
  BY <1>1, <1>4, <1>5 DEF SearchInv

LEMMA AllFound == TypeOK /\ SearchInv => OkMeansAllFound
<1> SUFFICES ASSUME TypeOK, SearchInv, result = "ok", Helper = "fsdump" \/ ~cancelled,
                    NEW d \in ListedDirs, NEW f \in Wanted
             PROVE  /\ Kind[f] # Apk => TimesCollected([file |-> f, dir |-> d]) =
                                          TimesListed(d) * Times(f, FilesIn[d])
                    /\ Kind[f] = Apk /\ InSeq(f, FilesIn[d]) => InSeq(f, apks)
  BY DEF OkMeansAllFound
<1>1. lister.pc = "ok" /\ walker.pc = "ok" /\ collector = "ok"
  BY DEF SearchInv, Ends
<1>2. Lossless /\ AllCounted /\ ApksKept
  BY <1>1 DEF SearchInv, Lossless
<1>3. lister.cmd > Len(DirListing) /\ dirChan = <<>> /\ fileChan = <<>> /\ ~At(d)
  BY <1>1 DEF SearchInv, Ends, At
<1>4. d \in Dir
  <2>1. PICK c \in DOMAIN DirListing : d \in {DirListing[c][i] : i \in DOMAIN DirListing[c]}
    BY DEF ListedDirs
  <2>2. DirListing[c] \in Seq(Dir)
    BY ListingTypes
  <2>3. \A i \in DOMAIN DirListing[c] : DirListing[c][i] \in Dir
    BY <2>2, ElementOfSeq
  <2> QED
    BY <2>1, <2>3
<1>5. Passed(d) = Slots(d)
  <2>1. lister.cmd \in Nat
    BY DEF TypeOK, ListerState
  <2> QED
    BY <2>1, <1>3, BeforeAll DEF Passed
<1>6. ASSUME Kind[f] # Apk
      PROVE  TimesCollected(FoundIn(f, d)) = TimesListed(d) * Times(f, FilesIn[d])
  <2>1. Times(FoundIn(f, d), fileChan) = 0 /\ Times(d, dirChan) = 0
    <3>1. \A x : Times(x, <<>>) = 0
      BY FS_EmptySet DEF Times
    <3> QED
      BY <3>1, <1>3
  <2>2. Balanced(TimesCollected(FoundIn(f, d)), 0, 0, 0, Cardinality(Passed(d)), 0, Times(f, FilesIn[d]))
    BY <2>1, <1>2, <1>3, <1>4, <1>6 DEF AllCounted, Counted
  <2>3. IsFiniteSet(Passed(d))
    BY <1>2, <1>4 DEF AllCounted
  <2>4. /\ TimesCollected(FoundIn(f, d)) \in Nat /\ Cardinality(Passed(d)) \in Nat
        /\ Times(f, FilesIn[d]) \in Nat
    BY <2>3, <1>4, CountsAreNat
  <2>5. TimesCollected(FoundIn(f, d)) = Cardinality(Passed(d)) * Times(f, FilesIn[d])
    <3>1. ASSUME NEW c \in Nat, NEW p \in Nat, NEW t \in Nat, Balanced(c, 0, 0, 0, p, 0, t)
          PROVE  c = p * t
      BY <3>1, Arithmetic
    <3> QED
      BY <2>2, <2>4, <3>1
  <2>6. TimesListed(d) = Cardinality(Slots(d))
    BY DEF TimesListed, Slots
  <2> QED
    BY <2>5, <2>6, <1>5
<1>7. ASSUME Kind[f] = Apk, InSeq(f, FilesIn[d]) PROVE InSeq(f, apks)
  <2>1. Slots(d) # {}
    <3>1. PICK c \in DOMAIN DirListing : d \in {DirListing[c][i] : i \in DOMAIN DirListing[c]}
      BY DEF ListedDirs
    <3>2. PICK i \in DOMAIN DirListing[c] : DirListing[c][i] = d
      BY <3>1
    <3> QED
      BY <3>2, SlotsAre
  <2>2. InSeq(d, dirChan) \/ At(d) \/ HasApk(f)
    BY <2>1, <1>2, <1>4, <1>5, <1>7 DEF ApksKept
  <2> QED
    BY <2>2, <1>3 DEF HasApk, InSeq
<1> QED
  BY <1>6, <1>7 DEF FoundIn

(* A search that reports success collected every wanted file of every      *)
(* listed directory, exactly as often as it was printed: whatever the      *)
(* bounds of the channels, the order of the three threads and the moment   *)
(* of a cancellation (with adb: without one), none of them takes an early  *)
(* end of its input for the real one.                                      *)
THEOREM NothingMissed == Spec => []OkMeansAllFound
<1>1. Init => TypeOK /\ SearchInv
  BY TypeInit, SearchInit
<1>2. TypeOK /\ SearchInv /\ [Next]_vars => (TypeOK /\ SearchInv)'
  BY TypeStep, SearchStep
<1> QED
  BY <1>1, <1>2, AllFound, PTL DEF Spec

===============================================================================
