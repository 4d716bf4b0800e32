----------------------- MODULE ServiceRunnerServerProofs -----------------------
(***************************************************************************)
(* The catalogue of services is what its clients rely on, for every        *)
(* default configuration, every extension and every sequence of restarts.  *)
(***************************************************************************)
EXTENDS ServiceRunnerServer, WellFoundedInduction, TLAPS

\* A set of natural numbers has a smallest one.
LEMMA Smallest ==
    ASSUME NEW I \in SUBSET Nat, I # {}
    PROVE  \E i \in I : \A j \in I : i <= j
<1>1. PICK i \in I : \A j \in I : <<j, i>> \notin OpToRel(<, Nat)
  BY NatLessThanWellFounded, WFMin
<1>2. \A j \in I : ~(j < i)
  BY <1>1 DEF OpToRel
<1> QED
  BY <1>2

LEMMA MinIsSmallest ==
    ASSUME NEW I \in SUBSET Nat, I # {}
    PROVE  Min(I) \in I /\ \A j \in I : Min(I) <= j
BY Smallest DEF Min

\* What is in a sequence is what it has at some index.
LEMMA IntoRange == ASSUME NEW s, NEW i \in DOMAIN s PROVE s[i] \in Range(s)
  BY DEF Range

LEMMA FromRange == ASSUME NEW s, NEW x \in Range(s) PROVE \E i \in DOMAIN s : x = s[i]
  BY DEF Range

\* getService returns the first service of a name, for an operating system it has.
LEMMA ServiceFound ==
    ASSUME NEW c \in Seq(Service), NEW name, GetService(c, name, OS) # None
    PROVE  /\ GetService(c, name, OS) \in Range(c)
           /\ GetService(c, name, OS).name = name
           /\ OS \in GetService(c, name, OS).os
<1> DEFINE I == {i \in 1..Len(c) : c[i].name = name}
<1>1. GetService(c, name, OS) = c[Min(I)] /\ I # {} /\ OS \in c[Min(I)].os
  BY DEF GetService, Find, SelectInSeq
<1>2. I \in SUBSET Nat
  OBVIOUS
<1>3. Min(I) \in I
  <2> HIDE DEF I
  <2> QED
    BY <1>1, <1>2, MinIsSmallest
<1>4. c[Min(I)].name = name /\ Min(I) \in DOMAIN c
  BY <1>3
<1> HIDE DEF I
<1> QED
  BY <1>1, <1>4 DEF Range

LEMMA FirstServiceFound ==
    ASSUME NEW c \in Seq(Service), NEW i \in 1..Len(c), OS \in c[i].os,
           \A j \in 1..Len(c) : c[j].name = c[i].name => i <= j
    PROVE  GetService(c, c[i].name, OS) = c[i]
<1> DEFINE I == {j \in 1..Len(c) : c[j].name = c[i].name}
<1>1. Min(I) \in I /\ \A j \in I : Min(I) <= j
  <2>1. I \in SUBSET Nat /\ i \in I
    OBVIOUS
  <2> HIDE DEF I
  <2> QED
    BY <2>1, MinIsSmallest
<1>2. Min(I) = i
  BY <1>1
<1>3. Find(c, LAMBDA s : s.name = c[i].name) = c[i]
  BY <1>1, <1>2 DEF Find, SelectInSeq
<1>4. c[i] \in Service
  OBVIOUS
<1> QED
  BY <1>3, <1>4, CatalogueAssumption DEF GetService

\* startService finds the first environment of a name.
LEMMA EnvironmentFound ==
    ASSUME NEW s \in Service, NEW env, GetEnvironment(s, env) # None
    PROVE  /\ GetEnvironment(s, env) \in Environment
           /\ GetEnvironment(s, env).name = env
<1> DEFINE es == s.environments
           I == {i \in 1..Len(es) : es[i].name = env}
<1>1. es \in Seq(Environment)
  BY DEF Service
<1>2. GetEnvironment(s, env) = es[Min(I)] /\ I # {}
  BY DEF GetEnvironment, Find, SelectInSeq
<1>3. I \in SUBSET Nat
  BY <1>1
<1>4. Min(I) \in I
  <2> HIDE DEF I
  <2> QED
    BY <1>2, <1>3, MinIsSmallest
<1>5. es[Min(I)].name = env /\ Min(I) \in 1..Len(es)
  BY <1>4
<1> HIDE DEF I, es
<1> QED
  BY <1>1, <1>2, <1>5

LEMMA FirstEnvironment ==
    ASSUME NEW es \in Seq(Environment), NEW i \in 1..Len(es),
           \A j \in 1..Len(es) : es[j].name = es[i].name => i <= j
    PROVE  Find(es, LAMBDA e : e.name = es[i].name) = es[i]
<1> DEFINE I == {j \in 1..Len(es) : es[j].name = es[i].name}
<1>1. Min(I) \in I /\ \A j \in I : Min(I) <= j
  <2>1. I \in SUBSET Nat /\ i \in I
    OBVIOUS
  <2> HIDE DEF I
  <2> QED
    BY <2>1, MinIsSmallest
<1>2. Min(I) = i
  BY <1>1
<1> QED
  BY <1>1, <1>2 DEF Find, SelectInSeq

-----------------------------------------------------------------------------

LEMMA KeepsItself == ASSUME NEW c \in Seq(Service) PROVE Keeps(c, c)
  BY DEF Keeps, Extended, Service

\* The entry of a service, if there is one, is of its name and version.
LEMMA EntryIndex ==
    ASSUME NEW c \in Seq(Service), NEW svc
    PROVE  /\ EntryOf(c, svc) \in 0..Len(c)
           /\ LET i == EntryOf(c, svc) IN
                 i # 0 => c[i].name = svc.name /\ c[i].version = svc.version
<1> DEFINE I == {i \in 1..Len(c) : c[i].name = svc.name /\ c[i].version = svc.version}
<1>1. EntryOf(c, svc) = IF I # {} THEN Min(I) ELSE 0
  BY DEF EntryOf, SelectInSeq
<1>2. CASE I = {}
  BY <1>1, <1>2
<1>3. CASE I # {}
  <2>1. I \in SUBSET Nat
    OBVIOUS
  <2>2. Min(I) \in I
    <3> HIDE DEF I
    <3> QED
      BY <1>3, <2>1, MinIsSmallest
  <2> QED
    BY <1>1, <1>3, <2>2
<1> QED
  BY <1>2, <1>3

\* What is kept of what was kept is kept.
LEMMA KeepsAgain ==
    ASSUME NEW a \in Seq(Service), NEW b, NEW c, Keeps(a, b), Keeps(b, c)
    PROVE  Keeps(a, c)
<1>1. b \in Seq(Service) /\ c \in Seq(Service) /\ Len(a) <= Len(b) /\ Len(b) <= Len(c)
  BY DEF Keeps
<1>2. Len(a) <= Len(c)
  BY <1>1
<1>3. ASSUME NEW i \in 1..Len(a)
      PROVE  Extended(a[i], c[i])
  <2>1. i \in 1..Len(b)
    BY <1>1
  <2>2. Extended(a[i], b[i]) /\ Extended(b[i], c[i])
    BY <2>1 DEF Keeps
  <2>3. a[i] \in Service /\ b[i] \in Service /\ c[i] \in Service
    BY <1>1, <1>2, <2>1
  <2> DEFINE la == Len(a[i].environments)
             lb == Len(b[i].environments)
             lc == Len(c[i].environments)
  <2>4. la \in Nat /\ lb \in Nat /\ lc \in Nat
    BY <2>3 DEF Service
  <2>5. la <= lb /\ lb <= lc
    BY <2>2 DEF Extended
  <2> HIDE DEF la, lb, lc
  <2>6. la <= lc /\ \A j \in 1..la : j \in 1..lb
    BY <2>4, <2>5
  <2> QED
    BY <2>2, <2>6 DEF Extended, la, lb, lc
<1> QED
  BY <1>1, <1>2, <1>3 DEF Keeps

\* Extending one service keeps its environments, and has the user's.
LEMMA ServiceExtended ==
    ASSUME NEW s \in Service, NEW es \in Seq(Environment)
    PROVE  LET t == [s EXCEPT !.environments = Concat(@, es)] IN
           /\ t \in Service
           /\ Extended(s, t)
           /\ Range(es) \subseteq Range(t.environments)
<1> DEFINE t == [s EXCEPT !.environments = Concat(@, es)]
           ds == s.environments
<1>1. ds \in Seq(Environment)
  BY DEF Service
<1>2. /\ ds \o es \in Seq(Environment)
      /\ Len(ds \o es) = Len(ds) + Len(es)
      /\ \A i \in 1..Len(ds) : (ds \o es)[i] = ds[i]
      /\ \A i \in 1..Len(es) : (ds \o es)[Len(ds) + i] = es[i]
  <2> HIDE DEF ds
  <2> QED
    BY <1>1
<1>3. Len(ds) \in Nat /\ Len(es) \in Nat
  BY <1>1
<1>4. t.environments = ds \o es /\ t.name = s.name /\ t.version = s.version /\ t.os = s.os
  BY DEF Service, Concat
<1>5. t \in Service
  BY <1>2 DEF Service, Concat
<1>6. Extended(s, t)
  BY <1>2, <1>3, <1>4 DEF Extended
<1>7. ASSUME NEW i \in 1..Len(es)
      PROVE  es[i] \in Range(ds \o es)
  <2> HIDE DEF ds
  <2> DEFINE joined == ds \o es
  <2>1. Len(ds) + i \in 1..Len(joined)
    BY <1>2, <1>3
  <2>2. DOMAIN joined = 1..Len(joined)
    BY <1>2
  <2>3. joined[Len(ds) + i] = es[i]
    BY <1>2
  <2> HIDE DEF joined
  <2>4. es[i] \in Range(joined)
    BY <2>1, <2>2, <2>3, IntoRange
  <2> QED
    BY <2>4 DEF joined
<1>8. Range(es) \subseteq Range(t.environments)
  <2> HIDE DEF t, ds
  <2>1. \A e \in Range(es) : \E i \in 1..Len(es) : e = es[i]
    BY FromRange
  <2> QED
    BY <1>4, <1>7, <2>1
<1> QED
  BY <1>5, <1>6, <1>8

\* One service of the user is rejected, or is taken and keeps what was there.
LEMMA KeepsMore ==
    ASSUME NEW c \in Seq(Service), NEW m, Keeps(c, m), NEW svc \in Service,
           ExtendWith(c, m, svc) # None
    PROVE  /\ Keeps(m, ExtendWith(c, m, svc))
           /\ \E entry \in Range(ExtendWith(c, m, svc)) : HasAll(entry, svc)
<1> DEFINE i == EntryOf(c, svc)
           n == ExtendWith(c, m, svc)
<1>1. i \in 0..Len(c) /\ (i # 0 => c[i].name = svc.name /\ c[i].version = svc.version)
  BY EntryIndex
<1>2. m \in Seq(Service) /\ Len(c) <= Len(m)
  BY DEF Keeps
<1>3. Keeps(m, m)
  BY <1>2, KeepsItself
<1>4. CASE i = 0
  <2>1. n = Append(m, svc)
    BY <1>4, <1>2 DEF ExtendWith
  <2>2. /\ Append(m, svc) \in Seq(Service)
        /\ Len(Append(m, svc)) = Len(m) + 1
        /\ \A j \in 1..Len(m) : Append(m, svc)[j] = m[j]
        /\ Append(m, svc)[Len(m) + 1] = svc
        /\ Len(m) + 1 \in 1..Len(Append(m, svc))
    BY <1>2
  <2>3. Keeps(m, n)
    BY <1>2, <1>3, <2>1, <2>2 DEF Keeps
  <2>4. svc \in Range(n)
    <3> DEFINE a == Append(m, svc)
               l == Len(m) + 1
    <3>1. l \in DOMAIN a /\ a[l] = svc
      BY <2>2
    <3> HIDE DEF a, l
    <3>2. svc \in Range(a)
      BY <3>1, IntoRange
    <3> QED
      BY <2>1, <3>2 DEF a
  <2> QED
    BY <2>3, <2>4 DEF HasAll
<1>5. CASE i # 0
  <2> DEFINE t == [m[i] EXCEPT !.environments = Concat(@, svc.environments)]
             o == [m EXCEPT ![i] = t]
  <2>1. n = o
    BY <1>5 DEF ExtendWith
  <2>2. m[i] \in Service
    BY <1>1, <1>2, <1>5
  <2>3. svc.environments \in Seq(Environment)
    BY DEF Service
  <2>4. /\ t \in Service
        /\ Extended(m[i], t)
        /\ Range(svc.environments) \subseteq Range(t.environments)
    BY <2>2, <2>3, ServiceExtended
  <2>5. Extended(c[i], m[i])
    BY <1>1, <1>5 DEF Keeps
  <2>6. HasAll(t, svc)
    BY <1>1, <1>5, <2>4, <2>5 DEF Extended, HasAll
  <2> HIDE DEF t, i, n
  <2>7. /\ o \in Seq(Service)
        /\ Len(o) = Len(m)
        /\ \A j \in 1..Len(m) : o[j] = IF j = i THEN t ELSE m[j]
    BY <1>1, <1>2, <1>5, <2>4
  <2>8. t \in Range(o)
    BY <1>1, <1>2, <1>5, <2>7 DEF Range
  <2>9. Keeps(m, o)
    BY <1>2, <1>3, <2>4, <2>7 DEF Keeps
  <2> QED
    BY <2>1, <2>6, <2>8, <2>9 DEF n
<1> QED
  BY <1>4, <1>5

\* What an entry has of the user's, it has after more is added.
LEMMA TakenStays ==
    ASSUME NEW m \in Seq(Service), NEW n, Keeps(m, n), NEW svc,
           \E entry \in Range(m) : HasAll(entry, svc)
    PROVE  \E entry \in Range(n) : HasAll(entry, svc)
<1>1. PICK i \in 1..Len(m) : HasAll(m[i], svc)
  BY DEF Range
<1>2. n \in Seq(Service) /\ i \in 1..Len(n) /\ Extended(m[i], n[i])
  BY DEF Keeps
<1>3. m[i].environments \in Seq(Environment) /\ n[i].environments \in Seq(Environment)
  <2>1. m[i] \in Service /\ n[i] \in Service
    BY <1>2
  <2> QED
    BY <2>1 DEF Service
<1>4. Range(m[i].environments) \subseteq Range(n[i].environments)
  <2> DEFINE ms == m[i].environments
             ns == n[i].environments
  <2>1. Len(ms) <= Len(ns) /\ \A j \in 1..Len(ms) : ns[j] = ms[j]
    BY <1>2 DEF Extended
  <2>2. ms \in Seq(Environment) /\ ns \in Seq(Environment)
    BY <1>3
  <2> HIDE DEF ms, ns
  <2>3. Range(ms) \subseteq Range(ns)
    BY <2>1, <2>2 DEF Range
  <2> QED
    BY <2>3 DEF ms, ns
<1>5. HasAll(n[i], svc) /\ n[i] \in Range(n)
  <2>1. HasAll(n[i], svc)
    BY <1>1, <1>2, <1>4 DEF HasAll, Extended
  <2>2. i \in DOMAIN n
    BY <1>2
  <2> QED
    BY <2>1, <2>2, IntoRange
<1> QED
  BY <1>5

\* The recursion of the merge: every configuration on the way is made of the one
\* before it.  A shortest extension for which there is no such function has one for all
\* of its services but the last.
LEMMA MergingSteps ==
    ASSUME NEW c, NEW other \in Seq(Service)
    PROVE  /\ Merging(c, other)[0] = c
           /\ \A k \in 1..Len(other) :
                 Merging(c, other)[k] = ExtendWith(c, Merging(c, other)[k - 1], other[k])
<1> DEFINE Goes(f, n) == f = [k \in 0..n |->
                             IF k = 0 THEN c ELSE ExtendWith(c, f[k - 1], other[k])]
           Stuck == {n \in Nat : ~\E f : Goes(f, n)}
<1>1. Stuck = {}
  <2> SUFFICES ASSUME Stuck # {}
               PROVE  FALSE
    OBVIOUS
  <2>1. PICK n \in Stuck : \A m \in Stuck : n <= m
    BY Smallest
  <2>2. n # 0
    <3>1. Goes([k \in 0..0 |-> c], 0)
      OBVIOUS
    <3> QED
      BY <3>1
  <2>3. n - 1 \in Nat
    BY <2>2
  <2>4. n - 1 \notin Stuck
    <3> HIDE DEF Stuck
    <3>1. n \in Nat
      BY DEF Stuck
    <3> QED
      BY <2>1, <2>3, <3>1
  <2>5. PICK f : Goes(f, n - 1)
    BY <2>3, <2>4
  <2> DEFINE g == [k \in 0..n |-> IF k = n THEN ExtendWith(c, f[n - 1], other[n]) ELSE f[k]]
  <2>6. Goes(g, n)
    BY <2>2, <2>5
  <2> QED
    BY <2>6
<1>2. Goes(CHOOSE f : Goes(f, Len(other)), Len(other))
  <2>1. Len(other) \in Nat
    OBVIOUS
  <2> HIDE DEF Goes
  <2> QED
    BY <1>1, <2>1
<1>3. Merging(c, other) = CHOOSE f : Goes(f, Len(other))
  BY DEF Merging
<1>4. Goes(Merging(c, other), Len(other))
  BY <1>2, <1>3
<1> DEFINE M == Merging(c, other)
<1>5. M = [k \in 0..Len(other) |-> IF k = 0 THEN c ELSE ExtendWith(c, M[k - 1], other[k])]
  BY <1>4
<1> HIDE DEF M
<1>6. Len(other) \in Nat
  OBVIOUS
<1>7. M[0] = c /\ \A k \in 1..Len(other) : M[k] = ExtendWith(c, M[k - 1], other[k])
  BY <1>5, <1>6
<1> QED
  BY <1>7 DEF M

\* However many services a user adds, what was there is kept and what came before is
\* taken, as long as none is rejected.  (The first to lose something would have met a
\* configuration that has it.)
LEMMA MergingKeeps ==
    ASSUME NEW c \in Seq(Service), NEW other \in Seq(Service)
    PROVE  \A k \in 0..Len(other) :
              LET merged == Merging(c, other)[k] IN
              merged # None =>
                 /\ Keeps(c, merged)
                 /\ \A j \in 1..k : \E entry \in Range(merged) : HasAll(entry, other[j])
<1> DEFINE M == Merging(c, other)
           Whole(k) == /\ Keeps(c, M[k])
                       /\ \A j \in 1..k : \E entry \in Range(M[k]) : HasAll(entry, other[j])
           Broken == {k \in 0..Len(other) : M[k] # None /\ ~Whole(k)}
<1>1. M[0] = c /\ \A k \in 1..Len(other) : M[k] = ExtendWith(c, M[k - 1], other[k])
  BY MergingSteps
<1> HIDE DEF M
<1> SUFFICES ASSUME Broken # {}
             PROVE  FALSE
  BY DEF M
<1>2. Broken \in SUBSET Nat
  OBVIOUS
<1>3. PICK k \in Broken : \A j \in Broken : k <= j
  <2> HIDE DEF Broken
  <2> QED
    BY <1>2, Smallest
<1>4. k \in 0..Len(other) /\ M[k] # None /\ ~Whole(k)
  OBVIOUS
<1>5. k # 0
  BY <1>1, <1>4, KeepsItself
<1>6. k \in 1..Len(other) /\ k - 1 \in 0..Len(other) /\ ~(k <= k - 1)
  BY <1>4, <1>5
<1>7. M[k] = ExtendWith(c, M[k - 1], other[k])
  BY <1>1, <1>6
<1>8. M[k - 1] # None
  BY <1>4, <1>7 DEF ExtendWith
<1>9. Whole(k - 1)
  <2> HIDE DEF Whole
  <2> QED
    BY <1>3, <1>6, <1>8
<1>10. other[k] \in Service
  BY <1>6
<1>11. Keeps(M[k - 1], M[k]) /\ \E entry \in Range(M[k]) : HasAll(entry, other[k])
  BY <1>4, <1>7, <1>9, <1>10, KeepsMore
<1>12. Keeps(c, M[k])
  BY <1>9, <1>11, KeepsAgain
<1>13. ASSUME NEW j \in 1..k
       PROVE  \E entry \in Range(M[k]) : HasAll(entry, other[j])
  <2>1. CASE j = k
    BY <1>11, <2>1
  <2>2. CASE j # k
    <3>1. j \in 1..(k - 1)
      BY <1>6, <2>2
    <3>2. \E entry \in Range(M[k - 1]) : HasAll(entry, other[j])
      BY <1>9, <3>1
    <3>3. M[k - 1] \in Seq(Service)
      BY <1>9 DEF Keeps
    <3> QED
      BY <1>11, <3>2, <3>3, TakenStays
  <2> QED
    BY <2>1, <2>2
<1> QED
  BY <1>4, <1>12, <1>13

\* What the constructor of Config accepts is valid, keeps the default configuration, and
\* has all of the user's.
LEMMA NewConfigKeeps ==
    ASSUME NEW other \in Seq(Service), NewConfig(Default, other) # None
    PROVE  /\ Keeps(Default, NewConfig(Default, other))
           /\ Valid(NewConfig(Default, other))
           /\ \A svc \in Range(other) :
                 \E entry \in Range(NewConfig(Default, other)) : HasAll(entry, svc)
<1>1. CASE other = <<>>
  <2>1. Range(other) = {}
    BY <1>1 DEF Range
  <2> QED
    BY <1>1, <2>1, DefaultAssumption, KeepsItself DEF NewConfig
<1>2. CASE other # <<>>
  <2> DEFINE merged == Merging(Default, other)[Len(other)]
  <2>1. NewConfig(Default, other) = merged /\ merged # None /\ Valid(merged)
    BY <1>2 DEF NewConfig, ExtendConfig
  <2>2. Len(other) \in 0..Len(other)
    OBVIOUS
  <2>3. /\ Keeps(Default, merged)
        /\ \A j \in 1..Len(other) : \E entry \in Range(merged) : HasAll(entry, other[j])
    BY <2>1, <2>2, DefaultAssumption, MergingKeeps
  <2> HIDE DEF merged
  <2> QED
    BY <2>1, <2>3 DEF Range
<1> QED
  BY <1>1, <1>2

-----------------------------------------------------------------------------

\* The types that the assumptions give the constants reach the state.
LEMMA ConfigTyped ==
    ASSUME NEW c, Keeps(Default, c), Valid(c)
    PROVE  \A s \in Range(c) :
              /\ s.name \in Name /\ s.version \in Version \cup {None} /\ s.os # {}
              /\ \A e \in Range(s.environments) : e.name \in Env
<1> SUFFICES ASSUME NEW s \in Range(c)
             PROVE  /\ s.name \in Name /\ s.version \in Version \cup {None} /\ s.os # {}
                    /\ \A e \in Range(s.environments) : e.name \in Env
  OBVIOUS
<1>1. s \in Service
  BY DEF Keeps, Range
<1>2. s.environments \in Seq(Environment)
  BY <1>1 DEF Service
<1>3. \A e \in Range(s.environments) : e \in Environment
  BY <1>2 DEF Range
<1>4. s.os # {} /\ \A e \in Range(s.environments) : e.name # None
  BY DEF Valid
<1> QED
  BY <1>1, <1>3, <1>4 DEF Service, Environment

\* What getService returns is a service of the configuration.
LEMMA GetServiceTyped ==
    ASSUME NEW c, Keeps(Default, c), NEW name, GetService(c, name, OS) # None
    PROVE  /\ GetService(c, name, OS) \in Service
           /\ GetService(c, name, OS).name = name
<1>1. c \in Seq(Service)
  BY DEF Keeps
<1>2. GetService(c, name, OS) \in Range(c) /\ GetService(c, name, OS).name = name
  BY <1>1, ServiceFound
<1> QED
  BY <1>1, <1>2 DEF Range

LEMMA PackageTyped ==
    ASSUME NEW s \in Service
    PROVE  PackageOf(s) \in Package /\ PackageOf(s).name = s.name /\ PackageOf(s).version = s.version
BY DEF PackageOf, Package, Service

\* An install and a start use what the configuration and the manifest have; a restart
\* knows what it finds.
LEMMA InductiveStep == InductiveInvariant /\ [Next]_vars => InductiveInvariant'
<1> SUFFICES ASSUME InductiveInvariant, [Next]_vars
             PROVE  InductiveInvariant'
  OBVIOUS
<1> USE DEF InductiveInvariant
<1>1. ASSUME NEW other \in Extension, StartServiceRunner(other)
      PROVE  InductiveInvariant'
  <2>1. other \in Seq(Service)
    BY CatalogueAssumption
  <2>2. config' # None /\ Keeps(Default, config') /\ Valid(config')
    BY <1>1, <2>1, NewConfigKeeps DEF StartServiceRunner
  <2>3. config = None /\ running = {} /\ running' = {} /\ found' = manifest /\ manifest' = manifest
    BY <1>1 DEF StartServiceRunner, ConfigInvariant
  <2>4. disk' # "writing"
    BY <1>1 DEF StartServiceRunner, InitRepo, WritingInvariant
  <2>5. TypeOK'
    BY <1>1, <2>2, <2>3, ConfigTyped, CatalogueAssumption DEF TypeOK, StartServiceRunner, InitRepo
  <2>6. ConfigInvariant' /\ WritingInvariant'
    BY <2>2, <2>3, <2>4 DEF ConfigInvariant, WritingInvariant
  <2>7. InstalledIsRecorded'
    BY <1>1 DEF StartServiceRunner, InstalledIsRecorded
  <2> QED
    BY <2>3, <2>5, <2>6, <2>7 DEF RunningServicesAnswers
<1>2. CASE StartCutShort
  BY <1>2, CatalogueAssumption DEF StartCutShort, TypeOK, ConfigInvariant, WritingInvariant, InstalledIsRecorded
<1>3. CASE RunnerEnds
  BY <1>3 DEF RunnerEnds, TypeOK, ConfigInvariant, WritingInvariant, InstalledIsRecorded
<1>4. ASSUME NEW name \in Name, NEW version \in Version,
             InstallReturns(name, version) \/ InstallOpens(name, version)
      PROVE  InductiveInvariant'
  <2> DEFINE asked   == [name |-> name, version |-> version]
             service == GetService(config, name, OS)
  <2>1. config # None /\ Keeps(Default, config) /\ Valid(config) /\ disk = "ok"
    BY <1>4 DEF InstallReturns, InstallOpens, Readable, ConfigInvariant
  <2>2. UNCHANGED <<config, manifest, running, found, starts>>
    BY <1>4 DEF InstallReturns, InstallOpens
  <2>3. service # None => /\ PackageOf(service) \in Package
                          /\ PackageOf(service).version = service.version
    BY <2>1, GetServiceTyped, PackageTyped
  <2>4. ConfigInvariant' /\ RunningServicesAnswers'
    BY <2>1, <2>2 DEF ConfigInvariant, RunningServicesAnswers, Configured
  <2>5. CASE InstallReturns(name, version)
    <3>1. TypeOK' /\ WritingInvariant'
      BY <2>1, <2>2, <2>5 DEF InstallReturns, TypeOK, WritingInvariant
    <3>2. InstalledIsRecorded'
      BY <2>1, <2>2, <2>5 DEF InstallReturns, InstalledIsRecorded, Configured
    <3> QED
      BY <2>4, <3>1, <3>2
  <2>6. CASE InstallOpens(name, version)
    <3>1. installing' = [asked |-> asked, entry |-> PackageOf(service)] /\ disk' = "writing"
          /\ service # None /\ promised' = promised
      BY <2>6 DEF InstallOpens
    <3>2. installing' \in Install
      BY <2>3, <3>1 DEF Install
    <3>3. TypeOK'
      BY <2>1, <2>2, <3>1, <3>2 DEF TypeOK
    <3>4. WritingInvariant'
      BY <2>1, <2>2, <3>1, <3>2, CatalogueAssumption DEF WritingInvariant, Configured
    <3>5. InstalledIsRecorded'
      BY <2>1, <2>2, <3>1 DEF InstalledIsRecorded, Configured
    <3> QED
      BY <2>4, <3>3, <3>4, <3>5
  <2> QED
    BY <1>4, <2>5, <2>6
<1>5. CASE InstallWrites
  <2> DEFINE asked   == installing.asked
             service == GetService(config, asked.name, OS)
  <2>1. /\ config # None /\ Keeps(Default, config) /\ Valid(config)
        /\ installing \in Install /\ service # None /\ installing.entry = PackageOf(service)
    BY <1>5 DEF InstallWrites, WritingInvariant, ConfigInvariant, TypeOK, Configured
  <2>2. /\ UNCHANGED <<config, running, found, starts>>
        /\ manifest' = manifest \cup {PackageOf(service)}
        /\ promised' = promised \cup {asked}
        /\ disk' = "ok" /\ installing' = None /\ disk = "writing"
    BY <1>5, <2>1 DEF InstallWrites
  <2>3. asked \in [name : Name, version : Version]
    BY <2>1 DEF Install
  <2>4. /\ service.name = asked.name
        /\ PackageOf(service) \in Package
        /\ PackageOf(service).name = asked.name
        /\ PackageOf(service).version = service.version
    BY <2>1, <2>3, GetServiceTyped, PackageTyped
  <2>5. TypeOK'
    BY <2>1, <2>2, <2>3, <2>4 DEF TypeOK
  <2> HIDE DEF asked
  <2>6. \A p \in manifest' :
           \/ p \in manifest
           \/ Configured(p.name) /\ GetService(config, p.name, OS).version = p.version
    BY <2>1, <2>2, <2>4 DEF Configured
  <2>7. ConfigInvariant'
    BY <2>1, <2>2, <2>6 DEF ConfigInvariant, Configured
  <2>8. InstalledIsRecorded'
    BY <2>1, <2>2 DEF InstalledIsRecorded, Configured
  <2> QED
    BY <2>2, <2>5, <2>7, <2>8 DEF RunningServicesAnswers, Configured, WritingInvariant
<1>6. ASSUME NEW name \in Name, NEW version \in Version, NEW env \in Env,
             StartService(name, version, env)
      PROVE  InductiveInvariant'
  <2> DEFINE service    == GetService(config, name, OS)
             definition == GetEnvironment(service, env)
             started    == [name |-> name, version |-> version, env |-> env,
                            definition |-> definition.of]
  <2>1. config # None /\ Keeps(Default, config) /\ service # None /\ definition # None
    BY <1>6 DEF StartService, Readable, ConfigInvariant
  <2>2. /\ UNCHANGED <<config, disk, manifest, installing, found, promised, starts>>
        /\ running' = running \cup {started}
        /\ [name |-> name, version |-> version] \in manifest
    BY <1>6 DEF StartService
  <2>3. service \in Service
    BY <2>1, GetServiceTyped
  <2>4. definition \in Environment
    BY <2>1, <2>3, EnvironmentFound
  <2>5. started \in ActiveService
    BY <2>4 DEF ActiveService, Environment
  <2>6. TypeOK'
    BY <2>2, <2>5 DEF TypeOK
  <2>7. ConfigInvariant'
    BY <2>1, <2>2 DEF ConfigInvariant, Configured
  <2>8. RunningServicesAnswers'
    BY <2>1, <2>2 DEF RunningServicesAnswers, Configured
  <2>9. WritingInvariant' /\ InstalledIsRecorded'
    BY <2>2 DEF WritingInvariant, InstalledIsRecorded, Configured
  <2> QED
    BY <2>6, <2>7, <2>8, <2>9
<1>7. ASSUME NEW service \in running, ServiceEnds(service)
      PROVE  InductiveInvariant'
  <2>1. UNCHANGED <<config, disk, manifest, installing, found, promised, starts>>
    BY <1>7 DEF ServiceEnds
  <2>2. running' \subseteq running
    BY <1>7 DEF ServiceEnds
  <2>3. config' # None => RunningServicesAnswers'
    BY <2>1, <2>2 DEF RunningServicesAnswers, Configured
  <2>4. TypeOK' /\ ConfigInvariant'
    BY <2>1, <2>2 DEF TypeOK, ConfigInvariant, Configured
  <2>5. WritingInvariant' /\ InstalledIsRecorded'
    BY <2>1 DEF WritingInvariant, InstalledIsRecorded, Configured
  <2> QED
    BY <2>1, <2>3, <2>4, <2>5
<1>8. CASE UNCHANGED vars
  BY <1>8 DEF vars, TypeOK, ConfigInvariant, WritingInvariant, InstalledIsRecorded,
     RunningServicesAnswers, Configured
<1> QED
  BY <1>1, <1>2, <1>3, <1>4, <1>5, <1>6, <1>7, <1>8 DEF Next

\* The catalogue, the manifest and what runs agree in every state.
THEOREM Invariance == Spec => []InductiveInvariant
<1>1. Init => InductiveInvariant
  BY CatalogueAssumption DEF Init, InductiveInvariant, TypeOK, ConfigInvariant, WritingInvariant,
     InstalledIsRecorded
<1> QED
  BY <1>1, InductiveStep, PTL DEF Spec

\* The configuration has the types of the schema, whatever is extended and restarted.
THEOREM TypeCorrect == Spec => []TypeOK
<1>1. InductiveInvariant => TypeOK
  BY DEF InductiveInvariant
<1> QED
  BY <1>1, Invariance, PTL

\* However many services a user adds, the default ones are found, listed and started as
\* the default configuration has them.
THEOREM DefaultsKeptHolds == Spec => []DefaultsKept
<1>1. InductiveInvariant => DefaultsKept
  <2> SUFFICES ASSUME Keeps(Default, config), NEW d \in Range(Default), OS \in d.os
               PROVE  /\ Configured(d.name)
                      /\ LET service == GetService(config, d.name, OS) IN
                            /\ service.version = d.version
                            /\ service \in GetAvailableServices(config, OS)
                            /\ \A e \in Range(d.environments) :
                                  GetEnvironment(service, e.name) = e
    BY DEF InductiveInvariant, ConfigInvariant, DefaultsKept
  <2>1. PICK i \in 1..Len(Default) : d = Default[i]
    BY DefaultAssumption DEF Range
  <2>2. config \in Seq(Service) /\ i \in 1..Len(config) /\ Extended(d, config[i])
    BY <2>1, DefaultAssumption DEF Keeps
  <2>3. ASSUME NEW j \in 1..Len(config), config[j].name = config[i].name
        PROVE  i <= j
    <3> SUFFICES ASSUME j < i
                 PROVE  FALSE
      BY <2>1, <2>3
    <3>1. j \in 1..Len(Default)
      BY <2>1
    <3>2. Default[j].name = config[j].name
      BY <3>1 DEF Keeps, Extended
    <3>3. Default[j].name = Default[i].name
      BY <2>1, <2>2, <2>3, <3>2 DEF Extended
    <3> QED
      BY <2>1, <3>1, <3>3, DefaultAssumption
  <2>4. GetService(config, d.name, OS) = config[i]
    <3>1. config[i].name = d.name /\ OS \in config[i].os
      BY <2>2 DEF Extended
    <3> QED
      BY <2>2, <2>3, <3>1, FirstServiceFound
  <2>5. config[i] \in Service /\ d \in Service
    BY <2>1, <2>2, DefaultAssumption
  <2>6. Configured(d.name)
    BY <2>4, <2>5, CatalogueAssumption DEF Configured
  <2>7. config[i] \in GetAvailableServices(config, OS)
    BY <2>2 DEF GetAvailableServices, Range, Extended
  <2>8. ASSUME NEW e \in Range(d.environments)
        PROVE  GetEnvironment(config[i], e.name) = e
    <3> DEFINE es == config[i].environments
               ds == d.environments
    <3>1. es \in Seq(Environment) /\ ds \in Seq(Environment)
      BY <2>5 DEF Service
    <3>2. PICK k \in 1..Len(ds) : e = ds[k]
      BY <3>1 DEF Range
    <3>3. Len(ds) <= Len(es) /\ \A j \in 1..Len(ds) : es[j] = ds[j]
      BY <2>2 DEF Extended
    <3>4. \A j, l \in 1..Len(ds) : ds[j].name = ds[l].name => j = l
      BY DefaultAssumption
    <3>5. GetEnvironment(config[i], es[k].name) = Find(es, LAMBDA x : x.name = es[k].name)
      BY DEF GetEnvironment
    <3> HIDE DEF es, ds
    <3>6. k \in 1..Len(es) /\ es[k] = e
      BY <3>1, <3>2, <3>3
    <3>7. \A j \in 1..Len(es) : es[j].name = es[k].name => k <= j
      BY <3>1, <3>2, <3>3, <3>4, <3>6
    <3>8. Find(es, LAMBDA x : x.name = es[k].name) = es[k]
      BY <3>1, <3>6, <3>7, FirstEnvironment
    <3> QED
      BY <3>5, <3>6, <3>8
  <2> QED
    BY <2>2, <2>4, <2>6, <2>7, <2>8 DEF Extended
<1> QED
  BY <1>1, Invariance, PTL

\* An extension that is accepted is taken as a whole.
THEOREM ExtensionTakenHolds == Spec => ExtensionTaken
<1>1. ASSUME NEW other \in Extension, StartServiceRunner(other)
      PROVE  \A svc \in Range(other) : \E entry \in Range(config') : HasAll(entry, svc)
  <2>1. other \in Seq(Service)
    BY CatalogueAssumption
  <2>2. config' = NewConfig(Default, other) /\ NewConfig(Default, other) # None
    BY <1>1 DEF StartServiceRunner
  <2> QED
    BY <2>1, <2>2, NewConfigKeeps
<1>2. [Next]_vars =>
         [\A extendedConfig \in Extension :
             StartServiceRunner(extendedConfig) =>
                \A svc \in Range(extendedConfig) :
                   \E entry \in Range(config') : HasAll(entry, svc)]_vars
  BY <1>1
<1> QED
  BY <1>2, PTL DEF Spec, ExtensionTaken

\* The files that run are of the version whose commands they are run with, unless an
\* earlier run of the runner left them.
THEOREM RunsOwnVersionHolds == Spec => []RunsOwnVersion
<1>1. InductiveInvariant => RunsOwnVersion
  <2> SUFFICES ASSUME InductiveInvariant, NEW r \in running
               PROVE  \/ GetService(config, r.name, OS).version = r.version
                      \/ [name |-> r.name, version |-> r.version] \in found
    BY DEF RunsOwnVersion
  <2> DEFINE p == [name |-> r.name, version |-> r.version]
  <2>1. config # None
    BY DEF InductiveInvariant, ConfigInvariant
  <2>2. p \in manifest
    BY <2>1 DEF InductiveInvariant, ConfigInvariant
  <2> QED
    BY <2>1, <2>2 DEF InductiveInvariant, ConfigInvariant
<1> QED
  BY <1>1, Invariance, PTL

\* A list of services fails only while the manifest is written, after a runner ended
\* within that, and because of what an earlier run installed.
THEOREM ListsAnswerHolds == Spec => []ListsAnswer
<1>1. InductiveInvariant => ListsAnswer
  BY DEF InductiveInvariant, TypeOK, ConfigInvariant, ListsAnswer, InstalledServicesAnswers,
     Readable
<1> QED
  BY <1>1, Invariance, PTL

\* What an install returned for is on record as long as the runner lives.
THEOREM InstalledIsRecordedHolds == Spec => []InstalledIsRecorded
<1>1. InductiveInvariant => InstalledIsRecorded
  BY DEF InductiveInvariant
<1> QED
  BY <1>1, Invariance, PTL
=============================================================================
