------------------------ MODULE ConnectionManagerProofs ------------------------
(***************************************************************************)
(* Proofs about ConnectionManager, for every set of clients, requests and  *)
(* paths and every number of faults.                                       *)
(***************************************************************************)
EXTENDS ConnectionManager, TLAPS

-----------------------------------------------------------------------------
(* Lists of listeners. *)

\* A list without an initial part is a list of the same listeners, one further on.
LEMMA SubSeqElements ==
    ASSUME NEW S, NEW list \in Seq(S), NEW k \in 0..Len(list)
    PROVE  /\ Left(list, k) \in Seq(S)
           /\ \A j \in 1..Len(Left(list, k)) :
                 k + 1 + j \in 1..Len(list) /\ Left(list, k)[j] = list[k + 1 + j]
           /\ \A j \in 1..Len(list) :
                 j > k + 1 => /\ j - k - 1 \in 1..Len(Left(list, k))
                              /\ Left(list, k)[j - k - 1] = list[j]
    BY DEF Left

\* Whoever listens and is neither called nor thrown out still listens.
LEMMA LeftListens ==
    ASSUME NEW S, NEW list \in Seq(S), NEW k \in 0..Len(list), NEW c,
           Listens(list, c), c \notin Called(list, k), k < Len(list) => list[k + 1] # c
    PROVE  Listens(Left(list, k), c)
<1>1. PICK j \in 1..Len(list) : list[j] = c
    BY DEF Listens
<1>2. j > k + 1
    BY <1>1 DEF Called
<1> QED
    BY <1>1, <1>2, SubSeqElements DEF Listens

\* One who joins a list listens, beside those who did.
LEMMA AppendListens ==
    ASSUME NEW S, NEW list \in Seq(S), NEW c \in S
    PROVE  /\ Append(list, c) \in Seq(S)
           /\ \A d : Listens(Append(list, c), d) <=> Listens(list, d) \/ d = c
<1>1. /\ Append(list, c) \in Seq(S)
      /\ Len(Append(list, c)) = Len(list) + 1
      /\ \A k \in 1..Len(list) : Append(list, c)[k] = list[k]
      /\ Append(list, c)[Len(list) + 1] = c
    OBVIOUS
<1>2. ASSUME NEW d, Listens(Append(list, c), d) PROVE Listens(list, d) \/ d = c
  <2>1. PICK k \in 1..Len(Append(list, c)) : Append(list, c)[k] = d
      BY <1>2 DEF Listens
  <2> QED
      BY <1>1, <2>1 DEF Listens
<1>3. ASSUME NEW d, Listens(list, d) PROVE Listens(Append(list, c), d)
    BY <1>1, <1>3 DEF Listens
<1>4. Listens(Append(list, c), c)
    BY <1>1 DEF Listens
<1> QED
    BY <1>1, <1>2, <1>3, <1>4

-----------------------------------------------------------------------------
(* Type correctness. *)

\* The end of the runner leaves every connection typed, and no listener.
LEMMA RunnerDiesType ==
    ASSUME TypeOK, RunnerDies, faults' \in 0..MaxFaults
    PROVE  TypeOK'
    BY DEF TypeOK, RunnerDies

\* The typing of all variables is inductive by itself.
LEMMA TypeStep == TypeOK /\ [Next]_vars => TypeOK'
<1> SUFFICES ASSUME TypeOK, [Next]_vars PROVE TypeOK'
    OBVIOUS
<1>1. ASSUME NEW kind, Injects(kind) PROVE faults' \in 0..MaxFaults
    BY <1>1, FaultAssumption DEF Injects, TypeOK
<1>2. ASSUME NEW c \in Client, NEW p \in Path, UpgradeForwarded(c, p) PROVE TypeOK'
  <2>1. onUpgraded' \in Seq(Client) /\ onTerminate' \in Seq(Client)
      BY <1>2, AppendListens DEF UpgradeForwarded, Registers, TypeOK
  <2>2. alone' \in SUBSET Client
      BY <1>2 DEF UpgradeForwarded, Registers, Meets, TypeOK
  <2> QED
      BY <1>2, <2>1, <2>2 DEF UpgradeForwarded, Registers, TypeOK
<1>3. ASSUME NEW c \in Client, NEW p \in Path, UpgradeRefused(c, p) PROVE TypeOK'
  <2>1. onUpgraded' \in Seq(Client) /\ Append(onTerminate, c) \in Seq(Client)
      BY <1>3, AppendListens DEF UpgradeRefused, Registers, TypeOK
  <2>2. alone' \in SUBSET Client
      BY <1>3 DEF UpgradeRefused, Registers, Meets, TypeOK
  <2>3. PICK k \in Completing(Append(onTerminate, c)) :
                Termination(c, Append(onTerminate, c), k)
      BY <1>3 DEF UpgradeRefused
  <2>4. onTerminate' \in Seq(Client)
      BY <2>1, <2>3, SubSeqElements DEF Termination, Completing
  <2>5. client' \in [Client -> {"idle", "upgrading", "open", "closing", "closed"}]
      BY <2>3 DEF Termination, AfterTermination, TypeOK
  <2> QED
      BY <1>3, <2>1, <2>2, <2>3, <2>4, <2>5
         DEF UpgradeRefused, Registers, Termination, TypeOK
<1>4. ASSUME NEW c \in Client, BackendOpens(c) PROVE TypeOK'
  <2>1. PICK k \in Completing(onUpgraded) :
          /\ onUpgraded' = Left(onUpgraded, k)
          /\ \E joined \in MayJoin(Called(onUpgraded, k)) :
                /\ client' = [d \in Client |-> IF d \in joined THEN AfterJoin(d) ELSE client[d]]
                /\ link' = [d \in Client |-> IF d \in joined THEN c ELSE link[d]]
      BY <1>4 DEF BackendOpens
  <2>2. onUpgraded' \in Seq(Client)
      BY <2>1, SubSeqElements DEF Completing, TypeOK
  <2>3. client' \in [Client -> {"idle", "upgrading", "open", "closing", "closed"}]
      BY <2>1 DEF AfterJoin, TypeOK
  <2>4. link' \in [Client -> Client \cup {None}]
      BY <2>1 DEF TypeOK
  <2> QED
      BY <1>4, <2>2, <2>3, <2>4 DEF BackendOpens, TypeOK
<1>5. ASSUME NEW c \in Client, BackendFails(c) \/ ClientResets(c) \/ ClientBreaksFrame(c)
      PROVE  TypeOK'
    BY <1>1, <1>5, RunnerDiesType DEF BackendFails, ClientResets, ClientBreaksFrame
<1>6. ASSUME NEW c \in Client, BackendCloses(c) \/ ClientCloses(c) PROVE TypeOK'
    BY <1>6 DEF BackendCloses, ClientCloses, listenerVars, TypeOK
<1>7. ASSUME NEW e \in Exchange, NEW p \in Path, HttpRefused(e, p) \/ HttpForwarded(e, p)
      PROVE  TypeOK'
    BY <1>7 DEF HttpRefused, HttpForwarded, Progress, listenerVars, socketVars, TypeOK
<1>8. ASSUME NEW e \in Exchange, HttpResponds(e) \/ HttpFails(e) \/ HttpEnds(e)
      PROVE  TypeOK'
    BY <1>1, <1>8 DEF HttpResponds, HttpFails, HttpEnds, Progress, listenerVars, socketVars,
                      TypeOK
<1>9. ASSUME NEW e \in Exchange, HttpReset(e) PROVE TypeOK'
    BY <1>1, <1>9, RunnerDiesType DEF HttpReset
<1>10. ASSUME NEW p \in Path, RouteChanges(p) PROVE TypeOK'
    BY <1>10 DEF RouteChanges, listenerVars, socketVars, TypeOK
<1>11. CASE UNCHANGED vars
    BY <1>11 DEF vars, listenerVars, socketVars, TypeOK
<1> QED
    BY <1>2, <1>3, <1>4, <1>5, <1>6, <1>7, <1>8, <1>9, <1>10, <1>11
       DEF Next, ClientStep, ExchangeStep

\* Every variable keeps its type: TypeOK is an invariant of the specification.
THEOREM TypeCorrect == Spec => []TypeOK
<1>1. Init => TypeOK
    BY FaultAssumption DEF Init, TypeOK
<1> QED
    BY <1>1, TypeStep, PTL DEF Spec

-----------------------------------------------------------------------------
(* The inductive invariant. *)

\* A client listens once for "upgraded", after it has asked and before it is joined.
ListensOnce ==
    /\ \A j, k \in 1..Len(onUpgraded) : onUpgraded[j] = onUpgraded[k] => j = k
    /\ \A c \in Client : Listens(onUpgraded, c) => client[c] # "idle" /\ link[c] = None
    /\ \A c \in Client : client[c] = "idle" => link[c] = None

\* A client that has not asked has no backend connection.
NoBackendYet == \A c \in Client : client[c] = "idle" => backend[c] = "none"

\* While an upgrade that overlapped no other one is under way, it is the only one.
OnlyUpgrade ==
    \A c \in alone :
        /\ client[c] # "idle"
        /\ c \in Pending => Pending = {c}

InductiveInvariant ==
    /\ TypeOK
    /\ ListensOnce
    /\ NoBackendYet
    /\ OnlyUpgrade
    /\ NoDeadLink
    /\ WaitingIsHeard
    /\ OwnBackend

\* A step that concerns no upgrade.
Elsewhere == UNCHANGED <<runner, socketVars, listenerVars, alone>>

\* The steps that concern one, or end the runner.
LEMMA StepKinds ==
    ASSUME [Next]_vars
    PROVE  \/ Elsewhere
           \/ RunnerDies
           \/ \E c \in Client, p \in Path : UpgradeForwarded(c, p) \/ UpgradeRefused(c, p)
           \/ \E c \in Client : BackendOpens(c) \/ BackendCloses(c) \/ ClientCloses(c)
<1>1. ASSUME NEW c \in Client, BackendFails(c) \/ ClientResets(c) \/ ClientBreaksFrame(c)
      PROVE  RunnerDies
    BY <1>1 DEF BackendFails, ClientResets, ClientBreaksFrame
<1>2. ASSUME NEW e \in Exchange, ExchangeStep(e)
      PROVE  Elsewhere \/ RunnerDies
    BY <1>2 DEF ExchangeStep, HttpRefused, HttpForwarded, HttpResponds, HttpFails,
                HttpEnds, HttpReset, Progress, Elsewhere
<1>3. ASSUME NEW p \in Path, RouteChanges(p) PROVE Elsewhere
    BY <1>3 DEF RouteChanges, Elsewhere
<1>4. CASE UNCHANGED vars
    BY <1>4 DEF vars, Elsewhere
<1> QED
    BY <1>1, <1>2, <1>3, <1>4 DEF Next, ClientStep

\* What a step in which a backend opens does to the clients: some of those who
\* listen are joined, each of whom hears this once.
LEMMA OpeningStep ==
    ASSUME TypeOK, NEW c \in Client, BackendOpens(c)
    PROVE  \E k \in 0..Len(onUpgraded), joined \in SUBSET Client :
              /\ onUpgraded' = Left(onUpgraded, k)
              /\ k < Len(onUpgraded) => client[onUpgraded[k + 1]] \in {"open", "closing"}
              /\ joined \subseteq Called(onUpgraded, k)
              /\ \A d \in Called(onUpgraded, k) \ joined : client[d] \in {"closing", "closed"}
              /\ client' = [d \in Client |-> IF d \in joined THEN AfterJoin(d) ELSE client[d]]
              /\ link' = [d \in Client |-> IF d \in joined THEN c ELSE link[d]]
<1>1. PICK k \in Completing(onUpgraded) :
          /\ onUpgraded' = Left(onUpgraded, k)
          /\ \E joined \in MayJoin(Called(onUpgraded, k)) :
                /\ client' = [d \in Client |-> IF d \in joined THEN AfterJoin(d) ELSE client[d]]
                /\ link' = [d \in Client |-> IF d \in joined THEN c ELSE link[d]]
    BY DEF BackendOpens
<1>2. k \in 0..Len(onUpgraded)
    BY <1>1 DEF Completing
<1>3. k < Len(onUpgraded) => client[onUpgraded[k + 1]] \in {"open", "closing"}
    BY <1>1 DEF Completing, Accepted
<1>4. Called(onUpgraded, k) \subseteq Client
    BY <1>2 DEF Called, TypeOK
<1> QED
    BY <1>1, <1>2, <1>3, <1>4 DEF MayJoin

\* What a refused upgrade does to the clients: those who are called close, the one
\* who asked waits or closes.
LEMMA RefusalStep ==
    ASSUME TypeOK, NEW c \in Client, NEW p \in Path, UpgradeRefused(c, p)
    PROVE  \E k \in 0..Len(onTerminate) + 1 :
              LET list == Append(onTerminate, c) IN
              /\ client[c] = "idle"
              /\ onUpgraded' = Append(onUpgraded, c)
              /\ onTerminate' = Left(list, k)
              /\ k < Len(list) => client[list[k + 1]] \in {"open", "closing"}
              /\ client' = AfterTermination(c, Called(list, k))
              /\ UNCHANGED <<runner, backend, link, faults>>
              /\ Meets(c)
<1>1. Len(Append(onTerminate, c)) = Len(onTerminate) + 1
    BY DEF TypeOK
<1> QED
    BY <1>1 DEF UpgradeRefused, Registers, Completing, Accepted, Termination

\* Nobody is joined who was before, and nobody who has been joined listens still.
LEMMA ListensOnceStep ==
    ASSUME TypeOK, ListensOnce, [Next]_vars
    PROVE  ListensOnce'
<1>1. CASE Elsewhere
    BY <1>1 DEF Elsewhere, listenerVars, socketVars, ListensOnce, Listens
<1>2. CASE RunnerDies
    BY <1>2 DEF RunnerDies, ListensOnce, Listens, TypeOK
<1>3. ASSUME NEW c \in Client, client[c] = "idle", onUpgraded' = Append(onUpgraded, c),
             UNCHANGED link, client'[c] # "idle",
             \A d \in Client \ {c} : client'[d] = "idle" => client[d] = "idle"
      PROVE  ListensOnce'
  <2>1. ~Listens(onUpgraded, c)
      BY <1>3 DEF ListensOnce
  <2>2. /\ Len(onUpgraded') = Len(onUpgraded) + 1
        /\ \A k \in 1..Len(onUpgraded) : onUpgraded'[k] = onUpgraded[k]
        /\ onUpgraded'[Len(onUpgraded) + 1] = c
      BY <1>3 DEF TypeOK
  <2>3. \A j, k \in 1..Len(onUpgraded') : onUpgraded'[j] = onUpgraded'[k] => j = k
      BY <2>1, <2>2 DEF ListensOnce, Listens, TypeOK
  <2>4. \A d \in Client : Listens(onUpgraded', d) => client'[d] # "idle" /\ link'[d] = None
      BY <1>3, AppendListens DEF ListensOnce, TypeOK
  <2>5. \A d \in Client : client'[d] = "idle" => link'[d] = None
      BY <1>3 DEF ListensOnce
  <2> QED
      BY <2>3, <2>4, <2>5 DEF ListensOnce, Listens
<1>4. ASSUME NEW c \in Client, NEW p \in Path, UpgradeForwarded(c, p) PROVE ListensOnce'
    BY <1>3, <1>4 DEF UpgradeForwarded, Registers, TypeOK
<1>5. ASSUME NEW c \in Client, NEW p \in Path, UpgradeRefused(c, p) PROVE ListensOnce'
  <2>1. PICK k \in 0..Len(onTerminate) + 1 :
              /\ client[c] = "idle"
              /\ onUpgraded' = Append(onUpgraded, c)
              /\ client' = AfterTermination(c, Called(Append(onTerminate, c), k))
              /\ UNCHANGED link
      BY <1>5, RefusalStep
  <2>2. client'[c] # "idle"
      BY <2>1 DEF AfterTermination, TypeOK
  <2>3. ASSUME NEW d \in Client \ {c} PROVE client'[d] = "idle" => client[d] = "idle"
      BY <2>1 DEF AfterTermination, TypeOK
  <2> QED
      BY <1>3, <2>1, <2>2, <2>3
<1>6. ASSUME NEW c \in Client, BackendOpens(c) PROVE ListensOnce'
  <2>1. PICK k \in 0..Len(onUpgraded), joined \in SUBSET Client :
              /\ onUpgraded' = Left(onUpgraded, k)
              /\ joined \subseteq Called(onUpgraded, k)
              /\ client' = [d \in Client |-> IF d \in joined THEN AfterJoin(d) ELSE client[d]]
              /\ link' = [d \in Client |-> IF d \in joined THEN c ELSE link[d]]
      BY <1>6, OpeningStep
  <2>2. \A j \in 1..Len(onUpgraded') :
              k + 1 + j \in 1..Len(onUpgraded) /\ onUpgraded'[j] = onUpgraded[k + 1 + j]
      BY <2>1, SubSeqElements DEF TypeOK
  <2>3. ASSUME NEW d \in Client, Listens(onUpgraded', d)
        PROVE  d \notin joined /\ Listens(onUpgraded, d)
    <3>1. PICK j \in 1..Len(onUpgraded') : onUpgraded'[j] = d
        BY <2>3 DEF Listens
    <3>2. Listens(onUpgraded, d)
        BY <2>2, <3>1 DEF Listens
    <3>3. d \notin Called(onUpgraded, k)
        BY <2>2, <3>1 DEF Called, ListensOnce
    <3> QED
        BY <2>1, <3>2, <3>3
  <2>4. onUpgraded' \in Seq(Client)
      BY <2>1, SubSeqElements DEF TypeOK
  <2>5. \A i, j \in 1..Len(onUpgraded') : onUpgraded'[i] = onUpgraded'[j] => i = j
      BY <2>2, <2>4 DEF ListensOnce
  <2>6. \A d \in Client : Listens(onUpgraded', d) => client'[d] # "idle" /\ link'[d] = None
      BY <2>1, <2>3 DEF ListensOnce, AfterJoin, TypeOK
  <2>7. \A d \in Client : client'[d] = "idle" => link'[d] = None
      BY <2>1 DEF AfterJoin, ListensOnce, TypeOK
  <2> QED
      BY <2>5, <2>6, <2>7 DEF ListensOnce, Listens
<1>7. ASSUME NEW c \in Client, BackendCloses(c) \/ ClientCloses(c) PROVE ListensOnce'
  <2>1. /\ UNCHANGED <<onUpgraded, link>>
        /\ \A d \in Client : client'[d] = "idle" => client[d] = "idle"
      BY <1>7 DEF BackendCloses, ClientCloses, listenerVars, TypeOK
  <2> QED
      BY <2>1 DEF ListensOnce, Listens
<1> QED
    BY <1>1, <1>2, <1>4, <1>5, <1>6, <1>7, StepKinds

\* An upgrade that begins beside another one takes both out of those that met none.
LEMMA OnlyUpgradeStep ==
    ASSUME TypeOK, OnlyUpgrade, [Next]_vars
    PROVE  OnlyUpgrade'
<1>1. CASE Elsewhere
    BY <1>1 DEF Elsewhere, socketVars, OnlyUpgrade, Pending, Waiting
<1>2. CASE RunnerDies
    BY <1>2 DEF RunnerDies, TypeOK, OnlyUpgrade, Pending, Waiting
<1>3. ASSUME NEW c \in Client, client[c] = "idle", Meets(c), client'[c] # "idle",
             \A d \in Client \ {c} : client'[d] = "idle" => client[d] = "idle",
             Pending' \subseteq Pending \cup {c}
      PROVE  OnlyUpgrade'
  <2>1. Pending' \subseteq Client /\ alone \subseteq Client
      BY DEF Pending, Waiting, TypeOK
  <2>2. c \notin alone
      BY <1>3 DEF OnlyUpgrade
  <2>3. ASSUME NEW d \in alone', d \in Pending' PROVE d = c /\ Pending = {}
      BY <1>3, <2>1, <2>2, <2>3 DEF Meets
  <2>4. \A d \in alone' : client'[d] # "idle"
      BY <1>3, <2>1, <2>2 DEF Meets, OnlyUpgrade
  <2>5. Pending = {} => Pending' \subseteq {c}
      BY <1>3, <2>1
  <2> QED
      BY <2>3, <2>4, <2>5 DEF OnlyUpgrade
<1>4. ASSUME NEW c \in Client, NEW p \in Path, UpgradeForwarded(c, p) PROVE OnlyUpgrade'
    BY <1>3, <1>4 DEF UpgradeForwarded, Registers, TypeOK, Pending, Waiting
<1>5. ASSUME NEW c \in Client, NEW p \in Path, UpgradeRefused(c, p) PROVE OnlyUpgrade'
  <2>1. PICK k \in 0..Len(onTerminate) + 1 :
              /\ client[c] = "idle"
              /\ client' = AfterTermination(c, Called(Append(onTerminate, c), k))
              /\ UNCHANGED backend
              /\ Meets(c)
      BY <1>5, RefusalStep
  <2>2. client'[c] # "idle"
      BY <2>1 DEF AfterTermination, TypeOK
  <2>3. \A d \in Client \ {c} : client'[d] = "idle" => client[d] = "idle"
      BY <2>1 DEF AfterTermination, TypeOK
  <2>4. Pending' \subseteq Pending \cup {c}
      BY <2>1 DEF AfterTermination, Pending, Waiting, TypeOK
  <2> QED
      BY <1>3, <2>1, <2>2, <2>3, <2>4
<1>6. ASSUME NEW c \in Client, BackendOpens(c) PROVE OnlyUpgrade'
  <2>1. PICK joined \in SUBSET Client :
              client' = [d \in Client |-> IF d \in joined THEN AfterJoin(d) ELSE client[d]]
      BY <1>6, OpeningStep
  <2>2. \A d \in Client : client'[d] = client[d] \/ client'[d] \in {"open", "closing"}
      BY <2>1 DEF AfterJoin
  <2> QED
      BY <1>6, <2>2 DEF BackendOpens, TypeOK, OnlyUpgrade, Pending, Waiting
<1>7. ASSUME NEW c \in Client, BackendCloses(c) \/ ClientCloses(c) PROVE OnlyUpgrade'
    BY <1>7 DEF BackendCloses, ClientCloses, TypeOK, OnlyUpgrade, Pending, Waiting
<1> QED
    BY <1>1, <1>2, <1>4, <1>5, <1>6, <1>7, StepKinds

\* Backend connections are made for those who ask.
LEMMA NoBackendYetStep ==
    ASSUME TypeOK, NoBackendYet, [Next]_vars
    PROVE  NoBackendYet'
<1>1. CASE Elsewhere
    BY <1>1 DEF Elsewhere, socketVars, NoBackendYet
<1>2. CASE RunnerDies
    BY <1>2 DEF RunnerDies, NoBackendYet, TypeOK
<1>3. ASSUME NEW c \in Client, NEW p \in Path, UpgradeForwarded(c, p) PROVE NoBackendYet'
    BY <1>3 DEF UpgradeForwarded, NoBackendYet, TypeOK
<1>4. ASSUME NEW c \in Client, NEW p \in Path, UpgradeRefused(c, p) PROVE NoBackendYet'
    BY <1>4, RefusalStep DEF AfterTermination, NoBackendYet
<1>5. ASSUME NEW c \in Client, BackendOpens(c) PROVE NoBackendYet'
  <2>1. \A d \in Client : client'[d] = "idle" => client[d] = "idle"
      BY <1>5, OpeningStep DEF AfterJoin
  <2> QED
      BY <1>5, <2>1 DEF BackendOpens, NoBackendYet, TypeOK
<1>6. ASSUME NEW c \in Client, BackendCloses(c) \/ ClientCloses(c) PROVE NoBackendYet'
    BY <1>6 DEF BackendCloses, ClientCloses, NoBackendYet, TypeOK
<1> QED
    BY <1>1, <1>2, <1>3, <1>4, <1>5, <1>6, StepKinds

\* Clients open with the backend that joins them, and close with it.
LEMMA NoDeadLinkStep ==
    ASSUME TypeOK, NoBackendYet, NoDeadLink, [Next]_vars
    PROVE  NoDeadLink'
<1>1. CASE Elsewhere
    BY <1>1 DEF Elsewhere, socketVars, NoDeadLink
<1>2. CASE RunnerDies
    BY <1>2 DEF RunnerDies, NoDeadLink, TypeOK
<1>3. ASSUME NEW c \in Client, NEW p \in Path, UpgradeForwarded(c, p) PROVE NoDeadLink'
    BY <1>3, NoneAssumption DEF UpgradeForwarded, NoBackendYet, NoDeadLink, TypeOK
<1>4. ASSUME NEW c \in Client, NEW p \in Path, UpgradeRefused(c, p) PROVE NoDeadLink'
  <2>1. UNCHANGED <<backend, link>> /\ \A d \in Client : client'[d] = "open" => client[d] = "open"
      BY <1>4, RefusalStep DEF AfterTermination
  <2> QED
      BY <2>1 DEF NoDeadLink
<1>5. ASSUME NEW c \in Client, BackendOpens(c) PROVE NoDeadLink'
  <2>1. PICK joined \in SUBSET Client :
              /\ client' = [d \in Client |-> IF d \in joined THEN AfterJoin(d) ELSE client[d]]
              /\ link' = [d \in Client |-> IF d \in joined THEN c ELSE link[d]]
      BY <1>5, OpeningStep
  <2>2. backend' = [backend EXCEPT ![c] = "open"]
      BY <1>5 DEF BackendOpens
  <2> QED
      BY <2>1, <2>2, NoneAssumption DEF NoDeadLink, TypeOK
<1>6. ASSUME NEW c \in Client, BackendCloses(c) \/ ClientCloses(c) PROVE NoDeadLink'
    BY <1>6 DEF BackendCloses, ClientCloses, NoDeadLink, TypeOK
<1> QED
    BY <1>1, <1>2, <1>3, <1>4, <1>5, <1>6, StepKinds

\* Who waits is not called by an emission that goes by, and does not throw in one.
LEMMA WaitingStep ==
    ASSUME TypeOK, WaitingIsHeard, [Next]_vars
    PROVE  WaitingIsHeard'
<1> DEFINE Heard(c) == Listens(onUpgraded, c) /\ Listens(onTerminate, c)
<1>1. \A c \in Client : client[c] = "upgrading" => Heard(c)
    BY DEF WaitingIsHeard, Waiting, Listens
<1> SUFFICES ASSUME NEW d \in Client, client'[d] = "upgrading" PROVE Heard(d)'
    BY DEF WaitingIsHeard, Waiting, Listens
<1>2. CASE Elsewhere
    BY <1>1, <1>2 DEF Elsewhere, socketVars, listenerVars
<1>3. CASE RunnerDies
    BY <1>3 DEF RunnerDies
<1>4. ASSUME NEW c \in Client, NEW p \in Path, UpgradeForwarded(c, p) PROVE Heard(d)'
  <2>1. /\ onUpgraded' = Append(onUpgraded, c)
        /\ onTerminate' = Append(onTerminate, c)
        /\ client' = [client EXCEPT ![c] = "upgrading"]
      BY <1>4 DEF UpgradeForwarded, Registers
  <2>2. d = c \/ Heard(d)
      BY <1>1, <2>1 DEF TypeOK
  <2> QED
      BY <2>1, <2>2, AppendListens DEF TypeOK
<1>5. ASSUME NEW c \in Client, NEW p \in Path, UpgradeRefused(c, p) PROVE Heard(d)'
  <2> DEFINE list == Append(onTerminate, c)
  <2>1. PICK k \in 0..Len(onTerminate) + 1 :
              /\ client[c] = "idle"
              /\ onUpgraded' = Append(onUpgraded, c)
              /\ onTerminate' = Left(list, k)
              /\ k < Len(list) => client[list[k + 1]] \in {"open", "closing"}
              /\ client' = AfterTermination(c, Called(list, k))
      BY <1>5, RefusalStep
  <2>2. d \notin Called(list, k) \/ client[d] = "closed"
      BY <2>1 DEF AfterTermination
  <2>3. d = c \/ client[d] = "upgrading"
      BY <2>1 DEF AfterTermination
  <2>4. d \notin Called(list, k) /\ (k < Len(list) => list[k + 1] # d)
      BY <2>1, <2>2, <2>3
  <2>5. list \in Seq(Client) /\ Len(list) = Len(onTerminate) + 1
      BY DEF TypeOK
  <2>6. Listens(list, d) /\ Listens(onUpgraded', d)
      BY <1>1, <2>1, <2>3, AppendListens DEF TypeOK
  <2>7. Listens(Left(list, k), d)
    <3> HIDE DEF list
    <3> QED
        BY <2>4, <2>5, <2>6, LeftListens
  <2> QED
      BY <2>1, <2>6, <2>7
<1>6. ASSUME NEW c \in Client, BackendOpens(c) PROVE Heard(d)'
  <2>1. PICK k \in 0..Len(onUpgraded), joined \in SUBSET Client :
              /\ onUpgraded' = Left(onUpgraded, k)
              /\ k < Len(onUpgraded) => client[onUpgraded[k + 1]] \in {"open", "closing"}
              /\ \A e \in Called(onUpgraded, k) \ joined : client[e] \in {"closing", "closed"}
              /\ client' = [e \in Client |-> IF e \in joined THEN AfterJoin(e) ELSE client[e]]
      BY <1>6, OpeningStep
  <2>2. client[d] = "upgrading" /\ d \notin joined
      BY <2>1 DEF AfterJoin
  <2>3. Listens(onUpgraded', d)
      BY <1>1, <2>1, <2>2, LeftListens DEF TypeOK
  <2>4. UNCHANGED onTerminate
      BY <1>6 DEF BackendOpens
  <2> QED
      BY <1>1, <2>2, <2>3, <2>4
<1>7. ASSUME NEW c \in Client, BackendCloses(c) \/ ClientCloses(c) PROVE Heard(d)'
  <2>1. client[d] = "upgrading" /\ UNCHANGED <<onUpgraded, onTerminate>>
      BY <1>7 DEF BackendCloses, ClientCloses, listenerVars, TypeOK
  <2> QED
      BY <1>1, <2>1
<1> QED
    BY <1>2, <1>3, <1>4, <1>5, <1>6, <1>7, StepKinds

\* An upgrade that is the only one is joined by its own backend.
LEMMA OwnBackendStep ==
    ASSUME TypeOK, OnlyUpgrade, OwnBackend, [Next]_vars
    PROVE  OwnBackend'
<1>1. CASE Elsewhere
    BY <1>1 DEF Elsewhere, socketVars, OwnBackend
<1>2. CASE RunnerDies
    BY <1>2 DEF RunnerDies, OwnBackend, TypeOK
<1>3. ASSUME NEW c \in Client, UNCHANGED link, Meets(c), client'[c] # "open",
             \A d \in Client : client'[d] = "open" => client[d] = "open"
      PROVE  OwnBackend'
    BY <1>3 DEF Meets, OwnBackend, TypeOK
<1>4. ASSUME NEW c \in Client, NEW p \in Path, UpgradeForwarded(c, p) PROVE OwnBackend'
    BY <1>3, <1>4 DEF UpgradeForwarded, Registers, TypeOK
<1>5. ASSUME NEW c \in Client, NEW p \in Path, UpgradeRefused(c, p) PROVE OwnBackend'
  <2>1. PICK k \in 0..Len(onTerminate) + 1 :
              /\ client' = AfterTermination(c, Called(Append(onTerminate, c), k))
              /\ UNCHANGED link
              /\ Meets(c)
      BY <1>5, RefusalStep
  <2>2. client'[c] # "open" /\ \A d \in Client : client'[d] = "open" => client[d] = "open"
      BY <2>1 DEF AfterTermination
  <2> QED
      BY <1>3, <2>1, <2>2
<1>6. ASSUME NEW c \in Client, BackendOpens(c) PROVE OwnBackend'
  <2>1. PICK joined \in SUBSET Client :
              /\ client' = [d \in Client |-> IF d \in joined THEN AfterJoin(d) ELSE client[d]]
              /\ link' = [d \in Client |-> IF d \in joined THEN c ELSE link[d]]
      BY <1>6, OpeningStep
  <2>2. c \in Pending /\ UNCHANGED alone
      BY <1>6 DEF BackendOpens, Pending
  <2>3. \A d \in joined : client'[d] = "open" => d \in Pending
      BY <2>1 DEF AfterJoin, Pending, Waiting
  <2>4. \A d \in joined \cap alone : client'[d] = "open" => d = c
      BY <2>2, <2>3 DEF OnlyUpgrade
  <2> QED
      BY <2>1, <2>2, <2>4 DEF OwnBackend, TypeOK
<1>7. ASSUME NEW c \in Client, BackendCloses(c) \/ ClientCloses(c) PROVE OwnBackend'
    BY <1>7 DEF BackendCloses, ClientCloses, OwnBackend, TypeOK
<1> QED
    BY <1>1, <1>2, <1>4, <1>5, <1>6, <1>7, StepKinds

-----------------------------------------------------------------------------
(* The theorems. *)

\* All of it together is an invariant.
THEOREM Invariance == Spec => []InductiveInvariant
<1>1. Init => InductiveInvariant
    BY FaultAssumption
       DEF Init, InductiveInvariant, TypeOK, ListensOnce, Listens, NoBackendYet, OnlyUpgrade,
           NoDeadLink, WaitingIsHeard, Waiting, OwnBackend
<1>2. InductiveInvariant /\ [Next]_vars => InductiveInvariant'
    BY TypeStep, ListensOnceStep, NoBackendYetStep, OnlyUpgradeStep, NoDeadLinkStep,
       WaitingStep, OwnBackendStep DEF InductiveInvariant
<1> QED
    BY <1>1, <1>2, PTL DEF Spec

\* An open client talks to an open backend connection.
THEOREM NoDeadLinkHolds == Spec => []NoDeadLink
    BY Invariance, PTL DEF InductiveInvariant

\* A client that waits has both of its listeners.
THEOREM WaitingIsHeardHolds == Spec => []WaitingIsHeard
    BY Invariance, PTL DEF InductiveInvariant

\* An upgrade that overlapped no other one gets its own backend.
THEOREM OwnBackendHolds == Spec => []OwnBackend
    BY Invariance, PTL DEF InductiveInvariant

\* What a client is joined to is not exchanged under it.
THEOREM LinkIsFinalHolds == Spec => LinkIsFinal
<1> DEFINE Kept == \A c \in Client : link[c] # None => link'[c] = link[c]
<1>1. ASSUME InductiveInvariant, [Next]_vars PROVE Kept
  <2> USE <1>1
  <2>1. ASSUME NEW c \in Client, BackendOpens(c) PROVE Kept
    <3>1. PICK k \in 0..Len(onUpgraded), joined \in SUBSET Client :
              /\ joined \subseteq Called(onUpgraded, k)
              /\ link' = [d \in Client |-> IF d \in joined THEN c ELSE link[d]]
        BY <2>1, OpeningStep DEF InductiveInvariant
    <3>2. \A d \in joined : Listens(onUpgraded, d)
        BY <3>1 DEF Called, Listens, InductiveInvariant, TypeOK
    <3> QED
        BY <3>1, <3>2 DEF InductiveInvariant, ListensOnce
  <2>2. CASE \A c \in Client : ~BackendOpens(c)
    <3>1. UNCHANGED link
        BY <2>2, StepKinds, RefusalStep
           DEF InductiveInvariant, Elsewhere, socketVars, RunnerDies, UpgradeForwarded,
               BackendCloses, ClientCloses
    <3> QED
        BY <3>1
  <2> QED
      BY <2>1, <2>2
<1> QED
    BY <1>1, Invariance, PTL DEF Spec, LinkIsFinal

\* An open client is closed with its backend, or by its own listener for the bad path of
\* another client.
THEOREM ClosedWithCauseHolds == Spec => ClosedWithCause
<1> DEFINE Cause(c) ==
              \/ backend'[link[c]] = "closed"
              \/ /\ Listens(onTerminate, c)
                 /\ \E d \in Client \ {c} :
                       client[d] = "idle" /\ client'[d] # "idle" /\ path'[d] \notin routed
<1>1. ASSUME InductiveInvariant, [Next]_vars,
             NEW c \in Client, client[c] = "open", client'[c] = "closing"
      PROVE  Cause(c)
  <2> USE <1>1
  <2>1. TypeOK
      BY DEF InductiveInvariant
  <2>2. ~Elsewhere /\ ~RunnerDies
      BY DEF Elsewhere, socketVars, RunnerDies
  <2>3. ASSUME NEW d \in Client, NEW p \in Path, UpgradeForwarded(d, p) PROVE Cause(c)
      BY <2>1, <2>3 DEF UpgradeForwarded, TypeOK
  <2>4. ASSUME NEW d \in Client, NEW p \in Path, UpgradeRefused(d, p) PROVE Cause(c)
    <3> DEFINE list == Append(onTerminate, d)
    <3>1. PICK k \in 0..Len(onTerminate) + 1 :
              client[d] = "idle" /\ client' = AfterTermination(d, Called(list, k))
        BY <2>1, <2>4, RefusalStep
    <3>2. c \in Called(list, k) /\ d # c /\ client'[d] # "idle"
        BY <3>1 DEF AfterTermination
    <3>3. Len(list) = Len(onTerminate) + 1
        BY <2>1 DEF TypeOK
    <3>4. Listens(list, c)
      <4> HIDE DEF list
      <4> QED
          BY <3>2, <3>3 DEF Called, Listens
    <3>5. Listens(onTerminate, c)
        BY <2>1, <3>2, <3>4, AppendListens DEF TypeOK
    <3>6. path'[d] \notin routed
        BY <2>1, <2>4 DEF UpgradeRefused, Registers, TypeOK
    <3> QED
        BY <3>1, <3>2, <3>5, <3>6
  <2>5. ASSUME NEW d \in Client, BackendOpens(d) PROVE Cause(c)
    <3>1. \E k \in 0..Len(onUpgraded), joined \in SUBSET Client :
              /\ onUpgraded' = Left(onUpgraded, k)
              /\ k < Len(onUpgraded) => client[onUpgraded[k + 1]] \in {"open", "closing"}
              /\ joined \subseteq Called(onUpgraded, k)
              /\ \A e \in Called(onUpgraded, k) \ joined : client[e] \in {"closing", "closed"}
              /\ client' = [e \in Client |-> IF e \in joined THEN AfterJoin(e) ELSE client[e]]
              /\ link' = [e \in Client |-> IF e \in joined THEN d ELSE link[e]]
        BY <2>1, <2>5, OpeningStep
    <3>2. Listens(onUpgraded, c)
        BY <3>1 DEF Called, Listens
    <3> QED
        BY <3>2 DEF InductiveInvariant, ListensOnce, NoDeadLink
  <2>6. ASSUME NEW d \in Client, BackendCloses(d) \/ ClientCloses(d) PROVE Cause(c)
      BY <2>1, <2>6 DEF BackendCloses, ClientCloses, TypeOK
  <2> QED
      BY <2>2, <2>3, <2>4, <2>5, <2>6, StepKinds
<1>2. \A c \in Client :
         InductiveInvariant /\ [Next]_vars /\ client[c] = "open" /\ client'[c] = "closing"
            => Cause(c)
    BY <1>1
<1>3. InductiveInvariant /\ [Next]_vars =>
         [\A c \in Client : client[c] = "open" /\ client'[c] = "closing" => Cause(c)]_vars
    BY <1>2
<1> QED
    BY <1>3, Invariance, PTL DEF Spec, ClosedWithCause

=============================================================================
