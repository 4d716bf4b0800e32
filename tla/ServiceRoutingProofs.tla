-------------------------- MODULE ServiceRoutingProofs --------------------------
(***************************************************************************)
(* Proofs about ServiceRouting: the process manager keeps its own          *)
(* invariant when the Router listens to it, and the routing table follows  *)
(* what it announces, for every set of services, instances and ports.      *)
(***************************************************************************)
EXTENDS ServiceRouting, ServiceProcessManagerProofs

\* Every step of the composition is one of the process manager.
LEMMA RoutingStepIsStep == [RoutingNext]_allVars => [Next]_vars
<1> USE DEF Next, ServiceStep, InstanceStep
<1>1. ASSUME NEW s \in Service, NEW i \in Instance, RouteRender(s, i) PROVE Next
    BY <1>1 DEF RouteRender
<1>2. ASSUME NEW i \in Instance,
             RouteSpawn(i) \/ RouteSpawnFailure(i) \/ RouteVerification(i) \/ RouteExit(i)
      PROVE  Next
    BY <1>2 DEF RouteSpawn, RouteSpawnFailure, RouteVerification, RouteExit, RenderEnds,
                VerificationEnds, ExitDelivered
<1>3. ASSUME NEW s \in Service, QuietServiceStep(s) PROVE Next
    BY <1>3 DEF QuietServiceStep
<1>4. ASSUME NEW i \in Instance, QuietInstanceStep(i) PROVE Next
    BY <1>4 DEF QuietInstanceStep, RenderEnds, VerificationEnds, ExitDelivered
<1>5. CASE UNCHANGED allVars
    BY <1>5 DEF allVars
<1> QED
    BY <1>1, <1>2, <1>3, <1>4, <1>5 DEF RoutingNext

\* With a router that listens, the manager is still the manager: what is proved of
\* it holds of the composition.
THEOREM RoutingKeepsManager == RoutingSpec => Spec
<1>1. RoutingInit => Init
    BY DEF RoutingInit
<1> QED
    BY <1>1, RoutingStepIsStep, PTL DEF RoutingSpec, Spec

-----------------------------------------------------------------------------
(* What a step does to ports, and to launches that were announced. *)

\* A port is rendered for an instance nobody has used, and every launch that has
\* begun has one.
LEMMA PortStep ==
    ASSUME TypeOK, port \in [Instance -> Port \cup {None}], [RoutingNext]_allVars
    PROVE  /\ port' \in [Instance -> Port \cup {None}]
           /\ \A i \in Instance :
                 \/ port'[i] = port[i]
                 \/ launch[i] = "unused" /\ port'[i] \in Port
           /\ \A i \in Instance :
                 launch[i] = "unused" /\ launch'[i] # "unused" => port'[i] \in Port
<1>1. ASSUME NEW s \in Service, NEW i \in Instance, RouteRender(s, i)
      PROVE  /\ launch[i] = "unused"
             /\ launch' = [launch EXCEPT ![i] = "rendering"]
             /\ \E p \in Port : port' = [port EXCEPT ![i] = p]
    BY <1>1 DEF RouteRender, RenderPort, StartLaunches, RelaunchFires, HandlePendingEvent
<1>2. ASSUME NEW i \in Instance,
             RouteSpawn(i) \/ RouteSpawnFailure(i) \/ RouteVerification(i) \/ RouteExit(i)
      PROVE  /\ UNCHANGED port
             /\ \A j \in Instance : launch[j] = "unused" => launch'[j] = "unused"
    BY <1>2 DEF RouteSpawn, RouteSpawnFailure, RouteVerification, RouteExit, Spawns,
                SpawnFails, ConcludeVerification, ExitHandled, AnnounceOrVerify, launchVars,
                TypeOK
<1>3. ASSUME NEW s \in Service, QuietServiceStep(s)
      PROVE  \A j \in Instance : launch[j] = "unused" => launch'[j] = "unused"
    BY <1>3 DEF QuietServiceStep, StopService, StartRejected, StartReturnsRunning, launchVars
<1>4. ASSUME NEW i \in Instance, QuietInstanceStep(i)
      PROVE  \A j \in Instance : launch[j] = "unused" => launch'[j] = "unused"
    BY <1>4 DEF QuietInstanceStep, SpawnThrows, RenderFails, VerificationThrows,
                HealthTimerFires, ProbeEnds, HealthProbe, HealthProbeThrows, ExitIgnored,
                ProcessCrashes, ProcessHangs, ProcessObeys, launchVars, TypeOK
<1>5. CASE UNCHANGED allVars
    BY <1>5 DEF allVars, vars, launchVars
<1>6. CASE \E s \in Service, i \in Instance : RouteRender(s, i)
    BY <1>1, <1>6 DEF TypeOK
<1>7. CASE ~\E s \in Service, i \in Instance : RouteRender(s, i)
  <2>1. UNCHANGED port
      BY <1>2, <1>5, <1>7 DEF RoutingNext, routingVars, allVars
  <2>2. \A j \in Instance : launch[j] = "unused" => launch'[j] = "unused"
    <3>1. CASE \E s \in Service : QuietServiceStep(s)
        BY <1>3, <3>1
    <3>2. CASE \E i \in Instance : QuietInstanceStep(i)
        BY <1>4, <3>2
    <3>3. CASE \E i \in Instance :
                 RouteSpawn(i) \/ RouteSpawnFailure(i) \/ RouteVerification(i) \/ RouteExit(i)
        BY <1>2, <3>3
    <3>4. CASE UNCHANGED allVars
        BY <3>4 DEF allVars, vars, launchVars
    <3> QED
        BY <1>7, <3>1, <3>2, <3>3, <3>4 DEF RoutingNext
  <2> QED
      BY <2>1, <2>2
<1> QED
    BY <1>6, <1>7

\* A launch that was announced stays so, for the same service.
LEMMA LaunchedStep ==
    ASSUME TypeOK, [Next]_vars, NEW i \in Instance, launch[i] = "launched"
    PROVE  launch'[i] = "launched" /\ hash'[i] = hash[i]
<1>1. ASSUME NEW s \in Service, ServiceStep(s)
      PROVE  launch'[i] = "launched" /\ hash'[i] = hash[i]
    BY <1>1 DEF ServiceStep, StopService, StartRejected, StartReturnsRunning, StartLaunches,
                RelaunchFires, HandlePendingEvent, launchVars, TypeOK
<1>2. ASSUME NEW j \in Instance, InstanceStep(j)
      PROVE  launch'[i] = "launched" /\ hash'[i] = hash[i]
    BY <1>2 DEF InstanceStep, RenderEnds, Spawns, SpawnFails, SpawnThrows, RenderFails,
                AnnounceOrVerify, VerificationEnds, ConcludeVerification, VerificationThrows,
                HealthTimerFires, ProbeEnds, HealthProbe, HealthProbeThrows, ExitDelivered,
                ExitIgnored, ExitHandled, ProcessCrashes, ProcessHangs, ProcessObeys,
                launchVars, TypeOK
<1>3. CASE UNCHANGED vars
    BY <1>3 DEF vars, launchVars
<1> QED
    BY <1>1, <1>2, <1>3 DEF Next

-----------------------------------------------------------------------------
(* What a step does to the routing table. *)

\* The route of the service of i is set, when its launch is announced.
Announces(i) ==
    /\ launch[i] # "unused"
    /\ launch'[i] = "launched"
    /\ UNCHANGED <<hash, port>>
    /\ table' = [table EXCEPT ![hash[i]] = port[i]]

\* The route of the service of i is removed, or another one is left alone, when its
\* termination is announced.
Withdraws(i) ==
    /\ launch[i] # "unused"
    /\ table' = [table EXCEPT ![hash[i]] = None] \/ table' = table
    /\ activeCache' = [activeCache EXCEPT ![hash[i]] = None]
    /\ ArmRelaunch(hash[i])

\* The table changes with an announcement, and in no other way.
LEMMA TableStep ==
    ASSUME InductiveInvariant, RoutingTypeOK, [RoutingNext]_allVars
    PROVE  \/ UNCHANGED table
           \/ \E i \in Instance : hash[i] \in Service /\ (Announces(i) \/ Withdraws(i))
<1> USE DEF InductiveInvariant, TypeOK, RoutingTypeOK
<1>1. ASSUME NEW i \in Instance, launch[i] # "unused" PROVE hash[i] \in Service
    BY <1>1 DEF SpecKept
<1>2. ASSUME NEW i \in Instance, RouteSpawn(i) PROVE UNCHANGED table \/ Announces(i)
    BY <1>2 DEF RouteSpawn, Spawns, AnnounceOrVerify, HandleNewService, AddServiceRoute,
                Announces
<1>3. ASSUME NEW i \in Instance, RouteSpawnFailure(i) PROVE Withdraws(i)
  <2>1. launch[i] = "rendering" /\ CleanupService(i) /\ ArmRelaunch(hash[i])
      BY <1>3 DEF RouteSpawnFailure, SpawnFails
  <2>2. hash[i] \in Service
      BY <1>1, <2>1
  <2>3. ASSUME NEW s, table' = RmServiceRoute(table, s, port[i])
        PROVE  table' = [table EXCEPT ![s] = None] \/ table' = table
      BY <2>3 DEF RmServiceRoute
  <2>4. CASE HasHealth(i)
      BY <1>3, <2>1, <2>3, <2>4
         DEF RouteSpawnFailure, HandleTerminatedService, CleanupService, Withdraws
  <2>5. CASE ~HasHealth(i)
    <3>1. table' = RmServiceRoute([table EXCEPT ![hash[i]] = port[i]], hash[i], port[i])
        BY <1>3, <2>5 DEF RouteSpawnFailure, HandleTerminatedService, HandleNewService,
                          AddServiceRoute
    <3>2. table' = [table EXCEPT ![hash[i]] = None]
        BY <2>2, <3>1 DEF RmServiceRoute
    <3> QED
        BY <2>1, <3>2 DEF CleanupService, Withdraws
  <2> QED
      BY <2>4, <2>5
<1>4. ASSUME NEW i \in Instance, RouteVerification(i) PROVE Announces(i)
    BY <1>4 DEF RouteVerification, ConcludeVerification, HandleNewService, AddServiceRoute,
                Announces
<1>5. ASSUME NEW i \in Instance, RouteExit(i) PROVE Withdraws(i)
  <2>1. launch[i] # "unused"
      BY <1>5 DEF RouteExit, ExitHandled, Dead, InstanceShape
  <2>2. table' = [table EXCEPT ![hash[i]] = None] \/ table' = table
      BY <1>5 DEF RouteExit, HandleTerminatedService, RmServiceRoute
  <2> QED
      BY <1>5, <2>1, <2>2 DEF RouteExit, ExitHandled, CleanupService, Withdraws
<1>6. CASE \E s \in Service, i \in Instance : RouteRender(s, i)
    BY <1>6 DEF RouteRender
<1>7. CASE UNCHANGED allVars
    BY <1>7 DEF allVars
<1> QED
    BY <1>1, <1>2, <1>3, <1>4, <1>5, <1>6, <1>7
       DEF RoutingNext, routingVars, Announces, Withdraws

-----------------------------------------------------------------------------
(* The invariant of the routing table. *)

\* Every launch that has begun has a port.
PortsRendered == \A i \in Instance : launch[i] # "unused" => port[i] \in Port

RoutingInvariant ==
    /\ RoutingTypeOK
    /\ PortsRendered
    /\ RouteWasAnnounced
    /\ Routed

\* A step keeps the types of ports and routes, and the ports of launches.
LEMMA RoutingTypeStep ==
    ASSUME InductiveInvariant, RoutingTypeOK, PortsRendered, [RoutingNext]_allVars
    PROVE  RoutingTypeOK' /\ PortsRendered'
<1>1. TypeOK
    BY DEF InductiveInvariant
<1>2. port' \in [Instance -> Port \cup {None}]
    BY <1>1, PortStep DEF RoutingTypeOK
<1>3. PortsRendered'
    BY <1>1, PortStep DEF RoutingTypeOK, PortsRendered
<1>4. table' \in [Service -> Port \cup {None}]
    BY TableStep DEF RoutingTypeOK, PortsRendered, Announces, Withdraws
<1> QED
    BY <1>2, <1>3, <1>4 DEF RoutingTypeOK

\* What a route was announced by stays: a launched instance keeps its service and
\* its port, and a route that is set is set to the port of one.
LEMMA AnnouncedStep ==
    ASSUME InductiveInvariant, RoutingTypeOK, RouteWasAnnounced, [RoutingNext]_allVars
    PROVE  RouteWasAnnounced'
<1>1. TypeOK /\ [Next]_vars
    BY RoutingStepIsStep DEF InductiveInvariant
<1>2. ASSUME NEW i \in Instance, launch[i] = "launched"
      PROVE  launch'[i] = "launched" /\ hash'[i] = hash[i] /\ port'[i] = port[i]
    BY <1>1, <1>2, LaunchedStep, PortStep DEF RoutingTypeOK
<1> SUFFICES ASSUME NEW s \in Service, table'[s] # None
             PROVE  \E i \in Instance :
                        hash'[i] = s /\ port'[i] = table'[s] /\ launch'[i] = "launched"
    BY DEF RouteWasAnnounced
<1>3. CASE table'[s] = table[s]
    BY <1>2, <1>3 DEF RouteWasAnnounced
<1>4. CASE table'[s] # table[s]
  <2>1. PICK i \in Instance : hash[i] \in Service /\ (Announces(i) \/ Withdraws(i))
      BY <1>4, TableStep
  <2>2. Announces(i) /\ s = hash[i] /\ table'[s] = port[i]
      BY <1>4, <2>1 DEF Announces, Withdraws, RoutingTypeOK
  <2> QED
      BY <2>2 DEF Announces
<1> QED
    BY <1>3, <1>4

\* An instance becomes recorded, running and announced in the step that sets the
\* route of its service.
LEMMA FoundStep ==
    ASSUME InductiveInvariant, RoutingTypeOK, PortsRendered, [RoutingNext]_allVars,
           NEW s \in Service, NEW i \in Instance,
           activeCache'[s] = i, state'[i] = "running", launch'[i] = "launched"
    PROVE  \/ activeCache[s] = i /\ state[i] = "running" /\ launch[i] = "launched"
           \/ table'[s] # None
<1> DEFINE Found == activeCache[s] = i /\ state[i] = "running" /\ launch[i] = "launched"
<1> USE NoneAssumption DEF InductiveInvariant, TypeOK
<1>1. \/ hash[i] \in Service /\ port[i] \in Port /\ None \notin Port
      \/ launch[i] = "unused"
    BY PortAssumption DEF SpecKept, PortsRendered
<1>2. activeCache[s] = i => hash[i] = s /\ launch[i] # "unused"
    BY DEF NoGhostEntry, InstanceShape
<1>3. ASSUME NEW t \in Service, NEW j \in Instance, RouteRender(t, j) PROVE Found
    BY <1>3 DEF RouteRender, StartLaunches, RelaunchFires, HandlePendingEvent, processVars
<1>4. ASSUME NEW j \in Instance, RouteSpawn(j) PROVE Found \/ table'[s] # None
  <2>1. /\ launch[j] = "rendering"
        /\ activeCache' = [activeCache EXCEPT ![hash[j]] = j]
        /\ state' = [state EXCEPT ![j] = "running"]
        /\ launch' = [launch EXCEPT ![j] = IF HasHealth(j) THEN "verifying" ELSE "launched"]
        /\ table' = IF HasHealth(j) THEN table ELSE [table EXCEPT ![hash[j]] = port[j]]
      BY <1>4 DEF RouteSpawn, Spawns, AnnounceOrVerify, HandleNewService, AddServiceRoute
  <2>2. CASE i = j
      BY <1>1, <1>2, <2>1, <2>2 DEF RoutingTypeOK
  <2>3. CASE i # j
      BY <2>1, <2>3
  <2> QED
      BY <2>2, <2>3
<1>5. ASSUME NEW j \in Instance, RouteSpawnFailure(j) PROVE Found
  <2>1. /\ activeCache' = [activeCache EXCEPT ![hash[j]] = None]
        /\ state' = [state EXCEPT ![j] = "stopped"]
        /\ \E l \in LaunchStatus : launch' = [launch EXCEPT ![j] = l]
      BY <1>5 DEF RouteSpawnFailure, SpawnFails, CleanupService, AnnounceOrVerify, LaunchStatus
  <2> QED
      BY <2>1
<1>6. ASSUME NEW j \in Instance, RouteVerification(j) PROVE Found \/ table'[s] # None
  <2>1. /\ UNCHANGED <<activeCache, state>>
        /\ launch[j] = "verifying"
        /\ launch' = [launch EXCEPT ![j] = "launched"]
        /\ table' = [table EXCEPT ![hash[j]] = port[j]]
      BY <1>6 DEF RouteVerification, ConcludeVerification, cacheVars, processVars,
                  HandleNewService, AddServiceRoute
  <2>2. CASE i = j
      BY <1>1, <1>2, <2>1, <2>2 DEF RoutingTypeOK
  <2>3. CASE i # j
      BY <2>1, <2>3
  <2> QED
      BY <2>2, <2>3
<1>7. ASSUME NEW j \in Instance, RouteExit(j) PROVE Found
    BY <1>7 DEF RouteExit, ExitHandled, CleanupService, launchVars
<1>8. ASSUME NEW t \in Service, QuietServiceStep(t) PROVE Found
    BY <1>8 DEF QuietServiceStep, StopService, StartRejected, StartReturnsRunning,
                CleanupService, cacheVars, launchVars, processVars
<1>9. ASSUME NEW j \in Instance, QuietInstanceStep(j) PROVE Found
    BY <1>9 DEF QuietInstanceStep, SpawnThrows, RenderFails, VerificationThrows,
                HealthTimerFires, ProbeEnds, HealthProbe, HealthProbeThrows, ExitIgnored,
                ProcessCrashes, ProcessHangs, ProcessObeys, cacheVars, launchVars, processVars
<1>10. CASE UNCHANGED allVars
    BY <1>10 DEF allVars, vars, cacheVars, launchVars, processVars
<1> QED
    BY <1>3, <1>4, <1>5, <1>6, <1>7, <1>8, <1>9, <1>10 DEF RoutingNext

\* The route of an announced, running, recorded instance is set when it becomes
\* that, and is taken away only with the record.
LEMMA RoutedStep ==
    ASSUME InductiveInvariant, RoutingTypeOK, PortsRendered, Routed,
           [RoutingNext]_allVars
    PROVE  Routed'
<1> SUFFICES ASSUME NEW s \in Service, activeCache'[s] # None,
                    state'[activeCache'[s]] = "running", launch'[activeCache'[s]] = "launched",
                    table'[s] = None
             PROVE  FALSE
    BY DEF Routed
<1>1. activeCache'[s] \in Instance
    BY TypeStep, RoutingStepIsStep DEF InductiveInvariant, TypeOK
<1>2. table[s] # None
    BY <1>1, FoundStep DEF Routed, InductiveInvariant, TypeOK
<1>3. PICK j \in Instance : hash[j] \in Service /\ (Announces(j) \/ Withdraws(j))
    BY <1>2, TableStep
<1>4. hash[j] = s
    BY <1>2, <1>3 DEF Announces, Withdraws, RoutingTypeOK
<1>5. port[j] # None
    BY <1>3, PortAssumption DEF PortsRendered, Announces, Withdraws
<1> QED
    BY <1>3, <1>4, <1>5 DEF Announces, Withdraws, RoutingTypeOK, InductiveInvariant, TypeOK

-----------------------------------------------------------------------------
(* The theorems. *)

\* The invariant of the table, beside that of the manager, is inductive.
THEOREM RoutingInvariance == RoutingSpec => [](InductiveInvariant /\ RoutingInvariant)
<1>1. RoutingInit => RoutingInvariant
    BY NoneAssumption, PortAssumption
       DEF RoutingInit, Init, RoutingInvariant, RoutingTypeOK, PortsRendered,
           RouteWasAnnounced, Routed
<1>2. InductiveInvariant /\ RoutingInvariant /\ [RoutingNext]_allVars => RoutingInvariant'
    BY RoutingTypeStep, AnnouncedStep, RoutedStep DEF RoutingInvariant
<1> QED
    BY <1>1, <1>2, RoutingKeepsManager, Invariance, PTL DEF RoutingSpec

\* Ports and routes keep their types.
THEOREM RoutingTypeCorrect == RoutingSpec => []RoutingTypeOK
    BY RoutingInvariance, PTL DEF RoutingInvariant

\* A path resolves only to a port that an instance of its service announced.
THEOREM RouteWasAnnouncedHolds == RoutingSpec => []RouteWasAnnounced
    BY RoutingInvariance, PTL DEF RoutingInvariant

\* The path of a service that is recorded, running and announced has a route.
THEOREM RoutedHolds == RoutingSpec => []Routed
    BY RoutingInvariance, PTL DEF RoutingInvariant

\* A service whose route is taken away is owed a relaunch.
THEOREM RouteLossOwedHolds == RoutingSpec => RouteLossOwed
<1>1. ASSUME InductiveInvariant, RoutingInvariant, [RoutingNext]_allVars PROVE LossIsOwed
  <2> SUFFICES ASSUME NEW s \in Service, table[s] # None, table'[s] = None
               PROVE  relaunch'[s] = relaunch[s] + 1
      BY DEF LossIsOwed
  <2>1. PICK i \in Instance : hash[i] \in Service /\ (Announces(i) \/ Withdraws(i))
      BY <1>1, TableStep DEF RoutingInvariant
  <2>2. hash[i] = s
      BY <1>1, <2>1 DEF Announces, Withdraws, RoutingInvariant, RoutingTypeOK
  <2>3. port[i] # None
      BY <1>1, <2>1, PortAssumption DEF PortsRendered, RoutingInvariant, Announces, Withdraws
  <2> QED
      BY <1>1, <2>1, <2>2, <2>3 DEF Announces, Withdraws, ArmRelaunch, RoutingInvariant,
         RoutingTypeOK, InductiveInvariant, TypeOK
<1> QED
    BY <1>1, RoutingInvariance, PTL DEF RoutingSpec, RouteLossOwed

=============================================================================
