------------------------ MODULE ServiceLifecycleProofs ------------------------
(***************************************************************************)
(* The ServiceProcessManager follows ServiceLifecycle: initial states map  *)
(* to initial states, every step to a step or to a stutter.                *)
(***************************************************************************)
EXTENDS ServiceProcessManagerProofs

\* A step that leaves the launches, the states and the record alone is a stutter of
\* the life cycle.
LEMMA PhaseFrame ==
    ASSUME UNCHANGED <<launch, hash, state, activeCache, relaunch>>
    PROVE  UNCHANGED Lifecycle!vars
    BY DEF Lifecycle!vars, Phase

\* How one instance changing its phase shows in the mapped state.
LEMMA PhaseUpdate ==
    ASSUME NEW i \in Instance, NEW p, Phase(i)' = p,
           \A j \in Instance \ {i} : launch'[j] = launch[j] /\ state'[j] = state[j]
    PROVE  [j \in Instance |-> Phase(j)]' = [[j \in Instance |-> Phase(j)] EXCEPT ![i] = p]
<1>1. \A j \in Instance \ {i} : Phase(j)' = Phase(j)
    BY DEF Phase
<1> QED
    BY <1>1

\* Every step of the manager is a step or a stutter of the life cycle.
LEMMA LifecycleStep ==
    ASSUME InductiveInvariant, [Next]_vars
    PROVE  [Lifecycle!Next]_Lifecycle!vars
<1> USE DEF InductiveInvariant, TypeOK
<1>1. ASSUME NEW r \in Request, NEW s \in Service, NEW i \in Instance, StartLaunches(r, s, i)
      PROVE  Lifecycle!Start(s, i)
  <2>1. Phase(i) = "new" /\ Phase(i)' = "pending"
      BY <1>1 DEF StartLaunches, HandlePendingEvent, Phase
  <2>2. \A j \in Instance \ {i} : launch'[j] = launch[j] /\ state'[j] = state[j]
      BY <1>1 DEF StartLaunches, HandlePendingEvent, processVars
  <2> QED
      BY <1>1, <2>1, <2>2, PhaseUpdate
         DEF StartLaunches, HandlePendingEvent, Lifecycle!Start, Lifecycle!Pend
<1>2. ASSUME NEW s \in Service, NEW i \in Instance, RelaunchFires(s, i)
      PROVE  Lifecycle!Relaunch(s, i)
  <2>1. Phase(i) = "new" /\ Phase(i)' = "pending"
      BY <1>2 DEF RelaunchFires, HandlePendingEvent, Phase
  <2>2. \A j \in Instance \ {i} : launch'[j] = launch[j] /\ state'[j] = state[j]
      BY <1>2 DEF RelaunchFires, HandlePendingEvent, processVars
  <2> QED
      BY <1>2, <2>1, <2>2, PhaseUpdate
         DEF RelaunchFires, HandlePendingEvent, Lifecycle!Relaunch, Lifecycle!Pend
<1>3. ASSUME NEW i \in Instance, RenderFails(i) PROVE Lifecycle!GiveUp(i)
  <2>1. Phase(i) = "pending" /\ Phase(i)' = "lost"
      BY <1>3 DEF RenderFails, Phase
  <2>2. \A j \in Instance \ {i} : launch'[j] = launch[j] /\ state'[j] = state[j]
      BY <1>3 DEF RenderFails, processVars
  <2> QED
      BY <1>3, <2>1, <2>2, PhaseUpdate DEF RenderFails, cacheVars, Lifecycle!GiveUp
<1>4. ASSUME NEW i \in Instance, SpawnThrows(i) PROVE Lifecycle!GiveUp(i)
  <2>1. Phase(i) = "pending" /\ Phase(i)' = "lost"
      BY <1>4 DEF SpawnThrows, Phase
  <2>2. \A j \in Instance \ {i} : launch'[j] = launch[j] /\ state'[j] = state[j]
      BY <1>4 DEF SpawnThrows
  <2> QED
      BY <1>4, <2>1, <2>2, PhaseUpdate DEF SpawnThrows, Lifecycle!GiveUp
<1>5. ASSUME NEW i \in Instance, Spawns(i) PROVE Lifecycle!Run(i)
  <2>1. Phase(i) = "pending" /\ Phase(i)' = "running"
      BY <1>5 DEF Spawns, AnnounceOrVerify, Phase
  <2>2. \A j \in Instance \ {i} : launch'[j] = launch[j] /\ state'[j] = state[j]
      BY <1>5 DEF Spawns, AnnounceOrVerify
  <2> QED
      BY <1>5, <2>1, <2>2, PhaseUpdate DEF Spawns, Lifecycle!Run
<1>6. ASSUME NEW i \in Instance, SpawnFails(i) PROVE Lifecycle!Fail(i)
  <2>1. Phase(i) = "pending" /\ Phase(i)' = "gone"
      BY <1>6 DEF SpawnFails, AnnounceOrVerify, CleanupService, Phase
  <2>2. \A j \in Instance \ {i} : launch'[j] = launch[j] /\ state'[j] = state[j]
      BY <1>6 DEF SpawnFails, AnnounceOrVerify, CleanupService
  <2> QED
      BY <1>6, <2>1, <2>2, PhaseUpdate
         DEF SpawnFails, CleanupService, ArmRelaunch, Lifecycle!Fail
<1>7. ASSUME NEW i \in Instance, ExitHandled(i) PROVE Lifecycle!Exit(i)
  <2>1. launch[i] \in {"verifying", "launched", "unverified"}
      BY <1>7 DEF ExitHandled, Dead, InstanceShape, LaunchStatus
  <2>2. Phase(i) \in {"running", "gone"} /\ Phase(i)' = "gone"
      BY <1>7, <2>1 DEF ExitHandled, CleanupService, launchVars, Phase
  <2>3. \A j \in Instance \ {i} : launch'[j] = launch[j] /\ state'[j] = state[j]
      BY <1>7 DEF ExitHandled, CleanupService, launchVars
  <2>4. hash[i] \in Service
      BY <2>1 DEF SpecKept
  <2>5. CASE activeCache[hash[i]] = i
    <3>1. state[i] = "running"
        BY <1>7, <2>4, <2>5, NoneAssumption DEF ExitHandled, Dead, NoGhostEntry
    <3>2. Phase(i) = "running"
        BY <2>1, <3>1 DEF Phase
    <3> QED
        BY <1>7, <2>2, <2>3, <2>5, <3>2, PhaseUpdate
           DEF ExitHandled, HandlesExit, CleanupService, ArmRelaunch, launchVars, Lifecycle!Exit
  <2>6. CASE activeCache[hash[i]] # i
    <3>1. /\ activeCache[hash[i]] \in Instance
          /\ launch[activeCache[hash[i]]] = "broken"
        BY <1>7, <2>4, <2>6 DEF ExitHandled, HandlesExit, NoGhostEntry
    <3>2. Phase(activeCache[hash[i]]) = "lost"
        BY <3>1 DEF Phase
    <3> QED
        BY <1>7, <2>2, <2>3, <3>1, <3>2, PhaseUpdate, NoneAssumption
           DEF ExitHandled, CleanupService, ArmRelaunch, launchVars, Lifecycle!Exit
  <2> QED
      BY <2>5, <2>6
<1>8. ASSUME NEW s \in Service, StopService(s)
      PROVE  activeCache[s] \in Instance /\ Lifecycle!Stop(activeCache[s])
  <2>1. /\ activeCache[s] \in Instance
        /\ hash[activeCache[s]] = s
        /\ state[activeCache[s]] = "running"
      BY <1>8 DEF StopService, NoGhostEntry
  <2>2. launch[activeCache[s]] \in {"verifying", "launched", "unverified"}
      BY <1>8, <2>1 DEF StopService, InstanceShape, LaunchStatus
  <2>3. Phase(activeCache[s]) = "running"
      BY <2>1, <2>2 DEF Phase
  <2>4. PICK i \in Instance : i = activeCache[s]
      BY <2>1
  <2>5. Phase(i)' = "gone"
      BY <1>8, <2>2, <2>4 DEF StopService, CleanupService, launchVars, Phase
  <2>6. \A j \in Instance \ {i} : launch'[j] = launch[j] /\ state'[j] = state[j]
      BY <1>8, <2>4 DEF StopService, CleanupService, launchVars
  <2>7. Lifecycle!Stop(i)
      BY <1>8, <2>1, <2>3, <2>4, <2>5, <2>6, PhaseUpdate
         DEF StopService, CleanupService, launchVars, Lifecycle!Stop
  <2> QED
      BY <2>4, <2>7
<1>9. ASSUME NEW i \in Instance, VerificationEnds(i) PROVE UNCHANGED Lifecycle!vars
  <2>1. /\ launch[i] = "verifying"
        /\ launch'[i] \in {"launched", "unverified"}
        /\ \A j \in Instance \ {i} : launch'[j] = launch[j]
        /\ UNCHANGED <<hash, state, activeCache, relaunch>>
      BY <1>9 DEF VerificationEnds, ConcludeVerification, VerificationThrows, cacheVars,
                  processVars
  <2>2. \A j \in Instance : Phase(j)' = Phase(j)
      BY <2>1 DEF Phase
  <2> QED
      BY <2>1, <2>2 DEF Lifecycle!vars
<1>10. ASSUME NEW i \in Instance,
              \/ HealthTimerFires(i) \/ ProbeEnds(i) \/ ExitIgnored(i)
              \/ ProcessCrashes(i) \/ ProcessHangs(i) \/ ProcessObeys(i)
       PROVE  UNCHANGED Lifecycle!vars
    BY <1>10, PhaseFrame
       DEF HealthTimerFires, ProbeEnds, HealthProbe, HealthProbeThrows, ExitIgnored,
           ProcessCrashes, ProcessHangs, ProcessObeys, launchVars, cacheVars, processVars
<1>11. ASSUME NEW s \in Service, NEW r \in Request,
              StartRejected(r, s) \/ StartReturnsRunning(r, s)
       PROVE  UNCHANGED Lifecycle!vars
    BY <1>11, PhaseFrame
       DEF StartRejected, StartReturnsRunning, launchVars, cacheVars, processVars
<1>12. CASE UNCHANGED vars
    BY <1>12, PhaseFrame DEF vars, launchVars, cacheVars, processVars
<1> QED
    BY <1>1, <1>2, <1>3, <1>4, <1>5, <1>6, <1>7, <1>8, <1>9, <1>10, <1>11, <1>12
       DEF Next, ServiceStep, InstanceStep, RenderEnds, ExitDelivered, Lifecycle!Next,
           Lifecycle!Resolve

\* The manager implements the safety part of the life cycle it documents.
THEOREM FollowsLifecycleHolds == Spec => FollowsLifecycle
<1>1. Init => Lifecycle!Init
    BY DEF Init, Lifecycle!Init, Phase
<1> QED
    BY <1>1, LifecycleStep, Invariance, PTL DEF Spec, FollowsLifecycle, Lifecycle!Spec
=============================================================================
