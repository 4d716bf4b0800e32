--------------------- MODULE ServiceProcessManagerProofs ---------------------
(***************************************************************************)
(* Proofs about ServiceProcessManager, for every set of services,          *)
(* instances and requests, every number of retries and every set of        *)
(* faults.                                                                 *)
(***************************************************************************)
EXTENDS ServiceProcessManager, TLAPS

-----------------------------------------------------------------------------
(* Type correctness. *)

\* Arming a timer keeps the counts natural numbers, whatever it is armed for.
LEMMA ArmRelaunchType ==
    ASSUME relaunch \in [Service -> Nat], NEW s, ArmRelaunch(s)
    PROVE  relaunch' \in [Service -> Nat]
<1>1. CASE s \in Service
    BY <1>1 DEF ArmRelaunch
<1>2. CASE s \notin Service
  <2>1. \A t \in Service : relaunch'[t] = relaunch[t]
      BY <1>2 DEF ArmRelaunch
  <2>2. relaunch' = [t \in Service |-> relaunch'[t]]
      BY DEF ArmRelaunch
  <2> QED
      BY <2>1, <2>2
<1> QED
    BY <1>1, <1>2

\* The typing of all variables is inductive by itself.
LEMMA TypeStep == TypeOK /\ [Next]_vars => TypeOK'
<1> SUFFICES ASSUME TypeOK, [Next]_vars PROVE TypeOK'
    OBVIOUS
<1> USE ProbedAssumption, BoundAssumption DEF TypeOK, CallStatus, LaunchStatus, State,
        ProcessState, ProbeState
<1>1. ASSUME NEW r \in Request, NEW s \in Service, StartRejected(r, s) PROVE TypeOK'
    BY <1>1 DEF StartRejected, cacheVars, launchVars, processVars, healthVars, historyVars
<1>2. ASSUME NEW r \in Request, NEW s \in Service, StartReturnsRunning(r, s) PROVE TypeOK'
    BY <1>2 DEF StartReturnsRunning, cacheVars, launchVars, processVars, healthVars
<1>3. ASSUME NEW r \in Request, NEW s \in Service, NEW i \in Instance, StartLaunches(r, s, i)
      PROVE TypeOK'
    BY <1>3 DEF StartLaunches, AddServiceSpec, HandlePendingEvent, processVars, healthVars
<1>4. ASSUME NEW s \in Service, StopService(s) PROVE TypeOK'
    BY <1>4 DEF StopService, CleanupService, Closed, callVars, launchVars, healthVars
<1>5. ASSUME NEW s \in Service, NEW i \in Instance, RelaunchFires(s, i) PROVE TypeOK'
    BY <1>5 DEF RelaunchFires, HandlePendingEvent, callVars, processVars, healthVars,
                historyVars
<1>6. ASSUME NEW i \in Instance, RenderFails(i) PROVE TypeOK'
    BY <1>6 DEF RenderFails, Injects, callVars, cacheVars, processVars, healthVars
<1>7. ASSUME NEW i \in Instance, SpawnThrows(i) PROVE TypeOK'
  <2>1. activeCache' \in [Service -> Instance \cup {None}]
      BY <1>7 DEF SpawnThrows
  <2>2. faults' \in 0..MaxFaults
      BY <1>7 DEF SpawnThrows, Injects
  <2>3. launch' \in [Instance -> LaunchStatus] /\ state' \in [Instance -> State]
      BY <1>7 DEF SpawnThrows
  <2> QED
      BY <1>7, <2>1, <2>2, <2>3 DEF SpawnThrows, callVars, healthVars
<1>8. ASSUME NEW i \in Instance, Spawns(i) PROVE TypeOK'
    BY <1>8 DEF Spawns, HealthLoop, AnnounceOrVerify, EmitLaunched, historyVars
<1>9. ASSUME NEW i \in Instance, SpawnFails(i) PROVE TypeOK'
  <2>1. activeCache' \in [Service -> Instance \cup {None}] /\ state' \in [Instance -> State]
      BY <1>9 DEF SpawnFails, CleanupService
  <2>2. relaunch' \in [Service -> Nat]
      BY <1>9, ArmRelaunchType DEF SpawnFails
  <2>3. faults' \in 0..MaxFaults
      BY <1>9 DEF SpawnFails, Injects
  <2>4. /\ call' \in [Request -> CallStatus]
        /\ answer' \in [Request -> Instance \cup {None}]
        /\ launch' \in [Instance -> LaunchStatus]
      BY <1>9 DEF SpawnFails, AnnounceOrVerify, EmitLaunched
  <2>5. /\ process' \in [Instance -> ProcessState]
        /\ attached' \in [Instance -> BOOLEAN]
        /\ probe' \in [Instance -> ProbeState]
      BY <1>9 DEF SpawnFails, HealthLoop
  <2> QED
      BY <1>9, <2>1, <2>2, <2>3, <2>4, <2>5 DEF SpawnFails
<1>10. ASSUME NEW i \in Instance, NEW o \in ProbeOutcome, ConcludeVerification(i, o)
       PROVE TypeOK'
    BY <1>10 DEF ConcludeVerification, EmitLaunched, cacheVars, processVars, healthVars
<1>11. ASSUME NEW i \in Instance, VerificationThrows(i) PROVE TypeOK'
    BY <1>11 DEF VerificationThrows, callVars, cacheVars, processVars, healthVars, historyVars
<1>12. ASSUME NEW i \in Instance, HealthTimerFires(i) PROVE TypeOK'
    BY <1>12 DEF HealthTimerFires, callVars, cacheVars, launchVars, processVars, historyVars
<1>13. ASSUME NEW i \in Instance, NEW o \in ProbeOutcome, HealthProbe(i, o) PROVE TypeOK'
    BY <1>13 DEF HealthProbe, NewRetries, JudgeHealth, HealthLoop, Injects, callVars, cacheVars,
                 launchVars, processVars
<1>14. ASSUME NEW i \in Instance, HealthProbeThrows(i) PROVE TypeOK'
    BY <1>14 DEF HealthProbeThrows, callVars, cacheVars, launchVars, processVars, historyVars
<1>15. ASSUME NEW i \in Instance, ExitIgnored(i) PROVE TypeOK'
    BY <1>15 DEF ExitIgnored, Closed, callVars, cacheVars, launchVars, healthVars, historyVars
<1>16. ASSUME NEW i \in Instance, ExitHandled(i) PROVE TypeOK'
  <2>1. activeCache' \in [Service -> Instance \cup {None}] /\ state' \in [Instance -> State]
      BY <1>16 DEF ExitHandled, CleanupService
  <2>2. relaunch' \in [Service -> Nat]
      BY <1>16, ArmRelaunchType DEF ExitHandled
  <2> QED
      BY <1>16, <2>1, <2>2 DEF ExitHandled, Closed, callVars, launchVars, healthVars, historyVars
<1>17. ASSUME NEW i \in Instance, ProcessCrashes(i) PROVE TypeOK'
    BY <1>17 DEF ProcessCrashes, Injects, Ended, callVars, cacheVars, launchVars, healthVars
<1>18. ASSUME NEW i \in Instance, ProcessHangs(i) PROVE TypeOK'
    BY <1>18 DEF ProcessHangs, Injects, callVars, cacheVars, launchVars, healthVars
<1>19. ASSUME NEW i \in Instance, ProcessObeys(i) PROVE TypeOK'
    BY <1>19 DEF ProcessObeys, Ended, callVars, cacheVars, launchVars, healthVars, historyVars
<1>20. CASE UNCHANGED vars
    BY <1>20 DEF vars, callVars, cacheVars, launchVars, processVars, healthVars, historyVars
<1> QED
    BY <1>1, <1>2, <1>3, <1>4, <1>5, <1>6, <1>7, <1>8, <1>9, <1>10, <1>11, <1>12, <1>13,
       <1>14, <1>15, <1>16, <1>17, <1>18, <1>19, <1>20
       DEF Next, ServiceStep, InstanceStep, RenderEnds, VerificationEnds, ProbeEnds,
           ExitDelivered

\* The initial caches, launches and processes are well typed.
LEMMA InitTyped == Init => TypeOK
    BY BoundAssumption DEF Init, TypeOK, CallStatus, LaunchStatus, State, ProcessState,
                           ProbeState

\* Every variable keeps its type: TypeOK is an invariant of the specification.
THEOREM TypeCorrect == Spec => []TypeOK
    BY InitTyped, TypeStep, PTL DEF Spec

-----------------------------------------------------------------------------
(* The inductive invariant, one conjunct at a time. *)

\* The stage of a launch determines what there is of the instance: only the
\* step that ends the render gives it a child, a state and a health loop.
LEMMA ShapeStep ==
    ASSUME TypeOK, InstanceShape, NoGhostEntry, [Next]_vars
    PROVE  InstanceShape'
<1> USE NoneAssumption DEF TypeOK, InstanceShape, NoGhostEntry
<1>1. ASSUME NEW r \in Request, NEW s \in Service, StartRejected(r, s) PROVE
    InstanceShape'
    BY <1>1 DEF StartRejected, cacheVars, launchVars, processVars, healthVars,
        historyVars
<1>2. ASSUME NEW r \in Request, NEW s \in Service, StartReturnsRunning(r, s) PROVE
    InstanceShape'
    BY <1>2 DEF StartReturnsRunning, Reusable, cacheVars, launchVars, processVars,
        healthVars
<1>3. ASSUME NEW r \in Request, NEW s \in Service, NEW i \in Instance, StartLaunches(r,
    s, i) PROVE InstanceShape'
    BY <1>3 DEF StartLaunches, AddServiceSpec, HandlePendingEvent, processVars,
        healthVars
<1>4. ASSUME NEW s \in Service, StopService(s) PROVE InstanceShape'
    BY <1>4 DEF StopService, CleanupService, Closed, Live, callVars, launchVars, healthVars
<1>5. ASSUME NEW s \in Service, NEW i \in Instance, RelaunchFires(s, i) PROVE
    InstanceShape'
    BY <1>5 DEF RelaunchFires, HandlePendingEvent, callVars, processVars, healthVars,
        historyVars
<1>6. ASSUME NEW i \in Instance, RenderFails(i) PROVE InstanceShape'
    BY <1>6 DEF RenderFails, callVars, cacheVars, processVars, healthVars
<1>7. ASSUME NEW i \in Instance, SpawnThrows(i) PROVE InstanceShape'
    BY <1>7 DEF SpawnThrows, callVars, healthVars
<1>8. ASSUME NEW i \in Instance, Spawns(i) PROVE InstanceShape'
    BY <1>8 DEF Spawns, HealthLoop, HasHealth, AnnounceOrVerify, EmitLaunched,
        historyVars
<1>9. ASSUME NEW i \in Instance, SpawnFails(i) PROVE InstanceShape'
    BY <1>9 DEF SpawnFails, CleanupService, ArmRelaunch, HealthLoop, HasHealth,
        AnnounceOrVerify, EmitLaunched
<1>10. ASSUME NEW i \in Instance, NEW o \in ProbeOutcome, ConcludeVerification(i, o)
    PROVE InstanceShape'
    BY <1>10 DEF ConcludeVerification, EmitLaunched, cacheVars, processVars, healthVars
<1>11. ASSUME NEW i \in Instance, VerificationThrows(i) PROVE InstanceShape'
    BY <1>11 DEF VerificationThrows, callVars, cacheVars, processVars, healthVars,
        historyVars
<1>12. ASSUME NEW i \in Instance, HealthTimerFires(i) PROVE InstanceShape'
    BY <1>12 DEF HealthTimerFires, callVars, cacheVars, launchVars, processVars,
        historyVars
<1>13. ASSUME NEW i \in Instance, NEW o \in ProbeOutcome, HealthProbe(i, o) PROVE
    InstanceShape'
    BY <1>13 DEF HealthProbe, NewRetries, JudgeHealth, HealthLoop, HasHealth, Live,
        callVars, cacheVars, launchVars, processVars
<1>14. ASSUME NEW i \in Instance, HealthProbeThrows(i) PROVE InstanceShape'
    BY <1>14 DEF HealthProbeThrows, callVars, cacheVars, launchVars, processVars,
        historyVars
<1>15. ASSUME NEW i \in Instance, ExitIgnored(i) PROVE InstanceShape'
    BY <1>15 DEF ExitIgnored, Closed, Dead, HandlesExit, callVars, cacheVars, launchVars,
        healthVars, historyVars
<1>16. ASSUME NEW i \in Instance, ExitHandled(i) PROVE InstanceShape'
    BY <1>16 DEF ExitHandled, Closed, Dead, HandlesExit, CleanupService, ArmRelaunch, callVars,
        launchVars, healthVars, historyVars
<1>17. ASSUME NEW i \in Instance, ProcessCrashes(i) PROVE InstanceShape'
    BY <1>17 DEF ProcessCrashes, Live, Ended, callVars, cacheVars, launchVars,
        healthVars
<1>18. ASSUME NEW i \in Instance, ProcessHangs(i) PROVE InstanceShape'
    BY <1>18 DEF ProcessHangs, callVars, cacheVars, launchVars, healthVars
<1>19. ASSUME NEW i \in Instance, ProcessObeys(i) PROVE InstanceShape'
    BY <1>19 DEF ProcessObeys, Live, Ended, callVars, cacheVars, launchVars, healthVars,
        historyVars
<1>20. CASE UNCHANGED vars
    BY <1>20 DEF vars, callVars, cacheVars, launchVars, processVars, healthVars, historyVars
<1> QED BY <1>1, <1>2, <1>3, <1>4, <1>5, <1>6, <1>7, <1>8, <1>9, <1>10, <1>11, <1>12,
    <1>13, <1>14, <1>15, <1>16, <1>17, <1>18, <1>19, <1>20 DEF Next, ServiceStep,
    InstanceStep, RenderEnds, VerificationEnds, ProbeEnds, ExitDelivered

\* The stored specifications: an emitter belongs to one start, hence to one
\* service, because a start uses a request that was idle.
LEMMA SpecStep ==
    ASSUME TypeOK, InstanceShape, SpecKept, NoGhostEntry, [Next]_vars
    PROVE  SpecKept'
<1> USE NoneAssumption DEF TypeOK, InstanceShape, SpecKept
<1>1. ASSUME NEW r \in Request, NEW s \in Service, StartRejected(r, s) PROVE SpecKept'
    BY <1>1 DEF StartRejected, cacheVars, launchVars, processVars, healthVars,
        historyVars
<1>2. ASSUME NEW r \in Request, NEW s \in Service, StartReturnsRunning(r, s) PROVE
    SpecKept'
    BY <1>2 DEF StartReturnsRunning, Reusable, cacheVars, launchVars, processVars,
        healthVars
<1>3. ASSUME NEW r \in Request, NEW s \in Service, NEW i \in Instance, StartLaunches(r,
    s, i) PROVE SpecKept'
    BY <1>3 DEF StartLaunches, AddServiceSpec, HandlePendingEvent, processVars,
        healthVars
<1>4. ASSUME NEW s \in Service, StopService(s) PROVE SpecKept'
    BY <1>4 DEF StopService, CleanupService, Closed, Live, callVars, launchVars, healthVars
<1>5. ASSUME NEW s \in Service, NEW i \in Instance, RelaunchFires(s, i) PROVE SpecKept'
    BY <1>5 DEF RelaunchFires, HandlePendingEvent, callVars, processVars, healthVars,
        historyVars
<1>6. ASSUME NEW i \in Instance, RenderFails(i) PROVE SpecKept'
    BY <1>6 DEF RenderFails, callVars, cacheVars, processVars, healthVars
<1>7. ASSUME NEW i \in Instance, SpawnThrows(i) PROVE SpecKept'
    BY <1>7 DEF SpawnThrows, callVars, healthVars
<1>8. ASSUME NEW i \in Instance, Spawns(i) PROVE SpecKept'
    BY <1>8 DEF Spawns, HealthLoop, HasHealth, AnnounceOrVerify, EmitLaunched,
        historyVars
<1>9. ASSUME NEW i \in Instance, SpawnFails(i) PROVE SpecKept'
    BY <1>9 DEF SpawnFails, CleanupService, ArmRelaunch, HealthLoop, HasHealth,
        AnnounceOrVerify, EmitLaunched
<1>10. ASSUME NEW i \in Instance, NEW o \in ProbeOutcome, ConcludeVerification(i, o)
    PROVE SpecKept'
    BY <1>10 DEF ConcludeVerification, EmitLaunched, cacheVars, processVars, healthVars
<1>11. ASSUME NEW i \in Instance, VerificationThrows(i) PROVE SpecKept'
    BY <1>11 DEF VerificationThrows, callVars, cacheVars, processVars, healthVars,
        historyVars
<1>12. ASSUME NEW i \in Instance, HealthTimerFires(i) PROVE SpecKept'
    BY <1>12 DEF HealthTimerFires, callVars, cacheVars, launchVars, processVars,
        historyVars
<1>13. ASSUME NEW i \in Instance, NEW o \in ProbeOutcome, HealthProbe(i, o) PROVE
    SpecKept'
    BY <1>13 DEF HealthProbe, NewRetries, JudgeHealth, HealthLoop, HasHealth, Live,
        callVars, cacheVars, launchVars, processVars
<1>14. ASSUME NEW i \in Instance, HealthProbeThrows(i) PROVE SpecKept'
    BY <1>14 DEF HealthProbeThrows, callVars, cacheVars, launchVars, processVars,
        historyVars
<1>15. ASSUME NEW i \in Instance, ExitIgnored(i) PROVE SpecKept'
    BY <1>15 DEF ExitIgnored, Closed, Dead, HandlesExit, callVars, cacheVars, launchVars,
        healthVars, historyVars
<1>16. ASSUME NEW i \in Instance, ExitHandled(i) PROVE SpecKept'
    BY <1>16 DEF ExitHandled, Closed, Dead, HandlesExit, CleanupService, ArmRelaunch, callVars,
        launchVars, healthVars, historyVars
<1>17. ASSUME NEW i \in Instance, ProcessCrashes(i) PROVE SpecKept'
    BY <1>17 DEF ProcessCrashes, Live, Ended, callVars, cacheVars, launchVars,
        healthVars
<1>18. ASSUME NEW i \in Instance, ProcessHangs(i) PROVE SpecKept'
    BY <1>18 DEF ProcessHangs, callVars, cacheVars, launchVars, healthVars
<1>19. ASSUME NEW i \in Instance, ProcessObeys(i) PROVE SpecKept'
    BY <1>19 DEF ProcessObeys, Live, Ended, callVars, cacheVars, launchVars, healthVars,
        historyVars
<1>20. CASE UNCHANGED vars
    BY <1>20 DEF vars, callVars, cacheVars, launchVars, processVars, healthVars, historyVars
<1> QED BY <1>1, <1>2, <1>3, <1>4, <1>5, <1>6, <1>7, <1>8, <1>9, <1>10, <1>11, <1>12,
    <1>13, <1>14, <1>15, <1>16, <1>17, <1>18, <1>19, <1>20 DEF Next, ServiceStep,
    InstanceStep, RenderEnds, VerificationEnds, ProbeEnds, ExitDelivered

\* The counts of the health cache: only the end of a probe changes them, and
\* a signalled instance has no probe.
LEMMA CountsStep ==
    ASSUME TypeOK, InstanceShape, CountsAgree, [Next]_vars
    PROVE  CountsAgree'
<1> USE DEF TypeOK, InstanceShape, CountsAgree
<1>1. ASSUME NEW r \in Request, NEW s \in Service, StartRejected(r, s) PROVE
    CountsAgree'
    BY <1>1 DEF StartRejected, cacheVars, launchVars, processVars, healthVars,
        historyVars
<1>2. ASSUME NEW r \in Request, NEW s \in Service, StartReturnsRunning(r, s) PROVE
    CountsAgree'
    BY <1>2 DEF StartReturnsRunning, Reusable, cacheVars, launchVars, processVars,
        healthVars
<1>3. ASSUME NEW r \in Request, NEW s \in Service, NEW i \in Instance, StartLaunches(r,
    s, i) PROVE CountsAgree'
    BY <1>3 DEF StartLaunches, AddServiceSpec, HandlePendingEvent, processVars,
        healthVars
<1>4. ASSUME NEW s \in Service, StopService(s) PROVE CountsAgree'
    BY <1>4 DEF StopService, CleanupService, Closed, Live, callVars, launchVars, healthVars
<1>5. ASSUME NEW s \in Service, NEW i \in Instance, RelaunchFires(s, i) PROVE
    CountsAgree'
    BY <1>5 DEF RelaunchFires, HandlePendingEvent, callVars, processVars, healthVars,
        historyVars
<1>6. ASSUME NEW i \in Instance, RenderFails(i) PROVE CountsAgree'
    BY <1>6 DEF RenderFails, callVars, cacheVars, processVars, healthVars
<1>7. ASSUME NEW i \in Instance, SpawnThrows(i) PROVE CountsAgree'
    BY <1>7 DEF SpawnThrows, callVars, healthVars
<1>8. ASSUME NEW i \in Instance, Spawns(i) PROVE CountsAgree'
    BY <1>8 DEF Spawns, HealthLoop, HasHealth, AnnounceOrVerify, EmitLaunched,
        historyVars
<1>9. ASSUME NEW i \in Instance, SpawnFails(i) PROVE CountsAgree'
    BY <1>9 DEF SpawnFails, CleanupService, ArmRelaunch, HealthLoop, HasHealth,
        AnnounceOrVerify, EmitLaunched
<1>10. ASSUME NEW i \in Instance, NEW o \in ProbeOutcome, ConcludeVerification(i, o)
    PROVE CountsAgree'
    BY <1>10 DEF ConcludeVerification, EmitLaunched, cacheVars, processVars, healthVars
<1>11. ASSUME NEW i \in Instance, VerificationThrows(i) PROVE CountsAgree'
    BY <1>11 DEF VerificationThrows, callVars, cacheVars, processVars, healthVars,
        historyVars
<1>12. ASSUME NEW i \in Instance, HealthTimerFires(i) PROVE CountsAgree'
    BY <1>12 DEF HealthTimerFires, callVars, cacheVars, launchVars, processVars,
        historyVars
<1>13. ASSUME NEW i \in Instance, NEW o \in ProbeOutcome, HealthProbe(i, o) PROVE
    CountsAgree'
    BY <1>13 DEF HealthProbe, NewRetries, JudgeHealth, HealthLoop, HasHealth, Live,
        callVars, cacheVars, launchVars, processVars
<1>14. ASSUME NEW i \in Instance, HealthProbeThrows(i) PROVE CountsAgree'
    BY <1>14 DEF HealthProbeThrows, callVars, cacheVars, launchVars, processVars,
        historyVars
<1>15. ASSUME NEW i \in Instance, ExitIgnored(i) PROVE CountsAgree'
    BY <1>15 DEF ExitIgnored, Closed, Dead, HandlesExit, callVars, cacheVars, launchVars,
        healthVars, historyVars
<1>16. ASSUME NEW i \in Instance, ExitHandled(i) PROVE CountsAgree'
    BY <1>16 DEF ExitHandled, Closed, Dead, HandlesExit, CleanupService, ArmRelaunch, callVars,
        launchVars, healthVars, historyVars
<1>17. ASSUME NEW i \in Instance, ProcessCrashes(i) PROVE CountsAgree'
    BY <1>17 DEF ProcessCrashes, Live, Ended, callVars, cacheVars, launchVars,
        healthVars
<1>18. ASSUME NEW i \in Instance, ProcessHangs(i) PROVE CountsAgree'
    BY <1>18 DEF ProcessHangs, callVars, cacheVars, launchVars, healthVars
<1>19. ASSUME NEW i \in Instance, ProcessObeys(i) PROVE CountsAgree'
    BY <1>19 DEF ProcessObeys, Live, Ended, callVars, cacheVars, launchVars, healthVars,
        historyVars
<1>20. CASE UNCHANGED vars
    BY <1>20 DEF vars, callVars, cacheVars, launchVars, processVars, healthVars, historyVars
<1> QED BY <1>1, <1>2, <1>3, <1>4, <1>5, <1>6, <1>7, <1>8, <1>9, <1>10, <1>11, <1>12,
    <1>13, <1>14, <1>15, <1>16, <1>17, <1>18, <1>19, <1>20 DEF Next, ServiceStep,
    InstanceStep, RenderEnds, VerificationEnds, ProbeEnds, ExitDelivered

\* A stop is earned: the count that reaches Retries is the number of failed
\* probes in a row.
LEMMA EarnedStep ==
    ASSUME TypeOK, CountsAgree, StopEarned, [Next]_vars
    PROVE  StopEarned'
<1> USE BoundAssumption DEF TypeOK, CountsAgree, StopEarned
<1>1. ASSUME NEW r \in Request, NEW s \in Service, StartRejected(r, s) PROVE StopEarned'
    BY <1>1 DEF StartRejected, cacheVars, launchVars, processVars, healthVars,
        historyVars
<1>2. ASSUME NEW r \in Request, NEW s \in Service, StartReturnsRunning(r, s) PROVE
    StopEarned'
    BY <1>2 DEF StartReturnsRunning, Reusable, cacheVars, launchVars, processVars,
        healthVars
<1>3. ASSUME NEW r \in Request, NEW s \in Service, NEW i \in Instance, StartLaunches(r,
    s, i) PROVE StopEarned'
    BY <1>3 DEF StartLaunches, AddServiceSpec, HandlePendingEvent, processVars,
        healthVars
<1>4. ASSUME NEW s \in Service, StopService(s) PROVE StopEarned'
    BY <1>4 DEF StopService, CleanupService, Closed, Live, callVars, launchVars, healthVars
<1>5. ASSUME NEW s \in Service, NEW i \in Instance, RelaunchFires(s, i) PROVE
    StopEarned'
    BY <1>5 DEF RelaunchFires, HandlePendingEvent, callVars, processVars, healthVars,
        historyVars
<1>6. ASSUME NEW i \in Instance, RenderFails(i) PROVE StopEarned'
    BY <1>6 DEF RenderFails, callVars, cacheVars, processVars, healthVars
<1>7. ASSUME NEW i \in Instance, SpawnThrows(i) PROVE StopEarned'
    BY <1>7 DEF SpawnThrows, callVars, healthVars
<1>8. ASSUME NEW i \in Instance, Spawns(i) PROVE StopEarned'
    BY <1>8 DEF Spawns, HealthLoop, HasHealth, AnnounceOrVerify, EmitLaunched,
        historyVars
<1>9. ASSUME NEW i \in Instance, SpawnFails(i) PROVE StopEarned'
    BY <1>9 DEF SpawnFails, CleanupService, ArmRelaunch, HealthLoop, HasHealth,
        AnnounceOrVerify, EmitLaunched
<1>10. ASSUME NEW i \in Instance, NEW o \in ProbeOutcome, ConcludeVerification(i, o)
    PROVE StopEarned'
    BY <1>10 DEF ConcludeVerification, EmitLaunched, cacheVars, processVars, healthVars
<1>11. ASSUME NEW i \in Instance, VerificationThrows(i) PROVE StopEarned'
    BY <1>11 DEF VerificationThrows, callVars, cacheVars, processVars, healthVars,
        historyVars
<1>12. ASSUME NEW i \in Instance, HealthTimerFires(i) PROVE StopEarned'
    BY <1>12 DEF HealthTimerFires, callVars, cacheVars, launchVars, processVars,
        historyVars
<1>13. ASSUME NEW i \in Instance, NEW o \in ProbeOutcome, HealthProbe(i, o) PROVE
    StopEarned'
    BY <1>13 DEF HealthProbe, NewRetries, JudgeHealth, HealthLoop, HasHealth, Live,
        callVars, cacheVars, launchVars, processVars
<1>14. ASSUME NEW i \in Instance, HealthProbeThrows(i) PROVE StopEarned'
    BY <1>14 DEF HealthProbeThrows, callVars, cacheVars, launchVars, processVars,
        historyVars
<1>15. ASSUME NEW i \in Instance, ExitIgnored(i) PROVE StopEarned'
    BY <1>15 DEF ExitIgnored, Closed, Dead, HandlesExit, callVars, cacheVars, launchVars,
        healthVars, historyVars
<1>16. ASSUME NEW i \in Instance, ExitHandled(i) PROVE StopEarned'
    BY <1>16 DEF ExitHandled, Closed, Dead, HandlesExit, CleanupService, ArmRelaunch, callVars,
        launchVars, healthVars, historyVars
<1>17. ASSUME NEW i \in Instance, ProcessCrashes(i) PROVE StopEarned'
    BY <1>17 DEF ProcessCrashes, Live, Ended, callVars, cacheVars, launchVars,
        healthVars
<1>18. ASSUME NEW i \in Instance, ProcessHangs(i) PROVE StopEarned'
    BY <1>18 DEF ProcessHangs, callVars, cacheVars, launchVars, healthVars
<1>19. ASSUME NEW i \in Instance, ProcessObeys(i) PROVE StopEarned'
    BY <1>19 DEF ProcessObeys, Live, Ended, callVars, cacheVars, launchVars, healthVars,
        historyVars
<1>20. CASE UNCHANGED vars
    BY <1>20 DEF vars, callVars, cacheVars, launchVars, processVars, healthVars, historyVars
<1> QED BY <1>1, <1>2, <1>3, <1>4, <1>5, <1>6, <1>7, <1>8, <1>9, <1>10, <1>11, <1>12,
    <1>13, <1>14, <1>15, <1>16, <1>17, <1>18, <1>19, <1>20 DEF Next, ServiceStep,
    InstanceStep, RenderEnds, VerificationEnds, ProbeEnds, ExitDelivered

\* The recorded instance is a live entry: exits that are not its own leave it
\* alone.
LEMMA NoGhostStep ==
    ASSUME TypeOK, InstanceShape, SpecKept, NoGhostEntry, [Next]_vars
    PROVE  NoGhostEntry'
<1> USE NoneAssumption DEF TypeOK, InstanceShape, SpecKept, NoGhostEntry
<1>1. ASSUME NEW r \in Request, NEW s \in Service, StartRejected(r, s) PROVE
    NoGhostEntry'
    BY <1>1 DEF StartRejected, cacheVars, launchVars, processVars, healthVars,
        historyVars
<1>2. ASSUME NEW r \in Request, NEW s \in Service, StartReturnsRunning(r, s) PROVE
    NoGhostEntry'
    BY <1>2 DEF StartReturnsRunning, Reusable, cacheVars, launchVars, processVars,
        healthVars
<1>3. ASSUME NEW r \in Request, NEW s \in Service, NEW i \in Instance, StartLaunches(r,
    s, i) PROVE NoGhostEntry'
    BY <1>3 DEF StartLaunches, AddServiceSpec, HandlePendingEvent, processVars,
        healthVars
<1>4. ASSUME NEW s \in Service, StopService(s) PROVE NoGhostEntry'
    BY <1>4 DEF StopService, CleanupService, Closed, Live, callVars, launchVars, healthVars
<1>5. ASSUME NEW s \in Service, NEW i \in Instance, RelaunchFires(s, i) PROVE
    NoGhostEntry'
    BY <1>5 DEF RelaunchFires, HandlePendingEvent, callVars, processVars, healthVars,
        historyVars
<1>6. ASSUME NEW i \in Instance, RenderFails(i) PROVE NoGhostEntry'
    BY <1>6 DEF RenderFails, callVars, cacheVars, processVars, healthVars
<1>7. ASSUME NEW i \in Instance, SpawnThrows(i) PROVE NoGhostEntry'
    BY <1>7 DEF SpawnThrows, callVars, healthVars
<1>8. ASSUME NEW i \in Instance, Spawns(i) PROVE NoGhostEntry'
    BY <1>8 DEF Spawns, HealthLoop, HasHealth, AnnounceOrVerify, EmitLaunched,
        historyVars
<1>9. ASSUME NEW i \in Instance, SpawnFails(i) PROVE NoGhostEntry'
    BY <1>9 DEF SpawnFails, CleanupService, ArmRelaunch, HealthLoop, HasHealth,
        AnnounceOrVerify, EmitLaunched
<1>10. ASSUME NEW i \in Instance, NEW o \in ProbeOutcome, ConcludeVerification(i, o)
    PROVE NoGhostEntry'
    BY <1>10 DEF ConcludeVerification, EmitLaunched, cacheVars, processVars, healthVars
<1>11. ASSUME NEW i \in Instance, VerificationThrows(i) PROVE NoGhostEntry'
    BY <1>11 DEF VerificationThrows, callVars, cacheVars, processVars, healthVars,
        historyVars
<1>12. ASSUME NEW i \in Instance, HealthTimerFires(i) PROVE NoGhostEntry'
    BY <1>12 DEF HealthTimerFires, callVars, cacheVars, launchVars, processVars,
        historyVars
<1>13. ASSUME NEW i \in Instance, NEW o \in ProbeOutcome, HealthProbe(i, o) PROVE
    NoGhostEntry'
    BY <1>13 DEF HealthProbe, NewRetries, JudgeHealth, HealthLoop, HasHealth, Live,
        callVars, cacheVars, launchVars, processVars
<1>14. ASSUME NEW i \in Instance, HealthProbeThrows(i) PROVE NoGhostEntry'
    BY <1>14 DEF HealthProbeThrows, callVars, cacheVars, launchVars, processVars,
        historyVars
<1>15. ASSUME NEW i \in Instance, ExitIgnored(i) PROVE NoGhostEntry'
    BY <1>15 DEF ExitIgnored, Closed, Dead, HandlesExit, callVars, cacheVars, launchVars,
        healthVars, historyVars
<1>16. ASSUME NEW i \in Instance, ExitHandled(i) PROVE NoGhostEntry'
    BY <1>16 DEF ExitHandled, Closed, Dead, HandlesExit, CleanupService, ArmRelaunch, callVars,
        launchVars, healthVars, historyVars
<1>17. ASSUME NEW i \in Instance, ProcessCrashes(i) PROVE NoGhostEntry'
    BY <1>17 DEF ProcessCrashes, Live, Ended, callVars, cacheVars, launchVars,
        healthVars
<1>18. ASSUME NEW i \in Instance, ProcessHangs(i) PROVE NoGhostEntry'
    BY <1>18 DEF ProcessHangs, callVars, cacheVars, launchVars, healthVars
<1>19. ASSUME NEW i \in Instance, ProcessObeys(i) PROVE NoGhostEntry'
    BY <1>19 DEF ProcessObeys, Live, Ended, callVars, cacheVars, launchVars, healthVars,
        historyVars
<1>20. CASE UNCHANGED vars
    BY <1>20 DEF vars, callVars, cacheVars, launchVars, processVars, healthVars, historyVars
<1> QED BY <1>1, <1>2, <1>3, <1>4, <1>5, <1>6, <1>7, <1>8, <1>9, <1>10, <1>11, <1>12,
    <1>13, <1>14, <1>15, <1>16, <1>17, <1>18, <1>19, <1>20 DEF Next, ServiceStep,
    InstanceStep, RenderEnds, VerificationEnds, ProbeEnds, ExitDelivered

\* A wanted service stays accounted for: what takes it out of the record
\* either arms a timer or is a stop.
LEMMA NeverForgottenStep ==
    ASSUME TypeOK, InstanceShape, SpecKept, NoGhostEntry, NeverForgotten, [Next]_vars
    PROVE  NeverForgotten'
<1> USE NoneAssumption DEF TypeOK, InstanceShape, SpecKept, NoGhostEntry,
    NeverForgotten, Launching, Broken
<1>1. ASSUME NEW r \in Request, NEW s \in Service, StartRejected(r, s) PROVE
    NeverForgotten'
    BY <1>1 DEF StartRejected, cacheVars, launchVars, processVars, healthVars,
        historyVars
<1>2. ASSUME NEW r \in Request, NEW s \in Service, StartReturnsRunning(r, s) PROVE
    NeverForgotten'
    BY <1>2 DEF StartReturnsRunning, Reusable, cacheVars, launchVars, processVars,
        healthVars
<1>3. ASSUME NEW r \in Request, NEW s \in Service, NEW i \in Instance, StartLaunches(r,
    s, i) PROVE NeverForgotten'
    BY <1>3 DEF StartLaunches, AddServiceSpec, HandlePendingEvent, processVars,
        healthVars
<1>4. ASSUME NEW s \in Service, StopService(s) PROVE NeverForgotten'
    BY <1>4 DEF StopService, CleanupService, Closed, Live, callVars, launchVars, healthVars
<1>5. ASSUME NEW s \in Service, NEW i \in Instance, RelaunchFires(s, i) PROVE
    NeverForgotten'
    BY <1>5 DEF RelaunchFires, HandlePendingEvent, callVars, processVars, healthVars,
        historyVars
<1>6. ASSUME NEW i \in Instance, RenderFails(i) PROVE NeverForgotten'
    BY <1>6 DEF RenderFails, callVars, cacheVars, processVars, healthVars
<1>7. ASSUME NEW i \in Instance, SpawnThrows(i) PROVE NeverForgotten'
    BY <1>7 DEF SpawnThrows, callVars, healthVars
<1>8. ASSUME NEW i \in Instance, Spawns(i) PROVE NeverForgotten'
    BY <1>8 DEF Spawns, HealthLoop, HasHealth, AnnounceOrVerify, EmitLaunched,
        historyVars
<1>9. ASSUME NEW i \in Instance, SpawnFails(i) PROVE NeverForgotten'
    BY <1>9 DEF SpawnFails, CleanupService, ArmRelaunch, HealthLoop, HasHealth,
        AnnounceOrVerify, EmitLaunched
<1>10. ASSUME NEW i \in Instance, NEW o \in ProbeOutcome, ConcludeVerification(i, o)
    PROVE NeverForgotten'
    BY <1>10 DEF ConcludeVerification, EmitLaunched, cacheVars, processVars, healthVars
<1>11. ASSUME NEW i \in Instance, VerificationThrows(i) PROVE NeverForgotten'
    BY <1>11 DEF VerificationThrows, callVars, cacheVars, processVars, healthVars,
        historyVars
<1>12. ASSUME NEW i \in Instance, HealthTimerFires(i) PROVE NeverForgotten'
    BY <1>12 DEF HealthTimerFires, callVars, cacheVars, launchVars, processVars,
        historyVars
<1>13. ASSUME NEW i \in Instance, NEW o \in ProbeOutcome, HealthProbe(i, o) PROVE
    NeverForgotten'
    BY <1>13 DEF HealthProbe, NewRetries, JudgeHealth, HealthLoop, HasHealth, Live,
        callVars, cacheVars, launchVars, processVars
<1>14. ASSUME NEW i \in Instance, HealthProbeThrows(i) PROVE NeverForgotten'
    BY <1>14 DEF HealthProbeThrows, callVars, cacheVars, launchVars, processVars,
        historyVars
<1>15. ASSUME NEW i \in Instance, ExitIgnored(i) PROVE NeverForgotten'
    BY <1>15 DEF ExitIgnored, Closed, Dead, HandlesExit, callVars, cacheVars, launchVars,
        healthVars, historyVars
<1>16. ASSUME NEW i \in Instance, ExitHandled(i) PROVE NeverForgotten'
    BY <1>16 DEF ExitHandled, Closed, Dead, HandlesExit, CleanupService, ArmRelaunch, callVars,
        launchVars, healthVars, historyVars
<1>17. ASSUME NEW i \in Instance, ProcessCrashes(i) PROVE NeverForgotten'
    BY <1>17 DEF ProcessCrashes, Live, Ended, callVars, cacheVars, launchVars,
        healthVars
<1>18. ASSUME NEW i \in Instance, ProcessHangs(i) PROVE NeverForgotten'
    BY <1>18 DEF ProcessHangs, callVars, cacheVars, launchVars, healthVars
<1>19. ASSUME NEW i \in Instance, ProcessObeys(i) PROVE NeverForgotten'
    BY <1>19 DEF ProcessObeys, Live, Ended, callVars, cacheVars, launchVars, healthVars,
        historyVars
<1>20. CASE UNCHANGED vars
    BY <1>20 DEF vars, callVars, cacheVars, launchVars, processVars, healthVars, historyVars
<1> QED BY <1>1, <1>2, <1>3, <1>4, <1>5, <1>6, <1>7, <1>8, <1>9, <1>10, <1>11, <1>12,
    <1>13, <1>14, <1>15, <1>16, <1>17, <1>18, <1>19, <1>20 DEF Next, ServiceStep,
    InstanceStep, RenderEnds, VerificationEnds, ProbeEnds, ExitDelivered

\* A recorded instance stays watched.
LEMMA MonitoredStep ==
    ASSUME TypeOK, InstanceShape, SpecKept, NoGhostEntry, Monitored, [Next]_vars
    PROVE  Monitored'
<1> USE NoneAssumption, ProbedAssumption DEF TypeOK, InstanceShape, SpecKept,
    NoGhostEntry, Monitored
<1>1. ASSUME NEW r \in Request, NEW s \in Service, StartRejected(r, s) PROVE Monitored'
    BY <1>1 DEF StartRejected, cacheVars, launchVars, processVars, healthVars,
        historyVars
<1>2. ASSUME NEW r \in Request, NEW s \in Service, StartReturnsRunning(r, s) PROVE
    Monitored'
    BY <1>2 DEF StartReturnsRunning, Reusable, cacheVars, launchVars, processVars,
        healthVars
<1>3. ASSUME NEW r \in Request, NEW s \in Service, NEW i \in Instance, StartLaunches(r,
    s, i) PROVE Monitored'
    BY <1>3 DEF StartLaunches, AddServiceSpec, HandlePendingEvent, processVars,
        healthVars
<1>4. ASSUME NEW s \in Service, StopService(s) PROVE Monitored'
    BY <1>4 DEF StopService, CleanupService, Closed, Live, callVars, launchVars, healthVars
<1>5. ASSUME NEW s \in Service, NEW i \in Instance, RelaunchFires(s, i) PROVE Monitored'
    BY <1>5 DEF RelaunchFires, HandlePendingEvent, callVars, processVars, healthVars,
        historyVars
<1>6. ASSUME NEW i \in Instance, RenderFails(i) PROVE Monitored'
    BY <1>6 DEF RenderFails, callVars, cacheVars, processVars, healthVars
<1>7. ASSUME NEW i \in Instance, SpawnThrows(i) PROVE Monitored'
    BY <1>7 DEF SpawnThrows, callVars, healthVars
<1>8. ASSUME NEW i \in Instance, Spawns(i) PROVE Monitored'
    BY <1>8 DEF Spawns, HealthLoop, HasHealth, AnnounceOrVerify, EmitLaunched,
        historyVars
<1>9. ASSUME NEW i \in Instance, SpawnFails(i) PROVE Monitored'
    BY <1>9 DEF SpawnFails, CleanupService, ArmRelaunch, HealthLoop, HasHealth,
        AnnounceOrVerify, EmitLaunched
<1>10. ASSUME NEW i \in Instance, NEW o \in ProbeOutcome, ConcludeVerification(i, o)
    PROVE Monitored'
    BY <1>10 DEF ConcludeVerification, EmitLaunched, cacheVars, processVars, healthVars
<1>11. ASSUME NEW i \in Instance, VerificationThrows(i) PROVE Monitored'
    BY <1>11 DEF VerificationThrows, callVars, cacheVars, processVars, healthVars,
        historyVars
<1>12. ASSUME NEW i \in Instance, HealthTimerFires(i) PROVE Monitored'
    BY <1>12 DEF HealthTimerFires, callVars, cacheVars, launchVars, processVars,
        historyVars
<1>13. ASSUME NEW i \in Instance, NEW o \in ProbeOutcome, HealthProbe(i, o) PROVE
    Monitored'
    BY <1>13 DEF HealthProbe, NewRetries, JudgeHealth, HealthLoop, HasHealth, Live,
        callVars, cacheVars, launchVars, processVars
<1>14. ASSUME NEW i \in Instance, HealthProbeThrows(i) PROVE Monitored'
    BY <1>14 DEF HealthProbeThrows, callVars, cacheVars, launchVars, processVars,
        historyVars
<1>15. ASSUME NEW i \in Instance, ExitIgnored(i) PROVE Monitored'
    BY <1>15 DEF ExitIgnored, Closed, Dead, HandlesExit, callVars, cacheVars, launchVars,
        healthVars, historyVars
<1>16. ASSUME NEW i \in Instance, ExitHandled(i) PROVE Monitored'
    BY <1>16 DEF ExitHandled, Closed, Dead, HandlesExit, CleanupService, ArmRelaunch, callVars,
        launchVars, healthVars, historyVars
<1>17. ASSUME NEW i \in Instance, ProcessCrashes(i) PROVE Monitored'
    BY <1>17 DEF ProcessCrashes, Live, Ended, callVars, cacheVars, launchVars,
        healthVars
<1>18. ASSUME NEW i \in Instance, ProcessHangs(i) PROVE Monitored'
    BY <1>18 DEF ProcessHangs, callVars, cacheVars, launchVars, healthVars
<1>19. ASSUME NEW i \in Instance, ProcessObeys(i) PROVE Monitored'
    BY <1>19 DEF ProcessObeys, Live, Ended, callVars, cacheVars, launchVars, healthVars,
        historyVars
<1>20. CASE UNCHANGED vars
    BY <1>20 DEF vars, callVars, cacheVars, launchVars, processVars, healthVars, historyVars
<1> QED BY <1>1, <1>2, <1>3, <1>4, <1>5, <1>6, <1>7, <1>8, <1>9, <1>10, <1>11, <1>12,
    <1>13, <1>14, <1>15, <1>16, <1>17, <1>18, <1>19, <1>20 DEF Next, ServiceStep,
    InstanceStep, RenderEnds, VerificationEnds, ProbeEnds, ExitDelivered

\* An answer carries a spawned child of the service asked for, or the failed one of
\* the start's own launches.
LEMMA AnswersStep ==
    ASSUME TypeOK, InstanceShape, SpecKept, NoGhostEntry, AnswersCarryPid, [Next]_vars
    PROVE  AnswersCarryPid'
<1> USE NoneAssumption DEF TypeOK, InstanceShape, SpecKept, NoGhostEntry,
    AnswersCarryPid, HasPid
<1>1. ASSUME NEW r \in Request, NEW s \in Service, StartRejected(r, s) PROVE
    AnswersCarryPid'
    BY <1>1 DEF StartRejected, cacheVars, launchVars, processVars, healthVars,
        historyVars
<1>2. ASSUME NEW r \in Request, NEW s \in Service, StartReturnsRunning(r, s) PROVE
    AnswersCarryPid'
    BY <1>2 DEF StartReturnsRunning, Reusable, cacheVars, launchVars, processVars,
        healthVars
<1>3. ASSUME NEW r \in Request, NEW s \in Service, NEW i \in Instance, StartLaunches(r,
    s, i) PROVE AnswersCarryPid'
    BY <1>3 DEF StartLaunches, AddServiceSpec, HandlePendingEvent, processVars,
        healthVars
<1>4. ASSUME NEW s \in Service, StopService(s) PROVE AnswersCarryPid'
    BY <1>4 DEF StopService, CleanupService, Closed, Live, callVars, launchVars, healthVars
<1>5. ASSUME NEW s \in Service, NEW i \in Instance, RelaunchFires(s, i) PROVE
    AnswersCarryPid'
    BY <1>5 DEF RelaunchFires, HandlePendingEvent, callVars, processVars, healthVars,
        historyVars
<1>6. ASSUME NEW i \in Instance, RenderFails(i) PROVE AnswersCarryPid'
    BY <1>6 DEF RenderFails, callVars, cacheVars, processVars, healthVars
<1>7. ASSUME NEW i \in Instance, SpawnThrows(i) PROVE AnswersCarryPid'
    BY <1>7 DEF SpawnThrows, callVars, healthVars
<1>8. ASSUME NEW i \in Instance, Spawns(i) PROVE AnswersCarryPid'
    BY <1>8 DEF Spawns, HealthLoop, HasHealth, AnnounceOrVerify, EmitLaunched,
        historyVars
<1>9. ASSUME NEW i \in Instance, SpawnFails(i) PROVE AnswersCarryPid'
    BY <1>9 DEF SpawnFails, CleanupService, ArmRelaunch, HealthLoop, HasHealth,
        AnnounceOrVerify, EmitLaunched
<1>10. ASSUME NEW i \in Instance, NEW o \in ProbeOutcome, ConcludeVerification(i, o)
    PROVE AnswersCarryPid'
    BY <1>10 DEF ConcludeVerification, EmitLaunched, cacheVars, processVars, healthVars
<1>11. ASSUME NEW i \in Instance, VerificationThrows(i) PROVE AnswersCarryPid'
    BY <1>11 DEF VerificationThrows, callVars, cacheVars, processVars, healthVars,
        historyVars
<1>12. ASSUME NEW i \in Instance, HealthTimerFires(i) PROVE AnswersCarryPid'
    BY <1>12 DEF HealthTimerFires, callVars, cacheVars, launchVars, processVars,
        historyVars
<1>13. ASSUME NEW i \in Instance, NEW o \in ProbeOutcome, HealthProbe(i, o) PROVE
    AnswersCarryPid'
    BY <1>13 DEF HealthProbe, NewRetries, JudgeHealth, HealthLoop, HasHealth, Live,
        callVars, cacheVars, launchVars, processVars
<1>14. ASSUME NEW i \in Instance, HealthProbeThrows(i) PROVE AnswersCarryPid'
    BY <1>14 DEF HealthProbeThrows, callVars, cacheVars, launchVars, processVars,
        historyVars
<1>15. ASSUME NEW i \in Instance, ExitIgnored(i) PROVE AnswersCarryPid'
    BY <1>15 DEF ExitIgnored, Closed, Dead, HandlesExit, callVars, cacheVars, launchVars,
        healthVars, historyVars
<1>16. ASSUME NEW i \in Instance, ExitHandled(i) PROVE AnswersCarryPid'
    BY <1>16 DEF ExitHandled, Closed, Dead, HandlesExit, CleanupService, ArmRelaunch, callVars,
        launchVars, healthVars, historyVars
<1>17. ASSUME NEW i \in Instance, ProcessCrashes(i) PROVE AnswersCarryPid'
    BY <1>17 DEF ProcessCrashes, Live, Ended, callVars, cacheVars, launchVars,
        healthVars
<1>18. ASSUME NEW i \in Instance, ProcessHangs(i) PROVE AnswersCarryPid'
    BY <1>18 DEF ProcessHangs, callVars, cacheVars, launchVars, healthVars
<1>19. ASSUME NEW i \in Instance, ProcessObeys(i) PROVE AnswersCarryPid'
    BY <1>19 DEF ProcessObeys, Live, Ended, callVars, cacheVars, launchVars, healthVars,
        historyVars
<1>20. CASE UNCHANGED vars
    BY <1>20 DEF vars, callVars, cacheVars, launchVars, processVars, healthVars, historyVars
<1> QED BY <1>1, <1>2, <1>3, <1>4, <1>5, <1>6, <1>7, <1>8, <1>9, <1>10, <1>11, <1>12,
    <1>13, <1>14, <1>15, <1>16, <1>17, <1>18, <1>19, <1>20 DEF Next, ServiceStep,
    InstanceStep, RenderEnds, VerificationEnds, ProbeEnds, ExitDelivered

\* The inductive invariant holds in every reachable state.
THEOREM Invariance == Spec => []InductiveInvariant
<1>1. Init => InductiveInvariant
  <2> SUFFICES ASSUME Init PROVE InductiveInvariant
      OBVIOUS
  <2>1. InstanceShape /\ CountsAgree /\ StopEarned /\ AnswersCarryPid
      BY DEF Init, InstanceShape, CountsAgree, StopEarned, AnswersCarryPid
  <2>2. SpecKept
      BY DEF Init, SpecKept
  <2>3. NoGhostEntry /\ NeverForgotten /\ Monitored
      BY ProbedAssumption DEF Init, NoGhostEntry, NeverForgotten, Monitored
  <2> QED
      BY InitTyped, <2>1, <2>2, <2>3 DEF InductiveInvariant
<1>2. InductiveInvariant /\ [Next]_vars => InductiveInvariant'
    BY TypeStep, ShapeStep, SpecStep, CountsStep, EarnedStep, NoGhostStep,
       NeverForgottenStep, MonitoredStep, AnswersStep DEF InductiveInvariant
<1> QED
    BY <1>1, <1>2, PTL DEF Spec

-----------------------------------------------------------------------------
(* The safety properties of ServiceProcessManager. *)

\* What is recorded as running is a child that was spawned, is listened to and
\* whose end has not been processed.
THEOREM NoGhostEntryHolds == Spec => []NoGhostEntry
    BY Invariance, PTL DEF InductiveInvariant

\* A wanted service is recorded, being launched, due to be relaunched, or one of
\* its launches threw.
THEOREM NeverForgottenHolds == Spec => []NeverForgotten
    BY Invariance, PTL DEF InductiveInvariant

\* The recorded instance of a probed service is watched.
THEOREM MonitoredHolds == Spec => []Monitored
    BY Invariance, PTL DEF InductiveInvariant

\* Only Retries failed probes in a row stop a child.
THEOREM StopEarnedHolds == Spec => []StopEarned
    BY Invariance, PTL DEF InductiveInvariant

\* A start resolves only with an instance of its service that has a pid, or whose
\* command, launched for this very start, could not be executed.
THEOREM AnswersCarryPidHolds == Spec => []AnswersCarryPid
    BY Invariance, PTL DEF InductiveInvariant

-----------------------------------------------------------------------------
(* Which steps change the record, and the two action properties. *)

RecordsLaunch(j, e) ==
    /\ launch[j] = "rendering"
    /\ launch'[j] # "rendering"
    /\ activeCache' = [activeCache EXCEPT ![hash[j]] = e]

ForgetsStopped(s) ==
    /\ ~wanted'[s]
    /\ activeCache' = [activeCache EXCEPT ![s] = None]

ForgetsEnded(s) ==
    /\ activeCache[s] # None
    /\ ~Live(activeCache[s])
    /\ activeCache' = [activeCache EXCEPT ![s] = None]

\* The record changes when a launch gets to it, when the recorded instance is
\* stopped, and when an exit is handled while the recorded instance does not run.
LEMMA RecordStep ==
    ASSUME InductiveInvariant, [Next]_vars
    PROVE  \/ UNCHANGED activeCache
           \/ \E j \in Instance : RecordsLaunch(j, j) \/ RecordsLaunch(j, None)
           \/ \E s \in Service : ForgetsStopped(s) \/ ForgetsEnded(s)
<1> USE DEF InductiveInvariant, TypeOK
<1>1. ASSUME NEW s \in Service, StopService(s) PROVE ForgetsStopped(s)
  <2>1. hash[activeCache[s]] = s
      BY <1>1 DEF StopService, NoGhostEntry
  <2> QED
      BY <1>1, <2>1 DEF StopService, CleanupService, Closed, ForgetsStopped
<1>2. ASSUME NEW i \in Instance, SpawnThrows(i) PROVE RecordsLaunch(i, i)
    BY <1>2 DEF SpawnThrows, RecordsLaunch
<1>3. ASSUME NEW i \in Instance, Spawns(i) PROVE RecordsLaunch(i, i)
    BY <1>3 DEF Spawns, AnnounceOrVerify, RecordsLaunch
<1>4. ASSUME NEW i \in Instance, SpawnFails(i) PROVE RecordsLaunch(i, None)
    BY <1>4 DEF SpawnFails, AnnounceOrVerify, CleanupService, RecordsLaunch
<1>5. ASSUME NEW i \in Instance, ExitHandled(i) PROVE ForgetsEnded(hash[i]) /\ hash[i] \in Service
  <2>1. hash[i] \in Service
      BY <1>5 DEF ExitHandled, Dead, InstanceShape, SpecKept
  <2>2. activeCache[hash[i]] # None /\ ~Live(activeCache[hash[i]])
      BY <1>5 DEF ExitHandled, Dead, Live, HandlesExit
  <2> QED
      BY <1>5, <2>1, <2>2 DEF ExitHandled, CleanupService, ForgetsEnded
<1>6. CASE UNCHANGED vars
    BY <1>6 DEF vars, cacheVars
<1>7. ASSUME NEW s \in Service, ServiceStep(s), ~StopService(s) PROVE UNCHANGED activeCache
    BY <1>7 DEF ServiceStep, StartRejected, StartReturnsRunning, StartLaunches, RelaunchFires,
                cacheVars
<1>8. ASSUME NEW i \in Instance, InstanceStep(i), ~SpawnThrows(i), ~Spawns(i), ~SpawnFails(i),
             ~ExitHandled(i)
      PROVE  UNCHANGED activeCache
    BY <1>8 DEF InstanceStep, RenderEnds, RenderFails, VerificationEnds, ConcludeVerification,
                VerificationThrows, HealthTimerFires, ProbeEnds, HealthProbe,
                HealthProbeThrows, ExitDelivered, ExitIgnored, ProcessCrashes, ProcessHangs,
                ProcessObeys, cacheVars
<1> QED
    BY <1>1, <1>2, <1>3, <1>4, <1>5, <1>6, <1>7, <1>8 DEF Next

\* An instance enters the record only from its own launch.
THEOREM NoResurrectionHolds == Spec => NoResurrection
<1>1. ASSUME InductiveInvariant, [Next]_vars PROVE EntersByLaunch
    BY <1>1, RecordStep, NoneAssumption
       DEF EntersByLaunch, RecordsLaunch, ForgetsStopped, ForgetsEnded, InductiveInvariant,
           TypeOK
<1> QED
    BY <1>1, Invariance, PTL DEF Spec, NoResurrection

\* A recorded child that runs leaves the record only by a stop or for another
\* launch of its service.
THEOREM LiveEntryKeptHolds == Spec => LiveEntryKept
<1>1. ASSUME InductiveInvariant, [Next]_vars PROVE LeavesByStopOrLaunch
    BY <1>1, RecordStep, NoneAssumption
       DEF LeavesByStopOrLaunch, RecordsLaunch, ForgetsStopped, ForgetsEnded,
           InductiveInvariant, TypeOK
<1> QED
    BY <1>1, Invariance, PTL DEF Spec, LiveEntryKept
=============================================================================
