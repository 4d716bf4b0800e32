------------------------ MODULE ServiceProcessManager ------------------------
(***************************************************************************)
(* The ServiceProcessManager (src/src/lib/serviceProcessManager.ts) with   *)
(* the two requests of the ServiceManager that drive it, startService and  *)
(* stopService (src/src/lib/serviceManager.ts).                            *)
(*                                                                         *)
(* An instance is one ActiveServiceSpec object: the result of one call of  *)
(* renderService, with the child process that handleLaunchEvent spawns for *)
(* it.  Two calls launch two instances, whatever their service, so the     *)
(* caches, which know services only by their hash, may lose one of them.   *)
(*                                                                         *)
(* Node runs one callback at a time and drains its promises before the     *)
(* next one, so an action is everything that happens from one timer, I/O   *)
(* completion, request or child-process event to the next point where the  *)
(* code really waits.                                                      *)
(***************************************************************************)
EXTENDS Naturals

CONSTANTS
    Service,      \* service hashes: name, version and environment
    Probed,       \* the services whose configuration has a health section
    Instance,     \* the instances a behaviour may launch
    Request,      \* the start requests a behaviour may make
    Retries,      \* health.retries of the configuration
    ProbeOutcome, \* what checkServiceHealth may do: "up", "down", "throws"
    Fault,        \* the faults the environment may inject
    MaxFaults,    \* how many faults one behaviour may contain
    None          \* neither an instance, a service nor a request

FaultKinds == {"crash", "hang", "unreachable", "enoent", "spawn", "render"}

ASSUME ProbedAssumption  == Probed \subseteq Service
ASSUME BoundAssumption   == Retries \in Nat /\ MaxFaults \in Nat
ASSUME OutcomeAssumption == ProbeOutcome \subseteq {"up", "down", "throws"}
ASSUME FaultAssumption   == Fault \subseteq FaultKinds
ASSUME NoneAssumption    == None \notin Service \cup Instance \cup Request

VARIABLES
    call,         \* what the caller of start request r has seen of its promise
    asked,        \* the service request r is for
    answer,       \* the instance the promise of request r resolved with
    serviceCache, \* serviceCache: the request whose spec was stored for a service
    activeCache,  \* activeServiceCache: the instance recorded for a service
    relaunch,     \* the relaunch timers of handleExitEvent that are armed
    launch,       \* how far the launch of an instance has come
    hash,         \* the service an instance was rendered for
    emitter,      \* the request whose notifications emitter an instance carries
    state,        \* ActiveServiceSpec.state
    process,      \* the child process of an instance, as the OS sees it
    attached,     \* the runner's listeners are still attached to the child
    probe,        \* the health loop of an instance
    retries,      \* healthCache: failed probes counted for an instance
    signalled,    \* handleStopEvent has sent SIGTERM to the child
    wanted,       \* history: the last effective request for s was a start
    streak,       \* history: failed probes since the last successful one
    faults        \* history: the faults injected so far

callVars    == <<call, asked, answer>>
cacheVars   == <<serviceCache, activeCache, relaunch>>
launchVars  == <<launch, hash, emitter>>
processVars == <<state, process, attached>>
healthVars  == <<probe, retries, signalled>>
historyVars == <<wanted, streak, faults>>
vars == <<callVars, cacheVars, launchVars, processVars, healthVars, historyVars>>

CallStatus   == {"idle", "waiting", "answered", "rejected"}
LaunchStatus == {"unused", "rendering", "verifying", "launched", "unverified",
                 "broken"}
State        == {"none", "pending", "running", "stopped"}
ProcessState == {"none", "alive", "hung", "exited", "closed", "failed", "void"}
ProbeState   == {"idle", "timer", "checking", "lost"}

\* Type correctness: every variable holds what the field of the code it stands
\* for can hold (the caches of lines 91-102 and the objects they refer to).
TypeOK ==
    /\ call \in [Request -> CallStatus]
    /\ asked \in [Request -> Service \cup {None}]
    /\ answer \in [Request -> Instance \cup {None}]
    /\ serviceCache \in [Service -> Request \cup {None}]
    /\ activeCache \in [Service -> Instance \cup {None}]
    /\ relaunch \in [Service -> Nat]
    /\ launch \in [Instance -> LaunchStatus]
    /\ hash \in [Instance -> Service \cup {None}]
    /\ emitter \in [Instance -> Request \cup {None}]
    /\ state \in [Instance -> State]
    /\ process \in [Instance -> ProcessState]
    /\ attached \in [Instance -> BOOLEAN]
    /\ probe \in [Instance -> ProbeState]
    /\ retries \in [Instance -> Nat]
    /\ signalled \in [Instance -> BOOLEAN]
    /\ wanted \in [Service -> BOOLEAN]
    /\ streak \in [Instance -> Nat]
    /\ faults \in 0..MaxFaults

Init ==
    /\ call = [r \in Request |-> "idle"]
    /\ asked = [r \in Request |-> None]
    /\ answer = [r \in Request |-> None]
    /\ serviceCache = [s \in Service |-> None]
    /\ activeCache = [s \in Service |-> None]
    /\ relaunch = [s \in Service |-> 0]
    /\ launch = [i \in Instance |-> "unused"]
    /\ hash = [i \in Instance |-> None]
    /\ emitter = [i \in Instance |-> None]
    /\ state = [i \in Instance |-> "none"]
    /\ process = [i \in Instance |-> "none"]
    /\ attached = [i \in Instance |-> FALSE]
    /\ probe = [i \in Instance |-> "idle"]
    /\ retries = [i \in Instance |-> 0]
    /\ signalled = [i \in Instance |-> FALSE]
    /\ wanted = [s \in Service |-> FALSE]
    /\ streak = [i \in Instance |-> 0]
    /\ faults = 0

\* The environment injects a fault of this kind, within the bound MaxFaults.
Injects(kind) ==
    /\ kind \in Fault
    /\ faults < MaxFaults
    /\ faults' = faults + 1

Live(i) == process[i] \in {"alive", "hung"}
Dead(i) == process[i] \in {"exited", "failed"}

\* The child was really spawned.  "failed" is a child whose command could not be
\* executed, and "void" the same once its close event has been taken or cannot
\* come any more: such a ChildProcess has no pid.
HasPid(i) == process[i] \notin {"none", "failed", "void"}

HasHealth(i) == hash[i] \in Probed

-----------------------------------------------------------------------------
(* What the handlers are made of. *)

\* addServiceSpec: the first specification of a service is the one kept.
AddServiceSpec(s, r) ==
    serviceCache' = [serviceCache EXCEPT ![s] = IF @ = None THEN r ELSE @]

\* Variants: the entry is not deleted; it is deleted, then written again.
CleanupServiceWithoutDelete(i) ==
    state' = [state EXCEPT ![i] = "stopped"] /\ UNCHANGED activeCache

CleanupServiceDeleteFirst(i) ==
    /\ state' = [state EXCEPT ![i] = "stopped"]
    /\ activeCache' = [activeCache EXCEPT ![hash[i]] = i]

\* cleanupService marks the instance stopped and deletes whatever is recorded
\* for its service.
CleanupService(i) ==
    /\ state' = [state EXCEPT ![i] = "stopped"]
    /\ activeCache' = [activeCache EXCEPT ![hash[i]] = None]

\* Variant: no relaunch.
ArmNoRelaunch(s) == UNCHANGED relaunch

\* handleExitEvent arms a timer that emits the stored specification as pending.
ArmRelaunch(s) == relaunch' = [relaunch EXCEPT ![s] = @ + 1]

\* sendHealthEvent arms the health timer of a running instance with a health
\* section.
HealthLoop(i, st) == IF HasHealth(i) /\ st = "running" THEN "timer" ELSE "idle"

\* handlePendingEvent up to the await: request r's specification of s is
\* rendered into a new instance.
HandlePendingEvent(s, r, i) ==
    /\ launch[i] = "unused"
    /\ launch' = [launch EXCEPT ![i] = "rendering"]
    /\ hash' = [hash EXCEPT ![i] = s]
    /\ emitter' = [emitter EXCEPT ![i] = r]

\* Variant: a launch that ended in the meantime is not announced.
EmitLaunchedIfRunning(i) ==
    IF call[emitter[i]] = "waiting" /\ state[i] # "stopped"
    THEN /\ call' = [call EXCEPT ![emitter[i]] = "answered"]
         /\ answer' = [answer EXCEPT ![emitter[i]] = i]
    ELSE UNCHANGED <<call, answer>>

\* "launched" on the emitter of instance i resolves the promise that listens
\* there, once.
EmitLaunched(i) ==
    IF call[emitter[i]] = "waiting"
    THEN /\ call' = [call EXCEPT ![emitter[i]] = "answered"]
         /\ answer' = [answer EXCEPT ![emitter[i]] = i]
    ELSE UNCHANGED <<call, answer>>

\* The initial health check is skipped, and the launch announced at once, when
\* the service has no health section.
AnnounceOrVerify(i) ==
    /\ launch' = [launch EXCEPT ![i] = IF HasHealth(i) THEN "verifying" ELSE "launched"]
    /\ IF HasHealth(i) THEN UNCHANGED <<call, answer>> ELSE EmitLaunched(i)

\* The end of a process is an event only while listeners are attached.
Ended(i) == IF attached[i] THEN "exited" ELSE "closed"

\* A child of which no event is to come.
Closed(i) == IF process[i] = "failed" THEN "void" ELSE "closed"

\* Variant: no test for a stale update.
HandlesAnyExit(i) == activeCache[hash[i]] # None

\* handleExitEvent acts when something is recorded for the service and it is
\* this child, or has no child to compare with.
HandlesExit(i) ==
    LET entry == activeCache[hash[i]] IN
        /\ entry # None
        /\ entry = i \/ process[entry] = "none"

\* What checkServiceHealth may find for an instance: a hung child answers no
\* probe; the port of a dead one may be answered by its successor.
MayFind(i, outcome) ==
    /\ outcome \in ProbeOutcome
    /\ outcome = "up" => process[i] # "hung"

-----------------------------------------------------------------------------
(* Requests to the ServiceManager. *)

\* startService fails: the repository has no such service, or the configuration
\* no such service or environment.
StartRejected(r, s) ==
    /\ call[r] = "idle"
    /\ call' = [call EXCEPT ![r] = "rejected"]
    /\ asked' = [asked EXCEPT ![r] = s]
    /\ UNCHANGED <<answer, cacheVars, launchVars, processVars, healthVars, historyVars>>

\* Variant: whatever is recorded is handed out.
ReusableInAnyState(s) == serviceCache[s] # None /\ activeCache[s] # None

\* The instance startService hands out without launching another one.
Reusable(s) ==
    /\ serviceCache[s] # None
    /\ activeCache[s] # None
    /\ state[activeCache[s]] = "running"

\* startService finds the service running and returns what is recorded.
StartReturnsRunning(r, s) ==
    /\ call[r] = "idle"
    /\ Reusable(s)
    /\ call' = [call EXCEPT ![r] = "answered"]
    /\ asked' = [asked EXCEPT ![r] = s]
    /\ answer' = [answer EXCEPT ![r] = activeCache[s]]
    /\ wanted' = [wanted EXCEPT ![s] = TRUE]
    /\ UNCHANGED <<cacheVars, launchVars, processVars, healthVars,
                   streak, faults>>

\* startService launches the service: launchService emits pending, and the
\* promise waits for "launched" on the emitter of this request.
StartLaunches(r, s, i) ==
    /\ call[r] = "idle"
    /\ ~Reusable(s)
    /\ call' = [call EXCEPT ![r] = "waiting"]
    /\ asked' = [asked EXCEPT ![r] = s]
    /\ AddServiceSpec(s, r)
    /\ HandlePendingEvent(s, r, i)
    /\ wanted' = [wanted EXCEPT ![s] = TRUE]
    /\ UNCHANGED <<answer, activeCache, relaunch, processVars, healthVars,
                   streak, faults>>

\* stopService terminates the recorded instance: its listeners are removed, it
\* is cleaned up and sent SIGTERM.  Without a record stopService returns, and
\* for a record without a process handleTerminateEvent throws before it changes
\* anything: neither is a step.
StopService(s) ==
    LET i == activeCache[s] IN
    /\ serviceCache[s] # None
    /\ i # None
    /\ process[i] # "none"
    /\ CleanupService(i)
    /\ attached' = [attached EXCEPT ![i] = FALSE]
    /\ process' = [process EXCEPT ![i] = IF Live(i) THEN @ ELSE Closed(i)]
    /\ wanted' = [wanted EXCEPT ![s] = FALSE]
    /\ UNCHANGED <<callVars, serviceCache, relaunch, launchVars, healthVars,
                   streak, faults>>

-----------------------------------------------------------------------------
(* Launching. *)

\* getFreePorts or a template of the configuration fails: the promise of
\* handlePendingEvent rejects and nothing handles it.
RenderFails(i) ==
    /\ launch[i] = "rendering"
    /\ Injects("render")
    /\ launch' = [launch EXCEPT ![i] = "broken"]
    /\ UNCHANGED <<callVars, cacheVars, hash, emitter, processVars, healthVars,
                   wanted, streak>>

\* The render resolves and spawn itself throws (an empty or oversized command):
\* the instance stays recorded as pending, without a child.
SpawnThrows(i) ==
    /\ launch[i] = "rendering"
    /\ Injects("spawn")
    /\ launch' = [launch EXCEPT ![i] = "broken"]
    /\ state' = [state EXCEPT ![i] = "pending"]
    /\ activeCache' = [activeCache EXCEPT ![hash[i]] = i]
    /\ UNCHANGED <<callVars, serviceCache, relaunch, hash, emitter, process, attached,
                   healthVars, wanted, streak>>

\* The render resolves, the child is spawned and recorded as running, its health
\* loop starts, and its launch is announced or goes through initialHealthCheck.
Spawns(i) ==
    /\ launch[i] = "rendering"
    /\ activeCache' = [activeCache EXCEPT ![hash[i]] = i]
    /\ state' = [state EXCEPT ![i] = "running"]
    /\ process' = [process EXCEPT ![i] = "alive"]
    /\ attached' = [attached EXCEPT ![i] = TRUE]
    /\ probe' = [probe EXCEPT ![i] = HealthLoop(i, "running")]
    /\ AnnounceOrVerify(i)
    /\ UNCHANGED <<asked, serviceCache, relaunch, hash, emitter, retries, signalled,
                   historyVars>>

\* The render resolves but the command cannot be executed: everything Spawns
\* does, and in the same drain the child's error event, which handleExitEvent
\* takes for the exit of the instance just recorded.  Its close event is still
\* to come.
SpawnFails(i) ==
    /\ launch[i] = "rendering"
    /\ Injects("enoent")
    /\ CleanupService(i)
    /\ ArmRelaunch(hash[i])
    /\ process' = [process EXCEPT ![i] = "failed"]
    /\ attached' = [attached EXCEPT ![i] = TRUE]
    /\ probe' = [probe EXCEPT ![i] = HealthLoop(i, "running")]
    /\ AnnounceOrVerify(i)
    /\ UNCHANGED <<asked, serviceCache, hash, emitter, retries, signalled,
                   wanted, streak>>

\* initialHealthCheck resolves, at the first successful probe or at the first
\* failed one past the deadline, and "launched" is emitted in either case,
\* whatever has happened to the instance since.
ConcludeVerification(i, outcome) ==
    /\ launch[i] = "verifying"
    /\ outcome \in {"up", "down"}
    /\ MayFind(i, outcome)
    /\ launch' = [launch EXCEPT ![i] = "launched"]
    /\ EmitLaunched(i)
    /\ UNCHANGED <<asked, cacheVars, hash, emitter, processVars, healthVars,
                   wanted, streak, faults>>

\* A probe of initialHealthCheck throws inside its timer callback: the promise
\* is never resolved.
VerificationThrows(i) ==
    /\ launch[i] = "verifying"
    /\ MayFind(i, "throws")
    /\ launch' = [launch EXCEPT ![i] = "unverified"]
    /\ UNCHANGED <<callVars, cacheVars, hash, emitter, processVars, healthVars, historyVars>>

-----------------------------------------------------------------------------
(* The operating system: children end, hang, and obey SIGTERM. *)

\* A child ends by itself.
ProcessCrashes(i) ==
    /\ Live(i)
    /\ Injects("crash")
    /\ process' = [process EXCEPT ![i] = Ended(i)]
    /\ UNCHANGED <<callVars, cacheVars, launchVars, state, attached, healthVars,
                   wanted, streak>>

\* A child keeps running but answers no more.
ProcessHangs(i) ==
    /\ process[i] = "alive"
    /\ Injects("hang")
    /\ process' = [process EXCEPT ![i] = "hung"]
    /\ UNCHANGED <<callVars, cacheVars, launchVars, state, attached, healthVars,
                   wanted, streak>>

\* A child that was sent SIGTERM, by handleStopEvent or by handleTerminateEvent,
\* ends.
ProcessObeys(i) ==
    /\ Live(i)
    /\ signalled[i] \/ ~attached[i]
    /\ process' = [process EXCEPT ![i] = Ended(i)]
    /\ UNCHANGED <<callVars, cacheVars, launchVars, state, attached, healthVars,
                   historyVars>>

-----------------------------------------------------------------------------
(* Exit and relaunch. *)

\* The close event of a child finds nothing recorded for its service, or another
\* child: handleExitEvent returns.
ExitIgnored(i) ==
    /\ Dead(i)
    /\ attached[i]
    /\ ~HandlesExit(i)
    /\ process' = [process EXCEPT ![i] = Closed(i)]
    /\ UNCHANGED <<callVars, cacheVars, launchVars, state, attached, healthVars,
                   historyVars>>

\* handleExitEvent cleans the service up, announces its termination and arms the
\* relaunch timer.
ExitHandled(i) ==
    /\ Dead(i)
    /\ attached[i]
    /\ HandlesExit(i)
    /\ process' = [process EXCEPT ![i] = Closed(i)]
    /\ CleanupService(i)
    /\ ArmRelaunch(hash[i])
    /\ UNCHANGED <<callVars, serviceCache, launchVars, attached, healthVars, historyVars>>

\* Variant: a launch that no timer is due for.
RelaunchFiresUnarmed(s, i) ==
    /\ relaunch' = [relaunch EXCEPT ![s] = @ - 1]
    /\ HandlePendingEvent(s, serviceCache[s], i)
    /\ UNCHANGED <<callVars, serviceCache, activeCache, processVars, healthVars,
                   historyVars>>

\* The relaunch timer fires: the specification stored for the service is pending
\* again, whatever has been started or stopped since.
RelaunchFires(s, i) ==
    /\ relaunch[s] > 0
    /\ relaunch' = [relaunch EXCEPT ![s] = @ - 1]
    /\ HandlePendingEvent(s, serviceCache[s], i)
    /\ UNCHANGED <<callVars, serviceCache, activeCache, processVars, healthVars,
                   historyVars>>

-----------------------------------------------------------------------------
(* The health loop. *)

\* The health timer fires and checkServiceHealth is awaited.
HealthTimerFires(i) ==
    /\ probe[i] = "timer"
    /\ probe' = [probe EXCEPT ![i] = "checking"]
    /\ UNCHANGED <<callVars, cacheVars, launchVars, processVars, retries, signalled,
                   historyVars>>

\* Variant: a successful probe leaves the count of failures as it is.
NewRetriesWithoutReset(i, outcome) == IF outcome = "up" THEN retries[i] ELSE retries[i] + 1

\* A successful probe resets the count of failures.
NewRetries(i, outcome) == IF outcome = "up" THEN 0 ELSE retries[i] + 1

\* Variants: a failed probe does not re-arm the timer; the signal is not sent.
JudgeHealthNoRearm(i, count) ==
    /\ signalled' = [signalled EXCEPT ![i] = @ \/ (count >= Retries /\ Live(i))]
    /\ probe' = [probe EXCEPT ![i] = IF count > 0 THEN "idle" ELSE HealthLoop(i, state[i])]

JudgeHealthNoSignal(i, count) ==
    /\ UNCHANGED signalled
    /\ probe' = [probe EXCEPT ![i] = IF count >= Retries THEN "idle"
                                      ELSE HealthLoop(i, state[i])]

\* Too many failures stop the child, and its health loop ends there; kill of a
\* child that is gone throws, which has no effect.  Otherwise the loop goes on
\* while the instance is marked running.
JudgeHealth(i, count) ==
    /\ signalled' = [signalled EXCEPT ![i] = @ \/ (count >= Retries /\ Live(i))]
    /\ probe' = [probe EXCEPT ![i] = IF count >= Retries THEN "idle"
                                      ELSE HealthLoop(i, state[i])]

\* handleHealthEvent once checkServiceHealth has resolved.
HealthProbe(i, outcome) ==
    /\ probe[i] = "checking"
    /\ outcome \in {"up", "down"}
    /\ MayFind(i, outcome)
    /\ retries' = [retries EXCEPT ![i] = NewRetries(i, outcome)]
    /\ JudgeHealth(i, NewRetries(i, outcome))
    /\ streak' = [streak EXCEPT ![i] = IF outcome = "up" THEN 0 ELSE @ + 1]
    /\ IF outcome = "down" /\ process[i] = "alive"
       THEN Injects("unreachable")
       ELSE UNCHANGED faults
    /\ UNCHANGED <<callVars, cacheVars, launchVars, processVars, wanted>>

\* checkServiceHealth throws: handleHealthEvent logs, returns, and the health loop
\* is over.
HealthProbeThrows(i) ==
    /\ probe[i] = "checking"
    /\ MayFind(i, "throws")
    /\ probe' = [probe EXCEPT ![i] = "lost"]
    /\ UNCHANGED <<callVars, cacheVars, launchVars, processVars, retries, signalled,
                   historyVars>>

-----------------------------------------------------------------------------

\* The event that ends a render.
RenderEnds(i) == Spawns(i) \/ SpawnFails(i) \/ SpawnThrows(i) \/ RenderFails(i)

\* initialHealthCheck comes to its end.
VerificationEnds(i) ==
    (\E o \in ProbeOutcome : ConcludeVerification(i, o)) \/ VerificationThrows(i)

\* The awaited health check comes to its end.
ProbeEnds(i) == (\E o \in ProbeOutcome : HealthProbe(i, o)) \/ HealthProbeThrows(i)

\* The close event of a child is delivered.
ExitDelivered(i) == ExitIgnored(i) \/ ExitHandled(i)

InstanceStep(i) ==
    \/ RenderEnds(i)
    \/ VerificationEnds(i)
    \/ HealthTimerFires(i)
    \/ ProbeEnds(i)
    \/ ExitDelivered(i)
    \/ ProcessCrashes(i)
    \/ ProcessHangs(i)
    \/ ProcessObeys(i)

ServiceStep(s) ==
    \/ StopService(s)
    \/ \E r \in Request : StartRejected(r, s) \/ StartReturnsRunning(r, s)
    \/ \E r \in Request, i \in Instance : StartLaunches(r, s, i)
    \/ \E i \in Instance : RelaunchFires(s, i)

Next == (\E s \in Service : ServiceStep(s)) \/ (\E i \in Instance : InstanceStep(i))

Spec == Init /\ [][Next]_vars

\* Node runs what is due: I/O completes, timers fire, events are delivered; the
\* OS delivers SIGTERM to a child that does not block it.  Requests and faults
\* are owed to nobody.
Fairness ==
    /\ \A s \in Service : WF_vars(\E i \in Instance : RelaunchFires(s, i))
    /\ \A i \in Instance :
         /\ WF_vars(RenderEnds(i))
         /\ WF_vars(VerificationEnds(i))
         /\ WF_vars(HealthTimerFires(i))
         /\ WF_vars(ProbeEnds(i))
         /\ WF_vars(ExitDelivered(i))
         /\ WF_vars(ProcessObeys(i))

FairSpec == Spec /\ Fairness

-----------------------------------------------------------------------------
(* Properties. *)

\* What listActiveServices and startService report as running is an instance
\* whose child has been spawned, is still listened to, and whose end has not
\* been processed; and an entry left pending belongs to a launch that threw.
\* Late events of older instances of the service must not break this.
NoGhostEntry ==
    \A s \in Service : activeCache[s] # None =>
        LET i == activeCache[s] IN
            /\ hash[i] = s
            /\ \/ /\ state[i] = "running"
                  /\ attached[i]
                  /\ process[i] \in {"alive", "hung", "exited"}
               \/ /\ state[i] = "pending"
                  /\ process[i] = "none"
                  /\ launch[i] = "broken"

Launching(s) == \E i \in Instance : hash[i] = s /\ launch[i] = "rendering"
Broken(s)    == \E i \in Instance : hash[i] = s /\ launch[i] = "broken"

\* "Keeping services that have been launched alive": a service somebody started
\* and nobody stopped is recorded, being launched, or due to be relaunched,
\* unless one of its launches was given up by an exception.
NeverForgotten ==
    \A s \in Service :
        wanted[s] => activeCache[s] # None \/ relaunch[s] > 0 \/ Launching(s) \/ Broken(s)

\* The recorded instance of a service with a health section is watched: its
\* health loop goes on, or has ended by sending it SIGTERM, by finding it
\* dead, or by a probe that threw.
Monitored ==
    \A s \in Probed : activeCache[s] # None /\ process[activeCache[s]] # "none" =>
        LET i == activeCache[s] IN
            \/ probe[i] # "idle"
            \/ signalled[i]
            \/ process[i] = "exited"

\* handleHealthEvent stops a child only after Retries failed probes in a row:
\* a success in between must count against the stop.
StopEarned == \A i \in Instance : signalled[i] => streak[i] >= Retries

\* The promise of a start resolves only with an instance of the service asked
\* for.  "It then returns a fully resolved service that includes a pid" (line 110)
\* is true but for one answer: a start whose own launch could not execute its
\* command is announced like any other, and its instance has no pid.  No start
\* is handed an instance without one that somebody else launched.
AnswersCarryPid ==
    \A r \in Request : call[r] = "answered" =>
        /\ answer[r] # None
        /\ hash[answer[r]] = asked[r]
        /\ \/ HasPid(answer[r])
           \/ process[answer[r]] \in {"failed", "void"} /\ emitter[answer[r]] = r

EntersByLaunch ==
    \A s \in Service, i \in Instance :
        activeCache'[s] = i /\ activeCache[s] # i => launch[i] = "rendering"

\* An instance enters the record only when its own launch gets there: no exit,
\* verification, health event or stop puts an instance back.
NoResurrection == [][EntersByLaunch]_vars

LeavesByStopOrLaunch ==
    \A s \in Service, i \in Instance :
        (activeCache[s] = i /\ Live(i) /\ activeCache'[s] # i) =>
            \/ ~wanted'[s]
            \/ \E j \in Instance :
                  /\ hash[j] = s
                  /\ launch[j] = "rendering"
                  /\ launch'[j] # "rendering"

\* A recorded child that is running and listened to leaves the record only by a
\* stop or because another launch of the service takes its place: the exit of
\* an older instance, in particular, does not remove it.
LiveEntryKept == [][LeavesByStopOrLaunch]_vars

\* The service has a recorded child that answers, or one whose silence nobody can
\* notice: it has no health section, or a probe of it threw.
Serving(s) ==
    LET i == activeCache[s] IN
        /\ i # None
        /\ \/ process[i] = "alive"
           \/ process[i] = "hung" /\ (~HasHealth(i) \/ probe[i] = "lost")

\* A wanted service comes to be served again after every crash, hang and failed
\* spawn, unless it is stopped or one of its launches threw.
KeptAlive ==
    \A s \in Service : wanted[s] ~> Serving(s) \/ ~wanted[s] \/ Broken(s)

\* Every start is answered, unless its launch threw or its verification did.
StartsAnswered ==
    \A r \in Request :
        call[r] = "waiting" ~>
            \/ call[r] # "waiting"
            \/ \E i \in Instance : emitter[i] = r /\ launch[i] \in {"broken", "unverified"}

-----------------------------------------------------------------------------
(* The inductive invariant: what the properties above rest on. *)

\* How far a launch has come says what there is of the instance.
InstanceShape ==
    \A i \in Instance :
        /\ launch[i] \in {"unused", "rendering"} =>
              /\ state[i] = "none" /\ process[i] = "none" /\ ~attached[i]
              /\ probe[i] = "idle" /\ ~signalled[i]
        /\ launch[i] = "broken" => process[i] = "none" /\ probe[i] = "idle"
        /\ launch[i] \in {"verifying", "launched", "unverified"} =>
              /\ state[i] \in {"running", "stopped"}
              /\ process[i] # "none"

\* An instance carries the emitter of a start of its service, and every service
\* that was ever launched, or is due to be, has a specification stored.
SpecKept ==
    /\ \A i \in Instance : launch[i] # "unused" =>
          /\ hash[i] \in Service
          /\ emitter[i] \in Request
          /\ asked[emitter[i]] = hash[i]
          /\ serviceCache[hash[i]] # None
    /\ \A s \in Service :
          /\ relaunch[s] > 0 => serviceCache[s] # None
          /\ serviceCache[s] # None => asked[serviceCache[s]] = s
    /\ \A r \in Request : call[r] = "idle" => asked[r] = None

\* The health cache agrees with history, and a signal ends the health loop.
CountsAgree ==
    \A i \in Instance :
        /\ retries[i] = streak[i]
        /\ signalled[i] => probe[i] = "idle"

InductiveInvariant ==
    /\ TypeOK
    /\ InstanceShape
    /\ SpecKept
    /\ CountsAgree
    /\ NoGhostEntry
    /\ NeverForgotten
    /\ Monitored
    /\ StopEarned
    /\ AnswersCarryPid

-----------------------------------------------------------------------------
(* What the comments of the code say of it and its steps do not keep. *)

\* Line 4: "keeps a record of processes launched".  A second launch of a service
\* overwrites the entry of the first, whose child nobody asked to end.
RecordComplete ==
    \A i \in Instance :
        process[i] = "alive" /\ attached[i] /\ ~signalled[i] => activeCache[hash[i]] = i

\* Line 147: "permanently stopping a service from running. Until explicitly
\* re-launched".  A relaunch timer that an earlier exit armed is not cancelled by
\* the stop of the instance started in the meantime.
StopCancelsRelaunch ==
    [][\A s \in Service : wanted[s] /\ ~wanted'[s] => relaunch'[s] = 0]_vars

-----------------------------------------------------------------------------
(* The abstract life cycle the manager implements. *)

Phase(i) ==
    IF launch[i] = "unused" THEN "new"
    ELSE IF launch[i] = "rendering" THEN "pending"
    ELSE IF launch[i] = "broken" THEN "lost"
    ELSE IF state[i] = "stopped" THEN "gone"
    ELSE "running"

Lifecycle == INSTANCE ServiceLifecycle
             WITH phase  <- [i \in Instance |-> Phase(i)],
                  of     <- hash,
                  record <- activeCache,
                  owed   <- relaunch

\* The caches, under every interleaving of starts, stops, late exits and relaunch
\* timers, follow the life cycle of the class comment: an instance never goes
\* through it backwards, and every exit taken notice of is owed a relaunch.
FollowsLifecycle == Lifecycle!Spec
=============================================================================
