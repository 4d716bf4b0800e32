---------------------------- MODULE ServiceRouting ----------------------------
(***************************************************************************)
(* The Router (src/src/lib/router.ts) fed by the external notifications of *)
(* the ServiceProcessManager, which the ServiceManager emits again         *)
(* (src/src/lib/serviceManager.ts).  Emitting is synchronous, so the table *)
(* changes within the step that announces a launch or a termination.       *)
(***************************************************************************)
EXTENDS ServiceProcessManager

CONSTANTS
    Port,       \* the TCP ports of the machine that services may be given
    FixedPort   \* the literal rpcPort of a service, None if it is a template

ASSUME PortAssumption ==
    /\ None \notin Port
    /\ FixedPort \in [Service -> Port \cup {None}]

VARIABLES
    port,       \* rpcPort of an instance, as rendered
    table       \* Router.table: the port a service's path resolves to

routingVars == <<port, table>>
allVars == <<vars, port, table>>

\* The routes and the rendered ports are well typed.
RoutingTypeOK ==
    /\ port \in [Instance -> Port \cup {None}]
    /\ table \in [Service -> Port \cup {None}]

RoutingInit ==
    /\ Init
    /\ port = [i \in Instance |-> None]
    /\ table = [s \in Service |-> None]

\* renderService: a literal rpcPort stays, a template gets a port that getFreePorts
\* could bind.  That may be the port of a live child too, which binds it only some
\* time after it is spawned, or not at all.
RenderPort(s, i) ==
    \E p \in Port :
        /\ FixedPort[s] # None => p = FixedPort[s]
        /\ port' = [port EXCEPT ![i] = p]

\* Variant: the arguments are taken the wrong way round.
SwappedServiceRoute(routes, s, p) == [routes EXCEPT ![s] = s]

\* addServiceRoute sets the route of a path, over the one it had.
AddServiceRoute(routes, s, p) == [routes EXCEPT ![s] = p]

\* rmServiceRoute removes the route of a path if it is the one given.
RmServiceRoute(routes, s, p) == [routes EXCEPT ![s] = IF @ = p THEN None ELSE @]

\* Variant: the notification is lost.
HandleNoNewService(routes, i) == routes

HandleNewService(routes, i) == AddServiceRoute(routes, hash[i], port[i])
HandleTerminatedService(routes, i) == RmServiceRoute(routes, hash[i], port[i])

\* A render begins, with the ports it is given.
RouteRender(s, i) ==
    /\ (\E r \in Request : StartLaunches(r, s, i)) \/ RelaunchFires(s, i)
    /\ RenderPort(s, i)
    /\ UNCHANGED table

\* Variant: the launch is announced before it is verified.
RouteSpawnUnverified(i) ==
    /\ Spawns(i)
    /\ table' = HandleNewService(table, i)
    /\ UNCHANGED port

\* Without a health section the launch is announced in the step that spawns.
RouteSpawn(i) ==
    /\ Spawns(i)
    /\ table' = IF HasHealth(i) THEN table ELSE HandleNewService(table, i)
    /\ UNCHANGED port

\* A failed spawn announces the launch, unless it would be verified first, and
\* then the termination.
RouteSpawnFailure(i) ==
    /\ SpawnFails(i)
    /\ table' = HandleTerminatedService(
                    IF HasHealth(i) THEN table ELSE HandleNewService(table, i), i)
    /\ UNCHANGED port

\* The launch is announced at the end of the initial health check.
RouteVerification(i) ==
    /\ \E o \in ProbeOutcome : ConcludeVerification(i, o)
    /\ table' = HandleNewService(table, i)
    /\ UNCHANGED port

\* The termination is announced when an exit is handled.
RouteExit(i) ==
    /\ ExitHandled(i)
    /\ table' = HandleTerminatedService(table, i)
    /\ UNCHANGED port

\* The steps that announce nothing; a stop is one of them.
QuietServiceStep(s) ==
    \/ StopService(s)
    \/ \E r \in Request : StartRejected(r, s) \/ StartReturnsRunning(r, s)

QuietInstanceStep(i) ==
    \/ SpawnThrows(i) \/ RenderFails(i) \/ VerificationThrows(i)
    \/ HealthTimerFires(i) \/ ProbeEnds(i)
    \/ ExitIgnored(i)
    \/ ProcessCrashes(i) \/ ProcessHangs(i) \/ ProcessObeys(i)

RoutingNext ==
    \/ \E s \in Service, i \in Instance : RouteRender(s, i)
    \/ \E i \in Instance :
          RouteSpawn(i) \/ RouteSpawnFailure(i) \/ RouteVerification(i) \/ RouteExit(i)
    \/ (\E s \in Service : QuietServiceStep(s)) /\ UNCHANGED routingVars
    \/ (\E i \in Instance : QuietInstanceStep(i)) /\ UNCHANGED routingVars

RoutingSpec == RoutingInit /\ [][RoutingNext]_allVars
FairRoutingSpec == RoutingSpec /\ Fairness

-----------------------------------------------------------------------------
(* Properties. *)

\* A path resolves only to a port that an instance of that service was rendered
\* with and announced.
RouteWasAnnounced ==
    \A s \in Service : table[s] # None =>
        \E i \in Instance : hash[i] = s /\ port[i] = table[s] /\ launch[i] = "launched"

\* The path of a service whose recorded instance runs and was announced has a route,
\* whatever exits and launches of the same service happened around it.  That it is
\* the route of that very instance is Discoverable, below, which does not hold.
Routed ==
    \A s \in Service :
        LET i == activeCache[s] IN
            i # None /\ state[i] = "running" /\ launch[i] = "launched" => table[s] # None

\* A path loses its route only in a step that leaves the service owed a relaunch.
LossIsOwed ==
    \A s \in Service :
        table[s] # None /\ table'[s] = None => relaunch'[s] = relaunch[s] + 1

\* The routes that disappear are those of services that will be launched again.
RouteLossOwed == [][LossIsOwed]_allVars

\* A wanted service without a route gets one, unless it is stopped, one of its
\* launches threw, or a verification of it did.
RouteRestored ==
    \A s \in Service :
        (wanted[s] /\ table[s] = None) ~>
            \/ table[s] # None
            \/ ~wanted[s]
            \/ \E i \in Instance : hash[i] = s /\ launch[i] \in {"broken", "unverified"}
-----------------------------------------------------------------------------
(* What the README says of the runner and its steps do not keep. *)

\* "Provides reliable discovery of pre-existing services run by the service runner"
\* (README.md, line 60): the path of a service leads to the instance that runs.
\* An instance that ended during its initial health check is announced all the
\* same when the check gives up, over the route of its successor.
Discoverable ==
    \A s \in Service :
        LET i == activeCache[s] IN
            i # None /\ state[i] = "running" /\ launch[i] = "launched" => table[s] = port[i]
=============================================================================
