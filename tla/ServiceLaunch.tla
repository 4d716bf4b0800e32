---------------------------- MODULE ServiceLaunch ----------------------------
(***************************************************************************)
(* What a launch of the process manager does to the machine: the ports it  *)
(* is given by getFreePorts (src/src/lib/util.ts) through renderService    *)
(* (src/src/lib/serviceTemplate.ts), the setup commands it starts without  *)
(* waiting for them, and the child that needs both                         *)
(* (src/src/lib/serviceProcessManager.ts).                                 *)
(*                                                                         *)
(* A service goes through one launch after the other here; overlapping     *)
(* launches of one service, its caches and its health loop are in          *)
(* ServiceProcessManager.  Launches of different services overlap, and     *)
(* compete for ports.                                                      *)
(***************************************************************************)
EXTENDS Naturals, Sequences

CONSTANTS
    Service,    \* the services somebody may start
    TcpPort,    \* the port numbers the machine gives to TCP sockets
    UdpPort,    \* the port numbers it gives to UDP sockets
    Uses,       \* the port templates in the arguments of a service
    Setup,      \* the number of its setup commands
    UdpHealth,  \* the services whose health port is a UDP port
    Fault,      \* the faults the environment may inject
    MaxFaults,  \* how many of them one behaviour may contain
    None        \* undefined

TcpNames == {"TCP_1", "TCP_2", "TCP_3"}
UdpNames == {"UDP_1", "UDP_2", "UDP_3"}

ASSUME UseAssumption ==
    /\ Uses \in [Service -> SUBSET (TcpNames \cup UdpNames)]
    /\ Setup \in [Service -> Nat]
    /\ UdpHealth \subseteq Service
    /\ None \notin TcpPort \cup UdpPort
    /\ TcpPort \cap UdpPort = {}    \* so that a number tells how it was tested
ASSUME FaultAssumption ==
    /\ Fault \subseteq {"crash", "setup", "noexec", "collide", "coincide"}
    /\ MaxFaults \in Nat

VARIABLES
    runner,     \* the runner process
    stage,      \* the current launch of a service
    ports,      \* the ports rendered into the arguments of that launch
    setup,      \* the setup commands of a service that are running
    effect,     \* the setup commands whose effect is on the disk
    faults      \* history: the faults injected so far

vars == <<runner, stage, ports, setup, effect, faults>>

Number == TcpPort \cup UdpPort

\* Type correctness: the launches, their ports and their commands.
TypeOK ==
    /\ runner \in {"up", "ended"}
    /\ stage \in [Service -> {"idle", "rendering", "starting", "serving", "exited"}]
    /\ \A s \in Service :
          /\ ports[s] \in [Uses[s] -> Number \cup {None}]
          /\ setup[s] \subseteq 1..Setup[s]
          /\ effect[s] \subseteq 1..Setup[s]
    /\ faults \in 0..MaxFaults

Init ==
    /\ runner = "up"
    /\ stage = [s \in Service |-> "idle"]
    /\ ports = [s \in Service |-> [n \in Uses[s] |-> None]]
    /\ setup = [s \in Service |-> {}]
    /\ effect = [s \in Service |-> {}]
    /\ faults = 0

\* The environment injects a fault of this kind, within the bound MaxFaults.
Injects(kind) ==
    /\ kind \in Fault
    /\ faults < MaxFaults
    /\ faults' = faults + 1

\* The launch of s is where from says, and goes on.
Goes(s, from, to) ==
    /\ stage[s] = from
    /\ stage' = [stage EXCEPT ![s] = to]

-----------------------------------------------------------------------------
(* Ports. *)

\* The six ports getFreePorts may wait for: three TCP ports, bound at the same time
\* and so distinct, and three UDP ports, each closed before the next one is bound.
Pools ==
    {tcp \o udp : tcp \in {t \in [1..3 -> TcpPort] : \A i, j \in 1..3 : i # j => t[i] # t[j]},
                  udp \in [1..3 -> UdpPort]}

\* getFreePorts reads what it has waited for from the second port on, past its end:
\* the third TCP port is one that was tested as a UDP port, the third UDP port none.
DynamicPorts(avail) ==
    [TCP_1 |-> avail[2], TCP_2 |-> avail[3], TCP_3 |-> avail[4],
     UDP_1 |-> avail[5], UDP_2 |-> avail[6], UDP_3 |-> None]

\* What renderService may make of the templates in the arguments of a service.
Rendered ==
    [s \in Service |-> {[n \in Uses[s] |-> DynamicPorts(avail)[n]] : avail \in Pools}]

\* The ports that children hold, by protocol.
Bound(names) ==
    UNION {{ports[s][n] : n \in Uses[s] \cap names} :
           s \in {t \in Service : stage[t] = "serving"}}

\* The ports that cannot be bound when getFreePorts tests them.
Taken == (Bound(TcpNames) \cap TcpPort) \cup (Bound(UdpNames) \cap UdpPort)

\* A render is given ports that no child held when they were tested.  There are always
\* enough for the ones that it does not use; that two UDP ports are the same is rare
\* enough to be a fault.
RenderService(s) ==
    \E rendered \in Rendered[s] :
        /\ \A n \in Uses[s] : rendered[n] \notin Taken
        /\ ports' = [ports EXCEPT ![s] = rendered]
        /\ IF \E m, n \in Uses[s] \cap UdpNames : m # n /\ rendered[m] = rendered[n]
           THEN Injects("coincide")
           ELSE UNCHANGED faults

-----------------------------------------------------------------------------
(* Launches. *)

\* A client starts a service.
StartService(s) ==
    /\ runner = "up"
    /\ Goes(s, "idle", "rendering")
    /\ RenderService(s)
    /\ UNCHANGED <<runner, setup, effect>>

\* Variant: what was rendered for the launch that ended is launched again.
RelaunchRendered(s) ==
    /\ runner = "up"
    /\ Goes(s, "exited", "rendering")
    /\ UNCHANGED <<runner, ports, setup, effect, faults>>

\* The relaunch timer of handleExitEvent is due: the specification, with its
\* templates, is rendered again.
RelaunchFires(s) ==
    /\ runner = "up"
    /\ Goes(s, "exited", "rendering")
    /\ RenderService(s)
    /\ UNCHANGED <<runner, setup, effect>>

\* Variant: a service that has been set up, or tried to, is not set up again.
SpawnSetupOnce(s) ==
    setup' = [setup EXCEPT ![s] = IF effect[s] = {} THEN 1..Setup[s] ELSE @]

\* Variant: the commands are counted from zero.
SpawnFromZero(s) == setup' = [setup EXCEPT ![s] = 0..(Setup[s] - 1)]

\* spawnSeqCommands starts the commands all at once and waits for none of them.
SpawnSeqCommands(s) == setup' = [setup EXCEPT ![s] = 1..Setup[s]]

\* handleLaunchEvent: the setup commands and the start command are spawned.
HandleLaunchEvent(s) ==
    /\ runner = "up"
    /\ Goes(s, "rendering", "starting")
    /\ SpawnSeqCommands(s)
    /\ UNCHANGED <<runner, ports, effect, faults>>

\* A setup command cannot be executed: its error is thrown from an event.
SetupThrows(s) ==
    /\ runner = "up"
    /\ Setup[s] > 0
    /\ Goes(s, "rendering", "starting")
    /\ Injects("noexec")
    /\ runner' = "ended"
    /\ UNCHANGED <<ports, setup, effect>>

\* A setup command exits, whatever became of the ones before it; it has its effect
\* if they had theirs.
SetupExits(s, k) ==
    /\ k \in setup[s]
    /\ setup' = [setup EXCEPT ![s] = @ \ {k}]
    /\ effect' = [effect EXCEPT ![s] = IF 1..(k - 1) \subseteq @ THEN @ \cup {k} ELSE @]
    /\ UNCHANGED <<runner, stage, ports, faults>>

\* A setup command exits without its effect; its exit code is not looked at.
SetupFails(s, k) ==
    /\ k \in setup[s]
    /\ Injects("setup")
    /\ setup' = [setup EXCEPT ![s] = @ \ {k}]
    /\ UNCHANGED <<runner, stage, ports, effect>>

SetUp(s) == effect[s] = 1..Setup[s]

\* There is a port for every template, no two of them are the same, and no other child
\* has one of them.
CanBind(s) ==
    \A names \in {TcpNames, UdpNames} :
        \A m \in Uses[s] \cap names :
            /\ ports[s][m] # None
            /\ ports[s][m] \notin Bound(names)
            /\ \A n \in (Uses[s] \cap names) \ {m} : ports[s][m] # ports[s][n]

\* The child finds what it was set up with, and binds its ports.
Binds(s) ==
    /\ Goes(s, "starting", "serving")
    /\ SetUp(s)
    /\ CanBind(s)
    /\ UNCHANGED <<runner, ports, setup, effect, faults>>

\* The start command is not set up yet: it cannot be executed, or exits.  Either is
\* an exit to the process manager, which arms the relaunch timer.
StartFails(s) ==
    /\ Goes(s, "starting", "exited")
    /\ ~SetUp(s)
    /\ UNCHANGED <<runner, ports, setup, effect, faults>>

\* A port was given away since it was tested, or there is none: the child exits.
BindFails(s) ==
    /\ Goes(s, "starting", "exited")
    /\ ~CanBind(s)
    /\ UNCHANGED <<runner, ports, setup, effect, faults>>

\* Another render tests the port at this very moment, or the UDP probe of the
\* service itself does, by binding it: the child exits.
BindCollides(s) ==
    /\ Goes(s, "starting", "exited")
    /\ s \in UdpHealth \/ \E t \in Service : stage[t] = "rendering"
    /\ Injects("collide")
    /\ UNCHANGED <<runner, ports, setup, effect>>

\* A child that serves ends.
Crashes(s) ==
    /\ Goes(s, "serving", "exited")
    /\ Injects("crash")
    /\ UNCHANGED <<runner, ports, setup, effect>>

-----------------------------------------------------------------------------

\* What becomes of the start command.
ChildStarts(s) == StartFails(s) \/ Binds(s) \/ BindFails(s)

Next ==
    \E s \in Service :
        \/ StartService(s) \/ RelaunchFires(s)
        \/ HandleLaunchEvent(s) \/ SetupThrows(s)
        \/ \E k \in setup[s] : SetupExits(s, k) \/ SetupFails(s, k)
        \/ ChildStarts(s) \/ BindCollides(s) \/ Crashes(s)

Spec == Init /\ [][Next]_vars

\* Timers fire, renders and commands end, children start or exit.  Starts and
\* faults are owed to nobody.
Fairness ==
    \A s \in Service :
        /\ WF_vars(RelaunchFires(s))
        /\ WF_vars(HandleLaunchEvent(s))
        /\ \A k \in 1..Setup[s] : WF_vars(SetupExits(s, k))
        /\ WF_vars(ChildStarts(s))

FairSpec == Spec /\ Fairness

-----------------------------------------------------------------------------
(* Properties. *)

\* Whatever clashes over ports, collisions with a test of a port, setup commands
\* that are overtaken by one another and by the start command, and crashes there
\* are: when the faults are over, every service that was started comes to serve,
\* and goes on, unless the runner has ended.
Settles == <>[](runner = "up" => \A s \in Service : stage[s] \in {"idle", "serving"})

\* Setup commands that nobody waits for take effect in the end, all of them.
SetupTakesEffect ==
    \A s \in Service : stage[s] = "rendering" ~> SetUp(s) \/ runner = "ended"

-----------------------------------------------------------------------------
(* What the comments of the code say of it and its steps do not keep. *)

\* "Returns a set of TCP and UDP Ports ... free TCP and UDP Ports" (util.ts, lines
\* 82-85): what a template is rendered with was bound for a test with the protocol
\* of the template.  The indices of getFreePorts are one too high, so the third TCP
\* port comes from the UDP ports, and the third UDP port from nowhere.
FreshPorts ==
    \A s \in Service : stage[s] # "idle" =>
        /\ \A n \in Uses[s] \cap TcpNames : ports[s][n] \in TcpPort
        /\ \A n \in Uses[s] \cap UdpNames : ports[s][n] \in UdpPort
=============================================================================
