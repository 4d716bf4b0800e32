--------------------------- MODULE ConnectionManager ---------------------------
(***************************************************************************)
(* The proxy of the runner: ConnectionManager                              *)
(* (src/src/lib/connectionManager.ts) with its frontends and backends, and *)
(* the WebSocketProxyServer (src/src/lib/wsProxyServer.ts) that holds an   *)
(* upgrade back until the backend is there.                                *)
(*                                                                         *)
(* All upgrades share one emitter, the server: each registers a one-shot   *)
(* listener for "upgraded" and one for "terminateConnection", and whoever  *)
(* emits one of these calls the listeners of everybody.  Emitting is       *)
(* synchronous, and so is handleUpgrade of the ws package.                 *)
(***************************************************************************)
EXTENDS Naturals, Sequences

CONSTANTS
    Client,    \* WebSocket clients; each asks for one upgrade
    Exchange,  \* HTTP requests
    Path,      \* the paths clients may ask for
    Fault,     \* the faults the environment may inject
    MaxFaults, \* how many of them one behaviour may contain
    None       \* neither a client nor a path

ASSUME NoneAssumption  == None \notin Client \cup Path
ASSUME FaultAssumption == Fault \subseteq {"refuse", "reset", "frame"} /\ MaxFaults \in Nat

VARIABLES
    runner,      \* the runner process
    strict,      \* the installed ws throws when a socket is upgraded twice
    routed,      \* the paths Router.resolve finds
    client,      \* the connection of a WebSocket client
    path,        \* the path a client asked for
    backend,     \* the backend connection opened for the upgrade of a client
    link,        \* the client whose backend a client is joined to
    onUpgraded,  \* clients with a listener for "upgraded", oldest first
    onTerminate, \* clients with a listener for "terminateConnection", oldest first
    exchange,    \* how far an HTTP request has come
    alone,       \* history: clients whose upgrade never overlapped another
    faults       \* history: the faults injected so far

listenerVars == <<onUpgraded, onTerminate>>
socketVars   == <<client, path, backend, link>>
vars == <<runner, strict, routed, socketVars, listenerVars, exchange, alone, faults>>

\* Type correctness: what connections, listeners and requests can be.
TypeOK ==
    /\ runner \in {"up", "down"}
    /\ strict \in BOOLEAN
    /\ routed \in SUBSET Path
    /\ client \in [Client -> {"idle", "upgrading", "open", "closing", "closed"}]
    /\ path \in [Client -> Path \cup {None}]
    /\ backend \in [Client -> {"none", "connecting", "open", "closed"}]
    /\ link \in [Client -> Client \cup {None}]
    /\ onUpgraded \in Seq(Client)
    /\ onTerminate \in Seq(Client)
    /\ exchange \in [Exchange -> {"idle", "asked", "answering", "answered", "lost"}]
    /\ alone \in SUBSET Client
    /\ faults \in 0..MaxFaults

Init ==
    /\ runner = "up"
    /\ strict \in BOOLEAN
    /\ routed = {}
    /\ client = [c \in Client |-> "idle"]
    /\ path = [c \in Client |-> None]
    /\ backend = [c \in Client |-> "none"]
    /\ link = [c \in Client |-> None]
    /\ onUpgraded = <<>>
    /\ onTerminate = <<>>
    /\ exchange = [e \in Exchange |-> "idle"]
    /\ alone = {}
    /\ faults = 0

\* The environment injects a fault of this kind, within the bound MaxFaults.
Injects(kind) ==
    /\ kind \in Fault
    /\ faults < MaxFaults
    /\ faults' = faults + 1

\* An exception that nobody catches ends the process and every connection of it.
RunnerDies ==
    /\ runner' = "down"
    /\ client' = [c \in Client |-> IF client[c] = "idle" THEN "idle" ELSE "closed"]
    /\ backend' = [c \in Client |-> IF backend[c] = "none" THEN "none" ELSE "closed"]
    /\ exchange' = [e \in Exchange |->
                       IF exchange[e] \in {"asked", "answering"} THEN "lost" ELSE exchange[e]]
    /\ onUpgraded' = <<>>
    /\ onTerminate' = <<>>
    /\ UNCHANGED <<strict, routed, path, link, alone>>

-----------------------------------------------------------------------------
(* Emitting to the one-shot listeners of the server. *)

Accepted(c) == client[c] \in {"open", "closing"}

\* How many listeners of a list complete.  A strict ws throws in the first one
\* whose socket has been upgraded before; it may find one that is closing gone.
Completing(list) ==
    {k \in 0..Len(list) :
        /\ k < Len(list) => strict /\ Accepted(list[k + 1])
        /\ strict => \A j \in 1..k : client[list[j]] # "open"}

Called(list, k) == {list[j] : j \in 1..k}

\* Variants: an emission removes all listeners; it removes none.
LeftNone(list, k) == <<>>
LeftAll(list, k) == list

\* A listener is removed before it is called, the one that throws included; those
\* after it stay.
Left(list, k) == SubSeq(list, k + 2, Len(list))

\* Who is accepted to be closed, and who is left as he is: client c has just asked.
AfterTermination(c, called) ==
    [d \in Client |-> IF d \in called /\ client[d] # "closed" THEN "closing"
                      ELSE IF d = c THEN "upgrading"
                      ELSE client[d]]

\* "terminateConnection": sockets are accepted to be closed with a reason.  One that
\* was accepted before is written a second response into its frames, which its
\* client cannot but close on.  An exception rejects the promise of the listener
\* for "establish", which has no effect.
Termination(c, list, k) ==
    /\ client' = AfterTermination(c, Called(list, k))
    /\ onTerminate' = Left(list, k)
    /\ UNCHANGED <<runner, strict, routed, backend, link, exchange>>

-----------------------------------------------------------------------------
(* WebSocket clients. *)

Waiting == {c \in Client : client[c] = "upgrading"}
Pending == Waiting \cup {c \in Client : backend[c] = "connecting"}

\* The upgrade of c overlaps those that are under way, if their clients are there
\* or not.
Meets(c) ==
    alone' = IF Pending = {} THEN alone \cup {c} ELSE alone \ Pending

\* Variant: the wrong argument is taken for the path.
RegistersItself(c, p) ==
    /\ path' = [path EXCEPT ![c] = c]
    /\ onUpgraded' = Append(onUpgraded, c)
    /\ Meets(c)

\* The upgrade event of the HTTP server registers the listeners of its socket; what
\* becomes of the one for "terminateConnection" is up to the Router.
Registers(c, p) ==
    /\ path' = [path EXCEPT ![c] = p]
    /\ onUpgraded' = Append(onUpgraded, c)
    /\ Meets(c)

\* An upgrade is asked for, of a path the Router knows: wsBackend connects.
UpgradeForwarded(c, p) ==
    /\ runner = "up"
    /\ client[c] = "idle"
    /\ p \in routed
    /\ Registers(c, p)
    /\ client' = [client EXCEPT ![c] = "upgrading"]
    /\ backend' = [backend EXCEPT ![c] = "connecting"]
    /\ onTerminate' = Append(onTerminate, c)
    /\ UNCHANGED <<runner, strict, routed, link, exchange, faults>>

\* An upgrade is asked for, of a path the Router does not know: both listeners are
\* registered, and the emission of "terminateConnection" calls everybody's.
UpgradeRefused(c, p) ==
    /\ runner = "up"
    /\ client[c] = "idle"
    /\ p \notin routed
    /\ Registers(c, p)
    /\ \E k \in Completing(Append(onTerminate, c)) :
          Termination(c, Append(onTerminate, c), k)
    /\ UNCHANGED faults

\* Who of those called handleUpgrade hands a websocket for: all whose socket is
\* there, and in a strict ws only those it was not upgraded for before.
MayJoin(called) ==
    {joined \in SUBSET called :
        /\ \A d \in joined : client[d] # "closed" /\ (strict => client[d] = "upgrading")
        /\ \A d \in called \ joined : client[d] \in {"closing", "closed"}}

\* Variant: whoever is joined is open, refused or not.
AfterJoinOpen(d) == "open"

\* Who was waiting is open.  Who was accepted before cannot read the second
\* response, or goes on closing.
AfterJoin(d) == IF client[d] = "upgrading" THEN "open" ELSE "closing"

\* The backend connection of c's upgrade opens: "upgraded" is emitted with it, and
\* calls everybody's listeners.
BackendOpens(c) ==
    /\ runner = "up"
    /\ backend[c] = "connecting"
    /\ backend' = [backend EXCEPT ![c] = "open"]
    /\ \E k \in Completing(onUpgraded) :
          /\ onUpgraded' = Left(onUpgraded, k)
          /\ \E joined \in MayJoin(Called(onUpgraded, k)) :
                /\ client' = [d \in Client |-> IF d \in joined THEN AfterJoin(d) ELSE client[d]]
                /\ link' = [d \in Client |-> IF d \in joined THEN c ELSE link[d]]
    /\ UNCHANGED <<runner, strict, routed, path, onTerminate, exchange, alone, faults>>

\* A backend connection cannot be opened, or fails later on: wsBackend emits "error" on
\* a bus where wsFrontend does not listen for it, and Node throws.
BackendFails(c) ==
    /\ runner = "up"
    /\ backend[c] \in {"connecting", "open"}
    /\ Injects("refuse")
    /\ RunnerDies

\* Variant: a backend that closes leaves its clients alone.
BackendClosesQuietly(c) ==
    /\ runner = "up"
    /\ backend[c] = "open"
    /\ backend' = [backend EXCEPT ![c] = "closed"]
    /\ UNCHANGED <<runner, strict, routed, client, path, link, listenerVars, exchange, alone, faults>>

\* A backend connection is closed or lost: the clients joined to it are closed.
BackendCloses(c) ==
    /\ runner = "up"
    /\ backend[c] = "open"
    /\ backend' = [backend EXCEPT ![c] = "closed"]
    /\ client' = [d \in Client |->
                     IF link[d] = c /\ client[d] = "open" THEN "closing" ELSE client[d]]
    /\ UNCHANGED <<runner, strict, routed, path, link, listenerVars, exchange, alone, faults>>

\* A client goes away, or its closing handshake ends.  Nobody listens: its
\* listeners and its backend connection stay.
ClientCloses(c) ==
    /\ runner = "up"
    /\ client[c] \in {"upgrading", "open", "closing"}
    /\ client' = [client EXCEPT ![c] = "closed"]
    /\ UNCHANGED <<runner, strict, routed, path, backend, link, listenerVars, exchange, alone, faults>>

\* The connection of a waiting client is reset: between the upgrade event of the
\* HTTP server and handleUpgrade nobody listens for the error of its socket.
ClientResets(c) ==
    /\ runner = "up"
    /\ client[c] = "upgrading"
    /\ Injects("reset")
    /\ RunnerDies

\* A client that was accepted sends what is no frame: ws emits "error" on its websocket,
\* where wsFrontend and WebSocketProxyServer do not listen for it, and Node throws.
ClientBreaksFrame(c) ==
    /\ runner = "up"
    /\ Accepted(c)
    /\ Injects("frame")
    /\ RunnerDies

-----------------------------------------------------------------------------
(* HTTP requests, and the routes of both. *)

Progress(e, from, to) ==
    /\ runner = "up"
    /\ exchange[e] \in from
    /\ exchange' = [exchange EXCEPT ![e] = to]
    /\ UNCHANGED <<runner, strict, routed, socketVars, listenerVars, alone>>

\* The path is not routed: the client gets an error at once.
HttpRefused(e, p) == p \notin routed /\ Progress(e, {"idle"}, "answered") /\ UNCHANGED faults

\* httpBackend sends the request to the service.
HttpForwarded(e, p) == p \in routed /\ Progress(e, {"idle"}, "asked") /\ UNCHANGED faults

\* The service answers: forwardRequest responds with its head.
HttpResponds(e) == Progress(e, {"asked"}, "answering") /\ UNCHANGED faults

\* The request fails before an answer: a gateway error is the answer.
HttpFails(e) == Progress(e, {"asked"}, "answered") /\ Injects("refuse")

\* The body of the answer ends; a connection that is closed early ends it too.
HttpEnds(e) == Progress(e, {"answering"}, "answered") /\ UNCHANGED faults

\* The connection is reset within the body: the error event of the request answers
\* a second time, which throws because the head is written.
HttpReset(e) ==
    /\ runner = "up"
    /\ exchange[e] = "answering"
    /\ Injects("reset")
    /\ RunnerDies

\* A launch or a termination changes the table of the Router.
RouteChanges(p) ==
    /\ runner = "up"
    /\ routed' = IF p \in routed THEN routed \ {p} ELSE routed \cup {p}
    /\ UNCHANGED <<runner, strict, socketVars, listenerVars, exchange, alone, faults>>

-----------------------------------------------------------------------------

ClientStep(c) ==
    \/ \E p \in Path : UpgradeForwarded(c, p) \/ UpgradeRefused(c, p)
    \/ BackendOpens(c) \/ BackendFails(c) \/ BackendCloses(c)
    \/ ClientCloses(c) \/ ClientResets(c) \/ ClientBreaksFrame(c)

ExchangeStep(e) ==
    \/ \E p \in Path : HttpRefused(e, p) \/ HttpForwarded(e, p)
    \/ HttpResponds(e) \/ HttpFails(e) \/ HttpEnds(e) \/ HttpReset(e)

Next ==
    \/ \E c \in Client : ClientStep(c)
    \/ \E e \in Exchange : ExchangeStep(e)
    \/ \E p \in Path : RouteChanges(p)

Spec == Init /\ [][Next]_vars

-----------------------------------------------------------------------------
(* Properties. *)

\* An open client talks to a backend connection that is open: whoever's listeners
\* were called by whom, a backend that closes takes its clients along.
NoDeadLink ==
    \A c \in Client : client[c] = "open" => link[c] # None /\ backend[link[c]] = "open"

Listens(list, c) == \E k \in 1..Len(list) : list[k] = c

\* A client that waits still has both of its listeners: no emission for somebody
\* else, and no exception in one, makes the server forget it.
WaitingIsHeard ==
    \A c \in Waiting : Listens(onUpgraded, c) /\ Listens(onTerminate, c)

\* A client whose upgrade overlapped no other one is joined to the backend that
\* was opened for it.
OwnBackend == \A c \in alone : client[c] = "open" => link[c] = c

\* A client is joined once: what it talks to is not exchanged under it.
LinkIsFinal == [][\A c \in Client : link[c] # None => link'[c] = link[c]]_vars

\* The proxy closes an open client for two reasons only: the backend connection that the
\* client is joined to has closed, or another client has just asked for a path that is
\* not routed, and the listener for "terminateConnection" that is left of the client's
\* own upgrade is called with it.  No opening of a backend for somebody else does.
ClosedWithCause ==
    [][\A c \in Client : client[c] = "open" /\ client'[c] = "closing" =>
          \/ backend'[link[c]] = "closed"
          \/ /\ Listens(onTerminate, c)
             /\ \E d \in Client \ {c} :
                   client[d] = "idle" /\ client'[d] # "idle" /\ path'[d] \notin routed]_vars

-----------------------------------------------------------------------------
(* What the comments of the code say of it and its steps do not keep. *)

\* wsProxyServer.ts, lines 22-25: the backend an upgrade creates is the one that is
\* "used for communication".  Overlapping upgrades get each other's.
PathKept ==
    \A c \in Client : client[c] = "open" => path[link[c]] = path[c]
=============================================================================
