# Jade Service Runner in TLA+

Jade Service Runner (`src/`) is a JSON-RPC server, written in TypeScript for
Node 12, that downloads services, launches them as child processes, keeps them
alive, and routes HTTP and WebSocket clients to them. This directory has TLA+
models of it, the TLC runs that check them, and TLAPS proofs about them.

Paths below are relative to the repository; `lib/` stands for `src/src/lib/`.

## 1. The system

| Component | State | Operations | Hard behaviour |
|---|---|---|---|
| `ServiceProcessManager` (`lib/serviceProcessManager.ts`) | `serviceCache`, `activeServiceCache` (by service hash), `healthCache` (by pid); armed timers; listeners on children | `launchService`, `terminateService`, `processServiceEvents` and its handlers: pending, launch, exit, health, stop, terminate | handlers await renders and probes while other handlers run; exits and launches of several instances of one service arrive in any order; relaunch timers nobody cancels |
| `ServiceManager` (`lib/serviceManager.ts`) | none of its own; one emitter per start | `startService`, `stopService`, `listActiveServices` | the decision to launch is taken on what is recorded *now*, while a launch is under way |
| `Router` (`lib/router.ts`) | `table`: path to port | `handleNewService`, `handleTerminatedService`, `resolve` | notifications of several instances of one path, in any order; ports that are used again |
| `EventBus` (`lib/events.ts`) | none | `emit` | synchronous: a handler runs inside the emitter's step up to its first await |
| Service template and ports (`lib/serviceTemplate.ts`, `lib/util.ts`) | none | `renderService`, `getFreePorts`, `isUp` | a port is free only while it is tested; a probe may throw |
| `Repo` (`lib/repo.ts`) | the manifest file; the service directories | `init`, `getServiceEntry`, `addService` | read, extract, write back; a file written in place; crashes |
| `Installer` (`lib/installer.ts`, `lib/util.ts`) | downloaded files | `install`, `download`, `downloadAsset`, `extractAsset` | concurrent installs share files; downloads fail or are cut; broken archives |
| `Config` (`lib/config.ts`) | the merged configuration | `getService`, `extendConfig`, `getAvailableServices` | look-up by name only; duplicate detection; the manifest outlives it |
| `ConnectionManager`, frontends, backends (`lib/connectionManager.ts`, `lib/frontends/`, `lib/backends/`) | open sockets and requests | `forwardRequest`, upgrade, proxying | backend errors, half-closed connections |
| `WebSocketProxyServer` (`lib/wsProxyServer.ts`) | listeners of one `ws` server | upgrade | one-shot listeners shared by concurrent upgrades |
| `startServiceRunner`, `ServiceRunnerServer`, RPC methods (`src/src/index.ts`, `lib/serviceRunnerServer.ts`, `src/src/methods/index.ts`) | the runner, over restarts | start-up, `installService`, `startService`, `listServices` | a restart with another configuration over the same manifest |
| `ProxyServer`, CLI, logging | wiring | start-up | none: one sequence of calls |

How they interact: an RPC method calls `Installer.install` or
`ServiceManager.startService`. The latter reads the manifest through `Repo`,
takes the configuration from `Config` and calls the process manager, whose
handlers drive one another over the `EventBus`, spawn children and set timers.
Launches and exits are announced on an external emitter, which the
`ServiceManager` emits again and the `Router` listens to; the proxies ask the
`Router` for the port of a path.

What makes each part correct:

- **process manager**: the active cache tells the truth about children; a late
  event of an old instance never harms a new one; a service somebody wants is
  never silently dropped and comes back after every crash; no child is stopped
  by the health loop that did not earn it; a start is answered, with an
  instance that has a pid;
- **router**: a recorded, announced instance can be found; a route leads to an
  instance that announced it; a route that is lost comes back;
- **launches and ports**: a template gets a port of its protocol; whatever clashes, a
  service comes to serve; setup commands nobody waits for take effect;
- **installer and repository**: an entry in the manifest stands for files that
  are there, all of them; nothing that was recorded is forgotten; every install ends;
- **configuration and methods**: what users add replaces nothing; what runs is of
  the version it is run as; what an install returned true for is on record; a list
  does not fail;
- **proxies**: an open client talks to a live backend, and to its own one; it is not
  closed for nothing; a waiting client is not forgotten because of another.

## 2. The modules

| Module | What it is |
|---|---|
| `ServiceProcessManager` | the process manager with `startService` and `stopService` |
| `ServiceLifecycle` | the abstract life cycle it implements |
| `ServiceRouting` | the router composed with the process manager (EXTENDS it) |
| `ServiceLaunch` | what a launch does to the machine: ports, setup commands, children |
| `Installer` | `Installer`, `Repo` and asset handling, with crashes |
| `InstallsInTurn` | the installer with a history of what has overlapped and what was cut short, and what it promises to calls made in turn (EXTENDS `Installer`) |
| `Repository` | the abstract repository it implements when calls do not overlap |
| `Configuration` | `Config`, as operators |
| `ServiceRunnerServer` | the RPC methods over restarts with other configurations (EXTENDS `Configuration`) |
| `ConnectionManager` | the proxies: WebSocket upgrades, their backends, HTTP exchanges |
| `MCServiceProcessManager`, `MCServiceRouting`, `MCServiceLaunch`, `MCInstaller`, `MCServiceRunnerServer`, `MCConnectionManager` | what the `.cfg` files need: symmetry sets, constant functions, ordered specifications |
| `ServiceProcessManagerProofs`, `ServiceLifecycleProofs`, `ServiceRoutingProofs`, `ServiceLaunchProofs`, `InstallerProofs`, `InstallsInTurnProofs`, `ServiceRunnerServerProofs`, `ConnectionManagerProofs` | the theorems |

A definition whose comment begins with "Variant" is a plausible error of the
definition below it (a missing reset, a dropped guard, another order). No
specification uses the variants: each of them, put in the place of the
definition below it, violates a property, which shows that the property would
notice the error (`PROJECT.json`, "mutants").

### 2.1 ServiceProcessManager

*Instances.* An instance is one `ActiveServiceSpec` object: what one call of
`renderService` returned, with the child that `handleLaunchEvent` spawned for
it. The code compares children by pid; instances are told apart by identity, so
the reuse of a pid by the OS is left out. `activeCache[s]` and
`serviceCache[s]` are the maps of lines 91 and 92, keyed by the service hash;
the second holds the *request* whose specification was stored, because what
matters of a specification is whose notifications emitter it carries.

*Atomicity.* Node runs one callback at a time and drains its promises before the
next one. An action is therefore everything from one timer, I/O completion,
request or child-process event to the next real wait. In particular, the end of
a render (`getFreePorts` is real I/O) runs through "pending" and "launch"
to `spawn`, the cache entry, the first `sendHealthEvent` and, without a health
section, the announcement: one step, `Spawns`. With a health section the
announcement comes after `initialHealthCheck`: `ConcludeVerification`. A command
that cannot be executed makes Node emit `error` in the same drain (`SpawnFails`)
and `close` later (`ExitIgnored` or `ExitHandled`). The manifest look-up of
`startService` is real I/O, but nothing is decided before it, so the decision
after it is the action.

| Action | Code |
|---|---|
| `StartRejected`, `StartReturnsRunning`, `StartLaunches` | `startService`, with `launchService` and the first half of `handlePendingEvent` |
| `StopService` | `stopService`, `handleTerminateEvent`. Without a record it returns, and for a record without a process `process.removeAllListeners()` throws before anything changed: neither is a step |
| `RenderFails`, `SpawnThrows`, `Spawns`, `SpawnFails` | second half of `handlePendingEvent`, and `handleLaunchEvent` |
| `ConcludeVerification`, `VerificationThrows` | `initialHealthCheck` and what follows it |
| `ExitIgnored`, `ExitHandled` | `handleExitEvent` with its two stale checks |
| `RelaunchFires` | the `setTimeout` of `handleExitEvent` |
| `HealthTimerFires`, `HealthProbe`, `HealthProbeThrows` | `sendHealthEvent`, `handleHealthEvent`, `handleStopEvent` |
| `ProcessCrashes`, `ProcessHangs`, `ProcessObeys` | the child and the OS (external) |

*What a probe finds.* `ProbeOutcome` limits `checkServiceHealth` to true, false
or an exception. A hung child never answers; a child that answers nothing although
it is alive costs a fault (`unreachable`). The port of a dead instance may be
answered by its successor, so a dead instance may probe as up.

*Children without a pid.* A command that cannot be executed gives a `ChildProcess` without
a pid: `failed`, and `void` when its last event is over. Its launch is announced like any
other (line 254), so the start that made it is answered with it. `AnswersCarryPid` says
that this is the only answer that line 110, "a fully resolved service that includes a
pid", is not true of: a start that finds the service running is never answered with it,
nor is one handed an instance of another start that has no pid.

*History variables* (`wanted`, `streak`, `faults`) are read by no
guard of the program; `faults` bounds what the environment does.

*Properties.* `NoGhostEntry`, `NeverForgotten`, `Monitored`, `StopEarned`,
`AnswersCarryPid` (invariants), `NoResurrection`, `LiveEntryKept` (what a step
may never do), `KeptAlive`, `StartsAnswered` (liveness), `FollowsLifecycle` (refinement).

### 2.2 ServiceLifecycle

The state machine the class comment draws (pending, launched, exited), with the
relaunch an exit is owed: `phase`, `of`, `record` and `owed`, and nothing of
processes, listeners, probes or callers. The refinement mapping is `Phase` in
`ServiceProcessManager`. It says, for instance, that an instance never goes
through its phases backwards, and that an exit which removes the record always
leaves a relaunch behind. It states no fairness: that owed relaunches are made is said
of the manager, by `KeptAlive`.

### 2.3 ServiceRouting

Adds `port` (the `rpcPort` of an instance as rendered) and `table`. Emission is
synchronous, so each action of the process manager that announces something is
joined with the handler of the router; all others leave the table alone,
`StopService` among them. A template may be rendered with any port, that of a running
child included: a child binds its ports some time after it was spawned, and until then
`getFreePorts` finds them free. `FixedPort` gives a service a literal port instead, as
`LifeCycle` does for a probed one.

`Discoverable` is what the README of the repository promises, that the path of a running
service leads to the instance that runs, and the code does not keep it (`StaleRoute`).
What it does keep is weaker: `Routed`, there is a route; `RouteWasAnnounced`, it is one
that an instance of the service was announced with, ended or not; `RouteLossOwed`, it
is lost only when a relaunch is owed.

### 2.4 ServiceLaunch

`ServiceProcessManager` takes a launch for one step with an outcome. This module
opens it. A service goes through `idle`, `rendering` (its ports are tested and
rendered), `starting` (its setup commands and its start command were spawned),
`serving` and `exited` (the relaunch timer is armed). Launches of different services
overlap; overlapping launches of one service are in `ServiceProcessManager`.

| Action | Code |
|---|---|
| `StartService`, `RelaunchFires` with `RenderService`, `DynamicPorts` | `handlePendingEvent`, `renderService`, `getFreePorts` with the indices it reads |
| `HandleLaunchEvent` with `SpawnSeqCommands`, `SetupThrows` | `handleLaunchEvent`, `spawnSeqCommands`: all commands at once, and the error of one thrown |
| `SetupExits`, `SetupFails` | a setup command exits; its code is not looked at |
| `StartFails`, `BindFails`, `BindCollides`, `Crashes` | the close and error events of the child, each an exit that arms the timer |
| `Binds` | the child and the OS (external) |

A setup command has its effect if those before it had theirs (they unpack, then
build on it), and a start command works when all have. `ports` are those of the
templates that a service uses (`Uses`), which may be any of the six. Two ports
that are tested at the same time differ for TCP and may coincide for UDP, whose sockets are
closed in turn. A test of a port binds it: another render, or the UDP health check
of the service itself, may do so when the child wants it (`BindCollides`).

`getFreePorts` reads its results one index too far, so that the third TCP template is
rendered with a UDP port and the third UDP template with none. `FreshPorts` is what its comment
says, and `CrossedPorts` shows a service that uses them. A service that uses
`UDP_3` never comes to serve (`CanBind`); `Settles` is checked of services that use the
other templates, as those of `service-runner-config.json` do.

### 2.5 Installer

A call of `install` goes through `asked`, `fetch`, `extract`, `writing`; what it does
for each asset of its package is `task`, from `fetch` to `extracted`, and each arrow is a
place where the code awaits. The assets are downloaded and extracted all at the same time,
and `Promise.all` waits (`AllAre`): when one of them fails the call has failed
(`TaskFails`), and the others go on behind it, into the files and the directory of a
retry. `Resolved` is `Config.getService`, which ignores the version.
`manifest` and `disk` are the text and the state of the manifest file:
`fs.writeFile` opens (and truncates) and then writes, and a crash, or another
call, may come in between. A downloaded file is named by the last part of its
URI (`Assets`), so packages may share it; `got` is what an extraction reads.
Zip files that cannot be opened and files of an unknown extension reject (`Opens`), gzipped
ones that are broken throw from a stream event
nobody listens to, plain tar files may end short unnoticed (`Kind`); the zip
extraction resolves when the archive is read, with files still to be written
(`Flush`). That a cut connection ends the stream like a complete one is how the
`request` package behaves (external). The body of an answer with an error status
is written to the file although the call has failed (`refused`, `FinishRefused`). An asset
with a `file:` URI is copied (`Local`): a copy may fail, and is neither cut nor refused.

`Repository` is what a reader of the manifest would have: a record that is created
once and grows by one package at a time, and that a crash may lose as a whole. The
mapping (`InTurn` in `InstallsInTurn`) takes a manifest that a call is writing anew for
what that call read, and a garbled one nobody is writing for lost. `InstallsInTurn` adds two
history variables to the installer, which stop no step: `overlapped`, whether two calls have been
in progress at the same time, or a call and what a failed one left under way; and `spoiled`,
which assets something has cut short without an error that anybody could see. There are two
such things: a plain tar file whose download was cut, and a zip archive of a recorded package whose
last files the runner had still to write when it ended (`CutShort`).
`InTurnWholeUnlessSpoiled` says that calls made in turn record nothing else that is not
whole: no broken archive, no file of another package, nothing still to be extracted. A zip
archive that is `flushing` counts as whole because it becomes so by `Flush` unless the runner
ends first, and then it is in `spoiled`.
`FollowsRepository` says that every step is one of `Repository` until two calls
have overlapped, also while what a failed call left under way goes on behind a retry; that
overlapping ones break it is the finding of `LostUpdate`. `InTurnInvariant` is the
inductive invariant of the proofs.

### 2.6 Configuration and ServiceRunnerServer

A configuration is a sequence of services; of an environment there is its name and
whose definition it has. `ExtendWith` is the callback of `forEach` in `extendConfig`:
`Duplicate` looks at the first environment only, because the callback of `every`
returns nothing, and an entry of another version is one service more. `GetService` finds by
name. `None` stands for an exception and for `undefined`. The loop over the user's services
is the recursive function of `Merging`, from one configuration to the next; the order in
which services are listed as available is left out (`GetAvailableServices` is a set).
`Service` and `Environment` in `ServiceRunnerServer` are the types of
`service-runner-schema.json`.

`ServiceRunnerServer` has the runner over its restarts: `StartServiceRunner` with any
extension, `StartCutShort`, `RunnerEnds`, installs (`InstallReturns`, `InstallOpens`,
`InstallWrites`), `StartService`, `ServiceEnds`. `disk` is the manifest file: while an
install writes it, between `fs.writeFile` opening it and the text being there, it is `writing`,
and `torn` after a runner ended at that point, or within `Repo.init`. Nothing can be
parsed then (`Readable`). Installs are made one at a time: overlapping ones, which lose each
other's entries (`LostUpdate`), are in `Installer`. The rest of a call takes one step, because
what it does in between is in `Installer` and
`ServiceProcessManager`; a call whose promise is rejected changes nothing and is no step. The
manifest survives, so that a package may be found (`found`) that the
configuration of this run does not have. `promised`, what installs have returned true for, is
the other history variable.

`ListsAnswer` names the three reasons for which a list of installed services fails: the
manifest is being written (`lib/repo.ts:99`), a runner ended within such a write, or an
earlier run installed a package that this one is not configured for
(`src/src/methods/index.ts:43`). An environment, a service or a version that a client asks
for and that is not configured is no such reason.

### 2.7 ConnectionManager

All WebSocket upgrades share one emitter, the `ws` server of
`WebSocketProxyServer`. An upgrade registers a one-shot listener for
"upgraded" and one for "terminateConnection", and each emission calls the
listeners of everybody, oldest first, within the emitting step. `onUpgraded` and
`onTerminate` are these two lists.

| Action | Code |
|---|---|
| `UpgradeForwarded`, `UpgradeRefused` | the upgrade event (`lib/frontends/wsFrontend.ts`, `lib/wsProxyServer.ts`), `forwardRequest`, and the first half of `wsBackend` |
| `BackendOpens` | the open event of `wsBackend`, the "upgraded" listeners |
| `BackendCloses`, `ClientCloses` | the close handlers, and that nobody handles the close of a client |
| `BackendFails`, `ClientResets`, `ClientBreaksFrame`, `HttpReset` | errors nobody listens to, and the second answer to one request: Node throws |
| `HttpRefused`, `HttpForwarded`, `HttpResponds`, `HttpFails`, `HttpEnds` | `lib/frontends/httpFrontend.ts`, `lib/backends/httpBackend.ts` |
| `RouteChanges` | `Router`, seen from here |

`package.json` admits every `ws` from 7.1.0 on below 8, and these differ in what
`handleUpgrade` does with a socket it has upgraded before: the older ones answer
a second time, into the frames of the first connection; the newer ones throw. The
constant-valued variable `strict` covers both. How many listeners complete, and
which sockets are found alive by them, is chosen accordingly (`Completing`,
`MayJoin`). `ws`, sockets and the process are external. A message is relayed
within one event and changes no state here, so messages are left out, but for the frame of
an accepted client that is none (`ClientBreaksFrame`). `alone` is a history variable: the
clients whose upgrade overlapped no other.

`ClosedWithCause` says for what reasons the proxy closes an open client: its backend, or a bad
path of somebody else while the server still has the listener for
"terminateConnection" of the client's own upgrade, which its success does not remove. The
second reason is a weakness of the code that the property states as it is; what it excludes is
every other one, the opening of another backend among them.

## 3. The runs

`MaxFaults` bounds the environment, `Instance`, `Request` and `Call` the length
of a behaviour. Deadlock checking is off in all runs because the system may rest
with nothing to do, and because a bounded behaviour ends when its instances are used up.

| Run | Question | Bounds, and why they are enough |
|---|---|---|
| `Interleavings` | `NoGhostEntry`, `Monitored`, `RouteWasAnnounced`, `Routed`, `LiveEntryKept`, `RouteLossOwed`: do the cache and the routing table tell the truth under overlapping launches and late exits? | 1 probed service, 3 instances, 2 starts, 2 retries, 2 ports that may clash, 1 fault of any kind, probes that throw: three instances are what it takes for an old exit to meet a new entry while a third launch is under way |
| `LifeCycle` | `AnswersCarryPid`, `NeverForgotten`, `StopEarned`, `NoResurrection`, `FollowsLifecycle`, and under fairness `KeptAlive`, `StartsAnswered`, `RouteRestored`: does a service go through its life as it should, and come back? | a service without a health section, started up to twice, or one with it, started once; 4 instances, 2 retries, 2 faults. As many instances as starts and faults, so that the bound never withholds a relaunch; two faults and two retries, so that a probe may fail, succeed and fail again |
| `Launches` | `Settles`, `SetupTakesEffect`: do ports and setup commands sort themselves out? | 2 services, one with two setup commands, one with two UDP ports and probed on one of them, both with a TCP port; 3 TCP ports, as many as a render asks for, and 2 UDP ports; 2 faults |
| `Installs` | `RecordedAfterExtraction`, `DoneWasRecorded`, `InstallConcludes` under concurrency and crashes, `InTurnWholeUnlessSpoiled` and `FollowsRepository`, the refinement of `Repository`, for calls in turn | 3 calls, of which 2 may overlap, or 3 are made in turn, for two packages out of 6: one of two assets, another that shares a file with it and is copied, two that share a configuration, one of an unknown format, and one that is unknown; all archive kinds; 2 faults, so that a retry may fail too |
| `Catalogue` | `DefaultsKept`, `ExtensionTaken`, `RunsOwnVersion`, `ListsAnswer`, `InstalledIsRecorded`: what do an extension, a restart with another one and a manifest that is being written do to services, installs and lists? | 2 starts of the runner, extensions of up to 2 entries out of 9 (new and duplicate environments, in either order and without a name, another version, another service, another operating system, no version): the second start is what meets a foreign or a torn manifest, and the second entry what meets the first |
| `Connections` | `NoDeadLink`, `WaitingIsHeard`, `OwnBackend`, `LinkIsFinal`, `ClosedWithCause`: what do upgrades that share their listeners do to each other? | 3 clients, 1 HTTP request, 2 paths, 1 fault: three clients are what it takes for a stale listener, an upgrade under way and a refused one to meet |

Every module has its type invariant in one of these runs. Liveness runs use
numbers for instances, requests and calls and take them in order
(`OrderedFairSpec`, `OrderedFairRoutingSpec`), which keeps one behaviour of each symmetry
class; symmetry sets are used only in runs without liveness. A behaviour of `LifeCycle` has
one service. That instances of different
services do not disturb one another is left to the proofs, which hold for any set
of services. Liveness is checked neither of two starts of a probed service nor with
probes that throw: `Interleavings` has both, for safety.

### What the code does not keep

Each of these runs checks one property, a sentence of a comment or of the
README of the repository, and TLC finds a behaviour of the code that
contradicts it. The sentences and lines are in `PROJECT.json`, "findings".

| Run | Property | What happens |
|---|---|---|
| `Orphaned` | `RecordComplete` | two overlapping starts leave a running child in no record |
| `StoppedThenRelaunched` | `StopCancelsRelaunch` | a stop does not cancel an armed relaunch timer |
| `LostUpdate` | `NothingForgotten` | of two overlapping installs one is not in the manifest |
| `CrossedUpgrades` | `PathKept` | of two overlapping upgrades, one client is joined to the service of the other's path |
| `StaleRoute` | `Discoverable` | an instance that exited while it was verified is announced when its verification gives up, over the route of its running successor |
| `CrossedPorts` | `FreshPorts` | the third TCP template is rendered with a UDP port, and the third UDP template with nothing |

Other places where the code and its comments part, seen while modelling and kept
in the models, without a run of their own so far:

- the initial health check resolves at its deadline without a success
  (`lib/serviceProcessManager.ts:272`), although line 253 has a launch announced
  "only ... when the initial health check is verified";
- a probe that throws ends the health loop (line 315), and a TCP time-out does
  throw: `tcpSocketTest` rejects with `undefined` (`lib/util.ts:73`), which `isUp`
  dereferences (line 48);
- a start whose command cannot be executed is answered with an instance without a pid
  (line 254), although line 110 says that what is returned "includes a pid";
  `AnswersCarryPid` makes this one exception;
- with `retries: 0` a successful probe stops the service (line 327);
- the specification stored first is the one relaunched for ever (line 407);
- the route of a stopped service may lead to another one that got the port;
- a crash during `fs.writeFile` leaves a manifest that nothing can parse and that
  `init` accepts (`lib/repo.ts:41` and `99`), and while an install writes the manifest
  lists and starts are rejected;
- a zip archive is recorded before its last files are written (`lib/repo.ts:94`,
  `lib/util.ts:273`), so that a crash may leave a recorded package that is not whole, and
  a tar file whose download was cut is extracted and recorded as it is (`lib/util.ts:210`):
  the two exceptions of `InTurnWholeUnlessSpoiled`;
- a broken gzipped archive ends the runner (`lib/util.ts:244`), and concurrent
  downloads whose URIs end in the same name share a file (line 180);
- an install that fails does not stop its other downloads and extractions
  (`lib/installer.ts:50`, `lib/repo.ts:94`): a retry shares files and directory with
  them, and may record a package that is not whole, which is why
  `InTurnWholeUnlessSpoiled` excludes it;
- a stopped service keeps its route: `handleTerminateEvent` removes the listeners
  and the record without an announcement (`lib/serviceProcessManager.ts:303`);
- `getService` ignores the version it is given (`lib/config.ts:114`): a user's service of
  another version is accepted and listed as available, and never found; and the example of
  the repository's README (`src/README.md:103-105`) installs version 1.11.2 of a service that is
  configured in 1.11.17, which returns true, and starts 1.11.2, which is rejected:
  `InstalledIsRecorded` says that it is the configured version that was recorded;
- a duplicate environment is rejected only if it comes first (`lib/config.ts:170`), and the
  test that says so ("should throw on duplicate environment",
  `lib/config.test.ts:68`) does not run because of an `it.only`; a later duplicate is accepted and is
  shadowed by the default, which `DefaultsKept` depends on;
- a package that is no longer configured makes the whole list of installed services
  fail (`src/src/methods/index.ts:43`);
- the error of a setup command that cannot be executed ends the runner
  (`lib/serviceProcessManager.ts:385`), while that of a start command is an exit;
- one upgrade of an unknown path closes the sockets of the other waiting clients, and
  of open ones (`lib/wsProxyServer.ts:42`), as `ClosedWithCause` says of these;
- the invalid frame of one client ends the runner (`lib/frontends/wsFrontend.ts:38`);
- a service that refuses a WebSocket connection ends the runner
  (`lib/backends/wsBackend.ts:19`), and so does one that resets an HTTP connection
  within the body of its answer (`lib/frontends/httpFrontend.ts:33`).

## 4. Fairness

`Fairness` of `ServiceProcessManager` is weak fairness of what Node and the OS
owe: due timers fire (relaunch, health), I/O and probes complete (renders,
verifications, probes; `tcpSocketTest` has a time-out of its own), exit events
are delivered, and a child that was sent SIGTERM ends, which assumes that it
does not block the signal. Nothing is owed by clients (starts, stops, installs),
nor are faults. In `ConcludeVerification` the deadline bounds the number of failed
probes, which is why its end is owed at all. In `Installer` the steps of a call
are owed (downloads have a time-out); a restart of the runner is not.
In `ServiceLaunch` timers, renders, setup commands and the outcome of a start
command are owed, each on its own: no order among them. `ServiceRunnerServer` and
`ConnectionManager` state no fairness and no liveness: what the calls of the first owe is
in `Installer` and `ServiceProcessManager`, and neither backend of the second sets a time-out,
so the code owes no client an answer.

`KeptAlive` has its exceptions in its statement: a stop, and a launch that threw
("broken"), which the code never tries again. `Serving` counts a hung child
that has no health section, or whose health loop a throwing probe has ended:
nothing in the code can notice its silence.

## 5. The proofs

TLAPS proves, for every value of the constants that satisfies the `ASSUME`s
(finite or not; the assumptions give the constants their types, and `None` and the
marks of broken files an identity of their own). One assumption is about the contents
of a file of the repository, `DefaultAssumption`: `service-runner-config.json` is valid,
and its services, and the environments of each of them, have different names. Without it a
default would be shadowed by another one, and `DefaultsKept` would be false.

What is proved:

- `ServiceProcessManagerProofs`: `Spec => []InductiveInvariant`, from it
  `TypeOK`, `NoGhostEntry`, `NeverForgotten`, `Monitored`, `StopEarned` and
  `AnswersCarryPid`, and the action properties `NoResurrection` and
  `LiveEntryKept`;
- `ServiceLifecycleProofs`: `Spec => FollowsLifecycle`, the refinement;
- `ServiceRoutingProofs`: `RoutingSpec => Spec`, so that all of the above holds of
  the manager with a router that listens, and of the router `RoutingTypeOK`,
  `RouteWasAnnounced`, `Routed` and the action property `RouteLossOwed`;
- `ServiceLaunchProofs`: `TypeOK`, for every pool of ports and every use of the templates;
- `InstallerProofs`: `Spec => []InductiveInvariant` of the installer, and from it
  `TypeOK`, `RecordedAfterExtraction` and `DoneWasRecorded`;
- `InstallsInTurnProofs`: `TurnsSpec => Spec`, so that the history variables change
  nothing; `TurnsSpec => []InTurnInvariant`, and from it `InTurnWholeUnlessSpoiled` and the
  refinement `FollowsRepository`;
- `ServiceRunnerServerProofs`: `Spec => []InductiveInvariant` of the runner over its
  restarts, from it `TypeOK`, `DefaultsKept`, `RunsOwnVersion`, `ListsAnswer` and
  `InstalledIsRecorded`, and the action property `ExtensionTaken`;
- `ConnectionManagerProofs`: `Spec => []InductiveInvariant` of the proxies, from it
  `TypeOK`, `NoDeadLink`, `WaitingIsHeard` and `OwnBackend`, and the action properties
  `LinkIsFinal` and `ClosedWithCause`.

*The argument for the process manager.* `NoGhostEntry` is not inductive: that
`Spawns` records an instance with no past, and that an exit is not handled
twice, depends on how far the launch of the instance has come
(`InstanceShape`). `NeverForgotten` depends on every relaunch timer having a
stored specification to launch, and every instance a service and an emitter
(`SpecKept`). `StopEarned` depends on the health cache agreeing with the
history, and on a signal ending the health loop (`CountsAgree`). `AnswersCarryPid` rests
on `NoGhostEntry`: what a start finds running has been spawned. The conjunction
is inductive; there is one lemma per conjunct, in it one step per action. The
two action properties and the refinement use the invariant for the step at hand.

*The argument for the router.* Every step of `RoutingNext` is one of `Next`
(`RoutingStepIsStep`), so the invariant of the manager may be used for both. The
table changes only by an announcement (`Announces`) or a withdrawal (`Withdraws`),
and a withdrawal empties the record and arms a relaunch in the same step
(`TableStep`): that is `RouteLossOwed`. A launched instance keeps its service and its
port (`LaunchedStep`, `PortStep`), hence `RouteWasAnnounced`. For `Routed`, an
instance becomes recorded, running and announced only in the step that sets its
route (`FoundStep`, which rests on `NoGhostEntry`), and the route goes with the record.

*The argument for the installer.* `RecordedAfterExtraction` needs that what a call
read from the manifest was extracted (it was in the manifest), and that a call
which gets to the manifest has ended all of its own extractions (`EntriesExtracted`,
with what each task of a call says, `MarkedStep`). What a failed call left under way
marks no package as extracted but its own archives, and never gets to the manifest;
crashes only empty the manifest's text or stop calls. `DoneWasRecorded` needs
that the manifest holds nothing that was never written.

*The argument for installs in turn.* The invariant has three parts, each for what
`overlapped` has ruled out so far. Always: nothing is under way without a runner, and
no manifest without its first start (`RunnerFirst`). Until two calls have overlapped: a
manifest that cannot be read has no entries, the one that is in progress has read the
manifest as it is, and its own package is not there (`RecordIsOwn`). That makes opening
the manifest a step in which the mapped record stays what it was, and writing it a step
that adds one package; a runner that dies loses the record only while it is written or
created (`RepositoryStep`). Until something was left under way either: what a task has is its own
package's bytes or cut short, for a tar file with a trace in `spoiled` (`IsOwn`,
`TransferIsOwn`), by the step of one file (`TransferStep`); an extraction that ends makes the
asset whole, or still to be flushed (`ExtractedIsWhole`), and a runner that dies before the
flush leaves the same trace (`DeathKeepsWhole`);
and no step of a file touches another file or another package's directory
(`WritesElsewhere`, `FilesElsewhere`), so that what is recorded stays whole
(`FileStepKeepsOwn`). `Target(c)` is not in the manifest while it is extracted: without
the second check, in `addService`, a recorded directory would be extracted into again.

*The argument for the catalogue.* An extension may be of any length, and the proof goes
by its smallest counterexample: a nonempty set of natural numbers has a smallest element
(`Smallest`, from the library's `WFMin`), so the first step of the loop that loses
something would have met a configuration that lost nothing. `MergingSteps` shows in this way that the
recursive function exists, `MergingKeeps` that each configuration on the way has the
default services and environments at the places they had (`Keeps`), and all of the user's
services so far (`HasAll`). `GetService` and `GetEnvironment` find the first of a
name, which, with the names of the default apart, is the default's. `RunsOwnVersion`
needs that every package the runner did not find when it started is of the version it is
configured in, and that what runs is in the manifest (`ConfigInvariant`).

`ListsAnswer` follows from the same: what this run has installed is configured. For
`InstalledIsRecorded`, an install that writes has the entry that the configuration has for
what was asked for (`WritingInvariant`), the manifest only grows, and a runner that ends
takes its promises with it.

*The argument for the proxies.* A client listens for "upgraded" once, after it has
asked and before it is joined (`ListensOnce`), which makes a link final although
every emission calls the listeners of everybody. Who waits is neither called by an
emission that leaves it waiting nor the one whose listener throws, so it keeps both
listeners (`WaitingStep`). An upgrade that met no other one is the only one under
way (`OnlyUpgrade`), so that the backend that opens is its own. A client that has not
asked has no backend (`NoBackendYet`), so that no open backend is replaced by a
connecting one. For `ClosedWithCause`, what an opening backend calls is listeners of
clients that are not joined yet, and so not open; what is left is a refused upgrade, which
closes only those whose listeners it calls (`RefusalStep`), and a backend that closes, which
closes those joined to it.

*Only model-checked*: all liveness (`KeptAlive`, `StartsAnswered`,
`RouteRestored`, `InstallConcludes`, `Settles`, `SetupTakesEffect`), which needs ENABLED and is out of the prover's reach. Every safety
property that a passing run checks is proved. The inductive invariants
(`InductiveInvariant` of four components, `RoutingInvariant`, `InTurnInvariant`) are proved and
listed in no `.cfg`: TLC finds no violation of them on the instances of `LifeCycle`,
`Installs`, `Catalogue`, `Connections` and `Interleavings`, and the runs spend their time on
what follows from them.

## 6. Not modelled

- Of the proxies: the set-up and tear-down of the frontends, and the contents of
  messages, such as the `content-length` that is counted in UTF-16 units.
- What becomes of children that outlive the runner: they are not recorded on disk, and
  a runner that is started again knows nothing of them. `ServiceRunnerServer` forgets them.
- An announcement of a stop: the code has none (`lib/serviceProcessManager.ts:303`),
  so a stopped service keeps its route, and no property can say otherwise.
- Console events, logging, JSON-RPC errors, the CLI, generated types: no state a
  behaviour depends on.

## 7. Plan

Done, in this order: `ServiceProcessManager`, the core of the system, with
`ServiceLifecycle`; `ServiceRouting`; `Installer`; `ConnectionManager`;
`ServiceLaunch`; `Configuration` and `ServiceRunnerServer`; `Repository`; and the proofs
of every safety property of these that a proof can reach.

Next, in order:

1. `startService` against the manifest as `Installer` leaves it, in the midst of an
   install: the installer composed with the manager.
