-------------------------- MODULE ServiceRunnerServer --------------------------
(***************************************************************************)
(* The service runner over its restarts: what its RPC methods              *)
(* (src/src/methods/index.ts) make of the configuration it was started     *)
(* with (Configuration) and of the manifest, which outlives it and may     *)
(* come from a run with another configuration.                             *)
(*                                                                         *)
(* Starts take one step, and installs are made one at a time, with a step  *)
(* for the opening of the manifest, which truncates it, and one for the    *)
(* writing: what they do besides is in ServiceProcessManager and           *)
(* Installer.                                                              *)
(***************************************************************************)
EXTENDS Configuration

CONSTANTS
    Default,    \* the default configuration
    Extension,  \* what users may extend it with
    OS,         \* the operating system, as getOS returns it
    Name,       \* the names, versions and environments that are configured, and that
                \* clients ask for
    Version,
    Env,
    MaxStarts   \* how often the runner is started

\* What the program makes of the JSON text of a configuration.
Environment == [name : Env \cup {None}, of : {"default", "user"}]
Service == [name : Name, version : Version \cup {None},
            os : SUBSET {"linux", "osx", "windows"}, environments : Seq(Environment)]

\* A package, and an install that writes the manifest.
Package == [name : Name, version : Version \cup {None}]
Install == [asked : [name : Name, version : Version], entry : Package]

ASSUME CatalogueAssumption ==
    /\ None \notin Service
    /\ None \notin Install
    /\ Extension \subseteq Seq(Service)
    /\ MaxStarts \in Nat

\* The default configuration is accepted, and what it has can be found by its name.
ASSUME DefaultAssumption ==
    /\ Default \in Seq(Service)
    /\ Valid(Default)
    /\ \A i, j \in 1..Len(Default) : Default[i].name = Default[j].name => i = j
    /\ \A s \in Range(Default) : \A i, j \in 1..Len(s.environments) :
          s.environments[i].name = s.environments[j].name => i = j

VARIABLES
    config,     \* the configuration of the runner, None while none runs
    disk,       \* what the manifest file is, as a file
    manifest,   \* the packages in the text that was last written to it
    installing, \* the install that writes it: what was asked for, and its entry
    running,    \* the services that listActiveServices returns
    found,      \* history: the packages that were there when the runner was started
    promised,   \* history: the packages whose install returned true since then
    starts      \* history: how often the runner was started

vars == <<config, disk, manifest, installing, running, found, promised, starts>>

ActiveService ==
    [name : Name, version : Version, env : Env, definition : {"default", "user"}]

\* Type correctness: the configuration is one that a schema check accepts.
TypeOK ==
    /\ config # None =>
          \A s \in Range(config) :
              /\ s.name \in Name /\ s.version \in Version \cup {None} /\ s.os # {}
              /\ \A e \in Range(s.environments) : e.name \in Env
    /\ disk \in {"absent", "ok", "writing", "torn"}
    /\ manifest \subseteq Package
    /\ installing \in Install \cup {None}
    /\ running \subseteq ActiveService
    /\ found \subseteq Package
    /\ promised \subseteq [name : Name, version : Version]
    /\ starts \in 0..MaxStarts

Init ==
    /\ config = None
    /\ disk = "absent"
    /\ manifest = {}
    /\ installing = None
    /\ running = {}
    /\ found = {}
    /\ promised = {}
    /\ starts = 0

PackageOf(service) == [name |-> service.name, version |-> service.version]

\* Repo.init: the manifest that is there is taken, or one without services written.
InitRepo == disk' = IF disk = "absent" THEN "ok" ELSE disk

\* startServiceRunner, from the command line or from a program.  It gives no runner
\* when the configuration is rejected, which changes nothing.
StartServiceRunner(extendedConfig) ==
    LET extended == NewConfig(Default, extendedConfig) IN
        /\ config = None
        /\ starts < MaxStarts
        /\ extended # None
        /\ config' = extended
        /\ InitRepo
        /\ found' = manifest
        /\ promised' = {}
        /\ starts' = starts + 1
        /\ UNCHANGED <<manifest, installing, running>>

\* The runner is killed (external) while Repo.init writes the first manifest.
StartCutShort ==
    /\ config = None
    /\ starts < MaxStarts
    /\ disk = "absent"
    /\ disk' = "torn"
    /\ starts' = starts + 1
    /\ UNCHANGED <<config, manifest, installing, running, found, promised>>

\* The runner ends (external), with all it has in memory: a manifest that was opened
\* and not yet written stays empty.
RunnerEnds ==
    /\ config # None
    /\ config' = None
    /\ disk' = IF disk = "writing" THEN "torn" ELSE disk
    /\ installing' = None
    /\ running' = {}
    /\ UNCHANGED <<manifest, found, promised, starts>>

\* The manifest can be parsed, as getServiceEntry and getManifest do first.
Readable == config # None /\ disk = "ok"

\* Variant: getServiceEntry finds a package by its name.
InstallReturnsByName(name, version) ==
    /\ Readable
    /\ \E p \in manifest : p.name = name
    /\ promised' = promised \cup {[name |-> name, version |-> version]}
    /\ UNCHANGED <<config, disk, manifest, installing, running, found, starts>>

\* installService has nothing to do: the package is in the manifest, or is not and the
\* configured version is, which is what addService looks for.
InstallReturns(name, version) ==
    LET asked   == [name |-> name, version |-> version]
        service == GetService(config, name, OS)
    IN  /\ Readable
        /\ \/ asked \in manifest
           \/ service # None /\ PackageOf(service) \in manifest
        /\ promised' = promised \cup {asked}
        /\ UNCHANGED <<config, disk, manifest, installing, running, found, starts>>

\* Variant: the version that was asked for is recorded.
InstallOpensAsked(name, version) ==
    LET asked == [name |-> name, version |-> version] IN
        /\ Readable
        /\ asked \notin manifest
        /\ GetService(config, name, OS) # None
        /\ disk' = "writing"
        /\ installing' = [asked |-> asked, entry |-> asked]
        /\ UNCHANGED <<config, manifest, running, found, promised, starts>>

\* The configured version is installed, all but its entry: fs.writeFile opens the
\* manifest, and nobody can parse it any more.
InstallOpens(name, version) ==
    LET asked   == [name |-> name, version |-> version]
        service == GetService(config, name, OS)
    IN  /\ Readable
        /\ service # None
        /\ {asked, PackageOf(service)} \cap manifest = {}
        /\ disk' = "writing"
        /\ installing' = [asked |-> asked, entry |-> PackageOf(service)]
        /\ UNCHANGED <<config, manifest, running, found, promised, starts>>

\* The manifest is written, and installService returns true.
InstallWrites ==
    /\ disk = "writing"
    /\ disk' = "ok"
    /\ manifest' = manifest \cup {installing.entry}
    /\ promised' = promised \cup {installing.asked}
    /\ installing' = None
    /\ UNCHANGED <<config, running, found, starts>>

\* Variant: nothing is taken of an environment that is not there.
StartAnyEnvironment(name, version, env) ==
    LET service    == GetService(config, name, OS)
        definition == GetEnvironment(service, env)
    IN  /\ Readable
        /\ [name |-> name, version |-> version] \in manifest
        /\ service # None
        /\ running' = running \cup
              {[name |-> name, version |-> version, env |-> env,
                definition |-> IF definition = None THEN "default" ELSE definition.of]}
        /\ UNCHANGED <<config, disk, manifest, installing, found, promised, starts>>

\* startService: the manifest must be readable and have the package, the service in the
\* configuration, and the environment in the service; the promise is rejected
\* otherwise.  The version is the one of the manifest, and the commands, the arguments
\* and the health section are those of the configuration.
StartService(name, version, env) ==
    LET service    == GetService(config, name, OS)
        definition == GetEnvironment(service, env)
    IN  /\ Readable
        /\ [name |-> name, version |-> version] \in manifest
        /\ service # None
        /\ definition # None
        /\ running' = running \cup
              {[name |-> name, version |-> version, env |-> env,
                definition |-> definition.of]}
        /\ UNCHANGED <<config, disk, manifest, installing, found, promised, starts>>

\* A service is stopped, or exits.
ServiceEnds(service) ==
    /\ running' = running \ {service}
    /\ UNCHANGED <<config, disk, manifest, installing, found, promised, starts>>

Next ==
    \/ \E extendedConfig \in Extension : StartServiceRunner(extendedConfig)
    \/ StartCutShort
    \/ RunnerEnds
    \/ InstallWrites
    \/ \E name \in Name, version \in Version :
          \/ InstallReturns(name, version)
          \/ InstallOpens(name, version)
          \/ \E env \in Env : StartService(name, version, env)
    \/ \E service \in running : ServiceEnds(service)

Spec == Init /\ [][Next]_vars
-----------------------------------------------------------------------------
(***************************************************************************)
(* What listServices answers.  Every list looks its services up in the     *)
(* configuration, which throws for those it does not have.                 *)
(***************************************************************************)

Configured(name) == GetService(config, name, OS) # None

\* getInstalledServices parses the manifest, and looks up what it has.
InstalledServicesAnswers == Readable /\ \A p \in manifest : Configured(p.name)

\* getRunningServices looks up the service, and its environment, whose description
\* is undefined if there is none.
RunningServicesAnswers ==
    \A r \in running :
        /\ Configured(r.name)
        /\ GetEnvironment(GetService(config, r.name, OS), r.env) # None
-----------------------------------------------------------------------------
(***************************************************************************)
(* Properties.                                                             *)
(***************************************************************************)

\* Whatever a user adds, as long as it is accepted: the default services are still
\* the ones that are found, and listed as available, in their version, and so are
\* their environments, with the arguments and the health section of the default
\* configuration.
DefaultsKept ==
    config # None =>
        \A d \in {s \in Range(Default) : OS \in s.os} :
            /\ Configured(d.name)
            /\ LET service == GetService(config, d.name, OS) IN
                  /\ service.version = d.version
                  /\ service \in GetAvailableServices(config, OS)
                  /\ \A e \in Range(d.environments) :
                        GetEnvironment(service, e.name) = e

\* An extension that is accepted is taken as a whole: whatever else the user adds before
\* and after it, every service has an entry of its name and version, with all of its
\* environments.
ExtensionTaken ==
    [][\A extendedConfig \in Extension :
          StartServiceRunner(extendedConfig) =>
             \A svc \in Range(extendedConfig) :
                \E entry \in Range(config') : HasAll(entry, svc)]_vars

\* The files that run are of the version whose commands they are run with, unless the
\* package was installed under another configuration: what is installed and started
\* under one configuration is consistent, although getService ignores the version.
RunsOwnVersion ==
    \A r \in running :
        \/ GetService(config, r.name, OS).version = r.version
        \/ [name |-> r.name, version |-> r.version] \in found

\* The list of the running services never fails.  That of the installed ones fails for
\* three reasons only: an install is writing the manifest, a runner ended within such a
\* write, and the manifest has been empty since; or it has a package that an earlier
\* run installed and that this one is not configured for.
ListsAnswer ==
    config # None =>
        /\ RunningServicesAnswers
        /\ \/ InstalledServicesAnswers
           \/ disk # "ok"
           \/ \E p \in found : ~Configured(p.name)

\* What installService returned true for is on record as long as the runner lives, in
\* a manifest that is not torn: in the version that was asked for, or in the one that
\* the configuration has in its place.
InstalledIsRecorded ==
    config # None => \A p \in promised :
        /\ disk # "torn"
        /\ \/ p \in manifest
           \/ Configured(p.name) /\ PackageOf(GetService(config, p.name, OS)) \in manifest
-----------------------------------------------------------------------------
(***************************************************************************)
(* The inductive invariant: what the safety properties rest on.            *)
(***************************************************************************)

\* What an extension leaves of a configuration: other services may come after its own.
Keeps(default, extended) ==
    /\ extended \in Seq(Service)
    /\ Len(default) <= Len(extended)
    /\ \A i \in 1..Len(default) : Extended(default[i], extended[i])

\* A runner has a configuration that keeps the default one, every package that it did
\* not find is of the version it is configured in, and every service that runs is of a
\* package.
ConfigInvariant ==
    /\ config # None => Keeps(Default, config) /\ Valid(config)
    /\ config = None => running = {}
    /\ config # None => \A p \in manifest :
          \/ p \in found
          \/ /\ Configured(p.name)
             /\ GetService(config, p.name, OS).version = p.version
    /\ \A r \in running : [name |-> r.name, version |-> r.version] \in manifest

\* An install writes the manifest with the entry of what the configuration has for it.
WritingInvariant ==
    disk = "writing" =>
        /\ config # None /\ installing # None
        /\ Configured(installing.asked.name)
        /\ installing.entry = PackageOf(GetService(config, installing.asked.name, OS))

\* The catalogue, the manifest and the services that run agree.
InductiveInvariant ==
    /\ TypeOK
    /\ ConfigInvariant
    /\ WritingInvariant
    /\ InstalledIsRecorded
    /\ config # None => RunningServicesAnswers
=============================================================================
