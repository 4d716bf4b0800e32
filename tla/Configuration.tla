---------------------------- MODULE Configuration ----------------------------
(***************************************************************************)
(* The configuration (src/src/lib/config.ts): how the default              *)
(* configuration is extended with the user's, and what is looked up in     *)
(* the result.                                                             *)
(*                                                                         *)
(* A configuration is a sequence of services, records with a name, a       *)
(* version, the set of operating systems they have commands and assets     *)
(* for, and a sequence of environments.  Of an environment there is its    *)
(* name and whose definition (arguments and health section) it has.        *)
(***************************************************************************)
EXTENDS Naturals, SequencesExt

CONSTANT None   \* undefined

\* The first of seq that passes a test, or None.
Find(seq, Test(_)) ==
    LET i == SelectInSeq(seq, Test) IN IF i = 0 THEN None ELSE seq[i]

\* Variant: an entry of the same name, in whatever version.
EntryOfName(config, svc) == SelectInSeq(config, LAMBDA s : s.name = svc.name)

\* findIndex in the configuration that is extended, 0 if there is none: an entry of
\* the same name and version.
EntryOf(config, svc) ==
    SelectInSeq(config, LAMBDA s : s.name = svc.name /\ s.version = svc.version)

\* The callback of every returns nothing, so that every stops after the first
\* environment: the names of the others are not looked up.
Duplicate(service, svc) ==
    /\ svc.environments # <<>>
    /\ \E e \in Range(service.environments) : e.name = svc.environments[1].name

\* Variant: what the user has comes before what was there.
ConcatFirst(environments, others) == others \o environments

Concat(environments, others) == environments \o others

\* One service of the user: its environments join those of the entry it has, or it is
\* a service more.  None stands for the exception.
ExtendWith(config, merged, svc) ==
    LET i == EntryOf(config, svc) IN
        IF merged = None THEN None
        ELSE IF i = 0 THEN Append(merged, svc)
        ELSE IF Duplicate(merged[i], svc) THEN None
        ELSE [merged EXCEPT ![i].environments = Concat(@, svc.environments)]

\* Variant: the names of environments are not required.
ValidServices(config) == \A s \in Range(config) : s.os # {}

\* validateConfig: services have an operating system, and environments a name.
Valid(config) ==
    \A s \in Range(config) :
        s.os # {} /\ \A e \in Range(s.environments) : e.name # None

\* The configuration after each of the user's services, in their order.
Merging(config, other) ==
    LET merged[k \in 0..Len(other)] ==
            IF k = 0 THEN config ELSE ExtendWith(config, merged[k - 1], other[k])
    IN  merged

\* extendConfig: the merged configuration, or None when it throws.
ExtendConfig(config, other) ==
    LET merged == Merging(config, other)[Len(other)]
    IN  IF merged # None /\ Valid(merged) THEN merged ELSE None

\* The constructor of Config: nothing may be given.
NewConfig(default, other) ==
    IF other # <<>> THEN ExtendConfig(default, other)
    ELSE IF Valid(default) THEN default ELSE None

\* getService finds a service by its name alone; None when it throws.
GetService(config, name, os) ==
    LET s == Find(config, LAMBDA c : c.name = name)
    IN  IF s # None /\ os \in s.os THEN s ELSE None

\* getAvailableServices, without their order.
GetAvailableServices(config, os) == {s \in Range(config) : os \in s.os}

\* The definition of an environment, as startService looks it up; None when there is
\* none.
GetEnvironment(service, env) == Find(service.environments, LAMBDA e : e.name = env)
-----------------------------------------------------------------------------

\* What an extension leaves of a service: other environments may come after its own.
Extended(service, extended) ==
    /\ extended.name = service.name
    /\ extended.version = service.version
    /\ extended.os = service.os
    /\ Len(service.environments) <= Len(extended.environments)
    /\ \A i \in 1..Len(service.environments) :
          extended.environments[i] = service.environments[i]

\* An entry has what a user's service adds to it, or is made for it.
HasAll(entry, svc) ==
    /\ entry.name = svc.name
    /\ entry.version = svc.version
    /\ Range(svc.environments) \subseteq Range(entry.environments)
=============================================================================
