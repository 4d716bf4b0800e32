--------------------------- MODULE ServiceLifecycle ---------------------------
(***************************************************************************)
(* What the ServiceProcessManager promises of the services it launches,    *)
(* without processes, listeners, probes, specifications or callers: the    *)
(* state machine its class comment draws (pending, launched, exited), and  *)
(* the relaunch that every exit it takes notice of is followed by.         *)
(***************************************************************************)
EXTENDS Naturals

CONSTANTS Service, Instance, None

VARIABLES
    phase,   \* the stage of an instance
    of,      \* the service of an instance
    record,  \* the instance a service is recorded with
    owed     \* the relaunches a service is owed

vars == <<phase, of, record, owed>>

Init ==
    /\ phase = [i \in Instance |-> "new"]
    /\ of = [i \in Instance |-> None]
    /\ record = [s \in Service |-> None]
    /\ owed = [s \in Service |-> 0]

Pend(s, i) ==
    /\ phase[i] = "new"
    /\ phase' = [phase EXCEPT ![i] = "pending"]
    /\ of' = [of EXCEPT ![i] = s]
    /\ UNCHANGED record

\* Somebody asks for the service.
Start(s, i) == Pend(s, i) /\ UNCHANGED owed

\* An owed relaunch is made.
Relaunch(s, i) ==
    /\ owed[s] > 0
    /\ owed' = [owed EXCEPT ![s] = @ - 1]
    /\ Pend(s, i)

\* A pending instance runs and is recorded, replacing what was recorded.
Run(i) ==
    /\ phase[i] = "pending"
    /\ phase' = [phase EXCEPT ![i] = "running"]
    /\ record' = [record EXCEPT ![of[i]] = i]
    /\ UNCHANGED <<of, owed>>

\* A pending instance turns out not to run: nothing is recorded any more, and the
\* service is owed another launch.
Fail(i) ==
    /\ phase[i] = "pending"
    /\ phase' = [phase EXCEPT ![i] = "gone"]
    /\ record' = [record EXCEPT ![of[i]] = None]
    /\ owed' = [owed EXCEPT ![of[i]] = @ + 1]
    /\ UNCHANGED of

\* The launch of a pending instance is given up; the instance may stay recorded.
GiveUp(i) ==
    /\ phase[i] = "pending"
    /\ phase' = [phase EXCEPT ![i] = "lost"]
    /\ record' \in {record, [record EXCEPT ![of[i]] = i]}
    /\ UNCHANGED <<of, owed>>

\* An instance exits and is, or stands in for, the one recorded.
Exit(i) ==
    /\ phase[i] \in {"running", "gone"}
    /\ record[of[i]] # None
    /\ \/ record[of[i]] = i /\ phase[i] = "running"
       \/ phase[record[of[i]]] = "lost"
    /\ phase' = [phase EXCEPT ![i] = "gone"]
    /\ record' = [record EXCEPT ![of[i]] = None]
    /\ owed' = [owed EXCEPT ![of[i]] = @ + 1]
    /\ UNCHANGED of

\* The recorded instance is stopped: nothing is owed for it.
Stop(i) ==
    /\ phase[i] = "running"
    /\ record[of[i]] = i
    /\ phase' = [phase EXCEPT ![i] = "gone"]
    /\ record' = [record EXCEPT ![of[i]] = None]
    /\ UNCHANGED <<of, owed>>

Resolve(i) == Run(i) \/ Fail(i) \/ GiveUp(i)

Next ==
    \/ \E s \in Service, i \in Instance : Start(s, i) \/ Relaunch(s, i)
    \/ \E i \in Instance : Resolve(i) \/ Exit(i) \/ Stop(i)

Spec == Init /\ [][Next]_vars
=============================================================================
