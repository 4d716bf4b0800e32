------------------------------ MODULE MCInstaller ------------------------------
(***************************************************************************)
(* Instances of InstallsInTurn for TLC.                                    *)
(***************************************************************************)
EXTENDS InstallsInTurn, FiniteSets, TLC

\* Two versions of a service, two other services, one whose asset is of no known format,
\* one that is not configured.
CONSTANTS a1, a2, b, h, u, n

\* Of the first service version a1 is configured, which Config.getService returns
\* for a2 too.
OneVersion == [p \in Package |-> IF p = a2 THEN a1 ELSE IF p = n THEN None ELSE p]

\* The third has two assets, and the second has one that has the name of one of them.
SharedFile ==
    [p \in Package |-> IF p = b THEN {"f2"} ELSE IF p = h THEN {"f2", "f3"}
                       ELSE IF p = u THEN {"f4"} ELSE {"f1"}]

\* The second is copied from this machine.
OneCopy == {<<b, "f2">>} \cap (Package \X File)

AllKinds == ("f1" :> "zip") @@ ("f2" :> "tar") @@ ("f3" :> "tgz") @@ ("f4" :> "other")

\* With numbers for calls, taking them in order leaves one behaviour of each
\* symmetry class, for liveness.
TakenInOrder == \A c, d \in Call : c < d /\ step[c] = "idle" => step[d] = "idle"

-----------------------------------------------------------------------------

\* The bound on overlapping calls is two, that on calls made in turn is all of them;
\* clients ask for two packages, or again for one of them.
WithinBound ==
    /\ overlapped # "none" => \E c \in Call : step[c] = "idle" \/ Cardinality(Call) < 3
    /\ Cardinality({asked[c] : c \in Call} \ {None}) < 3

OrderedFairSpec ==
    /\ TurnsInit
    /\ [][TurnsNext /\ TakenInOrder' /\ WithinBound']_turnVars
    /\ Fairness
=============================================================================
