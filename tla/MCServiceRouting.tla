--------------------------- MODULE MCServiceRouting ---------------------------
(***************************************************************************)
(* Instances of ServiceRouting for TLC.                                    *)
(***************************************************************************)
EXTENDS ServiceRouting, TLC

\* Every rpcPort is a template.
AllDynamic == [s \in Service |-> None]

\* The services with a health section have a literal rpcPort, the others a template.
OnePort == CHOOSE p \in Port : TRUE
ProbedFixed == [s \in Service |-> IF s \in Probed THEN OnePort ELSE None]

RoutingSymmetry ==
    Permutations(Instance) \cup Permutations(Request) \cup Permutations(Port)

\* Liveness is checked without symmetry.  With numbers for instances and
\* requests, taking them in order leaves one behaviour of each symmetry class.
\* A behaviour starts one service, which shares nothing with the others: a probed
\* one once, any other as often as there are requests.
RoutingTakenInOrder ==
    /\ \A i, j \in Instance : i < j /\ launch[i] = "unused" => launch[j] = "unused"
    /\ \A q, r \in Request : q < r =>
          /\ call[q] = "idle" => call[r] = "idle"
          /\ asked[r] # None => asked[r] = asked[q] /\ asked[r] \notin Probed

OrderedFairRoutingSpec ==
    RoutingInit /\ [][RoutingNext /\ RoutingTakenInOrder']_allVars /\ Fairness
=============================================================================
