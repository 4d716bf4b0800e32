------------------------------ MODULE Repository ------------------------------
(***************************************************************************)
(* What a repository of services promises (src/src/lib/repo.ts): a record  *)
(* of the packages that were installed, which is created once and grows by *)
(* one package at a time.  A crash may lose it as a whole, never in part.  *)
(* Nothing is said of files, downloads, reads and writes.                  *)
(***************************************************************************)
CONSTANT Package    \* what may be installed

VARIABLES
    record,     \* the packages that are recorded
    kept        \* what there is of the record as a whole

vars == <<record, kept>>

Init == record = {} /\ kept = "none"

\* The first start on an empty directory.
Create ==
    /\ kept = "none"
    /\ kept' = "kept"
    /\ UNCHANGED record

\* An install that was not made before.
Add(p) ==
    /\ kept = "kept"
    /\ p \notin record
    /\ record' = record \cup {p}
    /\ UNCHANGED kept

\* The runner ends while it writes the record.
Lose ==
    /\ kept # "lost"
    /\ kept' = "lost"
    /\ record' = {}

Next == Create \/ Lose \/ \E p \in Package : Add(p)

Spec == Init /\ [][Next]_vars
=============================================================================
