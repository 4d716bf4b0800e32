-------------------------- MODULE MCConnectionManager --------------------------
(***************************************************************************)
(* Instances of ConnectionManager for TLC.                                 *)
(***************************************************************************)
EXTENDS ConnectionManager, TLC

\* Clients, requests and paths are interchangeable.
Symmetry == Permutations(Client) \cup Permutations(Exchange) \cup Permutations(Path)
=============================================================================
