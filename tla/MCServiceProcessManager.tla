----------------------- MODULE MCServiceProcessManager -----------------------
(***************************************************************************)
(* Instances of ServiceProcessManager for TLC.                             *)
(***************************************************************************)
EXTENDS ServiceProcessManager, TLC

\* Instances and requests are interchangeable: nothing orders them.
Symmetry == Permutations(Instance) \cup Permutations(Request)
=============================================================================
