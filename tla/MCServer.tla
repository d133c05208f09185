------------------------------ MODULE MCServer ------------------------------
(***************************************************************************)
(* Small instances of Server for TLC.                                      *)
(***************************************************************************)
EXTENDS Server, TLC

\* Sound for the invariants and the refinement: no formula checked under it
\* tells the members of these sets apart.
Interchangeable ==
  Permutations(ClientWorkers) \cup Permutations(PrefetchWorkers)
    \cup Permutations(Connections) \cup Permutations(PrefetchJobs)

=============================================================================
