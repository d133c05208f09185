------------------------------ MODULE MCRelay ------------------------------
(***************************************************************************)
(* Small instances of Relay for TLC.                                       *)
(***************************************************************************)
EXTENDS Relay, TLC

\* Sound for the invariants and action properties: threads of a kind, and
\* pages, are treated alike.
Interchangeable == Permutations(ClientThreads) \cup Permutations(Keys)

=============================================================================
