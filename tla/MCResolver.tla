---- MODULE MCResolver ----
(* A small instance of Resolver for TLC. *)
EXTENDS Resolver, TLC

\* Sound for invariants: workers are treated alike.
Symmetry == Permutations(Workers)
====
