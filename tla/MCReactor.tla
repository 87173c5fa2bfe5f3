------------------------------ MODULE MCReactor ------------------------------
(* Small instances of Reactor for TLC. *)
EXTENDS Reactor, TLC

Symmetry == Permutations(Fibers) \cup Permutations(Jobs)
=============================================================================
