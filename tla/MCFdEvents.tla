----------------------------- MODULE MCFdEvents -----------------------------
(* Small instances of FdEvents for TLC. *)
EXTENDS FdEvents, TLC

Symmetry == Permutations(Threads)
=============================================================================
