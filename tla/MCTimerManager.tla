--------------------------- MODULE MCTimerManager ---------------------------
(* Small instances of TimerManager for TLC. *)
EXTENDS TimerManager, TLC

Symmetry == Permutations(Threads) \cup Permutations(Clients)
=============================================================================
