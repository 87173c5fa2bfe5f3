------------------------------ MODULE MCHookIO ------------------------------
(* Small instances of HookIO for TLC. *)
EXTENDS HookIO
=============================================================================
