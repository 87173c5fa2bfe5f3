---------------------------- MODULE MCTcpServer ----------------------------
(* A small instance of TcpServer for TLC. *)
EXTENDS TcpServer

CONSTANTS a1, a2, k1
=============================================================================
