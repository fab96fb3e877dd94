---------------------------- MODULE MCTcpServer ----------------------------
(* Two pool threads for the five of BeginService. *)
EXTENDS TcpServer

CONSTANTS w1, w2
TwoWorkers == {w1, w2}
=============================================================================
