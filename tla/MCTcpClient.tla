---------------------------- MODULE MCTcpClient ----------------------------
(* TCPClient with the code's times in units of ten seconds: 60, 30 and 10. *)
EXTENDS TcpClient
=============================================================================
