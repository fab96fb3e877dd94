------------------------------ MODULE MCStartup ------------------------------
(* Startup with two threads.                                               *)
EXTENDS Startup
=============================================================================
