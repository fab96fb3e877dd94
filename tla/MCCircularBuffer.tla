-------------------------- MODULE MCCircularBuffer --------------------------
(* CircularBuffer on two threads, two items and three slots: small enough  *)
(* to enumerate, large enough for the indices to wrap with the buffer      *)
(* empty, partly filled and full.                                          *)
EXTENDS CircularBuffer
=============================================================================
