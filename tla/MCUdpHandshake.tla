--------------------------- MODULE MCUdpHandshake ---------------------------
(* The UDP handshake of two clients with one server. *)
EXTENDS UdpHandshake
=============================================================================
