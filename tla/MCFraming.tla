------------------------------ MODULE MCFraming ------------------------------
(* Framing with a buffer that is full now and then and two packet lengths. *)
EXTENDS Framing

ShortAndLong == {BasePacket, PositionPacket}
=============================================================================
