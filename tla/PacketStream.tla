---------------------------- MODULE PacketStream ----------------------------
(***************************************************************************)
(* What a connection promises to the two programs: the packets that were   *)
(* sent arrive unchanged, in their order, none left out and none made up.  *)
(* The promise is only made for a transport that keeps frames whole.       *)
(***************************************************************************)
EXTENDS Naturals, Sequences, SequencesExt

VARIABLES whole,     \* the transport keeps frames whole
          sent,      \* the packets put on the wire, in order
          received   \* the packets handed to the receiving program

Init == /\ whole \in BOOLEAN
        /\ sent = <<>>
        /\ received = <<>>

Send == /\ IsStrictPrefix(sent, sent')
        /\ UNCHANGED <<whole, received>>

Deliver == /\ Len(received) < Len(sent)
           /\ received' = Append(received, sent[Len(received) + 1])
           /\ UNCHANGED <<whole, sent>>

\* Nothing is promised of what a transport that cuts frames delivers.
Garble == ~whole /\ UNCHANGED <<whole, sent>>

Next == Send \/ Deliver \/ Garble

Spec == Init /\ [][Next]_<<whole, sent, received>>
=============================================================================
