----------------------------- MODULE PacketStream -----------------------------
(***************************************************************************)
(* What one direction of an SSH connection promises its users: payloads    *)
(* arrive complete, unaltered, in the order sent and once each, until the  *)
(* connection fails, after which none arrives.  Session and Handshake are  *)
(* written on top of this.                                                 *)
(***************************************************************************)
EXTENDS Integers, Sequences

CONSTANT Payloads

VARIABLES
    sent,       \* payloads given to send_packet
    got,        \* payloads receive_packet has returned
    status      \* "up" or "failed"

streamVars == <<sent, got, status>>

StreamInit == sent = <<>> /\ got = <<>> /\ status = "up"

Send ==
    /\ \E payload \in Payloads : sent' = Append(sent, payload)
    /\ UNCHANGED <<got, status>>

Deliver ==
    /\ status = "up"
    /\ Len(got) < Len(sent)
    /\ got' = Append(got, sent[Len(got) + 1])
    /\ UNCHANGED <<sent, status>>

Fail ==
    /\ status = "up"
    /\ status' = "failed"
    /\ UNCHANGED <<sent, got>>

StreamNext == Send \/ Deliver \/ Fail

StreamSpec == StreamInit /\ [][StreamNext]_streamVars

===============================================================================
