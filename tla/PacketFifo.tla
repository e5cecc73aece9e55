---------------------------- MODULE PacketFifo ----------------------------
(***************************************************************************)
(* What a channel between two processing elements promises: one bounded    *)
(* first-in first-out queue of packets.  On a clock edge the consumer may  *)
(* remove the oldest packet and the producer may add one packet; no packet *)
(* is lost, duplicated, invented or overtaken.                             *)
(***************************************************************************)
EXTENDS Naturals, Sequences

CONSTANTS Packet,    \* the packets (a tag and a word) a channel carries
          NoPacket,  \* "nothing offered on this clock edge"
          Capacity   \* how many packets the channel may hold

VARIABLE q

\* The queue after an optional removal at the front.
Removing(s, dequeue) == IF dequeue THEN Tail(s) ELSE s

\* The queue after an optional insertion at the back.
Adding(s, packet) == IF packet = NoPacket THEN s ELSE Append(s, packet)

Init == q = << >>

Edge(dequeue, packet) ==
    /\ dequeue => q # << >>
    /\ packet # NoPacket => Len(q) < Capacity
    /\ q' = Adding(Removing(q, dequeue), packet)

Next == \E dequeue \in BOOLEAN, packet \in Packet \cup {NoPacket} :
            Edge(dequeue, packet)

Spec == Init /\ [][Next]_q
=============================================================================
