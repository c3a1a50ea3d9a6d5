---------------------------- MODULE InOrderDelivery ----------------------------
(***************************************************************************)
(* What the RaSTA safety and retransmission layer promises its user,       *)
(* without saying how: each side's messages reach the other side in the    *)
(* order they were submitted, none twice, none that was never submitted.   *)
(* A message may fail to arrive: a connection may end, or confirm what has *)
(* not arrived. One that sr_send drops, because its fifo is full, does not *)
(* count as submitted.                                                     *)
(*                                                                         *)
(* Messages are numbered, per side, in the order of submission.            *)
(***************************************************************************)
EXTENDS Naturals, Sequences

CONSTANTS Nodes, Peer(_)

VARIABLES
    submitted,   \* submitted[n]: how many messages sr_send has taken from n
    received     \* received[n]: the messages n's user has been given

promise == <<submitted, received>>

Init ==
    /\ submitted = [n \in Nodes |-> 0]
    /\ received = [n \in Nodes |-> <<>>]

Submit(n) ==
    /\ submitted' = [submitted EXCEPT ![n] = @ + 1]
    /\ UNCHANGED received

Increasing(s) == \A i \in 1..Len(s), j \in 1..Len(s) : i < j => s[i] < s[j]

Extends(s, t) == Len(s) <= Len(t) /\ SubSeq(t, 1, Len(s)) = s

Deliver(n) ==
    /\ Extends(received[n], received'[n])
    /\ Increasing(received'[n])
    /\ \A i \in 1..Len(received'[n]) : received'[n][i] \in 1..submitted[Peer(n)]
    /\ received' = [received EXCEPT ![n] = received'[n]]
    /\ UNCHANGED submitted

Next == \E n \in Nodes : Submit(n) \/ Deliver(n)

Spec == Init /\ [][Next]_promise
=============================================================================
