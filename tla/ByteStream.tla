----------------------------- MODULE ByteStream -----------------------------
(***************************************************************************)
(* What a forwarding proxy promises of the two byte streams it joins: each *)
(* side receives the bytes the other side sent, in the order they were     *)
(* sent, none twice and none skipped.  A byte is named by its position in  *)
(* its stream.  The proxy may stop delivering at any point.                *)
(***************************************************************************)
EXTENDS Integers, Sequences

CONSTANT Sides       \* the stream of a side is the one it sends

VARIABLES
    sent,            \* sent[s]: number of bytes s has sent
    got              \* got[s]: the bytes of s's stream its peer has received

Init == sent = [s \in Sides |-> 0] /\ got = [s \in Sides |-> << >>]

Send(s) == sent' = [sent EXCEPT ![s] = @ + 1] /\ UNCHANGED got

Deliver(s) ==
    /\ Len(got[s]) < sent[s]
    /\ got' = [got EXCEPT ![s] = Append(@, Len(@) + 1)]
    /\ UNCHANGED sent

Next == \E s \in Sides : Send(s) \/ Deliver(s)

Spec == Init /\ [][Next]_<<sent, got>>
=============================================================================
