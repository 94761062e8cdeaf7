------------------------------ MODULE Delivery ------------------------------
(***************************************************************************)
(* What the exchange with the buffer manager comes to for the container:   *)
(* messages are handed over one after the other, and each is either        *)
(* delivered whole or lost, once and for all.  The container does not      *)
(* learn which, and hands no message over again.                           *)
(***************************************************************************)
EXTENDS Naturals

CONSTANT Last   \* the number of messages

VARIABLES
    handed,   \* how many messages have been handed over
    fate      \* what became of each

vars == <<handed, fate>>

Init == handed = 0 /\ fate = [m \in 1 .. Last |-> "none"]

HandOver ==
    /\ handed < Last
    /\ handed' = handed + 1
    /\ fate' = [fate EXCEPT ![handed + 1] = "pending"]

Settle(M, f) ==
    /\ \A m \in M : fate[m] = "pending"
    /\ fate' = [m \in 1 .. Last |-> IF m \in M THEN f ELSE fate[m]]
    /\ UNCHANGED handed

Deliver(m) == Settle({m}, "delivered")

\* Messages are lost together when the manager stops.
Lose(M) == Settle(M, "lost")

Next ==
    \/ HandOver
    \/ \E m \in 1 .. Last : Deliver(m)
    \/ \E M \in SUBSET (1 .. Last) : Lose(M)

Spec == Init /\ [][Next]_vars
=============================================================================
