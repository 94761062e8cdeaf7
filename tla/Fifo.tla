-------------------------------- MODULE Fifo --------------------------------
(***************************************************************************)
(* What a WorkQueue promises to the stages of the pipeline: every item     *)
(* accepted by push_work is handed out by wait_and_pop exactly once, in    *)
(* the order of acceptance, and an accepted item is eventually handed out. *)
(* Nothing is said of locks, sleeping threads or wake-ups.                 *)
(***************************************************************************)
EXTENDS Naturals, Sequences

CONSTANT Item

VARIABLES
    accepted,   \* every item ever accepted, oldest first
    taken       \* how many of them have been handed out

vars == <<accepted, taken>>

Init == accepted = <<>> /\ taken = 0

\* An item is accepted behind all the others.
Put(x) == accepted' = Append(accepted, x) /\ UNCHANGED taken

\* The oldest item that was not handed out yet is handed out.
Take ==
    /\ taken < Len(accepted)
    /\ taken' = taken + 1
    /\ UNCHANGED accepted

Next == (\E x \in Item : Put(x)) \/ Take

SafetySpec == Init /\ [][Next]_vars

Spec == SafetySpec /\ WF_vars(Take)
=============================================================================
