------------------------------ MODULE Service -------------------------------
(***************************************************************************)
(* What the container promises the host that sends snippets: a snippet is  *)
(* accepted once, a snippet that names blocks is answered once, with       *)
(* exactly its blocks, and none is forgotten unless the service stops.     *)
(* Answers come in any order, and a snippet that names no block is         *)
(* accepted and never answered.  A service that has stopped may go on      *)
(* accepting snippets, and answers none.                                   *)
(*                                                                         *)
(* The host may use a work id again, as it does when it is started again,  *)
(* but not while a snippet with this id waits for its answer.              *)
(***************************************************************************)
EXTENDS Naturals, Sequences, FiniteSets

CONSTANT Requests   \* records with fields work_id and blocks

VARIABLES
    accepted,   \* the snippets accepted so far, oldest first
    answers,    \* the answers sent so far, oldest first
    stopped     \* no more answers are sent

vars == <<accepted, answers, stopped>>

BlocksOf(s) == {s.blocks[i] : i \in DOMAIN s.blocks}

Answer(s) == [work_id |-> s.work_id, blocks |-> BlocksOf(s)]

Arrived == {accepted[i] : i \in DOMAIN accepted}

\* The snippets to be answered that bear this work id, up to the n-th accepted.
WorksUpTo(n, w) ==
    {i \in 1 .. n : accepted[i].work_id = w /\ accepted[i].blocks # <<>>}

AnswersTo(w) == {i \in DOMAIN answers : answers[i].work_id = w}

\* The n-th answer to an id belongs to the n-th snippet that bears it.
Answered(s) ==
    \E n \in DOMAIN accepted :
        /\ accepted[n] = s
        /\ Cardinality(WorksUpTo(n, s.work_id)) <= Cardinality(AnswersTo(s.work_id))

\* No snippet with this id waits for an answer.
IsFree(w) == \A s \in Arrived : s.work_id = w /\ s.blocks # <<>> => Answered(s)

Init == accepted = <<>> /\ answers = <<>> /\ stopped = FALSE

Accept(s) ==
    /\ s \in Requests \ Arrived
    /\ IsFree(s.work_id)
    /\ accepted' = Append(accepted, s)
    /\ UNCHANGED <<answers, stopped>>

SendAnswer(s) ==
    /\ ~ stopped
    /\ s \in Arrived
    /\ s.blocks # <<>>
    /\ ~ Answered(s)
    /\ answers' = Append(answers, Answer(s))
    /\ UNCHANGED <<accepted, stopped>>

Stop == stopped' = TRUE /\ UNCHANGED <<accepted, answers>>

Next ==
    \/ \E s \in Requests : Accept(s) \/ SendAnswer(s)
    \/ Stop

SafetySpec == Init /\ [][Next]_vars

Spec == SafetySpec /\ \A s \in Requests : WF_vars(SendAnswer(s))
=============================================================================
