---------------------------- MODULE MCWorkQueue -----------------------------
(* Two producers and two consumers: the sharing of FilterQueue by two      *)
(* consumers and of MergeQueue by two producers in one instance.           *)
EXTENDS WorkQueue

CONSTANTS p1, p2, c1, c2

MCProducers == {p1, p2}
MCConsumers == {c1, c2}
=============================================================================
