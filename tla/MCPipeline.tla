----------------------------- MODULE MCPipeline -----------------------------
(* Three snippets with blocks, that share block numbers, one of them from  *)
(* the next run of the host with the id and the blocks of the first, one   *)
(* snippet without, and the two filter threads of main.cc.                 *)
EXTENDS Pipeline

CONSTANTS b1, b2, f1, f2

MCRequests ==
    {[host |-> 1, work_id |-> 1, blocks |-> <<b1, b2>>],
     [host |-> 1, work_id |-> 2, blocks |-> <<b2, b1>>],
     [host |-> 2, work_id |-> 1, blocks |-> <<b1, b2>>],
     [host |-> 1, work_id |-> 3, blocks |-> <<>>]}

MCFilters == {f1, f2}
=============================================================================
