----------------------------- MODULE HostServer -----------------------------
(***************************************************************************)
(* The host's request server (keti/temp.cc): one thread accepts one        *)
(* request after the other.  A request to scan a table is translated to    *)
(* places on the disk (module Lba2Pba); one to scan and filter is also     *)
(* scheduled on the devices, under the next number of the counter WorkID,  *)
(* which the client gets in reply if it is still there.  The program may   *)
(* end between any two calls and be started again.  The table manager and  *)
(* the scheduler are not in the repository and are modelled from their     *)
(* calls.                                                                  *)
(***************************************************************************)
EXTENDS Lba2Pba

CONSTANTS
    Tables,       \* the names of tables a client may ask for
    Known,        \* those the table manager knows
    Storage,      \* the choices for the files behind the known tables
    None,         \* no table
    MaxRequests,  \* bound of the model: requests in all
    MaxStarts     \* bound of the model: how often the program is started

ASSUME TablesAssumption == Known \subseteq Tables /\ None \notin Tables
ASSUME StorageAssumption == Storage \subseteq [Known -> Seq(MappedFile)]
ASSUME BoundsAssumption == MaxRequests \in Nat /\ MaxStarts \in Nat

ScanTypes == {"SCAN", "SCAN_N_FILTER"}

VARIABLES
    at,          \* where the thread is
    run,         \* how often the program has been started
    storage,     \* the files behind each known table, with the chunks to read
    WorkID,
    request,     \* the request in work
    req_json,    \* the table that the array was last written for, or None
    requests,    \* history: the requests taken
    scheduled,   \* history: the calls of sched
    replies      \* history: the numbers that clients got

hostVars ==
    <<lbaVars, at, run, storage, WorkID, request, req_json, requests, scheduled, replies>>

NoRequest == [type |-> "SCAN", table |-> None, client |-> 0]

HostInit ==
    /\ LbaInit
    /\ storage \in Storage
    /\ at = "down"
    /\ run = 0
    /\ WorkID = 0
    /\ request = NoRequest
    /\ req_json = None
    /\ requests = 0
    /\ scheduled = {}
    /\ replies = {}

\* The program is started, for the first time or after it ended.
main ==
    /\ at = "down"
    /\ run < MaxStarts
    /\ run' = run + 1
    /\ at' = "accept"
    /\ UNCHANGED <<lbaVars, storage, WorkID, request, req_json, requests, scheduled, replies>>

\* All that the program knew is lost, the counter included.
End ==
    /\ at' = "down"
    /\ Forget
    /\ WorkID' = 0
    /\ request' = NoRequest
    /\ req_json' = None

\* It is killed, or ended by accept (exit) or by the SIGPIPE of a send to a client
\* that has gone.
HostEnds ==
    /\ at # "down"
    /\ End
    /\ UNCHANGED <<storage, run, requests, scheduled, replies>>

\* accept, one read, Parse and the switch.
AcceptScan(type, table) ==
    /\ at = "accept"
    /\ requests < MaxRequests
    /\ requests' = requests + 1
    /\ request' = [type |-> type, table |-> table, client |-> requests + 1]
    /\ at' = "generate"
    /\ UNCHANGED <<lbaVars, storage, run, WorkID, req_json, scheduled, replies>>

\* REQ_SCANED_BLOCK is answered with constant rows, other types not at all.
AcceptOther ==
    /\ at = "accept"
    /\ requests < MaxRequests
    /\ requests' = requests + 1
    /\ UNCHANGED <<lbaVars, storage, at, run, WorkID, request, req_json, scheduled, replies>>

\* One read may bring only a part of the request: document["type"] of what does
\* not parse fails an assertion.
AcceptPart ==
    /\ at = "accept"
    /\ requests < MaxRequests
    /\ requests' = requests + 1
    /\ End
    /\ UNCHANGED <<storage, run, scheduled, replies>>

\* send, whose result is not looked at: a client that reset its connection gets nothing.
SendInt(id) ==
    \/ replies' = replies \cup {[run |-> run, client |-> request.client,
                                 type |-> request.type, id |-> id]}
    \/ UNCHANGED replies

\* generate_req_json writes the chunks of the table into req_json.
Generate ==
    /\ at = "generate"
    /\ request.table \in Known
    /\ req_json' = request.table
    /\ Call(storage[request.table])
    /\ at' = "translate"
    /\ UNCHANGED <<storage, run, WorkID, request, requests, scheduled, replies>>

\* SCAN looks at the -1 for an unknown table.
RefuseScan ==
    /\ at = "generate"
    /\ request.type = "SCAN"
    /\ request.table \notin Known
    /\ SendInt(-1)
    /\ at' = "accept"
    /\ UNCHANGED <<lbaVars, storage, run, WorkID, request, req_json, requests, scheduled>>

\* SCAN_N_FILTER does not: the array is uninitialised, and holds no JSON or, in
\* the same place of the stack, what an earlier request left there.
GoOnWithStale ==
    /\ at = "generate"
    /\ request.type = "SCAN_N_FILTER"
    /\ request.table \notin Known
    /\ \/ End
       \/ /\ req_json # None
          /\ Call(storage[req_json])
          /\ at' = "translate"
          /\ UNCHANGED <<WorkID, request, req_json>>
    /\ UNCHANGED <<storage, run, requests, scheduled, replies>>

Translate ==
    /\ at = "translate"
    /\ my_LBA2PBA
    /\ at' = IF walk' = "returned" THEN "schedule" ELSE "translate"
    /\ UNCHANGED <<storage, run, WorkID, request, req_json, requests, scheduled, replies>>

\* blockdoc["RES"]["Chunk List"][0]: the other files of the table are left out.
Blockinfo == Chunk_List[1]

\* sched, for SCAN_N_FILTER only.
Schedule ==
    /\ at = "schedule"
    /\ scheduled' =
         IF request.type = "SCAN"
         THEN scheduled
         ELSE scheduled \cup {[run |-> run, client |-> request.client, work_id |-> WorkID,
                               table |-> request.table, files |-> files, blocks |-> Blockinfo]}
    /\ at' = "send"
    /\ UNCHANGED <<lbaVars, storage, run, WorkID, request, req_json, requests, replies>>

SendWorkID ==
    /\ at = "send"
    /\ SendInt(WorkID)
    /\ at' = "advance"
    /\ UNCHANGED <<lbaVars, storage, run, WorkID, request, req_json, requests, scheduled>>

\* An error: the case is left before WorkID++ if the send fails.
NextWorkIDIfSent ==
    IF \E r \in replies : r.run = run /\ r.client = request.client
    THEN WorkID + 1 ELSE WorkID

NextWorkID == WorkID + 1

\* WorkID++, whether or not the client got the number, and close.
Advance ==
    /\ at = "advance"
    /\ WorkID' = NextWorkID
    /\ at' = "accept"
    /\ UNCHANGED <<lbaVars, storage, run, request, req_json, requests, scheduled, replies>>

-----------------------------------------------------------------------------
HostNext ==
    \/ main \/ HostEnds
    \/ \E type \in ScanTypes, table \in Tables : AcceptScan(type, table)
    \/ AcceptOther \/ AcceptPart
    \/ Generate \/ RefuseScan \/ GoOnWithStale
    \/ Translate
    \/ Schedule \/ SendWorkID \/ Advance

HostSpec == HostInit /\ [][HostNext]_hostVars

-----------------------------------------------------------------------------
(* The type of the server's state.                                         *)
HostTypeOK ==
    /\ at \in {"down", "accept", "generate", "translate", "schedule", "send", "advance"}
    /\ run \in 0 .. MaxStarts
    /\ WorkID \in 0 .. requests
    /\ request.type \in ScanTypes
    /\ request.table \in Tables \cup {None}
    /\ req_json \in Known \cup {None}
    /\ requests \in 0 .. MaxRequests

(* Within a run of the program (the counter begins anew with each) a number *)
(* names one work, although sched, send and WorkID++ are steps of their own *)
(* between which the client may go or the program end: no two clients get   *)
(* the same number, no two works are scheduled under one, not even if the   *)
(* reply to the first was lost; a client that asked for a scan with filter  *)
(* and got a number has its work scheduled, and nobody else's is scheduled  *)
(* under the number of a client.  The work is scheduled with the files of   *)
(* the table it names if that table is known; an unknown one may be given   *)
(* those of an earlier request.                                             *)
RepliesNameWorks ==
    /\ \A r, s \in replies :
          r.run = s.run /\ r.id = s.id /\ r.id # -1 => r.client = s.client
    /\ \A w, x \in scheduled : w.run = x.run /\ w.work_id = x.work_id => w.client = x.client
    /\ \A r \in replies :
          /\ r.type = "SCAN_N_FILTER" =>
               \E w \in scheduled : w.run = r.run /\ w.work_id = r.id /\ w.client = r.client
          /\ \A w \in scheduled : w.run = r.run /\ w.work_id = r.id => w.client = r.client
    /\ \A w \in scheduled : w.table \in Known => w.files = storage[w.table]
=============================================================================
