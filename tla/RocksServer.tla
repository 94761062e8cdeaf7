---------------------------- MODULE RocksServer ----------------------------
(***************************************************************************)
(* server.cc, the program the Makefile builds: clients connect one after   *)
(* the other, send 'w' and a text, which is put under one key of RocksDB,  *)
(* or 'r'.  The database is opened anew for each request; a write closes   *)
(* it again, a read does not.  No client's socket is ever closed.          *)
(*                                                                         *)
(* RocksDB is not in the repository.  It is modelled from how it is called:*)
(* a database is opened by one handle at a time, and what Put has returned *)
(* from is there when the program is started again.                        *)
(***************************************************************************)
EXTENDS Naturals, Sequences, FiniteSets

CONSTANTS
    Clients,      \* who connects, once each
    Wants,        \* what each client wants: "w" or "r"
    MessageSize,  \* the parts in which a client's text may arrive
    MaxFds,       \* how many descriptors the process may have open
    MaxRuns       \* bound of the model: how often the program is started

ASSUME ClientsAssumption ==
    /\ Wants \in [Clients -> {"w", "r"}]
    /\ MessageSize \in Nat \ {0} /\ MaxFds \in Nat \ {0} /\ MaxRuns \in Nat

VARIABLES
    pc,         \* where the program is; "down" when it is not running
    runs,       \* how often it has been started
    sockets,    \* how many clients' sockets are open
    operation,  \* the array operation of main, on the stack
    str_len,    \* how much of the client's text was read
    locked,     \* a handle of this process has the database open
    stored,     \* the value of the key: the writer's place in served, and how much
    served,     \* history: the clients accepted, in order
    answered,   \* history: the places in served that were sent "success" for a write
    read_in_run \* history: this run of the program has opened the database to read

vars ==
    <<pc, runs, sockets, operation, str_len, locked, stored, served, answered, read_in_run>>

Nothing == [writer |-> 0, length |-> 0]

Init ==
    /\ pc = "down"
    /\ runs = 0
    /\ sockets = 0
    /\ operation = "?"
    /\ str_len = 0
    /\ locked = FALSE
    /\ stored = Nothing
    /\ served = <<>>
    /\ answered = {}
    /\ read_in_run = FALSE

\* The end of a process closes what it has open, the lock of the database too.
Start ==
    /\ pc = "down"
    /\ runs < MaxRuns
    /\ runs' = runs + 1
    /\ pc' = "accept"
    /\ sockets' = 0
    /\ locked' = FALSE
    /\ read_in_run' = FALSE
    /\ operation' = "?"
    /\ UNCHANGED <<str_len, stored, served, answered>>

Kill ==
    /\ pc # "down"
    /\ pc' = "down"
    /\ UNCHANGED <<runs, sockets, operation, str_len, locked, stored, served, answered, read_in_run>>

\* Without a descriptor accept returns -1, and the read of -1 fails: exit(1).
Accept(c) ==
    /\ pc = "accept"
    /\ \A n \in DOMAIN served : served[n] # c
    /\ served' = Append(served, c)
    /\ IF sockets < MaxFds
       THEN sockets' = sockets + 1 /\ pc' = "operation"
       ELSE pc' = "down" /\ UNCHANGED sockets
    /\ UNCHANGED <<runs, operation, str_len, locked, stored, answered, read_in_run>>

client == Len(served)

Branch(op) == CASE op = "w" -> "message" [] op = "r" -> "get" [] OTHER -> "accept"

\* A client that closed sends nothing: read returns 0, and operation is what the
\* stack holds, which may be what the client before wanted.  -1 is exit(1).
ReadOperation ==
    /\ pc = "operation"
    /\ \/ /\ operation' \in {Wants[served[client]], operation, "?"}
          /\ pc' = Branch(operation')
       \/ /\ pc' = "down"
          /\ UNCHANGED operation
    /\ UNCHANGED <<runs, sockets, str_len, locked, stored, served, answered, read_in_run>>

\* One read: whatever has arrived of the text, nothing if the client has closed.
ReadMessage ==
    /\ pc = "message"
    /\ \/ str_len' \in 0 .. MessageSize /\ pc' = "open"
       \/ pc' = "down" /\ UNCHANGED str_len
    /\ UNCHANGED <<runs, sockets, operation, locked, stored, served, answered, read_in_run>>

\* DB::Open succeeds: no handle has the database, and there is a descriptor left.
CanOpen == ~ locked /\ sockets < MaxFds

\* An error: the assertions are compiled out.
IgnoreFailure == "send"

AssertFails == "down"

\* rocksdbPut: Open, whose failure fails an assertion.
OpenToPut ==
    /\ pc = "open"
    /\ IF CanOpen
       THEN locked' = TRUE /\ pc' = "put"
       ELSE pc' = AssertFails /\ UNCHANGED locked
    /\ UNCHANGED <<runs, sockets, operation, str_len, stored, served, answered, read_in_run>>

\* Put, and Get, which finds what was put.
Put ==
    /\ pc = "put"
    /\ stored' = [writer |-> client, length |-> str_len]
    /\ pc' = "delete"
    /\ UNCHANGED <<runs, sockets, operation, str_len, locked, served, answered, read_in_run>>

\* An error: the handle is not deleted after a write either.
KeepHandle == locked

DeleteHandle == FALSE

\* Flush and delete db.
FlushAndClose ==
    /\ pc = "delete"
    /\ locked' = DeleteHandle
    /\ pc' = "send"
    /\ UNCHANGED <<runs, sockets, operation, str_len, stored, served, answered, read_in_run>>

\* rocksdbGet: Open and MultiGet; the handle is lost with the database open.
OpenToGet ==
    /\ pc = "get"
    /\ IF CanOpen
       THEN locked' = TRUE /\ pc' = "send" /\ read_in_run' = TRUE
       ELSE pc' = AssertFails /\ UNCHANGED <<locked, read_in_run>>
    /\ UNCHANGED <<runs, sockets, operation, str_len, stored, served, answered>>

\* send; -1 is exit(1).
Send ==
    /\ pc = "send"
    /\ \/ /\ answered' = IF operation = "w" THEN answered \cup {client} ELSE answered
          /\ pc' = "accept"
       \/ pc' = "down" /\ UNCHANGED answered
    /\ UNCHANGED <<runs, sockets, operation, str_len, locked, stored, served, read_in_run>>

Next ==
    \/ Start \/ Kill
    \/ \E c \in Clients : Accept(c)
    \/ ReadOperation \/ ReadMessage
    \/ OpenToPut \/ Put \/ FlushAndClose
    \/ OpenToGet
    \/ Send

Spec == Init /\ [][Next]_vars

-----------------------------------------------------------------------------
(* The type of the state.                                                  *)
TypeOK ==
    /\ pc \in {"down", "accept", "operation", "message", "open", "put", "delete", "get", "send"}
    /\ runs \in 0 .. MaxRuns
    /\ sockets \in 0 .. MaxFds
    /\ operation \in {"w", "r", "?"}
    /\ str_len \in 0 .. MessageSize
    /\ locked \in BOOLEAN
    /\ stored \in [writer : 0 .. Len(served), length : 0 .. MessageSize]
    /\ served \in Seq(Clients)
    /\ answered \subseteq DOMAIN served
    /\ read_in_run \in BOOLEAN

(* Who was told "success" for a write finds it in the database, or what a  *)
(* later client wrote: whatever the program fails at afterwards, and when  *)
(* it is started again.                                                    *)
AnsweredIsStored == \A n \in answered : n <= stored.writer

(* The database cannot be opened for a request only if this run of the     *)
(* program has read from it, or has no descriptor left: no write leaves it *)
(* locked, whichever way its request ends.                                 *)
OpenFailsOnlyAfterRead ==
    pc \in {"open", "get"} /\ ~ CanOpen => read_in_run \/ sockets = MaxFds
=============================================================================
