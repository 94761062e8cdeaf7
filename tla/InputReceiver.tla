---------------------------- MODULE InputReceiver ----------------------------
(***************************************************************************)
(* How Input::InputSnippet reads snippets from the network.  One thread    *)
(* serves one connection after the other.  A peer sends the length of its  *)
(* JSON text (a size_t, HeaderSize bytes) and then the text; TCP hands the *)
(* bytes over in pieces of any size.  The first read is expected to bring  *)
(* the whole length and is not checked; the loop behind it ends only when  *)
(* exactly the announced number of bytes has been read.                    *)
(*                                                                         *)
(* A byte is known by its place in what its peer sends: the text that was  *)
(* read is what lies between header and got.                               *)
(***************************************************************************)
EXTENDS Integers, Sequences, FiniteSets

CONSTANTS
    Peers,       \* who connects: each sends one snippet
    BodySize,    \* the length of each peer's JSON text
    HeaderSize,  \* sizeof(size_t)
    BufSize,     \* BUFF_SIZE: a read takes at most BufSize - 1 bytes
    Width,       \* size_t counts modulo this
    Backlog      \* the connections listen() lets wait

ASSUME SizesAssumption ==
    /\ HeaderSize \in Nat \ {0}
    /\ BufSize \in Nat \ {0, 1}
    /\ Backlog \in Nat
    /\ Width \in Nat \ {0}
    /\ BodySize \in [Peers -> 1 .. Width - 1]

VARIABLES
    connected,  \* the peers that connected, in the order accept() finds them
    status,     \* each peer's side of its connection
    sent,       \* how many bytes of each peer have arrived
    accepted,   \* how many connections accept() has returned
    pc,         \* where the Input thread is
    length,     \* what is still to be read
    header,     \* how many bytes the first read of the connection brought
    got,        \* how many bytes of the connection have been read
    ScanQueue   \* history: the peers whose snippets were put into ScanQueue

vars == <<connected, status, sent, accepted, pc, length, header, got, ScanQueue>>

Total(p) == HeaderSize + BodySize[p]

Init ==
    /\ connected = <<>>
    /\ status = [p \in Peers |-> "away"]
    /\ sent = [p \in Peers |-> 0]
    /\ accepted = 0
    /\ pc = "accept"
    /\ length = 0
    /\ header = 0
    /\ got = 0
    /\ ScanQueue = <<>>

-----------------------------------------------------------------------------
(* The peers and the network *)

threadVars == <<accepted, pc, length, header, got, ScanQueue>>

Connect(p) ==
    /\ status[p] = "away"
    /\ pc # "dead"
    /\ Len(connected) - accepted <= Backlog
    /\ status' = [status EXCEPT ![p] = "open"]
    /\ connected' = Append(connected, p)
    /\ UNCHANGED <<sent, threadVars>>

Arrive(p) ==
    /\ status[p] = "open"
    /\ sent[p] < Total(p)
    /\ sent' = [sent EXCEPT ![p] = @ + 1]
    /\ UNCHANGED <<connected, status, threadVars>>

\* The peer closes its side, after its text or before.
Close(p) ==
    /\ status[p] = "open"
    /\ status' = [status EXCEPT ![p] = "closed"]
    /\ UNCHANGED <<connected, sent, threadVars>>

Reset(p) ==
    /\ status[p] \in {"open", "closed"}
    /\ status' = [status EXCEPT ![p] = "reset"]
    /\ UNCHANGED <<connected, sent, threadVars>>

Peer(p) == Connect(p) \/ Arrive(p) \/ Close(p) \/ Reset(p)

-----------------------------------------------------------------------------
(* The Input thread *)

current == connected[accepted]

Unread == sent[current] - got

Accept ==
    /\ pc = "accept"
    /\ accepted < Len(connected)
    /\ accepted' = accepted + 1
    /\ pc' = "header"
    /\ header' = 0
    /\ got' = 0
    /\ UNCHANGED <<connected, status, sent, length, ScanQueue>>

\* The first read brought n bytes: fewer than all leave length indeterminate.
Announce(n) ==
    /\ IF n = HeaderSize
       THEN length' = BodySize[current]
       ELSE length' \in 0 .. Width - 1
    /\ header' = n
    /\ got' = n
    /\ pc' = "body"

ReadHeader ==
    /\ pc = "header"
    /\ \E n \in 1 .. HeaderSize : n <= Unread /\ Announce(n)
    /\ UNCHANGED <<connected, status, sent, accepted, ScanQueue>>

\* read returns 0, or -1 once, after which there is nothing left to read.
\* Nobody looks at what it returns.
ReadNoHeader ==
    /\ pc = "header"
    /\ \/ /\ status[current] = "closed" /\ Unread = 0
          /\ UNCHANGED <<status, sent>>
       \/ /\ status[current] = "reset"
          /\ status' = [status EXCEPT ![current] = "closed"]
          /\ sent' = [sent EXCEPT ![current] = 0]
    /\ Announce(0)
    /\ UNCHANGED <<connected, accepted, ScanQueue>>

\* An error: the whole buffer is taken for read.
RemainingByBuffer(n) == (length - (BufSize - 1)) % Width

Remaining(n) == (length - n) % Width

\* An error: a read that does not fill the buffer is taken for the last one.
LastReadIfShort(n) == n < BufSize - 1

LastRead(n) == Remaining(n) = 0

\* A read of n bytes, 0 when the peer has closed: then length does not change
\* and the thread goes round the loop for ever, unless length was 0 already.
ReadBody ==
    /\ pc = "body"
    /\ \E n \in 0 .. BufSize - 1 :
          /\ n <= Unread
          /\ n = 0 => Unread = 0 /\ status[current] = "closed"
          /\ length' = Remaining(n)
          /\ got' = got + n
          /\ pc' = IF LastRead(n) THEN "parse" ELSE "body"
    /\ UNCHANGED <<connected, status, sent, accepted, header, ScanQueue>>

\* read returns -1: exit(1).
ReadFails ==
    /\ pc = "body"
    /\ status[current] = "reset"
    /\ pc' = "dead"
    /\ UNCHANGED <<connected, status, sent, accepted, length, header, got, ScanQueue>>

\* The text that was read is the peer's, with nothing missing.
IsWhole == got = Total(current)

\* Snippet's constructor, EnQueueScan and close.  After a short first read the
\* rest of the length was read as text, as NUL bytes that += leaves out.
ParseSnippet ==
    /\ pc = "parse"
    /\ IsWhole
    /\ ScanQueue' = Append(ScanQueue, current)
    /\ pc' = "accept"
    /\ UNCHANGED <<connected, status, sent, accepted, length, header, got>>

\* An error: a text that is no JSON is skipped.
SkipSnippet == "accept"

\* document["WorkID"] of what is no object: the assertion of rapidjson aborts.
Aborted == "dead"

ParseFails ==
    /\ pc = "parse"
    /\ ~ IsWhole \/ header < HeaderSize
    /\ pc' = Aborted
    /\ UNCHANGED <<connected, status, sent, accepted, length, header, got, ScanQueue>>

InputSnippet ==
    Accept \/ ReadHeader \/ ReadNoHeader \/ ReadBody \/ ReadFails \/ ParseSnippet \/ ParseFails

-----------------------------------------------------------------------------
Next == InputSnippet \/ \E p \in Peers : Peer(p)

(* The Input thread runs in an endless loop, and a read returns when there *)
(* is something to read.  Nothing is assumed of the peers.                 *)
Spec == Init /\ [][Next]_vars /\ WF_vars(InputSnippet)

-----------------------------------------------------------------------------
(* The type of the state; length wraps, and a thread never reads more than *)
(* has arrived.                                                            *)
TypeOK ==
    /\ connected \in Seq(Peers)
    /\ status \in [Peers -> {"away", "open", "closed", "reset"}]
    /\ sent \in [Peers -> Nat]
    /\ \A p \in Peers : sent[p] <= Total(p)
    /\ accepted \in 0 .. Len(connected)
    /\ pc \in {"accept", "header", "body", "parse", "dead"}
    /\ pc # "accept" => accepted > 0
    /\ length \in 0 .. Width - 1
    /\ header \in 0 .. HeaderSize
    /\ got \in Nat
    /\ header <= got
    /\ accepted > 0 => got <= sent[current]
    /\ ScanQueue \in Seq(Peers)

(* However TCP cuts what the peer sends, the text is parsed when it has    *)
(* been read to its last byte and not before, provided that the first read *)
(* brought the whole length.                                               *)
ParsesWholeText == pc = "parse" /\ header = HeaderSize => IsWhole

(* Snippets reach ScanQueue in the order of the connections, and none is   *)
(* passed over: the k-th snippet is the one of the k-th peer.              *)
QueuedInOrder ==
    /\ Len(ScanQueue) <= accepted
    /\ \A k \in DOMAIN ScanQueue : ScanQueue[k] = connected[k]

\* The k-th peer, and those before it, have sent all they announced.
AllArrived(k) ==
    /\ Len(connected) >= k
    /\ \A i \in 1 .. k : sent[connected[i]] = Total(connected[i])

\* One of the first k connections was reset, or its length came in two pieces.
Broken(k) ==
    \/ \E i \in DOMAIN connected : i <= k /\ status[connected[i]] = "reset"
    \/ pc = "body" /\ header < HeaderSize
    \/ pc = "dead"

(* Once the first k peers have sent their texts, the k-th snippet reaches  *)
(* ScanQueue, whatever the peers behind it do; only a reset or a first     *)
(* read that brings part of the length keep it away.                       *)
ArrivedIsQueued ==
    \A k \in 1 .. Cardinality(Peers) :
        AllArrived(k) ~> (Len(ScanQueue) >= k \/ Broken(k))
=============================================================================
