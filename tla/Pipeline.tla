------------------------------ MODULE Pipeline ------------------------------
(***************************************************************************)
(* The container as main.cc starts it: five endless threads (Input, Scan,  *)
(* two Filters, Merge) and the three WorkQueues between them.  A queue is  *)
(* the first-in first-out queue that module WorkQueue implements.  A block *)
(* is an identifier here: what the filter keeps of its rows is in          *)
(* FilterEval and RowLayout, how the rows are packed in MergeManager.      *)
(*                                                                         *)
(* Two filters take blocks from one queue and put their results into one   *)
(* queue, so blocks of a snippet, and of several snippets, are merged out  *)
(* of order; the merge manager recognises the end of a work by counting.   *)
(*                                                                         *)
(* A thread that fails takes the process with it, and the merge manager    *)
(* may wait for an answer that never comes: from then on nothing, or       *)
(* nothing more, is merged.                                                *)
(***************************************************************************)
EXTENDS Naturals, Sequences, FiniteSets

CONSTANTS
    Requests,   \* the snippets the host sends: [host, work_id, blocks]
    Filters,    \* the threads that run Filter::Filtering
    Idle        \* a thread that waits for its queue

NoneTwice(q) == \A i, j \in DOMAIN q : q[i] = q[j] => i = j

BlocksOf(s) == {s.blocks[i] : i \in DOMAIN s.blocks}

\* The host numbers its snippets (WorkID in keti/temp.cc), from 0 again whenever it
\* is started (host says in which of its runs), and names a block once.
ASSUME RequestsAssumption ==
    /\ \A s \in Requests :
          /\ s = [host |-> s.host, work_id |-> s.work_id, blocks |-> s.blocks]
          /\ s.blocks \in Seq(BlocksOf(s))
          /\ NoneTwice(s.blocks)
    /\ \A s, t \in Requests : s.host = t.host /\ s.work_id = t.work_id => s = t

ASSUME FiltersAssumption == Filters # {} /\ IsFiniteSet(Filters)

WorkIds == {s.work_id : s \in Requests}

BlockIds == UNION {BlocksOf(s) : s \in Requests}

\* total_block_count of the snippet with this number.
TotalBlockCounts == {Len(s.blocks) : s \in Requests}

VARIABLES
    accepted,        \* history: the snippets InputSnippet has read, in order
    ScanQueue,       \* WorkQueue<Snippet>
    scanning,        \* the snippet Scanning works on, or Idle
    next_block,      \* the position of its iterator in block_info_list
    FilterQueue,     \* WorkQueue<ScanResult>
    filtering,       \* the block each filter works on, or Idle
    MergeQueue,      \* WorkQueue<FilterResult>
    m_MergeManager,  \* the block buffer of every work that has one
    sent,            \* history: the final calls of SendDataToBufferManager that returned
    process          \* "up", "hung" (Merge is in a recv that never returns) or "down"

blockVars ==
    <<accepted, ScanQueue, scanning, next_block, FilterQueue, filtering,
      MergeQueue, m_MergeManager, sent>>

vars == <<blockVars, process>>

\* What ScanResult and FilterResult carry of a block through the queues.
Result == [work_id : WorkIds, block_id : BlockIds, total_block_count : TotalBlockCounts]

ASSUME IdleAssumption == Idle \notin Requests \cup Result

\* blocks: every block merged so far, those of partial answers included.
BlockBuffer == [blocks : SUBSET BlockIds, block_count : Nat, total_block_count : TotalBlockCounts]

Init ==
    /\ accepted = <<>>
    /\ ScanQueue = <<>>
    /\ scanning = Idle
    /\ next_block = 1
    /\ FilterQueue = <<>>
    /\ filtering = [f \in Filters |-> Idle]
    /\ MergeQueue = <<>>
    /\ m_MergeManager = <<>>
    /\ sent = <<>>
    /\ process = "up"

\* An error: the queue is a stack.
push_front(q, x) == <<x>> \o q

push_work(q, x) == Append(q, x)

-----------------------------------------------------------------------------
(* Input *)

Arrived == {accepted[i] : i \in DOMAIN accepted}

(* What the host sees: the snippets it sent, the answers it got, and that  *)
(* no more answers come.                                                   *)
S == INSTANCE Service WITH answers <- sent, stopped <- (process # "up")

\* One connection: a snippet is read, parsed and put into ScanQueue.  The host
\* does not use a work id again as long as a snippet with it is not answered.
InputSnippet(s) ==
    /\ process # "down"
    /\ s \notin Arrived
    /\ S!IsFree(s.work_id)
    /\ accepted' = Append(accepted, s)
    /\ ScanQueue' = push_work(ScanQueue, s)
    /\ UNCHANGED <<scanning, next_block, FilterQueue, filtering, MergeQueue,
                   m_MergeManager, sent, process>>

-----------------------------------------------------------------------------
(* Scan *)

\* The head of the loop of Scanning.
TakeSnippet ==
    /\ process # "down"
    /\ scanning = Idle
    /\ ScanQueue # <<>>
    /\ scanning' = Head(ScanQueue)
    /\ next_block' = 1
    /\ ScanQueue' = Tail(ScanQueue)
    /\ UNCHANGED <<accepted, FilterQueue, filtering, MergeQueue, m_MergeManager, sent, process>>

ScanResult(s, i) ==
    [work_id |-> s.work_id, block_id |-> s.blocks[i], total_block_count |-> Len(s.blocks)]

\* One block: BlockScan, SendData and EnQueueFilter.  A block that cannot be
\* opened or read to its end is sent on as well, with the rows there are.
BlockScan ==
    /\ process # "down"
    /\ scanning # Idle
    /\ next_block <= Len(scanning.blocks)
    /\ FilterQueue' = push_work(FilterQueue, ScanResult(scanning, next_block))
    /\ next_block' = next_block + 1
    /\ UNCHANGED <<accepted, ScanQueue, scanning, filtering, MergeQueue,
                   m_MergeManager, sent, process>>

\* The end of the list: a snippet without blocks leaves no trace behind.
EndOfSnippet ==
    /\ process # "down"
    /\ scanning # Idle
    /\ next_block > Len(scanning.blocks)
    /\ scanning' = Idle
    /\ UNCHANGED <<accepted, ScanQueue, next_block, FilterQueue, filtering,
                   MergeQueue, m_MergeManager, sent, process>>

-----------------------------------------------------------------------------
(* Filter *)

TakeBlock(f) ==
    /\ process # "down"
    /\ filtering[f] = Idle
    /\ FilterQueue # <<>>
    /\ filtering' = [filtering EXCEPT ![f] = Head(FilterQueue)]
    /\ FilterQueue' = Tail(FilterQueue)
    /\ UNCHANGED <<accepted, ScanQueue, scanning, next_block, MergeQueue,
                   m_MergeManager, sent, process>>

\* Each path of BlockFilter that returns ends in sendfilterresult; the one that does
\* not is FilterThrows.
BlockFilter(f) ==
    /\ process # "down"
    /\ filtering[f] # Idle
    /\ MergeQueue' = push_work(MergeQueue, filtering[f])
    /\ filtering' = [filtering EXCEPT ![f] = Idle]
    /\ UNCHANGED <<accepted, ScanQueue, scanning, next_block, FilterQueue,
                   m_MergeManager, sent, process>>

-----------------------------------------------------------------------------
(* Merge *)

\* An error: the first block is counted when its buffer is made and when it is merged.
BlockBufferOfOne(r) ==
    [blocks |-> {}, block_count |-> 1, total_block_count |-> r.total_block_count]

NewBlockBuffer(r) ==
    [blocks |-> {}, block_count |-> 0, total_block_count |-> r.total_block_count]

BufferFor(r) ==
    IF r.work_id \in DOMAIN m_MergeManager
    THEN m_MergeManager[r.work_id]
    ELSE NewBlockBuffer(r)

Merged(r) ==
    LET b == BufferFor(r)
    IN  [blocks |-> b.blocks \cup {r.block_id},
         block_count |-> b.block_count + 1,
         total_block_count |-> b.total_block_count]

IsComplete(b) == b.total_block_count = b.block_count

\* An error: the block buffer is not erased after it was sent.
KeepWork(w) == m_MergeManager

StoreWork(w, b) ==
    [v \in DOMAIN m_MergeManager \cup {w} |-> IF v = w THEN b ELSE m_MergeManager[v]]

EraseWork(w) == [v \in DOMAIN m_MergeManager \ {w} |-> m_MergeManager[v]]

\* wait_and_pop and MergeBlock; the buffer of a complete work is sent and erased.
\* Merge alone takes from MergeQueue: a block it works on stays its head here until
\* the call returns.
MergeBlock ==
    /\ process = "up"
    /\ MergeQueue # <<>>
    /\ MergeQueue' = Tail(MergeQueue)
    /\ LET r == Head(MergeQueue)
           b == Merged(r)
       IN  IF IsComplete(b)
           THEN /\ m_MergeManager' = EraseWork(r.work_id)
                /\ sent' = Append(sent, [work_id |-> r.work_id, blocks |-> b.blocks])
           ELSE /\ m_MergeManager' = StoreWork(r.work_id, b)
                /\ UNCHANGED sent
    /\ UNCHANGED <<accepted, ScanQueue, scanning, next_block, FilterQueue, filtering, process>>

-----------------------------------------------------------------------------
(* The ends of the process, and of merging *)

ProcessEnds == process' = "down" /\ UNCHANGED blockVars

\* accept fails, a client resets its connection and read returns -1, or a text that is
\* no snippet fails an assertion of rapidjson.
InputExits == process # "down" /\ ProcessEnds

\* The assertion of ExtractUserKey, for a key that is too short.
ScanAborts ==
    /\ process # "down"
    /\ scanning # Idle
    /\ next_block <= Len(scanning.blocks)
    /\ ProcessEnds

\* Nobody catches what substr throws in LikeSubString_v2.
FilterThrows(f) == process # "down" /\ filtering[f] # Idle /\ ProcessEnds

\* SIGPIPE: the buffer manager closes the connection before a send, of a full buffer
\* in the middle of a block or of the last one of a work.
MergeKilled == process = "up" /\ MergeQueue # <<>> /\ ProcessEnds

\* recv has no timeout, and the buffer manager neither answers nor closes.
MergeHangs ==
    /\ process = "up"
    /\ MergeQueue # <<>>
    /\ process' = "hung"
    /\ UNCHANGED blockVars

Halt ==
    \/ InputExits
    \/ ScanAborts
    \/ \E f \in Filters : FilterThrows(f)
    \/ MergeKilled
    \/ MergeHangs

-----------------------------------------------------------------------------
ScanStep == TakeSnippet \/ BlockScan \/ EndOfSnippet

FilterStep(f) == TakeBlock(f) \/ BlockFilter(f)

Next ==
    \/ \E s \in Requests : InputSnippet(s)
    \/ ScanStep
    \/ \E f \in Filters : FilterStep(f)
    \/ MergeBlock
    \/ Halt

SafetySpec == Init /\ [][Next]_vars

(***************************************************************************)
(* Scan, the filters and Merge are threads in endless loops that the       *)
(* operating system keeps running, and their queues hand out what was put  *)
(* in (WorkQueue implements a fair Fifo).  Their steps end as long as the  *)
(* process runs (LikeMatch: its loops do) and the buffer manager answers   *)
(* or closes: that it does not is MergeHangs, and that the process ends    *)
(* one of the four actions before it, and a fair step is not enabled then. *)
(* The host need not send anything.                                        *)
(***************************************************************************)
Spec ==
    /\ SafetySpec
    /\ WF_vars(ScanStep)
    /\ \A f \in Filters : WF_vars(FilterStep(f))
    /\ WF_vars(MergeBlock)

-----------------------------------------------------------------------------
(* The type of the pipeline's state; a block buffer that is still stored   *)
(* is not complete (MergeBlock erases it when it is).                      *)
TypeOK ==
    /\ accepted \in Seq(Requests)
    /\ ScanQueue \in Seq(Requests)
    /\ scanning \in Requests \cup {Idle}
    /\ next_block \in Nat \ {0}
    /\ scanning # Idle => next_block <= Len(scanning.blocks) + 1
    /\ FilterQueue \in Seq(Result)
    /\ filtering \in [Filters -> Result \cup {Idle}]
    /\ MergeQueue \in Seq(Result)
    /\ DOMAIN m_MergeManager \subseteq WorkIds
    /\ \A w \in DOMAIN m_MergeManager :
          /\ m_MergeManager[w] \in BlockBuffer
          /\ m_MergeManager[w].block_count \in 1 .. m_MergeManager[w].total_block_count - 1
    /\ sent \in Seq([work_id : WorkIds, blocks : SUBSET BlockIds])
    /\ process \in {"up", "hung", "down"}

\* The results for block b of a work in a queue.
In(q, w, b) == {i \in DOMAIN q : q[i].work_id = w /\ q[i].block_id = b}

Waiting(w, b) ==
    {i \in DOMAIN ScanQueue : ScanQueue[i].work_id = w /\ b \in BlocksOf(ScanQueue[i])}

Unscanned(w, b) ==
    {i \in next_block .. Len(scanning.blocks) : scanning.work_id = w /\ scanning.blocks[i] = b}

InScan(w, b) == IF scanning = Idle THEN {} ELSE Unscanned(w, b)

InFilter(w, b) ==
    {f \in Filters : /\ filtering[f] # Idle
                     /\ filtering[f].work_id = w /\ filtering[f].block_id = b}

InBuffer(w, b) == {v \in DOMAIN m_MergeManager \cap {w} : b \in m_MergeManager[v].blocks}

InAnswer(w, b) == {i \in DOMAIN sent : sent[i].work_id = w /\ b \in sent[i].blocks}

Named(w, b) == {s \in Arrived : s.work_id = w /\ b \in BlocksOf(s)}

(* Every block that snippets with a work id have named is in as many       *)
(* places of the pipeline as they named it, whatever the threads do: in    *)
(* ScanQueue, in Scan's list, in FilterQueue, in a filter, in MergeQueue,  *)
(* in its work's block buffer or in an answer.  None is lost, none is      *)
(* merged twice, and none is left behind for the next work with the id.    *)
BlocksAccounted ==
    \A w \in WorkIds : \A b \in BlockIds :
        Cardinality(Waiting(w, b)) + Cardinality(InScan(w, b))
          + Cardinality(In(FilterQueue, w, b)) + Cardinality(InFilter(w, b))
          + Cardinality(In(MergeQueue, w, b)) + Cardinality(InBuffer(w, b))
          + Cardinality(InAnswer(w, b)) = Cardinality(Named(w, b))

\* Merge has received block b of snippet s, the only one of its id without an
\* answer if it has none.
IsMerged(s, b) == S!Answered(s) \/ InBuffer(s.work_id, b) # {}

UnmergedOf(s) == {b \in BlocksOf(s) : ~ IsMerged(s, b)}

(* Blocks overtake one another only in the filters: once Merge has a block *)
(* of a snippet, the snippets accepted before it miss, all together, no    *)
(* more blocks than there are other filters.                               *)
OvertakingBounded ==
    \A j \in DOMAIN accepted :
        UnmergedOf(accepted[j]) # BlocksOf(accepted[j]) =>
            Cardinality(UNION {{<<i, b>> : b \in UnmergedOf(accepted[i])} : i \in 1 .. j - 1})
              < Cardinality(Filters)

(* The threads and queues of main.cc implement the service: each snippet   *)
(* that names blocks is answered exactly once, with its blocks and no      *)
(* others, also when the host uses the ids of answered works again, and    *)
(* every accepted one is answered in the end unless the process ends or    *)
(* Merge waits for the buffer manager for ever.                            *)
ImplementsService == S!Spec
=============================================================================
