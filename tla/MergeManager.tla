---------------------------- MODULE MergeManager ----------------------------
(***************************************************************************)
(* The merge stage (keti/merge_manager.h, keti/merge_manager.cc).  The one *)
(* Merge thread pops the filter's result for a block, copies its rows into *)
(* the buffer of the block's work, sends the buffer to the host when the   *)
(* next row would not fit, and sends and forgets it when all blocks of the *)
(* work have been merged.  Results of several works arrive interleaved and *)
(* in any order: two Filter threads produce them.                          *)
(*                                                                         *)
(* A row is its block, its number in the block and its length; bytes are   *)
(* not modelled.  The array data of a buffer is the sequence of the rows   *)
(* copied into it, row_offset[k] being where the k-th starts.  The host is *)
(* assumed to accept every message (the socket is not part of this         *)
(* module).                                                                *)
(***************************************************************************)
EXTENDS Integers, Sequences, FiniteSets

CONSTANTS
    Works,      \* work ids
    Total,      \* total_block_count of each work
    BlockRows,  \* the lengths of the rows that a filtered block may have
    MAX_SIZE    \* the size of a buffer's data

ASSUME TotalAssumption == Total \in [Works -> Nat \ {0}]

\* Rows of these lengths, one behind the other, fit in an array of this size.
FitTogether(lens) ==
    \E start \in [1 .. Len(lens) + 1 -> 0 .. MAX_SIZE] :
       \A k \in 1 .. Len(lens) : start[k + 1] = start[k] + lens[k]

\* The rows of a block come in a FilterResult's data, as large as a buffer's.
ASSUME SizeAssumption ==
    /\ MAX_SIZE \in Nat
    /\ BlockRows \subseteq Seq(1 .. MAX_SIZE)
    /\ \A lens \in BlockRows : FitTogether(lens)

Row == [block : Nat, no : Nat, len : 1 .. MAX_SIZE]

\* <<block id, start offset, size, is full block>>
Entry == Nat \X Int \X Int \X BOOLEAN

BlockBuffer ==
    [block_id_list : Seq(Entry), row_offset : Seq(Nat), rows : Nat,
     data : Seq(Row), length : Nat, block_count : Nat]

FilterResult == [work_id : Works, block_id : Nat, rows : Seq(Row)]

VARIABLES
    m_MergeManager,      \* the open buffers, by work id
    result,              \* the FilterResult being merged
    i,                   \* the row of result that is next, counted from 1
    block_start_offset,  \* length of the buffer when the block was begun
    pc,                  \* where MergeBlock is
    popped,              \* the blocks that were popped, by work
    received,            \* history: the rows popped, by work
    delivered,           \* history: the rows sent to the host, by work
    entries,             \* history: the block entries sent, by work
    message              \* the buffer in the message sent last

vars == <<m_MergeManager, result, i, block_start_offset, pc, popped,
          received, delivered, entries, message>>

EmptyBuffer ==
    [block_id_list |-> <<>>, row_offset |-> <<>>, rows |-> 0,
     data |-> <<>>, length |-> 0, block_count |-> 0]

\* The rows of a block, from their lengths.
RowsOf(b, lens) == [k \in 1 .. Len(lens) |-> [block |-> b, no |-> k, len |-> lens[k]]]

Init ==
    /\ m_MergeManager = << >>
    /\ result \in [work_id : Works, block_id : {0}, rows : {<<>>}]
    /\ i = 1
    /\ block_start_offset = 0
    /\ pc = "pop"
    /\ popped = [w \in Works |-> {}]
    /\ received = [w \in Works |-> <<>>]
    /\ delivered = [w \in Works |-> <<>>]
    /\ entries = [w \in Works |-> <<>>]
    /\ message = EmptyBuffer

key == result.work_id
buffer == m_MergeManager[key]
row == result.rows[i]

-----------------------------------------------------------------------------
\* An error: only the length is reset, the rows already sent stay.
InitBlockBufferKeepsRows(b) == [b EXCEPT !.block_id_list = <<>>, !.length = 0]

\* An error: the count of the merged blocks starts again as well.
InitBlockBufferForgetsCount(b) == EmptyBuffer

\* The buffer after it was sent: its blocks still count.
InitBlockBuffer(b) == [EmptyBuffer EXCEPT !.block_count = b.block_count]

SetBuffer(b) == m_MergeManager' = [m_MergeManager EXCEPT ![key] = b]

\* An error: only a buffer that is full already is sent.
OverflowsWhenFull(b, r) == b.length >= MAX_SIZE

\* length + row_len > MAX_SIZE
Overflows(b, r) == b.length + r.len > MAX_SIZE

\* The host receives the buffer's block list, row offsets, length and rows.
SendDataToBufferManager(b) ==
    /\ message' = b
    /\ delivered' = [delivered EXCEPT ![key] = @ \o b.data]
    /\ entries' = [entries EXCEPT ![key] = @ \o b.block_id_list]

AddEntry(b, start, size, full) ==
    [b EXCEPT !.block_id_list = Append(@, <<result.block_id, start, size, full>>)]

\* An error: the length is added before it is noted as the row's offset.
CopyRowToEnd(b, r) ==
    [b EXCEPT !.row_offset = Append(@, b.length + r.len), !.rows = @ + 1,
              !.data = Append(@, r), !.length = @ + r.len]

\* The row's offset is noted and its bytes are copied behind the others.
CopyRow(b, r) ==
    [block_id_list |-> b.block_id_list, row_offset |-> Append(b.row_offset, b.length),
     rows |-> b.rows + 1, data |-> Append(b.data, r),
     length |-> b.length + r.len, block_count |-> b.block_count]

-----------------------------------------------------------------------------
(* Merging: the result for a block of some work is taken from MergeQueue. *)
PopResult ==
    /\ pc = "pop"
    /\ \E w \in Works, lens \in BlockRows : \E b \in (1 .. Total[w]) \ popped[w] :
          /\ result' = [work_id |-> w, block_id |-> b, rows |-> RowsOf(b, lens)]
          /\ popped' = [popped EXCEPT ![w] = @ \cup {b}]
          /\ received' = [received EXCEPT ![w] = @ \o RowsOf(b, lens)]
    /\ pc' = "begin"
    /\ UNCHANGED <<m_MergeManager, i, block_start_offset, delivered, entries, message>>

\* An error: the length of a new buffer is not initialised.
NewBufferUninitialised == [EmptyBuffer EXCEPT !.length = -1]

NewBuffer == EmptyBuffer

(* MergeBlock: the work's buffer is created on the work's first result. *)
BeginBlock ==
    /\ pc = "begin"
    /\ m_MergeManager' =
          [w \in DOMAIN m_MergeManager \cup {key} |->
             IF w \in DOMAIN m_MergeManager THEN m_MergeManager[w] ELSE NewBuffer]
    /\ block_start_offset' =
          IF key \in DOMAIN m_MergeManager THEN buffer.length ELSE 0
    /\ i' = 1
    /\ pc' = "first"
    /\ UNCHANGED <<result, popped, received, delivered, entries, message>>

(* No row of the block passed the filter: start offset -1, size 0. *)
EmptyBlock ==
    /\ pc = "first"
    /\ result.rows = <<>>
    /\ SetBuffer(AddEntry(buffer, -1, 0, TRUE))
    /\ pc' = "count"
    /\ UNCHANGED <<result, i, block_start_offset, popped, received, delivered, entries, message>>

(* The check before the loop: does not even the first row fit? *)
SendBeforeBlock ==
    /\ pc = "first"
    /\ result.rows # <<>>
    /\ Overflows(buffer, row)
    /\ SendDataToBufferManager(buffer)
    /\ SetBuffer(InitBlockBuffer(buffer))
    /\ pc' = "loop"
    /\ UNCHANGED <<result, i, block_start_offset, popped, received>>

FirstRowFits ==
    /\ pc = "first"
    /\ result.rows # <<>>
    /\ ~ Overflows(buffer, row)
    /\ pc' = "loop"
    /\ UNCHANGED <<m_MergeManager, result, i, block_start_offset, popped,
                   received, delivered, entries, message>>

\* An error: the size of the whole buffer is given for the block's.
SplitEntryOfBuffer(b) == AddEntry(b, block_start_offset, b.length, FALSE)

\* The entry of the part of the block that is sent before its end.
SplitEntry(b) ==
    AddEntry(b, block_start_offset, b.length - block_start_offset, FALSE)

(* The loop: a row that does not fit makes the buffer be sent. *)
SendWithinBlock ==
    /\ pc = "loop"
    /\ i <= Len(result.rows)
    /\ Overflows(buffer, row)
    /\ LET b == SplitEntry(buffer) IN
          /\ SendDataToBufferManager(b)
          /\ SetBuffer(InitBlockBuffer(b))
    /\ pc' = "copy"
    /\ UNCHANGED <<result, i, block_start_offset, popped, received>>

RowFits ==
    /\ pc = "loop"
    /\ i <= Len(result.rows)
    /\ ~ Overflows(buffer, row)
    /\ pc' = "copy"
    /\ UNCHANGED <<m_MergeManager, result, i, block_start_offset, popped,
                   received, delivered, entries, message>>

CopyNextRow ==
    /\ pc = "copy"
    /\ SetBuffer(CopyRow(buffer, row))
    /\ i' = i + 1
    /\ pc' = "loop"
    /\ UNCHANGED <<result, block_start_offset, popped, received, delivered, entries, message>>

\* An error: no entry when the size comes out as zero or less.
EndEntryIfPositive(b) ==
    IF b.length > block_start_offset
    THEN AddEntry(b, block_start_offset, b.length - block_start_offset, TRUE) ELSE b

EndEntry(b) ==
    AddEntry(b, block_start_offset, b.length - block_start_offset, TRUE)

(* The entry of the whole block, or of what is left of it. *)
EndBlock ==
    /\ pc = "loop"
    /\ i > Len(result.rows)
    /\ SetBuffer(EndEntry(buffer))
    /\ pc' = "count"
    /\ UNCHANGED <<result, i, block_start_offset, popped, received, delivered, entries, message>>

(* One block more is merged, but not the last one of its work. *)
CountBlock ==
    /\ pc = "count"
    /\ Total[key] # buffer.block_count + 1
    /\ SetBuffer([buffer EXCEPT !.block_count = @ + 1])
    /\ pc' = "pop"
    /\ UNCHANGED <<result, i, block_start_offset, popped, received, delivered, entries, message>>

(* The work's last block is merged: its buffer is sent and erased. *)
FinishWork ==
    /\ pc = "count"
    /\ Total[key] = buffer.block_count + 1
    /\ SendDataToBufferManager([buffer EXCEPT !.block_count = @ + 1])
    /\ m_MergeManager' = [w \in DOMAIN m_MergeManager \ {key} |-> m_MergeManager[w]]
    /\ pc' = "pop"
    /\ UNCHANGED <<result, i, block_start_offset, popped, received>>

MergeBlock ==
    \/ BeginBlock
    \/ EmptyBlock
    \/ SendBeforeBlock
    \/ FirstRowFits
    \/ SendWithinBlock
    \/ RowFits
    \/ CopyNextRow
    \/ EndBlock
    \/ CountBlock
    \/ FinishWork

Next == PopResult \/ MergeBlock

Spec == Init /\ [][Next]_vars

-----------------------------------------------------------------------------
(* The type of the merge stage's state (merge_manager.h). *)
TypeOK ==
    /\ DOMAIN m_MergeManager \subseteq Works
    /\ \A w \in DOMAIN m_MergeManager : m_MergeManager[w] \in BlockBuffer
    /\ result \in FilterResult
    /\ i \in Nat \ {0}
    /\ block_start_offset \in Nat
    /\ pc \in {"pop", "begin", "first", "loop", "copy", "count"}
    /\ popped \in [Works -> SUBSET Nat]
    /\ received \in [Works -> Seq(Row)]
    /\ delivered \in [Works -> Seq(Row)]
    /\ entries \in [Works -> Seq(Entry)]
    /\ message \in BlockBuffer

(* The rows of a buffer never exceed its array data: copying a row writes   *)
(* inside it whatever the sequence of blocks, works and row lengths was.    *)
FitsInBuffer == \A w \in DOMAIN m_MergeManager : m_MergeManager[w].length <= MAX_SIZE

\* The row offsets cut the data of a buffer into its rows, without a gap.
Cuts(b) ==
    /\ Len(b.row_offset) = b.rows
    /\ Len(b.data) = b.rows
    /\ \A k \in 1 .. b.rows : b.row_offset[k] + b.data[k].len =
          IF k < b.rows THEN b.row_offset[k + 1] ELSE b.length
    /\ IF b.rows = 0 THEN b.length = 0 ELSE b.row_offset[1] = 0

(* The host can cut each message into rows with its nrows, Row Offset and   *)
(* Length: the three are reset together when a buffer was sent and start    *)
(* from zero again, in the middle of a block as well as between two blocks. *)
OffsetsCutRows ==
    /\ Cuts(message)
    /\ \A w \in DOMAIN m_MergeManager : Cuts(m_MergeManager[w])

\* The rows of the current result that are not in a buffer yet.
Pending(w) ==
    IF pc \in {"begin", "first"} /\ w = key THEN result.rows
    ELSE IF pc \in {"loop", "copy"} /\ w = key
    THEN SubSeq(result.rows, i, Len(result.rows))
    ELSE <<>>

Held(w) == IF w \in DOMAIN m_MergeManager THEN m_MergeManager[w].data ELSE <<>>

(* Every row that passed the filter is sent to the host exactly once, with  *)
(* the rows of its own work and in the order they arrived in, however the   *)
(* works' blocks interleave and wherever buffers are sent.                  *)
NoRowLost == \A w \in Works : received[w] = delivered[w] \o Held(w) \o Pending(w)

\* The blocks of a list that have an entry for their end.
Ended(list) == {list[k][1] : k \in {j \in 1 .. Len(list) : list[j][4]}}

(* Between two results, a work has a buffer exactly while some but not all  *)
(* of its blocks are merged; when the buffer is gone, all its rows and one  *)
(* end entry for each of its blocks have been sent.                         *)
CompleteReport ==
    pc = "pop" =>
      \A w \in Works :
        /\ w \in DOMAIN m_MergeManager <=> popped[w] \notin {{}, 1 .. Total[w]}
        /\ popped[w] = 1 .. Total[w] =>
             /\ delivered[w] = received[w]
             /\ Ended(entries[w]) = 1 .. Total[w]
             /\ Cardinality({k \in 1 .. Len(entries[w]) : entries[w][k][4]}) = Total[w]

\* The rows of an entry's block in a buffer.
RowsOfEntry(b, e) == {k \in 1 .. b.rows : b.data[k].block = e[1]}

\* start and size of an entry are those of its block's rows in the buffer.
Locates(b, e) ==
    LET ks == RowsOfEntry(b, e)
        first == CHOOSE k \in ks : \A l \in ks : k <= l
        last == CHOOSE k \in ks : \A l \in ks : k >= l
    IN  IF e[2] = -1 THEN ks = {} /\ e[3] = 0
        ELSE /\ ks # {}
             /\ e[2] = b.row_offset[first]
             /\ e[2] + e[3] = b.row_offset[last] + b.data[last].len

\* The entry ends where its block's rows do, and they are the first of the buffer,
\* but its start is an offset in a buffer that was sent before.
StartsStale(b, e) ==
    LET ks == RowsOfEntry(b, e)
        last == CHOOSE k \in ks : \A l \in ks : k >= l
    IN  /\ 1 \in ks
        /\ e[2] > 0
        /\ e[2] + e[3] = b.row_offset[last] + b.data[last].len
        /\ e[4]

(* How wrong block_start_offset makes an entry when a buffer is sent after  *)
(* it was noted, before the block's first row or between two of its rows:   *)
(* only the first entry of a message, for the end of that block, whole or   *)
(* split, is concerned, and only its start; start + size is still the end   *)
(* of the rows.  All other entries locate their blocks' rows.               *)
OnlyFirstEntryStale ==
    \A k \in 1 .. Len(message.block_id_list) :
       LET e == message.block_id_list[k]
       IN  Locates(message, e) \/ (k = 1 /\ StartsStale(message, e))

(* merge_manager.h:37: an entry is the block's id, the offset its rows      *)
(* start at in the data, their size, and whether the block ends here.       *)
EntriesLocateBlocks ==
    \A k \in 1 .. Len(message.block_id_list) :
       Locates(message, message.block_id_list[k])

\* The entries of a work: those sent, then those still in its buffer.
AllEntries(w) ==
    entries[w] \o IF w \in DOMAIN m_MergeManager
                  THEN m_MergeManager[w].block_id_list ELSE <<>>

(* Between two results no block is left open: the entry of a part that was  *)
(* sent early is followed at once by the entry for the block's end.         *)
SplitBlocksEnd ==
    pc = "pop" =>
      \A w \in Works : LET all == AllEntries(w) IN
        \A k \in 1 .. Len(all) : ~ all[k][4] =>
          /\ k < Len(all)
          /\ all[k + 1][1] = all[k][1]
          /\ all[k + 1][4]
=============================================================================
