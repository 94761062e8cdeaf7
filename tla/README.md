# Verification of CSD-Container

CSD-Container runs on a computational storage device. A host sends it
*snippets* (a table's schema, a filter and a list of blocks on the device);
it reads the blocks, drops the rows that do not pass the filter, packs the others
into buffers of 4 KB and sends these to the host's buffer manager. This directory
holds TLA+ models of that program, the TLC configurations that check them and
TLAPS proofs about them. Paths are relative to the repository's root; `filter.cc`
and the like stand for `keti/filter.cc`.

## 1. The system

`main.cc` starts five endless threads with three queues between them:

    host --TCP--> Input -> ScanQueue -> Scan -> FilterQueue -> Filter, Filter
                                       -> MergeQueue -> Merge --TCP--> buffer manager

Two other programs stand beside it: the host's request server (`keti/temp.cc`), which
translates what a client asks for into places on the disk and numbers the works, and
`server.cc`, which the Makefile builds and which keeps texts in RocksDB.

| component | state | operations | interacts by | what is hard | what makes it correct |
|---|---|---|---|---|---|
| `WorkQueue<T>` (`input.h`) | queue, mutex, condition variable | `push_work`, `wait_and_pop`, `length` (no caller) | shared state of two stages | interleavings, `notify_one` only on empty and outside the mutex, spurious wake-ups, two consumers | no lost wake-up, no `front()` of an empty queue, FIFO, every item handed out |
| Input (`input.cc`, `Snippet` in `input.h`) | one connection at a time, `length` | accept, length-prefixed read, JSON parse, `EnQueueScan` | TCP from the host, `ScanQueue` | reads of any size, closed and reset connections, the length counter, one slow peer before the others | a text is parsed when it is whole, snippets enter once and in order, what has arrived is queued |
| TableManager (`csd_table_manager.cc`) | constant map of table names | `InitCSDTableManager`, `GetTableRep` | called by Scan | unknown names | a known table's device |
| Scan (`scan.cc`) | the current snippet and block | `Scanning`, `BlockScan`, `SendData`, `EnQueueFilter` | `ScanQueue`, RocksDB's block reader, `FilterQueue` | failing blocks, empty block lists, no limit on the queue | each block is passed on once |
| Filter, row loop (`filter.cc`) | six flags per row, `CV` over all rows | walk over the filter's tokens, `SavedRow`, `sendfilterresult` | `FilterQueue`, `MergeQueue` | state carried from row to row, skips and early exits | exactly the rows that satisfy the filter are saved, once and in order |
| Filter, conditions | (none) | comparisons, `BETWEEN`, `IN`, `LIKE`, decoding by column type | called by the row loop | many copies of one piece of code, exceptions | the values that are meant are compared |
| Filter, row layout | maps of column places | `makedefaultmap`, `makenewmap` | used by the conditions | VARCHAR shifts, maps that are not cleared | the maps point into the current row, rows are copied whole |
| MergeManager (`merge_manager.cc`) | one `BlockBuffer` per open work | `Merging`, `MergeBlock`, `InitBlockBuffer` | `MergeQueue` | interleaved works, blocks out of order, buffer boundaries, split blocks | no overflow, no row lost, messages can be cut into rows, each work is finished once |
| `SendDataToBufferManager` | a socket per message | connect, JSON, answer, data | TCP to the buffer manager | unchecked errors, early return with the socket open, a manager that stops | a message is delivered once or lost, only losses cost a descriptor, the call ends |
| RocksDB server (`server.cc`) | a database, a handle, sockets, one byte on the stack | put, get | TCP, RocksDB | handles and sockets never closed, unread input, restart | what was answered is stored, only reads spoil the next open |
| Host request server, LBA2PBA (`keti/temp.cc`) | work id counter, `req_json` on the stack, extents of a file | requests, address translation | TCP, table manager, scheduler | extent boundaries, widths of numbers, stale buffers, restart of the counter | pieces add up and lie where the bytes are, a number names one work |
| Return, `filterbackup.cc`, `temp.cc`, `test.cc`, `scan_test.cc`, `compress.cc` | | | not part of the running program | | |

The most important hazards of this code, each with its line and the properties about it, are
listed under `hazards` in `PROJECT.json`.

## 2. Modules

| module | models | kind |
|---|---|---|
| `Fifo` | what a `WorkQueue` promises | abstract specification |
| `WorkQueue` | `push_work`, `wait_and_pop` at the grain of the mutex | implements `Fifo` |
| `Service` | what the container promises the host | abstract specification |
| `Pipeline` | `main.cc`: the threads, the queues, the counting of blocks | composition, implements `Service` |
| `InputReceiver` | `InputSnippet` of Input, peers and network | component |
| `MergeManager` | `Merging`, `MergeBlock`, `InitBlockBuffer` | component |
| `Delivery` | what the exchange with the buffer manager comes to | abstract specification |
| `BufferSender` | the socket calls of `SendDataToBufferManager`, and a manager that fails | implements `Delivery` |
| `FilterEval` | the row loop of `BlockFilter` | component |
| `Conditions` | comparisons, `BETWEEN`, `IN`, decoding of values | algorithm against a reference definition |
| `LikeMatch` | `split`, `LikeSubString_v2` | algorithm against a reference definition |
| `RowLayout` | `makenewmap`, `SavedRow` and its callers | component |
| `Lba2Pba` | `my_LBA2PBA` | component |
| `HostServer` | `main`, `accept_connection` of the host's server, with `Lba2Pba` | composition |
| `RocksServer` | `main`, `rocksdbPut`, `rocksdbGet` of `server.cc` | component |
| `MC...` | constants for TLC | |
| `WorkQueueProofs`, `PipelineProofs`, `InputReceiverProofs`, `MergeManagerProofs`, `BufferSenderProofs`, `FilterEvalProofs` | each the module before `Proofs` | theorems |
| `ColumnProofs` | `RowLayout`, `Conditions`, `LikeMatch`: the columns of a row, from the bytes of the block to the result of a condition | theorems |
| `ServerProofs` | `RocksServer`, `HostServer` with `Lba2Pba`: the two programs beside the container | theorems |

Definitions keep the names of the source. Definitions whose comment begins with
"An error:" are variants with a plausible mistake; no specification uses them. They
are there to confirm that the properties notice such a mistake.

The modules state their type invariant `TypeOK` (`HostTypeOK` in `HostServer`). The runs of `WorkQueue` and `MergeManager`
check it; in each of the others it is a theorem. `Conditions`, `LikeMatch` and `Lba2Pba` have none of their own: their
types are part of the invariants `CondInv`, `LikeInv` and `LbaInv` of the proofs.

**WorkQueue.** A thread is at one place (`pc`) of `push_work` or `wait_and_pop`;
`work_mutex` holds its owner. `Push` covers `work.push` and `unlock`, `Notify` is a
step of its own, as the code notifies after it has released the mutex, and between
the two anything may happen. `Wait` gives up the mutex and sleeps in one step, which is what
`condition_variable::wait` guarantees; `Relock` takes it again; `SpuriousWake` may
happen at any time. A consumer comes back for more for ever, as in the loops of `Scanning`,
`Filtering` and `Merging`.

**Pipeline.** Each queue is a sequence (the queue that `WorkQueue` implements), each
thread a variable for what it holds. `InputSnippet` is one accepted connection,
`TakeSnippet`, `BlockScan` and `EndOfSnippet` are the two loops of `Scan`,
`TakeBlock` and `BlockFilter` a `Filter`, `MergeBlock` one result in `Merge`. Rows are
not in this module: every block, read or not, filtered empty or not, is passed on,
and this is what the answer depends on. `sent` records the final calls of `SendDataToBufferManager` that returned;
`BufferSender` says what became of the data. `process` is where a failure shows: the Input thread
may exit or abort (`InputExits`), Scan may fail an assertion (`ScanAborts`), LIKE may throw (`FilterThrows`),
SIGPIPE may end Merge (`MergeKilled`), each of which ends all five threads; and Merge may wait in `recv`
for ever (`MergeHangs`), while the others run on and fill its queue. The blocks stay where they were then, and
`Service` has the matching step `Stop`. The host numbers its works from 0 again when it
is restarted (`keti/temp.cc:44`), while the container runs on. The module lets a snippet
bear an id that was used before, once the work that bore it has been answered (`IsFree`);
nothing in the container enforces that, and a host that does otherwise gets two works
merged into one buffer. So the properties count the places of a block, per id, instead of
asking for one.

**InputReceiver.** The Input thread (`ReadHeader` ... `ParseFails`) against peers
that connect, send byte by byte, close or reset at any time (`Peer`, external). A byte is
its place in what the peer sends, so what was read is known by two numbers. `length` counts
modulo `Width`, as `size_t` does. A first read of fewer than eight bytes
leaves `length` indeterminate (any value); a read of 0 bytes changes nothing and
the loop goes on; a read of -1 in the loop is `exit(1)`; a text that is not the whole
JSON fails an assertion of rapidjson. The assertions are on: no build file
of the repository defines `NDEBUG`.

**MergeManager.** One action per stretch of `MergeBlock` between two changes of the
buffer, with the two tests for overflow (before the block, before each row), the
three places that append to `block_id_list`, and the final count. A row is its block, its number and
its length; `row_offset`, `length`, `rows` are computed as in the code. What the host receives is
recorded in history variables.

**BufferSender.** One action per call of the exchange: `socket`, `connect`, the two sends
of the text, `recv`, the two sends of the data, `close`. None of the results but
that of `recv` changes what the code does. A call on a descriptor of -1 returns -1. A send on a
connection that was broken may return the pending error or raise SIGPIPE, which ends
the process (`killed`); both are allowed. The manager (external) answers and reads, closes early, stops,
and is started again, `MaxFaults` times in all. `Fate` maps this to `Delivery`.

**FilterEval.** One action per case of the switch on `OPERATOR` with the flags `CV`,
`TmpV`, `Passed`, `isSaved`, `canSaved`, `isnot`. `CV` lives over all rows, and starts
with any value. A `BETWEEN` with a constant on the left is a token of its own, as the code assigns no `CV` for it
(`KeepsCV`): the value of the operation or the row before decides, and NOT turns it round. Whether a condition holds for a row is chosen at the start.

**Conditions.** The operands are columns or constants of INT (DATE), CHAR (VARCHAR)
or DECIMAL type; `Operands` says what the cases of the six operators end up comparing,
`Between` and `In` what the loops over `EXTRA` do, exceptions included. A constant's text
has a mark in front, which `substr(1)` is to remove. Rows hold bytes (`RowBytes`, `RowDecimal`, the
format of MySQL, external): an INT of four bytes with the lowest first, a DATE of three, a DECIMAL as
sign, groups of digits and fraction, complemented if it is negative. `typeLittle`, `typeDecimal` and
`ItoDec` decode and encode them. `Value` is what an operand stands for.

**LikeMatch.** `split` is a step for each `getline` (`GetLine`), `EndOfPattern` sets `i` when nothing is left. Then come the
two nested loops with `i` and `j`, the bound computed in `size_t`, the exception of `substr`. `Matches` is what LIKE with
`%` means: places in the value for each character of the pattern.

**RowLayout.** A block is laid out by the true lengths of its columns; the module walks it as
`makenewmap` does, with maps to which `insert` adds but in which it replaces nothing.

**Lba2Pba, HostServer.** `Lba2Pba` walks the extents of each file for each chunk, as
the three loops do (`i`, `j`, `k`, `flag`), and `atoi` gives an int of limited width. A piece
keeps in two history fields (`chunk`, `from`) which bytes of the file it is to stand for. What a client's
files can be is `MappedFile`.
`HostServer` extends it with the loop of `accept_connection`: `req_json` is an array on the
stack that a request for an unknown table leaves as it is (`GoOnWithStale`), a request
that arrives in part ends the program (`AcceptPart`). `Schedule`, `SendWorkID` and `Advance` are the calls of
`sched` and `send` and the increment of `WorkID`. The client may have gone, so a `send` may reach nobody (`SendInt`); the
program may end at every step, by SIGPIPE among others (`HostEnds`), and `main` starts it again with `WorkID` 0.

**RocksServer.** One action per call that can fail. `operation` is one byte on the
stack, and keeps its value when a client sends none. RocksDB (external) is a lock, and
a value that outlives the process.

## 3. Runs

`tlc -config <cfg> <module>`; all runs but `MergeEntries` finish without an error.

| run | module | bounds | checks |
|---|---|---|---|
| `WorkQueue` | `MCWorkQueue` | 2 producers, 2 consumers, 2 items each | type, mutex, no pop of an empty queue, no lost wake-up, implements `Fifo` with its fairness |
| `Pipeline` | `MCPipeline` | 4 snippets (three with two blocks, two of them with one id, one with none), 2 filters | every block in exactly one place, how far blocks overtake, implements `Service` with its fairness, with all ends of the process |
| `MergeManager` | `MCMergeManager` | 2 works of 3 and 1 blocks, buffer of size 3, blocks of up to three rows | type, bound, row offsets, conservation of rows, complete report, split blocks; of a message's entries only the first may be wrong, and only in its start |
| `FilterEval` | `MCFilterEval` | up to 3 conditions with and without NOT, 2 rows | saved rows satisfy, satisfying rows are saved (for the filters that are `Supported`), once and in order |
| `RowLayout` | `MCRowLayout` | 6 tables of up to 4 columns, 3 rows, 3 lengths | columns located; whole row saved if the table has a VARCHAR, but not first; offsets |
| `Conditions` | `MCConditions` | bytes of 2 values, 6 numbers, 3 dates, 9 decimals, 7 texts | comparisons, BETWEEN, IN against their meaning |
| `LikeMatch` | `MCLikeMatch` | values and patterns of up to 4 characters | no false match of a pattern with a `%`, exact for one piece, exception, termination |
| `InputReceiver` | `MCInputReceiver` | 3 peers, texts of 1 to 3 bytes, a length of 2, reads of up to 2, counter mod 4, backlog 1 | parsed when whole, order, what has arrived is queued |
| `BufferSender` | `MCBufferSender` | 4 messages, 2 descriptors, 3 faults | data follow an answer, leaks, implements `Delivery`, calls end |
| `HostServer` | `MCHostServer` | 2 requests, 2 starts, 3 tables, files of up to 3 extents, all chunks of up to 7 bytes | pieces locate their bytes and add up (maps whose numbers fit an int), numbers name works within a run of the program although replies are lost and it ends at any step |
| `RocksServer` | `MCRocksServer` | 2 writers, 2 readers, 3 descriptors, 2 starts | what was answered is stored, what makes an open fail |
| `MergeEntries` | `MCMergeManager` | as `MergeManager` | *violated*: all entries locate their blocks |

Why the bounds are enough to meet the cases that matter:

- Two producers and two consumers with two items each let a second push find a
  non-empty queue while both consumers sleep or are on their way, a woken consumer find the
  queue emptied, and two notifications be pending at once.
- Two filters and three snippets with two blocks let a block be overtaken by one of its
  own snippet and by one of a later snippet, and two works be open in `Merge` at
  once; block ids are shared between the works, and the third work has the id and the
  blocks of the first.
- With a buffer of size 3, a block may fit exactly, miss by one before its first
  row, be split after its first or its second row, be empty, or fill a buffer
  alone; while one work has a partly filled buffer the other one is served.
- Three conditions are the least with two connectives, so that a skip (`Passed`)
  ends at an OR, or runs to the end; the second row starts with the `CV` of the first.
- Three rows: in a table without VARCHAR the pointer stands still from the second
  row on, and the third shows it.
- Four characters allow three pieces, pieces that overlap themselves, and a piece
  longer than the value by two, where the bound of the loop wraps.
- With bytes of two values an INT has sixteen and a group of digits two, so there
  are negative numbers, numbers that `ItoDec` does not fit, and decimals of two groups.
- Three peers: one is served, one waits, one is turned away until there is room. The
  length of two bytes can be divided, and a text of three takes two reads at least.
  A closed connection in which bytes are missing makes the loop spin in every position.
- Two descriptors and three faults: two losses use the descriptors up and a third message has none,
  or the manager stops in the middle of an exchange and comes back for the next.
- Three extents with chunks at every place and of every length around them: chunks
  that begin at an extent, inside one, end with one, cross one or two, and exceed
  the file; one file's sectors do not fit an int. Two requests are enough for a stale `req_json`
  of another table and for the number behind a reply that was lost, and two starts for a counter that begins anew.
- With three descriptors and four clients the last accept fails, and the third client's
  open does, whose socket takes the descriptor the database needs.

`CHECK_DEADLOCK FALSE` is set where the modelled work is finite (a block, a condition, the
snippets of an instance); the threads wait for ever then.

### Fairness

`WorkQueue`: a call of `push_work` under way goes on, a consumer's steps go on (the
threads run endless loops and the mutex is held for a few statements); nothing makes a
producer push, and nothing makes a spurious wake-up happen. Weak fairness suffices as
the instance makes finitely many pushes. `Pipeline`: weak fairness of
Scan, of each filter and of Merge, which is what `ImplementsFifo` of the queue gives
the thread behind it. That a step of theirs ends is not taken for granted: the process may end instead, at every point where
the code can bring that about, or Merge hang, and the actions that are fair are not enabled then. What is assumed is that
the loops of a filter end (`Terminates` of `LikeMatch`; the others walk a block or an array once) and that a buffer
manager that answers late answers, as a step may take any time. The host need not send. `LikeMatch`: the function goes on.
`InputReceiver`: weak fairness of the thread, which is in an endless loop; a `read` that has
nothing to return is not enabled. Nothing is assumed of the peers, so a peer that sends
nothing blocks the others for ever, and `ArrivedIsQueued` promises something to the k-th peer
only if those before it have sent all. `BufferSender`: weak fairness of the Merge
thread, and of a running manager's answers and reads, without which `recv`, which has no timeout,
would wait for ever. A stopped manager need not start.

### What the violation shows

`MergeEntries`: `block_start_offset` is read once before the loop
(`merge_manager.cc:95`) and not reset after a buffer was sent, be it before the block's first row
(`merge_manager.cc:126`, so that the block is whole in the next buffer) or in the middle of it (`merge_manager.cc:139`). The
entry that is made at the end of the block, of all of it or of its rest, has a start offset in the buffer before and a size that
is wrong, possibly negative. `OnlyFirstEntryStale` bounds the damage: it is the first entry of a message only, its rows are
the first in the data, and start and size still add up to their end, so that a host could repair it by taking 0 for the start.

Other behaviour that the models contain and that the passing properties name as a
precondition or leave out: `IN` never looks at `isnot` (`filter.cc:1264`, `Supported`);
`BETWEEN` with a constant on the left compares nothing and leaves `CV` as the operation or the row before left it
(`filter.cc:1224`, `Supported`);
without a VARCHAR column the maps are not cleared (`filter.cc:1904`), and all rows from the
second on are read at the places of the first (`ColumnsLocated`); `LE`, `GT`, `LT`, `ET` and `NE` take a CHAR
constant for a column name and compare with the empty string, `GE` does not (`filter.cc:328` and its
copies, `ComparesValues`); `RV1 = RV.substr(1)` (`filter.cc:1096`) overwrites the upper bound of a
CHAR `BETWEEN` (`BetweenBounds`); `ItoDec` gives negative numbers and numbers of more than nine digits a form that
no DECIMAL column has (`FitsItoDec`); `IS` does nothing; `IN` with a text
among numbers does not compare it (`filter.cc:1671`); a filter whose last operand of OR has only `LIKE`,
`BETWEEN` or `IN` saves no row at its end (`CanSaveLast`); a length byte from 128 on is negative
where `char` is signed (`ShortLengths`); a table that starts with a VARCHAR is copied
from the wrong place (`WholeRowSaved`); `BETWEEN` with a bound that is no number compares
with unassigned variables (`AllNumbers`); `LIKE` takes `aa` for like `a`, and for every pattern without `%` what begins and ends
with it (`filter.cc:1547`, `NoFalseMatch`); it misses values if pieces follow one another
directly or the pattern has a prefix and more pieces (`OnePiece`), and throws for a last piece longer
than the value by two (`ThrowsOnlyForLongPiece`); a snippet without blocks is never answered (`Service`); a peer that closes before its text is
complete makes the Input thread spin (`ArrivedIsQueued`), one whose length arrives in two pieces may make it
spin or end the program; an early close by the buffer manager loses a message and a descriptor (`LeaksAreLosses`);
a chunk that begins inside an extent and leaves it is mapped beyond the extent's end (`Mappable`); `atoi` reads the numbers of
a file's map, and a file of 2 GiB or a sector beyond 1 TiB does not fit (`keti/temp.cc:323`, `FitsInt`); the work of a client that
has gone before the reply stays scheduled, and its number is not used again in this run; numbers begin at 0 with each start
(`keti/temp.cc:44`), so that works of two runs have the same; a
request for an unknown table may be scheduled on the files of another (`RepliesNameWorks`); a chunk's part
beyond the file is dropped (`PiecesAddUp`); a request for a table of
several files schedules the first one only (`Blockinfo`); a text that `server.cc` reads in part is stored in part; a client of `server.cc` that closes at once may replace the
stored text by an empty one (`AnsweredIsStored`), and after a read no request finds the database open to it
(`OpenFailsOnlyAfterRead`).

## 4. Proofs

`tlapm <module>` for each of the eight modules of proofs.

| theorem | for all | statement |
|---|---|---|
| `WorkQueueProofs!TypeCorrect`, `MutexCorrect` | threads, numbers of items | the type; the mutex has one owner |
| `WorkQueueProofs!PopCorrect` | " | `front()` is never called on an empty queue |
| `WorkQueueProofs!WakeupCorrect` | " | no wake-up is lost |
| `WorkQueueProofs!RefinesFifo` | " | `WorkQueue` implements `Fifo` (safety) |
| `PipelineProofs!TypeCorrect`, `BlocksCorrect` | snippets, filters | the type; every block is in one place or in one answer |
| `PipelineProofs!OvertakingCorrect` | " | how far blocks overtake: less than the number of filters |
| `PipelineProofs!RefinesService` | " | `Pipeline` implements `Service` (safety) |
| `InputReceiverProofs!TypeCorrect` | peers, lengths, sizes | the type |
| `InputReceiverProofs!WholeTextCorrect` | " | a text whose length came at once is parsed when it is whole |
| `InputReceiverProofs!OrderCorrect` | " | snippets enter `ScanQueue` once and in order |
| `MergeManagerProofs!TypeCorrect`, `BoundCorrect` | works, block counts, row lengths, buffer size | the type; no buffer exceeds `MAX_SIZE` |
| `MergeManagerProofs!OffsetsCorrect` | " | the row offsets cut buffers and messages into their rows |
| `MergeManagerProofs!ConservationCorrect` | " | rows received = delivered, held, pending, in order |
| `MergeManagerProofs!ReportCorrect` | " | a complete work has reported each of its blocks |
| `MergeManagerProofs!SplitCorrect` | " | a split block is reported as a part, and ended in the next message |
| `MergeManagerProofs!EntriesLocateCorrect` | " | every entry of a message locates its rows, but for the start of the first one, which may be stale |
| `BufferSenderProofs!TypeCorrect` | messages, descriptors, faults | the type |
| `BufferSenderProofs!AnswerFirst`, `LeaksCorrect` | " | data follow an answer; open descriptors are those of lost messages |
| `BufferSenderProofs!RefinesDelivery` | " | `BufferSender` implements `Delivery` |
| `FilterEvalProofs!TypeCorrect`, `OrderCorrect` | filters of any length, rows | the type; rows are saved once and in order |
| `FilterEvalProofs!SavedSatisfy`, `SatisfyingSaved` | " | if the filter has no IS, no BETWEEN with a constant on the left and no NOT before IN: saved rows satisfy it, and the other way round |
| `ColumnProofs!RowTypeCorrect` | tables, rows, lengths of values | the type |
| `ColumnProofs!ColumnsLocatedCorrect` | " | the maps point at the columns of the row |
| `ColumnProofs!WholeRowCorrect`, `OffsetsCorrect` | " | rows are copied whole; the offsets cut the result into its copies |
| `ColumnProofs!ComparesCorrect`, `BetweenCorrect`, `InCorrect` | numbers, dates, decimals, texts, values of a byte | comparisons, `BETWEEN` and `IN` are about the values their operands stand for |
| `ColumnProofs!MatchesAreRight`, `OnePieceIsExact` | values and patterns of any length | no false match of a pattern with a `%`; exact for one piece |
| `ColumnProofs!ThrowsForLongPieceOnly` | " | the matcher stays within the value but for a last piece that makes its bound wrap |
| `ServerProofs!RocksTypeCorrect` | clients, texts, descriptors, starts | the type |
| `ServerProofs!StoredCorrect`, `OpenCorrect` | " | what was answered is stored; what makes an open fail |
| `ServerProofs!HostTypeCorrect` | tables, files, requests, starts | the type |
| `ServerProofs!NumbersCorrect` | " | within a run of the program a number names one client's work, on its table's files if the table is known |
| `ServerProofs!LocateCorrect`, `AddUpCorrect` | " and maps of files | if the numbers of a map fit an int: pieces locate their bytes, and add up to their chunk |

They rest on the named assumptions in the modules, which say of the constants what the code
gives them: producers and consumers are different threads and there is a consumer; there are
finitely many filters (`main.cc` starts two), a snippet names no block twice and no two snippets
of one run of the host have one number; the text of a snippet is shorter than what its length counts modulo;
every work has at least one block, no row is longer than a buffer, and the rows of one block's result
fit in an array of the buffer's size (`FilterResult::data` has as many bytes as a buffer);
a filter is a sequence of operators; a table has a column; the numbers of INT and DATE columns fit in four and three
bytes, nine digits fit in four bytes and those of the fraction in one, the characters of numbers are not those of
other texts; a pattern has a character; a client of `server.cc` wants to read or
to write; the extents of a file lie one behind the other without a hole, as RocksDB writes its
files from the first byte to the last, and there are as many as `offset_buffer` has rows at most. `RefinesService` and `OvertakingCorrect` are about `SafetySpec`, which is `Spec` without
its fairness. That the preconditions within the properties (`Supported`, `CanSaveLast`, `ShortLengths`, ...)
are met by states of the instances, the mutants of `PROJECT.json` show: each breaks its property there.

*WorkQueue.* The four invariants are inductive together: an item in the queue with all
consumers asleep needs a pending `notify`, and a push that does not
notify found an item there before, for which the same holds already; a consumer
that goes to sleep found the queue empty, under the mutex, so that no push is in between
(`MutexOwned`). `WakeupCorrect` follows without induction over the queue. The refinement maps the
abstract `accepted` to what was popped followed by what waits: a push appends, a pop moves the border.

*Pipeline.* A result carries its work id and the number of blocks of its snippet, nothing else, and ids are used
again. The invariant says of each id that it is either free (as many answers as snippets, and nothing of it
on its way) or busy with the last snippet accepted: each of that snippet's blocks is in one place, and all that
carries the id carries that snippet's number of blocks (`TotalIs`). The count in `Merge` is then the number of
different blocks merged, and reaches the total when none is left elsewhere. `RefinesService` needs no more:
the step of `Merge` that completes a work is the abstract answer. An end of the process moves no block, and maps to
`Stop` or, after Merge hung, to nothing. `OvertakingCorrect` needs an invariant of
its own, `OInv`: the queues before the filters are in the order of acceptance, and behind a
result in `MergeQueue` there are, together with the filters, fewer blocks of earlier snippets than filters.

*InputReceiver.* `ParsesWholeText` needs `LengthIsMissing`: once the first read brought the whole length,
`length` is what is missing of the text, at every read; `QueuedInOrder` needs that each connection that ended
has put one snippet into the queue.

*MergeManager.* `FitsInBuffer` is not inductive: copying a row needs the test before
it, and in `SendWithinBlock` that a buffer just emptied has room for any row. The
strengthening (`IInv`) says which buffer exists at each `pc`, that the row
fits at `copy`, that buffers are well formed (`BufferOK`: type, bound, offsets),
and that rows are conserved. There is one lemma per action, and lemmas on what appending an entry or a row
and re-initialising a buffer do to a well-formed buffer. A second invariant (`EInv`) is about the lists of entries: which
blocks of a work are named, once or as a part and an end, and where the current block is in them. A third one
(`LInv`) is about the offsets in the entries: every entry of an open buffer but the first locates its rows, and so does the first or it is stale (`Stale`); the block in work
is either whole in this buffer and begins at `block_start_offset` (`WholeBlock`), or the buffer was sent since that was noted,
and has no entry and no rows of other blocks yet (`RestOfBlock`). Both need that the rows of one block fit in
a buffer: a block is sent in the middle once at most.

*BufferSender.* A connection is made once, so a link that went down never comes up again, and what is lost
stays lost. The refinement maps a message by what the manager has taken, by its link and by whether it was
handed over, to delivered, lost or waiting.

*FilterEval.* The invariant relates the flags at each token to the meaning of what was walked: `CV` to the truth of the
operand of OR that the walk is in, `Passed` to its being false already, `isnot` to the NOTs just before the token.
It says nothing of `CV` at the beginning of a row. In a `Supported` filter (`SupportedFilter`) every condition assigns `CV` before AND or
OR looks at it, so that what the row before left there does no harm; in the others it may.

*RowLayout.* `iter` is where the row starts, and the columns before `c` are in the maps with the places and
lengths they have in the block, in the rows where the maps began empty and no length is read as a negative number
(`RowFollowed`). A length is read at the place of its prefix, and no other prefix of the block is there (`PrefixRead`).
Places are sums of lengths; what is needed of `Sums` is proved with the least number that would be an
exception, as the theorems of induction take an operator.

*Conditions.* A condition is one step, and its invariant (`CondInv`) only says that `CV` is what the code compared. The proof is
about the decoding. The bytes of a row make their number (`BytesMake`, `IntBytes`, `DateBytes`), by quotients and remainders
for any number of values of a byte. The binary forms of two decimals are as texts in the order of the decimals (`DecimalOrdered`):
the quotients decide, then the remainders, and the complement of a negative number turns the order round. `ItoDec` makes that
form where it is right (`ItoDecMakesDecimal`). Comparisons and BETWEEN depend on nothing but the order (`ComparesSame`,
`BetweenSame`), and IN on equality. What is left is to see, for each pair of kinds, which decoding the code uses.

*LikeMatch.* The invariant (`LikeInv`) says that the pieces are the pattern cut at its `%`, with the place where each begins
(`IsCut`); that the value up to any place from `j` on is like the pattern up to the current piece (`PlaceOK`), the `%` before it
standing for whatever is skipped; and, for a pattern of one piece, that the piece is at no place before `j` where the pattern
could have it (`Candidate`). It needs the strange tests of the inner loop: that the first piece is never looked for behind the
beginning follows from `WrongPrefix`, and that the last one ends the value from `Ends`. For the other direction,
a value like the pattern has a text of the pattern without `%` at some place, and its beginning and end at its own (`TextMatched`).

*RocksServer.* `AnsweredIsStored` is about the end of a request; the invariant adds what each step of a request
knows: the branch for a write has `w` in `operation`, whatever put it there, and between `Put` and the answer the stored
text is the current client's.

*Lba2Pba.* The invariant (`LbaInv`) says where the walk stands in a chunk. Before the first piece (`~ flag`) no extent that
was passed has the first byte, so `req_offset` is not before the extent in work. Behind it the pieces lead up to
`req_offset`, and `req_length` has lost whole extents only: if the chunk ends within the file, what is left of it is not more than
what is left of the file behind the extents that were passed, although the chunk may have begun inside of one. That is why the
extents are never at an end before the chunk (`LbaEndOfExtents`), and pieces add up even where they lie in the wrong
place. A chunk that can be mapped (`Mappable`) has `req_offset` at the beginning of every extent but its first.

*HostServer.* The invariant (`HostInv`) adds that every number that was scheduled or sent in this run of the program is below
`WorkID`, or is `WorkID` and belongs to the request in work, between `sched` and `WorkID++` (`NumbersOK`: `RepliesOK`,
`ScheduledOK`, `SendOK`); a program that ends there takes the number with it, as the next run's works are apart. It adds that a request for a known table is translated and scheduled with that
table's files, although `req_json` may hold another's.

Only model-checked:

- the liveness in `ImplementsFifo` and `ImplementsService`, `Terminates`, `ArrivedIsQueued`, `CallsEnd`, as the prover has
  no rules for ENABLED;
- `EntriesLocateBlocks`, which is false.

Every other property of a run is a theorem.

## 5. Not modelled

- `SstBlockReader` and RocksDB: not in the repository. A block's rows are an input of
  the filter modules; a block that cannot be read is passed on by `Pipeline`.
- The text of JSON messages: a text is whole or not. The 4096 bytes of the arrays into which
  JSON, rows and pieces are copied without a bound (`scan.cc:79`, `keti/temp.cc:388`) are not looked at, nor are
files of more extents than `offset_buffer` has rows (128, `keti/temp.cc:231`); nor is
  the queue between Scan and the filters bounded, whose limit is commented out (`scan.cc:158`).
- CHAR columns among numbers in one condition, and DECIMAL columns of other widths than the one that `ItoDec` makes and
  `RowDecimal` assumes (14 hexadecimal digits from `typeDecimal`, two of them for the fraction).
- More bytes from a peer than it announced (`InputReceiver`), and how many descriptors `DB::Open` needs (one is taken as
  enough in `RocksServer`). `AnsweredIsStored` is about whose text is stored, not about how much of it.
- TableManager: a table of two names that is written once before the threads start.
  An unknown name gets an empty device (`csd_table_manager.cc:15`), and its blocks are passed on unread.
- The table manager and the scheduler of the host: not in the repository.
- `REQ_SCANED_BLOCK` of the host's server answers with constant rows; `rocksdbPutTest` has no caller.
- A host that uses a work id again before the work is answered: see `Pipeline` above.
- `return.cc`, `filterbackup.cc` and the trial programs do not run.

## 6. Plan

Done: the queue, the receiver, the pipeline, the merge stage and its exchange with the buffer
manager, the four parts of the filter, the two servers beside the container; theorems on all of these, for every
invariant and action property that a run checks. What is left is out of the prover's reach (the liveness above) or
of the models' (section 5). A next step would be the exactness of LIKE for patterns of several pieces, once the matcher
counts its places so that it could hold.
