------------------------- MODULE MergeManagerProofs -------------------------
(***************************************************************************)
(* Proofs about MergeManager, for every set of works, every number of      *)
(* blocks and every buffer size.  The inductive invariant says of each     *)
(* open buffer that it is well formed, and where in MergeBlock the Merge   *)
(* thread is: that a row about to be copied fits (after a send because the *)
(* buffer is empty and no row is longer than a buffer), and which rows of  *)
(* the current result are still to be copied.  A second invariant, which   *)
(* needs the first, is about the works' lists of entries, and a third one, *)
(* which needs both, about the offsets in them.                            *)
(***************************************************************************)
EXTENDS MergeManager, SequenceTheorems, FiniteSetTheorems, TLAPS

BufferOK(b) == b \in BlockBuffer /\ Cuts(b) /\ b.length <= MAX_SIZE

BuffersOK ==
    /\ DOMAIN m_MergeManager \subseteq Works
    /\ \A w \in DOMAIN m_MergeManager : BufferOK(m_MergeManager[w])
    /\ message \in BlockBuffer /\ Cuts(message)

StateOK ==
    /\ result \in FilterResult
    /\ i \in Nat \ {0}
    /\ block_start_offset \in Nat
    /\ pc \in {"pop", "begin", "first", "loop", "copy", "count"}
    /\ popped \in [Works -> SUBSET Nat]

HistoryOK ==
    /\ received \in [Works -> Seq(Row)]
    /\ delivered \in [Works -> Seq(Row)]
    /\ entries \in [Works -> Seq(Entry)]

(* The control point of MergeBlock and the state it implies. *)
AtPc ==
    /\ pc \in {"first", "loop", "copy", "count"} => key \in DOMAIN m_MergeManager
    /\ pc = "first" => i = 1
    /\ pc = "loop" => i <= Len(result.rows) + 1
    /\ pc = "copy" => i <= Len(result.rows) /\ buffer.length + row.len <= MAX_SIZE
    /\ pc = "count" => Pending(key) = <<>>

IInv == BuffersOK /\ StateOK /\ HistoryOK /\ AtPc /\ NoRowLost

-----------------------------------------------------------------------------
(* The rows built from the lengths of a filtered block are rows. *)
LEMMA RowsOfType ==
  ASSUME NEW b \in Nat, NEW lens \in BlockRows
  PROVE  RowsOf(b, lens) \in Seq(Row)
<1>1. lens \in Seq(1 .. MAX_SIZE)
  BY SizeAssumption
<1>2. Len(lens) \in Nat /\ \A k \in 1 .. Len(lens) : lens[k] \in 1 .. MAX_SIZE
  BY <1>1, LenProperties
<1> DEFINE r(k) == [block |-> b, no |-> k, len |-> lens[k]]
<1>3. \A k \in 1 .. Len(lens) : r(k) \in Row
  BY <1>2 DEF Row
<1> HIDE DEF r
<1>4. [k \in 1 .. Len(lens) |-> r(k)] \in Seq(Row)
  BY <1>2, <1>3, IsASeq
<1> QED BY <1>4 DEF RowsOf, r

(* A buffer without rows is well formed. *)
LEMMA EmptyBufferOK == BufferOK(EmptyBuffer)
  BY SizeAssumption, EmptySeq DEF BufferOK, EmptyBuffer, BlockBuffer, Cuts

(* InitBlockBuffer makes a buffer empty, whatever it held. *)
LEMMA InitBufferOK ==
  ASSUME NEW b \in BlockBuffer
  PROVE  /\ BufferOK(InitBlockBuffer(b))
         /\ InitBlockBuffer(b).length = 0
         /\ InitBlockBuffer(b).data = <<>>
<1>1. InitBlockBuffer(b) =
        [block_id_list |-> <<>>, row_offset |-> <<>>, rows |-> 0,
         data |-> <<>>, length |-> 0, block_count |-> b.block_count]
  BY DEF InitBlockBuffer, EmptyBuffer
<1>2. b.block_count \in Nat
  BY DEF BlockBuffer
<1> QED BY <1>1, <1>2, SizeAssumption, EmptySeq DEF BufferOK, BlockBuffer, Cuts

(* Adding an entry touches nothing but the list of entries. *)
LEMMA AddEntryOK ==
  ASSUME NEW b, BufferOK(b), result \in FilterResult,
         NEW start \in Int, NEW size \in Int, NEW full \in BOOLEAN
  PROVE  /\ BufferOK(AddEntry(b, start, size, full))
         /\ AddEntry(b, start, size, full).length = b.length
         /\ AddEntry(b, start, size, full).data = b.data
<1> DEFINE e == <<result.block_id, start, size, full>>
<1>1. e \in Entry
  BY DEF FilterResult, Entry
<1>2. Append(b.block_id_list, e) \in Seq(Entry)
  BY <1>1, AppendProperties DEF BufferOK, BlockBuffer
<1> QED BY <1>2 DEF BufferOK, AddEntry, BlockBuffer, Cuts

(* Copying a row that fits keeps a buffer well formed: the new row starts   *)
(* where the last one ended.                                                *)
LEMMA CopyRowOK ==
  ASSUME NEW b, BufferOK(b), NEW r \in Row, b.length + r.len <= MAX_SIZE
  PROVE  /\ BufferOK(CopyRow(b, r))
         /\ CopyRow(b, r).data = Append(b.data, r)
<1> DEFINE c == CopyRow(b, r)
<1>1. /\ b.row_offset \in Seq(Nat) /\ b.data \in Seq(Row) /\ b.rows \in Nat
      /\ b.length \in Nat /\ r.len \in Nat
  BY SizeAssumption DEF BufferOK, BlockBuffer, Row
<1>2. /\ c.row_offset = Append(b.row_offset, b.length)
      /\ c.rows = b.rows + 1
      /\ c.data = Append(b.data, r)
      /\ c.length = b.length + r.len
  BY DEF CopyRow, BufferOK, BlockBuffer
<1>3. c \in BlockBuffer
  <2>1. c.row_offset \in Seq(Nat) /\ c.data \in Seq(Row)
    BY <1>1, <1>2, AppendProperties
  <2>2. b.block_id_list \in Seq(Entry) /\ b.block_count \in Nat
    BY DEF BufferOK, BlockBuffer
  <2>3. c.rows \in Nat /\ c.length \in Nat
    BY <1>1, <1>2
  <2> QED BY <1>2, <2>1, <2>2, <2>3 DEF CopyRow, BlockBuffer
<1> HIDE DEF c
<1>4. /\ Len(b.row_offset) = b.rows /\ Len(b.data) = b.rows
      /\ \A k \in 1 .. b.rows : b.row_offset[k] + b.data[k].len =
            IF k < b.rows THEN b.row_offset[k + 1] ELSE b.length
      /\ IF b.rows = 0 THEN b.length = 0 ELSE b.row_offset[1] = 0
  BY DEF BufferOK, Cuts
<1>5. /\ Len(c.row_offset) = c.rows /\ Len(c.data) = c.rows
      /\ \A k \in 1 .. b.rows : c.row_offset[k] = b.row_offset[k] /\ c.data[k] = b.data[k]
      /\ c.row_offset[c.rows] = b.length /\ c.data[c.rows] = r
  BY <1>1, <1>2, <1>4, AppendProperties
<1>6. ASSUME NEW k \in 1 .. c.rows
      PROVE  c.row_offset[k] + c.data[k].len =
                IF k < c.rows THEN c.row_offset[k + 1] ELSE c.length
  <2>1. CASE k = c.rows
    BY <1>1, <1>2, <1>5, <2>1
  <2>2. CASE k = b.rows /\ k # c.rows
    BY <1>1, <1>2, <1>4, <1>5, <2>2
  <2>3. CASE k < b.rows
    <3>1. k \in 1 .. b.rows /\ k + 1 \in 1 .. b.rows /\ k < c.rows
      BY <1>1, <1>2, <2>3
    <3>2. c.row_offset[k] = b.row_offset[k] /\ c.data[k] = b.data[k]
      BY <1>5, <3>1
    <3>3. c.row_offset[k + 1] = b.row_offset[k + 1]
      BY <1>5, <3>1
    <3>4. b.row_offset[k] + b.data[k].len = b.row_offset[k + 1]
      BY <1>4, <2>3, <3>1
    <3> QED BY <3>1, <3>2, <3>3, <3>4
  <2>4. k = c.rows \/ (k = b.rows /\ k # c.rows) \/ k < b.rows
    <3>1. b.rows \in Nat /\ c.rows = b.rows + 1
      BY <1>1, <1>2
    <3> QED BY <3>1
  <2> QED BY <2>1, <2>2, <2>3, <2>4
<1>7. IF c.rows = 0 THEN c.length = 0 ELSE c.row_offset[1] = 0
  BY <1>1, <1>2, <1>4, <1>5
<1>8. Cuts(c)
  BY <1>5, <1>6, <1>7 DEF Cuts
<1> QED BY <1>2, <1>3, <1>8 DEF BufferOK, c

-----------------------------------------------------------------------------
LEMMA InitIInv == Init => IInv
<1> SUFFICES ASSUME Init PROVE IInv
  OBVIOUS
<1> USE DEF Init
<1>1. BuffersOK
  <2>1. DOMAIN m_MergeManager = {}
    OBVIOUS
  <2> QED BY <2>1, EmptyBufferOK DEF BuffersOK, BufferOK
<1>2. StateOK
  <2>1. result \in FilterResult
    <3>1. PICK w \in Works : result = [work_id |-> w, block_id |-> 0, rows |-> <<>>]
      OBVIOUS
    <3> QED BY <3>1, EmptySeq DEF FilterResult
  <2>2. popped \in [Works -> SUBSET Nat]
    OBVIOUS
  <2> QED BY <2>1, <2>2 DEF StateOK
<1>3. HistoryOK
  BY EmptySeq DEF HistoryOK
<1>4. AtPc
  BY DEF AtPc
<1>5. NoRowLost
  BY EmptySeq, ConcatEmptySeq DEF NoRowLost, Held, Pending
<1> QED BY <1>1, <1>2, <1>3, <1>4, <1>5 DEF IInv

(* Replacing the buffer of the current work by a well-formed one keeps all  *)
(* buffers well formed and no other work's rows are touched.                *)
LEMMA SetBufferOK ==
  ASSUME BuffersOK, key \in DOMAIN m_MergeManager, NEW b, BufferOK(b),
         SetBuffer(b), message' \in BlockBuffer, Cuts(message')
  PROVE  /\ BuffersOK'
         /\ DOMAIN m_MergeManager' = DOMAIN m_MergeManager
         /\ m_MergeManager'[key] = b
         /\ \A w \in Works : Held(w)' = IF w = key THEN b.data ELSE Held(w)
<1>1. /\ DOMAIN m_MergeManager' = DOMAIN m_MergeManager
      /\ \A w \in DOMAIN m_MergeManager :
            m_MergeManager'[w] = IF w = key THEN b ELSE m_MergeManager[w]
  BY DEF SetBuffer
<1>2. \A w \in DOMAIN m_MergeManager' : BufferOK(m_MergeManager'[w])
  BY <1>1 DEF BuffersOK
<1>3. BuffersOK'
  BY <1>1, <1>2 DEF BuffersOK, BufferOK, Cuts
<1> QED BY <1>1, <1>3 DEF Held

(* Sending a buffer hands its rows and entries to the history of its work. *)
LEMMA SendOK ==
  ASSUME HistoryOK, result \in FilterResult, NEW b, BufferOK(b),
         SendDataToBufferManager(b), received' = received
  PROVE  /\ HistoryOK'
         /\ message' \in BlockBuffer /\ Cuts(message')
         /\ \A w \in Works :
               delivered'[w] = IF w = key THEN delivered[w] \o b.data ELSE delivered[w]
<1>1. b.data \in Seq(Row) /\ b.block_id_list \in Seq(Entry)
  BY DEF BufferOK, BlockBuffer
<1>2. key \in Works
  BY DEF FilterResult, key
<1>3. delivered' \in [Works -> Seq(Row)]
  BY <1>1, <1>2, ConcatProperties DEF HistoryOK, SendDataToBufferManager
<1>4. entries' \in [Works -> Seq(Entry)]
  BY <1>1, <1>2, ConcatProperties DEF HistoryOK, SendDataToBufferManager
<1> QED BY <1>2, <1>3, <1>4 DEF HistoryOK, SendDataToBufferManager, BufferOK

-----------------------------------------------------------------------------
(* What the invariant says of the types of the parts of NoRowLost. *)
LEMMA HeldType ==
  ASSUME IInv, NEW w \in Works
  PROVE  /\ delivered[w] \in Seq(Row)
         /\ Held(w) \in Seq(Row)
         /\ Pending(w) \in Seq(Row)
         /\ result.rows \in Seq(Row)
         /\ delivered[w] \o Held(w) \in Seq(Row)
<1>1. delivered[w] \in Seq(Row) /\ result.rows \in Seq(Row)
  BY DEF IInv, HistoryOK, StateOK, FilterResult
<1>2. Held(w) \in Seq(Row)
  BY EmptySeq DEF IInv, BuffersOK, BufferOK, BlockBuffer, Held
<1>3. Pending(w) \in Seq(Row)
  <2>1. CASE pc \in {"loop", "copy"} /\ w = key
    <3>1. i \in 1 .. Len(result.rows) + 1 /\ Len(result.rows) \in Nat
      BY <1>1, <2>1, LenProperties DEF IInv, AtPc, StateOK
    <3>2. SubSeq(result.rows, i, Len(result.rows)) \in Seq(Row)
      BY <1>1, <3>1, SubSeqProperties
    <3> QED BY <2>1, <3>2 DEF Pending
  <2>2. CASE ~ (pc \in {"loop", "copy"} /\ w = key)
    BY <1>1, <2>2, EmptySeq DEF Pending
  <2> QED BY <2>1, <2>2
<1> QED BY <1>1, <1>2, <1>3, ConcatProperties

(* The buffer of the current work, and the row that is next. *)
LEMMA CurrentType ==
  ASSUME IInv
  PROVE  /\ key \in Works
         /\ pc \in {"first", "loop", "copy", "count"} =>
               /\ key \in DOMAIN m_MergeManager
               /\ BufferOK(buffer) /\ buffer \in BlockBuffer
               /\ buffer.length \in Nat /\ buffer.data \in Seq(Row)
               /\ Held(key) = buffer.data
         /\ i \in 1 .. Len(result.rows) => row \in Row
<1>1. key \in Works /\ result.rows \in Seq(Row)
  BY DEF IInv, StateOK, FilterResult, key
<1>2. pc \in {"first", "loop", "copy", "count"} => key \in DOMAIN m_MergeManager
  BY DEF IInv, AtPc
<1>3. key \in DOMAIN m_MergeManager =>
         BufferOK(buffer) /\ buffer \in BlockBuffer /\ Held(key) = buffer.data
  BY DEF IInv, BuffersOK, BufferOK, Held, buffer
<1> QED BY <1>1, <1>2, <1>3, ElementOfSeq DEF BlockBuffer, row

(* PopResult appends the same rows to what was received and to what is      *)
(* still to be copied.                                                      *)
LEMMA PopResultIInv == ASSUME IInv, PopResult PROVE IInv'
<1> USE DEF PopResult
<1>0. PICK w \in Works, lens \in BlockRows : \E b \in (1 .. Total[w]) \ popped[w] :
         /\ result' = [work_id |-> w, block_id |-> b, rows |-> RowsOf(b, lens)]
         /\ popped' = [popped EXCEPT ![w] = @ \cup {b}]
         /\ received' = [received EXCEPT ![w] = @ \o RowsOf(b, lens)]
  OBVIOUS
<1>1. PICK b \in (1 .. Total[w]) \ popped[w] :
         /\ result' = [work_id |-> w, block_id |-> b, rows |-> RowsOf(b, lens)]
         /\ popped' = [popped EXCEPT ![w] = @ \cup {b}]
         /\ received' = [received EXCEPT ![w] = @ \o RowsOf(b, lens)]
  BY <1>0
<1>2. b \in Nat /\ RowsOf(b, lens) \in Seq(Row)
  BY TotalAssumption, RowsOfType
<1>3. key' = w /\ result'.rows = RowsOf(b, lens) /\ result' \in FilterResult
  BY <1>1, <1>2 DEF key, FilterResult
<1>4. BuffersOK'
  BY DEF IInv, BuffersOK, BufferOK, Cuts
<1>5. StateOK'
  <2>1. popped' \in [Works -> SUBSET Nat]
    BY <1>1, <1>2 DEF IInv, StateOK
  <2> QED BY <1>3, <2>1 DEF IInv, StateOK
<1>6. HistoryOK'
  <2>1. received' \in [Works -> Seq(Row)]
    BY <1>1, <1>2, ConcatProperties DEF IInv, HistoryOK
  <2> QED BY <2>1 DEF IInv, HistoryOK
<1>7. AtPc'
  BY DEF AtPc
<1>8. NoRowLost'
  <2> SUFFICES ASSUME NEW v \in Works
               PROVE  received'[v] = (delivered[v] \o Held(v)) \o Pending(v)'
    BY DEF NoRowLost, Held
  <2>1. received[v] = delivered[v] \o Held(v)
    <3>1. Pending(v) = <<>>
      BY DEF Pending
    <3>2. received[v] = (delivered[v] \o Held(v)) \o Pending(v)
      BY DEF IInv, NoRowLost
    <3>3. delivered[v] \o Held(v) \in Seq(Row)
      BY HeldType
    <3> QED BY <3>1, <3>2, <3>3, ConcatEmptySeq
  <2>2. Pending(v)' = IF v = w THEN RowsOf(b, lens) ELSE <<>>
    BY <1>3 DEF Pending
  <2>3. received'[v] = IF v = w THEN received[v] \o RowsOf(b, lens) ELSE received[v]
    BY <1>1 DEF IInv, HistoryOK
  <2> QED BY <2>1, <2>2, <2>3, HeldType, ConcatEmptySeq
<1> QED BY <1>4, <1>5, <1>6, <1>7, <1>8 DEF IInv

(* BeginBlock creates at most an empty buffer. *)
LEMMA BeginBlockIInv == ASSUME IInv, BeginBlock PROVE IInv'
<1> USE DEF BeginBlock
<1>0. key \in Works /\ key' = key
  BY CurrentType DEF key
<1>1. /\ DOMAIN m_MergeManager' = DOMAIN m_MergeManager \cup {key}
      /\ \A w \in DOMAIN m_MergeManager' :
            m_MergeManager'[w] =
               IF w \in DOMAIN m_MergeManager THEN m_MergeManager[w] ELSE EmptyBuffer
  BY DEF NewBuffer
<1>2. BuffersOK'
  <2>1. \A w \in DOMAIN m_MergeManager' : BufferOK(m_MergeManager'[w])
    BY <1>1, EmptyBufferOK DEF IInv, BuffersOK
  <2> QED BY <1>0, <1>1, <2>1 DEF IInv, BuffersOK, BufferOK, Cuts
<1>3. StateOK'
  BY DEF IInv, StateOK, BuffersOK, BufferOK, BlockBuffer, buffer
<1>4. HistoryOK'
  BY DEF IInv, HistoryOK
<1>5. AtPc'
  BY <1>0, <1>1 DEF AtPc
<1>6. NoRowLost'
  <2>1. ASSUME NEW w \in Works PROVE Held(w)' = Held(w)
    <3>1. CASE w \in DOMAIN m_MergeManager
      BY <1>1, <3>1 DEF Held
    <3>2. CASE w \notin DOMAIN m_MergeManager /\ w = key
      <4>1. m_MergeManager'[w] = EmptyBuffer /\ w \in DOMAIN m_MergeManager'
        BY <1>1, <3>2
      <4> QED BY <3>2, <4>1 DEF Held, EmptyBuffer
    <3>3. CASE w \notin DOMAIN m_MergeManager /\ w # key
      BY <1>1, <3>3 DEF Held
    <3> QED BY <3>1, <3>2, <3>3
  <2>2. \A w \in Works : Pending(w)' = Pending(w)
    BY <1>0 DEF Pending
  <2> QED BY <2>1, <2>2 DEF IInv, NoRowLost
<1> QED BY <1>2, <1>3, <1>4, <1>5, <1>6 DEF IInv

(* Where the rows of the current work are makes no difference to NoRowLost. *)
LEMMA Rearranged ==
  ASSUME IInv, received' = received, key' = key,
         \A w \in Works :
            (delivered'[w] \o Held(w)') \o Pending(w)' = (delivered[w] \o Held(w)) \o Pending(w)
  PROVE  NoRowLost'
  BY DEF IInv, NoRowLost

(* EmptyBlock only adds an entry. *)
LEMMA EmptyBlockIInv == ASSUME IInv, EmptyBlock PROVE IInv'
<1> USE DEF EmptyBlock
<1> DEFINE b == AddEntry(buffer, -1, 0, TRUE)
<1>1. key' = key /\ key \in Works /\ key \in DOMAIN m_MergeManager /\ Held(key) = buffer.data
  BY CurrentType DEF key
<1>2. BufferOK(b) /\ b.data = buffer.data
  <2>1. BufferOK(buffer) /\ result \in FilterResult
    BY CurrentType DEF IInv, StateOK
  <2>2. -1 \in Int /\ 0 \in Int /\ TRUE \in BOOLEAN
    OBVIOUS
  <2> QED BY <2>1, <2>2, AddEntryOK, Zenon
<1>3. message' \in BlockBuffer /\ Cuts(message')
  BY DEF IInv, BuffersOK
<1> HIDE DEF b
<1>4. SetBuffer(b)
  BY DEF b
<1>5. /\ BuffersOK'
      /\ DOMAIN m_MergeManager' = DOMAIN m_MergeManager
      /\ \A w \in Works : Held(w)' = IF w = key THEN b.data ELSE Held(w)
  BY <1>1, <1>2, <1>3, <1>4, SetBufferOK DEF IInv
<1>6. \A w \in Works : Pending(w)' = Pending(w)
  BY <1>1 DEF Pending
<1>7. NoRowLost'
  BY <1>1, <1>2, <1>5, <1>6, Rearranged
<1>8. StateOK' /\ HistoryOK'
  BY DEF IInv, StateOK, HistoryOK
<1>9. AtPc'
  BY <1>1, <1>5 DEF AtPc, Pending
<1> QED BY <1>5, <1>7, <1>8, <1>9 DEF IInv

(* The rows left from the first row on are all the rows. *)
LEMMA AllRowsPending ==
  ASSUME NEW s \in Seq(Row)
  PROVE  SubSeq(s, 1, Len(s)) = s
  BY SubSeqProperties, LenProperties, SeqEqual

(* FirstRowFits and RowFits only move on. *)
LEMMA RowFitsIInv == ASSUME IInv, FirstRowFits \/ RowFits PROVE IInv'
<1>1. /\ m_MergeManager' = m_MergeManager /\ result' = result /\ i' = i
      /\ block_start_offset' = block_start_offset /\ popped' = popped
      /\ received' = received /\ delivered' = delivered /\ entries' = entries
      /\ message' = message /\ key' = key
  BY DEF FirstRowFits, RowFits, key
<1>2. BuffersOK' /\ StateOK' /\ HistoryOK'
  BY <1>1 DEF IInv, BuffersOK, BufferOK, Cuts, StateOK, HistoryOK, FirstRowFits, RowFits
<1>3. result.rows \in Seq(Row) /\ Len(result.rows) \in Nat
  BY LenProperties DEF IInv, StateOK, FilterResult
<1>4. AtPc'
  <2>1. CASE FirstRowFits
    <3>1. pc = "first" /\ pc' = "loop" /\ i = 1 /\ key \in DOMAIN m_MergeManager
      BY <2>1 DEF FirstRowFits, IInv, AtPc
    <3> QED BY <1>1, <1>3, <3>1 DEF AtPc
  <2>2. CASE RowFits
    <3>1. /\ pc = "loop" /\ pc' = "copy" /\ key \in DOMAIN m_MergeManager
          /\ i \in 1 .. Len(result.rows) /\ ~ Overflows(buffer, row)
      BY <1>3, <2>2 DEF RowFits, IInv, AtPc, StateOK
    <3>2. buffer.length \in Nat /\ row.len \in Nat /\ MAX_SIZE \in Nat
      BY <3>1, CurrentType, SizeAssumption DEF Row
    <3>3. buffer.length + row.len <= MAX_SIZE
      BY <3>1, <3>2 DEF Overflows
    <3>4. buffer' = buffer /\ row' = row
      BY <1>1 DEF buffer, row, key
    <3> QED BY <1>1, <3>1, <3>3, <3>4 DEF AtPc
  <2> QED BY <2>1, <2>2, <1>1 DEF FirstRowFits, RowFits
<1>5. \A w \in Works : Pending(w)' = Pending(w)
  BY <1>1, <1>3, AllRowsPending DEF IInv, AtPc, Pending, FirstRowFits, RowFits
<1>6. \A w \in Works : Held(w)' = Held(w)
  BY <1>1 DEF Held
<1>7. NoRowLost'
  BY <1>1, <1>5, <1>6, Rearranged
<1> QED BY <1>2, <1>4, <1>7 DEF IInv

(* Sending the buffer moves its rows to the history, with what is pending   *)
(* unchanged: nothing is lost, and nothing kept that could be sent again.   *)
LEMMA SendNoRowLost ==
  ASSUME IInv, pc \in {"first", "loop", "copy", "count"},
         NEW b, BufferOK(b), b.data = buffer.data, SendDataToBufferManager(b),
         received' = received, result' = result, i' = i,
         \A w \in Works : Held(w)' = IF w = key THEN <<>> ELSE Held(w),
         \A w \in Works : Pending(w)' = Pending(w)
  PROVE  NoRowLost'
<1>1. key' = key /\ Held(key) = buffer.data /\ key \in Works
  BY CurrentType DEF key
<1>2. \A w \in Works :
         delivered'[w] = IF w = key THEN delivered[w] \o b.data ELSE delivered[w]
  BY SendOK DEF IInv, StateOK
<1>3. ASSUME NEW w \in Works
      PROVE  delivered'[w] \o Held(w)' = delivered[w] \o Held(w)
  <2>1. CASE w # key
    BY <1>2, <2>1
  <2>2. CASE w = key
    <3>1. delivered'[w] = delivered[w] \o Held(w) /\ Held(w)' = <<>>
      BY <1>1, <1>2, <2>2
    <3>2. delivered[w] \o Held(w) \in Seq(Row)
      BY HeldType
    <3> QED BY <3>1, <3>2, ConcatEmptySeq
  <2> QED BY <2>1, <2>2
<1> QED BY <1>1, <1>3, Rearranged

(* SendBeforeBlock empties the buffer before the first row is copied. *)
LEMMA SendBeforeBlockIInv == ASSUME IInv, SendBeforeBlock PROVE IInv'
<1> USE DEF SendBeforeBlock
<1> DEFINE b == InitBlockBuffer(buffer)
<1>1. /\ key' = key /\ key \in Works /\ key \in DOMAIN m_MergeManager
      /\ BufferOK(buffer) /\ buffer \in BlockBuffer
  BY CurrentType DEF key
<1>2. BufferOK(b) /\ b.length = 0 /\ b.data = <<>>
  BY <1>1, InitBufferOK
<1>3. HistoryOK' /\ message' \in BlockBuffer /\ Cuts(message')
  BY <1>1, SendOK DEF IInv, StateOK
<1> HIDE DEF b
<1>4. SetBuffer(b)
  BY DEF b
<1>5. /\ BuffersOK'
      /\ DOMAIN m_MergeManager' = DOMAIN m_MergeManager
      /\ \A w \in Works : Held(w)' = IF w = key THEN b.data ELSE Held(w)
  BY <1>1, <1>2, <1>3, <1>4, SetBufferOK DEF IInv
<1>6. result.rows \in Seq(Row) /\ Len(result.rows) \in Nat /\ i = 1
  BY LenProperties DEF IInv, StateOK, FilterResult, AtPc
<1>7. \A w \in Works : Pending(w)' = Pending(w)
  BY <1>1, <1>6, AllRowsPending DEF Pending
<1>8. NoRowLost'
  BY <1>1, <1>2, <1>5, <1>7, SendNoRowLost
<1>9. StateOK'
  BY DEF IInv, StateOK
<1>10. AtPc'
  BY <1>1, <1>5, <1>6 DEF AtPc
<1> QED BY <1>3, <1>5, <1>8, <1>9, <1>10 DEF IInv

(* SendWithinBlock empties the buffer, so that the next row fits. *)
LEMMA SendWithinBlockIInv == ASSUME IInv, SendWithinBlock PROVE IInv'
<1> USE DEF SendWithinBlock
<1> DEFINE s == SplitEntry(buffer)
           b == InitBlockBuffer(s)
<1>1. /\ key' = key /\ key \in Works /\ key \in DOMAIN m_MergeManager
      /\ BufferOK(buffer) /\ buffer.length \in Nat
  BY CurrentType DEF key
<1>2. BufferOK(s) /\ s.data = buffer.data
  <2>1. result \in FilterResult /\ block_start_offset \in Nat
    BY DEF IInv, StateOK
  <2>2. block_start_offset \in Int /\ buffer.length - block_start_offset \in Int
    BY <1>1, <2>1
  <2>3. FALSE \in BOOLEAN
    OBVIOUS
  <2> QED BY <1>1, <2>1, <2>2, <2>3, AddEntryOK, Zenon DEF SplitEntry
<1> HIDE DEF s
<1>3. BufferOK(b) /\ b.length = 0 /\ b.data = <<>>
  BY <1>2, InitBufferOK DEF BufferOK
<1>4. SendDataToBufferManager(s) /\ SetBuffer(b)
  BY DEF s
<1>5. HistoryOK' /\ message' \in BlockBuffer /\ Cuts(message')
  BY <1>2, <1>4, SendOK DEF IInv, StateOK
<1> HIDE DEF b
<1>6. /\ BuffersOK'
      /\ DOMAIN m_MergeManager' = DOMAIN m_MergeManager
      /\ m_MergeManager'[key] = b
      /\ \A w \in Works : Held(w)' = IF w = key THEN b.data ELSE Held(w)
  BY <1>1, <1>3, <1>4, <1>5, SetBufferOK DEF IInv
<1>7. \A w \in Works : Pending(w)' = Pending(w)
  BY <1>1 DEF Pending
<1>8. NoRowLost'
  BY <1>1, <1>2, <1>3, <1>4, <1>6, <1>7, SendNoRowLost
<1>9. StateOK'
  BY DEF IInv, StateOK
<1>10. AtPc'
  <2>1. i \in 1 .. Len(result.rows)
    BY LenProperties DEF IInv, StateOK, FilterResult
  <2>2. row' = row /\ row.len \in 1 .. MAX_SIZE /\ buffer' = b
    BY <1>1, <1>6, <2>1, CurrentType DEF row, Row, buffer
  <2>3. buffer'.length + row'.len <= MAX_SIZE
    BY <1>3, <2>2, SizeAssumption
  <2> QED BY <1>1, <1>6, <2>1, <2>3 DEF AtPc
<1> QED BY <1>5, <1>6, <1>8, <1>9, <1>10 DEF IInv

(* CopyNextRow moves the first pending row to the end of the buffer. *)
LEMMA CopyNextRowIInv == ASSUME IInv, CopyNextRow PROVE IInv'
<1> USE DEF CopyNextRow
<1> DEFINE b == CopyRow(buffer, row)
           n == Len(result.rows)
<1>0. result.rows \in Seq(Row) /\ n \in Nat /\ i \in 1 .. n
  BY LenProperties DEF IInv, StateOK, FilterResult, AtPc
<1>1. /\ key' = key /\ key \in Works /\ key \in DOMAIN m_MergeManager
      /\ BufferOK(buffer) /\ Held(key) = buffer.data /\ row \in Row
      /\ buffer.data \in Seq(Row)
  BY <1>0, CurrentType DEF key
<1>2. BufferOK(b) /\ b.data = Append(buffer.data, row)
  <2>1. buffer.length + row.len <= MAX_SIZE
    BY DEF IInv, AtPc
  <2> QED BY <1>1, <2>1, CopyRowOK
<1>3. message' \in BlockBuffer /\ Cuts(message')
  BY DEF IInv, BuffersOK
<1> HIDE DEF b
<1>4. SetBuffer(b)
  BY DEF b
<1>5. /\ BuffersOK'
      /\ DOMAIN m_MergeManager' = DOMAIN m_MergeManager
      /\ \A w \in Works : Held(w)' = IF w = key THEN b.data ELSE Held(w)
  BY <1>1, <1>2, <1>3, <1>4, SetBufferOK DEF IInv
<1>6. StateOK' /\ HistoryOK'
  BY DEF IInv, StateOK, HistoryOK
<1>7. AtPc'
  <2>1. i' <= Len(result'.rows) + 1
    BY <1>0
  <2> QED BY <1>1, <1>5, <2>1 DEF AtPc
<1>8. SubSeq(result.rows, i, n) = <<row>> \o SubSeq(result.rows, i + 1, n)
  <2>1. n \in i .. n /\ n = Len(result.rows)
    BY <1>0
  <2> HIDE DEF n
  <2>2. SubSeq(result.rows, i, n) = <<result.rows[i]>> \o SubSeq(result.rows, i + 1, n)
    BY <1>0, <2>1, SubSeqRecursiveFirst
  <2> QED BY <2>2 DEF row
<1>9. SubSeq(result.rows, i + 1, n) \in Seq(Row)
  BY <1>0, SubSeqProperties
<1>10. ASSUME NEW w \in Works
       PROVE  (delivered'[w] \o Held(w)') \o Pending(w)' = (delivered[w] \o Held(w)) \o Pending(w)
  <2>1. CASE w # key
    BY <1>1, <1>5, <2>1 DEF Pending
  <2>2. CASE w = key
    <3> DEFINE d == delivered[w]
               h == buffer.data
               rest == SubSeq(result.rows, i + 1, n)
    <3>1. Pending(w) = <<row>> \o rest /\ Pending(w)' = rest
      BY <1>0, <1>1, <1>8, <2>2 DEF Pending
    <3>2. Held(w) = h /\ Held(w)' = Append(h, row) /\ delivered'[w] = d
      BY <1>1, <1>2, <1>5, <2>2
    <3>3. d \in Seq(Row) /\ h \in Seq(Row) /\ rest \in Seq(Row) /\ <<row>> \in Seq(Row)
      BY <1>1, <1>9, HeldType
    <3>4. Append(h, row) = h \o <<row>>
      BY <1>1, AppendIsConcat
    <3> HIDE DEF d, h, rest
    <3>5. d \o (h \o <<row>>) = (d \o h) \o <<row>>
      BY <3>3, ConcatAssociative
    <3>6. d \o h \in Seq(Row)
      BY <3>3, ConcatProperties
    <3>7. ((d \o h) \o <<row>>) \o rest = (d \o h) \o (<<row>> \o rest)
      BY <3>3, <3>6, ConcatAssociative
    <3> QED BY <3>1, <3>2, <3>4, <3>5, <3>7 DEF d
  <2> QED BY <2>1, <2>2
<1>11. NoRowLost'
  BY <1>1, <1>10, Rearranged
<1> QED BY <1>5, <1>6, <1>7, <1>11 DEF IInv

(* EndBlock adds an entry; no row is pending any more. *)
LEMMA EndBlockIInv == ASSUME IInv, EndBlock PROVE IInv'
<1> USE DEF EndBlock
<1> DEFINE b == EndEntry(buffer)
<1>1. /\ key' = key /\ key \in Works /\ key \in DOMAIN m_MergeManager
      /\ BufferOK(buffer) /\ buffer.length \in Nat /\ Held(key) = buffer.data
  BY CurrentType DEF key
<1>2. BufferOK(b) /\ b.data = buffer.data
  <2>1. result \in FilterResult /\ block_start_offset \in Nat
    BY DEF IInv, StateOK
  <2>2. block_start_offset \in Int /\ buffer.length - block_start_offset \in Int
    BY <1>1, <2>1
  <2>3. TRUE \in BOOLEAN
    OBVIOUS
  <2> QED BY <1>1, <2>1, <2>2, <2>3, AddEntryOK, Zenon DEF EndEntry
<1>3. message' \in BlockBuffer /\ Cuts(message')
  BY DEF IInv, BuffersOK
<1> HIDE DEF b
<1>4. SetBuffer(b)
  BY DEF b
<1>5. /\ BuffersOK'
      /\ DOMAIN m_MergeManager' = DOMAIN m_MergeManager
      /\ \A w \in Works : Held(w)' = IF w = key THEN b.data ELSE Held(w)
  BY <1>1, <1>2, <1>3, <1>4, SetBufferOK DEF IInv
<1>6. SubSeq(result.rows, i, Len(result.rows)) = <<>>
  <2>1. result.rows \in Seq(Row) /\ Len(result.rows) \in Nat /\ i = Len(result.rows) + 1
    BY LenProperties DEF IInv, StateOK, FilterResult, AtPc
  <2> QED BY <2>1, SubSeqProperties
<1>7. \A w \in Works : Pending(w)' = Pending(w)
  BY <1>1, <1>6 DEF Pending
<1>8. NoRowLost'
  BY <1>1, <1>2, <1>5, <1>7, Rearranged
<1>9. StateOK' /\ HistoryOK'
  BY DEF IInv, StateOK, HistoryOK
<1>10. AtPc'
  BY <1>1, <1>5 DEF AtPc, Pending
<1> QED BY <1>5, <1>8, <1>9, <1>10 DEF IInv

(* Counting a block leaves everything but the count as it is. *)
LEMMA CountedOK ==
  ASSUME NEW b, BufferOK(b)
  PROVE  /\ BufferOK([b EXCEPT !.block_count = @ + 1])
         /\ [b EXCEPT !.block_count = @ + 1].data = b.data
<1> DEFINE c == [b EXCEPT !.block_count = @ + 1]
<1>1. b \in BlockBuffer /\ Cuts(b) /\ b.length <= MAX_SIZE
  BY DEF BufferOK
<1>2. /\ c.rows = b.rows /\ c.row_offset = b.row_offset
      /\ c.data = b.data /\ c.length = b.length
  BY <1>1 DEF BlockBuffer
<1>3. c \in BlockBuffer
  <2>1. b.block_count + 1 \in Nat
    BY <1>1 DEF BlockBuffer
  <2> QED BY <1>1, <2>1 DEF BlockBuffer
<1>4. Cuts(c)
  BY <1>1, <1>2 DEF Cuts
<1> QED BY <1>1, <1>2, <1>3, <1>4 DEF BufferOK

LEMMA CountBlockIInv == ASSUME IInv, CountBlock PROVE IInv'
<1> USE DEF CountBlock
<1> DEFINE b == [buffer EXCEPT !.block_count = @ + 1]
<1>1. /\ key' = key /\ key \in Works /\ key \in DOMAIN m_MergeManager
      /\ BufferOK(buffer) /\ Held(key) = buffer.data
  BY CurrentType DEF key
<1>2. BufferOK(b) /\ b.data = buffer.data
  BY <1>1, CountedOK
<1>3. message' \in BlockBuffer /\ Cuts(message')
  BY DEF IInv, BuffersOK
<1>4. SetBuffer(b)
  OBVIOUS
<1> HIDE DEF b
<1>5. /\ BuffersOK'
      /\ \A w \in Works : Held(w)' = IF w = key THEN b.data ELSE Held(w)
  BY <1>1, <1>2, <1>3, <1>4, SetBufferOK DEF IInv
<1>6. \A w \in Works : Pending(w)' = Pending(w)
  BY <1>1 DEF Pending
<1>7. NoRowLost'
  BY <1>1, <1>2, <1>5, <1>6, Rearranged
<1>8. StateOK' /\ HistoryOK'
  BY DEF IInv, StateOK, HistoryOK
<1>9. AtPc'
  BY DEF AtPc
<1> QED BY <1>5, <1>7, <1>8, <1>9 DEF IInv

(* The last buffer of a work is sent before it is erased. *)
LEMMA FinishWorkIInv == ASSUME IInv, FinishWork PROVE IInv'
<1> USE DEF FinishWork
<1> DEFINE b == [buffer EXCEPT !.block_count = @ + 1]
<1>1. /\ key' = key /\ key \in Works /\ key \in DOMAIN m_MergeManager
      /\ BufferOK(buffer)
  BY CurrentType DEF key
<1>2. BufferOK(b) /\ b.data = buffer.data
  BY <1>1, CountedOK
<1>3. SendDataToBufferManager(b)
  OBVIOUS
<1> HIDE DEF b
<1>4. HistoryOK' /\ message' \in BlockBuffer /\ Cuts(message')
  BY <1>2, <1>3, SendOK DEF IInv, StateOK
<1>5. /\ DOMAIN m_MergeManager' = DOMAIN m_MergeManager \ {key}
      /\ \A w \in DOMAIN m_MergeManager' : m_MergeManager'[w] = m_MergeManager[w]
  OBVIOUS
<1>6. BuffersOK'
  BY <1>4, <1>5 DEF IInv, BuffersOK, BufferOK, Cuts
<1>7. \A w \in Works : Held(w)' = IF w = key THEN <<>> ELSE Held(w)
  BY <1>5 DEF Held
<1>8. \A w \in Works : Pending(w)' = Pending(w)
  BY <1>1 DEF Pending
<1>9. NoRowLost'
  BY <1>2, <1>3, <1>7, <1>8, SendNoRowLost
<1>10. StateOK' /\ AtPc'
  BY DEF IInv, StateOK, AtPc
<1> QED BY <1>4, <1>6, <1>9, <1>10 DEF IInv

-----------------------------------------------------------------------------
LEMMA NextIInv == IInv /\ [Next]_vars => IInv'
<1> SUFFICES ASSUME IInv, [Next]_vars PROVE IInv'
  OBVIOUS
<1>1. CASE UNCHANGED vars
  <2>1. BuffersOK' /\ StateOK' /\ HistoryOK'
    BY <1>1 DEF vars, IInv, BuffersOK, BufferOK, Cuts, StateOK, HistoryOK
  <2>2. AtPc' /\ NoRowLost'
    BY <1>1 DEF vars, IInv, AtPc, NoRowLost, Held, Pending, key, buffer, row
  <2> QED BY <2>1, <2>2 DEF IInv
<1>2. CASE Next
  BY <1>2, PopResultIInv, BeginBlockIInv, EmptyBlockIInv, SendBeforeBlockIInv, RowFitsIInv,
     SendWithinBlockIInv, CopyNextRowIInv, EndBlockIInv, CountBlockIInv, FinishWorkIInv
     DEF Next, MergeBlock
<1> QED BY <1>1, <1>2

LEMMA InductiveInvariant == Spec => []IInv
  BY InitIInv, NextIInv, PTL DEF Spec

(* The state of the merge stage keeps its type. *)
THEOREM TypeCorrect == Spec => []TypeOK
<1>1. IInv => TypeOK
  BY DEF IInv, BuffersOK, BufferOK, StateOK, HistoryOK, TypeOK
<1> QED BY <1>1, InductiveInvariant, PTL

(* No row is ever written behind the end of a buffer's data array, for any *)
(* buffer size and any row lengths up to it.                               *)
THEOREM BoundCorrect == Spec => []FitsInBuffer
<1>1. IInv => FitsInBuffer
  BY DEF IInv, BuffersOK, BufferOK, FitsInBuffer
<1> QED BY <1>1, InductiveInvariant, PTL

(* The host can always cut a message into its rows. *)
THEOREM OffsetsCorrect == Spec => []OffsetsCutRows
<1>1. IInv => OffsetsCutRows
  BY DEF IInv, BuffersOK, BufferOK, OffsetsCutRows
<1> QED BY <1>1, InductiveInvariant, PTL

(* Every row received for a work is sent exactly once and in order, or is   *)
(* still in the work's buffer or in the block being merged.                 *)
THEOREM ConservationCorrect == Spec => []NoRowLost
  BY InductiveInvariant, PTL DEF IInv
-----------------------------------------------------------------------------
(* The entries of a work: a second invariant, about blocks instead of rows.  *)

\* The blocks of a work that have been given the entry for their end.
EndedBlocks(w) ==
    popped[w] \ IF pc \in {"begin", "first", "loop", "copy"} /\ w = key
                THEN {result.block_id} ELSE {}

\* The blocks of a work that block_count counts.
CountedBlocks(w) ==
    popped[w] \ IF pc # "pop" /\ w = key THEN {result.block_id} ELSE {}

BlocksPopped ==
    /\ pc # "pop" => result.block_id \in popped[key]
    /\ \A w \in Works : popped[w] \subseteq 1 .. Total[w]

\* A work has a buffer while some but not all of its blocks are counted.
BlocksCounted ==
    \A w \in Works :
       /\ w \in DOMAIN m_MergeManager <=>
             \/ CountedBlocks(w) \notin {{}, 1 .. Total[w]}
             \/ w = key /\ pc \in {"first", "loop", "copy", "count"}
       /\ w \in DOMAIN m_MergeManager =>
             m_MergeManager[w].block_count = Cardinality(CountedBlocks(w))

\* Each block has one entry for its end.
EndsOnce(w) ==
    /\ Ended(AllEntries(w)) = EndedBlocks(w)
    /\ \A k, l \in 1 .. Len(AllEntries(w)) :
          /\ AllEntries(w)[k][4] /\ AllEntries(w)[l][4]
          /\ AllEntries(w)[k][1] = AllEntries(w)[l][1]
          => k = l

RowsFit(rows) ==
    \E start \in [1 .. Len(rows) + 1 -> 0 .. MAX_SIZE] :
       \A k \in 1 .. Len(rows) : start[k + 1] = start[k] + rows[k].len

RowsFitTogether == RowsFit(result.rows)

\* The rows of the block that are not copied yet all fit in its buffer.
RestFits ==
    \E start \in [1 .. Len(result.rows) + 1 -> 0 .. MAX_SIZE] :
       /\ \A k \in 1 .. Len(result.rows) : start[k + 1] = start[k] + result.rows[k].len
       /\ buffer.length <= start[i]

\* An entry of a part is followed by the one of the end; if it is the last, the
\* end is still to come, and no second part.
PartsEnd(w) ==
    \A k \in 1 .. Len(AllEntries(w)) :
       ~ AllEntries(w)[k][4] =>
          IF k < Len(AllEntries(w))
          THEN AllEntries(w)[k + 1][1] = AllEntries(w)[k][1] /\ AllEntries(w)[k + 1][4]
          ELSE /\ w = key /\ pc \in {"loop", "copy"} /\ RestFits
               /\ AllEntries(w)[k][1] = result.block_id

EntriesOK == \A w \in Works : EndsOnce(w) /\ PartsEnd(w)

EInv == BlocksPopped /\ BlocksCounted /\ RowsFitTogether /\ EntriesOK
-----------------------------------------------------------------------------
(* The rows of a filtered block fit together as their lengths do. *)
LEMMA RowsOfFit ==
  ASSUME NEW b, NEW lens \in BlockRows
  PROVE  RowsFit(RowsOf(b, lens))
<1> DEFINE r == RowsOf(b, lens)
<1>1. lens \in Seq(1 .. MAX_SIZE) /\ Len(lens) \in Nat
  BY SizeAssumption, LenProperties
<1>2. Len(r) = Len(lens) /\ \A k \in 1 .. Len(lens) : r[k].len = lens[k]
  BY <1>1 DEF RowsOf
<1>3. PICK st \in [1 .. Len(lens) + 1 -> 0 .. MAX_SIZE] :
         \A k \in 1 .. Len(lens) : st[k + 1] = st[k] + lens[k]
  BY SizeAssumption DEF FitTogether
<1> HIDE DEF r
<1>4. st \in [1 .. Len(r) + 1 -> 0 .. MAX_SIZE]
  BY <1>2, <1>3
<1>5. \A k \in 1 .. Len(r) : st[k + 1] = st[k] + r[k].len
  BY <1>2, <1>3
<1>6. RowsFit(r)
  BY <1>4, <1>5 DEF RowsFit
<1> QED BY <1>6 DEF r

(* The list of a work's entries, whoever holds its parts. *)
LEMMA EntriesType ==
  ASSUME IInv, NEW w \in Works
  PROVE  /\ entries[w] \in Seq(Entry)
         /\ w \in DOMAIN m_MergeManager => m_MergeManager[w].block_id_list \in Seq(Entry)
         /\ AllEntries(w) \in Seq(Entry) /\ Len(AllEntries(w)) \in Nat
<1>1. entries[w] \in Seq(Entry)
  BY DEF IInv, HistoryOK
<1>2. w \in DOMAIN m_MergeManager => m_MergeManager[w].block_id_list \in Seq(Entry)
  BY DEF IInv, BuffersOK, BufferOK, BlockBuffer
<1>3. (IF w \in DOMAIN m_MergeManager THEN m_MergeManager[w].block_id_list ELSE <<>>) \in Seq(Entry)
  BY <1>2, EmptySeq
<1>4. AllEntries(w) \in Seq(Entry)
  BY <1>1, <1>3, ConcatProperties DEF AllEntries
<1> QED BY <1>1, <1>2, <1>4, LenProperties

(* An entry put at the end of the second part is at the end of both. *)
LEMMA ConcatAppend ==
  ASSUME NEW T, NEW s \in Seq(T), NEW t \in Seq(T), NEW e \in T
  PROVE  s \o Append(t, e) = Append(s \o t, e)
<1>1. <<e>> \in Seq(T) /\ s \o t \in Seq(T)
  BY ConcatProperties
<1>2. Append(t, e) = t \o <<e>> /\ Append(s \o t, e) = (s \o t) \o <<e>>
  BY <1>1, AppendIsConcat
<1> QED BY <1>1, <1>2, ConcatAssociative

(* Giving the current buffer another list of entries. *)
LEMMA SetBufferEntries ==
  ASSUME IInv, key \in DOMAIN m_MergeManager, NEW b, SetBuffer(b), UNCHANGED entries
  PROVE  \A w \in Works :
            AllEntries(w)' = IF w = key THEN entries[key] \o b.block_id_list ELSE AllEntries(w)
<1>1. /\ DOMAIN m_MergeManager' = DOMAIN m_MergeManager
      /\ \A w \in DOMAIN m_MergeManager :
            m_MergeManager'[w] = IF w = key THEN b ELSE m_MergeManager[w]
  BY DEF SetBuffer
<1> QED BY <1>1 DEF AllEntries

(* A sent list goes from the second part to the first. *)
LEMMA SendEntries ==
  ASSUME IInv, key \in DOMAIN m_MergeManager, NEW b, b.block_id_list \in Seq(Entry),
         SendDataToBufferManager(b),
         \/ SetBuffer(InitBlockBuffer(b))
         \/ m_MergeManager' = [w \in DOMAIN m_MergeManager \ {key} |-> m_MergeManager[w]]
  PROVE  \A w \in Works :
            AllEntries(w)' = IF w = key THEN entries[key] \o b.block_id_list ELSE AllEntries(w)
<1>1. key \in Works /\ entries[key] \in Seq(Entry)
  BY CurrentType, EntriesType
<1>2. \A w \in Works :
         entries'[w] = IF w = key THEN entries[key] \o b.block_id_list ELSE entries[w]
  BY DEF IInv, HistoryOK, SendDataToBufferManager
<1>3. entries[key] \o b.block_id_list \in Seq(Entry)
  BY <1>1, ConcatProperties
<1>4. InitBlockBuffer(b).block_id_list = <<>>
  BY DEF InitBlockBuffer, EmptyBuffer
<1>5. ASSUME NEW w \in Works, w # key PROVE AllEntries(w)' = AllEntries(w)
  <2>1. /\ w \in DOMAIN m_MergeManager' <=> w \in DOMAIN m_MergeManager
        /\ w \in DOMAIN m_MergeManager => m_MergeManager'[w] = m_MergeManager[w]
    BY <1>5 DEF SetBuffer
  <2> QED BY <1>2, <1>5, <2>1 DEF AllEntries
<1>6. ASSUME NEW w \in Works, w = key
      PROVE  AllEntries(w)' = entries[key] \o b.block_id_list
  <2>1. w \in DOMAIN m_MergeManager' => m_MergeManager'[w].block_id_list = <<>>
    BY <1>4, <1>6 DEF SetBuffer
  <2>2. AllEntries(w)' = entries'[w] \o <<>>
    BY <2>1 DEF AllEntries
  <2> QED BY <1>2, <1>3, <1>6, <2>2, ConcatEmptySeq
<1> QED BY <1>5, <1>6

-----------------------------------------------------------------------------
(* What the entries of the works say in the next state. *)

(* No entry is added, and the block being merged is not ended. *)
LEMMA EntriesKept ==
  ASSUME EntriesOK, UNCHANGED <<popped, result>>,
         \A w \in Works : AllEntries(w)' = AllEntries(w),
         pc' \in {"begin", "first", "loop", "copy"} <=> pc \in {"begin", "first", "loop", "copy"},
         pc \in {"loop", "copy"} /\ RestFits => pc' \in {"loop", "copy"} /\ RestFits'
  PROVE  EntriesOK'
<1>1. key' = key
  BY DEF key
<1>2. ASSUME NEW w \in Works PROVE EndsOnce(w)'
  <2>1. EndedBlocks(w)' = EndedBlocks(w)
    BY <1>1 DEF EndedBlocks
  <2>2. Ended(AllEntries(w))' = Ended(AllEntries(w))
    BY DEF Ended
  <2>3. EndsOnce(w)
    BY DEF EntriesOK
  <2> QED BY <2>1, <2>2, <2>3 DEF EndsOnce
<1>3. ASSUME NEW w \in Works PROVE PartsEnd(w)'
  <2>1. PartsEnd(w)
    BY DEF EntriesOK
  <2> QED BY <1>1, <2>1 DEF PartsEnd
<1> QED BY <1>2, <1>3 DEF EntriesOK

(* The elements of a list with one more. *)
LEMMA AppendedList ==
  ASSUME NEW all \in Seq(Entry), NEW e \in Entry, NEW new, new = Append(all, e)
  PROVE  /\ Len(all) \in Nat /\ Len(new) = Len(all) + 1
         /\ \A k \in 1 .. Len(all) : new[k] = all[k]
         /\ new[Len(new)] = e
         /\ \A k \in 1 .. Len(new) : k \in 1 .. Len(all) \/ k = Len(new)
<1>1. Len(all) \in Nat
  BY LenProperties
<1>2. /\ Len(new) = Len(all) + 1 /\ new[Len(new)] = e
      /\ \A k \in 1 .. Len(all) : new[k] = all[k]
  BY AppendProperties
<1> QED BY <1>1, <1>2

(* The block being merged gets the entry for its end. *)
LEMMA EndAdded ==
  ASSUME IInv, BlocksPopped, EntriesOK, UNCHANGED <<popped, result>>,
         pc \in {"first", "loop"}, pc' = "count",
         NEW start \in Int, NEW size \in Int,
         \A w \in Works :
            AllEntries(w)' = IF w = key
                             THEN Append(AllEntries(key), <<result.block_id, start, size, TRUE>>)
                             ELSE AllEntries(w)
  PROVE  EntriesOK'
<1> DEFINE e == <<result.block_id, start, size, TRUE>>
<1>1. /\ key' = key /\ key \in Works /\ e \in Entry
      /\ result.block_id \in popped[key]
  <2>1. result.block_id \in Nat /\ TRUE \in BOOLEAN
    BY DEF IInv, StateOK, FilterResult
  <2> QED BY <2>1, CurrentType DEF key, BlocksPopped, Entry
<1>2. ASSUME NEW w \in Works, w # key PROVE EndsOnce(w)' /\ PartsEnd(w)'
  <2>1. /\ EndsOnce(w) /\ PartsEnd(w) /\ AllEntries(w)' = AllEntries(w)
        /\ EndedBlocks(w)' = EndedBlocks(w) /\ Ended(AllEntries(w))' = Ended(AllEntries(w))
    BY <1>1, <1>2 DEF EntriesOK, EndedBlocks, Ended
  <2>2. EndsOnce(w)'
    BY <2>1 DEF EndsOnce
  <2> QED BY <1>2, <2>1, <2>2 DEF PartsEnd
<1> DEFINE all == AllEntries(key)
           new == AllEntries(key)'
<1>3. all \in Seq(Entry) /\ new = Append(all, e)
  BY <1>1, EntriesType
<1>4. EndsOnce(key) /\ PartsEnd(key) /\ EndedBlocks(key) = popped[key] \ {result.block_id}
  BY <1>1 DEF EntriesOK, EndedBlocks
<1>5. /\ \A b : b \in EndedBlocks(key) <=> \E k \in 1 .. Len(all) : all[k][4] /\ all[k][1] = b
      /\ \A k, l \in 1 .. Len(all) : all[k][4] /\ all[l][4] /\ all[k][1] = all[l][1] => k = l
      /\ \A k \in 1 .. Len(all) : ~ all[k][4] =>
            IF k < Len(all) THEN all[k + 1][1] = all[k][1] /\ all[k + 1][4]
            ELSE all[k][1] = result.block_id
  BY <1>4 DEF EndsOnce, Ended, PartsEnd
<1> HIDE DEF all, new, e
<1>6. /\ Len(all) \in Nat /\ Len(new) = Len(all) + 1
      /\ \A k \in 1 .. Len(all) : new[k] = all[k]
      /\ new[Len(new)] = e
      /\ \A k \in 1 .. Len(new) : k \in 1 .. Len(all) \/ k = Len(new)
  BY <1>1, <1>3, AppendedList
<1>7. e[4] /\ e[1] = result.block_id
  BY DEF e
<1>8. EndsOnce(key)'
  <2>1. EndedBlocks(key)' = popped[key]
    BY <1>1 DEF EndedBlocks
  <2>2. \A b : b \in popped[key] <=> \E k \in 1 .. Len(new) : new[k][4] /\ new[k][1] = b
    <3>1. ASSUME NEW b \in popped[key]
          PROVE  \E k \in 1 .. Len(new) : new[k][4] /\ new[k][1] = b
      <4>1. CASE b = result.block_id
        <5>1. Len(new) \in 1 .. Len(new)
          BY <1>6
        <5> QED BY <1>6, <1>7, <4>1, <5>1
      <4>2. CASE b # result.block_id
        <5>1. PICK k \in 1 .. Len(all) : all[k][4] /\ all[k][1] = b
          BY <1>4, <1>5, <3>1, <4>2
        <5>2. k \in 1 .. Len(new) /\ new[k] = all[k]
          BY <1>6
        <5> QED BY <5>1, <5>2
      <4> QED BY <4>1, <4>2
    <3>2. ASSUME NEW k \in 1 .. Len(new), new[k][4] PROVE new[k][1] \in popped[key]
      <4>1. CASE k = Len(new)
        BY <1>1, <1>6, <1>7, <4>1
      <4>2. CASE k \in 1 .. Len(all)
        <5>1. all[k][1] \in EndedBlocks(key)
          BY <1>5, <1>6, <3>2, <4>2
        <5> QED BY <1>4, <1>6, <4>2, <5>1
      <4> QED BY <1>6, <4>1, <4>2
    <3> QED BY <3>1, <3>2
  <2>3. ASSUME NEW k \in 1 .. Len(new), NEW l \in 1 .. Len(new),
               new[k][4], new[l][4], new[k][1] = new[l][1]
        PROVE  k = l
    <3>1. ASSUME NEW m \in 1 .. Len(all), all[m][4] PROVE all[m][1] # result.block_id
      BY <1>4, <1>5, <3>1
    <3> QED BY <1>5, <1>6, <1>7, <2>3, <3>1
  <2>4. Ended(new) = popped[key]
    BY <2>2 DEF Ended
  <2> QED BY <1>1, <2>1, <2>3, <2>4 DEF EndsOnce, new
<1>9. PartsEnd(key)'
  <2>1. ASSUME NEW k \in 1 .. Len(new), ~ new[k][4]
        PROVE  k < Len(new) /\ new[k + 1][1] = new[k][1] /\ new[k + 1][4]
    <3>1. k \in 1 .. Len(all) /\ k # Len(new) /\ new[k] = all[k]
      BY <1>6, <1>7, <2>1
    <3>2. CASE k < Len(all)
      <4>1. k + 1 \in 1 .. Len(all) /\ k < Len(new)
        BY <1>6, <3>1, <3>2
      <4> QED BY <1>5, <1>6, <2>1, <3>1, <3>2, <4>1
    <3>3. CASE k = Len(all)
      BY <1>5, <1>6, <1>7, <2>1, <3>1, <3>3
    <3> QED BY <1>6, <3>1, <3>2, <3>3
  <2> QED BY <1>1, <2>1 DEF PartsEnd, new
<1> QED BY <1>1, <1>2, <1>8, <1>9 DEF EntriesOK

(* A row that does not fit is none of a rest that fits. *)
LEMMA RestNotSent ==
  ASSUME IInv, i <= Len(result.rows), Overflows(buffer, row), buffer.length \in Nat
  PROVE  ~ RestFits
<1>1. i \in 1 .. Len(result.rows) /\ Len(result.rows) \in Nat /\ row \in Row
  <2>1. result.rows \in Seq(Row) /\ i \in Nat \ {0}
    BY DEF IInv, StateOK, FilterResult
  <2>2. i \in 1 .. Len(result.rows) /\ Len(result.rows) \in Nat
    BY <2>1, LenProperties
  <2> QED BY <2>2, CurrentType
<1>2. ASSUME NEW st \in [1 .. Len(result.rows) + 1 -> 0 .. MAX_SIZE],
             \A k \in 1 .. Len(result.rows) : st[k + 1] = st[k] + result.rows[k].len
      PROVE  ~ (buffer.length <= st[i])
  <2>1. /\ st[i] \in Nat /\ st[i + 1] \in 0 .. MAX_SIZE /\ st[i + 1] = st[i] + row.len
        /\ row.len \in Nat
    <3>1. i \in 1 .. Len(result.rows) + 1 /\ i + 1 \in 1 .. Len(result.rows) + 1
      BY <1>1
    <3>2. st[i] \in 0 .. MAX_SIZE /\ st[i + 1] \in 0 .. MAX_SIZE
      BY <3>1
    <3>3. st[i + 1] = st[i] + row.len
      BY <1>1, <1>2 DEF row
    <3>4. row.len \in Nat
      BY <1>1, SizeAssumption DEF Row
    <3> QED BY <3>2, <3>3, <3>4, SizeAssumption
  <2>2. buffer.length + row.len > MAX_SIZE
    BY DEF Overflows
  <2> QED BY <2>1, <2>2, SizeAssumption
<1> QED BY <1>2 DEF RestFits

(* The block being merged gets the entry for a part: it had none before, and *)
(* the rest fits in the buffer that is empty now.                            *)
LEMMA PartAdded ==
  ASSUME IInv, RowsFitTogether, EntriesOK, UNCHANGED <<popped, result, i>>,
         pc = "loop", pc' = "copy", i <= Len(result.rows),
         Overflows(buffer, row), buffer'.length = 0,
         NEW start \in Int, NEW size \in Int,
         \A w \in Works :
            AllEntries(w)' = IF w = key
                             THEN Append(AllEntries(key), <<result.block_id, start, size, FALSE>>)
                             ELSE AllEntries(w)
  PROVE  EntriesOK'
<1> DEFINE e == <<result.block_id, start, size, FALSE>>
<1>1. /\ key' = key /\ key \in Works /\ e \in Entry
      /\ i \in 1 .. Len(result.rows) /\ Len(result.rows) \in Nat
      /\ row \in Row /\ buffer.length \in Nat
  <2>1. result.block_id \in Nat /\ FALSE \in BOOLEAN /\ result.rows \in Seq(Row)
    BY DEF IInv, StateOK, FilterResult
  <2>2. i \in 1 .. Len(result.rows) /\ Len(result.rows) \in Nat
    BY <2>1, LenProperties DEF IInv, StateOK
  <2> QED BY <2>1, <2>2, CurrentType DEF key, Entry
<1>2. ASSUME NEW w \in Works, w # key PROVE EndsOnce(w)' /\ PartsEnd(w)'
  <2>1. /\ EndsOnce(w) /\ PartsEnd(w) /\ AllEntries(w)' = AllEntries(w)
        /\ EndedBlocks(w)' = EndedBlocks(w) /\ Ended(AllEntries(w))' = Ended(AllEntries(w))
    BY <1>1, <1>2 DEF EntriesOK, EndedBlocks, Ended
  <2>2. EndsOnce(w)'
    BY <2>1 DEF EndsOnce
  <2> QED BY <1>2, <2>1, <2>2 DEF PartsEnd
<1>3. ~ RestFits
  BY <1>1, RestNotSent
<1>4. RestFits'
  <2>1. PICK st \in [1 .. Len(result.rows) + 1 -> 0 .. MAX_SIZE] :
           \A k \in 1 .. Len(result.rows) : st[k + 1] = st[k] + result.rows[k].len
    BY DEF RowsFitTogether, RowsFit
  <2>2. buffer'.length <= st[i]
    BY <1>1, SizeAssumption
  <2> QED BY <2>1, <2>2 DEF RestFits
<1> DEFINE all == AllEntries(key)
           new == AllEntries(key)'
<1>5. all \in Seq(Entry) /\ new = Append(all, e)
  BY <1>1, EntriesType
<1>6. EndsOnce(key) /\ PartsEnd(key) /\ EndedBlocks(key)' = EndedBlocks(key)
  BY <1>1 DEF EntriesOK, EndedBlocks
<1>7. /\ Ended(all) = EndedBlocks(key)
      /\ \A k, l \in 1 .. Len(all) : all[k][4] /\ all[l][4] /\ all[k][1] = all[l][1] => k = l
      /\ \A k \in 1 .. Len(all) : ~ all[k][4] =>
            k < Len(all) /\ all[k + 1][1] = all[k][1] /\ all[k + 1][4]
  BY <1>3, <1>6 DEF EndsOnce, PartsEnd
<1> HIDE DEF all, new, e
<1>8. /\ Len(all) \in Nat /\ Len(new) = Len(all) + 1
      /\ \A k \in 1 .. Len(all) : new[k] = all[k]
      /\ new[Len(new)] = e
      /\ \A k \in 1 .. Len(new) : k \in 1 .. Len(all) \/ k = Len(new)
  BY <1>1, <1>5, AppendedList
<1>9. e[4] = FALSE /\ e[1] = result.block_id
  BY DEF e
<1>10. EndsOnce(key)'
  <2>1. \A k : k \in 1 .. Len(new) /\ new[k][4] <=> k \in 1 .. Len(all) /\ all[k][4]
    BY <1>8, <1>9
  <2>2. Ended(new) = Ended(all)
    BY <1>8, <2>1 DEF Ended
  <2>3. ASSUME NEW k \in 1 .. Len(new), NEW l \in 1 .. Len(new),
               new[k][4], new[l][4], new[k][1] = new[l][1]
        PROVE  k = l
    BY <1>7, <1>8, <2>1, <2>3
  <2> QED BY <1>1, <1>6, <1>7, <2>2, <2>3 DEF EndsOnce, new
<1>11. PartsEnd(key)'
  <2>1. ASSUME NEW k \in 1 .. Len(new), ~ new[k][4], k < Len(new)
        PROVE  new[k + 1][1] = new[k][1] /\ new[k + 1][4]
    <3>1. k \in 1 .. Len(all) /\ new[k] = all[k]
      BY <1>8, <2>1
    <3>2. k + 1 \in 1 .. Len(all)
      BY <1>7, <1>8, <2>1, <3>1
    <3> QED BY <1>7, <1>8, <2>1, <3>1, <3>2
  <2>2. ASSUME NEW k \in 1 .. Len(new), ~ (k < Len(new)) PROVE new[k][1] = result.block_id
    BY <1>8, <1>9, <2>2
  <2> QED BY <1>1, <1>4, <2>1, <2>2 DEF PartsEnd, new
<1> QED BY <1>1, <1>2, <1>10, <1>11 DEF EntriesOK

(* Within MergeBlock no buffer is made, erased or counted. *)
LEMMA CountsKept ==
  ASSUME BlocksCounted, UNCHANGED <<popped, result>>,
         pc \in {"first", "loop", "copy", "count"}, pc' \in {"first", "loop", "copy", "count"},
         DOMAIN m_MergeManager' = DOMAIN m_MergeManager,
         \A w \in DOMAIN m_MergeManager :
            m_MergeManager'[w].block_count = m_MergeManager[w].block_count
  PROVE  BlocksCounted'
<1>1. key' = key /\ \A w \in Works : CountedBlocks(w)' = CountedBlocks(w)
  BY DEF key, CountedBlocks
<1> QED BY <1>1 DEF BlocksCounted
-----------------------------------------------------------------------------
LEMMA InitEInv == Init => EInv
<1> SUFFICES ASSUME Init PROVE EInv
  OBVIOUS
<1> USE DEF Init
<1>1. PICK w \in Works : result = [work_id |-> w, block_id |-> 0, rows |-> <<>>]
  OBVIOUS
<1>2. BlocksPopped
  BY DEF BlocksPopped
<1>3. \A v \in Works : CountedBlocks(v) = {} /\ EndedBlocks(v) = {} /\ v \notin DOMAIN m_MergeManager
  BY DEF CountedBlocks, EndedBlocks
<1>4. BlocksCounted
  BY <1>3 DEF BlocksCounted
<1>5. RowsFitTogether
  <2> DEFINE st == [k \in 1 .. 1 |-> 0]
  <2>1. result.rows = <<>> /\ Len(result.rows) = 0
    BY <1>1
  <2>2. st \in [1 .. Len(result.rows) + 1 -> 0 .. MAX_SIZE]
    BY <2>1, SizeAssumption
  <2>3. \A k \in 1 .. Len(result.rows) : st[k + 1] = st[k] + result.rows[k].len
    BY <2>1
  <2> HIDE DEF st
  <2> QED BY <2>2, <2>3 DEF RowsFitTogether, RowsFit
<1>6. \A v \in Works : AllEntries(v) = <<>> /\ Len(AllEntries(v)) = 0
  BY <1>3 DEF AllEntries
<1>7. EntriesOK
  BY <1>3, <1>6 DEF EntriesOK, EndsOnce, PartsEnd, Ended
<1> QED BY <1>2, <1>4, <1>5, <1>7 DEF EInv

LEMMA PopResultEInv == ASSUME IInv, EInv, PopResult PROVE EInv'
<1> USE DEF PopResult
<1>0. PICK w \in Works, lens \in BlockRows : \E b \in (1 .. Total[w]) \ popped[w] :
         /\ result' = [work_id |-> w, block_id |-> b, rows |-> RowsOf(b, lens)]
         /\ popped' = [popped EXCEPT ![w] = @ \cup {b}]
  OBVIOUS
<1>1. PICK b \in (1 .. Total[w]) \ popped[w] :
         /\ result' = [work_id |-> w, block_id |-> b, rows |-> RowsOf(b, lens)]
         /\ popped' = [popped EXCEPT ![w] = @ \cup {b}]
  BY <1>0
<1>2. key' = w /\ result'.block_id = b /\ result'.rows = RowsOf(b, lens) /\ pc' = "begin"
  BY <1>1 DEF key
<1>3. \A v \in Works : popped'[v] = IF v = w THEN popped[w] \cup {b} ELSE popped[v]
  BY <1>1 DEF IInv, StateOK
<1>4. BlocksPopped'
  BY <1>2, <1>3 DEF EInv, BlocksPopped
<1>5. \A v \in Works : CountedBlocks(v)' = CountedBlocks(v) /\ EndedBlocks(v)' = EndedBlocks(v)
  BY <1>1, <1>2, <1>3 DEF CountedBlocks, EndedBlocks
<1>6. BlocksCounted'
  BY <1>2, <1>5 DEF EInv, BlocksCounted
<1>7. RowsFitTogether'
  <2>1. RowsFit(RowsOf(b, lens))
    BY RowsOfFit
  <2>2. RowsFit(result'.rows)
    BY <1>2, <2>1
  <2> QED BY <2>2, Zenon DEF RowsFitTogether, RowsFit
<1>8. ASSUME NEW v \in Works PROVE EndsOnce(v)' /\ PartsEnd(v)'
  <2>1. AllEntries(v)' = AllEntries(v) /\ EndsOnce(v) /\ PartsEnd(v)
    BY DEF AllEntries, EInv, EntriesOK
  <2>2. EndsOnce(v)'
    BY <1>5, <2>1 DEF EndsOnce, Ended
  <2> QED BY <2>1, <2>2 DEF PartsEnd
<1> QED BY <1>4, <1>6, <1>7, <1>8 DEF EInv, EntriesOK

LEMMA BeginBlockEInv == ASSUME IInv, EInv, BeginBlock PROVE EInv'
<1> USE DEF BeginBlock
<1>1. key \in Works /\ key' = key
  BY CurrentType DEF key
<1>2. /\ DOMAIN m_MergeManager' = DOMAIN m_MergeManager \cup {key}
      /\ \A w \in DOMAIN m_MergeManager' :
            m_MergeManager'[w] =
               IF w \in DOMAIN m_MergeManager THEN m_MergeManager[w] ELSE EmptyBuffer
  BY DEF NewBuffer
<1>3. BlocksPopped' /\ RowsFitTogether'
  BY <1>1 DEF EInv, BlocksPopped, RowsFitTogether
<1>4. \A w \in Works : CountedBlocks(w)' = CountedBlocks(w)
  BY <1>1 DEF CountedBlocks
<1>5. key \notin DOMAIN m_MergeManager => CountedBlocks(key) = {}
  <2>1. CountedBlocks(key) # 1 .. Total[key]
    BY <1>1 DEF EInv, BlocksPopped, CountedBlocks
  <2> QED BY <1>1, <2>1 DEF EInv, BlocksCounted
<1>6. BlocksCounted'
  <2>1. EmptyBuffer.block_count = 0
    BY DEF EmptyBuffer
  <2>2. ASSUME NEW w \in Works, w \in DOMAIN m_MergeManager'
        PROVE  m_MergeManager'[w].block_count = Cardinality(CountedBlocks(w))
    <3>1. CASE w \in DOMAIN m_MergeManager
      BY <1>2, <2>2, <3>1 DEF EInv, BlocksCounted
    <3>2. CASE w \notin DOMAIN m_MergeManager
      BY <1>2, <1>5, <2>1, <2>2, <3>2, FS_EmptySet
    <3> QED BY <3>1, <3>2
  <2>3. ASSUME NEW w \in Works
        PROVE  w \in DOMAIN m_MergeManager' <=>
                  CountedBlocks(w) \notin {{}, 1 .. Total[w]} \/ w = key
    BY <1>1, <1>2 DEF EInv, BlocksCounted
  <2> QED BY <1>1, <1>4, <2>2, <2>3 DEF BlocksCounted
<1>7. ASSUME NEW w \in Works PROVE AllEntries(w)' = AllEntries(w)
  <2>1. EmptyBuffer.block_id_list = <<>>
    BY DEF EmptyBuffer
  <2> QED BY <1>1, <1>2, <2>1 DEF AllEntries
<1>8. EntriesOK'
  BY <1>7, EntriesKept DEF EInv
<1> QED BY <1>3, <1>6, <1>8 DEF EInv

(* The entry for the end of a block, with rows or without. *)
LEMMA EndEntryEInv ==
  ASSUME IInv, EInv, pc \in {"first", "loop"}, pc' = "count",
         NEW start \in Int, NEW size \in Int,
         SetBuffer(AddEntry(buffer, start, size, TRUE)),
         UNCHANGED <<result, popped, entries>>
  PROVE  EInv'
<1> DEFINE b == AddEntry(buffer, start, size, TRUE)
           e == <<result.block_id, start, size, TRUE>>
<1>1. /\ key' = key /\ key \in Works /\ key \in DOMAIN m_MergeManager
      /\ buffer \in BlockBuffer /\ buffer = m_MergeManager[key]
  BY CurrentType DEF key, buffer
<1>2. b.block_id_list = Append(buffer.block_id_list, e) /\ b.block_count = buffer.block_count
  BY <1>1 DEF AddEntry, BlockBuffer
<1> HIDE DEF b
<1>3. /\ DOMAIN m_MergeManager' = DOMAIN m_MergeManager
      /\ \A w \in DOMAIN m_MergeManager :
            m_MergeManager'[w] = IF w = key THEN b ELSE m_MergeManager[w]
  BY DEF SetBuffer, b
<1>4. e \in Entry /\ entries[key] \in Seq(Entry) /\ buffer.block_id_list \in Seq(Entry)
  <2>1. result.block_id \in Nat /\ TRUE \in BOOLEAN
    BY DEF IInv, StateOK, FilterResult
  <2> QED BY <1>1, <2>1, EntriesType DEF Entry
<1> HIDE DEF e
<1>5. AllEntries(key) = entries[key] \o buffer.block_id_list
  BY <1>1 DEF AllEntries
<1>6. entries[key] \o b.block_id_list = Append(AllEntries(key), e)
  <2>1. \A s, t \in Seq(Entry) : s \o Append(t, e) = Append(s \o t, e)
    BY <1>4, ConcatAppend
  <2>2. entries[key] \o Append(buffer.block_id_list, e)
          = Append(entries[key] \o buffer.block_id_list, e)
    BY <1>4, <2>1
  <2> QED BY <1>2, <1>5, <2>2, Zenon
<1>7. \A w \in Works :
         AllEntries(w)' = IF w = key THEN Append(AllEntries(key), e) ELSE AllEntries(w)
  BY <1>1, <1>6, SetBufferEntries DEF b
<1>8. EntriesOK'
  BY <1>7, EndAdded, Zenon DEF EInv, e
<1>9. BlocksCounted'
  BY <1>1, <1>2, <1>3, CountsKept DEF EInv
<1>10. BlocksPopped' /\ RowsFitTogether'
  BY <1>1 DEF EInv, BlocksPopped, RowsFitTogether
<1> QED BY <1>8, <1>9, <1>10 DEF EInv

LEMMA EmptyBlockEInv == ASSUME IInv, EInv, EmptyBlock PROVE EInv'
<1>1. -1 \in Int /\ 0 \in Int
  OBVIOUS
<1> QED BY <1>1, EndEntryEInv, Zenon DEF EmptyBlock

LEMMA EndBlockEInv == ASSUME IInv, EInv, EndBlock PROVE EInv'
<1>1. buffer.length \in Nat /\ block_start_offset \in Nat
  BY CurrentType DEF EndBlock, IInv, StateOK
<1>2. block_start_offset \in Int /\ buffer.length - block_start_offset \in Int
  BY <1>1
<1> QED BY <1>2, EndEntryEInv DEF EndBlock, EndEntry
(* A row that fits is copied next; no entry is added. *)
LEMMA RowFitsEInv == ASSUME IInv, EInv, FirstRowFits \/ RowFits PROVE EInv'
<1>1. /\ UNCHANGED <<m_MergeManager, result, i, popped, entries>>
      /\ pc \in {"first", "loop"} /\ pc' \in {"loop", "copy"}
  BY DEF FirstRowFits, RowFits
<1>2. key' = key /\ buffer' = buffer
  BY <1>1 DEF key, buffer
<1>3. BlocksPopped' /\ RowsFitTogether'
  BY <1>1, <1>2 DEF EInv, BlocksPopped, RowsFitTogether
<1>4. BlocksCounted'
  BY <1>1, CountsKept DEF EInv
<1>5. \A w \in Works : AllEntries(w)' = AllEntries(w)
  BY <1>1 DEF AllEntries
<1>6. RestFits => RestFits'
  BY <1>1, <1>2 DEF RestFits
<1>7. EntriesOK'
  BY <1>1, <1>5, <1>6, EntriesKept DEF EInv
<1> QED BY <1>3, <1>4, <1>7 DEF EInv

(* The buffer is sent between two blocks: no entry is added. *)
LEMMA SendBeforeBlockEInv == ASSUME IInv, EInv, SendBeforeBlock PROVE EInv'
<1> USE DEF SendBeforeBlock
<1>1. /\ key' = key /\ key \in Works /\ key \in DOMAIN m_MergeManager
      /\ buffer \in BlockBuffer /\ buffer = m_MergeManager[key]
      /\ buffer.block_id_list \in Seq(Entry)
  BY CurrentType DEF key, buffer, BlockBuffer
<1>2. AllEntries(key) = entries[key] \o buffer.block_id_list
  BY <1>1 DEF AllEntries
<1>3. \A w \in Works : AllEntries(w)' = AllEntries(w)
  BY <1>1, <1>2, SendEntries
<1>4. EntriesOK'
  BY <1>3, EntriesKept DEF EInv
<1>5. /\ DOMAIN m_MergeManager' = DOMAIN m_MergeManager
      /\ \A w \in DOMAIN m_MergeManager :
            m_MergeManager'[w].block_count = m_MergeManager[w].block_count
  BY <1>1 DEF SetBuffer, InitBlockBuffer, EmptyBuffer
<1>6. BlocksCounted'
  BY <1>5, CountsKept DEF EInv
<1>7. BlocksPopped' /\ RowsFitTogether'
  BY <1>1 DEF EInv, BlocksPopped, RowsFitTogether
<1> QED BY <1>4, <1>6, <1>7 DEF EInv

(* The buffer is sent within a block, with the entry of the part. *)
LEMMA SendWithinBlockEInv == ASSUME IInv, EInv, SendWithinBlock PROVE EInv'
<1> USE DEF SendWithinBlock
<1> DEFINE size == buffer.length - block_start_offset
           b == AddEntry(buffer, block_start_offset, size, FALSE)
           e == <<result.block_id, block_start_offset, size, FALSE>>
<1>1. /\ key' = key /\ key \in Works /\ key \in DOMAIN m_MergeManager
      /\ buffer \in BlockBuffer /\ buffer = m_MergeManager[key] /\ buffer.length \in Nat
      /\ buffer.block_id_list \in Seq(Entry) /\ entries[key] \in Seq(Entry)
      /\ block_start_offset \in Nat
  BY CurrentType, EntriesType DEF key, buffer, BlockBuffer, IInv, StateOK
<1>2. b.block_id_list = Append(buffer.block_id_list, e) /\ b.block_count = buffer.block_count
  BY <1>1 DEF AddEntry, BlockBuffer
<1>3. SendDataToBufferManager(b) /\ SetBuffer(InitBlockBuffer(b))
  BY DEF SplitEntry
<1>4. block_start_offset \in Int /\ size \in Int
  BY <1>1
<1>5. e \in Entry
  <2>1. result.block_id \in Nat /\ FALSE \in BOOLEAN
    BY DEF IInv, StateOK, FilterResult
  <2> QED BY <1>4, <2>1 DEF Entry
<1> HIDE DEF b, e, size
<1>6. \A w \in Works :
         AllEntries(w)' = IF w = key THEN entries[key] \o b.block_id_list ELSE AllEntries(w)
  <2>1. b.block_id_list \in Seq(Entry)
    BY <1>1, <1>2, <1>5, AppendProperties
  <2> QED BY <1>1, <1>3, <2>1, SendEntries
<1>7. entries[key] \o b.block_id_list = Append(AllEntries(key), e)
  <2>1. \A s, t \in Seq(Entry) : s \o Append(t, e) = Append(s \o t, e)
    BY <1>5, ConcatAppend
  <2>2. AllEntries(key) = entries[key] \o buffer.block_id_list
    BY <1>1 DEF AllEntries
  <2> QED BY <1>1, <1>2, <2>1, <2>2
<1>8. InitBlockBuffer(b).length = 0 /\ InitBlockBuffer(b).block_count = buffer.block_count
  BY <1>2 DEF InitBlockBuffer, EmptyBuffer
<1>9. /\ DOMAIN m_MergeManager' = DOMAIN m_MergeManager
      /\ buffer' = InitBlockBuffer(b)
      /\ \A w \in DOMAIN m_MergeManager :
            m_MergeManager'[w].block_count = m_MergeManager[w].block_count
  BY <1>1, <1>3, <1>8 DEF SetBuffer, buffer
<1>10. EntriesOK'
  <2>1. \A w \in Works :
           AllEntries(w)' = IF w = key
              THEN Append(AllEntries(key), <<result.block_id, block_start_offset, size, FALSE>>)
              ELSE AllEntries(w)
    BY <1>6, <1>7, Zenon DEF e
  <2>2. buffer'.length = 0
    BY <1>8, <1>9
  <2> QED BY <1>4, <2>1, <2>2, PartAdded, Zenon DEF EInv
<1>11. BlocksCounted'
  BY <1>9, CountsKept DEF EInv
<1>12. BlocksPopped' /\ RowsFitTogether'
  BY <1>1 DEF EInv, BlocksPopped, RowsFitTogether
<1> QED BY <1>10, <1>11, <1>12 DEF EInv

(* The row that is copied is one of the rest, and the rest fits as before. *)
LEMMA CopyRestFits == ASSUME IInv, CopyNextRow, RestFits PROVE RestFits'
<1> USE DEF CopyNextRow
<1>1. /\ key' = key /\ buffer = m_MergeManager[key] /\ key \in DOMAIN m_MergeManager
      /\ buffer.length \in Nat /\ row \in Row
      /\ i \in 1 .. Len(result.rows) /\ Len(result.rows) \in Nat
  <2>1. result.rows \in Seq(Row) /\ i \in Nat \ {0} /\ i <= Len(result.rows)
    BY DEF IInv, StateOK, FilterResult, AtPc
  <2>2. Len(result.rows) \in Nat /\ i \in 1 .. Len(result.rows)
    BY <2>1, LenProperties
  <2> QED BY <2>2, CurrentType DEF key, buffer
<1>2. buffer'.length = buffer.length + row.len
  <2>1. CopyRow(buffer, row).length = buffer.length + row.len
    BY DEF CopyRow
  <2> QED BY <1>1, <2>1 DEF SetBuffer, buffer
<1> SUFFICES ASSUME NEW st \in [1 .. Len(result.rows) + 1 -> 0 .. MAX_SIZE],
                    \A k \in 1 .. Len(result.rows) : st[k + 1] = st[k] + result.rows[k].len,
                    buffer.length <= st[i]
             PROVE  buffer'.length <= st[i']
  BY Zenon DEF RestFits
<1>3. st[i + 1] = st[i] + row.len
  BY <1>1 DEF row
<1>4. st[i] \in 0 .. MAX_SIZE
  <2>1. i \in 1 .. Len(result.rows) + 1
    BY <1>1
  <2> QED BY <2>1
<1>5. row.len \in Nat /\ MAX_SIZE \in Nat
  BY <1>1, SizeAssumption DEF Row
<1> QED BY <1>1, <1>2, <1>3, <1>4, <1>5

(* Copying a row adds its length to the buffer and to what was begun with. *)
LEMMA CopyNextRowEInv == ASSUME IInv, EInv, CopyNextRow PROVE EInv'
<1> USE DEF CopyNextRow
<1>1. /\ key' = key /\ key \in Works /\ key \in DOMAIN m_MergeManager
      /\ buffer = m_MergeManager[key] /\ buffer.length \in Nat
      /\ i \in 1 .. Len(result.rows) /\ Len(result.rows) \in Nat /\ row \in Row
  <2>1. result.rows \in Seq(Row) /\ i \in Nat \ {0} /\ i <= Len(result.rows)
    BY DEF IInv, StateOK, FilterResult, AtPc
  <2>2. Len(result.rows) \in Nat /\ i \in 1 .. Len(result.rows)
    BY <2>1, LenProperties
  <2> QED BY <2>2, CurrentType DEF key, buffer
<1>2. /\ CopyRow(buffer, row).block_id_list = buffer.block_id_list
      /\ CopyRow(buffer, row).block_count = buffer.block_count
      /\ CopyRow(buffer, row).length = buffer.length + row.len
  BY DEF CopyRow
<1>3. /\ DOMAIN m_MergeManager' = DOMAIN m_MergeManager
      /\ buffer' = CopyRow(buffer, row)
      /\ \A w \in DOMAIN m_MergeManager :
            m_MergeManager'[w].block_count = m_MergeManager[w].block_count
  BY <1>1, <1>2 DEF SetBuffer, buffer
<1>4. \A w \in Works : AllEntries(w)' = AllEntries(w)
  <2>1. AllEntries(key) = entries[key] \o buffer.block_id_list
    BY <1>1 DEF AllEntries
  <2> QED BY <1>1, <1>2, <2>1, SetBufferEntries
<1>5. RestFits => RestFits'
  BY CopyRestFits
<1>6. EntriesOK'
  BY <1>4, <1>5, EntriesKept DEF EInv
<1>7. BlocksCounted'
  BY <1>3, CountsKept DEF EInv
<1>8. BlocksPopped' /\ RowsFitTogether'
  BY <1>1 DEF EInv, BlocksPopped, RowsFitTogether
<1> QED BY <1>6, <1>7, <1>8 DEF EInv
-----------------------------------------------------------------------------
(* The block that was merged is the work's last one if block_count says so. *)
LEMMA CountedNow ==
  ASSUME IInv, EInv, pc = "count"
  PROVE  /\ popped[key] # {}
         /\ Cardinality(popped[key]) = buffer.block_count + 1
         /\ popped[key] = 1 .. Total[key] <=> Total[key] = buffer.block_count + 1
<1>1. /\ key \in Works /\ key \in DOMAIN m_MergeManager /\ buffer = m_MergeManager[key]
      /\ Total[key] \in Nat
  BY CurrentType, TotalAssumption DEF buffer
<1>2. result.block_id \in popped[key] /\ popped[key] \subseteq 1 .. Total[key]
  BY <1>1 DEF EInv, BlocksPopped
<1>3. IsFiniteSet(1 .. Total[key]) /\ Cardinality(1 .. Total[key]) = Total[key]
  <2>1. \A n \in Nat : IsFiniteSet(1 .. n) /\ Cardinality(1 .. n) = n
    <3>1. TAKE n \in Nat
    <3>2. 1 \in Int /\ n \in Int /\ (IF 1 > n THEN 0 ELSE n - 1 + 1) = n
      OBVIOUS
    <3>3. IsFiniteSet(1 .. n) /\ Cardinality(1 .. n) = IF 1 > n THEN 0 ELSE n - 1 + 1
      BY <3>2, FS_Interval, Zenon
    <3> QED BY <3>2, <3>3
  <2> QED BY <1>1, <2>1, Zenon
<1>4. IsFiniteSet(popped[key]) /\ Cardinality(popped[key]) \in Nat
  <2>1. IsFiniteSet(popped[key])
    BY <1>2, <1>3, FS_Subset
  <2> QED BY <2>1, FS_CardinalityType
<1>5. buffer.block_count = Cardinality(popped[key] \ {result.block_id})
  BY <1>1 DEF EInv, BlocksCounted, CountedBlocks
<1>6. Cardinality(popped[key] \ {result.block_id}) = Cardinality(popped[key]) - 1
  BY <1>2, <1>4, FS_RemoveElement
<1>7. Cardinality(popped[key]) = buffer.block_count + 1
  BY <1>4, <1>5, <1>6
<1>8. Cardinality(popped[key]) = Total[key] => popped[key] = 1 .. Total[key]
  BY <1>2, <1>3, FS_Subset
<1> QED BY <1>2, <1>3, <1>7, <1>8

LEMMA CountBlockEInv == ASSUME IInv, EInv, CountBlock PROVE EInv'
<1> USE DEF CountBlock
<1> DEFINE b == [buffer EXCEPT !.block_count = @ + 1]
<1>1. /\ key' = key /\ key \in Works /\ key \in DOMAIN m_MergeManager
      /\ buffer = m_MergeManager[key] /\ buffer \in BlockBuffer
  BY CurrentType DEF key, buffer
<1>2. b.block_id_list = buffer.block_id_list /\ b.block_count = buffer.block_count + 1
  BY <1>1 DEF BlockBuffer
<1>3. SetBuffer(b)
  OBVIOUS
<1> HIDE DEF b
<1>4. /\ DOMAIN m_MergeManager' = DOMAIN m_MergeManager
      /\ \A w \in DOMAIN m_MergeManager :
            m_MergeManager'[w] = IF w = key THEN b ELSE m_MergeManager[w]
  BY <1>3 DEF SetBuffer
<1>5. \A w \in Works : AllEntries(w)' = AllEntries(w)
  <2>1. AllEntries(key) = entries[key] \o buffer.block_id_list
    BY <1>1 DEF AllEntries
  <2> QED BY <1>1, <1>2, <1>3, <2>1, SetBufferEntries
<1>6. EntriesOK'
  BY <1>5, EntriesKept DEF EInv
<1>7. BlocksCounted'
  <2>1. \A w \in Works : CountedBlocks(w)' = popped[w]
    BY DEF CountedBlocks
  <2>2. \A w \in Works : w # key => CountedBlocks(w) = popped[w]
    BY DEF CountedBlocks
  <2>3. ASSUME NEW w \in Works, w # key
        PROVE  /\ w \in DOMAIN m_MergeManager' <=> popped[w] \notin {{}, 1 .. Total[w]}
               /\ w \in DOMAIN m_MergeManager' =>
                     m_MergeManager'[w].block_count = Cardinality(popped[w])
    BY <1>4, <2>2, <2>3 DEF EInv, BlocksCounted
  <2>4. /\ key \in DOMAIN m_MergeManager' /\ popped[key] \notin {{}, 1 .. Total[key]}
        /\ m_MergeManager'[key].block_count = Cardinality(popped[key])
    BY <1>1, <1>2, <1>4, CountedNow
  <2> QED BY <2>1, <2>3, <2>4 DEF BlocksCounted
<1>8. BlocksPopped' /\ RowsFitTogether'
  BY <1>1 DEF EInv, BlocksPopped, RowsFitTogether
<1> QED BY <1>6, <1>7, <1>8 DEF EInv

LEMMA FinishWorkEInv == ASSUME IInv, EInv, FinishWork PROVE EInv'
<1> USE DEF FinishWork
<1> DEFINE b == [buffer EXCEPT !.block_count = @ + 1]
<1>1. /\ key' = key /\ key \in Works /\ key \in DOMAIN m_MergeManager
      /\ buffer = m_MergeManager[key] /\ buffer \in BlockBuffer
      /\ buffer.block_id_list \in Seq(Entry)
  BY CurrentType DEF key, buffer, BlockBuffer
<1>2. b.block_id_list = buffer.block_id_list
  BY <1>1 DEF BlockBuffer
<1>3. SendDataToBufferManager(b)
  OBVIOUS
<1> HIDE DEF b
<1>4. m_MergeManager' = [w \in DOMAIN m_MergeManager \ {key} |-> m_MergeManager[w]]
  OBVIOUS
<1>5. \A w \in Works : AllEntries(w)' = AllEntries(w)
  <2>1. AllEntries(key) = entries[key] \o buffer.block_id_list
    BY <1>1 DEF AllEntries
  <2>2. b.block_id_list \in Seq(Entry)
    BY <1>1, <1>2
  <2> QED BY <1>1, <1>2, <1>3, <1>4, <2>1, <2>2, SendEntries
<1>6. EntriesOK'
  BY <1>5, EntriesKept DEF EInv
<1>7. BlocksCounted'
  <2>1. \A w \in Works : CountedBlocks(w)' = popped[w]
    BY DEF CountedBlocks
  <2>2. \A w \in Works : w # key => CountedBlocks(w) = popped[w]
    BY DEF CountedBlocks
  <2>3. ASSUME NEW w \in Works, w # key
        PROVE  /\ w \in DOMAIN m_MergeManager' <=> popped[w] \notin {{}, 1 .. Total[w]}
               /\ w \in DOMAIN m_MergeManager' =>
                     m_MergeManager'[w].block_count = Cardinality(popped[w])
    BY <1>4, <2>2, <2>3 DEF EInv, BlocksCounted
  <2>4. key \notin DOMAIN m_MergeManager' /\ popped[key] = 1 .. Total[key]
    BY <1>4, CountedNow
  <2> QED BY <2>1, <2>3, <2>4 DEF BlocksCounted
<1>8. BlocksPopped' /\ RowsFitTogether'
  BY <1>1 DEF EInv, BlocksPopped, RowsFitTogether
<1> QED BY <1>6, <1>7, <1>8 DEF EInv

LEMMA NextEInv == IInv /\ EInv /\ [Next]_vars => EInv'
<1> SUFFICES ASSUME IInv, EInv, [Next]_vars PROVE EInv'
  OBVIOUS
<1>1. CASE UNCHANGED vars
  <2> USE <1>1 DEF vars
  <2>1. key' = key /\ buffer' = buffer
    BY DEF key, buffer
  <2>2. BlocksPopped' /\ RowsFitTogether'
    BY <2>1 DEF EInv, BlocksPopped, RowsFitTogether
  <2>3. BlocksCounted'
    BY <2>1 DEF EInv, BlocksCounted, CountedBlocks
  <2>4. \A w \in Works : AllEntries(w)' = AllEntries(w)
    BY DEF AllEntries
  <2>5. RestFits => RestFits'
    BY <2>1 DEF RestFits
  <2>6. EntriesOK'
    BY <2>4, <2>5, EntriesKept DEF EInv
  <2> QED BY <2>2, <2>3, <2>6 DEF EInv
<1>2. CASE Next
  BY <1>2, PopResultEInv, BeginBlockEInv, EmptyBlockEInv, SendBeforeBlockEInv, RowFitsEInv,
     SendWithinBlockEInv, CopyNextRowEInv, EndBlockEInv, CountBlockEInv, FinishWorkEInv
     DEF Next, MergeBlock
<1> QED BY <1>1, <1>2

LEMMA EntriesInvariant == Spec => []EInv
<1>1. IInv /\ EInv /\ [Next]_vars => (IInv /\ EInv)'
  BY NextIInv, NextEInv
<1> QED BY <1>1, InitIInv, InitEInv, InductiveInvariant, PTL DEF Spec

-----------------------------------------------------------------------------
(* A list with one end entry for each of n blocks has n end entries. *)
LEMMA EndsCounted ==
  ASSUME NEW list \in Seq(Entry), NEW n \in Nat, Ended(list) = 1 .. n,
         \A k, l \in 1 .. Len(list) : list[k][4] /\ list[l][4] /\ list[k][1] = list[l][1] => k = l
  PROVE  Cardinality({k \in 1 .. Len(list) : list[k][4]}) = n
<1> DEFINE ends == {k \in 1 .. Len(list) : list[k][4]}
           blk == [k \in ends |-> list[k][1]]
<1>1. IsFiniteSet(1 .. Len(list)) /\ IsFiniteSet(1 .. n) /\ Cardinality(1 .. n) = n
  <2>1. Len(list) \in Int /\ n \in Int /\ 1 \in Int
    BY LenProperties
  <2> QED BY <2>1, FS_Interval
<1>2. IsFiniteSet(ends)
  BY <1>1, FS_Subset
<1>3. blk \in Surjection(ends, 1 .. n)
  <2>1. \A b : b \in 1 .. n <=> \E k \in ends : list[k][1] = b
    BY DEF Ended
  <2> QED BY <2>1 DEF Surjection
<1>4. blk \in Injection(ends, 1 .. n)
  <2>1. \A k, l \in ends : blk[k] = blk[l] => k = l
    OBVIOUS
  <2> QED BY <1>3, <2>1 DEF Surjection, Injection, IsInjective
<1> HIDE DEF ends, blk
<1>5. Cardinality(ends) = Cardinality(1 .. n)
  BY <1>2, <1>3, <1>4, FS_Surjection
<1> QED BY <1>1, <1>5 DEF ends

(* When the buffer of a work is gone, everything of it has been sent.        *)
THEOREM ReportCorrect == Spec => []CompleteReport
<1>1. IInv /\ EInv => CompleteReport
  <2> SUFFICES ASSUME IInv, EInv, pc = "pop", NEW w \in Works
               PROVE  /\ w \in DOMAIN m_MergeManager <=> popped[w] \notin {{}, 1 .. Total[w]}
                      /\ popped[w] = 1 .. Total[w] =>
                            /\ delivered[w] = received[w]
                            /\ Ended(entries[w]) = 1 .. Total[w]
                            /\ Cardinality({k \in 1 .. Len(entries[w]) : entries[w][k][4]})
                                  = Total[w]
    BY DEF CompleteReport
  <2>1. w \in DOMAIN m_MergeManager <=> popped[w] \notin {{}, 1 .. Total[w]}
    BY DEF EInv, BlocksCounted, CountedBlocks
  <2>2. ASSUME popped[w] = 1 .. Total[w]
        PROVE  /\ delivered[w] = received[w]
               /\ Ended(entries[w]) = 1 .. Total[w]
               /\ Cardinality({k \in 1 .. Len(entries[w]) : entries[w][k][4]}) = Total[w]
    <3>1. w \notin DOMAIN m_MergeManager /\ Total[w] \in Nat
      BY <2>1, <2>2, TotalAssumption
    <3>2. delivered[w] = received[w]
      <4>1. Held(w) = <<>> /\ Pending(w) = <<>>
        BY <3>1 DEF Held, Pending
      <4>2. received[w] = (delivered[w] \o <<>>) \o <<>>
        BY <4>1 DEF IInv, NoRowLost
      <4> QED BY <4>2, HeldType, ConcatEmptySeq
    <3>3. entries[w] \in Seq(Entry) /\ AllEntries(w) = entries[w]
      BY <3>1, EntriesType, ConcatEmptySeq DEF AllEntries
    <3>4. EndsOnce(w) /\ EndedBlocks(w) = popped[w]
      BY DEF EInv, EntriesOK, EndedBlocks
    <3>5. /\ Ended(entries[w]) = 1 .. Total[w]
          /\ \A k, l \in 1 .. Len(entries[w]) :
                entries[w][k][4] /\ entries[w][l][4] /\ entries[w][k][1] = entries[w][l][1] => k = l
      BY <2>2, <3>3, <3>4 DEF EndsOnce
    <3> QED BY <3>1, <3>2, <3>3, <3>5, EndsCounted
  <2> QED BY <2>1, <2>2
<1> QED BY <1>1, InductiveInvariant, EntriesInvariant, PTL

(* Between two results every block of which a part was sent early has ended. *)
THEOREM SplitCorrect == Spec => []SplitBlocksEnd
<1>1. EInv => SplitBlocksEnd
  <2> SUFFICES ASSUME EInv, pc = "pop", NEW w \in Works,
                      NEW k \in 1 .. Len(AllEntries(w)), ~ AllEntries(w)[k][4]
               PROVE  /\ k < Len(AllEntries(w))
                      /\ AllEntries(w)[k + 1][1] = AllEntries(w)[k][1]
                      /\ AllEntries(w)[k + 1][4]
    BY DEF SplitBlocksEnd
  <2> QED BY DEF EInv, EntriesOK, PartsEnd
<1> QED BY <1>1, EntriesInvariant, PTL

-----------------------------------------------------------------------------
(* The offsets of the entries: a third invariant, about where in a buffer    *)
(* the rows of its blocks are.                                               *)

\* Locates, with the first and the last row named.
Located(b, e) ==
    IF e[2] = -1 THEN RowsOfEntry(b, e) = {} /\ e[3] = 0
    ELSE \E f, l \in RowsOfEntry(b, e) :
            /\ \A k \in RowsOfEntry(b, e) : f <= k /\ k <= l
            /\ e[2] = b.row_offset[f]
            /\ e[2] + e[3] = b.row_offset[l] + b.data[l].len

\* StartsStale, with the last row named.
Stale(b, e) ==
    \E l \in RowsOfEntry(b, e) :
       /\ \A k \in RowsOfEntry(b, e) : k <= l
       /\ 1 \in RowsOfEntry(b, e)
       /\ e[2] > 0
       /\ e[2] + e[3] = b.row_offset[l] + b.data[l].len
       /\ e[4]

EntriesLocated(b) ==
    \A k \in 1 .. Len(b.block_id_list) :
       LET e == b.block_id_list[k] IN Located(b, e) \/ (k = 1 /\ Stale(b, e))

\* The entries of a buffer locate their blocks and are of the blocks in ended;
\* its rows are of those blocks and of the ones in begun.
Told(b, ended, begun) ==
    /\ EntriesLocated(b)
    /\ \A k \in 1 .. Len(b.block_id_list) : b.block_id_list[k][1] \in ended
    /\ \A k \in 1 .. b.rows : b.data[k].block \in ended \cup begun

\* The block whose rows are being copied into the buffer of the work.
BegunBlocks(w) == IF pc \in {"loop", "copy"} /\ w = key THEN {result.block_id} ELSE {}

\* What every open buffer tells.
ToldAll ==
    \A w \in DOMAIN m_MergeManager : Told(m_MergeManager[w], EndedBlocks(w), BegunBlocks(w))

\* All rows of the block that have been copied are in the buffer, the last ones
\* of it, and block_start_offset is where they start.
WholeBlock ==
    \E p \in 0 .. buffer.rows :
       /\ buffer.rows = p + (i - 1)
       /\ \A k \in 1 .. buffer.rows : buffer.data[k].block = result.block_id <=> k > p
       /\ block_start_offset = IF p = buffer.rows THEN buffer.length ELSE buffer.row_offset[p + 1]
       /\ block_start_offset = 0 => RestFits
       /\ i = 1 /\ pc = "loop" => ~ Overflows(buffer, row)

\* The buffer was sent since MergeBlock noted block_start_offset: it has no entry
\* yet and no rows but the block's, and is not sent again before the block's end.
RestOfBlock ==
    /\ buffer.block_id_list = <<>>
    /\ \A k \in 1 .. buffer.rows : buffer.data[k].block = result.block_id
    /\ buffer.rows > 0 \/ i = 1 \/ pc = "copy"
    /\ block_start_offset > 0
    /\ RestFits

StartNoted ==
    /\ pc = "first" => block_start_offset = buffer.length
    /\ pc \in {"loop", "copy"} => result.rows # <<>> /\ (WholeBlock \/ RestOfBlock)

LInv ==
    /\ \A k \in 1 .. Len(result.rows) : result.rows[k].block = result.block_id
    /\ ToldAll
    /\ EntriesLocated(message)
    /\ StartNoted
-----------------------------------------------------------------------------
(* The first and the last row of a block are those that Locates chooses. *)
LEMMA LocatedLocates ==
  ASSUME NEW b, b.rows \in Nat, NEW e, Located(b, e)
  PROVE  Locates(b, e)
<1> DEFINE ks == RowsOfEntry(b, e)
<1>1. CASE e[2] = -1
  BY <1>1 DEF Located, Locates
<1>2. CASE e[2] # -1
  <2>1. PICK f \in ks, l \in ks :
           /\ \A k \in ks : f <= k /\ k <= l
           /\ e[2] = b.row_offset[f]
           /\ e[2] + e[3] = b.row_offset[l] + b.data[l].len
    BY <1>2 DEF Located
  <2>2. ks \subseteq Nat
    BY DEF RowsOfEntry
  <2> HIDE DEF ks
  <2> DEFINE first == CHOOSE k \in ks : \A j \in ks : k <= j
             last == CHOOSE k \in ks : \A j \in ks : k >= j
  <2>3. \A k \in ks : (\A j \in ks : k <= j) => k = f
    BY <2>1, <2>2
  <2>4. \A k \in ks : (\A j \in ks : k >= j) => k = l
    BY <2>1, <2>2
  <2>5. first \in ks /\ \A j \in ks : first <= j
    BY <2>1
  <2>6. last \in ks /\ \A j \in ks : last >= j
    <3>1. \A j \in ks : l >= j
      BY <2>1, <2>2
    <3> QED BY <3>1
  <2> HIDE DEF first, last
  <2>7. first = f /\ last = l
    BY <2>3, <2>4, <2>5, <2>6, Zenon
  <2>8. /\ ks # {}
        /\ e[2] = b.row_offset[first]
        /\ e[2] + e[3] = b.row_offset[last] + b.data[last].len
    BY <2>1, <2>7
  <2> QED BY <1>2, <2>8, Zenon DEF Locates, ks, first, last
<1> QED BY <1>1, <1>2

(* The last row is the one that StartsStale chooses. *)
LEMMA StaleStarts ==
  ASSUME NEW b, b.rows \in Nat, NEW e, Stale(b, e)
  PROVE  StartsStale(b, e)
<1> DEFINE ks == RowsOfEntry(b, e)
           last == CHOOSE k \in ks : \A j \in ks : k >= j
<1>1. PICK l \in ks :
         /\ \A k \in ks : k <= l
         /\ 1 \in ks /\ e[2] > 0 /\ e[4]
         /\ e[2] + e[3] = b.row_offset[l] + b.data[l].len
  BY DEF Stale
<1>2. ks \subseteq Nat
  BY DEF RowsOfEntry
<1> HIDE DEF ks
<1>3. \A k \in ks : (\A j \in ks : k >= j) => k = l
  BY <1>1, <1>2
<1>4. \A j \in ks : l >= j
  BY <1>1, <1>2
<1>5. last \in ks /\ \A j \in ks : last >= j
  BY <1>4
<1> HIDE DEF last
<1>6. last = l
  BY <1>3, <1>5, Zenon
<1>7. 1 \in ks /\ e[2] > 0 /\ e[4] /\ e[2] + e[3] = b.row_offset[last] + b.data[last].len
  BY <1>1, <1>6
<1> QED BY <1>7, Zenon DEF StartsStale, ks, last

(* A buffer without rows and entries tells nothing wrong. *)
LEMMA ToldNothing ==
  ASSUME NEW b, b.rows = 0, b.block_id_list = <<>>, NEW ended, NEW begun
  PROVE  Told(b, ended, begun)
<1>1. Len(b.block_id_list) = 0
  OBVIOUS
<1> QED BY <1>1 DEF Told, EntriesLocated

(* Where a block is depends on the rows alone. *)
LEMMA SameRowsLocated ==
  ASSUME NEW b, NEW c, c.rows = b.rows, c.row_offset = b.row_offset, c.data = b.data, NEW e
  PROVE  /\ Located(c, e) <=> Located(b, e)
         /\ Stale(c, e) <=> Stale(b, e)
<1>1. RowsOfEntry(c, e) = RowsOfEntry(b, e)
  BY DEF RowsOfEntry
<1> QED BY <1>1 DEF Located, Stale

(* A buffer with the same rows and entries tells the same. *)
LEMMA SameTold ==
  ASSUME NEW b, NEW c, c.rows = b.rows, c.row_offset = b.row_offset, c.data = b.data,
         c.block_id_list = b.block_id_list,
         NEW ended, NEW begun, Told(b, ended, begun)
  PROVE  Told(c, ended, begun)
<1>1. \A e : (Located(c, e) <=> Located(b, e)) /\ (Stale(c, e) <=> Stale(b, e))
  BY SameRowsLocated
<1> QED BY <1>1 DEF Told, EntriesLocated

(* The blocks that have begun may all have ended. *)
LEMMA ToldOfMore ==
  ASSUME NEW b, NEW ended, NEW begun, Told(b, ended, begun),
         NEW ended2, NEW begun2, ended \subseteq ended2, begun \subseteq ended2 \cup begun2
  PROVE  Told(b, ended2, begun2)
BY DEF Told

(* The entry that is put behind the others locates its block, or is the     *)
(* first one and has its start from the buffer before.                      *)
LEMMA EntryLocated ==
  ASSUME NEW b, b.block_id_list \in Seq(Entry), EntriesLocated(b),
         NEW c, c.rows = b.rows, c.row_offset = b.row_offset, c.data = b.data,
         NEW e \in Entry, c.block_id_list = Append(b.block_id_list, e),
         Located(b, e) \/ (b.block_id_list = <<>> /\ Stale(b, e))
  PROVE  EntriesLocated(c)
<1>1. \A x : (Located(c, x) <=> Located(b, x)) /\ (Stale(c, x) <=> Stale(b, x))
  BY SameRowsLocated
<1> DEFINE old == b.block_id_list
           new == c.block_id_list
<1>2. /\ Len(old) \in Nat /\ Len(new) = Len(old) + 1
      /\ \A k \in 1 .. Len(old) : new[k] = old[k]
      /\ new[Len(new)] = e
      /\ \A k \in 1 .. Len(new) : k \in 1 .. Len(old) \/ k = Len(new)
  BY AppendedList
<1>3. b.block_id_list = <<>> => Len(new) = 1
  BY <1>2
<1> SUFFICES ASSUME NEW k \in 1 .. Len(new)
             PROVE  Located(c, new[k]) \/ (k = 1 /\ Stale(c, new[k]))
  BY DEF EntriesLocated
<1>4. CASE k \in 1 .. Len(old)
  BY <1>1, <1>2, <1>4 DEF EntriesLocated
<1>5. CASE k = Len(new)
  BY <1>1, <1>2, <1>3, <1>5
<1> QED BY <1>2, <1>4, <1>5

LEMMA ToldEntry ==
  ASSUME NEW b, b.block_id_list \in Seq(Entry), NEW ended, NEW begun, Told(b, ended, begun),
         NEW c, c.rows = b.rows, c.row_offset = b.row_offset, c.data = b.data,
         NEW e \in Entry, c.block_id_list = Append(b.block_id_list, e),
         Located(b, e) \/ (b.block_id_list = <<>> /\ Stale(b, e)),
         NEW ended2, ended \cup begun \subseteq ended2, e[1] \in ended2
  PROVE  Told(c, ended2, {})
<1>1. EntriesLocated(c)
  BY EntryLocated DEF Told
<1> DEFINE old == b.block_id_list
           new == c.block_id_list
<1>2. /\ \A k \in 1 .. Len(old) : new[k] = old[k]
      /\ new[Len(new)] = e
      /\ \A k \in 1 .. Len(new) : k \in 1 .. Len(old) \/ k = Len(new)
  BY AppendedList
<1>3. \A k \in 1 .. Len(new) : new[k][1] \in ended2
  BY <1>2 DEF Told
<1>4. \A k \in 1 .. c.rows : c.data[k].block \in ended2
  BY DEF Told
<1> QED BY <1>1, <1>3, <1>4 DEF Told

(* Copying a row of a block that has no entry yet moves no other block. *)
LEMMA ToldRow ==
  ASSUME NEW b, BufferOK(b), NEW ended, NEW begun, Told(b, ended, begun),
         NEW r \in Row, b.length + r.len <= MAX_SIZE, r.block \notin ended, r.block \in begun
  PROVE  Told(CopyRow(b, r), ended, begun)
<1> DEFINE c == CopyRow(b, r)
<1>1. /\ b.row_offset \in Seq(Nat) /\ b.data \in Seq(Row) /\ b.rows \in Nat
      /\ Len(b.row_offset) = b.rows /\ Len(b.data) = b.rows /\ b.length \in Nat
  BY DEF BufferOK, BlockBuffer, Cuts
<1>2. /\ c.row_offset = Append(b.row_offset, b.length) /\ c.data = Append(b.data, r)
      /\ c.rows = b.rows + 1 /\ c.block_id_list = b.block_id_list
  BY DEF CopyRow
<1> HIDE DEF c
<1>3. /\ \A k \in 1 .. b.rows : c.row_offset[k] = b.row_offset[k] /\ c.data[k] = b.data[k]
      /\ c.data[c.rows] = r
      /\ \A k \in 1 .. c.rows : k \in 1 .. b.rows \/ k = c.rows
      /\ 1 .. b.rows \subseteq 1 .. c.rows
  BY <1>1, <1>2, AppendProperties
<1>4. ASSUME NEW e, e[1] \in ended
      PROVE  (Located(b, e) => Located(c, e)) /\ (Stale(b, e) => Stale(c, e))
  <2>1. RowsOfEntry(c, e) = RowsOfEntry(b, e)
    BY <1>3, <1>4 DEF RowsOfEntry
  <2>2. \A k \in RowsOfEntry(b, e) : c.row_offset[k] = b.row_offset[k] /\ c.data[k] = b.data[k]
    BY <1>3 DEF RowsOfEntry
  <2>3. Located(b, e) => Located(c, e)
    BY <2>1, <2>2 DEF Located
  <2>4. Stale(b, e) => Stale(c, e)
    BY <2>1, <2>2 DEF Stale
  <2> QED BY <2>3, <2>4
<1>5. EntriesLocated(c) /\ \A k \in 1 .. Len(c.block_id_list) : c.block_id_list[k][1] \in ended
  BY <1>2, <1>4 DEF Told, EntriesLocated
<1>6. \A k \in 1 .. c.rows : c.data[k].block \in ended \cup begun
  BY <1>3 DEF Told
<1> QED BY <1>5, <1>6 DEF Told, c
-----------------------------------------------------------------------------
(* What the invariants say of the buffer of the current work. *)
LEMMA CurrentTold ==
  ASSUME IInv, EInv, LInv, pc \in {"first", "loop", "copy", "count"}
  PROVE  /\ key \in Works /\ key \in DOMAIN m_MergeManager /\ buffer = m_MergeManager[key]
         /\ BufferOK(buffer) /\ buffer \in BlockBuffer
         /\ buffer.length \in Nat /\ buffer.rows \in Nat /\ buffer.block_id_list \in Seq(Entry)
         /\ block_start_offset \in Nat /\ i \in Nat \ {0}
         /\ result.rows \in Seq(Row) /\ Len(result.rows) \in Nat
         /\ result.block_id \in Nat
         /\ pc # "count" => result.block_id \notin EndedBlocks(key)
         /\ result.block_id \in popped[key]
         /\ Told(buffer, EndedBlocks(key), BegunBlocks(key))
<1>1. /\ key \in Works /\ key \in DOMAIN m_MergeManager /\ buffer = m_MergeManager[key]
      /\ BufferOK(buffer) /\ buffer \in BlockBuffer
  BY CurrentType DEF buffer
<1>2. /\ buffer.length \in Nat /\ buffer.rows \in Nat /\ buffer.block_id_list \in Seq(Entry)
  BY <1>1 DEF BlockBuffer
<1>3. /\ block_start_offset \in Nat /\ i \in Nat \ {0}
      /\ result.rows \in Seq(Row) /\ Len(result.rows) \in Nat /\ result.block_id \in Nat
  BY LenProperties DEF IInv, StateOK, FilterResult
<1>4. /\ pc # "count" => result.block_id \notin EndedBlocks(key)
      /\ result.block_id \in popped[key]
  BY DEF EndedBlocks, EInv, BlocksPopped
<1>5. Told(buffer, EndedBlocks(key), BegunBlocks(key))
  BY <1>1 DEF LInv, ToldAll
<1> QED BY <1>1, <1>2, <1>3, <1>4, <1>5

(* A step of MergeBlock leaves what the buffers of the other works tell. *)
LEMMA OthersTold ==
  ASSUME LInv, UNCHANGED <<result, popped>>,
         \A w \in DOMAIN m_MergeManager' : w # key =>
            w \in DOMAIN m_MergeManager /\ m_MergeManager'[w] = m_MergeManager[w],
         key \in DOMAIN m_MergeManager' =>
            Told(m_MergeManager'[key], EndedBlocks(key)', BegunBlocks(key)')
  PROVE  ToldAll'
<1>1. key' = key
  BY DEF key
<1>2. ASSUME NEW w \in DOMAIN m_MergeManager', w # key
      PROVE  Told(m_MergeManager'[w], EndedBlocks(w)', BegunBlocks(w)')
  <2>1. EndedBlocks(w)' = EndedBlocks(w) /\ BegunBlocks(w)' = BegunBlocks(w)
    BY <1>1, <1>2 DEF EndedBlocks, BegunBlocks
  <2>2. Told(m_MergeManager[w], EndedBlocks(w), BegunBlocks(w)) /\ m_MergeManager'[w] = m_MergeManager[w]
    BY <1>2 DEF LInv, ToldAll
  <2> QED BY <2>1, <2>2, Zenon
<1>3. ASSUME NEW w \in DOMAIN m_MergeManager', w = key
      PROVE  Told(m_MergeManager'[w], EndedBlocks(w)', BegunBlocks(w)')
  <2>1. EndedBlocks(w)' = EndedBlocks(key)' /\ BegunBlocks(w)' = BegunBlocks(key)'
    BY <1>1, <1>3 DEF EndedBlocks, BegunBlocks
  <2> QED BY <1>3, <2>1, Zenon
<1> QED BY <1>2, <1>3, Zenon DEF ToldAll

(* The rows of the result stay the block's, whatever MergeBlock does. *)
LEMMA LInvParts ==
  ASSUME LInv, UNCHANGED result, ToldAll', EntriesLocated(message)', StartNoted'
  PROVE  LInv'
BY DEF LInv, ToldAll

(* The rows of a whole block are where its entry says. *)
LEMMA WholeLocated ==
  ASSUME BufferOK(buffer), WholeBlock, i > 1, block_start_offset \in Nat, i \in Nat,
         NEW full
  PROVE  Located(buffer, <<result.block_id, block_start_offset,
                           buffer.length - block_start_offset, full>>)
<1> DEFINE e == <<result.block_id, block_start_offset, buffer.length - block_start_offset, full>>
           ks == RowsOfEntry(buffer, e)
<1>1. PICK p \in 0 .. buffer.rows :
         /\ buffer.rows = p + (i - 1)
         /\ \A k \in 1 .. buffer.rows : buffer.data[k].block = result.block_id <=> k > p
         /\ block_start_offset = IF p = buffer.rows THEN buffer.length ELSE buffer.row_offset[p + 1]
  BY DEF WholeBlock
<1>2. buffer.rows \in Nat /\ buffer.length \in Nat /\ p \in Nat
  BY <1>1 DEF BufferOK, BlockBuffer
<1>3. p + 1 \in 1 .. buffer.rows /\ buffer.rows \in 1 .. buffer.rows /\ p # buffer.rows
  BY <1>1, <1>2
<1>4. \A k : k \in ks <=> k \in 1 .. buffer.rows /\ k > p
  BY <1>1 DEF RowsOfEntry
<1>5. p + 1 \in ks /\ buffer.rows \in ks /\ \A k \in ks : p + 1 <= k /\ k <= buffer.rows
  BY <1>2, <1>3, <1>4
<1>6. buffer.row_offset[p + 1] = block_start_offset
  BY <1>1, <1>3
<1>7. buffer.row_offset[buffer.rows] + buffer.data[buffer.rows].len = buffer.length
  BY <1>2, <1>3 DEF BufferOK, Cuts
<1>8. e[2] = block_start_offset /\ e[2] + e[3] = buffer.length /\ e[2] # -1
  BY <1>2
<1> HIDE DEF e, ks
<1>9. Located(buffer, e)
  BY <1>5, <1>6, <1>7, <1>8 DEF Located, ks
<1> QED BY <1>9 DEF e
(* The rows that were copied after the buffer was sent fill it from its    *)
(* start, and the entry for them ends where they do.                       *)
LEMMA RestStale ==
  ASSUME BufferOK(buffer), RestOfBlock, i > 1, pc = "loop", block_start_offset \in Nat, i \in Nat
  PROVE  Stale(buffer, <<result.block_id, block_start_offset,
                         buffer.length - block_start_offset, TRUE>>)
<1> DEFINE e == <<result.block_id, block_start_offset, buffer.length - block_start_offset, TRUE>>
           ks == RowsOfEntry(buffer, e)
<1>1. /\ \A k \in 1 .. buffer.rows : buffer.data[k].block = result.block_id
      /\ buffer.rows > 0 /\ block_start_offset > 0
  BY DEF RestOfBlock
<1>2. buffer.rows \in Nat /\ buffer.length \in Nat
  BY DEF BufferOK, BlockBuffer
<1>3. \A k : k \in ks <=> k \in 1 .. buffer.rows
  BY <1>1 DEF RowsOfEntry
<1>4. 1 \in ks /\ buffer.rows \in ks /\ \A k \in ks : k <= buffer.rows
  <2>1. 1 \in 1 .. buffer.rows /\ buffer.rows \in 1 .. buffer.rows
    BY <1>1, <1>2
  <2> HIDE DEF ks
  <2> QED BY <1>2, <1>3, <2>1
<1>5. buffer.row_offset[buffer.rows] + buffer.data[buffer.rows].len = buffer.length
  BY <1>1, <1>2 DEF BufferOK, Cuts
<1>6. e[2] > 0 /\ e[2] + e[3] = buffer.length /\ e[4]
  BY <1>1, <1>2
<1> HIDE DEF e, ks
<1>7. Stale(buffer, e)
  BY <1>4, <1>5, <1>6 DEF Stale, ks
<1> QED BY <1>7 DEF e
-----------------------------------------------------------------------------
LEMMA InitLInv == Init => LInv
<1> SUFFICES ASSUME Init PROVE LInv
  OBVIOUS
<1> USE DEF Init
<1>1. result.rows = <<>> /\ Len(result.rows) = 0
  OBVIOUS
<1>2. DOMAIN m_MergeManager = {}
  OBVIOUS
<1>3. EntriesLocated(message)
  <2>1. Len(message.block_id_list) = 0
    BY DEF EmptyBuffer
  <2> QED BY <2>1 DEF EntriesLocated
<1>4. StartNoted
  BY DEF StartNoted
<1> QED BY <1>1, <1>2, <1>3, <1>4 DEF LInv, ToldAll

LEMMA PopResultLInv == ASSUME IInv, EInv, LInv, PopResult PROVE LInv'
<1> USE DEF PopResult
<1>0. PICK w \in Works, lens \in BlockRows : \E b \in (1 .. Total[w]) \ popped[w] :
         /\ result' = [work_id |-> w, block_id |-> b, rows |-> RowsOf(b, lens)]
         /\ popped' = [popped EXCEPT ![w] = @ \cup {b}]
  OBVIOUS
<1>1. PICK b \in (1 .. Total[w]) \ popped[w] :
         /\ result' = [work_id |-> w, block_id |-> b, rows |-> RowsOf(b, lens)]
         /\ popped' = [popped EXCEPT ![w] = @ \cup {b}]
  BY <1>0
<1>2. key' = w /\ result'.block_id = b /\ result'.rows = RowsOf(b, lens)
  BY <1>1 DEF key
<1>3. \A v \in Works : popped'[v] = IF v = w THEN popped[w] \cup {b} ELSE popped[v]
  BY <1>1 DEF IInv, StateOK
<1>4. \A k \in 1 .. Len(result'.rows) : result'.rows[k].block = result'.block_id
  <2>1. lens \in Seq(1 .. MAX_SIZE) /\ Len(lens) \in Nat
    BY SizeAssumption, LenProperties
  <2>2. /\ Len(RowsOf(b, lens)) = Len(lens)
        /\ \A k \in 1 .. Len(lens) : RowsOf(b, lens)[k].block = b
    BY <2>1 DEF RowsOf
  <2> QED BY <1>2, <2>2
<1>5. ToldAll'
  <2>1. ASSUME NEW v \in Works
        PROVE  /\ EndedBlocks(v)' = EndedBlocks(v)
               /\ BegunBlocks(v)' = BegunBlocks(v)
    BY <1>1, <1>2, <1>3 DEF EndedBlocks, BegunBlocks
  <2>2. DOMAIN m_MergeManager \subseteq Works
    BY DEF IInv, BuffersOK
  <2>3. \A v \in DOMAIN m_MergeManager : Told(m_MergeManager[v], EndedBlocks(v), BegunBlocks(v))
    BY DEF LInv, ToldAll
  <2> QED BY <2>1, <2>2, <2>3 DEF ToldAll
<1>6. EntriesLocated(message)'
  BY DEF LInv
<1>7. StartNoted'
  BY DEF StartNoted
<1> QED BY <1>4, <1>5, <1>6, <1>7 DEF LInv, ToldAll

LEMMA BeginBlockLInv == ASSUME IInv, EInv, LInv, BeginBlock PROVE LInv'
<1> USE DEF BeginBlock
<1>1. key \in Works /\ key' = key
  BY CurrentType DEF key
<1>2. /\ DOMAIN m_MergeManager' = DOMAIN m_MergeManager \cup {key}
      /\ \A w \in DOMAIN m_MergeManager' :
            m_MergeManager'[w] =
               IF w \in DOMAIN m_MergeManager THEN m_MergeManager[w] ELSE EmptyBuffer
  BY DEF NewBuffer
<1>3. EndedBlocks(key)' = EndedBlocks(key) /\ BegunBlocks(key)' = BegunBlocks(key)
  BY <1>1 DEF EndedBlocks, BegunBlocks
<1>4. Told(m_MergeManager'[key], EndedBlocks(key)', BegunBlocks(key)')
  <2>1. CASE key \in DOMAIN m_MergeManager
    <3>1. Told(m_MergeManager[key], EndedBlocks(key), BegunBlocks(key))
      BY <2>1 DEF LInv, ToldAll
    <3> QED BY <1>2, <1>3, <2>1, <3>1
  <2>2. CASE key \notin DOMAIN m_MergeManager
    <3>1. m_MergeManager'[key] = EmptyBuffer
      BY <1>2, <2>2
    <3>2. EmptyBuffer.rows = 0 /\ EmptyBuffer.block_id_list = <<>>
      BY DEF EmptyBuffer
    <3> QED BY <3>1, <3>2, ToldNothing
  <2> QED BY <2>1, <2>2
<1>5. ToldAll'
  BY <1>1, <1>2, <1>4, OthersTold
<1>6. StartNoted'
  <2>1. EmptyBuffer.length = 0
    BY DEF EmptyBuffer
  <2>2. buffer' = IF key \in DOMAIN m_MergeManager THEN buffer ELSE EmptyBuffer
    BY <1>1, <1>2 DEF buffer
  <2>3. block_start_offset' = buffer'.length
    BY <2>1, <2>2
  <2> QED BY <2>3 DEF StartNoted
<1>7. EntriesLocated(message)'
  BY DEF LInv
<1> QED BY <1>5, <1>6, <1>7, LInvParts

(* The entry of the end of a block, with rows or without. *)
LEMMA EndEntryLInv ==
  ASSUME IInv, EInv, LInv, pc \in {"first", "loop"}, pc' = "count",
         NEW start \in Int, NEW size \in Int,
         \/ Located(buffer, <<result.block_id, start, size, TRUE>>)
         \/ /\ buffer.block_id_list = <<>>
            /\ Stale(buffer, <<result.block_id, start, size, TRUE>>),
         SetBuffer(AddEntry(buffer, start, size, TRUE)),
         UNCHANGED <<result, popped, message>>
  PROVE  LInv'
<1> DEFINE c == AddEntry(buffer, start, size, TRUE)
           e == <<result.block_id, start, size, TRUE>>
<1>1. /\ key' = key /\ key \in Works /\ key \in DOMAIN m_MergeManager
      /\ buffer = m_MergeManager[key]
      /\ buffer \in BlockBuffer /\ buffer.block_id_list \in Seq(Entry)
      /\ result.block_id \in popped[key] /\ result.block_id \in Nat
      /\ Told(buffer, EndedBlocks(key), BegunBlocks(key))
  BY CurrentTold DEF key
<1>2. /\ c.rows = buffer.rows /\ c.row_offset = buffer.row_offset /\ c.data = buffer.data
      /\ c.block_id_list = Append(buffer.block_id_list, e)
  BY <1>1 DEF AddEntry, BlockBuffer
<1>3. e \in Entry /\ e[1] = result.block_id /\ e[2] = start /\ e[4]
  <2>1. TRUE \in BOOLEAN
    OBVIOUS
  <2> QED BY <1>1, <2>1 DEF Entry
<1>4. Located(buffer, e) \/ (buffer.block_id_list = <<>> /\ Stale(buffer, e))
  OBVIOUS
<1>5. SetBuffer(c)
  OBVIOUS
<1> HIDE DEF c, e
<1>6. EndedBlocks(key)' = popped[key] /\ BegunBlocks(key)' = {}
  BY <1>1 DEF EndedBlocks, BegunBlocks
<1>7. EndedBlocks(key) \cup BegunBlocks(key) \subseteq popped[key]
  BY <1>1 DEF EndedBlocks, BegunBlocks
<1>8. Told(c, popped[key], {})
  <2>1. ASSUME NEW ended, NEW begun, NEW ended2, Told(buffer, ended, begun),
               ended \cup begun \subseteq ended2, e[1] \in ended2
        PROVE  Told(c, ended2, {})
    BY <1>1, <1>2, <1>3, <1>4, <2>1, ToldEntry
  <2>2. e[1] \in popped[key]
    BY <1>1, <1>3
  <2> QED BY <1>1, <1>7, <2>1, <2>2, Zenon
<1>9. DOMAIN m_MergeManager' = DOMAIN m_MergeManager
      /\ \A w \in DOMAIN m_MergeManager :
            m_MergeManager'[w] = IF w = key THEN c ELSE m_MergeManager[w]
  BY <1>5 DEF SetBuffer
<1>10. ToldAll'
  BY <1>1, <1>6, <1>8, <1>9, OthersTold
<1>11. StartNoted' /\ EntriesLocated(message)'
  BY DEF StartNoted, LInv
<1> QED BY <1>10, <1>11, LInvParts

LEMMA EmptyBlockLInv == ASSUME IInv, EInv, LInv, EmptyBlock PROVE LInv'
<1> USE DEF EmptyBlock
<1> DEFINE e == <<result.block_id, -1, 0, TRUE>>
<1>1. -1 \in Int /\ 0 \in Int
  OBVIOUS
<1>2. e[1] = result.block_id /\ e[2] = -1 /\ e[3] = 0
  OBVIOUS
<1> HIDE DEF e
<1>3. /\ Told(buffer, EndedBlocks(key), BegunBlocks(key)) /\ BegunBlocks(key) = {}
      /\ result.block_id \notin EndedBlocks(key)
  BY CurrentTold DEF BegunBlocks
<1>4. RowsOfEntry(buffer, e) = {}
  BY <1>2, <1>3 DEF RowsOfEntry, Told
<1>5. Located(buffer, e)
  BY <1>2, <1>4 DEF Located
<1>6. SetBuffer(AddEntry(buffer, -1, 0, TRUE))
  OBVIOUS
<1> QED BY <1>1, <1>5, <1>6, EndEntryLInv, Zenon DEF e

LEMMA EndBlockLInv == ASSUME IInv, EInv, LInv, EndBlock PROVE LInv'
<1> USE DEF EndBlock
<1> DEFINE size == buffer.length - block_start_offset
<1>1. /\ BufferOK(buffer) /\ buffer.length \in Nat /\ block_start_offset \in Nat
      /\ i \in Nat /\ result.rows \in Seq(Row) /\ Len(result.rows) \in Nat
  BY CurrentTold
<1>2. result.rows # <<>> /\ (WholeBlock \/ RestOfBlock)
  BY DEF LInv, StartNoted
<1>3. i > 1
  <2>1. Len(result.rows) # 0
    BY <1>1, <1>2, EmptySeq
  <2> QED BY <1>1, <2>1
<1>4. \/ Located(buffer, <<result.block_id, block_start_offset, size, TRUE>>)
      \/ /\ buffer.block_id_list = <<>>
         /\ Stale(buffer, <<result.block_id, block_start_offset, size, TRUE>>)
  <2>1. CASE WholeBlock
    BY <1>1, <1>3, <2>1, WholeLocated
  <2>2. CASE RestOfBlock
    BY <1>1, <1>3, <2>2, RestStale DEF RestOfBlock
  <2> QED BY <1>2, <2>1, <2>2
<1>5. size \in Int /\ block_start_offset \in Int
  BY <1>1
<1>6. SetBuffer(AddEntry(buffer, block_start_offset, size, TRUE))
  BY DEF EndEntry
<1> HIDE DEF size
<1> QED BY <1>4, <1>5, <1>6, EndEntryLInv
-----------------------------------------------------------------------------
(* Nothing of a block is in a buffer that is empty. *)
LEMMA EmptyRestFits ==
  ASSUME IInv, RowsFitTogether, UNCHANGED <<result, i>>,
         i \in 1 .. Len(result.rows) + 1, buffer'.length = 0
  PROVE  RestFits'
<1>1. PICK st \in [1 .. Len(result.rows) + 1 -> 0 .. MAX_SIZE] :
         \A k \in 1 .. Len(result.rows) : st[k + 1] = st[k] + result.rows[k].len
  BY DEF RowsFitTogether, RowsFit
<1>2. buffer'.length <= st[i]
  BY <1>1, SizeAssumption
<1> QED BY <1>1, <1>2 DEF RestFits

(* The buffer that was sent is empty, and what is left fits. *)
LEMMA SentLInv ==
  ASSUME IInv, EInv, LInv, pc \in {"first", "loop"}, pc' \in {"loop", "copy"},
         i <= Len(result.rows), block_start_offset > 0, i = 1 \/ pc' = "copy",
         UNCHANGED <<result, i, popped, block_start_offset>>,
         EntriesLocated(message'), NEW b, SetBuffer(InitBlockBuffer(b))
  PROVE  LInv'
<1>1. /\ key' = key /\ key \in DOMAIN m_MergeManager /\ i \in Nat \ {0} /\ Len(result.rows) \in Nat
      /\ result.rows \in Seq(Row)
  BY CurrentTold DEF key
<1>2. /\ InitBlockBuffer(b).rows = 0 /\ InitBlockBuffer(b).block_id_list = <<>>
      /\ InitBlockBuffer(b).length = 0
  BY DEF InitBlockBuffer, EmptyBuffer
<1>3. DOMAIN m_MergeManager' = DOMAIN m_MergeManager
      /\ \A w \in DOMAIN m_MergeManager :
            m_MergeManager'[w] = IF w = key THEN InitBlockBuffer(b) ELSE m_MergeManager[w]
  BY DEF SetBuffer
<1>4. buffer' = InitBlockBuffer(b)
  BY <1>1, <1>3 DEF buffer
<1>5. Told(m_MergeManager'[key], EndedBlocks(key)', BegunBlocks(key)')
  BY <1>1, <1>2, <1>3, ToldNothing
<1>6. ToldAll'
  BY <1>1, <1>3, <1>5, OthersTold
<1>7. RestFits'
  <2>1. i \in 1 .. Len(result.rows) + 1
    BY <1>1
  <2> QED BY <1>2, <1>4, <2>1, EmptyRestFits DEF EInv
<1>8. StartNoted'
  <2>1. RestOfBlock'
    <3>1. 1 .. InitBlockBuffer(b).rows = {}
      BY <1>2
    <3> QED BY <1>2, <1>4, <1>7, <3>1 DEF RestOfBlock
  <2>2. result'.rows # <<>>
    BY <1>1, EmptySeq
  <2> QED BY <2>1, <2>2 DEF StartNoted
<1> QED BY <1>6, <1>8, LInvParts

LEMMA SendBeforeBlockLInv == ASSUME IInv, EInv, LInv, SendBeforeBlock PROVE LInv'
<1> USE DEF SendBeforeBlock
<1>1. /\ buffer.length \in Nat /\ result.rows \in Seq(Row) /\ Len(result.rows) \in Nat
      /\ Told(buffer, EndedBlocks(key), BegunBlocks(key))
  BY CurrentTold
<1>2. i = 1 /\ i <= Len(result.rows) /\ i \in 1 .. Len(result.rows)
  <2>1. i = 1 /\ Len(result.rows) # 0
    BY <1>1, EmptySeq DEF IInv, AtPc
  <2> QED BY <1>1, <2>1
<1>3. block_start_offset > 0
  <2>1. block_start_offset = buffer.length
    BY DEF LInv, StartNoted
  <2>2. row.len \in 1 .. MAX_SIZE
    BY <1>2, CurrentType DEF Row
  <2>3. buffer.length + row.len > MAX_SIZE
    BY DEF Overflows
  <2> QED BY <1>1, <2>1, <2>2, <2>3, SizeAssumption
<1>4. EntriesLocated(message')
  BY <1>1 DEF Told, SendDataToBufferManager
<1> QED BY <1>2, <1>3, <1>4, SentLInv

(* Only the first part of a block is sent within it: it began in the buffer, *)
(* behind rows of other blocks.                                              *)
LEMMA SendWithinBlockLInv == ASSUME IInv, EInv, LInv, SendWithinBlock PROVE LInv'
<1> USE DEF SendWithinBlock
<1> DEFINE size == buffer.length - block_start_offset
           e == <<result.block_id, block_start_offset, size, FALSE>>
           c == AddEntry(buffer, block_start_offset, size, FALSE)
<1>1. /\ BufferOK(buffer) /\ buffer \in BlockBuffer /\ buffer.length \in Nat
      /\ buffer.block_id_list \in Seq(Entry)
      /\ block_start_offset \in Nat /\ i \in Nat \ {0} /\ result.block_id \in Nat
      /\ Told(buffer, EndedBlocks(key), BegunBlocks(key))
  BY CurrentTold
<1>2. ~ RestFits
  BY <1>1, RestNotSent
<1>3. WholeBlock /\ block_start_offset > 0 /\ i > 1
  <2>1. WholeBlock
    BY <1>2 DEF LInv, StartNoted, RestOfBlock
  <2>2. block_start_offset # 0 /\ i # 1
    BY <1>2, <2>1 DEF WholeBlock
  <2> QED BY <1>1, <2>1, <2>2
<1>4. Located(buffer, e)
  BY <1>1, <1>3, WholeLocated
<1>5. /\ c.rows = buffer.rows /\ c.row_offset = buffer.row_offset /\ c.data = buffer.data
      /\ c.block_id_list = Append(buffer.block_id_list, e)
  BY <1>1 DEF AddEntry, BlockBuffer
<1>6. e \in Entry
  <2>1. FALSE \in BOOLEAN /\ size \in Int /\ block_start_offset \in Int
    BY <1>1
  <2> QED BY <1>1, <2>1 DEF Entry
<1>7. message' = c /\ SetBuffer(InitBlockBuffer(c))
  BY DEF SplitEntry, SendDataToBufferManager
<1> HIDE DEF e, c
<1>8. EntriesLocated(c)
  BY <1>1, <1>4, <1>5, <1>6, EntryLocated DEF Told
<1> QED BY <1>3, <1>7, <1>8, SentLInv

LEMMA FirstRowFitsLInv == ASSUME IInv, EInv, LInv, FirstRowFits PROVE LInv'
<1> USE DEF FirstRowFits
<1>1. /\ key' = key /\ buffer' = buffer /\ row' = row
      /\ key \in DOMAIN m_MergeManager /\ buffer = m_MergeManager[key]
      /\ buffer.rows \in Nat /\ buffer.length \in Nat /\ Len(result.rows) \in Nat
      /\ Told(buffer, EndedBlocks(key), BegunBlocks(key))
      /\ result.block_id \notin EndedBlocks(key)
  BY CurrentTold DEF key, buffer, row
<1>2. i = 1 /\ block_start_offset = buffer.length
  BY DEF IInv, AtPc, LInv, StartNoted
<1>3. EndedBlocks(key)' = EndedBlocks(key) /\ BegunBlocks(key) = {}
  BY <1>1 DEF EndedBlocks, BegunBlocks
<1>4. Told(m_MergeManager'[key], EndedBlocks(key)', BegunBlocks(key)')
  BY <1>1, <1>3, ToldOfMore
<1>5. ToldAll'
  BY <1>1, <1>4, OthersTold
<1>6. \A k \in 1 .. buffer.rows : buffer.data[k].block # result.block_id
  BY <1>1, <1>3 DEF Told
<1>7. block_start_offset = 0 => RestFits'
  <2>1. i \in 1 .. Len(result.rows) + 1
    BY <1>1, <1>2
  <2> QED BY <1>1, <1>2, <2>1, EmptyRestFits DEF EInv
<1>8. ~ Overflows(buffer, row)'
  BY <1>1 DEF Overflows
<1>9. WholeBlock'
  <2> DEFINE p == buffer.rows
  <2>1. /\ p \in 0 .. buffer'.rows /\ buffer'.rows = p + (i' - 1)
        /\ \A k \in 1 .. buffer'.rows : buffer'.data[k].block = result'.block_id <=> k > p
        /\ p = buffer'.rows /\ block_start_offset' = buffer'.length
    BY <1>1, <1>2, <1>6
  <2> HIDE DEF p
  <2> QED BY <1>7, <1>8, <2>1 DEF WholeBlock
<1>10. StartNoted' /\ EntriesLocated(message)'
  BY <1>9 DEF StartNoted, LInv
<1> QED BY <1>5, <1>10, LInvParts

LEMMA RowFitsLInv == ASSUME IInv, EInv, LInv, RowFits PROVE LInv'
<1> USE DEF RowFits
<1>1. /\ key' = key /\ buffer' = buffer
      /\ key \in DOMAIN m_MergeManager /\ buffer = m_MergeManager[key]
      /\ Told(buffer, EndedBlocks(key), BegunBlocks(key))
  BY CurrentTold DEF key, buffer
<1>2. EndedBlocks(key)' = EndedBlocks(key) /\ BegunBlocks(key)' = BegunBlocks(key)
  BY <1>1 DEF EndedBlocks, BegunBlocks
<1>3. ToldAll'
  BY <1>1, <1>2, OthersTold
<1>4. RestFits => RestFits'
  BY <1>1 DEF RestFits
<1>5. WholeBlock => WholeBlock'
  BY <1>1, <1>4 DEF WholeBlock
<1>6. RestOfBlock => RestOfBlock'
  BY <1>1, <1>4 DEF RestOfBlock
<1>7. StartNoted' /\ EntriesLocated(message)'
  BY <1>5, <1>6 DEF StartNoted, LInv
<1> QED BY <1>3, <1>7, LInvParts
-----------------------------------------------------------------------------
LEMMA CopyNextRowLInv == ASSUME IInv, EInv, LInv, CopyNextRow PROVE LInv'
<1> USE DEF CopyNextRow
<1> DEFINE c == CopyRow(buffer, row)
<1>1. /\ key' = key /\ key \in DOMAIN m_MergeManager /\ buffer = m_MergeManager[key]
      /\ BufferOK(buffer) /\ buffer.rows \in Nat /\ i \in Nat \ {0} /\ Len(result.rows) \in Nat
      /\ result.rows \in Seq(Row)
      /\ Told(buffer, EndedBlocks(key), BegunBlocks(key))
      /\ result.block_id \notin EndedBlocks(key)
  BY CurrentTold DEF key, buffer
<1>2. i \in 1 .. Len(result.rows) /\ buffer.length + row.len <= MAX_SIZE
  BY <1>1 DEF IInv, AtPc
<1>3. row \in Row /\ row.block = result.block_id
  BY <1>2, CurrentType DEF row, LInv
<1>4. EndedBlocks(key)' = EndedBlocks(key) /\ BegunBlocks(key)' = BegunBlocks(key)
      /\ BegunBlocks(key) = {result.block_id}
  BY <1>1 DEF EndedBlocks, BegunBlocks
<1>5. Told(c, EndedBlocks(key), BegunBlocks(key))
  BY <1>1, <1>2, <1>3, <1>4, ToldRow
<1>6. /\ c.row_offset = Append(buffer.row_offset, buffer.length) /\ c.data = Append(buffer.data, row)
      /\ c.rows = buffer.rows + 1 /\ c.block_id_list = buffer.block_id_list
  BY DEF CopyRow
<1>7. SetBuffer(c)
  OBVIOUS
<1> HIDE DEF c
<1>8. DOMAIN m_MergeManager' = DOMAIN m_MergeManager
      /\ \A w \in DOMAIN m_MergeManager :
            m_MergeManager'[w] = IF w = key THEN c ELSE m_MergeManager[w]
  BY <1>7 DEF SetBuffer
<1>9. buffer' = c
  BY <1>1, <1>8 DEF buffer
<1>10. ToldAll'
  BY <1>1, <1>4, <1>5, <1>8, OthersTold
<1>11. RestFits => RestFits'
  BY CopyRestFits
<1>12. WholeBlock => WholeBlock'
  <2> SUFFICES ASSUME WholeBlock PROVE WholeBlock'
    OBVIOUS
  <2>1. PICK p \in 0 .. buffer.rows :
          /\ buffer.rows = p + (i - 1)
          /\ \A k \in 1 .. buffer.rows : buffer.data[k].block = result.block_id <=> k > p
          /\ block_start_offset = IF p = buffer.rows THEN buffer.length ELSE buffer.row_offset[p + 1]
          /\ block_start_offset = 0 => RestFits
    BY DEF WholeBlock
  <2>2. /\ buffer.row_offset \in Seq(Nat) /\ buffer.data \in Seq(Row) /\ buffer.length \in Nat
        /\ Len(buffer.row_offset) = buffer.rows /\ Len(buffer.data) = buffer.rows
    BY <1>1 DEF BufferOK, BlockBuffer, Cuts
  <2>3. /\ \A k \in 1 .. buffer.rows : c.row_offset[k] = buffer.row_offset[k]
                                       /\ c.data[k] = buffer.data[k]
        /\ c.data[c.rows] = row /\ c.row_offset[c.rows] = buffer.length
        /\ \A k \in 1 .. c.rows : k \in 1 .. buffer.rows \/ k = c.rows
    <3>1. /\ \A k \in 1 .. buffer.rows : c.row_offset[k] = buffer.row_offset[k]
          /\ c.row_offset[c.rows] = buffer.length
      BY <1>6, <2>2, AppendProperties
    <3>2. /\ \A k \in 1 .. buffer.rows : c.data[k] = buffer.data[k]
          /\ c.data[c.rows] = row
      BY <1>3, <1>6, <2>2, AppendProperties
    <3>3. \A k \in 1 .. c.rows : k \in 1 .. buffer.rows \/ k = c.rows
      BY <1>1, <1>6
    <3> QED BY <3>1, <3>2, <3>3
  <2>4. p \in 0 .. c.rows /\ p # c.rows /\ c.rows = p + ((i + 1) - 1)
    BY <1>1, <1>6, <2>1
  <2>5. \A k \in 1 .. c.rows : c.data[k].block = result.block_id <=> k > p
    <3>1. ASSUME NEW k \in 1 .. buffer.rows
          PROVE  c.data[k].block = result.block_id <=> k > p
      <4>1. c.data[k] = buffer.data[k]
        BY <2>3
      <4> QED BY <2>1, <4>1
    <3>2. c.data[c.rows].block = result.block_id
      BY <1>3, <2>3
    <3>3. c.rows > p
      BY <1>1, <1>6, <2>1
    <3> QED BY <2>3, <3>1, <3>2, <3>3
  <2>6. block_start_offset = c.row_offset[p + 1]
    <3>1. CASE p = buffer.rows
      BY <1>6, <2>1, <2>3, <3>1
    <3>2. CASE p # buffer.rows
      <4>1. p + 1 \in 1 .. buffer.rows
        BY <1>1, <2>1, <3>2
      <4> QED BY <2>1, <2>3, <3>2, <4>1
    <3> QED BY <3>1, <3>2
  <2>7. block_start_offset = 0 => RestFits'
    BY <1>11, <2>1
  <2> QED BY <1>9, <2>4, <2>5, <2>6, <2>7 DEF WholeBlock
<1>13. RestOfBlock => RestOfBlock'
  <2> SUFFICES ASSUME RestOfBlock PROVE RestOfBlock'
    OBVIOUS
  <2>1. buffer.data \in Seq(Row) /\ Len(buffer.data) = buffer.rows
    BY <1>1 DEF BufferOK, BlockBuffer, Cuts
  <2>2. /\ \A k \in 1 .. buffer.rows : c.data[k] = buffer.data[k]
        /\ c.data[c.rows] = row
        /\ \A k \in 1 .. c.rows : k \in 1 .. buffer.rows \/ k = c.rows
    BY <1>1, <1>3, <1>6, <2>1, AppendProperties
  <2>3. \A k \in 1 .. c.rows : c.data[k].block = result.block_id
    BY <1>3, <2>2 DEF RestOfBlock
  <2>4. c.rows > 0
    BY <1>1, <1>6
  <2> QED BY <1>6, <1>9, <1>11, <2>3, <2>4 DEF RestOfBlock
<1>14. StartNoted' /\ EntriesLocated(message)'
  BY <1>12, <1>13 DEF StartNoted, LInv
<1> QED BY <1>10, <1>14, LInvParts

LEMMA CountBlockLInv == ASSUME IInv, EInv, LInv, CountBlock PROVE LInv'
<1> USE DEF CountBlock
<1> DEFINE c == [buffer EXCEPT !.block_count = @ + 1]
<1>1. /\ key' = key /\ key \in DOMAIN m_MergeManager /\ buffer = m_MergeManager[key]
      /\ buffer \in BlockBuffer
      /\ Told(buffer, EndedBlocks(key), BegunBlocks(key))
  BY CurrentTold DEF key, buffer
<1>2. EndedBlocks(key)' = EndedBlocks(key) /\ BegunBlocks(key)' = BegunBlocks(key)
  BY <1>1 DEF EndedBlocks, BegunBlocks
<1>3. /\ c.rows = buffer.rows /\ c.row_offset = buffer.row_offset /\ c.data = buffer.data
      /\ c.block_id_list = buffer.block_id_list
  BY <1>1 DEF BlockBuffer
<1>4. SetBuffer(c)
  OBVIOUS
<1> HIDE DEF c
<1>5. Told(c, EndedBlocks(key), BegunBlocks(key))
  BY <1>1, <1>3, SameTold
<1>6. DOMAIN m_MergeManager' = DOMAIN m_MergeManager
      /\ \A w \in DOMAIN m_MergeManager :
            m_MergeManager'[w] = IF w = key THEN c ELSE m_MergeManager[w]
  BY <1>4 DEF SetBuffer
<1>7. ToldAll'
  BY <1>1, <1>2, <1>5, <1>6, OthersTold
<1>8. StartNoted' /\ EntriesLocated(message)'
  BY DEF StartNoted, LInv
<1> QED BY <1>7, <1>8, LInvParts

LEMMA FinishWorkLInv == ASSUME IInv, EInv, LInv, FinishWork PROVE LInv'
<1> USE DEF FinishWork
<1> DEFINE c == [buffer EXCEPT !.block_count = @ + 1]
<1>1. /\ buffer \in BlockBuffer /\ Told(buffer, EndedBlocks(key), BegunBlocks(key))
  BY CurrentTold
<1>2. /\ c.rows = buffer.rows /\ c.row_offset = buffer.row_offset /\ c.data = buffer.data
      /\ c.block_id_list = buffer.block_id_list
  BY <1>1 DEF BlockBuffer
<1>3. message' = c
  BY DEF SendDataToBufferManager
<1> HIDE DEF c
<1>4. Told(c, EndedBlocks(key), BegunBlocks(key))
  BY <1>1, <1>2, SameTold
<1>5. EntriesLocated(message)'
  BY <1>3, <1>4 DEF Told
<1>6. ToldAll'
  BY OthersTold
<1>7. StartNoted'
  BY DEF StartNoted
<1> QED BY <1>5, <1>6, <1>7, LInvParts

LEMMA NextLInv == IInv /\ EInv /\ LInv /\ [Next]_vars => LInv'
<1> SUFFICES ASSUME IInv, EInv, LInv, [Next]_vars PROVE LInv'
  OBVIOUS
<1>1. CASE UNCHANGED vars
  <2> USE <1>1 DEF vars
  <2>1. key' = key /\ buffer' = buffer /\ row' = row
    BY DEF key, buffer, row
  <2>2. \A w : EndedBlocks(w)' = EndedBlocks(w) /\ BegunBlocks(w)' = BegunBlocks(w)
    BY <2>1 DEF EndedBlocks, BegunBlocks
  <2>3. ToldAll'
    BY <2>2 DEF ToldAll, LInv
  <2>4. RestFits' <=> RestFits
    BY <2>1 DEF RestFits
  <2>5. (WholeBlock => WholeBlock') /\ (RestOfBlock => RestOfBlock')
    BY <2>1, <2>4 DEF WholeBlock, RestOfBlock, Overflows
  <2>6. StartNoted' /\ EntriesLocated(message)'
    BY <2>1, <2>5 DEF StartNoted, LInv
  <2> QED BY <2>3, <2>6, LInvParts
<1>2. CASE Next
  BY <1>2, PopResultLInv, BeginBlockLInv, EmptyBlockLInv, SendBeforeBlockLInv, FirstRowFitsLInv,
     RowFitsLInv, SendWithinBlockLInv, CopyNextRowLInv, EndBlockLInv, CountBlockLInv,
     FinishWorkLInv DEF Next, MergeBlock
<1> QED BY <1>1, <1>2

(* Every entry of every message but the first locates its block's rows, and *)
(* so does the first unless MergeBlock noted its start before it sent the   *)
(* buffer before: then the block's rows are the first in the message, and   *)
(* the entry's start is too large and its size too small by the same.       *)
THEOREM EntriesLocateCorrect == Spec => []OnlyFirstEntryStale
<1>1. IInv /\ EInv /\ LInv /\ [Next]_vars => (IInv /\ EInv /\ LInv)'
  BY NextIInv, NextEInv, NextLInv
<1>2. IInv /\ LInv => OnlyFirstEntryStale
  <2> SUFFICES ASSUME IInv, LInv PROVE OnlyFirstEntryStale
    OBVIOUS
  <2>1. message.rows \in Nat
    BY DEF IInv, BuffersOK, BlockBuffer
  <2> SUFFICES ASSUME NEW k \in 1 .. Len(message.block_id_list)
               PROVE  \/ Locates(message, message.block_id_list[k])
                      \/ k = 1 /\ StartsStale(message, message.block_id_list[k])
    BY DEF OnlyFirstEntryStale
  <2> DEFINE e == message.block_id_list[k]
  <2>2. Located(message, e) \/ (k = 1 /\ Stale(message, e))
    BY DEF LInv, EntriesLocated
  <2> HIDE DEF e
  <2>3. Located(message, e) => Locates(message, e)
    BY <2>1, LocatedLocates
  <2>4. Stale(message, e) => StartsStale(message, e)
    BY <2>1, StaleStarts
  <2> QED BY <2>2, <2>3, <2>4 DEF e
<1> QED BY <1>1, <1>2, InitIInv, InitEInv, InitLInv, PTL DEF Spec
=============================================================================
