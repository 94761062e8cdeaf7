------------------------- MODULE InputReceiverProofs -------------------------
(***************************************************************************)
(* Proofs about InputReceiver, for any peers, text lengths, buffer sizes   *)
(* and widths of size_t.  ParsesWholeText is not inductive: the loop ends  *)
(* when length is 0, so that length must be known to be what is missing of *)
(* the text, which the bound on a text's length keeps from wrapping        *)
(* around.  QueuedInOrder needs that each connection that ended well has   *)
(* put one snippet into ScanQueue, and each that did not ended the thread. *)
(***************************************************************************)
EXTENDS InputReceiver, SequenceTheorems, TLAPS

\* Once the first read brought the whole length, the loop counts down to the end.
LengthIsMissing ==
    pc \in {"body", "parse"} /\ header = HeaderSize =>
        /\ length = Total(current) - got
        /\ pc = "parse" => length = 0

OneSnippetEach == Len(ScanQueue) = IF pc = "accept" THEN accepted ELSE accepted - 1

IInv == TypeOK /\ LengthIsMissing /\ OneSnippetEach /\ QueuedInOrder

-----------------------------------------------------------------------------
(* Arithmetic of size_t. *)
LEMMA WrapType ==
  ASSUME NEW x \in Int
  PROVE  x % Width \in 0 .. Width - 1
  BY SizesAssumption

LEMMA NoWrap ==
  ASSUME NEW x \in 0 .. Width - 1
  PROVE  x % Width = x
  BY SizesAssumption

(* A peer sends more than the header, and less than wraps around. *)
LEMMA TotalType ==
  ASSUME NEW p \in Peers
  PROVE  /\ BodySize[p] \in 1 .. Width - 1
         /\ Total(p) \in Nat
         /\ Total(p) - HeaderSize = BodySize[p]
  BY SizesAssumption DEF Total

(* The connection that is served is that of a peer. *)
LEMMA CurrentType ==
  ASSUME TypeOK, accepted > 0
  PROVE  /\ accepted \in 1 .. Len(connected)
         /\ current \in Peers
         /\ sent[current] \in Nat
         /\ got <= sent[current]
         /\ sent[current] <= Total(current)
<1>1. accepted \in 1 .. Len(connected)
  BY LenProperties DEF TypeOK
<1>2. current \in Peers
  BY <1>1, ElementOfSeq DEF TypeOK, current
<1> QED BY <1>1, <1>2 DEF TypeOK

LEMMA InitIInv == Init => IInv
<1> SUFFICES ASSUME Init PROVE IInv
  OBVIOUS
<1> USE SizesAssumption DEF Init
<1>1. /\ <<>> \in Seq(Peers)
      /\ Len(<<>>) = 0
  BY EmptySeq
<1>2. TypeOK
  BY <1>1, TotalType DEF TypeOK
<1>3. LengthIsMissing /\ OneSnippetEach
  BY <1>1 DEF LengthIsMissing, OneSnippetEach
<1>4. QueuedInOrder
  BY <1>1 DEF QueuedInOrder
<1> QED BY <1>2, <1>3, <1>4 DEF IInv

-----------------------------------------------------------------------------
(* A peer's step leaves the thread's side alone: a connection comes behind  *)
(* those that were accepted, and bytes only become more.                    *)
LEMMA PeerIInv ==
  ASSUME IInv, NEW p \in Peers, Peer(p)
  PROVE  IInv'
<1>1. /\ accepted' = accepted /\ pc' = pc /\ length' = length /\ header' = header
      /\ got' = got /\ ScanQueue' = ScanQueue
  BY DEF Peer, Connect, Arrive, Close, Reset, threadVars
<1>2. /\ connected' \in Seq(Peers)
      /\ Len(connected) \in Nat
      /\ Len(connected) <= Len(connected')
      /\ \A k \in 1 .. Len(connected) : connected'[k] = connected[k]
  <2>1. CASE Connect(p)
    <3>1. connected' = Append(connected, p)
      BY <2>1 DEF Connect
    <3> QED BY <3>1, AppendProperties, LenProperties DEF IInv, TypeOK
  <2>2. CASE Arrive(p) \/ Close(p) \/ Reset(p)
    <3>1. connected' = connected
      BY <2>2 DEF Arrive, Close, Reset
    <3> QED BY <3>1, LenProperties DEF IInv, TypeOK
  <2> QED BY <2>1, <2>2 DEF Peer
<1>3. accepted > 0 => current' = current
  BY <1>1, <1>2, CurrentType DEF IInv, current
<1>4. TypeOK'
  <2>1. /\ sent' \in [Peers -> Nat]
        /\ \A q \in Peers : sent[q] <= sent'[q] /\ sent'[q] <= Total(q)
        /\ status' \in [Peers -> {"away", "open", "closed", "reset"}]
    <3>1. CASE Arrive(p)
      <4>1. sent[p] + 1 <= Total(p)
        BY <3>1, TotalType DEF IInv, TypeOK, Arrive
      <4> QED BY <3>1, <4>1 DEF IInv, TypeOK, Arrive
    <3>2. CASE Connect(p) \/ Close(p) \/ Reset(p)
      <4>1. sent' = sent
        BY <3>2 DEF Connect, Close, Reset
      <4>2. status' \in [Peers -> {"away", "open", "closed", "reset"}]
        BY <3>2 DEF IInv, TypeOK, Connect, Close, Reset
      <4> QED BY <4>1, <4>2 DEF IInv, TypeOK
    <3> QED BY <3>1, <3>2 DEF Peer
  <2>2. accepted > 0 => got <= sent'[current]
    <3>1. ASSUME accepted > 0
          PROVE  current \in Peers /\ got \in Nat /\ got <= sent[current] /\ sent \in [Peers -> Nat]
      BY <3>1, CurrentType DEF IInv, TypeOK
    <3>2. ASSUME accepted > 0 PROVE sent[current] <= sent'[current]
      BY <2>1, <3>1, <3>2
    <3>3. ASSUME accepted > 0 PROVE sent[current] \in Nat /\ sent'[current] \in Nat
      BY <2>1, <3>1, <3>3
    <3> QED BY <3>1, <3>2, <3>3
  <2>3. accepted \in 0 .. Len(connected')
    BY <1>2, LenProperties DEF IInv, TypeOK
  <2> QED BY <1>1, <1>2, <1>3, <2>1, <2>2, <2>3 DEF IInv, TypeOK
<1>5. LengthIsMissing' /\ OneSnippetEach'
  BY <1>1, <1>3 DEF IInv, TypeOK, LengthIsMissing, OneSnippetEach, Total
<1>6. QueuedInOrder'
  <2>1. DOMAIN ScanQueue = 1 .. Len(ScanQueue) /\ Len(ScanQueue) \in Nat
    BY LenProperties DEF IInv, TypeOK
  <2>2. \A k \in DOMAIN ScanQueue : k \in 1 .. Len(connected)
    BY <1>2, <2>1 DEF IInv, TypeOK, QueuedInOrder
  <2> QED BY <1>1, <1>2, <2>2 DEF IInv, QueuedInOrder
<1> QED BY <1>4, <1>5, <1>6 DEF IInv

-----------------------------------------------------------------------------
(* The next connection is accepted: nothing of it has been read. *)
LEMMA AcceptIInv == ASSUME IInv, Accept PROVE IInv'
<1> USE DEF Accept
<1>1. /\ accepted \in Nat /\ Len(connected) \in Nat
      /\ accepted' \in 1 .. Len(connected) /\ connected' = connected
  BY LenProperties DEF IInv, TypeOK
<1>2. current' \in Peers
  BY <1>1, ElementOfSeq DEF IInv, TypeOK, current
<1>3. TypeOK'
  BY <1>1, <1>2, SizesAssumption DEF IInv, TypeOK
<1>4. LengthIsMissing' /\ OneSnippetEach'
  BY <1>1 DEF IInv, LengthIsMissing, OneSnippetEach
<1>5. QueuedInOrder'
  BY <1>1, LenProperties DEF IInv, TypeOK, QueuedInOrder
<1> QED BY <1>3, <1>4, <1>5 DEF IInv

(* The first read: only if it brought the whole length is length known. *)
LEMMA AnnounceIInv ==
  ASSUME IInv, pc = "header", NEW n \in 0 .. HeaderSize, Announce(n),
         connected' = connected, accepted' = accepted, ScanQueue' = ScanQueue,
         status' \in [Peers -> {"away", "open", "closed", "reset"}],
         sent' \in [Peers -> Nat],
         \A q \in Peers : sent'[q] <= Total(q),
         n <= sent'[current]
  PROVE  IInv'
<1> USE DEF Announce
<1>1. accepted > 0 /\ current \in Peers /\ current' = current
  BY CurrentType DEF IInv, TypeOK, current
<1>2. /\ BodySize[current] \in 0 .. Width - 1
      /\ Total(current) - HeaderSize = BodySize[current]
      /\ n \in Nat
  BY <1>1, TotalType, SizesAssumption
<1>3. length' \in 0 .. Width - 1
  BY <1>2
<1>4. TypeOK'
  BY <1>1, <1>2, <1>3 DEF IInv, TypeOK
<1>5. LengthIsMissing'
  BY <1>1, <1>2 DEF LengthIsMissing, Total
<1>6. OneSnippetEach' /\ QueuedInOrder'
  BY DEF IInv, OneSnippetEach, QueuedInOrder
<1> QED BY <1>4, <1>5, <1>6 DEF IInv

LEMMA ReadHeaderIInv == ASSUME IInv, ReadHeader PROVE IInv'
<1>1. PICK n \in 1 .. HeaderSize : n <= Unread /\ Announce(n)
  BY DEF ReadHeader
<1>2. n \in 0 .. HeaderSize
  BY SizesAssumption
<1>3. pc = "header" /\ accepted > 0
  BY DEF ReadHeader, IInv, TypeOK
<1>4. n <= sent[current]
  BY <1>1, <1>3, CurrentType DEF Unread, IInv, TypeOK
<1>5. /\ connected' = connected /\ accepted' = accepted /\ ScanQueue' = ScanQueue
      /\ status' = status /\ sent' = sent
  BY DEF ReadHeader
<1> QED BY <1>1, <1>2, <1>3, <1>4, <1>5, AnnounceIInv DEF IInv, TypeOK

LEMMA ReadNoHeaderIInv == ASSUME IInv, ReadNoHeader PROVE IInv'
<1>1. pc = "header" /\ accepted > 0
  BY DEF ReadNoHeader, IInv, TypeOK
<1>2. current \in Peers
  BY <1>1, CurrentType DEF IInv
<1>3. /\ connected' = connected /\ accepted' = accepted /\ ScanQueue' = ScanQueue
      /\ Announce(0) /\ 0 \in 0 .. HeaderSize
  BY SizesAssumption DEF ReadNoHeader
<1>4. /\ status' \in [Peers -> {"away", "open", "closed", "reset"}]
      /\ sent' \in [Peers -> Nat]
      /\ \A q \in Peers : sent'[q] <= Total(q)
  <2>1. CASE status' = status /\ sent' = sent
    BY <2>1 DEF IInv, TypeOK
  <2>2. CASE /\ status' = [status EXCEPT ![current] = "closed"]
             /\ sent' = [sent EXCEPT ![current] = 0]
    <3>1. 0 <= Total(current)
      BY <1>2, TotalType
    <3> QED BY <1>2, <2>2, <3>1 DEF IInv, TypeOK
  <2> QED BY <2>1, <2>2 DEF ReadNoHeader
<1>5. 0 <= sent'[current]
  BY <1>2, <1>4
<1> QED BY <1>1, <1>3, <1>4, <1>5, AnnounceIInv

(* A read in the loop: it never brings more than is missing, so that length *)
(* does not wrap around, and 0 is left exactly at the end of the text.      *)
LEMMA ReadBodyIInv == ASSUME IInv, ReadBody PROVE IInv'
<1>1. PICK n \in 0 .. BufSize - 1 :
         /\ n <= Unread
         /\ length' = Remaining(n)
         /\ got' = got + n
         /\ pc' = IF LastRead(n) THEN "parse" ELSE "body"
  BY DEF ReadBody
<1>2. /\ pc = "body" /\ connected' = connected /\ status' = status /\ sent' = sent
      /\ accepted' = accepted /\ header' = header /\ ScanQueue' = ScanQueue
  BY DEF ReadBody
<1>3. /\ accepted > 0 /\ current \in Peers /\ current' = current
      /\ sent[current] \in Nat /\ sent[current] <= Total(current) /\ got <= sent[current]
  BY <1>2, CurrentType DEF IInv, TypeOK, current
<1>4. /\ n \in Nat /\ got \in Nat /\ length \in 0 .. Width - 1 /\ Width \in Nat
      /\ Total(current) \in Nat
  BY <1>3, TotalType, SizesAssumption DEF IInv, TypeOK
<1>5. got + n <= sent[current]
  BY <1>1, <1>3, <1>4 DEF Unread
<1>6. length' \in 0 .. Width - 1
  BY <1>1, <1>4, WrapType DEF Remaining
<1>7. TypeOK'
  BY <1>1, <1>2, <1>3, <1>4, <1>5, <1>6 DEF IInv, TypeOK
<1>8. LengthIsMissing'
  <2> SUFFICES ASSUME header = HeaderSize
               PROVE  /\ length' = Total(current) - (got + n)
                      /\ LastRead(n) => length' = 0
    BY <1>1, <1>2, <1>3 DEF LengthIsMissing, Total
  <2>1. length = Total(current) - got
    BY <1>2 DEF IInv, LengthIsMissing
  <2>2. length - n \in 0 .. Width - 1
    BY <1>3, <1>4, <1>5, <2>1
  <2>3. Remaining(n) = length - n
    BY <2>2, NoWrap DEF Remaining
  <2> QED BY <1>1, <1>4, <2>1, <2>3 DEF LastRead
<1>9. OneSnippetEach' /\ QueuedInOrder'
  BY <1>1, <1>2 DEF IInv, OneSnippetEach, QueuedInOrder
<1> QED BY <1>7, <1>8, <1>9 DEF IInv

(* The thread ends at a connection whose snippet is not queued. *)
LEMMA FailsIInv == ASSUME IInv, ReadFails \/ ParseFails PROVE IInv'
<1> USE DEF ReadFails, ParseFails, Aborted
<1>1. /\ pc \in {"body", "parse"} /\ pc' = "dead"
      /\ connected' = connected /\ status' = status /\ sent' = sent
      /\ accepted' = accepted /\ length' = length /\ header' = header /\ got' = got
      /\ ScanQueue' = ScanQueue
  OBVIOUS
<1>2. TypeOK' /\ LengthIsMissing' /\ OneSnippetEach' /\ QueuedInOrder'
  BY <1>1 DEF IInv, TypeOK, LengthIsMissing, OneSnippetEach, QueuedInOrder, current
<1> QED BY <1>2 DEF IInv

(* A snippet is put behind those of the connections before its own. *)
LEMMA ParseSnippetIInv == ASSUME IInv, ParseSnippet PROVE IInv'
<1> USE DEF ParseSnippet
<1>1. /\ pc = "parse" /\ pc' = "accept" /\ accepted \in Nat /\ accepted > 0
      /\ connected' = connected /\ status' = status /\ sent' = sent
      /\ accepted' = accepted /\ length' = length /\ header' = header /\ got' = got
  BY LenProperties DEF IInv, TypeOK
<1>2. current \in Peers
  BY <1>1, CurrentType DEF IInv
<1>3. /\ ScanQueue \in Seq(Peers) /\ Len(ScanQueue) = accepted - 1
      /\ DOMAIN ScanQueue = 1 .. Len(ScanQueue)
  BY <1>1, LenProperties DEF IInv, TypeOK, OneSnippetEach
<1>4. /\ ScanQueue' \in Seq(Peers) /\ Len(ScanQueue') = accepted
      /\ DOMAIN ScanQueue' = 1 .. accepted
      /\ \A k \in 1 .. accepted - 1 : ScanQueue'[k] = ScanQueue[k]
      /\ ScanQueue'[accepted] = current
  BY <1>1, <1>2, <1>3, AppendProperties, LenProperties
<1>5. TypeOK' /\ LengthIsMissing' /\ OneSnippetEach'
  BY <1>1, <1>4 DEF IInv, TypeOK, LengthIsMissing, OneSnippetEach, current
<1>6. QueuedInOrder'
  <2> SUFFICES ASSUME NEW k \in 1 .. accepted PROVE ScanQueue'[k] = connected[k]
    BY <1>1, <1>4 DEF QueuedInOrder
  <2>1. CASE k = accepted
    BY <1>4, <2>1 DEF current
  <2>2. CASE k # accepted
    BY <1>1, <1>3, <1>4, <2>2 DEF IInv, QueuedInOrder
  <2> QED BY <2>1, <2>2
<1> QED BY <1>5, <1>6 DEF IInv

-----------------------------------------------------------------------------
LEMMA NextIInv == IInv /\ [Next]_vars => IInv'
<1> SUFFICES ASSUME IInv, [Next]_vars PROVE IInv'
  OBVIOUS
<1>1. CASE UNCHANGED vars
  BY <1>1 DEF vars, IInv, TypeOK, LengthIsMissing, OneSnippetEach, QueuedInOrder, current
<1>2. CASE Next
  BY <1>2, AcceptIInv, ReadHeaderIInv, ReadNoHeaderIInv, ReadBodyIInv, FailsIInv,
     ParseSnippetIInv, PeerIInv DEF Next, InputSnippet
<1> QED BY <1>1, <1>2

LEMMA InductiveInvariant == Spec => []IInv
  BY InitIInv, NextIInv, PTL DEF Spec

(* The thread never reads beyond what has arrived, and its length stays a   *)
(* size_t, also when a first read left it indeterminate.                    *)
THEOREM TypeCorrect == Spec => []TypeOK
  BY InductiveInvariant, PTL DEF IInv

(* A text whose length came in one read is parsed when it is whole, however *)
(* long it is and however TCP cuts it.                                      *)
THEOREM WholeTextCorrect == Spec => []ParsesWholeText
<1>1. IInv => ParsesWholeText
  <2> SUFFICES ASSUME IInv, pc = "parse", header = HeaderSize PROVE IsWhole
    BY DEF ParsesWholeText
  <2>1. Total(current) - got = 0
    BY DEF IInv, LengthIsMissing
  <2>2. Total(current) \in Nat /\ got \in Nat
    BY CurrentType, TotalType DEF IInv, TypeOK
  <2> QED BY <2>1, <2>2 DEF IsWhole
<1> QED BY <1>1, InductiveInvariant, PTL

(* Whatever connections fail, the k-th snippet in ScanQueue is the one of   *)
(* the k-th connection.                                                     *)
THEOREM OrderCorrect == Spec => []QueuedInOrder
  BY InductiveInvariant, PTL DEF IInv
=============================================================================
