--------------------------- MODULE PipelineProofs ---------------------------
(***************************************************************************)
(* Proofs about Pipeline, for every set of snippets and any number of      *)
(* filters.                                                                *)
(*                                                                         *)
(* Nothing in a result says which snippet it belongs to but the work id,   *)
(* and ids are used again.  The invariant therefore says of each work id   *)
(* that it is either free (as many answers as snippets, and nothing of it  *)
(* on its way) or busy with one snippet, the last accepted: then each of   *)
(* its blocks is on its way exactly once, and all that carries the id also *)
(* carries the number of blocks of that snippet.                           *)
(*                                                                         *)
(* A second invariant, OInv, is about order: ScanQueue and FilterQueue     *)
(* hold the blocks in the order of acceptance, and behind a result in      *)
(* MergeQueue there are, with those in the filters, fewer blocks of        *)
(* earlier snippets than there are filters.                                *)
(***************************************************************************)
EXTENDS Pipeline, SequenceTheorems, FiniteSetTheorems, TLAPS

\* In how many places on the way to an answer a block is.
OnTheWay(w, b) ==
    Cardinality(Waiting(w, b)) + Cardinality(InScan(w, b))
      + Cardinality(In(FilterQueue, w, b)) + Cardinality(InFilter(w, b))
      + Cardinality(In(MergeQueue, w, b)) + Cardinality(InBuffer(w, b))

\* All that carries the work id w comes from a snippet with n blocks.
TotalIs(w, n) ==
    /\ \A i \in DOMAIN ScanQueue :
          ScanQueue[i].work_id = w /\ ScanQueue[i].blocks # <<>> => Len(ScanQueue[i].blocks) = n
    /\ scanning # Idle =>
          (scanning.work_id = w /\ next_block <= Len(scanning.blocks) => Len(scanning.blocks) = n)
    /\ \A i \in DOMAIN FilterQueue :
          FilterQueue[i].work_id = w => FilterQueue[i].total_block_count = n
    /\ \A f \in Filters :
          filtering[f] # Idle => (filtering[f].work_id = w => filtering[f].total_block_count = n)
    /\ \A i \in DOMAIN MergeQueue :
          MergeQueue[i].work_id = w => MergeQueue[i].total_block_count = n
    /\ w \in DOMAIN m_MergeManager => m_MergeManager[w].total_block_count = n

\* The snippets with blocks that bear this id.
WorksOf(w) == S!WorksUpTo(Len(accepted), w)

\* Every snippet with this id is answered, and nothing of them is left behind.
Free(w) ==
    /\ Cardinality(WorksOf(w)) = Cardinality(S!AnswersTo(w))
    /\ \A b \in BlockIds : OnTheWay(w, b) = 0

\* The n-th snippet, the last with this id, is the only one without an answer.
Busy(w, n) ==
    /\ n \in WorksOf(w)
    /\ S!WorksUpTo(n, w) = WorksOf(w)
    /\ Cardinality(WorksOf(w)) = Cardinality(S!AnswersTo(w)) + 1
    /\ \A b \in BlockIds : OnTheWay(w, b) = IF b \in BlocksOf(accepted[n]) THEN 1 ELSE 0
    /\ TotalIs(w, Len(accepted[n].blocks))

AcceptedOnce == NoneTwice(accepted)

BufferCounts ==
    \A w \in DOMAIN m_MergeManager :
       m_MergeManager[w].block_count = Cardinality(m_MergeManager[w].blocks)

WorksOK == \A w \in WorkIds : Free(w) \/ \E n \in DOMAIN accepted : Busy(w, n)

IInv == TypeOK /\ AcceptedOnce /\ BufferCounts /\ WorksOK /\ BlocksAccounted
-----------------------------------------------------------------------------
(* How many items of a queue are in a set. *)
Matching(q, M) == {i \in DOMAIN q : q[i] \in M}

LEMMA MatchingFinite ==
  ASSUME NEW T, NEW q \in Seq(T), NEW M
  PROVE  IsFiniteSet(Matching(q, M)) /\ Cardinality(Matching(q, M)) \in Nat
<1>1. DOMAIN q = 1 .. Len(q) /\ Len(q) \in Nat
  BY LenProperties
<1>2. IsFiniteSet(1 .. Len(q))
  BY <1>1, FS_Interval
<1>3. IsFiniteSet(Matching(q, M))
  BY <1>1, <1>2, FS_Subset DEF Matching
<1> QED BY <1>3, FS_CardinalityType

LEMMA PushMatching ==
  ASSUME NEW T, NEW q \in Seq(T), NEW x \in T, NEW M
  PROVE  Cardinality(Matching(Append(q, x), M))
            = Cardinality(Matching(q, M)) + IF x \in M THEN 1 ELSE 0
<1> DEFINE p == Append(q, x)
<1>1. /\ DOMAIN q = 1 .. Len(q) /\ Len(q) \in Nat
      /\ DOMAIN p = 1 .. Len(q) + 1 /\ p[Len(q) + 1] = x
      /\ \A k \in 1 .. Len(q) : p[k] = q[k]
  BY AppendProperties, LenProperties
<1> HIDE DEF p
<1>2. Matching(p, M) = IF x \in M THEN Matching(q, M) \cup {Len(q) + 1} ELSE Matching(q, M)
  BY <1>1 DEF Matching
<1>3. Len(q) + 1 \notin Matching(q, M)
  BY <1>1 DEF Matching
<1>4. IsFiniteSet(Matching(q, M)) /\ Cardinality(Matching(q, M)) \in Nat
  BY MatchingFinite
<1>5. CASE x \in M
  <2>1. Cardinality(Matching(q, M) \cup {Len(q) + 1}) = Cardinality(Matching(q, M)) + 1
    BY <1>3, <1>4, FS_AddElement
  <2> QED BY <1>2, <1>5, <2>1 DEF p
<1>6. CASE x \notin M
  BY <1>2, <1>4, <1>6 DEF p
<1> QED BY <1>5, <1>6

LEMMA PopMatching ==
  ASSUME NEW T, NEW q \in Seq(T), q # <<>>, NEW M
  PROVE  Cardinality(Matching(q, M))
            = Cardinality(Matching(Tail(q), M)) + IF Head(q) \in M THEN 1 ELSE 0
<1> DEFINE p == Tail(q)
           rest == Matching(q, M) \ {1}
           shift == [k \in Matching(p, M) |-> k + 1]
<1>1. /\ DOMAIN q = 1 .. Len(q) /\ Len(q) \in Nat \ {0} /\ Head(q) = q[1]
      /\ p \in Seq(T) /\ DOMAIN p = 1 .. Len(q) - 1
      /\ \A k \in 1 .. Len(q) - 1 : p[k] = q[k + 1]
  BY HeadTailProperties, LenProperties, EmptySeq
<1> HIDE DEF p
<1>2. \A k : k \in Matching(p, M) <=> k \in 1 .. Len(q) - 1 /\ q[k + 1] \in M
  BY <1>1 DEF Matching
<1>3. \A k : k \in rest <=> k \in 2 .. Len(q) /\ q[k] \in M
  BY <1>1 DEF Matching
<1>4. shift \in [Matching(p, M) -> rest]
  BY <1>1, <1>2, <1>3
<1>5. \A k \in rest : k - 1 \in Matching(p, M) /\ (k - 1) + 1 = k
  BY <1>1, <1>2, <1>3
<1>6. shift \in Surjection(Matching(p, M), rest)
  BY <1>4, <1>5 DEF Surjection
<1>7. shift \in Injection(Matching(p, M), rest)
  <2>1. \A k \in Matching(p, M) : k \in Nat
    BY <1>1, <1>2
  <2> QED BY <1>4, <2>1 DEF Injection, IsInjective
<1>8. IsFiniteSet(Matching(p, M)) /\ Cardinality(Matching(p, M)) \in Nat
  BY <1>1, MatchingFinite
<1> HIDE DEF shift, rest
<1>9. IsFiniteSet(rest) /\ Cardinality(rest) = Cardinality(Matching(p, M))
  BY <1>6, <1>7, <1>8, FS_Surjection
<1>10. IF q[1] \in M THEN 1 \notin rest /\ Matching(q, M) = rest \cup {1}
                     ELSE Matching(q, M) = rest
  BY <1>1 DEF Matching, rest
<1> QED BY <1>1, <1>8, <1>9, <1>10, FS_AddElement DEF p

(* Adding one thing to a finite set, or taking one away. *)
LEMMA OneMore ==
  ASSUME NEW A, IsFiniteSet(A), NEW B, NEW x, x \notin A, B = A \cup {x}
  PROVE  IsFiniteSet(B) /\ Cardinality(A) \in Nat /\ Cardinality(B) = Cardinality(A) + 1
  BY FS_AddElement, FS_CardinalityType

LEMMA SingletonCount ==
  ASSUME NEW x
  PROVE  Cardinality({x}) = 1 /\ Cardinality({}) = 0
  BY FS_Singleton, FS_EmptySet
-----------------------------------------------------------------------------
(* What the host's snippets are like. *)
LEMMA SnippetFacts ==
  ASSUME NEW s \in Requests
  PROVE  /\ s.blocks \in Seq(BlockIds)
         /\ Len(s.blocks) \in Nat /\ DOMAIN s.blocks = 1 .. Len(s.blocks)
         /\ s.blocks # <<>> <=> Len(s.blocks) > 0
         /\ NoneTwice(s.blocks)
         /\ s.work_id \in WorkIds /\ Len(s.blocks) \in TotalBlockCounts
         /\ BlocksOf(s) \subseteq BlockIds
         /\ IsFiniteSet(BlocksOf(s)) /\ Cardinality(BlocksOf(s)) = Len(s.blocks)
<1>1. s.blocks \in Seq(BlocksOf(s)) /\ NoneTwice(s.blocks)
  BY RequestsAssumption
<1>2. Len(s.blocks) \in Nat /\ DOMAIN s.blocks = 1 .. Len(s.blocks)
  BY <1>1, LenProperties
<1>3. BlocksOf(s) \subseteq BlockIds /\ s.work_id \in WorkIds /\ Len(s.blocks) \in TotalBlockCounts
  BY DEF BlockIds, WorkIds, TotalBlockCounts
<1>4. s.blocks \in Seq(BlockIds)
  BY <1>1, <1>3, SeqMonotonic
<1>5. s.blocks # <<>> <=> Len(s.blocks) > 0
  BY <1>1, <1>2, EmptySeq
<1>6. s.blocks \in [1 .. Len(s.blocks) -> BlocksOf(s)]
  BY <1>1, LenProperties
<1>7. s.blocks \in Surjection(1 .. Len(s.blocks), BlocksOf(s))
  <2>1. \A b \in BlocksOf(s) : \E k \in 1 .. Len(s.blocks) : s.blocks[k] = b
    BY <1>2 DEF BlocksOf
  <2> QED BY <1>6, <2>1 DEF Surjection
<1>8. s.blocks \in Injection(1 .. Len(s.blocks), BlocksOf(s))
  BY <1>1, <1>6 DEF Injection, IsInjective, NoneTwice
<1>9. IsFiniteSet(1 .. Len(s.blocks)) /\ Cardinality(1 .. Len(s.blocks)) = Len(s.blocks)
  BY <1>2, FS_Interval
<1>10. IsFiniteSet(BlocksOf(s)) /\ Cardinality(BlocksOf(s)) = Len(s.blocks)
  BY <1>7, <1>8, <1>9, FS_Surjection
<1> QED BY <1>1, <1>2, <1>3, <1>4, <1>5, <1>10

-----------------------------------------------------------------------------
(* The results for a block in a queue, counted as they come and go. *)
Bears(r, w, b) == r.work_id = w /\ r.block_id = b

ResultsOf(w, b) == {r \in Result : Bears(r, w, b)}

LEMMA InMatching ==
  ASSUME NEW q \in Seq(Result), NEW w, NEW b
  PROVE  In(q, w, b) = Matching(q, ResultsOf(w, b))
<1>1. \A k \in DOMAIN q : q[k] \in Result
  BY LenProperties, ElementOfSeq
<1> QED BY <1>1 DEF In, Matching, ResultsOf, Bears

LEMMA InFinite ==
  ASSUME NEW q \in Seq(Result), NEW w, NEW b
  PROVE  IsFiniteSet(In(q, w, b)) /\ Cardinality(In(q, w, b)) \in Nat
  BY InMatching, MatchingFinite

LEMMA InPush ==
  ASSUME NEW q \in Seq(Result), NEW r \in Result, NEW w, NEW b
  PROVE  /\ Append(q, r) \in Seq(Result)
         /\ Cardinality(In(Append(q, r), w, b))
               = Cardinality(In(q, w, b)) + IF Bears(r, w, b) THEN 1 ELSE 0
<1>1. Append(q, r) \in Seq(Result)
  BY AppendProperties
<1>2. In(q, w, b) = Matching(q, ResultsOf(w, b))
  BY InMatching
<1>3. In(Append(q, r), w, b) = Matching(Append(q, r), ResultsOf(w, b))
  BY <1>1, InMatching
<1>4. r \in ResultsOf(w, b) <=> Bears(r, w, b)
  BY DEF ResultsOf
<1> QED BY <1>1, <1>2, <1>3, <1>4, PushMatching

LEMMA InPop ==
  ASSUME NEW q \in Seq(Result), q # <<>>, NEW w, NEW b
  PROVE  /\ Tail(q) \in Seq(Result) /\ Head(q) \in Result
         /\ Cardinality(In(q, w, b))
               = Cardinality(In(Tail(q), w, b)) + IF Bears(Head(q), w, b) THEN 1 ELSE 0
<1>1. Tail(q) \in Seq(Result) /\ Head(q) \in Result
  BY HeadTailProperties
<1>2. In(q, w, b) = Matching(q, ResultsOf(w, b))
  BY InMatching
<1>3. In(Tail(q), w, b) = Matching(Tail(q), ResultsOf(w, b))
  BY <1>1, InMatching
<1>4. Head(q) \in ResultsOf(w, b) <=> Bears(Head(q), w, b)
  BY <1>1 DEF ResultsOf
<1> QED BY <1>1, <1>2, <1>3, <1>4, PopMatching

(* The same for the snippets in ScanQueue. *)
Names(s, w, b) == s.work_id = w /\ b \in BlocksOf(s)

SnippetsOf(w, b) == {s \in Requests : Names(s, w, b)}

WaitingIn(q, w, b) == {k \in DOMAIN q : q[k].work_id = w /\ b \in BlocksOf(q[k])}

LEMMA WaitingMatching ==
  ASSUME NEW q \in Seq(Requests), NEW w, NEW b
  PROVE  WaitingIn(q, w, b) = Matching(q, SnippetsOf(w, b))
<1>1. \A k \in DOMAIN q : q[k] \in Requests
  BY LenProperties, ElementOfSeq
<1> QED BY <1>1 DEF Matching, SnippetsOf, Names, WaitingIn

LEMMA WaitingPush ==
  ASSUME ScanQueue \in Seq(Requests), NEW s \in Requests, ScanQueue' = Append(ScanQueue, s),
         NEW w, NEW b
  PROVE  /\ ScanQueue' \in Seq(Requests)
         /\ Cardinality(Waiting(w, b)')
               = Cardinality(Waiting(w, b)) + IF Names(s, w, b) THEN 1 ELSE 0
<1>1. ScanQueue' \in Seq(Requests)
  BY AppendProperties
<1>2. Waiting(w, b) = Matching(ScanQueue, SnippetsOf(w, b))
  BY WaitingMatching DEF Waiting, WaitingIn
<1>3. Waiting(w, b)' = Matching(ScanQueue', SnippetsOf(w, b))
  <2>1. WaitingIn(ScanQueue', w, b) = Matching(ScanQueue', SnippetsOf(w, b))
    BY <1>1, WaitingMatching, Zenon
  <2> QED BY <2>1 DEF Waiting, WaitingIn
<1>4. s \in SnippetsOf(w, b) <=> Names(s, w, b)
  BY DEF SnippetsOf
<1> QED BY <1>1, <1>2, <1>3, <1>4, PushMatching

LEMMA WaitingPop ==
  ASSUME ScanQueue \in Seq(Requests), ScanQueue # <<>>, ScanQueue' = Tail(ScanQueue),
         NEW w, NEW b
  PROVE  /\ ScanQueue' \in Seq(Requests) /\ Head(ScanQueue) \in Requests
         /\ Cardinality(Waiting(w, b))
               = Cardinality(Waiting(w, b)') + IF Names(Head(ScanQueue), w, b) THEN 1 ELSE 0
<1>1. ScanQueue' \in Seq(Requests) /\ Head(ScanQueue) \in Requests
  BY HeadTailProperties
<1>2. Waiting(w, b) = Matching(ScanQueue, SnippetsOf(w, b))
  BY WaitingMatching DEF Waiting, WaitingIn
<1>3. Waiting(w, b)' = Matching(ScanQueue', SnippetsOf(w, b))
  <2>1. WaitingIn(ScanQueue', w, b) = Matching(ScanQueue', SnippetsOf(w, b))
    BY <1>1, WaitingMatching, Zenon
  <2> QED BY <2>1 DEF Waiting, WaitingIn
<1>4. Head(ScanQueue) \in SnippetsOf(w, b) <=> Names(Head(ScanQueue), w, b)
  BY <1>1 DEF SnippetsOf
<1> QED BY <1>1, <1>2, <1>3, <1>4, PopMatching

(* A queue from which the oldest item is taken. *)
LEMMA TailElements ==
  ASSUME NEW T, NEW q \in Seq(T), q # <<>>
  PROVE  \A k \in DOMAIN Tail(q) : k + 1 \in DOMAIN q /\ Tail(q)[k] = q[k + 1]
<1>1. /\ Len(q) \in Nat \ {0} /\ DOMAIN q = 1 .. Len(q) /\ DOMAIN Tail(q) = 1 .. Len(q) - 1
      /\ \A k \in 1 .. Len(q) - 1 : Tail(q)[k] = q[k + 1]
  BY HeadTailProperties, LenProperties, EmptySeq
<1> QED BY <1>1

LEMMA AppendElements ==
  ASSUME NEW T, NEW q \in Seq(T), NEW x \in T
  PROVE  \A k \in DOMAIN Append(q, x) :
            \/ k \in DOMAIN q /\ Append(q, x)[k] = q[k]
            \/ k \notin DOMAIN q /\ k = Len(q) + 1 /\ Append(q, x)[k] = x
<1>1. /\ Len(q) \in Nat /\ DOMAIN q = 1 .. Len(q) /\ DOMAIN Append(q, x) = 1 .. Len(q) + 1
      /\ Append(q, x)[Len(q) + 1] = x
      /\ \A k \in 1 .. Len(q) : Append(q, x)[k] = q[k]
  BY AppendProperties, LenProperties
<1> QED BY <1>1

-----------------------------------------------------------------------------
(* The places outside the queues. *)
LEMMA InScanCount ==
  ASSUME scanning \in Requests \cup {Idle}, next_block \in Nat \ {0}, NEW w, NEW b
  PROVE  /\ IsFiniteSet(InScan(w, b)) /\ Cardinality(InScan(w, b)) \in Nat
         /\ scanning = Idle => Cardinality(InScan(w, b)) = 0
<1>1. CASE scanning = Idle
  BY <1>1, FS_EmptySet DEF InScan
<1>2. CASE scanning # Idle
  <2>1. IsFiniteSet(next_block .. Len(scanning.blocks))
    BY <1>2, SnippetFacts, FS_Interval
  <2>2. IsFiniteSet(InScan(w, b))
    BY <1>2, <2>1, FS_Subset DEF InScan, Unscanned
  <2> QED BY <1>2, <2>2, FS_CardinalityType
<1> QED BY <1>1, <1>2

LEMMA InFilterFinite ==
  ASSUME NEW w, NEW b
  PROVE  IsFiniteSet(InFilter(w, b)) /\ Cardinality(InFilter(w, b)) \in Nat
<1>1. IsFiniteSet(InFilter(w, b))
  BY FiltersAssumption, FS_Subset DEF InFilter
<1> QED BY <1>1, FS_CardinalityType

InBufferNow(w, b) == w \in DOMAIN m_MergeManager /\ b \in m_MergeManager[w].blocks

LEMMA InBufferCount ==
  ASSUME NEW w, NEW b
  PROVE  Cardinality(InBuffer(w, b)) = IF InBufferNow(w, b) THEN 1 ELSE 0
<1>1. InBuffer(w, b) = IF InBufferNow(w, b) THEN {w} ELSE {}
  BY DEF InBuffer, InBufferNow
<1> QED BY <1>1, SingletonCount

LEMMA InBufferCountNext ==
  ASSUME NEW w, NEW b
  PROVE  Cardinality(InBuffer(w, b)') = IF InBufferNow(w, b)' THEN 1 ELSE 0
<1>1. InBuffer(w, b)' = IF InBufferNow(w, b)' THEN {w} ELSE {}
  BY DEF InBuffer, InBufferNow
<1> QED BY <1>1, SingletonCount
-----------------------------------------------------------------------------
(* Steps that move a block from one place to the next. *)

LEMMA CountTypes ==
  ASSUME TypeOK, NEW w, NEW b
  PROVE  /\ Cardinality(Waiting(w, b)) \in Nat /\ Cardinality(InScan(w, b)) \in Nat
         /\ Cardinality(In(FilterQueue, w, b)) \in Nat /\ Cardinality(InFilter(w, b)) \in Nat
         /\ Cardinality(In(MergeQueue, w, b)) \in Nat /\ Cardinality(InBuffer(w, b)) \in Nat
         /\ OnTheWay(w, b) \in Nat
<1>1. Cardinality(Waiting(w, b)) \in Nat
  <2>1. Waiting(w, b) = Matching(ScanQueue, SnippetsOf(w, b))
    BY WaitingMatching DEF TypeOK, Waiting, WaitingIn
  <2> QED BY <2>1, MatchingFinite DEF TypeOK
<1>2. Cardinality(InScan(w, b)) \in Nat
  BY InScanCount DEF TypeOK
<1>3. Cardinality(In(FilterQueue, w, b)) \in Nat /\ Cardinality(In(MergeQueue, w, b)) \in Nat
  BY InFinite DEF TypeOK
<1>4. Cardinality(InFilter(w, b)) \in Nat /\ Cardinality(InBuffer(w, b)) \in Nat
  BY InFilterFinite, InBufferCount
<1> QED BY <1>1, <1>2, <1>3, <1>4 DEF OnTheWay

LEMMA WayTypes ==
  ASSUME IInv, NEW w, NEW b
  PROVE  /\ Cardinality(Waiting(w, b)) \in Nat /\ Cardinality(InScan(w, b)) \in Nat
         /\ Cardinality(In(FilterQueue, w, b)) \in Nat /\ Cardinality(InFilter(w, b)) \in Nat
         /\ Cardinality(In(MergeQueue, w, b)) \in Nat /\ Cardinality(InBuffer(w, b)) \in Nat
BY CountTypes DEF IInv

(* An id stays as free or busy as it was if its snippets, the number of its *)
(* answers and the places of its blocks stay the same.                      *)
LEMMA IdKept ==
  ASSUME TypeOK, NEW w \in WorkIds, Free(w) \/ \E n \in DOMAIN accepted : Busy(w, n),
         \A k \in DOMAIN accepted : k \in DOMAIN accepted' /\ accepted'[k] = accepted[k],
         WorksOf(w)' = WorksOf(w),
         Cardinality(S!AnswersTo(w)') = Cardinality(S!AnswersTo(w)),
         \A b \in BlockIds : OnTheWay(w, b)' = OnTheWay(w, b),
         \A n \in Nat : TotalIs(w, n) => TotalIs(w, n)'
  PROVE  Free(w)' \/ \E n \in DOMAIN accepted' : Busy(w, n)'
<1>1. CASE Free(w)
  BY <1>1 DEF Free
<1>2. CASE \E n \in DOMAIN accepted : Busy(w, n)
  <2>1. PICK n \in DOMAIN accepted : Busy(w, n)
    BY <1>2
  <2>2. n \in DOMAIN accepted' /\ accepted'[n] = accepted[n]
    BY <2>1
  <2>3. DOMAIN accepted = 1 .. Len(accepted) /\ Len(accepted) \in Nat /\ accepted[n] \in Requests
    BY LenProperties, ElementOfSeq DEF TypeOK
  <2>4. S!WorksUpTo(n, w)' = S!WorksUpTo(n, w)
    <3>1. \A k \in 1 .. n : k \in DOMAIN accepted
      BY <2>3
    <3> QED BY <3>1 DEF S!WorksUpTo
  <2>5. Len(accepted[n].blocks) \in Nat
    BY <2>3, SnippetFacts
  <2>6. TotalIs(w, Len(accepted[n].blocks))'
    <3>1. \A m \in Nat : m = Len(accepted[n].blocks) => TotalIs(w, m)'
      BY <2>1 DEF Busy
    <3>2. \A m \in Nat : m = Len(accepted[n].blocks) /\ TotalIs(w, m)'
                              => TotalIs(w, Len(accepted[n].blocks))'
      BY <2>2 DEF TotalIs
    <3> QED BY <2>5, <3>1, <3>2
  <2>7. Busy(w, n)'
    BY <2>1, <2>2, <2>4, <2>6 DEF Busy
  <2> QED BY <2>2, <2>7
<1> QED BY <1>1, <1>2

(* If every block stays on its way, each id stays as free or busy as it was. *)
LEMMA Moved ==
  ASSUME IInv, UNCHANGED <<accepted, sent>>,
         \A w \in WorkIds, b \in BlockIds : OnTheWay(w, b)' = OnTheWay(w, b),
         \A w \in WorkIds, n \in Nat : TotalIs(w, n) => TotalIs(w, n)'
  PROVE  AcceptedOnce' /\ WorksOK' /\ BlocksAccounted'
<1>1. AcceptedOnce'
  BY DEF IInv, AcceptedOnce, NoneTwice
<1>2. WorksOK'
  <2> SUFFICES ASSUME NEW w \in WorkIds
               PROVE  Free(w)' \/ \E n \in DOMAIN accepted' : Busy(w, n)'
    BY DEF WorksOK
  <2>1. WorksOf(w)' = WorksOf(w) /\ S!AnswersTo(w)' = S!AnswersTo(w)
    BY DEF WorksOf, S!WorksUpTo, S!AnswersTo
  <2>2. TypeOK /\ (Free(w) \/ \E n \in DOMAIN accepted : Busy(w, n))
    BY DEF IInv, WorksOK
  <2> QED BY <2>1, <2>2, IdKept
<1>3. BlocksAccounted'
  <2>1. \A w \in WorkIds, b \in BlockIds :
           OnTheWay(w, b) + Cardinality(InAnswer(w, b)) = Cardinality(Named(w, b))
    BY DEF IInv, BlocksAccounted, OnTheWay
  <2>2. \A w \in WorkIds, b \in BlockIds :
           InAnswer(w, b)' = InAnswer(w, b) /\ Named(w, b)' = Named(w, b)
    BY DEF InAnswer, Named, Arrived
  <2> QED BY <2>1, <2>2 DEF BlocksAccounted, OnTheWay
<1> QED BY <1>1, <1>2, <1>3

(* All positions of a snippet's list that hold a block: one or none. *)
LEMMA AllUnscanned ==
  ASSUME NEW s \in Requests, NEW w, NEW b
  PROVE  Cardinality({k \in 1 .. Len(s.blocks) : s.work_id = w /\ s.blocks[k] = b})
            = IF Names(s, w, b) THEN 1 ELSE 0
<1> DEFINE ks == {k \in 1 .. Len(s.blocks) : s.work_id = w /\ s.blocks[k] = b}
<1>1. DOMAIN s.blocks = 1 .. Len(s.blocks) /\ NoneTwice(s.blocks)
  BY SnippetFacts
<1>2. CASE Names(s, w, b)
  <2>1. PICK k \in 1 .. Len(s.blocks) : s.blocks[k] = b
    BY <1>1, <1>2 DEF Names, BlocksOf
  <2>2. ks = {k}
    BY <1>1, <1>2, <2>1 DEF Names, NoneTwice
  <2> QED BY <1>2, <2>2, SingletonCount
<1>3. CASE ~ Names(s, w, b)
  <2>1. ks = {}
    BY <1>1, <1>3 DEF Names, BlocksOf
  <2> QED BY <1>3, <2>1, SingletonCount
<1> QED BY <1>2, <1>3

LEMMA TakeSnippetInvariant == ASSUME IInv, TakeSnippet PROVE IInv'
<1> USE DEF TakeSnippet
<1> DEFINE s == Head(ScanQueue)
<1>1. /\ ScanQueue \in Seq(Requests) /\ ScanQueue # <<>> /\ s \in Requests
      /\ ScanQueue' \in Seq(Requests) /\ scanning' = s /\ scanning' # Idle
  BY HeadTailProperties, IdleAssumption DEF IInv, TypeOK
<1>2. TypeOK'
  <2>1. Len(s.blocks) \in Nat
    BY <1>1, SnippetFacts
  <2>2. scanning' # Idle => next_block' <= Len(scanning'.blocks) + 1
    BY <1>1, <2>1
  <2> QED BY <1>1, <2>2 DEF IInv, TypeOK
<1>3. ASSUME NEW w \in WorkIds, NEW b \in BlockIds PROVE OnTheWay(w, b)' = OnTheWay(w, b)
  <2>1. Cardinality(Waiting(w, b)) = Cardinality(Waiting(w, b)') + IF Names(s, w, b) THEN 1 ELSE 0
    BY <1>1, WaitingPop
  <2>2. Cardinality(InScan(w, b)) = 0
    BY InScanCount DEF IInv, TypeOK
  <2>3. Cardinality(InScan(w, b)') = IF Names(s, w, b) THEN 1 ELSE 0
    <3>1. InScan(w, b)' = {k \in 1 .. Len(s.blocks) : s.work_id = w /\ s.blocks[k] = b}
      BY <1>1 DEF InScan, Unscanned
    <3> QED BY <1>1, <3>1, AllUnscanned
  <2>4. /\ In(FilterQueue, w, b)' = In(FilterQueue, w, b) /\ InFilter(w, b)' = InFilter(w, b)
        /\ In(MergeQueue, w, b)' = In(MergeQueue, w, b) /\ InBuffer(w, b)' = InBuffer(w, b)
    BY DEF In, InFilter, InBuffer
  <2>5. Cardinality(Waiting(w, b)') \in Nat
    <3>1. Waiting(w, b)' = Matching(ScanQueue', SnippetsOf(w, b))
      BY <1>1, WaitingMatching DEF Waiting, WaitingIn
    <3> QED BY <1>1, <3>1, MatchingFinite
  <2> HIDE DEF s
  <2> QED BY <2>1, <2>2, <2>3, <2>4, <2>5, WayTypes DEF OnTheWay
<1>4. ASSUME NEW w \in WorkIds, NEW n \in Nat, TotalIs(w, n) PROVE TotalIs(w, n)'
  <2>1. \A k \in DOMAIN ScanQueue' : k + 1 \in DOMAIN ScanQueue /\ ScanQueue'[k] = ScanQueue[k + 1]
    BY <1>1, TailElements
  <2>2. 1 \in DOMAIN ScanQueue /\ s = ScanQueue[1]
    BY <1>1, LenProperties, EmptySeq
  <2>3. s.work_id = w /\ 1 <= Len(s.blocks) => Len(s.blocks) = n
    BY <1>1, <1>4, <2>2, SnippetFacts DEF TotalIs
  <2> HIDE DEF s
  <2>4. \A k \in DOMAIN ScanQueue' : ScanQueue'[k].work_id = w /\ ScanQueue'[k].blocks # <<>>
                                        => Len(ScanQueue'[k].blocks) = n
    BY <1>4, <2>1 DEF TotalIs
  <2> QED BY <1>1, <1>4, <2>3, <2>4 DEF TotalIs
<1>5. AcceptedOnce' /\ WorksOK' /\ BlocksAccounted'
  BY <1>3, <1>4, Moved
<1>6. BufferCounts'
  BY DEF IInv, BufferCounts
<1> QED BY <1>2, <1>5, <1>6 DEF IInv
LEMMA BlockScanInvariant == ASSUME IInv, BlockScan PROVE IInv'
<1> USE DEF BlockScan
<1> DEFINE r == ScanResult(scanning, next_block)
<1>1. /\ scanning \in Requests /\ next_block \in Nat \ {0}
      /\ Len(scanning.blocks) \in Nat /\ next_block \in 1 .. Len(scanning.blocks)
      /\ DOMAIN scanning.blocks = 1 .. Len(scanning.blocks)
      /\ FilterQueue \in Seq(Result)
  BY SnippetFacts DEF IInv, TypeOK
<1>2. /\ r.work_id = scanning.work_id /\ r.block_id = scanning.blocks[next_block]
      /\ r.total_block_count = Len(scanning.blocks)
  BY DEF ScanResult
<1>3. r \in Result
  <2>1. scanning.blocks[next_block] \in BlockIds
    BY <1>1, SnippetFacts, ElementOfSeq
  <2> QED BY <1>1, <2>1, SnippetFacts DEF ScanResult, Result
<1>4. FilterQueue' = Append(FilterQueue, r)
  BY DEF push_work
<1> HIDE DEF r
<1>5. TypeOK'
  <2>1. FilterQueue' \in Seq(Result)
    BY <1>1, <1>3, <1>4, AppendProperties
  <2>2. next_block' \in Nat \ {0} /\ next_block' <= Len(scanning.blocks) + 1
    BY <1>1
  <2> QED BY <2>1, <2>2 DEF IInv, TypeOK
<1>6. ASSUME NEW w \in WorkIds, NEW b \in BlockIds PROVE OnTheWay(w, b)' = OnTheWay(w, b)
  <2>1. Cardinality(In(FilterQueue, w, b)')
           = Cardinality(In(FilterQueue, w, b)) + IF Bears(r, w, b) THEN 1 ELSE 0
    <3>1. In(FilterQueue, w, b)' = In(Append(FilterQueue, r), w, b)
      BY <1>4 DEF In
    <3> QED BY <1>1, <1>3, <3>1, InPush
  <2>2. /\ Cardinality(InScan(w, b))
              = Cardinality(InScan(w, b)') + IF Bears(r, w, b) THEN 1 ELSE 0
        /\ Cardinality(InScan(w, b)') \in Nat
    <3>1. /\ InScan(w, b) = Unscanned(w, b) /\ InScan(w, b)' = Unscanned(w, b)'
          /\ next_block' = next_block + 1 /\ scanning' = scanning
      BY DEF InScan
    <3>2. next_block .. Len(scanning.blocks) = (next_block + 1 .. Len(scanning.blocks)) \cup {next_block}
      BY <1>1
    <3>3. next_block \notin Unscanned(w, b)'
      BY <1>1, <3>1 DEF Unscanned
    <3>4. Unscanned(w, b) = IF Bears(r, w, b) THEN Unscanned(w, b)' \cup {next_block}
                                             ELSE Unscanned(w, b)'
      BY <1>2, <3>1, <3>2 DEF Unscanned, Bears
    <3>5. IsFiniteSet(Unscanned(w, b)') /\ Cardinality(Unscanned(w, b)') \in Nat
      <4> next_block + 1 \in Int /\ Len(scanning.blocks) \in Int
        BY <1>1
      <4>1. IsFiniteSet(next_block + 1 .. Len(scanning.blocks))
        BY FS_Interval
      <4>2. IsFiniteSet(Unscanned(w, b)')
        BY <3>1, <4>1, FS_Subset DEF Unscanned
      <4> QED BY <4>2, FS_CardinalityType
    <3>6. CASE Bears(r, w, b)
      BY <3>1, <3>3, <3>4, <3>5, <3>6, OneMore
    <3>7. CASE ~ Bears(r, w, b)
      BY <3>1, <3>4, <3>5, <3>7
    <3> QED BY <3>6, <3>7
  <2>3. /\ Waiting(w, b)' = Waiting(w, b) /\ InFilter(w, b)' = InFilter(w, b)
        /\ In(MergeQueue, w, b)' = In(MergeQueue, w, b) /\ InBuffer(w, b)' = InBuffer(w, b)
    BY DEF In, InFilter, InBuffer, Waiting
  <2> QED BY <2>1, <2>2, <2>3, WayTypes DEF OnTheWay
<1>7. ASSUME NEW w \in WorkIds, NEW n \in Nat, TotalIs(w, n) PROVE TotalIs(w, n)'
  <2>1. \A k \in DOMAIN FilterQueue' :
           FilterQueue'[k].work_id = w => FilterQueue'[k].total_block_count = n
    <3>1. scanning.work_id = w => Len(scanning.blocks) = n
      BY <1>7 DEF TotalIs
    <3>2. \A k \in DOMAIN FilterQueue' :
             \/ k \in DOMAIN FilterQueue /\ FilterQueue'[k] = FilterQueue[k]
             \/ FilterQueue'[k] = r
      BY <1>1, <1>3, <1>4, AppendElements
    <3> QED BY <1>2, <1>7, <3>1, <3>2 DEF TotalIs
  <2>2. next_block' <= Len(scanning.blocks) => next_block <= Len(scanning.blocks)
    BY <1>1
  <2> QED BY <1>7, <2>1, <2>2 DEF TotalIs
<1>8. AcceptedOnce' /\ WorksOK' /\ BlocksAccounted'
  BY <1>6, <1>7, Moved
<1>9. BufferCounts'
  BY DEF IInv, BufferCounts
<1> QED BY <1>5, <1>8, <1>9 DEF IInv

LEMMA EndOfSnippetInvariant == ASSUME IInv, EndOfSnippet PROVE IInv'
<1> USE DEF EndOfSnippet
<1>1. /\ scanning \in Requests /\ Len(scanning.blocks) \in Nat
      /\ next_block \in Nat /\ scanning' = Idle
  BY SnippetFacts DEF IInv, TypeOK
<1>2. TypeOK'
  BY DEF IInv, TypeOK
<1>3. ASSUME NEW w \in WorkIds, NEW b \in BlockIds PROVE OnTheWay(w, b)' = OnTheWay(w, b)
  <2>1. InScan(w, b) = {} /\ InScan(w, b)' = {}
    BY <1>1 DEF InScan, Unscanned
  <2>2. /\ Waiting(w, b)' = Waiting(w, b) /\ InFilter(w, b)' = InFilter(w, b)
        /\ In(FilterQueue, w, b)' = In(FilterQueue, w, b)
        /\ In(MergeQueue, w, b)' = In(MergeQueue, w, b) /\ InBuffer(w, b)' = InBuffer(w, b)
    BY DEF In, InFilter, InBuffer, Waiting
  <2> QED BY <2>1, <2>2 DEF OnTheWay
<1>4. ASSUME NEW w \in WorkIds, NEW n \in Nat, TotalIs(w, n) PROVE TotalIs(w, n)'
  BY <1>4 DEF TotalIs
<1>5. AcceptedOnce' /\ WorksOK' /\ BlocksAccounted'
  BY <1>3, <1>4, Moved
<1>6. BufferCounts'
  BY DEF IInv, BufferCounts
<1> QED BY <1>2, <1>5, <1>6 DEF IInv

LEMMA TakeBlockInvariant == ASSUME IInv, NEW f \in Filters, TakeBlock(f) PROVE IInv'
<1> USE DEF TakeBlock
<1> DEFINE r == Head(FilterQueue)
<1>1. /\ FilterQueue \in Seq(Result) /\ FilterQueue # <<>> /\ r \in Result
      /\ FilterQueue' \in Seq(Result) /\ FilterQueue' = Tail(FilterQueue)
      /\ r # Idle
  BY HeadTailProperties, IdleAssumption DEF IInv, TypeOK
<1>2. /\ filtering[f] = Idle
      /\ \A g \in Filters : filtering'[g] = IF g = f THEN r ELSE filtering[g]
  BY DEF IInv, TypeOK
<1>3. TypeOK'
  <2>1. filtering' \in [Filters -> Result \cup {Idle}]
    BY <1>1 DEF IInv, TypeOK
  <2> QED BY <1>1, <2>1 DEF IInv, TypeOK
<1> HIDE DEF r
<1>4. ASSUME NEW w \in WorkIds, NEW b \in BlockIds PROVE OnTheWay(w, b)' = OnTheWay(w, b)
  <2>1. Cardinality(In(FilterQueue, w, b))
           = Cardinality(In(FilterQueue, w, b)') + IF Bears(r, w, b) THEN 1 ELSE 0
    <3>1. In(FilterQueue, w, b)' = In(Tail(FilterQueue), w, b)
      BY <1>1 DEF In
    <3> QED BY <1>1, <3>1, InPop DEF r
  <2>2. Cardinality(InFilter(w, b)') = Cardinality(InFilter(w, b)) + IF Bears(r, w, b) THEN 1 ELSE 0
    <3>1. f \notin InFilter(w, b)
      BY <1>2 DEF InFilter
    <3>2. InFilter(w, b)' = IF Bears(r, w, b) THEN InFilter(w, b) \cup {f} ELSE InFilter(w, b)
      BY <1>1, <1>2 DEF InFilter, Bears
    <3>3. CASE Bears(r, w, b)
      BY <3>1, <3>2, <3>3, InFilterFinite, OneMore
    <3>4. CASE ~ Bears(r, w, b)
      BY <3>2, <3>4, InFilterFinite
    <3> QED BY <3>3, <3>4
  <2>3. /\ Waiting(w, b)' = Waiting(w, b) /\ InScan(w, b)' = InScan(w, b)
        /\ In(MergeQueue, w, b)' = In(MergeQueue, w, b) /\ InBuffer(w, b)' = InBuffer(w, b)
    BY DEF In, InScan, Unscanned, InBuffer, Waiting
  <2>4. Cardinality(In(FilterQueue, w, b)') \in Nat
    <3>1. In(FilterQueue, w, b)' = In(Tail(FilterQueue), w, b)
      BY <1>1 DEF In
    <3> QED BY <1>1, <3>1, InFinite
  <2> QED BY <2>1, <2>2, <2>3, <2>4, WayTypes DEF OnTheWay
<1>5. ASSUME NEW w \in WorkIds, NEW n \in Nat, TotalIs(w, n) PROVE TotalIs(w, n)'
  <2>1. \A k \in DOMAIN FilterQueue' : k + 1 \in DOMAIN FilterQueue /\ FilterQueue'[k] = FilterQueue[k + 1]
    BY <1>1, TailElements
  <2>2. 1 \in DOMAIN FilterQueue /\ r = FilterQueue[1]
    BY <1>1, LenProperties, EmptySeq DEF r
  <2>3. r.work_id = w => r.total_block_count = n
    BY <1>5, <2>2 DEF TotalIs
  <2>4. \A k \in DOMAIN FilterQueue' :
           FilterQueue'[k].work_id = w => FilterQueue'[k].total_block_count = n
    BY <1>5, <2>1 DEF TotalIs
  <2>5. \A g \in Filters :
           filtering'[g] # Idle => (filtering'[g].work_id = w => filtering'[g].total_block_count = n)
    BY <1>2, <1>5, <2>3 DEF TotalIs
  <2> QED BY <1>5, <2>4, <2>5 DEF TotalIs
<1>6. AcceptedOnce' /\ WorksOK' /\ BlocksAccounted'
  BY <1>4, <1>5, Moved
<1>7. BufferCounts'
  BY DEF IInv, BufferCounts
<1> QED BY <1>3, <1>6, <1>7 DEF IInv

LEMMA BlockFilterInvariant == ASSUME IInv, NEW f \in Filters, BlockFilter(f) PROVE IInv'
<1> USE DEF BlockFilter
<1> DEFINE r == filtering[f]
<1>1. /\ MergeQueue \in Seq(Result) /\ r \in Result /\ r # Idle
      /\ MergeQueue' = Append(MergeQueue, r)
  BY DEF IInv, TypeOK, push_work
<1>2. \A g \in Filters : filtering'[g] = IF g = f THEN Idle ELSE filtering[g]
  BY DEF IInv, TypeOK
<1>3. TypeOK'
  <2>1. MergeQueue' \in Seq(Result)
    BY <1>1, AppendProperties
  <2>2. filtering' \in [Filters -> Result \cup {Idle}]
    BY DEF IInv, TypeOK
  <2> QED BY <2>1, <2>2 DEF IInv, TypeOK
<1> HIDE DEF r
<1>4. ASSUME NEW w \in WorkIds, NEW b \in BlockIds PROVE OnTheWay(w, b)' = OnTheWay(w, b)
  <2>1. Cardinality(In(MergeQueue, w, b)')
           = Cardinality(In(MergeQueue, w, b)) + IF Bears(r, w, b) THEN 1 ELSE 0
    <3>1. In(MergeQueue, w, b)' = In(Append(MergeQueue, r), w, b)
      BY <1>1 DEF In
    <3> QED BY <1>1, <3>1, InPush
  <2>2. /\ Cardinality(InFilter(w, b))
              = Cardinality(InFilter(w, b)') + IF Bears(r, w, b) THEN 1 ELSE 0
        /\ Cardinality(InFilter(w, b)') \in Nat
    <3>1. f \notin InFilter(w, b)'
      BY <1>2 DEF InFilter
    <3>2. InFilter(w, b) = IF Bears(r, w, b) THEN InFilter(w, b)' \cup {f} ELSE InFilter(w, b)'
      BY <1>1, <1>2 DEF InFilter, Bears, r
    <3>3. IsFiniteSet(InFilter(w, b)') /\ Cardinality(InFilter(w, b)') \in Nat
      <4>1. IsFiniteSet(InFilter(w, b)')
        BY FiltersAssumption, FS_Subset DEF InFilter
      <4> QED BY <4>1, FS_CardinalityType
    <3>4. CASE Bears(r, w, b)
      BY <3>1, <3>2, <3>3, <3>4, OneMore
    <3>5. CASE ~ Bears(r, w, b)
      BY <3>2, <3>3, <3>5
    <3> QED BY <3>3, <3>4, <3>5
  <2>3. /\ Waiting(w, b)' = Waiting(w, b) /\ InScan(w, b)' = InScan(w, b)
        /\ In(FilterQueue, w, b)' = In(FilterQueue, w, b) /\ InBuffer(w, b)' = InBuffer(w, b)
    BY DEF In, InScan, Unscanned, InBuffer, Waiting
  <2> QED BY <2>1, <2>2, <2>3, WayTypes DEF OnTheWay
<1>5. ASSUME NEW w \in WorkIds, NEW n \in Nat, TotalIs(w, n) PROVE TotalIs(w, n)'
  <2>1. r.work_id = w => r.total_block_count = n
    BY <1>1, <1>5 DEF TotalIs, r
  <2>2. \A k \in DOMAIN MergeQueue' :
           \/ k \in DOMAIN MergeQueue /\ MergeQueue'[k] = MergeQueue[k]
           \/ MergeQueue'[k] = r
    BY <1>1, AppendElements
  <2>3. \A k \in DOMAIN MergeQueue' :
           MergeQueue'[k].work_id = w => MergeQueue'[k].total_block_count = n
    BY <1>5, <2>1, <2>2 DEF TotalIs
  <2>4. \A g \in Filters :
           filtering'[g] # Idle => (filtering'[g].work_id = w => filtering'[g].total_block_count = n)
    BY <1>2, <1>5 DEF TotalIs
  <2> QED BY <1>5, <2>3, <2>4 DEF TotalIs
<1>6. AcceptedOnce' /\ WorksOK' /\ BlocksAccounted'
  BY <1>4, <1>5, Moved
<1>7. BufferCounts'
  BY DEF IInv, BufferCounts
<1> QED BY <1>3, <1>6, <1>7 DEF IInv
-----------------------------------------------------------------------------
(* The answers, counted as they are sent. *)
AnswerRecord == [work_id : WorkIds, blocks : SUBSET BlockIds]

AnswersWith(w) == {a \in AnswerRecord : a.work_id = w}

AnswersNaming(w, b) == {a \in AnswerRecord : a.work_id = w /\ b \in a.blocks}

IndexesTo(q, w) == {k \in DOMAIN q : q[k].work_id = w}

IndexesNaming(q, w, b) == {k \in DOMAIN q : q[k].work_id = w /\ b \in q[k].blocks}

LEMMA AnswersMatching ==
  ASSUME NEW q \in Seq(AnswerRecord), NEW w, NEW b
  PROVE  /\ IndexesTo(q, w) = Matching(q, AnswersWith(w))
         /\ IndexesNaming(q, w, b) = Matching(q, AnswersNaming(w, b))
<1>1. \A k \in DOMAIN q : q[k] \in AnswerRecord
  BY LenProperties, ElementOfSeq
<1> QED BY <1>1 DEF Matching, AnswersWith, AnswersNaming, IndexesTo, IndexesNaming

LEMMA AnswerCounts ==
  ASSUME TypeOK, NEW w, NEW b
  PROVE  /\ IsFiniteSet(S!AnswersTo(w)) /\ Cardinality(S!AnswersTo(w)) \in Nat
         /\ Cardinality(InAnswer(w, b)) \in Nat
<1>1. sent \in Seq(AnswerRecord)
  BY DEF TypeOK, AnswerRecord
<1>2. S!AnswersTo(w) = Matching(sent, AnswersWith(w))
  BY <1>1, AnswersMatching DEF S!AnswersTo, IndexesTo
<1>3. InAnswer(w, b) = Matching(sent, AnswersNaming(w, b))
  BY <1>1, AnswersMatching DEF InAnswer, IndexesNaming
<1> QED BY <1>1, <1>2, <1>3, MatchingFinite

LEMMA AnswerPush ==
  ASSUME TypeOK, NEW a \in AnswerRecord, sent' = Append(sent, a), NEW w, NEW b
  PROVE  /\ sent' \in Seq(AnswerRecord)
         /\ Cardinality(S!AnswersTo(w)')
               = Cardinality(S!AnswersTo(w)) + IF a.work_id = w THEN 1 ELSE 0
         /\ Cardinality(InAnswer(w, b)')
               = Cardinality(InAnswer(w, b)) + IF a.work_id = w /\ b \in a.blocks THEN 1 ELSE 0
<1>1. sent \in Seq(AnswerRecord) /\ sent' \in Seq(AnswerRecord)
  BY AppendProperties DEF TypeOK, AnswerRecord
<1>2. /\ S!AnswersTo(w) = Matching(sent, AnswersWith(w))
      /\ InAnswer(w, b) = Matching(sent, AnswersNaming(w, b))
  BY <1>1, AnswersMatching DEF S!AnswersTo, IndexesTo, InAnswer, IndexesNaming
<1>3. /\ S!AnswersTo(w)' = Matching(Append(sent, a), AnswersWith(w))
      /\ InAnswer(w, b)' = Matching(Append(sent, a), AnswersNaming(w, b))
  <2>1. Append(sent, a) \in Seq(AnswerRecord)
    BY <1>1
  <2>2. /\ IndexesTo(Append(sent, a), w) = Matching(Append(sent, a), AnswersWith(w))
        /\ IndexesNaming(Append(sent, a), w, b) = Matching(Append(sent, a), AnswersNaming(w, b))
    BY <2>1, AnswersMatching, Zenon
  <2> QED BY <2>2 DEF S!AnswersTo, IndexesTo, InAnswer, IndexesNaming
<1>4. a \in AnswersWith(w) <=> a.work_id = w
  BY DEF AnswersWith
<1>5. a \in AnswersNaming(w, b) <=> a.work_id = w /\ b \in a.blocks
  BY DEF AnswersNaming
<1>6. Cardinality(S!AnswersTo(w)')
        = Cardinality(S!AnswersTo(w)) + IF a.work_id = w THEN 1 ELSE 0
  BY <1>1, <1>2, <1>3, <1>4, PushMatching
<1>7. Cardinality(InAnswer(w, b)')
        = Cardinality(InAnswer(w, b)) + IF a.work_id = w /\ b \in a.blocks THEN 1 ELSE 0
  BY <1>1, <1>2, <1>3, <1>5, PushMatching
<1> QED BY <1>1, <1>6, <1>7

-----------------------------------------------------------------------------
(* What MergeBlock takes from its queue. *)
LEMMA HeadIsBusy ==
  ASSUME IInv, MergeQueue # <<>>, NEW r, r = Head(MergeQueue)
  PROVE  /\ r \in Result
         /\ \E n \in DOMAIN accepted :
               /\ Busy(r.work_id, n)
               /\ r.block_id \in BlocksOf(accepted[n])
               /\ ~ InBufferNow(r.work_id, r.block_id)
               /\ r.total_block_count = Len(accepted[n].blocks)
<1> DEFINE w == r.work_id
           b == r.block_id
<1>1. MergeQueue \in Seq(Result) /\ r \in Result /\ 1 \in DOMAIN MergeQueue /\ r = MergeQueue[1]
  BY HeadTailProperties, LenProperties, EmptySeq DEF IInv, TypeOK
<1>2. w \in WorkIds /\ b \in BlockIds
  BY <1>1 DEF Result
<1>3. Cardinality(In(MergeQueue, w, b)) >= 1
  <2>1. Bears(Head(MergeQueue), w, b)
    BY DEF Bears
  <2>2. Tail(MergeQueue) \in Seq(Result)
    BY <1>1, HeadTailProperties
  <2>3. Cardinality(In(Tail(MergeQueue), w, b)) \in Nat
    BY <2>2, InFinite, Zenon
  <2>4. Cardinality(In(MergeQueue, w, b)) = Cardinality(In(Tail(MergeQueue), w, b)) + 1
    BY <1>1, <2>1, InPop
  <2> QED BY <2>3, <2>4
<1> HIDE DEF w, b
<1>4. OnTheWay(w, b) >= 1
      /\ (OnTheWay(w, b) = 1 => Cardinality(InBuffer(w, b)) = 0)
  BY <1>3, CountTypes DEF IInv, OnTheWay
<1>5. PICK n \in DOMAIN accepted : Busy(w, n)
  BY <1>2, <1>4 DEF IInv, WorksOK, Free
<1>6. b \in BlocksOf(accepted[n]) /\ OnTheWay(w, b) = 1
  BY <1>2, <1>4, <1>5 DEF Busy
<1>7. ~ InBufferNow(w, b)
  BY <1>4, <1>6, InBufferCount
<1>8. r.total_block_count = Len(accepted[n].blocks)
  BY <1>1, <1>5 DEF Busy, TotalIs, w
<1> QED BY <1>1, <1>5, <1>6, <1>7, <1>8 DEF w, b

LEMMA MergedFacts ==
  ASSUME IInv, NEW r \in Result, NEW n \in DOMAIN accepted,
         Busy(r.work_id, n), r.block_id \in BlocksOf(accepted[n]),
         ~ InBufferNow(r.work_id, r.block_id),
         r.total_block_count = Len(accepted[n].blocks)
  PROVE  /\ accepted[n] \in Requests
         /\ Merged(r).blocks = BufferFor(r).blocks \cup {r.block_id}
         /\ Merged(r).blocks \subseteq BlocksOf(accepted[n])
         /\ Merged(r).block_count = Cardinality(Merged(r).blocks)
         /\ Merged(r).block_count \in 1 .. Len(accepted[n].blocks)
         /\ Merged(r).total_block_count = Len(accepted[n].blocks)
         /\ Merged(r) \in BlockBuffer
<1> DEFINE w == r.work_id
           s == accepted[n]
           old == BufferFor(r)
<1>1. s \in Requests
  BY LenProperties, ElementOfSeq DEF IInv, TypeOK
<1>2. /\ Len(s.blocks) \in Nat /\ IsFiniteSet(BlocksOf(s)) /\ BlocksOf(s) \subseteq BlockIds
      /\ Cardinality(BlocksOf(s)) = Len(s.blocks)
  BY <1>1, SnippetFacts
<1>3. w \in WorkIds
  BY DEF Result
<1>4. /\ old.blocks \subseteq BlocksOf(s) /\ r.block_id \notin old.blocks
      /\ old.block_count = Cardinality(old.blocks)
      /\ old.total_block_count = Len(s.blocks)
  <2>1. CASE w \in DOMAIN m_MergeManager
    <3>1. /\ old = m_MergeManager[w] /\ old \in BlockBuffer
      BY <2>1 DEF BufferFor, IInv, TypeOK
    <3>2. ASSUME NEW v \in old.blocks PROVE v \in BlocksOf(s)
      <4>1. v \in BlockIds /\ InBufferNow(w, v)
        BY <2>1, <3>1 DEF BlockBuffer, InBufferNow
      <4>2. Cardinality(InBuffer(w, v)) = 1
        BY <4>1, InBufferCount
      <4>3. OnTheWay(w, v) # 0
        BY <4>2, WayTypes DEF OnTheWay
      <4> QED BY <4>1, <4>3 DEF Busy
    <3>3. r.block_id \notin old.blocks
      BY <2>1, <3>1 DEF InBufferNow
    <3>4. old.block_count = Cardinality(old.blocks)
      BY <2>1, <3>1 DEF IInv, BufferCounts
    <3>5. old.total_block_count = Len(s.blocks)
      BY <2>1, <3>1 DEF Busy, TotalIs
    <3> QED BY <3>2, <3>3, <3>4, <3>5
  <2>2. CASE w \notin DOMAIN m_MergeManager
    <3>1. old = [blocks |-> {}, block_count |-> 0, total_block_count |-> r.total_block_count]
      BY <2>2 DEF BufferFor, NewBlockBuffer
    <3> QED BY <3>1, FS_EmptySet
  <2> QED BY <2>1, <2>2
<1> HIDE DEF old
<1>5. Merged(r) = [blocks |-> old.blocks \cup {r.block_id}, block_count |-> old.block_count + 1,
                   total_block_count |-> old.total_block_count]
  BY DEF Merged, old
<1>6. IsFiniteSet(old.blocks)
  BY <1>2, <1>4, FS_Subset
<1>7. Cardinality(old.blocks) \in Nat
      /\ Cardinality(old.blocks \cup {r.block_id}) = Cardinality(old.blocks) + 1
  BY <1>4, <1>6, FS_AddElement, FS_CardinalityType
<1>8. old.blocks \cup {r.block_id} \subseteq BlocksOf(s)
  BY <1>4
<1>9. Cardinality(old.blocks \cup {r.block_id}) <= Len(s.blocks)
  BY <1>2, <1>8, FS_Subset
<1>10. Len(s.blocks) \in TotalBlockCounts /\ Len(s.blocks) \in Nat
  BY <1>1, SnippetFacts
<1> HIDE DEF s
<1>11. Merged(r) \in BlockBuffer
  BY <1>2, <1>4, <1>5, <1>7, <1>8, <1>10 DEF BlockBuffer
<1>12. /\ Merged(r).blocks = old.blocks \cup {r.block_id}
       /\ Merged(r).block_count = old.block_count + 1
       /\ Merged(r).total_block_count = old.total_block_count
  BY <1>5
<1>13. Merged(r).block_count \in 1 .. Len(s.blocks)
  BY <1>2, <1>4, <1>7, <1>9, <1>12
<1> QED BY <1>1, <1>4, <1>7, <1>8, <1>11, <1>12, <1>13 DEF s, old

(* A block leaves MergeQueue; only InBuffer can change besides. *)
LEMMA MergeCounts ==
  ASSUME IInv, MergeBlock, NEW w, NEW b
  PROVE  /\ MergeQueue # <<>>
         /\ OnTheWay(w, b)' + Cardinality(InBuffer(w, b))
               + (IF Bears(Head(MergeQueue), w, b) THEN 1 ELSE 0)
            = OnTheWay(w, b) + Cardinality(InBuffer(w, b)')
         /\ Cardinality(InBuffer(w, b)') \in Nat
         /\ OnTheWay(w, b)' \in Nat
<1>1. /\ MergeQueue \in Seq(Result) /\ MergeQueue # <<>> /\ MergeQueue' = Tail(MergeQueue)
      /\ Tail(MergeQueue) \in Seq(Result)
  BY HeadTailProperties DEF IInv, TypeOK, MergeBlock
<1>2. In(MergeQueue, w, b)' = In(Tail(MergeQueue), w, b)
  BY <1>1 DEF In
<1>3. /\ Cardinality(In(MergeQueue, w, b)) = Cardinality(In(MergeQueue, w, b)')
            + IF Bears(Head(MergeQueue), w, b) THEN 1 ELSE 0
      /\ Cardinality(In(MergeQueue, w, b)') \in Nat
  <2>1. Cardinality(In(Tail(MergeQueue), w, b)) \in Nat
    BY <1>1, InFinite, Zenon
  <2>2. Cardinality(In(MergeQueue, w, b)) = Cardinality(In(Tail(MergeQueue), w, b))
            + IF Bears(Head(MergeQueue), w, b) THEN 1 ELSE 0
    BY <1>1, InPop
  <2> QED BY <1>2, <2>1, <2>2
<1>4. /\ Waiting(w, b)' = Waiting(w, b) /\ InScan(w, b)' = InScan(w, b)
      /\ In(FilterQueue, w, b)' = In(FilterQueue, w, b) /\ InFilter(w, b)' = InFilter(w, b)
  BY DEF MergeBlock, In, InScan, Unscanned, InFilter, Waiting
<1>5. Cardinality(InBuffer(w, b)') \in Nat
  BY InBufferCountNext
<1>6. /\ Cardinality(Waiting(w, b)) \in Nat /\ Cardinality(InScan(w, b)) \in Nat
      /\ Cardinality(In(FilterQueue, w, b)) \in Nat /\ Cardinality(InFilter(w, b)) \in Nat
      /\ Cardinality(InBuffer(w, b)) \in Nat
  BY CountTypes DEF IInv
<1>7. /\ Cardinality(Waiting(w, b)') = Cardinality(Waiting(w, b))
      /\ Cardinality(InScan(w, b)') = Cardinality(InScan(w, b))
      /\ Cardinality(In(FilterQueue, w, b)') = Cardinality(In(FilterQueue, w, b))
      /\ Cardinality(InFilter(w, b)') = Cardinality(InFilter(w, b))
  BY <1>4
<1>8. OnTheWay(w, b)' = Cardinality(Waiting(w, b)') + Cardinality(InScan(w, b)')
        + Cardinality(In(FilterQueue, w, b)') + Cardinality(InFilter(w, b)')
        + Cardinality(In(MergeQueue, w, b)') + Cardinality(InBuffer(w, b)')
  BY DEF OnTheWay
<1>9. OnTheWay(w, b) = Cardinality(Waiting(w, b)) + Cardinality(InScan(w, b))
        + Cardinality(In(FilterQueue, w, b)) + Cardinality(InFilter(w, b))
        + Cardinality(In(MergeQueue, w, b)) + Cardinality(InBuffer(w, b))
  BY DEF OnTheWay
<1>10. OnTheWay(w, b)' \in Nat
  BY <1>3, <1>5, <1>6, <1>7, <1>8
<1>11. CASE Bears(Head(MergeQueue), w, b)
  <2>1. Cardinality(In(MergeQueue, w, b)) = Cardinality(In(MergeQueue, w, b)') + 1
    BY <1>3, <1>11
  <2>2. OnTheWay(w, b)' + Cardinality(InBuffer(w, b)) + 1
           = OnTheWay(w, b) + Cardinality(InBuffer(w, b)')
    BY <1>3, <1>5, <1>6, <1>7, <1>8, <1>9, <2>1
  <2> QED BY <1>1, <1>5, <1>10, <1>11, <2>2
<1>12. CASE ~ Bears(Head(MergeQueue), w, b)
  BY <1>1, <1>3, <1>5, <1>6, <1>7, <1>8, <1>9, <1>10, <1>12
<1> QED BY <1>11, <1>12

(* The head of the queue is merged, and the work is not complete. *)
\* A step of Merge is one of a process that runs.
LEMMA MergeRuns == ASSUME IInv, MergeBlock PROVE process' \in {"up", "hung", "down"}
  BY DEF MergeBlock

LEMMA StoreInvariant ==
  ASSUME IInv, MergeBlock, ~ IsComplete(Merged(Head(MergeQueue)))
  PROVE  IInv'
<1> DEFINE r == Head(MergeQueue)
           c == Merged(r)
<1>1. MergeQueue # <<>>
  BY DEF MergeBlock
<1>2. r \in Result
  BY <1>1, HeadIsBusy
<1>3. PICK n \in DOMAIN accepted :
         /\ Busy(r.work_id, n) /\ r.block_id \in BlocksOf(accepted[n])
         /\ ~ InBufferNow(r.work_id, r.block_id)
         /\ r.total_block_count = Len(accepted[n].blocks)
  BY <1>1, HeadIsBusy
<1>4. /\ accepted[n] \in Requests /\ c.blocks = BufferFor(r).blocks \cup {r.block_id}
      /\ c.block_count = Cardinality(c.blocks) /\ c.block_count \in 1 .. Len(accepted[n].blocks)
      /\ c.total_block_count = Len(accepted[n].blocks) /\ c \in BlockBuffer
  BY <1>2, <1>3, MergedFacts
<1>5. /\ m_MergeManager' = StoreWork(r.work_id, c) /\ sent' = sent /\ accepted' = accepted
      /\ MergeQueue' = Tail(MergeQueue)
      /\ UNCHANGED <<ScanQueue, scanning, next_block, FilterQueue, filtering>>
  BY DEF MergeBlock
<1>6. r.work_id \in WorkIds
  BY <1>2 DEF Result
<1> HIDE DEF c, r
<1>7. /\ DOMAIN m_MergeManager' = DOMAIN m_MergeManager \cup {r.work_id}
      /\ m_MergeManager'[r.work_id] = c
      /\ \A v \in DOMAIN m_MergeManager : v # r.work_id => m_MergeManager'[v] = m_MergeManager[v]
  BY <1>5 DEF StoreWork
<1>8. TypeOK'
  <2>1. MergeQueue' \in Seq(Result)
    BY <1>1, <1>5, HeadTailProperties DEF IInv, TypeOK
  <2>2. Len(accepted[n].blocks) \in Nat
    BY <1>4, SnippetFacts
  <2>3. c.total_block_count # c.block_count
    BY DEF IsComplete, c, r
  <2>4. c.block_count \in 1 .. c.total_block_count - 1
    BY <1>4, <2>2, <2>3
  <2>5. DOMAIN m_MergeManager' \subseteq WorkIds
    BY <1>6, <1>7 DEF IInv, TypeOK
  <2>6. \A v \in DOMAIN m_MergeManager' :
           /\ m_MergeManager'[v] \in BlockBuffer
           /\ m_MergeManager'[v].block_count \in 1 .. m_MergeManager'[v].total_block_count - 1
    BY <1>4, <1>7, <2>4 DEF IInv, TypeOK
  <2>7. sent' \in Seq([work_id : WorkIds, blocks : SUBSET BlockIds])
    BY <1>5 DEF IInv, TypeOK
  <2>8. accepted' \in Seq(Requests) /\ ScanQueue' \in Seq(Requests)
        /\ scanning' \in Requests \cup {Idle} /\ next_block' \in Nat \ {0}
        /\ (scanning' # Idle => next_block' <= Len(scanning'.blocks) + 1)
        /\ FilterQueue' \in Seq(Result) /\ filtering' \in [Filters -> Result \cup {Idle}]
    BY <1>5 DEF IInv, TypeOK
  <2> QED BY <2>1, <2>5, <2>6, <2>7, <2>8, MergeRuns DEF TypeOK
<1>9. BufferCounts'
  BY <1>4, <1>7 DEF IInv, BufferCounts
<1>10. ASSUME NEW w \in WorkIds, NEW b \in BlockIds PROVE OnTheWay(w, b)' = OnTheWay(w, b)
  <2>1. Cardinality(InBuffer(w, b)')
           = Cardinality(InBuffer(w, b)) + IF Bears(r, w, b) THEN 1 ELSE 0
    <3>1. CASE w = r.work_id
      <4>1. InBufferNow(w, b)' <=> b \in c.blocks
        BY <1>7, <3>1 DEF InBufferNow
      <4>2. InBufferNow(w, b) <=> b \in BufferFor(r).blocks
        BY <3>1 DEF InBufferNow, BufferFor, NewBlockBuffer
      <4>3. InBufferNow(w, b)' <=> InBufferNow(w, b) \/ Bears(r, w, b)
        BY <1>4, <3>1, <4>1, <4>2 DEF Bears
      <4>4. ~ (InBufferNow(w, b) /\ Bears(r, w, b))
        BY <1>3 DEF Bears
      <4> QED BY <4>3, <4>4, InBufferCount, InBufferCountNext
    <3>2. CASE w # r.work_id
      <4>1. InBufferNow(w, b)' <=> InBufferNow(w, b)
        BY <1>7, <3>2 DEF InBufferNow
      <4> QED BY <3>2, <4>1, InBufferCount, InBufferCountNext DEF Bears
    <3> QED BY <3>1, <3>2
  <2> QED BY <2>1, MergeCounts, CountTypes DEF r, IInv
<1>11. ASSUME NEW w \in WorkIds, NEW m \in Nat, TotalIs(w, m) PROVE TotalIs(w, m)'
  <2>1. /\ \A k \in DOMAIN MergeQueue' : k + 1 \in DOMAIN MergeQueue /\ MergeQueue'[k] = MergeQueue[k + 1]
        /\ 1 \in DOMAIN MergeQueue /\ r = MergeQueue[1]
    BY <1>1, <1>5, TailElements, LenProperties, EmptySeq DEF IInv, TypeOK, r
  <2>2. \A k \in DOMAIN MergeQueue' : MergeQueue'[k].work_id = w => MergeQueue'[k].total_block_count = m
    BY <1>11, <2>1 DEF TotalIs
  <2>3. r.work_id = w => r.total_block_count = m
    BY <1>11, <2>1 DEF TotalIs
  <2>4. w \in DOMAIN m_MergeManager' => m_MergeManager'[w].total_block_count = m
    BY <1>3, <1>4, <1>7, <1>11, <2>3 DEF TotalIs
  <2> QED BY <1>5, <1>11, <2>2, <2>4 DEF TotalIs
<1>12. AcceptedOnce' /\ WorksOK' /\ BlocksAccounted'
  BY <1>5, <1>10, <1>11, Moved
<1> QED BY <1>8, <1>9, <1>12 DEF IInv

(* The head of the queue completes its work, which is answered and forgotten. *)
LEMMA EraseInvariant ==
  ASSUME IInv, MergeBlock, IsComplete(Merged(Head(MergeQueue)))
  PROVE  IInv'
<1> DEFINE r == Head(MergeQueue)
           c == Merged(r)
           a == [work_id |-> r.work_id, blocks |-> c.blocks]
<1>1. MergeQueue # <<>>
  BY DEF MergeBlock
<1>2. r \in Result /\ r.work_id \in WorkIds
  BY <1>1, HeadIsBusy DEF Result
<1>3. PICK n \in DOMAIN accepted :
         /\ Busy(r.work_id, n) /\ r.block_id \in BlocksOf(accepted[n])
         /\ ~ InBufferNow(r.work_id, r.block_id)
         /\ r.total_block_count = Len(accepted[n].blocks)
  BY <1>1, HeadIsBusy
<1>4. /\ accepted[n] \in Requests /\ c.blocks = BufferFor(r).blocks \cup {r.block_id}
      /\ c.blocks \subseteq BlocksOf(accepted[n])
      /\ c.block_count = Cardinality(c.blocks)
      /\ c.total_block_count = Len(accepted[n].blocks)
  BY <1>2, <1>3, MergedFacts
<1>5. c.blocks = BlocksOf(accepted[n])
  <2>1. c.total_block_count = c.block_count
    BY DEF IsComplete
  <2>2. Cardinality(c.blocks) = Cardinality(BlocksOf(accepted[n])) /\ IsFiniteSet(BlocksOf(accepted[n]))
    BY <1>4, <2>1, SnippetFacts
  <2> HIDE DEF c
  <2> QED BY <1>4, <2>2, FS_Subset
<1>6. /\ m_MergeManager' = EraseWork(r.work_id) /\ sent' = Append(sent, a)
      /\ MergeQueue' = Tail(MergeQueue)
      /\ UNCHANGED <<accepted, ScanQueue, scanning, next_block, FilterQueue, filtering>>
  BY DEF MergeBlock
<1>7. a \in AnswerRecord /\ a.work_id = r.work_id /\ a.blocks = BlocksOf(accepted[n])
  BY <1>2, <1>4, <1>5, SnippetFacts DEF AnswerRecord
<1> HIDE DEF a, c, r
<1>8. /\ DOMAIN m_MergeManager' = DOMAIN m_MergeManager \ {r.work_id}
      /\ \A v \in DOMAIN m_MergeManager' : m_MergeManager'[v] = m_MergeManager[v]
  BY <1>6 DEF EraseWork
<1>9. TypeOK'
  <2>1. MergeQueue' \in Seq(Result)
    BY <1>1, <1>6, HeadTailProperties DEF IInv, TypeOK
  <2>2. sent' \in Seq([work_id : WorkIds, blocks : SUBSET BlockIds])
    BY <1>6, <1>7, AppendProperties DEF IInv, TypeOK, AnswerRecord
  <2>3. DOMAIN m_MergeManager' \subseteq WorkIds
    BY <1>8 DEF IInv, TypeOK
  <2>4. \A v \in DOMAIN m_MergeManager' :
           /\ m_MergeManager'[v] \in BlockBuffer
           /\ m_MergeManager'[v].block_count \in 1 .. m_MergeManager'[v].total_block_count - 1
    BY <1>8 DEF IInv, TypeOK
  <2>5. accepted' \in Seq(Requests) /\ ScanQueue' \in Seq(Requests)
        /\ scanning' \in Requests \cup {Idle} /\ next_block' \in Nat \ {0}
        /\ (scanning' # Idle => next_block' <= Len(scanning'.blocks) + 1)
        /\ FilterQueue' \in Seq(Result) /\ filtering' \in [Filters -> Result \cup {Idle}]
    BY <1>6 DEF IInv, TypeOK
  <2> QED BY <2>1, <2>2, <2>3, <2>4, <2>5, MergeRuns DEF TypeOK
<1>10. BufferCounts'
  BY <1>8 DEF IInv, BufferCounts
<1>11. AcceptedOnce'
  BY <1>6 DEF IInv, AcceptedOnce, NoneTwice
<1>12. ASSUME NEW w \in WorkIds, NEW b \in BlockIds
       PROVE  /\ w # r.work_id => OnTheWay(w, b)' = OnTheWay(w, b)
              /\ w = r.work_id => OnTheWay(w, b)' = 0
              /\ OnTheWay(w, b)' + Cardinality(InAnswer(w, b)')
                    = OnTheWay(w, b) + Cardinality(InAnswer(w, b))
  <2>1. Cardinality(InAnswer(w, b)') = Cardinality(InAnswer(w, b))
           + IF r.work_id = w /\ b \in BlocksOf(accepted[n]) THEN 1 ELSE 0
    <3>1. Cardinality(InAnswer(w, b)') = Cardinality(InAnswer(w, b))
             + IF a.work_id = w /\ b \in a.blocks THEN 1 ELSE 0
      BY <1>6, <1>7, AnswerPush DEF IInv
    <3> QED BY <1>7, <3>1
  <2>2. Cardinality(InAnswer(w, b)) \in Nat
    BY AnswerCounts DEF IInv
  <2>3. CASE w # r.work_id
    <3>1. InBufferNow(w, b)' <=> InBufferNow(w, b)
      BY <1>8, <2>3 DEF InBufferNow
    <3>2. Cardinality(InBuffer(w, b)') = Cardinality(InBuffer(w, b))
      BY <3>1, InBufferCount, InBufferCountNext
    <3>3. ~ Bears(Head(MergeQueue), w, b)
      BY <2>3 DEF Bears, r
    <3>4. OnTheWay(w, b) \in Nat /\ OnTheWay(w, b)' \in Nat /\ Cardinality(InBuffer(w, b)) \in Nat
      BY MergeCounts, CountTypes DEF IInv
    <3>5. OnTheWay(w, b)' + Cardinality(InBuffer(w, b)) + 0
             = OnTheWay(w, b) + Cardinality(InBuffer(w, b)')
      BY <3>3, MergeCounts
    <3>6. OnTheWay(w, b)' = OnTheWay(w, b)
      BY <3>2, <3>4, <3>5
    <3> QED BY <2>1, <2>2, <2>3, <3>4, <3>6
  <2>4. CASE w = r.work_id
    <3>1. Cardinality(InBuffer(w, b)') = 0
      <4>1. ~ InBufferNow(w, b)'
        BY <1>8, <2>4 DEF InBufferNow
      <4> QED BY <4>1, InBufferCountNext
    <3>2. OnTheWay(w, b) = IF b \in BlocksOf(accepted[n]) THEN 1 ELSE 0
      BY <1>3, <2>4 DEF Busy
    <3>3. InBufferNow(w, b) <=> b \in BufferFor(r).blocks
      BY <2>4 DEF InBufferNow, BufferFor, NewBlockBuffer
    <3>4. Bears(r, w, b) <=> b = r.block_id
      BY <2>4 DEF Bears
    <3>5. b \in BlocksOf(accepted[n]) <=> InBufferNow(w, b) \/ Bears(r, w, b)
      BY <1>4, <1>5, <3>3, <3>4
    <3>6. ~ (InBufferNow(w, b) /\ Bears(r, w, b))
      BY <1>3, <2>4, <3>4
    <3>7. OnTheWay(w, b) = Cardinality(InBuffer(w, b)) + IF Bears(r, w, b) THEN 1 ELSE 0
      BY <3>2, <3>5, <3>6, InBufferCount
    <3>8. OnTheWay(w, b)' + Cardinality(InBuffer(w, b)) + (IF Bears(r, w, b) THEN 1 ELSE 0)
             = OnTheWay(w, b)
      BY <3>1, MergeCounts, CountTypes DEF r, IInv
    <3>9. OnTheWay(w, b)' \in Nat /\ Cardinality(InBuffer(w, b)) \in Nat
      BY MergeCounts, CountTypes DEF IInv
    <3>10. OnTheWay(w, b)' = 0
      BY <3>7, <3>8, <3>9
    <3> QED BY <2>1, <2>2, <2>4, <3>2, <3>10
  <2> QED BY <2>3, <2>4
<1>13. BlocksAccounted'
  <2>1. ASSUME NEW w \in WorkIds, NEW b \in BlockIds
        PROVE  OnTheWay(w, b)' + Cardinality(InAnswer(w, b)') = Cardinality(Named(w, b)')
    <3>1. OnTheWay(w, b) + Cardinality(InAnswer(w, b)) = Cardinality(Named(w, b))
      BY DEF IInv, BlocksAccounted, OnTheWay
    <3>2. Named(w, b)' = Named(w, b)
      BY <1>6 DEF Named, Arrived
    <3> QED BY <1>12, <3>1, <3>2
  <2> QED BY <2>1 DEF BlocksAccounted, OnTheWay
<1>14. WorksOK'
  <2> SUFFICES ASSUME NEW w \in WorkIds
               PROVE  Free(w)' \/ \E k \in DOMAIN accepted' : Busy(w, k)'
    BY DEF WorksOK
  <2>1. Cardinality(S!AnswersTo(w)')
           = Cardinality(S!AnswersTo(w)) + IF r.work_id = w THEN 1 ELSE 0
    <3>1. \A b : Cardinality(S!AnswersTo(w)')
             = Cardinality(S!AnswersTo(w)) + IF a.work_id = w THEN 1 ELSE 0
      BY <1>6, <1>7, AnswerPush DEF IInv
    <3> QED BY <1>7, <3>1
  <2>2. Cardinality(S!AnswersTo(w)) \in Nat
    BY AnswerCounts DEF IInv
  <2>3. WorksOf(w)' = WorksOf(w)
    BY <1>6 DEF WorksOf, S!WorksUpTo
  <2>4. CASE w = r.work_id
    <3>1. Cardinality(WorksOf(w)) = Cardinality(S!AnswersTo(w)) + 1
      BY <1>3, <2>4 DEF Busy
    <3>2. Free(w)'
      BY <1>12, <2>1, <2>3, <2>4, <3>1 DEF Free
    <3> QED BY <3>2
  <2>5. CASE w # r.work_id
    <3>1. Cardinality(S!AnswersTo(w)') = Cardinality(S!AnswersTo(w))
      BY <2>1, <2>2, <2>5
    <3>2. \A b \in BlockIds : OnTheWay(w, b)' = OnTheWay(w, b)
      BY <1>12, <2>5
    <3>3. ASSUME NEW m \in Nat, TotalIs(w, m) PROVE TotalIs(w, m)'
      <4>1. \A k \in DOMAIN MergeQueue' :
               k + 1 \in DOMAIN MergeQueue /\ MergeQueue'[k] = MergeQueue[k + 1]
        BY <1>1, <1>6, TailElements DEF IInv, TypeOK
      <4>2. \A k \in DOMAIN MergeQueue' :
               MergeQueue'[k].work_id = w => MergeQueue'[k].total_block_count = m
        BY <3>3, <4>1 DEF TotalIs
      <4>3. w \in DOMAIN m_MergeManager' => m_MergeManager'[w].total_block_count = m
        BY <1>8, <3>3 DEF TotalIs
      <4> QED BY <1>6, <3>3, <4>2, <4>3 DEF TotalIs
    <3>4. \A k \in DOMAIN accepted : k \in DOMAIN accepted' /\ accepted'[k] = accepted[k]
      BY <1>6
    <3>5. TypeOK /\ (Free(w) \/ \E k \in DOMAIN accepted : Busy(w, k))
      BY DEF IInv, WorksOK
    <3> QED BY <2>3, <3>1, <3>2, <3>3, <3>4, <3>5, IdKept
  <2> QED BY <2>4, <2>5
<1> QED BY <1>9, <1>10, <1>11, <1>13, <1>14 DEF IInv

LEMMA MergeBlockInvariant == ASSUME IInv, MergeBlock PROVE IInv'
  BY StoreInvariant, EraseInvariant
-----------------------------------------------------------------------------
(* A new snippet. *)

LEMMA CardinalityZero ==
  ASSUME NEW A, IsFiniteSet(A), Cardinality(A) = 0
  PROVE  A = {}
  BY FS_EmptySet

(* Nothing carries an id that has no block on its way. *)
LEMMA NothingLeft ==
  ASSUME TypeOK, BufferCounts, NEW w \in WorkIds, NEW n,
         \A b \in BlockIds : OnTheWay(w, b) = 0
  PROVE  TotalIs(w, n)
<1>1. ASSUME NEW b \in BlockIds
      PROVE  /\ Waiting(w, b) = {} /\ InScan(w, b) = {} /\ In(FilterQueue, w, b) = {}
             /\ InFilter(w, b) = {} /\ In(MergeQueue, w, b) = {} /\ ~ InBufferNow(w, b)
  <2>1. /\ Cardinality(Waiting(w, b)) = 0 /\ Cardinality(InScan(w, b)) = 0
        /\ Cardinality(In(FilterQueue, w, b)) = 0 /\ Cardinality(InFilter(w, b)) = 0
        /\ Cardinality(In(MergeQueue, w, b)) = 0 /\ Cardinality(InBuffer(w, b)) = 0
    BY CountTypes DEF OnTheWay
  <2>2. IsFiniteSet(Waiting(w, b))
    <3>1. Waiting(w, b) = Matching(ScanQueue, SnippetsOf(w, b))
      BY WaitingMatching DEF TypeOK, Waiting, WaitingIn
    <3> QED BY <3>1, MatchingFinite DEF TypeOK
  <2>3. IsFiniteSet(InScan(w, b)) /\ IsFiniteSet(InFilter(w, b))
    BY InScanCount, InFilterFinite DEF TypeOK
  <2>4. IsFiniteSet(In(FilterQueue, w, b)) /\ IsFiniteSet(In(MergeQueue, w, b))
    BY InFinite DEF TypeOK
  <2> QED BY <2>1, <2>2, <2>3, <2>4, CardinalityZero, InBufferCount
<1>2. ASSUME NEW k \in DOMAIN ScanQueue, ScanQueue[k].work_id = w, ScanQueue[k].blocks # <<>>
      PROVE  FALSE
  <2>1. ScanQueue[k] \in Requests
    BY LenProperties, ElementOfSeq DEF TypeOK
  <2>2. 1 \in DOMAIN ScanQueue[k].blocks
    BY <1>2, <2>1, SnippetFacts
  <2>3. ScanQueue[k].blocks[1] \in BlocksOf(ScanQueue[k])
    BY <2>2 DEF BlocksOf
  <2>4. ScanQueue[k].blocks[1] \in BlockIds
    BY <2>1, <2>3, SnippetFacts
  <2>5. k \in Waiting(w, ScanQueue[k].blocks[1])
    BY <1>2, <2>3 DEF Waiting
  <2> QED BY <1>1, <2>4, <2>5
<1>3. ASSUME scanning # Idle, scanning.work_id = w, next_block <= Len(scanning.blocks)
      PROVE  FALSE
  <2>1. scanning \in Requests /\ next_block \in Nat \ {0}
    BY <1>3 DEF TypeOK
  <2>2. next_block \in next_block .. Len(scanning.blocks) /\ next_block \in DOMAIN scanning.blocks
    BY <1>3, <2>1, SnippetFacts
  <2>3. scanning.blocks[next_block] \in BlockIds
    BY <2>1, <2>2, SnippetFacts DEF BlocksOf
  <2>4. next_block \in InScan(w, scanning.blocks[next_block])
    BY <1>3, <2>2 DEF InScan, Unscanned
  <2> QED BY <1>1, <2>3, <2>4
<1>4. ASSUME NEW k \in DOMAIN FilterQueue, FilterQueue[k].work_id = w
      PROVE  FALSE
  <2>1. FilterQueue[k] \in Result
    BY LenProperties, ElementOfSeq DEF TypeOK
  <2>2. FilterQueue[k].block_id \in BlockIds
    BY <2>1 DEF Result
  <2>3. k \in In(FilterQueue, w, FilterQueue[k].block_id)
    BY <1>4 DEF In
  <2> QED BY <1>1, <2>2, <2>3
<1>5. ASSUME NEW f \in Filters, filtering[f] # Idle, filtering[f].work_id = w
      PROVE  FALSE
  <2>1. filtering[f] \in Result
    BY <1>5 DEF TypeOK
  <2>2. filtering[f].block_id \in BlockIds
    BY <2>1 DEF Result
  <2>3. f \in InFilter(w, filtering[f].block_id)
    BY <1>5 DEF InFilter
  <2> QED BY <1>1, <2>2, <2>3
<1>6. ASSUME NEW k \in DOMAIN MergeQueue, MergeQueue[k].work_id = w
      PROVE  FALSE
  <2>1. MergeQueue[k] \in Result
    BY LenProperties, ElementOfSeq DEF TypeOK
  <2>2. MergeQueue[k].block_id \in BlockIds
    BY <2>1 DEF Result
  <2>3. k \in In(MergeQueue, w, MergeQueue[k].block_id)
    BY <1>6 DEF In
  <2> QED BY <1>1, <2>2, <2>3
<1>7. ASSUME w \in DOMAIN m_MergeManager
      PROVE  FALSE
  <2>1. /\ m_MergeManager[w].blocks \subseteq BlockIds
        /\ m_MergeManager[w].block_count \in 1 .. m_MergeManager[w].total_block_count - 1
        /\ m_MergeManager[w].block_count = Cardinality(m_MergeManager[w].blocks)
    BY <1>7 DEF TypeOK, BufferCounts, BlockBuffer
  <2>2. m_MergeManager[w].blocks # {}
    <3>1. m_MergeManager[w].total_block_count \in Nat
      BY <1>7, SnippetFacts DEF TypeOK, BlockBuffer, TotalBlockCounts
    <3>2. Cardinality(m_MergeManager[w].blocks) # 0
      BY <2>1, <3>1
    <3> QED BY <3>2, FS_EmptySet
  <2>3. PICK b \in m_MergeManager[w].blocks : TRUE
    BY <2>2
  <2>4. b \in BlockIds /\ InBufferNow(w, b)
    BY <1>7, <2>1, <2>3 DEF InBufferNow
  <2> QED BY <1>1, <2>4
<1> QED BY <1>2, <1>3, <1>4, <1>5, <1>6, <1>7 DEF TotalIs

(* Service extends FiniteSets itself: to the provers its Cardinality is another. *)
LEMMA ServiceCardinality == \A A : S!Cardinality(A) = Cardinality(A)
  BY DEF S!Cardinality, Cardinality

(* The snippet that keeps an id busy is the one without an answer. *)
LEMMA LastIsUnanswered ==
  ASSUME IInv, NEW w, NEW n \in DOMAIN accepted, Busy(w, n)
  PROVE  /\ accepted[n].work_id = w /\ accepted[n].blocks # <<>>
         /\ ~ S!Answered(accepted[n])
<1>1. accepted[n].work_id = w /\ accepted[n].blocks # <<>>
  BY DEF Busy, S!WorksUpTo
<1>2. ASSUME S!Answered(accepted[n]) PROVE FALSE
  <2>1. PICK m \in DOMAIN accepted :
           /\ accepted[m] = accepted[n]
           /\ Cardinality(S!WorksUpTo(m, w)) <= Cardinality(S!AnswersTo(w))
    <3>1. \A t : S!Answered(t) /\ t.work_id = w =>
             \E m \in DOMAIN accepted :
                /\ accepted[m] = t
                /\ Cardinality(S!WorksUpTo(m, w)) <= Cardinality(S!AnswersTo(w))
      BY ServiceCardinality DEF S!Answered
    <3> QED BY <1>1, <1>2, <3>1, Zenon
  <2>2. m = n
    BY <2>1 DEF IInv, AcceptedOnce, NoneTwice
  <2>3. Cardinality(S!AnswersTo(w)) \in Nat
    BY AnswerCounts DEF IInv
  <2>4. Cardinality(S!AnswersTo(w)) + 1 <= Cardinality(S!AnswersTo(w))
    BY <2>1, <2>2 DEF Busy
  <2> QED BY <2>3, <2>4
<1> QED BY <1>1, <1>2

(* The host may send a snippet only with an id that is free here as well. *)
LEMMA IdIsFree ==
  ASSUME IInv, NEW w \in WorkIds, S!IsFree(w)
  PROVE  Free(w)
<1>1. ASSUME NEW n \in DOMAIN accepted, Busy(w, n) PROVE FALSE
  <2>1. accepted[n].work_id = w /\ accepted[n].blocks # <<>> /\ ~ S!Answered(accepted[n])
    BY <1>1, LastIsUnanswered
  <2> QED BY <2>1 DEF S!IsFree, S!Arrived
<1> QED BY <1>1 DEF IInv, WorksOK

LEMMA WorksFinite ==
  ASSUME TypeOK, NEW n \in Nat, NEW w
  PROVE  IsFiniteSet(S!WorksUpTo(n, w)) /\ Cardinality(S!WorksUpTo(n, w)) \in Nat
<1>1. IsFiniteSet(1 .. n)
  BY FS_Interval
<1>2. IsFiniteSet(S!WorksUpTo(n, w))
  BY <1>1, FS_Subset DEF S!WorksUpTo
<1> QED BY <1>2, FS_CardinalityType

LEMMA NamedFinite ==
  ASSUME TypeOK, NEW w, NEW b
  PROVE  IsFiniteSet(Named(w, b)) /\ Cardinality(Named(w, b)) \in Nat
<1>1. IsFiniteSet(DOMAIN accepted)
  <2>1. DOMAIN accepted = 1 .. Len(accepted) /\ Len(accepted) \in Nat
    BY LenProperties DEF TypeOK
  <2> QED BY <2>1, FS_Interval
<1>2. accepted \in Surjection(DOMAIN accepted, Arrived)
  <2>1. accepted \in [DOMAIN accepted -> Arrived]
    BY LenProperties DEF TypeOK, Arrived
  <2> QED BY <2>1 DEF Surjection, Arrived
<1>3. IsFiniteSet(Arrived)
  BY <1>1, <1>2, FS_Surjection
<1>4. IsFiniteSet(Named(w, b))
  BY <1>3, FS_Subset DEF Named
<1> QED BY <1>4, FS_CardinalityType

LEMMA InputSnippetInvariant ==
  ASSUME IInv, NEW s \in Requests, InputSnippet(s)
  PROVE  IInv'
<1> DEFINE u == s.work_id
           last == Len(accepted) + 1
<1>1. /\ accepted' = Append(accepted, s) /\ ScanQueue' = Append(ScanQueue, s)
      /\ UNCHANGED <<scanning, next_block, FilterQueue, filtering, MergeQueue,
                      m_MergeManager, sent, process>>
      /\ s \notin Arrived /\ S!IsFree(u)
  BY DEF InputSnippet, push_work
<1>2. /\ accepted \in Seq(Requests) /\ ScanQueue \in Seq(Requests)
      /\ u \in WorkIds
  BY SnippetFacts DEF IInv, TypeOK
<1>3. /\ Len(accepted) \in Nat /\ DOMAIN accepted = 1 .. Len(accepted)
      /\ accepted' \in Seq(Requests) /\ Len(accepted') = last
      /\ DOMAIN accepted' = 1 .. last /\ last \in DOMAIN accepted'
      /\ accepted'[last] = s /\ last \notin DOMAIN accepted
      /\ \A k \in DOMAIN accepted : k \in DOMAIN accepted' /\ accepted'[k] = accepted[k]
  <2>1. Len(accepted) \in Nat /\ DOMAIN accepted = 1 .. Len(accepted)
    BY <1>2, LenProperties
  <2>2. /\ accepted' \in Seq(Requests) /\ Len(accepted') = last
        /\ accepted'[last] = s /\ \A k \in 1 .. Len(accepted) : accepted'[k] = accepted[k]
    BY <1>1, <1>2, AppendProperties
  <2>3. DOMAIN accepted' = 1 .. last
    BY <2>2, LenProperties
  <2> QED BY <2>1, <2>2, <2>3
<1>4. Free(u)
  BY <1>1, <1>2, IdIsFree
<1> HIDE DEF u, last
<1>5. TypeOK'
  <2>1. ScanQueue' \in Seq(Requests)
    BY <1>1, <1>2, AppendProperties
  <2> QED BY <1>1, <1>3, <2>1 DEF IInv, TypeOK
<1>6. BufferCounts'
  BY <1>1 DEF IInv, BufferCounts
<1>7. AcceptedOnce'
  <2>1. \A k \in DOMAIN accepted : accepted[k] # s
    BY <1>1 DEF Arrived
  <2>2. \A k \in DOMAIN accepted' : k = last \/ k \in DOMAIN accepted
    BY <1>3 DEF last
  <2> QED BY <1>3, <2>1, <2>2 DEF IInv, AcceptedOnce, NoneTwice
<1>8. ASSUME NEW w \in WorkIds, NEW b \in BlockIds
      PROVE  OnTheWay(w, b)' = OnTheWay(w, b) + IF Names(s, w, b) THEN 1 ELSE 0
  <2>1. Cardinality(Waiting(w, b)')
           = Cardinality(Waiting(w, b)) + IF Names(s, w, b) THEN 1 ELSE 0
    BY <1>1, <1>2, WaitingPush
  <2>2. /\ InScan(w, b)' = InScan(w, b)
        /\ In(FilterQueue, w, b)' = In(FilterQueue, w, b) /\ InFilter(w, b)' = InFilter(w, b)
        /\ In(MergeQueue, w, b)' = In(MergeQueue, w, b) /\ InBuffer(w, b)' = InBuffer(w, b)
    BY <1>1 DEF In, InScan, Unscanned, InFilter, InBuffer
  <2> QED BY <2>1, <2>2, WayTypes DEF OnTheWay
<1>9. BlocksAccounted'
  <2>1. ASSUME NEW w \in WorkIds, NEW b \in BlockIds
        PROVE  OnTheWay(w, b)' + Cardinality(InAnswer(w, b)') = Cardinality(Named(w, b)')
    <3>1. OnTheWay(w, b) + Cardinality(InAnswer(w, b)) = Cardinality(Named(w, b))
      BY DEF IInv, BlocksAccounted, OnTheWay
    <3>2. InAnswer(w, b)' = InAnswer(w, b)
      BY <1>1 DEF InAnswer
    <3>3. Arrived' = Arrived \cup {s}
      <4>1. \A k \in DOMAIN accepted' : k = last \/ k \in DOMAIN accepted
        BY <1>3 DEF last
      <4> QED BY <1>3, <4>1 DEF Arrived
    <3>4. Named(w, b)' = IF Names(s, w, b) THEN Named(w, b) \cup {s} ELSE Named(w, b)
      BY <3>3 DEF Named, Names
    <3>5. s \notin Named(w, b)
      BY <1>1 DEF Named
    <3>6. IsFiniteSet(Named(w, b)) /\ Cardinality(Named(w, b)) \in Nat
      BY NamedFinite DEF IInv
    <3>7. Cardinality(Named(w, b)')
             = Cardinality(Named(w, b)) + IF Names(s, w, b) THEN 1 ELSE 0
      <4>1. CASE Names(s, w, b)
        BY <3>4, <3>5, <3>6, <4>1, OneMore
      <4>2. CASE ~ Names(s, w, b)
        BY <3>4, <3>6, <4>2
      <4> QED BY <4>1, <4>2
    <3>8. OnTheWay(w, b) \in Nat /\ Cardinality(InAnswer(w, b)) \in Nat
      BY CountTypes, AnswerCounts DEF IInv
    <3> QED BY <1>8, <3>1, <3>2, <3>7, <3>8
  <2> QED BY <2>1 DEF BlocksAccounted, OnTheWay
<1>10. ASSUME NEW w \in WorkIds
       PROVE  WorksOf(w)' = IF u = w /\ s.blocks # <<>> THEN WorksOf(w) \cup {last} ELSE WorksOf(w)
  <2>1. 1 .. Len(accepted') = 1 .. Len(accepted) \cup {last}
    BY <1>3 DEF last
  <2>2. WorksOf(w)' = {k \in 1 .. Len(accepted') :
                          accepted'[k].work_id = w /\ accepted'[k].blocks # <<>>}
    BY DEF WorksOf, S!WorksUpTo
  <2> QED BY <1>3, <2>1, <2>2 DEF WorksOf, S!WorksUpTo, u
<1>11. ASSUME NEW w \in WorkIds PROVE S!AnswersTo(w)' = S!AnswersTo(w)
  BY <1>1 DEF S!AnswersTo
<1>12. \A k \in DOMAIN ScanQueue' :
          \/ k \in DOMAIN ScanQueue /\ ScanQueue'[k] = ScanQueue[k]
          \/ ScanQueue'[k] = s
  BY <1>1, <1>2, AppendElements
<1>13. ASSUME NEW w \in WorkIds, NEW m, TotalIs(w, m),
              u = w /\ s.blocks # <<>> => Len(s.blocks) = m
       PROVE  TotalIs(w, m)'
  <2>1. \A k \in DOMAIN ScanQueue' : ScanQueue'[k].work_id = w /\ ScanQueue'[k].blocks # <<>>
                                         => Len(ScanQueue'[k].blocks) = m
    BY <1>12, <1>13 DEF TotalIs, u
  <2> QED BY <1>1, <1>13, <2>1 DEF TotalIs
<1>14. WorksOK'
  <2> SUFFICES ASSUME NEW w \in WorkIds
               PROVE  Free(w)' \/ \E k \in DOMAIN accepted' : Busy(w, k)'
    BY DEF WorksOK
  <2>1. CASE u = w /\ s.blocks # <<>>
    <3>1. WorksOf(w)' = WorksOf(w) \cup {last}
      BY <1>10, <2>1
    <3>2. last \notin WorksOf(w)
      BY <1>3 DEF WorksOf, S!WorksUpTo
    <3>3. Cardinality(WorksOf(w)') = Cardinality(S!AnswersTo(w)') + 1
      <4>1. IsFiniteSet(WorksOf(w)) /\ Cardinality(WorksOf(w)) \in Nat
        BY <1>3, WorksFinite DEF WorksOf, IInv
      <4>2. Cardinality(WorksOf(w)') = Cardinality(WorksOf(w)) + 1
        BY <3>1, <3>2, <4>1, OneMore
      <4> QED BY <1>4, <1>11, <2>1, <4>2 DEF Free
    <3>4. last \in WorksOf(w)'
      BY <3>1
    <3>5. ASSUME NEW n, n = last PROVE S!WorksUpTo(n, w)' = WorksOf(w)'
      <4>1. S!WorksUpTo(n, w)' = {k \in 1 .. n :
                                     accepted'[k].work_id = w /\ accepted'[k].blocks # <<>>}
        BY DEF S!WorksUpTo
      <4>2. WorksOf(w)' = {k \in 1 .. Len(accepted') :
                              accepted'[k].work_id = w /\ accepted'[k].blocks # <<>>}
        BY DEF WorksOf, S!WorksUpTo
      <4> QED BY <1>3, <3>5, <4>1, <4>2
    <3>6. \A b \in BlockIds : OnTheWay(w, b)' = IF b \in BlocksOf(s) THEN 1 ELSE 0
      BY <1>4, <1>8, <2>1 DEF Free, Names, u
    <3>7. TotalIs(w, Len(s.blocks))'
      <4>1. TotalIs(w, Len(s.blocks))
        BY <1>4, <2>1, NothingLeft DEF Free, IInv
      <4> QED BY <1>13, <4>1
    <3>8. ASSUME NEW n, n = last PROVE Busy(w, n)'
      <4>1. accepted'[n] = s /\ n \in WorksOf(w)' /\ S!WorksUpTo(n, w)' = WorksOf(w)'
        BY <1>3, <3>4, <3>5, <3>8
      <4>2. TotalIs(w, Len(accepted[n].blocks))'
        <5>1. \A m : m = Len(s.blocks) => TotalIs(w, m)'
          BY <3>7 DEF TotalIs
        <5> QED BY <4>1, <5>1 DEF TotalIs
      <4> QED BY <3>3, <3>6, <4>1, <4>2 DEF Busy
    <3> QED BY <1>3, <3>8
  <2>2. CASE ~ (u = w /\ s.blocks # <<>>)
    <3>1. WorksOf(w)' = WorksOf(w)
      BY <1>10, <2>2
    <3>2. ASSUME NEW b \in BlockIds PROVE OnTheWay(w, b)' = OnTheWay(w, b)
      <4>1. ~ Names(s, w, b)
        <5>1. s.blocks = <<>> => BlocksOf(s) = {}
          BY DEF BlocksOf
        <5> QED BY <2>2, <5>1 DEF Names, u
      <4> QED BY <1>8, <4>1, CountTypes DEF IInv
    <3>3. \A m \in Nat : TotalIs(w, m) => TotalIs(w, m)'
      BY <1>13, <2>2
    <3>4. TypeOK /\ (Free(w) \/ \E k \in DOMAIN accepted : Busy(w, k))
      BY DEF IInv, WorksOK
    <3>5. Cardinality(S!AnswersTo(w)') = Cardinality(S!AnswersTo(w))
      BY <1>11
    <3> QED BY <1>3, <3>1, <3>2, <3>3, <3>4, <3>5, IdKept
  <2> QED BY <2>1, <2>2
<1> QED BY <1>5, <1>6, <1>7, <1>9, <1>14 DEF IInv

-----------------------------------------------------------------------------
LEMMA InitInvariant == ASSUME Init PROVE IInv
<1> USE DEF Init
<1>1. /\ DOMAIN accepted = {} /\ DOMAIN ScanQueue = {} /\ DOMAIN FilterQueue = {}
      /\ DOMAIN MergeQueue = {} /\ DOMAIN m_MergeManager = {} /\ DOMAIN sent = {}
      /\ Len(accepted) = 0
  OBVIOUS
<1>2. \A T : <<>> \in Seq(T)
  OBVIOUS
<1>3. TypeOK
  <2>1. filtering \in [Filters -> Result \cup {Idle}]
    OBVIOUS
  <2> QED BY <1>1, <1>2, <2>1 DEF TypeOK
<1>4. AcceptedOnce /\ BufferCounts
  BY <1>1 DEF AcceptedOnce, NoneTwice, BufferCounts
<1>5. ASSUME NEW w \in WorkIds, NEW b \in BlockIds
      PROVE  OnTheWay(w, b) = 0 /\ Cardinality(InAnswer(w, b)) = 0 /\ Cardinality(Named(w, b)) = 0
  <2>1. /\ Waiting(w, b) = {} /\ InScan(w, b) = {} /\ In(FilterQueue, w, b) = {}
        /\ InFilter(w, b) = {} /\ In(MergeQueue, w, b) = {} /\ InBuffer(w, b) = {}
        /\ InAnswer(w, b) = {} /\ Named(w, b) = {}
    BY <1>1 DEF Waiting, InScan, In, InFilter, InBuffer, InAnswer, Named, Arrived
  <2>2. Cardinality({}) = 0
    BY FS_EmptySet
  <2>3. OnTheWay(w, b) = Cardinality({}) + Cardinality({}) + Cardinality({}) + Cardinality({})
                            + Cardinality({}) + Cardinality({})
    BY <2>1 DEF OnTheWay
  <2> QED BY <2>1, <2>2, <2>3
<1>6. WorksOK
  <2>1. ASSUME NEW w \in WorkIds PROVE WorksOf(w) = {} /\ S!AnswersTo(w) = {}
    BY <1>1 DEF WorksOf, S!WorksUpTo, S!AnswersTo
  <2> QED BY <1>5, <2>1 DEF WorksOK, Free
<1>7. BlocksAccounted
  BY <1>5 DEF BlocksAccounted, OnTheWay
<1> QED BY <1>3, <1>4, <1>6, <1>7 DEF IInv

\* What ends the process or hangs Merge leaves every block where it is.
LEMMA HaltKeepsBlocks == ASSUME Halt PROVE UNCHANGED blockVars /\ process' \in {"hung", "down"}
  BY DEF Halt, InputExits, ScanAborts, FilterThrows, MergeKilled, MergeHangs, ProcessEnds

LEMMA StutterInvariant ==
  ASSUME IInv, UNCHANGED blockVars, process' \in {"up", "hung", "down"}
  PROVE  IInv'
<1> USE DEF blockVars
<1>1. TypeOK'
  BY DEF IInv, TypeOK
<1>2. BufferCounts'
  BY DEF IInv, BufferCounts
<1>3. \A w \in WorkIds, b \in BlockIds : OnTheWay(w, b)' = OnTheWay(w, b)
  BY DEF OnTheWay, Waiting, InScan, Unscanned, In, InFilter, InBuffer
<1>4. \A w \in WorkIds, n \in Nat : TotalIs(w, n) => TotalIs(w, n)'
  BY DEF TotalIs
<1> QED BY <1>1, <1>2, <1>3, <1>4, Moved DEF IInv

LEMMA StepInvariant == IInv /\ [Next]_vars => IInv'
<1> SUFFICES ASSUME IInv, [Next]_vars PROVE IInv'
  OBVIOUS
<1>1. CASE \E s \in Requests : InputSnippet(s)
  BY <1>1, InputSnippetInvariant
<1>2. CASE ScanStep
  BY <1>2, TakeSnippetInvariant, BlockScanInvariant, EndOfSnippetInvariant DEF ScanStep
<1>3. CASE \E f \in Filters : FilterStep(f)
  BY <1>3, TakeBlockInvariant, BlockFilterInvariant DEF FilterStep
<1>4. CASE MergeBlock
  BY <1>4, MergeBlockInvariant
<1>5. CASE Halt
  BY <1>5, HaltKeepsBlocks, StutterInvariant
<1>6. CASE UNCHANGED vars
  BY <1>6, StutterInvariant DEF vars, IInv, TypeOK
<1> QED BY <1>1, <1>2, <1>3, <1>4, <1>5, <1>6 DEF Next

LEMMA InvariantHolds == SafetySpec => []IInv
<1>1. Init => IInv
  BY InitInvariant
<1> QED BY <1>1, StepInvariant, PTL DEF SafetySpec

-----------------------------------------------------------------------------
(* The state of the pipeline is always well typed; in particular a stored  *)
(* block buffer counts fewer blocks than its work has (MergeManager::      *)
(* MergeBlock sends and erases it in the step that makes it complete).     *)
THEOREM TypeCorrect == SafetySpec => []TypeOK
<1>1. IInv => TypeOK
  BY DEF IInv
<1> QED BY <1>1, InvariantHolds, PTL

(* However the threads of main.cc interleave, every block that a snippet   *)
(* names is in exactly one place of the pipeline or in one answer.         *)
THEOREM BlocksCorrect == SafetySpec => []BlocksAccounted
<1>1. IInv => BlocksAccounted
  BY DEF IInv
<1> QED BY <1>1, InvariantHolds, PTL

-----------------------------------------------------------------------------
(* Each step of the pipeline is a step of the service or leaves it alone. *)
LEMMA InputAccepts ==
  ASSUME NEW s \in Requests, InputSnippet(s)
  PROVE  S!Accept(s)
  BY DEF InputSnippet, S!Accept, Arrived, S!Arrived

LEMMA MergeAnswers ==
  ASSUME IInv, MergeBlock
  PROVE  (\E s \in Requests : S!SendAnswer(s)) \/ UNCHANGED S!vars
<1> DEFINE r == Head(MergeQueue)
<1>1. CASE ~ IsComplete(Merged(r))
  BY <1>1 DEF MergeBlock, S!vars
<1>2. CASE IsComplete(Merged(r))
  <2>1. r \in Result /\ MergeQueue # <<>>
    BY HeadIsBusy DEF MergeBlock
  <2>2. PICK n \in DOMAIN accepted :
           /\ Busy(r.work_id, n) /\ r.block_id \in BlocksOf(accepted[n])
           /\ ~ InBufferNow(r.work_id, r.block_id)
           /\ r.total_block_count = Len(accepted[n].blocks)
    BY <2>1, HeadIsBusy
  <2>3. /\ accepted[n] \in Requests
        /\ Merged(r).blocks \subseteq BlocksOf(accepted[n])
        /\ Merged(r).block_count = Cardinality(Merged(r).blocks)
        /\ Merged(r).total_block_count = Len(accepted[n].blocks)
    BY <2>1, <2>2, MergedFacts
  <2>4. Merged(r).blocks = BlocksOf(accepted[n])
    <3>1. Merged(r).total_block_count = Merged(r).block_count
      BY <1>2 DEF IsComplete
    <3>2. Cardinality(Merged(r).blocks) = Cardinality(BlocksOf(accepted[n]))
             /\ IsFiniteSet(BlocksOf(accepted[n]))
      BY <2>3, <3>1, SnippetFacts
    <3> QED BY <2>3, <3>2, FS_Subset
  <2>5. /\ sent' = Append(sent, [work_id |-> r.work_id, blocks |-> Merged(r).blocks])
        /\ accepted' = accepted /\ process = "up" /\ process' = process
    BY <1>2 DEF MergeBlock
  <2>6. /\ accepted[n].work_id = r.work_id /\ accepted[n].blocks # <<>>
        /\ ~ S!Answered(accepted[n])
    BY <2>2, LastIsUnanswered
  <2>7. accepted[n] \in S!Arrived
    BY DEF S!Arrived
  <2>8. S!Answer(accepted[n]) = [work_id |-> r.work_id, blocks |-> Merged(r).blocks]
    BY <2>4, <2>6 DEF S!Answer, S!BlocksOf, BlocksOf
  <2>9. S!SendAnswer(accepted[n])
    BY <2>5, <2>6, <2>7, <2>8 DEF S!SendAnswer
  <2> QED BY <2>3, <2>9
<1> QED BY <1>1, <1>2

(* The threads of main.cc implement the safety of the service: InputSnippet *)
(* accepts a snippet, MergeBlock that completes a work sends the one answer *)
(* of the last snippet with its id, with exactly the blocks that it named,  *)
(* a thread that fails or hangs stops the service, after which no answer is *)
(* sent, and no other step is seen outside.                                 *)
THEOREM RefinesService == SafetySpec => S!SafetySpec
<1>1. Init => S!Init
  BY DEF Init, S!Init
<1>2. IInv /\ [Next]_vars => [S!Next]_(S!vars)
  <2> SUFFICES ASSUME IInv, [Next]_vars PROVE [S!Next]_(S!vars)
    OBVIOUS
  <2>1. CASE \E s \in Requests : InputSnippet(s)
    BY <2>1, InputAccepts DEF S!Next
  <2>2. CASE ScanStep
    BY <2>2 DEF ScanStep, TakeSnippet, BlockScan, EndOfSnippet, S!vars
  <2>3. CASE \E f \in Filters : FilterStep(f)
    BY <2>3 DEF FilterStep, TakeBlock, BlockFilter, S!vars
  <2>4. CASE MergeBlock
    BY <2>4, MergeAnswers DEF S!Next
  <2>5. CASE Halt
    BY <2>5, HaltKeepsBlocks DEF blockVars, S!Next, S!Stop
  <2>6. CASE UNCHANGED vars
    BY <2>6 DEF vars, blockVars, S!vars
  <2> QED BY <2>1, <2>2, <2>3, <2>4, <2>5, <2>6 DEF Next
<1> QED BY <1>1, <1>2, InvariantHolds, PTL DEF SafetySpec, S!SafetySpec
-----------------------------------------------------------------------------
(* How far blocks overtake one another: a second invariant.                  *)

\* The place, in the order of acceptance, of the snippet that keeps an id busy.
At(w) == CHOOSE n \in WorksOf(w) : S!WorksUpTo(n, w) = WorksOf(w)

\* How many snippets Scan has taken from its queue.
Scanned == Len(accepted) - Len(ScanQueue)

ScanInOrder ==
    /\ Scanned \in Nat
    /\ \A k \in DOMAIN ScanQueue : ScanQueue[k] = accepted[Scanned + k]
    /\ scanning # Idle => Scanned > 0 /\ scanning = accepted[Scanned]

FilterQueueInOrder ==
    \A p \in DOMAIN FilterQueue :
       /\ At(FilterQueue[p].work_id) <= Scanned
       /\ \A q \in DOMAIN FilterQueue :
             p <= q => At(FilterQueue[p].work_id) <= At(FilterQueue[q].work_id)

\* No block of a snippet before the j-th is in front of the filters.
Passed(j) ==
    /\ j <= Scanned
    /\ \A p \in DOMAIN FilterQueue : j <= At(FilterQueue[p].work_id)

\* The blocks of snippets before the j-th that Merge has still to get: those in
\* the filters, and those behind the p-th result in MergeQueue.
LateInFilters(j) == {f \in Filters : filtering[f] # Idle /\ At(filtering[f].work_id) < j}

LateInQueue(j, p) == {q \in DOMAIN MergeQueue : q > p /\ At(MergeQueue[q].work_id) < j}

FewLate(j, p) ==
    Cardinality(LateInFilters(j)) + Cardinality(LateInQueue(j, p)) < Cardinality(Filters)

\* Merge has got a block of the j-th snippet.
Begun(j) == UnmergedOf(accepted[j]) # BlocksOf(accepted[j])

OvertakenOnlyInFilters ==
    /\ \A f \in Filters : filtering[f] # Idle => Passed(At(filtering[f].work_id))
    /\ \A p \in DOMAIN MergeQueue :
          Passed(At(MergeQueue[p].work_id)) /\ FewLate(At(MergeQueue[p].work_id), p)
    /\ \A j \in DOMAIN accepted : Begun(j) => Passed(j) /\ FewLate(j, 0)

OInv == ScanInOrder /\ FilterQueueInOrder /\ OvertakenOnlyInFilters
-----------------------------------------------------------------------------
LEMMA AcceptedType ==
  ASSUME TypeOK
  PROVE  /\ Len(accepted) \in Nat /\ DOMAIN accepted = 1 .. Len(accepted)
         /\ \A n \in DOMAIN accepted : accepted[n] \in Requests /\ n \in Nat
  BY LenProperties, ElementOfSeq DEF TypeOK

(* The place of a snippet that is the last with its id. *)
AtIsLast == \A w, n : n \in WorksOf(w) /\ S!WorksUpTo(n, w) = WorksOf(w) => At(w) = n

LEMMA LastAt == TypeOK => AtIsLast
<1> USE DEF AtIsLast
<1> SUFFICES ASSUME TypeOK, NEW w, NEW n, n \in WorksOf(w), S!WorksUpTo(n, w) = WorksOf(w)
             PROVE  At(w) = n
  OBVIOUS
<1>1. ASSUME NEW m \in WorksOf(w), S!WorksUpTo(m, w) = WorksOf(w) PROVE m = n
  <2>1. n \in 1 .. m /\ m \in 1 .. n
    BY <1>1 DEF S!WorksUpTo
  <2> QED BY <2>1
<1>2. At(w) \in WorksOf(w) /\ S!WorksUpTo(At(w), w) = WorksOf(w)
  BY Zenon DEF At
<1> QED BY <1>1, <1>2

LEMMA BusyAt ==
  ASSUME TypeOK, NEW w, NEW n \in DOMAIN accepted, Busy(w, n)
  PROVE  At(w) = n
  BY LastAt DEF AtIsLast, Busy

(* A block that is on its way somewhere keeps the id of its snippet busy. *)
LEMMA WayIsBusy ==
  ASSUME IInv, NEW w \in WorkIds, NEW b \in BlockIds, OnTheWay(w, b) # 0
  PROVE  \E n \in DOMAIN accepted :
            Busy(w, n) /\ At(w) = n /\ b \in BlocksOf(accepted[n]) /\ OnTheWay(w, b) = 1
<1>1. PICK n \in DOMAIN accepted : Busy(w, n)
  BY DEF IInv, WorksOK, Free
<1>2. b \in BlocksOf(accepted[n]) /\ OnTheWay(w, b) = 1
  BY <1>1 DEF Busy
<1>3. At(w) = n
  BY <1>1, BusyAt DEF IInv
<1> QED BY <1>1, <1>2, <1>3

(* A block that is in some place is on its way; in two, it is so twice. *)
LEMMA SomewhereOnTheWay ==
  ASSUME TypeOK, NEW w, NEW b
  PROVE  /\ Cardinality(In(FilterQueue, w, b)) # 0 => OnTheWay(w, b) # 0
         /\ Cardinality(In(MergeQueue, w, b)) # 0 => OnTheWay(w, b) # 0
         /\ Cardinality(InFilter(w, b)) # 0 => OnTheWay(w, b) # 0
         /\ Cardinality(InScan(w, b)) # 0 => OnTheWay(w, b) # 0
         /\ Cardinality(InScan(w, b)) # 0 /\ Cardinality(Waiting(w, b)) # 0 => OnTheWay(w, b) # 1
<1>1. \A m, n, o, p, q, r \in Nat :
         /\ m # 0 => m + n + o + p + q + r # 0
         /\ n # 0 => m + n + o + p + q + r # 0
         /\ o # 0 => m + n + o + p + q + r # 0
         /\ p # 0 => m + n + o + p + q + r # 0
         /\ q # 0 => m + n + o + p + q + r # 0
         /\ m # 0 /\ n # 0 => m + n + o + p + q + r # 1
  OBVIOUS
<1> QED BY <1>1, CountTypes, Zenon DEF OnTheWay

(* The snippet that a result belongs to. *)
OfSnippet(r, n) == Busy(r.work_id, n) /\ At(r.work_id) = n /\ r.block_id \in BlocksOf(accepted[n])

LEMMA ResultIsBusy ==
  ASSUME IInv, NEW r \in Result, OnTheWay(r.work_id, r.block_id) # 0
  PROVE  \E n \in DOMAIN accepted : OfSnippet(r, n)
<1>1. r.work_id \in WorkIds /\ r.block_id \in BlockIds
  BY DEF Result
<1> QED BY <1>1, WayIsBusy DEF OfSnippet

LEMMA NotEmpty ==
  ASSUME NEW A, IsFiniteSet(A), NEW x \in A
  PROVE  Cardinality(A) # 0
  BY FS_EmptySet

LEMMA QueueResults ==
  ASSUME IInv
  PROVE  /\ \A p \in DOMAIN FilterQueue :
               FilterQueue[p] \in Result /\ \E n \in DOMAIN accepted : OfSnippet(FilterQueue[p], n)
         /\ \A p \in DOMAIN MergeQueue :
               MergeQueue[p] \in Result /\ \E n \in DOMAIN accepted : OfSnippet(MergeQueue[p], n)
         /\ \A f \in Filters : filtering[f] # Idle =>
               filtering[f] \in Result /\ \E n \in DOMAIN accepted : OfSnippet(filtering[f], n)
<1>1. FilterQueue \in Seq(Result) /\ MergeQueue \in Seq(Result)
  BY DEF IInv, TypeOK
<1>2. ASSUME NEW p \in DOMAIN FilterQueue
      PROVE  FilterQueue[p] \in Result /\ \E n \in DOMAIN accepted : OfSnippet(FilterQueue[p], n)
  <2> DEFINE r == FilterQueue[p]
  <2>1. r \in Result
    BY <1>1, LenProperties, ElementOfSeq
  <2>2. p \in In(FilterQueue, r.work_id, r.block_id)
    BY DEF In
  <2>3. Cardinality(In(FilterQueue, r.work_id, r.block_id)) # 0
    BY <1>1, <2>2, InFinite, NotEmpty
  <2> HIDE DEF r
  <2>4. OnTheWay(r.work_id, r.block_id) # 0
    BY <2>3, SomewhereOnTheWay DEF IInv
  <2> QED BY <2>1, <2>4, ResultIsBusy DEF r
<1>3. ASSUME NEW p \in DOMAIN MergeQueue
      PROVE  MergeQueue[p] \in Result /\ \E n \in DOMAIN accepted : OfSnippet(MergeQueue[p], n)
  <2> DEFINE r == MergeQueue[p]
  <2>1. r \in Result
    BY <1>1, LenProperties, ElementOfSeq
  <2>2. p \in In(MergeQueue, r.work_id, r.block_id)
    BY DEF In
  <2>3. Cardinality(In(MergeQueue, r.work_id, r.block_id)) # 0
    BY <1>1, <2>2, InFinite, NotEmpty
  <2> HIDE DEF r
  <2>4. OnTheWay(r.work_id, r.block_id) # 0
    BY <2>3, SomewhereOnTheWay DEF IInv
  <2> QED BY <2>1, <2>4, ResultIsBusy DEF r
<1>4. ASSUME NEW f \in Filters, filtering[f] # Idle
      PROVE  filtering[f] \in Result /\ \E n \in DOMAIN accepted : OfSnippet(filtering[f], n)
  <2> DEFINE r == filtering[f]
  <2>1. r \in Result
    BY <1>4 DEF IInv, TypeOK
  <2>2. f \in InFilter(r.work_id, r.block_id)
    BY <1>4 DEF InFilter
  <2>3. Cardinality(InFilter(r.work_id, r.block_id)) # 0
    BY <2>2, InFilterFinite, NotEmpty
  <2> HIDE DEF r
  <2>4. OnTheWay(r.work_id, r.block_id) # 0
    BY <2>3, SomewhereOnTheWay DEF IInv
  <2> QED BY <2>1, <2>4, ResultIsBusy DEF r
<1> QED BY <1>2, <1>3, <1>4

(* The places of the snippets whose blocks are between Scan and Merge. *)
LEMMA AtTypes ==
  ASSUME IInv
  PROVE  /\ \A p \in DOMAIN FilterQueue : At(FilterQueue[p].work_id) \in Nat
         /\ \A p \in DOMAIN MergeQueue : At(MergeQueue[p].work_id) \in Nat
         /\ \A f \in Filters : filtering[f] # Idle => At(filtering[f].work_id) \in Nat
<1>1. \A n \in DOMAIN accepted : n \in Nat
  BY AcceptedType DEF IInv
<1> QED BY <1>1, QueueResults DEF OfSnippet

LEMMA AtKept == ASSUME UNCHANGED accepted PROVE \A w : At(w)' = At(w)
<1>1. \A w, n : WorksOf(w)' = WorksOf(w) /\ S!WorksUpTo(n, w)' = S!WorksUpTo(n, w)
  BY DEF WorksOf, S!WorksUpTo
<1> QED BY <1>1 DEF At

(* What is late is a finite number of filters and of results. *)
LEMMA LateFinite ==
  ASSUME TypeOK, NEW j, NEW p
  PROVE  /\ IsFiniteSet(LateInFilters(j)) /\ Cardinality(LateInFilters(j)) \in Nat
         /\ IsFiniteSet(LateInQueue(j, p)) /\ Cardinality(LateInQueue(j, p)) \in Nat
<1>1. IsFiniteSet(LateInFilters(j))
  BY FiltersAssumption, FS_Subset DEF LateInFilters
<1>2. IsFiniteSet(DOMAIN MergeQueue)
  <2>1. DOMAIN MergeQueue = 1 .. Len(MergeQueue) /\ Len(MergeQueue) \in Nat
    BY LenProperties DEF TypeOK
  <2> QED BY <2>1, FS_Interval
<1>3. IsFiniteSet(LateInQueue(j, p))
  BY <1>2, FS_Subset DEF LateInQueue
<1> QED BY <1>1, <1>3, FS_CardinalityType
-----------------------------------------------------------------------------
LEMMA BegunKept ==
  ASSUME UNCHANGED <<accepted, sent, m_MergeManager>>
  PROVE  \A j : Begun(j)' <=> Begun(j)
<1>1. \A t : S!Answered(t)' <=> S!Answered(t)
  BY DEF S!Answered, S!WorksUpTo, S!AnswersTo
<1>2. \A t, b : IsMerged(t, b)' <=> IsMerged(t, b)
  BY <1>1 DEF IsMerged, InBuffer
<1> QED BY <1>2 DEF Begun, UnmergedOf

LEMMA LateKept ==
  ASSUME UNCHANGED <<accepted, filtering, MergeQueue>>
  PROVE  \A j, p : FewLate(j, p) => FewLate(j, p)'
<1>1. \A j, p : LateInFilters(j)' = LateInFilters(j) /\ LateInQueue(j, p)' = LateInQueue(j, p)
  BY AtKept DEF LateInFilters, LateInQueue
<1> QED BY <1>1 DEF FewLate

(* Scan's steps change nothing behind the filters. *)
LEMMA OvertakenKept ==
  ASSUME IInv, OInv, UNCHANGED <<accepted, filtering, MergeQueue, m_MergeManager, sent>>,
         \A j \in Nat : Passed(j) => Passed(j)'
  PROVE  OvertakenOnlyInFilters'
<1>1. ASSUME NEW f \in Filters, filtering'[f] # Idle PROVE Passed(At(filtering[f].work_id))'
  <2>1. Passed(At(filtering[f].work_id)) /\ At(filtering[f].work_id) \in Nat
    BY <1>1, AtTypes DEF OInv, OvertakenOnlyInFilters
  <2> QED BY <2>1, AtKept DEF Passed
<1>2. ASSUME NEW p \in DOMAIN MergeQueue
      PROVE  Passed(At(MergeQueue[p].work_id))' /\ FewLate(At(MergeQueue[p].work_id), p)'
  <2>1. /\ Passed(At(MergeQueue[p].work_id)) /\ At(MergeQueue[p].work_id) \in Nat
        /\ FewLate(At(MergeQueue[p].work_id), p)
    BY AtTypes DEF OInv, OvertakenOnlyInFilters
  <2>2. FewLate(At(MergeQueue[p].work_id), p)'
    <3>1. \A j : j = At(MergeQueue[p].work_id) => FewLate(j, p)'
      BY <2>1, LateKept
    <3> QED BY <3>1, AtKept DEF FewLate, LateInFilters, LateInQueue
  <2> QED BY <2>1, <2>2, AtKept DEF Passed
<1>3. ASSUME NEW j \in DOMAIN accepted, Begun(j)' PROVE Passed(j)' /\ FewLate(j, 0)'
  <2>1. Passed(j) /\ FewLate(j, 0) /\ j \in Nat
    BY <1>3, BegunKept, AcceptedType DEF IInv, OInv, OvertakenOnlyInFilters
  <2> QED BY <2>1, LateKept
<1> QED BY <1>1, <1>2, <1>3 DEF OvertakenOnlyInFilters

LEMMA TakeSnippetInOrder == ASSUME IInv, OInv, TakeSnippet PROVE OInv'
<1> USE DEF TakeSnippet
<1>1. /\ ScanQueue \in Seq(Requests) /\ Len(accepted) \in Nat
      /\ Len(ScanQueue) \in Nat \ {0} /\ DOMAIN ScanQueue = 1 .. Len(ScanQueue)
      /\ Len(ScanQueue') = Len(ScanQueue) - 1 /\ DOMAIN ScanQueue' = 1 .. Len(ScanQueue) - 1
      /\ \A k \in 1 .. Len(ScanQueue) - 1 : ScanQueue'[k] = ScanQueue[k + 1]
      /\ scanning' = ScanQueue[1]
  BY AcceptedType, HeadTailProperties, LenProperties, EmptySeq DEF IInv, TypeOK
<1>2. Scanned \in Nat /\ Scanned' = Scanned + 1
  BY <1>1 DEF OInv, ScanInOrder, Scanned
<1>3. ScanInOrder'
  <2>1. ASSUME NEW k \in DOMAIN ScanQueue' PROVE ScanQueue'[k] = accepted[(Scanned + 1) + k]
    <3>1. k + 1 \in DOMAIN ScanQueue /\ ScanQueue'[k] = ScanQueue[k + 1]
      BY <1>1
    <3>2. Scanned + (k + 1) = (Scanned + 1) + k
      BY <1>1, <1>2
    <3> QED BY <3>1, <3>2 DEF OInv, ScanInOrder
  <2>2. 1 \in DOMAIN ScanQueue
    BY <1>1
  <2>3. scanning' = accepted[Scanned + 1]
    BY <1>1, <2>2 DEF OInv, ScanInOrder
  <2> QED BY <1>2, <2>1, <2>3 DEF ScanInOrder
<1>4. FilterQueueInOrder'
  BY <1>2, AtKept, AtTypes DEF OInv, FilterQueueInOrder
<1>5. \A j \in Nat : Passed(j) => Passed(j)'
  BY <1>2, AtKept DEF Passed
<1> QED BY <1>3, <1>4, <1>5, OvertakenKept DEF OInv

(* The block that Scan puts into FilterQueue is of the snippet it took last. *)
LEMMA ScanningAt ==
  ASSUME IInv, ScanInOrder, scanning # Idle, next_block <= Len(scanning.blocks)
  PROVE  At(scanning.work_id) = Scanned
<1> DEFINE w == scanning.work_id
           b == scanning.blocks[next_block]
<1>1. scanning \in Requests /\ next_block \in 1 .. Len(scanning.blocks)
  BY SnippetFacts DEF IInv, TypeOK
<1>2. w \in WorkIds /\ b \in BlocksOf(scanning) /\ b \in BlockIds
  BY <1>1, SnippetFacts DEF BlocksOf
<1>3. next_block \in InScan(w, b)
  BY <1>1, SnippetFacts DEF InScan, Unscanned
<1>4. Cardinality(InScan(w, b)) # 0
  BY <1>3, InScanCount, NotEmpty DEF IInv, TypeOK
<1>5. PICK n \in DOMAIN accepted :
         Busy(w, n) /\ At(w) = n /\ b \in BlocksOf(accepted[n]) /\ OnTheWay(w, b) = 1
  BY <1>2, <1>4, SomewhereOnTheWay, WayIsBusy DEF IInv
<1>6. Scanned \in Nat /\ Scanned > 0 /\ scanning = accepted[Scanned]
  BY DEF ScanInOrder
<1>7. /\ Len(accepted) \in Nat /\ DOMAIN accepted = 1 .. Len(accepted)
      /\ Len(ScanQueue) \in Nat /\ DOMAIN ScanQueue = 1 .. Len(ScanQueue)
  BY AcceptedType, LenProperties DEF IInv, TypeOK
<1>8. Scanned \in WorksOf(w)
  <2>1. Scanned \in 1 .. Len(accepted)
    BY <1>6, <1>7 DEF Scanned
  <2>2. scanning.blocks # <<>>
    BY <1>1, SnippetFacts
  <2> QED BY <1>6, <2>1, <2>2 DEF WorksOf, S!WorksUpTo
<1>9. Scanned <= n
  BY <1>5, <1>8 DEF Busy, S!WorksUpTo
<1>10. ASSUME n > Scanned PROVE FALSE
  <2> DEFINE k == n - Scanned
  <2>1. k \in DOMAIN ScanQueue /\ Scanned + k = n
    BY <1>6, <1>7, <1>10 DEF Scanned
  <2>2. ScanQueue[k] = accepted[n]
    BY <2>1 DEF ScanInOrder
  <2>3. accepted[n].work_id = w
    BY <1>5 DEF Busy, WorksOf, S!WorksUpTo
  <2>4. k \in Waiting(w, b)
    BY <1>5, <2>1, <2>2, <2>3 DEF Waiting
  <2>5. IsFiniteSet(Waiting(w, b))
    <3>1. IsFiniteSet(DOMAIN ScanQueue)
      BY <1>7, FS_Interval
    <3> QED BY <3>1, FS_Subset DEF Waiting
  <2>6. Cardinality(Waiting(w, b)) # 0
    BY <2>4, <2>5, NotEmpty
  <2> QED BY <1>4, <1>5, <2>6, SomewhereOnTheWay DEF IInv
<1> QED BY <1>5, <1>6, <1>7, <1>9, <1>10

LEMMA BlockScanInOrder == ASSUME IInv, OInv, BlockScan PROVE OInv'
<1> USE DEF BlockScan, push_work
<1> DEFINE r == ScanResult(scanning, next_block)
           last == Len(FilterQueue) + 1
<1>1. /\ r \in Result /\ r.work_id = scanning.work_id
      /\ FilterQueue \in Seq(Result) /\ FilterQueue' = Append(FilterQueue, r)
  <2>1. scanning \in Requests /\ next_block \in 1 .. Len(scanning.blocks)
    BY SnippetFacts DEF IInv, TypeOK
  <2>2. /\ scanning.work_id \in WorkIds /\ Len(scanning.blocks) \in TotalBlockCounts
        /\ scanning.blocks[next_block] \in BlockIds
    BY <2>1, SnippetFacts, ElementOfSeq
  <2> QED BY <2>2 DEF ScanResult, Result, IInv, TypeOK
<1> HIDE DEF r
<1>2. /\ Len(FilterQueue) \in Nat /\ DOMAIN FilterQueue = 1 .. Len(FilterQueue)
      /\ DOMAIN FilterQueue' = 1 .. last
      /\ \A p \in DOMAIN FilterQueue : FilterQueue'[p] = FilterQueue[p]
      /\ FilterQueue'[last] = r
      /\ \A p \in DOMAIN FilterQueue' : p \in DOMAIN FilterQueue \/ p = last
  <2>1. Len(FilterQueue) \in Nat /\ DOMAIN FilterQueue = 1 .. Len(FilterQueue)
    BY <1>1, LenProperties
  <2>2. /\ DOMAIN FilterQueue' = 1 .. last /\ FilterQueue'[last] = r
        /\ \A p \in 1 .. Len(FilterQueue) : FilterQueue'[p] = FilterQueue[p]
    BY <1>1, AppendProperties, LenProperties
  <2> QED BY <2>1, <2>2
<1>3. At(r.work_id) = Scanned /\ Scanned' = Scanned /\ Scanned \in Nat
  BY <1>1, ScanningAt DEF OInv, Scanned, ScanInOrder
<1> HIDE DEF last
<1>4. \A w : At(w)' = At(w)
  BY AtKept
<1>5. ScanInOrder'
  BY <1>3 DEF OInv, ScanInOrder
<1>6. FilterQueueInOrder'
  <2>1. ASSUME NEW p \in DOMAIN FilterQueue' PROVE At(FilterQueue'[p].work_id) <= Scanned
    <3>1. CASE p \in DOMAIN FilterQueue
      BY <1>2, <3>1 DEF OInv, FilterQueueInOrder
    <3>2. CASE p = last
      BY <1>2, <1>3, <3>2
    <3> QED BY <1>2, <3>1, <3>2
  <2>2. ASSUME NEW p \in DOMAIN FilterQueue', NEW q \in DOMAIN FilterQueue', p <= q
        PROVE  At(FilterQueue'[p].work_id) <= At(FilterQueue'[q].work_id)
    <3>1. CASE q = last
      BY <1>2, <1>3, <2>1, <3>1
    <3>2. CASE q \in DOMAIN FilterQueue
      <4>1. p \in DOMAIN FilterQueue
        BY <1>2, <2>2, <3>2
      <4> QED BY <1>2, <2>2, <3>2, <4>1 DEF OInv, FilterQueueInOrder
    <3> QED BY <1>2, <3>1, <3>2
  <2> QED BY <1>3, <1>4, <2>1, <2>2 DEF FilterQueueInOrder
<1>7. ASSUME NEW j \in Nat, Passed(j) PROVE Passed(j)'
  <2>1. \A p \in DOMAIN FilterQueue' : j <= At(FilterQueue'[p].work_id)
    BY <1>2, <1>3, <1>7 DEF Passed
  <2> QED BY <1>3, <1>4, <1>7, <2>1 DEF Passed
<1>8. OvertakenOnlyInFilters'
  BY <1>7, OvertakenKept
<1> QED BY <1>5, <1>6, <1>8 DEF OInv

LEMMA EndOfSnippetInOrder == ASSUME IInv, OInv, EndOfSnippet PROVE OInv'
<1> USE DEF EndOfSnippet
<1>1. Scanned' = Scanned /\ \A w : At(w)' = At(w)
  BY AtKept DEF Scanned
<1>2. ScanInOrder' /\ FilterQueueInOrder'
  BY <1>1 DEF OInv, ScanInOrder, FilterQueueInOrder
<1>3. \A j \in Nat : Passed(j) => Passed(j)'
  BY <1>1 DEF Passed
<1> QED BY <1>2, <1>3, OvertakenKept DEF OInv
-----------------------------------------------------------------------------
LEMMA TakeBlockInOrder == ASSUME IInv, OInv, NEW f \in Filters, TakeBlock(f) PROVE OInv'
<1> USE DEF TakeBlock
<1> DEFINE r == FilterQueue[1]
<1>1. /\ FilterQueue \in Seq(Result) /\ Len(FilterQueue) \in Nat \ {0}
      /\ DOMAIN FilterQueue = 1 .. Len(FilterQueue) /\ 1 \in DOMAIN FilterQueue
      /\ \A k \in DOMAIN FilterQueue' :
            k \in Nat /\ k + 1 \in DOMAIN FilterQueue /\ FilterQueue'[k] = FilterQueue[k + 1]
  <2>1. FilterQueue \in Seq(Result) /\ FilterQueue # <<>>
    BY DEF IInv, TypeOK
  <2>2. Len(FilterQueue) \in Nat \ {0} /\ DOMAIN FilterQueue = 1 .. Len(FilterQueue)
    BY <2>1, LenProperties, EmptySeq
  <2>3. \A k \in DOMAIN FilterQueue' :
           k + 1 \in DOMAIN FilterQueue /\ FilterQueue'[k] = FilterQueue[k + 1]
    BY <2>1, TailElements
  <2>4. \A k \in DOMAIN FilterQueue' : k \in Nat
    <3>1. FilterQueue' \in Seq(Result)
      BY <2>1, HeadTailProperties
    <3> QED BY <3>1, LenProperties
  <2> QED BY <2>1, <2>2, <2>3, <2>4
<1>2. /\ filtering \in [Filters -> Result \cup {Idle}]
      /\ filtering' = [filtering EXCEPT ![f] = r]
  BY <1>1 DEF IInv, TypeOK
<1>3. Scanned' = Scanned /\ \A w : At(w)' = At(w)
  BY AtKept DEF Scanned
<1>4. ScanInOrder'
  BY <1>3 DEF OInv, ScanInOrder
<1>5. FilterQueueInOrder'
  <2>1. ASSUME NEW p \in DOMAIN FilterQueue' PROVE At(FilterQueue'[p].work_id) <= Scanned
    BY <1>1 DEF OInv, FilterQueueInOrder
  <2>2. ASSUME NEW p \in DOMAIN FilterQueue', NEW q \in DOMAIN FilterQueue', p <= q
        PROVE  At(FilterQueue'[p].work_id) <= At(FilterQueue'[q].work_id)
    <3>1. p + 1 <= q + 1
      BY <1>1, <2>2
    <3> QED BY <1>1, <3>1 DEF OInv, FilterQueueInOrder
  <2> QED BY <1>3, <2>1, <2>2 DEF FilterQueueInOrder
<1>6. ASSUME NEW j \in Nat, Passed(j) PROVE Passed(j)'
  <2>1. \A p \in DOMAIN FilterQueue' : j <= At(FilterQueue'[p].work_id)
    BY <1>1, <1>6 DEF Passed
  <2> QED BY <1>3, <1>6, <2>1 DEF Passed
<1>7. At(r.work_id) \in Nat
  BY <1>1, AtTypes
<1>8. ASSUME NEW j, j = At(r.work_id) PROVE Passed(j)'
  <2>1. At(r.work_id) <= Scanned
    BY <1>1 DEF OInv, FilterQueueInOrder
  <2>2. \A p \in DOMAIN FilterQueue' : At(r.work_id) <= At(FilterQueue'[p].work_id)
    <3>1. \A p \in DOMAIN FilterQueue' : 1 <= p + 1
      BY <1>1
    <3> QED BY <1>1, <3>1 DEF OInv, FilterQueueInOrder
  <2> QED BY <1>3, <1>8, <2>1, <2>2 DEF Passed
<1>9. ASSUME NEW j \in Nat, Passed(j) PROVE LateInFilters(j)' = LateInFilters(j)
  <2>1. j <= At(r.work_id)
    BY <1>1, <1>9 DEF Passed
  <2>2. ~ (At(r.work_id) < j)
    BY <1>7, <2>1
  <2> QED BY <1>2, <1>3, <2>2 DEF LateInFilters
<1>10. ASSUME NEW j \in Nat, Passed(j), NEW p, FewLate(j, p) PROVE FewLate(j, p)'
  <2>1. LateInQueue(j, p)' = LateInQueue(j, p)
    BY <1>3 DEF LateInQueue
  <2> QED BY <1>9, <1>10, <2>1 DEF FewLate
<1>11. OvertakenOnlyInFilters'
  <2>1. ASSUME NEW g \in Filters, filtering'[g] # Idle PROVE Passed(At(filtering[g].work_id))'
    <3>1. CASE g = f
      <4>1. At(filtering[g].work_id)' = At(r.work_id)
        BY <1>2, <1>3, <3>1
      <4>2. \A j : j = At(r.work_id) => Passed(j)'
        BY <1>8
      <4> QED BY <4>1, <4>2 DEF Passed
    <3>2. CASE g # f
      <4>1. /\ filtering'[g] = filtering[g] /\ Passed(At(filtering[g].work_id))
            /\ At(filtering[g].work_id) \in Nat
        BY <1>2, <2>1, <3>2, AtTypes DEF OInv, OvertakenOnlyInFilters
      <4>2. \A j : j = At(filtering[g].work_id) => Passed(j)'
        BY <1>6, <4>1
      <4> QED BY <1>3, <4>1, <4>2 DEF Passed
    <3> QED BY <3>1, <3>2
  <2>2. ASSUME NEW p \in DOMAIN MergeQueue
        PROVE  Passed(At(MergeQueue[p].work_id))' /\ FewLate(At(MergeQueue[p].work_id), p)'
    <3>1. /\ Passed(At(MergeQueue[p].work_id)) /\ At(MergeQueue[p].work_id) \in Nat
          /\ FewLate(At(MergeQueue[p].work_id), p)
      BY AtTypes DEF OInv, OvertakenOnlyInFilters
    <3>2. \A j : j = At(MergeQueue[p].work_id) => Passed(j)' /\ FewLate(j, p)'
      BY <1>6, <1>10, <3>1
    <3> QED BY <1>3, <3>2 DEF Passed, FewLate, LateInFilters, LateInQueue
  <2>3. ASSUME NEW j \in DOMAIN accepted, Begun(j)' PROVE Passed(j)' /\ FewLate(j, 0)'
    <3>1. Passed(j) /\ FewLate(j, 0) /\ j \in Nat
      BY <2>3, BegunKept, AcceptedType DEF IInv, OInv, OvertakenOnlyInFilters
    <3> QED BY <1>6, <1>10, <3>1
  <2> QED BY <2>1, <2>2, <2>3 DEF OvertakenOnlyInFilters
<1> QED BY <1>4, <1>5, <1>11 DEF OInv

(* A result that a filter puts into MergeQueue is late, or is not, as it    *)
(* was in the filter; nothing is behind it, and one filter holds no block.  *)
LEMMA BlockFilterLate ==
  ASSUME IInv, NEW f \in Filters, BlockFilter(f), NEW j \in Nat, NEW last,
         last = Len(MergeQueue) + 1
  PROVE  /\ \A p \in Nat : p < last /\ FewLate(j, p) => FewLate(j, p)'
         /\ FewLate(j, last)'
<1> USE DEF BlockFilter, push_work
<1> DEFINE r == filtering[f]
<1>1. /\ r \in Result /\ At(r.work_id) \in Nat
      /\ filtering \in [Filters -> Result \cup {Idle}] /\ MergeQueue \in Seq(Result)
  BY AtTypes DEF IInv, TypeOK
<1>2. /\ Len(MergeQueue) \in Nat /\ DOMAIN MergeQueue = 1 .. Len(MergeQueue)
      /\ DOMAIN MergeQueue' = DOMAIN MergeQueue \cup {last} /\ last \notin DOMAIN MergeQueue
      /\ MergeQueue'[last] = r
      /\ \A p \in DOMAIN MergeQueue : MergeQueue'[p] = MergeQueue[p]
  <2>1. Len(MergeQueue) \in Nat /\ DOMAIN MergeQueue = 1 .. Len(MergeQueue)
    BY <1>1, LenProperties
  <2>2. /\ DOMAIN MergeQueue' = 1 .. last /\ MergeQueue'[last] = r
        /\ \A p \in 1 .. Len(MergeQueue) : MergeQueue'[p] = MergeQueue[p]
    BY <1>1, AppendProperties, LenProperties
  <2> QED BY <2>1, <2>2
<1>3. /\ filtering'[f] = Idle /\ filtering[f] # Idle
      /\ \A g \in Filters : g # f => filtering'[g] = filtering[g]
  BY <1>1
<1>4. \A w : At(w)' = At(w)
  BY AtKept
<1>5. LateInFilters(j)' = LateInFilters(j) \ {f}
  BY <1>3, <1>4 DEF LateInFilters
<1>6. f \in LateInFilters(j) <=> At(r.work_id) < j
  BY <1>3 DEF LateInFilters
<1>7. ASSUME NEW p \in Nat
      PROVE  LateInQueue(j, p)'
                = LateInQueue(j, p) \cup IF p < last /\ At(r.work_id) < j THEN {last} ELSE {}
  <2>1. \A q : q \in LateInQueue(j, p)' <=>
                  q \in DOMAIN MergeQueue' /\ q > p /\ At(MergeQueue'[q].work_id) < j
    BY <1>4 DEF LateInQueue
  <2>2. \A q \in DOMAIN MergeQueue : q \in LateInQueue(j, p)' <=> q \in LateInQueue(j, p)
    BY <1>2, <2>1 DEF LateInQueue
  <2>3. last \in LateInQueue(j, p)' <=> p < last /\ At(r.work_id) < j
    BY <1>2, <2>1
  <2>4. LateInQueue(j, p) \subseteq DOMAIN MergeQueue
    BY DEF LateInQueue
  <2> QED BY <1>2, <2>1, <2>2, <2>3, <2>4
<1>8. \A p : /\ IsFiniteSet(LateInFilters(j)) /\ Cardinality(LateInFilters(j)) \in Nat
             /\ IsFiniteSet(LateInQueue(j, p)) /\ Cardinality(LateInQueue(j, p)) \in Nat
  BY LateFinite DEF IInv
<1>9. ASSUME NEW p \in Nat, p < last, FewLate(j, p) PROVE FewLate(j, p)'
  <2>1. CASE At(r.work_id) < j
    <3>1. Cardinality(LateInFilters(j)) = Cardinality(LateInFilters(j)') + 1
      <4>1. f \in LateInFilters(j)
        BY <1>6, <2>1
      <4>2. Cardinality(LateInFilters(j) \ {f}) = Cardinality(LateInFilters(j)) - 1
        BY <1>8, <4>1, FS_RemoveElement
      <4>3. Cardinality(LateInFilters(j)) \in Nat
        BY <1>8
      <4> QED BY <1>5, <4>2, <4>3
    <3>2. Cardinality(LateInQueue(j, p)') = Cardinality(LateInQueue(j, p)) + 1
      <4>1. LateInQueue(j, p)' = LateInQueue(j, p) \cup {last}
        BY <1>7, <1>9, <2>1
      <4>2. last \notin LateInQueue(j, p)
        BY <1>2 DEF LateInQueue
      <4> QED BY <1>8, <4>1, <4>2, FS_AddElement
    <3>3. Cardinality(LateInFilters(j)') \in Nat
      <4>1. IsFiniteSet(LateInFilters(j) \ {f})
        BY <1>8, FS_Subset
      <4> QED BY <1>5, <4>1, FS_CardinalityType
    <3> QED BY <1>8, <1>9, <3>1, <3>2, <3>3 DEF FewLate
  <2>2. CASE ~ (At(r.work_id) < j)
    <3>1. LateInFilters(j)' = LateInFilters(j)
      BY <1>5, <1>6, <2>2
    <3>2. LateInQueue(j, p)' = LateInQueue(j, p)
      BY <1>7, <2>2
    <3> QED BY <1>9, <3>1, <3>2 DEF FewLate
  <2> QED BY <2>1, <2>2
<1>10. FewLate(j, last)'
  <2>1. LateInQueue(j, last)' = {}
    <3>1. \A p \in Nat : p = last => LateInQueue(j, p)' = {}
      <4>1. ASSUME NEW p \in Nat, p = last PROVE LateInQueue(j, p) = {} /\ ~ (p < last)
        BY <1>2, <4>1 DEF LateInQueue
      <4> QED BY <1>7, <4>1
    <3>2. last \in Nat
      BY <1>2
    <3>3. \A q : q \in LateInQueue(j, last)' <=>
                    q \in DOMAIN MergeQueue' /\ q > last /\ At(MergeQueue'[q].work_id) < j
      BY <1>4 DEF LateInQueue
    <3> QED BY <1>2, <3>2, <3>3
  <2>2. Cardinality(LateInFilters(j)') < Cardinality(Filters)
    <3>1. LateInFilters(j)' \subseteq Filters \ {f}
      BY <1>5 DEF LateInFilters
    <3>2. IsFiniteSet(Filters) /\ Cardinality(Filters) \in Nat
      BY FiltersAssumption, FS_CardinalityType
    <3>3. IsFiniteSet(Filters \ {f}) /\ Cardinality(Filters \ {f}) = Cardinality(Filters) - 1
      BY <3>2, FS_RemoveElement
    <3>4. /\ Cardinality(LateInFilters(j)') <= Cardinality(Filters \ {f})
          /\ Cardinality(LateInFilters(j)') \in Nat
      BY <3>1, <3>3, FS_Subset, FS_CardinalityType
    <3> QED BY <3>2, <3>3, <3>4
  <2>3. Cardinality({}) = 0
    BY FS_EmptySet
  <2>4. Cardinality(LateInFilters(j)') \in Nat
    <3>1. IsFiniteSet(LateInFilters(j) \ {f})
      BY <1>8, FS_Subset
    <3> QED BY <1>5, <3>1, FS_CardinalityType
  <2>5. Cardinality(LateInFilters(j)') + Cardinality(LateInQueue(j, last)') < Cardinality(Filters)
    <3>1. Cardinality(LateInQueue(j, last)') = 0
      BY <2>1, <2>3
    <3>2. Cardinality(Filters) \in Nat
      BY FiltersAssumption, FS_CardinalityType
    <3> QED BY <2>2, <2>4, <3>1, <3>2
  <2> QED BY <2>5 DEF FewLate
<1> QED BY <1>9, <1>10
-----------------------------------------------------------------------------
LEMMA BlockFilterInOrder == ASSUME IInv, OInv, NEW f \in Filters, BlockFilter(f) PROVE OInv'
<1> USE DEF BlockFilter, push_work
<1> DEFINE r == filtering[f]
           last == Len(MergeQueue) + 1
<1>1. /\ r \in Result /\ At(r.work_id) \in Nat /\ Passed(At(r.work_id))
      /\ filtering \in [Filters -> Result \cup {Idle}] /\ MergeQueue \in Seq(Result)
  BY AtTypes DEF IInv, TypeOK, OInv, OvertakenOnlyInFilters
<1>2. /\ Len(MergeQueue) \in Nat /\ DOMAIN MergeQueue = 1 .. Len(MergeQueue)
      /\ MergeQueue'[last] = r
      /\ \A p \in DOMAIN MergeQueue' :
            p = last \/ (p \in DOMAIN MergeQueue /\ MergeQueue'[p] = MergeQueue[p])
  <2>1. Len(MergeQueue) \in Nat /\ DOMAIN MergeQueue = 1 .. Len(MergeQueue)
    BY <1>1, LenProperties
  <2>2. /\ DOMAIN MergeQueue' = 1 .. last /\ MergeQueue'[last] = r
        /\ \A p \in 1 .. Len(MergeQueue) : MergeQueue'[p] = MergeQueue[p]
    BY <1>1, AppendProperties, LenProperties
  <2> QED BY <2>1, <2>2
<1>3. Scanned' = Scanned /\ \A w : At(w)' = At(w)
  BY AtKept DEF Scanned
<1>4. ScanInOrder' /\ FilterQueueInOrder'
  BY <1>3 DEF OInv, ScanInOrder, FilterQueueInOrder
<1>5. \A j : Passed(j) => Passed(j)'
  BY <1>3 DEF Passed
<1>6. \A j \in Nat :
         /\ \A p \in Nat : p < last /\ FewLate(j, p) => FewLate(j, p)'
         /\ \A p : p = last => FewLate(j, p)'
  BY BlockFilterLate
<1>7. ASSUME NEW g \in Filters, filtering'[g] # Idle PROVE Passed(At(filtering[g].work_id))'
  <2>1. filtering'[g] = filtering[g] /\ filtering[g] # Idle
    BY <1>1, <1>7
  <2>2. Passed(At(filtering[g].work_id))
    BY <2>1 DEF OInv, OvertakenOnlyInFilters
  <2>3. \A j : j = At(filtering[g].work_id) => Passed(j)'
    BY <1>5, <2>2
  <2> QED BY <1>3, <2>1, <2>3 DEF Passed
<1>8. ASSUME NEW p \in DOMAIN MergeQueue'
      PROVE  Passed(At(MergeQueue[p].work_id))' /\ FewLate(At(MergeQueue[p].work_id), p)'
  <2>1. PICK t : t = MergeQueue'[p]
    OBVIOUS
  <2>2. Passed(At(t.work_id)) /\ \A j : j = At(t.work_id) => FewLate(j, p)'
    <3>1. CASE p = last
      <4>1. t = r
        BY <1>2, <2>1, <3>1
      <4> QED BY <1>1, <1>6, <3>1, <4>1
    <3>2. CASE p \in DOMAIN MergeQueue
      <4>1. /\ Passed(At(t.work_id)) /\ FewLate(At(t.work_id), p) /\ At(t.work_id) \in Nat
            /\ p \in Nat /\ p < last
        <5>1. t = MergeQueue[p]
          BY <1>2, <2>1, <3>2
        <5>2. Passed(At(t.work_id)) /\ FewLate(At(t.work_id), p) /\ At(t.work_id) \in Nat
          BY <3>2, <5>1, AtTypes DEF OInv, OvertakenOnlyInFilters
        <5>3. p \in Nat /\ p < last
          BY <1>2, <3>2
        <5> QED BY <5>2, <5>3
      <4> QED BY <1>6, <4>1
    <3> QED BY <1>2, <3>1, <3>2
  <2>3. \A j : j = At(t.work_id) => Passed(j)' /\ FewLate(j, p)'
    BY <1>5, <2>2
  <2>4. At(MergeQueue[p].work_id)' = At(t.work_id)
    BY <1>3, <2>1
  <2> QED BY <2>3, <2>4 DEF Passed, FewLate, LateInFilters, LateInQueue
<1>9. ASSUME NEW j \in DOMAIN accepted, Begun(j)' PROVE Passed(j)' /\ FewLate(j, 0)'
  <2>1. Passed(j) /\ FewLate(j, 0) /\ j \in Nat
    BY <1>9, BegunKept, AcceptedType DEF IInv, OInv, OvertakenOnlyInFilters
  <2>2. 0 \in Nat /\ 0 < last
    BY <1>2
  <2> QED BY <1>5, <1>6, <2>1, <2>2
<1>10. OvertakenOnlyInFilters'
  BY <1>7, <1>8, <1>9 DEF OvertakenOnlyInFilters
<1> QED BY <1>4, <1>10 DEF OInv
-----------------------------------------------------------------------------
LateBehind(q, j, p) == {k \in DOMAIN q : k > p /\ At(q[k].work_id) < j}

LEMMA LatePop ==
  ASSUME NEW q \in Seq(Result), q # <<>>, NEW j, NEW p \in Nat
  PROVE  Cardinality(LateBehind(Tail(q), j, p)) = Cardinality(LateBehind(q, j, p + 1))
<1> DEFINE t == Tail(q)
           A == LateBehind(t, j, p)
           B == LateBehind(q, j, p + 1)
           shift == [k \in A |-> k + 1]
<1>1. /\ DOMAIN q = 1 .. Len(q) /\ Len(q) \in Nat \ {0}
      /\ DOMAIN t = 1 .. Len(q) - 1
      /\ \A k \in 1 .. Len(q) - 1 : t[k] = q[k + 1]
  BY HeadTailProperties, LenProperties, EmptySeq
<1> HIDE DEF t
<1>2. \A k : k \in A <=> k \in 1 .. Len(q) - 1 /\ k > p /\ At(q[k + 1].work_id) < j
  BY <1>1 DEF LateBehind
<1>3. \A k : k \in B <=> k \in 1 .. Len(q) /\ k > p + 1 /\ At(q[k].work_id) < j
  BY <1>1 DEF LateBehind
<1> HIDE DEF A, B
<1>4. shift \in [A -> B]
  <2>1. \A k \in A : k + 1 \in B
    BY <1>1, <1>2, <1>3
  <2> QED BY <2>1
<1>5. \A k \in B : k - 1 \in A /\ (k - 1) + 1 = k
  <2>1. ASSUME NEW k \in B PROVE k - 1 \in A /\ (k - 1) + 1 = k
    <3>1. k \in 1 .. Len(q) /\ k > p + 1 /\ At(q[k].work_id) < j
      BY <1>3
    <3>2. k - 1 \in 1 .. Len(q) - 1 /\ k - 1 > p /\ (k - 1) + 1 = k
      BY <1>1, <3>1
    <3> QED BY <1>2, <3>1, <3>2
  <2> QED BY <2>1
<1>6. shift \in Surjection(A, B)
  BY <1>4, <1>5 DEF Surjection
<1>7. shift \in Injection(A, B)
  <2>1. \A k \in A : k \in Nat
    BY <1>1, <1>2
  <2> QED BY <1>4, <2>1 DEF Injection, IsInjective
<1>8. IsFiniteSet(A)
  <2>1. IsFiniteSet(1 .. Len(q) - 1)
    BY <1>1, FS_Interval
  <2>2. A \subseteq 1 .. Len(q) - 1
    BY <1>2
  <2> QED BY <2>1, <2>2, FS_Subset
<1> HIDE DEF shift
<1>9. Cardinality(B) = Cardinality(A)
  BY <1>6, <1>7, <1>8, FS_Surjection
<1> QED BY <1>9 DEF A, B, t

(* The snippets with an id before the one that keeps it busy are answered. *)
LEMMA EarlierAnswered ==
  ASSUME IInv, NEW w, NEW n \in DOMAIN accepted, Busy(w, n),
         NEW j \in DOMAIN accepted, j # n,
         accepted[j].work_id = w, accepted[j].blocks # <<>>
  PROVE  j < n /\ S!Answered(accepted[j])
<1>1. DOMAIN accepted = 1 .. Len(accepted) /\ Len(accepted) \in Nat
  BY AcceptedType DEF IInv
<1>2. j \in WorksOf(w) /\ n \in WorksOf(w) /\ S!WorksUpTo(n, w) = WorksOf(w)
  BY <1>1 DEF Busy, WorksOf, S!WorksUpTo
<1>3. j < n
  <2>1. j \in 1 .. n
    BY <1>2 DEF S!WorksUpTo
  <2> QED BY <1>1, <2>1
<1>4. S!WorksUpTo(j, w) \subseteq WorksOf(w) \ {n}
  BY <1>1, <1>3 DEF WorksOf, S!WorksUpTo
<1>5. IsFiniteSet(WorksOf(w)) /\ Cardinality(WorksOf(w)) \in Nat
  BY <1>1, WorksFinite DEF IInv, WorksOf
<1>6. Cardinality(WorksOf(w) \ {n}) = Cardinality(S!AnswersTo(w))
  <2>1. Cardinality(WorksOf(w) \ {n}) = Cardinality(WorksOf(w)) - 1
    BY <1>2, <1>5, FS_RemoveElement
  <2>2. Cardinality(WorksOf(w)) = Cardinality(S!AnswersTo(w)) + 1
    BY DEF Busy
  <2>3. Cardinality(S!AnswersTo(w)) \in Nat
    BY AnswerCounts DEF IInv
  <2> QED BY <2>1, <2>2, <2>3
<1>7. Cardinality(S!WorksUpTo(j, w)) <= Cardinality(S!AnswersTo(w))
  <2>1. IsFiniteSet(WorksOf(w) \ {n})
    BY <1>5, FS_Subset
  <2>2. Cardinality(S!WorksUpTo(j, w)) <= Cardinality(WorksOf(w) \ {n})
    BY <1>4, <2>1, FS_Subset
  <2> QED BY <1>6, <2>2
<1>8. S!Answered(accepted[j])
  BY <1>7, ServiceCardinality, Zenon DEF S!Answered
<1> QED BY <1>3, <1>8

(* Only the snippet whose block is merged begins. *)
LEMMA MergeBegins ==
  ASSUME IInv, MergeBlock, NEW n \in DOMAIN accepted, Busy(Head(MergeQueue).work_id, n),
         NEW j \in DOMAIN accepted, Begun(j)', j # n
  PROVE  Begun(j)
<1> SUFFICES ASSUME ~ Begun(j) PROVE FALSE
  OBVIOUS
<1> DEFINE r == Head(MergeQueue)
           w == r.work_id
           s == accepted[j]
<1>1. accepted' = accepted
  BY DEF MergeBlock
<1>2. PICK b \in BlocksOf(s) : IsMerged(s, b)'
  BY <1>1 DEF Begun, UnmergedOf, BlocksOf
<1>3. ~ IsMerged(s, b)
  BY <1>2 DEF Begun, UnmergedOf
<1>4. s.blocks # <<>>
  <2>1. s.blocks = <<>> => BlocksOf(s) = {}
    BY DEF BlocksOf
  <2> QED BY <1>2, <2>1
<1>5. s.work_id # w
  BY <1>3, <1>4, EarlierAnswered DEF IsMerged
<1>6. \/ UNCHANGED sent
      \/ sent' = Append(sent, [work_id |-> w, blocks |-> Merged(r).blocks])
  BY DEF MergeBlock
<1>7. \/ m_MergeManager' = EraseWork(w)
      \/ m_MergeManager' = StoreWork(w, Merged(r))
  BY DEF MergeBlock
<1> HIDE DEF w
<1>8. InBuffer(s.work_id, b)' = InBuffer(s.work_id, b)
  <2>1. /\ s.work_id \in DOMAIN m_MergeManager' <=> s.work_id \in DOMAIN m_MergeManager
        /\ s.work_id \in DOMAIN m_MergeManager
              => m_MergeManager'[s.work_id] = m_MergeManager[s.work_id]
    BY <1>5, <1>7 DEF EraseWork, StoreWork
  <2> QED BY <1>1, <2>1 DEF InBuffer
<1>9. S!AnswersTo(s.work_id)' = S!AnswersTo(s.work_id)
  <2>1. CASE UNCHANGED sent
    BY <1>1, <2>1 DEF S!AnswersTo
  <2>2. CASE sent' = Append(sent, [work_id |-> w, blocks |-> Merged(r).blocks])
    <3>1. sent \in Seq([work_id : WorkIds, blocks : SUBSET BlockIds])
      BY DEF IInv, TypeOK
    <3>2. Len(sent) \in Nat /\ DOMAIN sent = 1 .. Len(sent)
      BY <3>1, LenProperties
    <3>3. /\ DOMAIN sent' = 1 .. Len(sent) + 1
          /\ sent'[Len(sent) + 1].work_id = w
          /\ \A k \in 1 .. Len(sent) : sent'[k] = sent[k]
      BY <2>2, <3>1, <3>2
    <3> QED BY <1>1, <1>5, <3>2, <3>3 DEF S!AnswersTo
  <2> QED BY <1>6, <2>1, <2>2
<1>10. S!Answered(s)' <=> S!Answered(s)
  <2>1. \A m : S!WorksUpTo(m, s.work_id)' = S!WorksUpTo(m, s.work_id)
    BY <1>1 DEF S!WorksUpTo
  <2> QED BY <1>1, <1>9, <2>1 DEF S!Answered
<1>11. IsMerged(s, b)' <=> IsMerged(s, b)
  BY <1>8, <1>10 DEF IsMerged
<1> QED BY <1>2, <1>3, <1>11
-----------------------------------------------------------------------------
LEMMA MergeBlockInOrder == ASSUME IInv, OInv, MergeBlock PROVE OInv'
<1> DEFINE r == Head(MergeQueue)
<1>1. /\ MergeQueue \in Seq(Result) /\ MergeQueue # <<>> /\ MergeQueue' = Tail(MergeQueue)
      /\ 1 \in DOMAIN MergeQueue /\ r = MergeQueue[1]
      /\ \A k \in DOMAIN MergeQueue' :
            k \in Nat /\ k + 1 \in DOMAIN MergeQueue /\ MergeQueue'[k] = MergeQueue[k + 1]
  <2>1. MergeQueue \in Seq(Result) /\ MergeQueue # <<>> /\ MergeQueue' = Tail(MergeQueue)
    BY DEF IInv, TypeOK, MergeBlock
  <2>2. 1 \in DOMAIN MergeQueue /\ r = MergeQueue[1]
    BY <2>1, HeadTailProperties, LenProperties, EmptySeq
  <2>3. \A k \in DOMAIN MergeQueue' :
           k + 1 \in DOMAIN MergeQueue /\ MergeQueue'[k] = MergeQueue[k + 1]
    BY <2>1, TailElements
  <2>4. \A k \in DOMAIN MergeQueue' : k \in Nat
    <3>1. MergeQueue' \in Seq(Result)
      BY <2>1, HeadTailProperties
    <3> QED BY <3>1, LenProperties
  <2> QED BY <2>1, <2>2, <2>3, <2>4
<1>2. /\ UNCHANGED <<accepted, ScanQueue, scanning, next_block, FilterQueue, filtering>>
      /\ Scanned' = Scanned /\ \A w : At(w)' = At(w)
  BY AtKept DEF MergeBlock, Scanned
<1>3. PICK n \in DOMAIN accepted : Busy(r.work_id, n)
  BY <1>1, HeadIsBusy
<1>4. At(r.work_id) = n /\ n \in Nat
  BY <1>3, BusyAt, AcceptedType DEF IInv
<1> HIDE DEF r
<1>5. ScanInOrder' /\ FilterQueueInOrder'
  BY <1>2 DEF OInv, ScanInOrder, FilterQueueInOrder
<1>6. \A j : Passed(j) => Passed(j)'
  BY <1>2 DEF Passed
<1>7. \A j : \A p \in Nat : FewLate(j, p + 1) => FewLate(j, p)'
  <2>1. ASSUME NEW j, NEW p \in Nat, FewLate(j, p + 1) PROVE FewLate(j, p)'
    <3>1. LateInFilters(j)' = LateInFilters(j)
      BY <1>2 DEF LateInFilters
    <3>2. LateInQueue(j, p)' = LateBehind(Tail(MergeQueue), j, p)
      BY <1>1, <1>2 DEF LateInQueue, LateBehind
    <3>3. LateInQueue(j, p + 1) = LateBehind(MergeQueue, j, p + 1)
      BY DEF LateInQueue, LateBehind
    <3>4. Cardinality(LateInQueue(j, p)') = Cardinality(LateInQueue(j, p + 1))
      BY <1>1, <3>2, <3>3, LatePop
    <3> QED BY <2>1, <3>1, <3>4 DEF FewLate
  <2> QED BY <2>1
<1>8. ASSUME NEW j, FewLate(j, 0) PROVE FewLate(j, 0)'
  <2>1. LateInQueue(j, 1) \subseteq LateInQueue(j, 0)
    <3>1. \A k \in DOMAIN MergeQueue : k > 1 => k > 0
      BY <1>1, LenProperties
    <3> QED BY <3>1 DEF LateInQueue
  <2>2. Cardinality(LateInQueue(j, 1)) <= Cardinality(LateInQueue(j, 0))
    BY <2>1, LateFinite, FS_Subset DEF IInv
  <2>3. /\ Cardinality(LateInQueue(j, 1)) \in Nat /\ Cardinality(LateInQueue(j, 0)) \in Nat
        /\ Cardinality(LateInFilters(j)) \in Nat /\ Cardinality(Filters) \in Nat
    BY LateFinite, FiltersAssumption, FS_CardinalityType DEF IInv
  <2>4. FewLate(j, 0 + 1)
    BY <1>8, <2>2, <2>3 DEF FewLate
  <2>5. 0 \in Nat
    OBVIOUS
  <2> QED BY <1>7, <2>4, <2>5
<1>9. ASSUME NEW g \in Filters, filtering'[g] # Idle PROVE Passed(At(filtering[g].work_id))'
  BY <1>2, <1>9 DEF OInv, OvertakenOnlyInFilters, Passed
<1>10. ASSUME NEW p \in DOMAIN MergeQueue'
       PROVE  Passed(At(MergeQueue[p].work_id))' /\ FewLate(At(MergeQueue[p].work_id), p)'
  <2>1. PICK t : t = MergeQueue'[p]
    OBVIOUS
  <2>2. p \in Nat /\ p + 1 \in DOMAIN MergeQueue /\ t = MergeQueue[p + 1]
    BY <1>1, <2>1
  <2>3. Passed(At(t.work_id)) /\ FewLate(At(t.work_id), p + 1)
    BY <2>2 DEF OInv, OvertakenOnlyInFilters
  <2>4. \A j : j = At(t.work_id) => Passed(j)' /\ FewLate(j, p)'
    BY <1>6, <1>7, <2>2, <2>3
  <2>5. At(MergeQueue[p].work_id)' = At(t.work_id)
    BY <1>2, <2>1
  <2> QED BY <2>4, <2>5 DEF Passed, FewLate, LateInFilters, LateInQueue
<1>11. ASSUME NEW j \in DOMAIN accepted, Begun(j)' PROVE Passed(j)' /\ FewLate(j, 0)'
  <2>1. CASE j = n
    <3>1. Passed(n) /\ FewLate(n, 0 + 1)
      BY <1>1, <1>4 DEF OInv, OvertakenOnlyInFilters
    <3>2. 0 \in Nat
      OBVIOUS
    <3> QED BY <1>6, <1>7, <2>1, <3>1, <3>2
  <2>2. CASE j # n
    <3>1. Begun(j)
      BY <1>3, <1>11, <2>2, MergeBegins DEF r
    <3> QED BY <1>6, <1>8, <3>1 DEF OInv, OvertakenOnlyInFilters
  <2> QED BY <2>1, <2>2
<1>12. OvertakenOnlyInFilters'
  BY <1>2, <1>9, <1>10, <1>11 DEF OvertakenOnlyInFilters
<1> QED BY <1>5, <1>12 DEF OInv

-----------------------------------------------------------------------------
(* Nothing that Scan has sent on carries a free id. *)
LEMMA FreeIsUnused ==
  ASSUME IInv, NEW u \in WorkIds, Free(u)
  PROVE  /\ \A p \in DOMAIN FilterQueue : FilterQueue[p].work_id # u
         /\ \A p \in DOMAIN MergeQueue : MergeQueue[p].work_id # u
         /\ \A f \in Filters : filtering[f] # Idle => filtering[f].work_id # u
<1>1. TotalIs(u, 0) /\ TotalIs(u, 1)
  BY NothingLeft DEF Free, IInv
<1>2. 0 # 1
  OBVIOUS
<1> QED BY <1>1, <1>2 DEF TotalIs

LEMMA AcceptedMore ==
  ASSUME IInv, NEW s \in Requests, InputSnippet(s), NEW last, last = Len(accepted) + 1
  PROVE  /\ Len(accepted) \in Nat /\ DOMAIN accepted = 1 .. Len(accepted)
         /\ Len(accepted') = last /\ DOMAIN accepted' = 1 .. last
         /\ accepted'[last] = s
         /\ \A k \in DOMAIN accepted : accepted'[k] = accepted[k] /\ accepted[k] # s
<1>1. /\ accepted \in Seq(Requests) /\ accepted' = Append(accepted, s) /\ s \notin Arrived
  BY DEF InputSnippet, IInv, TypeOK
<1>2. Len(accepted) \in Nat /\ DOMAIN accepted = 1 .. Len(accepted)
  BY <1>1, LenProperties
<1>3. /\ accepted' \in Seq(Requests) /\ Len(accepted') = last /\ accepted'[last] = s
      /\ \A k \in 1 .. Len(accepted) : accepted'[k] = accepted[k]
  BY <1>1, AppendProperties
<1>4. DOMAIN accepted' = 1 .. last
  BY <1>3, LenProperties
<1> QED BY <1>1, <1>2, <1>3, <1>4 DEF Arrived

(* The snippets whose blocks are behind Scan keep their places. *)
LEMMA AtStays ==
  ASSUME IInv, NEW s \in Requests, InputSnippet(s), NEW w, w # s.work_id,
         NEW n \in DOMAIN accepted, Busy(w, n)
  PROVE  At(w)' = n
<1>1. PICK last : last = Len(accepted) + 1
  OBVIOUS
<1>2. /\ Len(accepted) \in Nat /\ DOMAIN accepted = 1 .. Len(accepted)
      /\ Len(accepted') = last /\ accepted'[last] = s
      /\ \A k \in DOMAIN accepted : accepted'[k] = accepted[k]
  BY <1>1, AcceptedMore
<1>3. S!WorksUpTo(n, w)' = S!WorksUpTo(n, w)
  <2>1. \A k \in 1 .. n : k \in DOMAIN accepted
    BY <1>2
  <2> QED BY <1>2, <2>1 DEF S!WorksUpTo
<1>4. WorksOf(w)' = WorksOf(w)
  <2>1. \A k : k \in 1 .. last <=> k \in DOMAIN accepted \/ k = last
    BY <1>1, <1>2
  <2>2. WorksOf(w)' = {k \in 1 .. last : accepted'[k].work_id = w /\ accepted'[k].blocks # <<>>}
    BY <1>2 DEF WorksOf, S!WorksUpTo
  <2>3. WorksOf(w) = {k \in DOMAIN accepted :
                         accepted[k].work_id = w /\ accepted[k].blocks # <<>>}
    BY <1>2 DEF WorksOf, S!WorksUpTo
  <2> QED BY <1>2, <2>1, <2>2, <2>3
<1>5. n \in WorksOf(w)' /\ S!WorksUpTo(n, w)' = WorksOf(w)'
  BY <1>3, <1>4 DEF Busy
<1>6. TypeOK'
  BY InputSnippetInvariant DEF IInv
<1>7. AtIsLast'
  BY <1>6, LastAt, PTL
<1> QED BY <1>5, <1>7 DEF AtIsLast
-----------------------------------------------------------------------------
(* A snippet that arrives has begun nothing, itself included. *)
LEMMA InputBegins ==
  ASSUME IInv, NEW s \in Requests, InputSnippet(s), NEW j, j \in DOMAIN accepted', Begun(j)'
  PROVE  j \in DOMAIN accepted /\ Begun(j)
<1> DEFINE u == s.work_id
<1>1. PICK last : last = Len(accepted) + 1
  OBVIOUS
<1>2. /\ Len(accepted) \in Nat /\ DOMAIN accepted = 1 .. Len(accepted)
      /\ Len(accepted') = last /\ DOMAIN accepted' = 1 .. last
      /\ accepted'[last] = s
      /\ \A k \in DOMAIN accepted : accepted'[k] = accepted[k] /\ accepted[k] # s
  BY <1>1, AcceptedMore
<1>3. UNCHANGED <<sent, m_MergeManager>> /\ S!IsFree(u) /\ u \in WorkIds
  BY SnippetFacts DEF InputSnippet
<1>4. \A w : S!AnswersTo(w)' = S!AnswersTo(w)
  BY <1>3 DEF S!AnswersTo
<1>5. ASSUME NEW m \in DOMAIN accepted, NEW w PROVE S!WorksUpTo(m, w)' = S!WorksUpTo(m, w)
  <2>1. \A k \in 1 .. m : k \in DOMAIN accepted
    BY <1>2
  <2> QED BY <1>2, <2>1 DEF S!WorksUpTo
<1>6. PICK t : t = accepted'[j]
  OBVIOUS
<1>7. PICK b \in BlocksOf(t) : S!Answered(t)' \/ InBuffer(t.work_id, b)' # {}
  <2>1. UnmergedOf(accepted[j])' = {b \in BlocksOf(t) :
                                     ~ (S!Answered(t)' \/ InBuffer(t.work_id, b)' # {})}
    BY <1>6 DEF UnmergedOf, IsMerged, InBuffer, BlocksOf, S!Answered, S!WorksUpTo, S!AnswersTo
  <2>2. UnmergedOf(accepted[j])' # BlocksOf(t)
    BY <1>6 DEF Begun, BlocksOf
  <2> QED BY <2>1, <2>2
<1>8. InBuffer(t.work_id, b)' = InBuffer(t.work_id, b)
  BY <1>3 DEF InBuffer
<1>9. PICK m \in DOMAIN accepted' : accepted'[m] = t
  BY <1>6
<1>10. ASSUME NEW k \in DOMAIN accepted', accepted'[k] = s PROVE k = last
  BY <1>1, <1>2, <1>10
<1>11. j # last
  <2> SUFFICES ASSUME j = last PROVE FALSE
    OBVIOUS
  <2>1. t = s
    BY <1>2, <1>6
  <2>2. Free(u)
    BY <1>3, IdIsFree
  <2>3. InBuffer(u, b) = {}
    <3>1. b \in BlockIds
      BY <2>1, SnippetFacts
    <3>2. Cardinality(InBuffer(u, b)) = 0
      BY <2>2, <3>1, CountTypes DEF Free, OnTheWay, IInv
    <3>3. ~ InBufferNow(u, b)
      BY <3>2, InBufferCount
    <3> QED BY <3>3 DEF InBuffer, InBufferNow
  <2>4. S!Answered(s)'
    BY <1>7, <1>8, <2>1, <2>3
  <2>5. Cardinality(S!WorksUpTo(last, u)') <= Cardinality(S!AnswersTo(u))
    <3>1. PICK k \in DOMAIN accepted' :
             /\ accepted'[k] = s
             /\ Cardinality(S!WorksUpTo(k, u)') <= Cardinality(S!AnswersTo(u))
      BY <1>4, <2>4, ServiceCardinality DEF S!Answered
    <3> QED BY <1>10, <3>1
  <2>6. S!WorksUpTo(last, u)' = WorksOf(u) \cup {last} /\ last \notin WorksOf(u)
    <3>1. s.blocks # <<>>
      <4>1. s.blocks = <<>> => BlocksOf(s) = {}
        BY DEF BlocksOf
      <4> QED BY <1>7, <2>1, <4>1
    <3>2. \A k : k \in 1 .. last <=> k \in DOMAIN accepted \/ k = last
      BY <1>1, <1>2
    <3>3. WorksOf(u) = {k \in DOMAIN accepted :
                           accepted[k].work_id = u /\ accepted[k].blocks # <<>>}
      BY <1>2 DEF WorksOf, S!WorksUpTo
    <3>4. S!WorksUpTo(last, u)' =
             {k \in 1 .. last : accepted'[k].work_id = u /\ accepted'[k].blocks # <<>>}
      BY DEF S!WorksUpTo
    <3>5. last \notin DOMAIN accepted
      BY <1>1, <1>2
    <3> QED BY <1>2, <3>1, <3>2, <3>3, <3>4, <3>5
  <2>7. IsFiniteSet(WorksOf(u)) /\ Cardinality(WorksOf(u)) \in Nat
    BY <1>2, WorksFinite DEF IInv, WorksOf
  <2>8. Cardinality(S!WorksUpTo(last, u)') = Cardinality(WorksOf(u)) + 1
    BY <2>6, <2>7, OneMore
  <2>9. Cardinality(WorksOf(u)) = Cardinality(S!AnswersTo(u))
    BY <2>2 DEF Free
  <2> QED BY <2>5, <2>7, <2>8, <2>9
<1>12. j \in DOMAIN accepted /\ t = accepted[j] /\ t # s
  BY <1>1, <1>2, <1>6, <1>11
<1>13. S!Answered(t)' => S!Answered(t)
  <2> SUFFICES ASSUME S!Answered(t)' PROVE S!Answered(t)
    OBVIOUS
  <2>1. PICK k \in DOMAIN accepted' :
           /\ accepted'[k] = t
           /\ Cardinality(S!WorksUpTo(k, t.work_id)') <= Cardinality(S!AnswersTo(t.work_id))
    BY <1>4, ServiceCardinality DEF S!Answered
  <2>2. k \in DOMAIN accepted
    BY <1>1, <1>2, <1>12, <2>1
  <2>3. /\ accepted[k] = t
        /\ Cardinality(S!WorksUpTo(k, t.work_id)) <= Cardinality(S!AnswersTo(t.work_id))
    BY <1>2, <1>5, <2>1, <2>2
  <2> QED BY <2>2, <2>3, ServiceCardinality, Zenon DEF S!Answered
<1>14. IsMerged(t, b)
  BY <1>7, <1>8, <1>13 DEF IsMerged
<1> QED BY <1>7, <1>12, <1>14 DEF Begun, UnmergedOf

LEMMA InputSnippetInOrder ==
  ASSUME IInv, OInv, NEW s \in Requests, InputSnippet(s)
  PROVE  OInv'
<1>1. PICK last : last = Len(accepted) + 1
  OBVIOUS
<1>2. /\ Len(accepted) \in Nat /\ DOMAIN accepted = 1 .. Len(accepted)
      /\ Len(accepted') = last /\ DOMAIN accepted' = 1 .. last /\ accepted'[last] = s
      /\ \A k \in DOMAIN accepted : accepted'[k] = accepted[k]
  BY <1>1, AcceptedMore
<1>3. /\ UNCHANGED <<scanning, next_block, FilterQueue, filtering, MergeQueue,
                      m_MergeManager, sent>>
      /\ ScanQueue' = Append(ScanQueue, s) /\ S!IsFree(s.work_id) /\ s.work_id \in WorkIds
  BY SnippetFacts DEF InputSnippet, push_work
<1>4. /\ Len(ScanQueue) \in Nat /\ DOMAIN ScanQueue = 1 .. Len(ScanQueue)
      /\ Len(ScanQueue') = Len(ScanQueue) + 1 /\ DOMAIN ScanQueue' = 1 .. Len(ScanQueue) + 1
      /\ ScanQueue'[Len(ScanQueue) + 1] = s
      /\ \A k \in 1 .. Len(ScanQueue) : ScanQueue'[k] = ScanQueue[k]
  BY <1>3, AppendProperties, LenProperties DEF IInv, TypeOK
<1>5. Scanned' = Scanned /\ Scanned \in Nat /\ Len(accepted) = Scanned + Len(ScanQueue)
  BY <1>1, <1>2, <1>4 DEF Scanned, OInv, ScanInOrder
<1>6. ScanInOrder'
  <2>1. ASSUME NEW k \in DOMAIN ScanQueue' PROVE ScanQueue'[k] = accepted'[Scanned + k]
    <3>1. CASE k = Len(ScanQueue) + 1
      <4>1. Scanned + k = last
        BY <1>1, <1>4, <1>5, <3>1
      <4> QED BY <1>2, <1>4, <3>1, <4>1
    <3>2. CASE k \in DOMAIN ScanQueue
      <4>1. Scanned + k \in DOMAIN accepted
        BY <1>2, <1>4, <1>5, <3>2
      <4>2. ScanQueue[k] = accepted[Scanned + k]
        BY <3>2 DEF OInv, ScanInOrder
      <4> QED BY <1>2, <1>4, <3>2, <4>1, <4>2
    <3> QED BY <1>4, <3>1, <3>2
  <2>2. scanning # Idle => Scanned > 0 /\ scanning = accepted'[Scanned]
    <3> SUFFICES ASSUME scanning # Idle PROVE Scanned > 0 /\ scanning = accepted'[Scanned]
      OBVIOUS
    <3>1. Scanned > 0 /\ scanning = accepted[Scanned]
      BY DEF OInv, ScanInOrder
    <3>2. Scanned \in DOMAIN accepted
      BY <1>2, <1>4, <1>5, <3>1
    <3> QED BY <1>2, <3>1, <3>2
  <2> QED BY <1>3, <1>5, <2>1, <2>2 DEF ScanInOrder
<1>7. /\ \A p \in DOMAIN FilterQueue : At(FilterQueue[p].work_id)' = At(FilterQueue[p].work_id)
      /\ \A p \in DOMAIN MergeQueue : At(MergeQueue[p].work_id)' = At(MergeQueue[p].work_id)
      /\ \A f \in Filters :
            filtering[f] # Idle => At(filtering[f].work_id)' = At(filtering[f].work_id)
  <2>1. Free(s.work_id)
    BY <1>3, IdIsFree
  <2>2. ASSUME NEW r, r.work_id # s.work_id, \E n \in DOMAIN accepted : OfSnippet(r, n),
               NEW w, w = r.work_id
        PROVE  At(w)' = At(r.work_id)
    BY <2>2, AtStays DEF OfSnippet
  <2>3. ASSUME NEW p \in DOMAIN FilterQueue
        PROVE  At(FilterQueue[p].work_id)' = At(FilterQueue[p].work_id)
    <3>1. /\ FilterQueue[p].work_id # s.work_id
          /\ \E n \in DOMAIN accepted : OfSnippet(FilterQueue[p], n)
      BY <1>3, <2>1, FreeIsUnused, QueueResults
    <3>2. \A w : w = FilterQueue[p].work_id => At(w)' = At(FilterQueue[p].work_id)
      BY <2>2, <3>1
    <3> QED BY <1>3, <3>2
  <2>4. ASSUME NEW p \in DOMAIN MergeQueue
        PROVE  At(MergeQueue[p].work_id)' = At(MergeQueue[p].work_id)
    <3>1. /\ MergeQueue[p].work_id # s.work_id
          /\ \E n \in DOMAIN accepted : OfSnippet(MergeQueue[p], n)
      BY <1>3, <2>1, FreeIsUnused, QueueResults
    <3>2. \A w : w = MergeQueue[p].work_id => At(w)' = At(MergeQueue[p].work_id)
      BY <2>2, <3>1
    <3> QED BY <1>3, <3>2
  <2>5. ASSUME NEW f \in Filters, filtering[f] # Idle
        PROVE  At(filtering[f].work_id)' = At(filtering[f].work_id)
    <3>1. /\ filtering[f].work_id # s.work_id
          /\ \E n \in DOMAIN accepted : OfSnippet(filtering[f], n)
      BY <1>3, <2>1, <2>5, FreeIsUnused, QueueResults
    <3>2. \A w : w = filtering[f].work_id => At(w)' = At(filtering[f].work_id)
      BY <2>2, <3>1
    <3> QED BY <1>3, <3>2
  <2> QED BY <2>3, <2>4, <2>5
<1>8. FilterQueueInOrder'
  BY <1>3, <1>5, <1>7 DEF OInv, FilterQueueInOrder
<1>9. \A j : Passed(j) => Passed(j)'
  BY <1>3, <1>5, <1>7 DEF Passed
<1>10. \A j, p : LateInFilters(j)' = LateInFilters(j) /\ LateInQueue(j, p)' = LateInQueue(j, p)
  BY <1>3, <1>7 DEF LateInFilters, LateInQueue
<1>11. \A j, p : FewLate(j, p) => FewLate(j, p)'
  BY <1>10 DEF FewLate
<1>12. ASSUME NEW f \in Filters, filtering'[f] # Idle PROVE Passed(At(filtering[f].work_id))'
  <2>1. \A j : j = At(filtering[f].work_id) => Passed(j)'
    BY <1>3, <1>9, <1>12 DEF OInv, OvertakenOnlyInFilters
  <2>2. At(filtering[f].work_id)' = At(filtering[f].work_id)
    BY <1>3, <1>7, <1>12
  <2> QED BY <2>1, <2>2 DEF Passed
<1>13. ASSUME NEW p \in DOMAIN MergeQueue'
       PROVE  Passed(At(MergeQueue[p].work_id))' /\ FewLate(At(MergeQueue[p].work_id), p)'
  <2>1. \A j : j = At(MergeQueue[p].work_id) => Passed(j)' /\ FewLate(j, p)'
    BY <1>3, <1>9, <1>11 DEF OInv, OvertakenOnlyInFilters
  <2>2. At(MergeQueue[p].work_id)' = At(MergeQueue[p].work_id)
    BY <1>3, <1>7
  <2> QED BY <2>1, <2>2 DEF Passed, FewLate, LateInFilters, LateInQueue
<1>14. ASSUME NEW j, j \in DOMAIN accepted', Begun(j)' PROVE Passed(j)' /\ FewLate(j, 0)'
  <2>1. Passed(j) /\ FewLate(j, 0)
    BY <1>14, InputBegins DEF OInv, OvertakenOnlyInFilters
  <2> QED BY <1>9, <1>11, <2>1
<1>15. OvertakenOnlyInFilters'
  BY <1>12, <1>13, <1>14 DEF OvertakenOnlyInFilters
<1> QED BY <1>6, <1>8, <1>15 DEF OInv
-----------------------------------------------------------------------------
LEMMA InitInOrder == ASSUME Init PROVE OInv
<1> USE DEF Init
<1>1. /\ DOMAIN accepted = {} /\ DOMAIN ScanQueue = {} /\ DOMAIN FilterQueue = {}
      /\ DOMAIN MergeQueue = {} /\ Len(accepted) = 0 /\ Len(ScanQueue) = 0
      /\ scanning = Idle /\ \A f \in Filters : filtering[f] = Idle
  OBVIOUS
<1>2. Scanned = 0
  BY <1>1 DEF Scanned
<1>3. ScanInOrder /\ FilterQueueInOrder /\ OvertakenOnlyInFilters
  BY <1>1, <1>2 DEF ScanInOrder, FilterQueueInOrder, OvertakenOnlyInFilters
<1> QED BY <1>3 DEF OInv

LEMMA StutterInOrder == ASSUME IInv, OInv, UNCHANGED blockVars PROVE OInv'
<1> USE DEF blockVars
<1>1. Scanned' = Scanned /\ \A w : At(w)' = At(w)
  BY AtKept DEF Scanned
<1>2. ScanInOrder' /\ FilterQueueInOrder'
  BY <1>1 DEF OInv, ScanInOrder, FilterQueueInOrder
<1>3. \A j \in Nat : Passed(j) => Passed(j)'
  BY <1>1 DEF Passed
<1> QED BY <1>2, <1>3, OvertakenKept DEF OInv

LEMMA StepInOrder == IInv /\ OInv /\ [Next]_vars => OInv'
<1> SUFFICES ASSUME IInv, OInv, [Next]_vars PROVE OInv'
  OBVIOUS
<1>1. CASE \E s \in Requests : InputSnippet(s)
  BY <1>1, InputSnippetInOrder
<1>2. CASE ScanStep
  BY <1>2, TakeSnippetInOrder, BlockScanInOrder, EndOfSnippetInOrder DEF ScanStep
<1>3. CASE \E f \in Filters : FilterStep(f)
  BY <1>3, TakeBlockInOrder, BlockFilterInOrder DEF FilterStep
<1>4. CASE MergeBlock
  BY <1>4, MergeBlockInOrder
<1>5. CASE Halt
  BY <1>5, HaltKeepsBlocks, StutterInOrder
<1>6. CASE UNCHANGED vars
  BY <1>6, StutterInOrder DEF vars
<1> QED BY <1>1, <1>2, <1>3, <1>4, <1>5, <1>6 DEF Next

-----------------------------------------------------------------------------
(* A snippet that misses a block is the one that keeps its id busy. *)
LEMMA MissingIsBusy ==
  ASSUME IInv, NEW i \in DOMAIN accepted, NEW b \in UnmergedOf(accepted[i])
  PROVE  /\ Busy(accepted[i].work_id, i) /\ At(accepted[i].work_id) = i
         /\ b \in BlocksOf(accepted[i]) /\ b \in BlockIds
         /\ Cardinality(InBuffer(accepted[i].work_id, b)) = 0
<1> DEFINE s == accepted[i]
           w == s.work_id
<1>1. s \in Requests /\ w \in WorkIds /\ i \in Nat /\ DOMAIN accepted = 1 .. Len(accepted)
  BY AcceptedType, SnippetFacts DEF IInv
<1>2. b \in BlocksOf(s) /\ ~ S!Answered(s) /\ InBuffer(w, b) = {}
  BY DEF UnmergedOf, IsMerged
<1>3. s.blocks # <<>>
  <2>1. s.blocks = <<>> => BlocksOf(s) = {}
    BY DEF BlocksOf
  <2> QED BY <1>2, <2>1
<1>4. ~ Free(w)
  <2> SUFFICES ASSUME Free(w) PROVE FALSE
    OBVIOUS
  <2>1. S!WorksUpTo(i, w) \subseteq WorksOf(w)
    BY <1>1, AcceptedType DEF WorksOf, S!WorksUpTo, IInv
  <2>2. IsFiniteSet(WorksOf(w))
    BY WorksFinite, AcceptedType DEF IInv, WorksOf
  <2>3. Cardinality(S!WorksUpTo(i, w)) <= Cardinality(S!AnswersTo(w))
    BY <2>1, <2>2, FS_Subset DEF Free
  <2>4. S!Answered(s)
    BY <2>3, ServiceCardinality, Zenon DEF S!Answered
  <2> QED BY <1>2, <2>4
<1>5. PICK n \in DOMAIN accepted : Busy(w, n)
  BY <1>1, <1>4 DEF IInv, WorksOK
<1>6. n = i
  BY <1>2, <1>3, <1>5, EarlierAnswered
<1>7. b \in BlockIds
  BY <1>1, <1>2, SnippetFacts
<1>8. At(w) = i
  BY <1>5, <1>6, BusyAt DEF IInv
<1> QED BY <1>2, <1>5, <1>6, <1>7, <1>8, FS_EmptySet

(* A block that an earlier snippet misses, when Scan and FilterQueue have   *)
(* only later ones, is in a filter or in MergeQueue.                        *)
LEMMA MissingIsLate ==
  ASSUME IInv, OInv, NEW j \in DOMAIN accepted, Passed(j), NEW i \in 1 .. j - 1,
         NEW b \in UnmergedOf(accepted[i])
  PROVE  \/ \E f \in LateInFilters(j) :
               i = At(filtering[f].work_id) /\ b = filtering[f].block_id
         \/ \E q \in LateInQueue(j, 0) :
               i = At(MergeQueue[q].work_id) /\ b = MergeQueue[q].block_id
<1> DEFINE w == accepted[i].work_id
<1>1. /\ Len(accepted) \in Nat /\ DOMAIN accepted = 1 .. Len(accepted)
      /\ i \in DOMAIN accepted /\ i < j /\ i \in Nat /\ j \in Nat
      /\ Scanned \in Nat /\ j <= Scanned
  BY AcceptedType DEF IInv, OInv, ScanInOrder, Passed
<1>2. /\ Busy(w, i) /\ At(w) = i /\ b \in BlocksOf(accepted[i]) /\ b \in BlockIds
      /\ Cardinality(InBuffer(w, b)) = 0
  BY <1>1, MissingIsBusy
<1> HIDE DEF w
<1>3. Waiting(w, b) = {}
  <2> SUFFICES ASSUME NEW k \in Waiting(w, b) PROVE FALSE
    OBVIOUS
  <2>1. k \in DOMAIN ScanQueue /\ ScanQueue[k].work_id = w /\ b \in BlocksOf(ScanQueue[k])
    BY DEF Waiting
  <2>2. /\ Len(ScanQueue) \in Nat /\ DOMAIN ScanQueue = 1 .. Len(ScanQueue)
        /\ Len(accepted) = Scanned + Len(ScanQueue)
    BY <1>1, LenProperties DEF IInv, TypeOK, Scanned
  <2>3. Scanned + k \in DOMAIN accepted /\ Scanned + k > i /\ ScanQueue[k] = accepted[Scanned + k]
    BY <1>1, <2>1, <2>2 DEF OInv, ScanInOrder
  <2>4. ScanQueue[k].blocks # <<>>
    <3>1. ScanQueue[k].blocks = <<>> => BlocksOf(ScanQueue[k]) = {}
      BY DEF BlocksOf
    <3> QED BY <2>1, <3>1
  <2>5. Scanned + k \in WorksOf(w)
    BY <1>1, <2>1, <2>3, <2>4 DEF WorksOf, S!WorksUpTo
  <2>6. Scanned + k \in 1 .. i
    BY <1>2, <2>5 DEF Busy, S!WorksUpTo
  <2> QED BY <1>1, <2>3, <2>6
<1>4. InScan(w, b) = {}
  <2> SUFFICES ASSUME InScan(w, b) # {} PROVE FALSE
    OBVIOUS
  <2>1. scanning # Idle
    BY DEF InScan
  <2>2. PICK k \in next_block .. Len(scanning.blocks) : scanning.work_id = w
    BY <2>1 DEF InScan, Unscanned
  <2>3. scanning \in Requests /\ next_block \in Nat
    BY <2>1 DEF IInv, TypeOK
  <2>4. next_block <= Len(scanning.blocks)
    BY <2>2, <2>3, SnippetFacts
  <2>5. At(w) = Scanned
    BY <2>1, <2>2, <2>4, ScanningAt DEF OInv
  <2> QED BY <1>1, <1>2, <2>5
<1>5. In(FilterQueue, w, b) = {}
  <2> SUFFICES ASSUME NEW p \in In(FilterQueue, w, b) PROVE FALSE
    OBVIOUS
  <2>1. p \in DOMAIN FilterQueue /\ FilterQueue[p].work_id = w
    BY DEF In
  <2>2. j <= At(w)
    BY <2>1 DEF Passed
  <2> QED BY <1>1, <1>2, <2>2
<1>6. InFilter(w, b) # {} \/ In(MergeQueue, w, b) # {}
  <2>1. OnTheWay(w, b) = 1
    BY <1>2 DEF Busy, w
  <2>2. Cardinality({}) = 0
    BY FS_EmptySet
  <2>3. /\ Cardinality(Waiting(w, b)) = 0 /\ Cardinality(InScan(w, b)) = 0
        /\ Cardinality(In(FilterQueue, w, b)) = 0
    BY <1>3, <1>4, <1>5, <2>2
  <2>4. /\ Cardinality(InFilter(w, b)) \in Nat /\ Cardinality(In(MergeQueue, w, b)) \in Nat
    BY CountTypes DEF IInv
  <2>5. Cardinality(InFilter(w, b)) + Cardinality(In(MergeQueue, w, b)) = 1
    BY <1>2, <2>1, <2>3, <2>4 DEF OnTheWay
  <2>6. Cardinality(InFilter(w, b)) # 0 \/ Cardinality(In(MergeQueue, w, b)) # 0
    BY <2>4, <2>5
  <2> QED BY <2>2, <2>6
<1>7. CASE InFilter(w, b) # {}
  <2>1. PICK f \in Filters :
           filtering[f] # Idle /\ filtering[f].work_id = w /\ filtering[f].block_id = b
    BY <1>7 DEF InFilter
  <2>2. f \in LateInFilters(j)
    BY <1>1, <1>2, <2>1 DEF LateInFilters
  <2> QED BY <1>2, <2>1, <2>2
<1>8. CASE In(MergeQueue, w, b) # {}
  <2>1. PICK q \in DOMAIN MergeQueue : MergeQueue[q].work_id = w /\ MergeQueue[q].block_id = b
    BY <1>8 DEF In
  <2>2. q > 0
    BY LenProperties DEF IInv, TypeOK
  <2>3. q \in LateInQueue(j, 0)
    BY <1>1, <1>2, <2>1, <2>2 DEF LateInQueue
  <2> QED BY <1>2, <2>1, <2>3
<1> QED BY <1>6, <1>7, <1>8

(* In every state of the pipeline, once Merge has a block of a snippet, the *)
(* snippets accepted before it miss fewer blocks than there are filters:    *)
(* the queues keep the order, and a filter holds one block at a time.       *)
THEOREM OvertakingCorrect == SafetySpec => []OvertakingBounded
<1>1. Init => OInv
  BY InitInOrder
<1>2. IInv /\ OInv => OvertakingBounded
  <2> SUFFICES ASSUME IInv, OInv, NEW j \in DOMAIN accepted,
                      UnmergedOf(accepted[j]) # BlocksOf(accepted[j])
               PROVE  Cardinality(UNION {{<<i, b>> : b \in UnmergedOf(accepted[i])} : i \in 1 .. j - 1})
                        < Cardinality(Filters)
    BY DEF OvertakingBounded
  <2> DEFINE U == UNION {{<<i, b>> : b \in UnmergedOf(accepted[i])} : i \in 1 .. j - 1}
             A == {<<At(filtering[f].work_id), filtering[f].block_id>> : f \in LateInFilters(j)}
             B == {<<At(MergeQueue[q].work_id), MergeQueue[q].block_id>> :
                      q \in LateInQueue(j, 0)}
  <2>1. Passed(j) /\ FewLate(j, 0)
    BY DEF Begun, OInv, OvertakenOnlyInFilters
  <2>2. U \subseteq A \cup B
    <3>1. ASSUME NEW i \in 1 .. j - 1, NEW b \in UnmergedOf(accepted[i])
          PROVE  <<i, b>> \in A \/ <<i, b>> \in B
      BY <2>1, MissingIsLate
    <3> QED BY <3>1
  <2>3. /\ IsFiniteSet(LateInFilters(j)) /\ Cardinality(LateInFilters(j)) \in Nat
        /\ IsFiniteSet(LateInQueue(j, 0)) /\ Cardinality(LateInQueue(j, 0)) \in Nat
    BY LateFinite DEF IInv
  <2>4. IsFiniteSet(A) /\ Cardinality(A) \in Nat /\ Cardinality(A) <= Cardinality(LateInFilters(j))
    <3> DEFINE g == [f \in LateInFilters(j) |->
                       <<At(filtering[f].work_id), filtering[f].block_id>>]
    <3>1. g \in Surjection(LateInFilters(j), A)
      BY DEF Surjection
    <3> HIDE DEF g, A
    <3> QED BY <2>3, <3>1, FS_Surjection, FS_CardinalityType
  <2>5. IsFiniteSet(B) /\ Cardinality(B) \in Nat /\ Cardinality(B) <= Cardinality(LateInQueue(j, 0))
    <3> DEFINE g == [q \in LateInQueue(j, 0) |->
                       <<At(MergeQueue[q].work_id), MergeQueue[q].block_id>>]
    <3>1. g \in Surjection(LateInQueue(j, 0), B)
      BY DEF Surjection
    <3> HIDE DEF g, B
    <3> QED BY <2>3, <3>1, FS_Surjection, FS_CardinalityType
  <2> HIDE DEF U, A, B
  <2>6. /\ Cardinality(U) <= Cardinality(A) + Cardinality(B)
        /\ Cardinality(U) \in Nat
    <3>1. /\ IsFiniteSet(A \cup B)
          /\ Cardinality(A \cup B) = Cardinality(A) + Cardinality(B) - Cardinality(A \cap B)
      BY <2>4, <2>5, FS_Union
    <3>2. Cardinality(A \cap B) \in Nat
      BY <2>4, FS_Intersection, FS_CardinalityType
    <3>3. IsFiniteSet(U) /\ Cardinality(U) <= Cardinality(A \cup B)
      BY <2>2, <3>1, FS_Subset
    <3>4. Cardinality(U) \in Nat
      BY <3>3, FS_CardinalityType
    <3> QED BY <2>4, <2>5, <3>1, <3>2, <3>3, <3>4
  <2>7. Cardinality(U) < Cardinality(Filters)
    <3>1. Cardinality(Filters) \in Nat
      BY FiltersAssumption, FS_CardinalityType
    <3> QED BY <2>1, <2>3, <2>4, <2>5, <2>6, <3>1 DEF FewLate
  <2> QED BY <2>7 DEF U
<1> QED BY <1>1, <1>2, InvariantHolds, StepInOrder, PTL DEF SafetySpec
=============================================================================
