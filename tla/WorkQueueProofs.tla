-------------------------- MODULE WorkQueueProofs ---------------------------
(***************************************************************************)
(* Proofs about WorkQueue, for any number of producers, consumers and      *)
(* pushes.  IInv is the inductive invariant: NeverPopsEmpty needs that no  *)
(* other consumer is inside the critical section, which is MutexOwned, and *)
(* the type of the queue needs that a push has been counted by then.       *)
(***************************************************************************)
EXTENDS WorkQueue, SequenceTheorems, TLAPS

(* A call of push_work under way has been counted. *)
PushCounted == \A p \in Producers : pc[p] \in {"lock", "push"} => pushes[p] >= 1

IInv == TypeOK /\ PushCounted /\ MutexOwned /\ NeverPopsEmpty /\ NoLostWakeup

(* Every queue of input.h starts unlocked and empty, with all threads away. *)
LEMMA InitIInv == Init => IInv
<1> SUFFICES ASSUME Init PROVE IInv
  OBVIOUS
<1> USE ThreadsAssumption, MaxPushAssumption DEF Init
<1>1. TypeOK
  <2>1. work \in Seq(Item) /\ popped \in Seq(Item)
    BY EmptySeq
  <2>2. pushes \in [Producers -> 0 .. MaxPush]
    OBVIOUS
  <2>3. pc \in [Threads -> ProducerPC \cup ConsumerPC]
    BY DEF ProducerPC, ConsumerPC
  <2>4. \A p \in Producers : pc[p] \in ProducerPC
    BY DEF ProducerPC, Threads
  <2>5. \A c \in Consumers : pc[c] \in ConsumerPC
    BY DEF ConsumerPC, Threads
  <2> QED BY <2>1, <2>2, <2>3, <2>4, <2>5 DEF TypeOK
<1>2. PushCounted
  BY DEF PushCounted, Threads
<1>3. MutexOwned
  BY DEF MutexOwned, Threads
<1>4. NeverPopsEmpty /\ NoLostWakeup
  BY DEF NeverPopsEmpty, NoLostWakeup, Threads
<1> QED BY <1>1, <1>2, <1>3, <1>4 DEF IInv

(* A step of push_work by one producer preserves the invariant. *)
LEMMA ProducerIInv ==
  ASSUME IInv, NEW p \in Producers, ProducerNext(p)
  PROVE  IInv'
<1> USE ThreadsAssumption, MaxPushAssumption
        DEF IInv, TypeOK, PushCounted, MutexOwned, NeverPopsEmpty, NoLostWakeup,
            Threads, Goto, Acquire, ProducerPC, ConsumerPC
<1>1. CASE CallPush(p)
  BY <1>1 DEF CallPush
<1>2. CASE LockPush(p)
  BY <1>2 DEF LockPush
<1>3. CASE Push(p)
  <2>1. Argument(p) \in Item
    BY <1>3 DEF Push, Argument, Item
  <2>2. work' \in Seq(Item) /\ work' # <<>>
    BY <1>3, <2>1, AppendProperties DEF Push
  <2>3. TypeOK'
    BY <1>3, <2>2 DEF Push
  <2>4. PushCounted' /\ MutexOwned' /\ NeverPopsEmpty'
    BY <1>3, <2>2 DEF Push
  <2>5. NoLostWakeup'
    BY <1>3 DEF Push, WasEmpty
  <2> QED BY <2>3, <2>4, <2>5
<1>4. CASE Notify(p)
  <2>1. CASE Sleepers = {}
    BY <1>4, <2>1 DEF Notify, Sleepers
  <2>2. CASE Sleepers # {}
    <3>1. PICK c \in Sleepers : pc' = [pc EXCEPT ![p] = "idle", ![c] = "relock"]
      BY <1>4, <2>2 DEF Notify
    <3>2. c \in Consumers /\ c # p /\ pc[c] = "wait"
      BY <3>1 DEF Sleepers
    <3> QED BY <1>4, <3>1, <3>2 DEF Notify
  <2> QED BY <2>1, <2>2
<1> QED BY <1>1, <1>2, <1>3, <1>4 DEF ProducerNext

(* A step of wait_and_pop by one consumer preserves the invariant. *)
LEMMA ConsumerIInv ==
  ASSUME IInv, NEW c \in Consumers, ConsumerStep(c) \/ SpuriousWake(c)
  PROVE  IInv'
<1> USE ThreadsAssumption, MaxPushAssumption
        DEF IInv, TypeOK, PushCounted, MutexOwned, NeverPopsEmpty, NoLostWakeup,
            Threads, Goto, Acquire, ProducerPC, ConsumerPC
<1>1. CASE CallPop(c)
  BY <1>1 DEF CallPop
<1>2. CASE LockPop(c)
  BY <1>2 DEF LockPop
<1>3. CASE Wait(c)
  BY <1>3 DEF Wait
<1>4. CASE FoundWork(c)
  BY <1>4 DEF FoundWork
<1>5. CASE Relock(c)
  BY <1>5 DEF Relock, AfterWait
<1>6. CASE Pop(c)
  <2>1. Front \in Item /\ work' \in Seq(Item)
    BY <1>6, HeadTailProperties DEF Pop, Front
  <2>2. popped' \in Seq(Item)
    BY <1>6, <2>1, AppendProperties DEF Pop
  <2>3. TypeOK'
    BY <1>6, <2>1, <2>2 DEF Pop
  <2>4. PushCounted' /\ MutexOwned' /\ NoLostWakeup'
    BY <1>6 DEF Pop
  <2>5. NeverPopsEmpty'
    BY <1>6 DEF Pop
  <2> QED BY <2>3, <2>4, <2>5
<1>7. CASE SpuriousWake(c)
  BY <1>7 DEF SpuriousWake
<1> QED BY <1>1, <1>2, <1>3, <1>4, <1>5, <1>6, <1>7 DEF ConsumerStep

LEMMA NextIInv == IInv /\ [Next]_vars => IInv'
<1> SUFFICES ASSUME IInv, [Next]_vars PROVE IInv'
  OBVIOUS
<1>1. CASE UNCHANGED vars
  BY <1>1 DEF vars, IInv, TypeOK, PushCounted, MutexOwned, NeverPopsEmpty, NoLostWakeup
<1>2. CASE Next
  BY <1>2, ProducerIInv, ConsumerIInv DEF Next
<1> QED BY <1>1, <1>2

LEMMA InductiveInvariant == SafetySpec => []IInv
  BY InitIInv, NextIInv, PTL DEF SafetySpec

-----------------------------------------------------------------------------
(* The state of a WorkQueue keeps its type in every reachable state. *)
THEOREM TypeCorrect == SafetySpec => []TypeOK
  BY InductiveInvariant, PTL DEF IInv

(* At most the owner of work_mutex is inside a critical section. *)
THEOREM MutexCorrect == SafetySpec => []MutexOwned
  BY InductiveInvariant, PTL DEF IInv

(* wait_and_pop never calls front() on an empty queue. *)
THEOREM PopCorrect == SafetySpec => []NeverPopsEmpty
  BY InductiveInvariant, PTL DEF IInv

(* Notifying only on the transition from empty, after the mutex has been   *)
(* released, leaves no item in the queue with every consumer asleep and no *)
(* notification under way.                                                 *)
THEOREM WakeupCorrect == SafetySpec => []NoLostWakeup
  BY InductiveInvariant, PTL DEF IInv

-----------------------------------------------------------------------------
(* Appending to the second of two sequences appends to their concatenation. *)
LEMMA AppendToConcat ==
  ASSUME NEW S, NEW s \in Seq(S), NEW t \in Seq(S), NEW e \in S
  PROVE  s \o Append(t, e) = Append(s \o t, e)
<1>1. Append(t, e) = t \o <<e>>
  BY AppendIsConcat
<1>2. <<e>> \in Seq(S) /\ s \o t \in Seq(S)
  BY ConcatProperties
<1>3. Append(s \o t, e) = (s \o t) \o <<e>>
  BY <1>2, AppendIsConcat
<1> QED BY <1>1, <1>2, <1>3, ConcatAssociative

(* Moving the head of the second sequence to the end of the first one      *)
(* leaves their concatenation as it is.                                    *)
LEMMA MoveHead ==
  ASSUME NEW S, NEW s \in Seq(S), NEW t \in Seq(S), t # <<>>
  PROVE  Append(s, Head(t)) \o Tail(t) = s \o t
<1>1. Head(t) \in S /\ Tail(t) \in Seq(S) /\ <<Head(t)>> \in Seq(S)
  BY HeadTailProperties
<1>2. <<Head(t)>> \o Tail(t) = t
  <2>1. Len(<<Head(t)>> \o Tail(t)) = Len(t)
    BY <1>1, ConcatProperties, HeadTailProperties, LenProperties
  <2>2. ASSUME NEW i \in 1 .. Len(t)
        PROVE  (<<Head(t)>> \o Tail(t))[i] = t[i]
    BY <1>1, ConcatProperties, HeadTailProperties, LenProperties
  <2>3. <<Head(t)>> \o Tail(t) \in Seq(S)
    BY <1>1, ConcatProperties
  <2> QED BY <2>1, <2>2, <2>3, SeqEqual
<1>3. Append(s, Head(t)) = s \o <<Head(t)>>
  BY <1>1, AppendIsConcat
<1> QED BY <1>1, <1>2, <1>3, ConcatAssociative

(* Every step of a WorkQueue is a Put, a Take or a stuttering step of Fifo: *)
(* push_work accepts an item at its push, wait_and_pop takes at its pop.    *)
LEMMA StepRefines == IInv /\ [Next]_vars => [F!Next]_(F!vars)
<1> SUFFICES ASSUME IInv, [Next]_vars PROVE [F!Next]_(F!vars)
  OBVIOUS
<1>1. work \in Seq(Item) /\ popped \in Seq(Item)
  BY DEF IInv, TypeOK
<1>2. ASSUME NEW p \in Producers, Push(p) PROVE F!Next
  <2>1. Argument(p) \in Item
    BY <1>2, MaxPushAssumption DEF IInv, TypeOK, PushCounted, Push, Argument, Item
  <2>2. F!Put(Argument(p))
    BY <1>1, <1>2, <2>1, AppendToConcat DEF Push, F!Put
  <2> QED BY <2>1, <2>2 DEF F!Next
<1>3. ASSUME NEW c \in Consumers, Pop(c) PROVE F!Next
  <2>1. work # <<>> /\ work' = Tail(work) /\ popped' = Append(popped, Head(work))
    BY <1>3 DEF Pop, Front
  <2>2. popped' \o work' = popped \o work
    BY <1>1, <2>1, MoveHead
  <2>3. Len(popped') = Len(popped) + 1
    BY <1>1, <2>1, HeadTailProperties, AppendProperties
  <2>4. Len(popped) < Len(popped \o work)
    BY <1>1, <2>1, ConcatProperties, EmptySeq, LenProperties
  <2> QED BY <2>2, <2>3, <2>4 DEF F!Next, F!Take
<1>4. ASSUME UNCHANGED <<work, popped>> PROVE UNCHANGED F!vars
  BY <1>4 DEF F!vars
<1>5. CASE UNCHANGED vars
  BY <1>5, <1>4 DEF vars
<1>6. ASSUME NEW p \in Producers, CallPush(p) \/ LockPush(p) \/ Notify(p)
      PROVE  UNCHANGED F!vars
  BY <1>6, <1>4 DEF CallPush, LockPush, Notify
<1>7. ASSUME NEW c \in Consumers,
             CallPop(c) \/ LockPop(c) \/ Wait(c) \/ FoundWork(c) \/ Relock(c) \/ SpuriousWake(c)
      PROVE  UNCHANGED F!vars
  BY <1>7, <1>4 DEF CallPop, LockPop, Wait, FoundWork, Relock, SpuriousWake
<1>8. CASE Next
  BY <1>8, <1>2, <1>3, <1>6, <1>7 DEF Next, ProducerNext, ConsumerStep
<1> QED BY <1>5, <1>8

(* The WorkQueue of input.h implements the safety part of a first-in       *)
(* first-out queue for any number of threads and items: each item pushed   *)
(* is handed out at most once and in the order of the pushes.              *)
THEOREM RefinesFifo == SafetySpec => F!SafetySpec
<1>1. Init => F!Init
  BY EmptySeq, ConcatEmptySeq DEF Init, F!Init
<1> QED BY <1>1, StepRefines, InductiveInvariant, PTL DEF SafetySpec, F!SafetySpec
=============================================================================
