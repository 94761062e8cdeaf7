----------------------------- MODULE WorkQueue ------------------------------
(***************************************************************************)
(* The blocking queue between two stages of the pipeline (class WorkQueue, *)
(* keti/input.h): a std::queue, one mutex and one condition variable.      *)
(* push_work releases the mutex before it notifies and notifies only when  *)
(* it found the queue empty, with notify_one; wait_and_pop re-tests the    *)
(* queue each time it wakes up.  main.cc instantiates it three times, with *)
(* the threads Input -> Scan, Scan -> two Filters, two Filters -> Merge.   *)
(***************************************************************************)
EXTENDS Naturals, Sequences, FiniteSets

CONSTANTS
    Producers,  \* threads that call push_work
    Consumers,  \* threads that call wait_and_pop in an endless loop
    MaxPush,    \* bound: how many items each producer pushes
    NoThread    \* the mutex is free

ASSUME ThreadsAssumption ==
    /\ Producers \cap Consumers = {}
    /\ Consumers # {}
    /\ NoThread \notin Producers \cup Consumers

ASSUME MaxPushAssumption == MaxPush \in Nat

Threads == Producers \cup Consumers

\* The k-th item a producer pushes.
Item == Producers \X (1 .. MaxPush)

VARIABLES
    work,        \* queue<T> work
    work_mutex,  \* the thread that holds work_mutex, or NoThread
    pc,          \* where each thread is
    pushes,      \* how often each producer has called push_work
    popped       \* history: the items handed out, in the order of the pops

vars == <<work, work_mutex, pc, pushes, popped>>

ProducerPC == {"idle", "lock", "push", "notify"}
ConsumerPC == {"busy", "lock", "test", "wait", "relock", "pop"}

Init ==
    /\ work = <<>>
    /\ work_mutex = NoThread
    /\ pc = [t \in Threads |-> IF t \in Producers THEN "idle" ELSE "busy"]
    /\ pushes = [p \in Producers |-> 0]
    /\ popped = <<>>

Goto(t, l) == pc' = [pc EXCEPT ![t] = l]

\* An error: the call goes on without the lock.
PassBy(t) == work_mutex = NoThread /\ UNCHANGED work_mutex

Acquire(t) == work_mutex = NoThread /\ work_mutex' = t

-----------------------------------------------------------------------------
(* push_work *)

CallPush(p) ==
    /\ pc[p] = "idle"
    /\ pushes[p] < MaxPush
    /\ pushes' = [pushes EXCEPT ![p] = @ + 1]
    /\ Goto(p, "lock")
    /\ UNCHANGED <<work, work_mutex, popped>>

LockPush(p) ==
    /\ pc[p] = "lock"
    /\ Acquire(p)
    /\ Goto(p, "push")
    /\ UNCHANGED <<work, pushes, popped>>

\* An error: the queue is tested after the push instead of before it.
WasEmptyAfterPush == Append(work, 0) = <<>>

WasEmpty == work = <<>>

\* An error: the item is read once its producer has gone on to the next one.
LateArgument(p) == <<p, pushes[p] + 1>>

\* The argument, passed by value.
Argument(p) == <<p, pushes[p]>>

\* work.push(item) and lock.unlock(); was_empty decides what comes next.
Push(p) ==
    /\ pc[p] = "push"
    /\ work' = Append(work, Argument(p))
    /\ work_mutex' = NoThread
    /\ Goto(p, IF WasEmpty THEN "notify" ELSE "idle")
    /\ UNCHANGED <<pushes, popped>>

Sleepers == {c \in Consumers : pc[c] = "wait"}

\* notify_one, outside the mutex: one sleeper is woken, if there is any.
Notify(p) ==
    /\ pc[p] = "notify"
    /\ IF Sleepers = {}
       THEN Goto(p, "idle")
       ELSE \E c \in Sleepers : pc' = [pc EXCEPT ![p] = "idle", ![c] = "relock"]
    /\ UNCHANGED <<work, work_mutex, pushes, popped>>

-----------------------------------------------------------------------------
(* wait_and_pop *)

CallPop(c) ==
    /\ pc[c] = "busy"
    /\ Goto(c, "lock")
    /\ UNCHANGED <<work, work_mutex, pushes, popped>>

LockPop(c) ==
    /\ pc[c] = "lock"
    /\ Acquire(c)
    /\ Goto(c, "test")
    /\ UNCHANGED <<work, pushes, popped>>

\* while (work.empty()) work_available.wait(lock): wait releases the mutex.
Wait(c) ==
    /\ pc[c] = "test"
    /\ work = <<>>
    /\ work_mutex' = NoThread
    /\ Goto(c, "wait")
    /\ UNCHANGED <<work, pushes, popped>>

FoundWork(c) ==
    /\ pc[c] = "test"
    /\ work # <<>>
    /\ Goto(c, "pop")
    /\ UNCHANGED <<work, work_mutex, pushes, popped>>

\* wait may return although nobody notified.
SpuriousWake(c) ==
    /\ pc[c] = "wait"
    /\ Goto(c, "relock")
    /\ UNCHANGED <<work, work_mutex, pushes, popped>>

\* An error: "if" for "while", a woken thread trusts its wake-up.
NoRetest == "pop"

\* Where wait_and_pop goes on after wait returned: the loop condition.
AfterWait == "test"

\* wait takes the mutex again before it returns.
Relock(c) ==
    /\ pc[c] = "relock"
    /\ Acquire(c)
    /\ Goto(c, AfterWait)
    /\ UNCHANGED <<work, pushes, popped>>

\* An error: the newest item is handed out and the oldest one removed.
Back == work[Len(work)]

Front == Head(work)

\* front, pop and the release of the mutex on return.  front() of an empty queue
\* is undefined in C++: NeverPopsEmpty says that the first guard alone leads here.
Pop(c) ==
    /\ pc[c] = "pop"
    /\ work # <<>>
    /\ popped' = Append(popped, Front)
    /\ work' = Tail(work)
    /\ work_mutex' = NoThread
    /\ Goto(c, "busy")
    /\ UNCHANGED pushes

-----------------------------------------------------------------------------
ProducerNext(p) == CallPush(p) \/ LockPush(p) \/ Push(p) \/ Notify(p)

ConsumerStep(c) ==
    \/ CallPop(c) \/ LockPop(c) \/ Wait(c) \/ FoundWork(c) \/ Relock(c) \/ Pop(c)

Next ==
    \/ \E p \in Producers : ProducerNext(p)
    \/ \E c \in Consumers : ConsumerStep(c) \/ SpuriousWake(c)

SafetySpec == Init /\ [][Next]_vars

(***************************************************************************)
(* A producer need not call push_work, but a call under way goes on; a     *)
(* consumer comes back for the next item (Scanning, Filtering and Merging  *)
(* are endless loops).  Nothing makes a spurious wake-up happen.           *)
(***************************************************************************)
Spec ==
    /\ SafetySpec
    /\ \A p \in Producers :
          WF_vars(LockPush(p)) /\ WF_vars(Push(p)) /\ WF_vars(Notify(p))
    /\ \A c \in Consumers : WF_vars(ConsumerStep(c))

-----------------------------------------------------------------------------
(* The type of the state of input.h's WorkQueue and of the threads in it. *)
TypeOK ==
    /\ work \in Seq(Item)
    /\ work_mutex \in Threads \cup {NoThread}
    /\ pc \in [Threads -> ProducerPC \cup ConsumerPC]
    /\ \A p \in Producers : pc[p] \in ProducerPC
    /\ \A c \in Consumers : pc[c] \in ConsumerPC
    /\ pushes \in [Producers -> 0 .. MaxPush]
    /\ popped \in Seq(Item)

(* Exactly the thread inside a critical section of push_work or            *)
(* wait_and_pop owns work_mutex: wait gives it up and takes it back.       *)
MutexOwned ==
    \A t \in Threads : work_mutex = t <=> pc[t] \in {"push", "test", "pop"}

(* wait_and_pop never calls front() on an empty queue, although between a  *)
(* notify and the return of wait another consumer may take the item.       *)
NeverPopsEmpty == \A c \in Consumers : pc[c] = "pop" => work # <<>>

(* The queue never holds an item while every consumer sleeps and no        *)
(* notify_one is still to come: notifying only when the queue was empty,   *)
(* and after the mutex was released, loses no wake-up.                     *)
NoLostWakeup ==
    work # <<>> =>
        \/ \E p \in Producers : pc[p] = "notify"
        \/ \E c \in Consumers : pc[c] # "wait"

(* The abstract queue: what was handed out, followed by what still waits.  *)
F == INSTANCE Fifo WITH accepted <- popped \o work, taken <- Len(popped)

(* push_work and wait_and_pop implement a fair first-in first-out queue:   *)
(* items come out once, in the order of the pushes, and none stays in the  *)
(* queue for ever.                                                         *)
ImplementsFifo == F!Spec
=============================================================================
