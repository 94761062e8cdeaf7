------------------------- MODULE BufferSenderProofs -------------------------
(***************************************************************************)
(* Proofs about BufferSender, for any number of messages, descriptors and  *)
(* faults of the manager: how data follow answers, which sockets are left  *)
(* open, and that the exchange implements Delivery.  What makes them       *)
(* inductive is that a connection is made once, in Connect: before it,     *)
(* nothing has become of the message; after it, a link that went down      *)
(* never comes up again, so that what is lost stays lost.                  *)
(***************************************************************************)
EXTENDS BufferSender, TLAPS

\* Before its call of connect, a message has no connection.
NotYetConnected ==
    \A m \in Messages : m > handed \/ (m = handed /\ pc = "connect") => link[m] = "none"

TakenWereConnected == \A m \in taken : link[m] # "none"

\* Data are sent over a link only after the answer came over it.
SendsAnswered == pc = "data" /\ link[handed] = "up" => handed \in answered

IInv ==
    /\ TypeOK
    /\ NotYetConnected
    /\ TakenWereConnected
    /\ SendsAnswered
    /\ DataFollowAnswer
    /\ LeaksAreLosses

Lost(m) == m \notin taken /\ link[m] \in {"ended", "broken", "failed"}

-----------------------------------------------------------------------------
FatesDecided ==
    \A m \in Messages :
        /\ Fate(m) = "delivered" <=> m \in taken
        /\ Fate(m) = "lost" <=> Lost(m)
        /\ Fate(m) = "none" <=> m > handed
        /\ Fate(m) = "pending" <=> m <= handed /\ m \notin taken /\ ~ Lost(m)

(* The cases of Fate exclude one another, in this state and in the next. *)
LEMMA FateCases == TypeOK /\ NotYetConnected /\ TakenWereConnected => FatesDecided
<1> SUFFICES ASSUME TypeOK, NotYetConnected, TakenWereConnected, NEW m \in Messages
             PROVE  FatesDecided!(m)
  BY DEF FatesDecided
<1>1. m \in Nat /\ handed \in Nat
  BY BoundsAssumption DEF Messages, TypeOK
<1>2. m > handed => m \notin taken /\ ~ Lost(m)
  BY DEF NotYetConnected, TakenWereConnected, Lost
<1> QED BY <1>1, <1>2 DEF Fate, Lost

LEMMA NextFateCases ==
  ASSUME TypeOK', NotYetConnected', TakenWereConnected'
  PROVE  FatesDecided'
  BY FateCases, PTL

(* The message in work is one of the messages. *)
LEMMA HandedType ==
  ASSUME TypeOK
  PROVE  /\ handed \in 0 .. Last
         /\ handed \in Nat
         /\ Last \in Nat
         /\ pc # "idle" => handed \in Messages
  BY BoundsAssumption DEF TypeOK, Messages

LEMMA InitIInv == Init => IInv
<1> SUFFICES ASSUME Init PROVE IInv
  OBVIOUS
<1> USE BoundsAssumption DEF Init, Messages
<1>1. TypeOK
  BY DEF TypeOK, LinkStates
<1>2. NotYetConnected /\ TakenWereConnected /\ SendsAnswered
  BY DEF NotYetConnected, TakenWereConnected, SendsAnswered
<1>3. DataFollowAnswer /\ LeaksAreLosses
  BY DEF DataFollowAnswer, LeaksAreLosses
<1> QED BY <1>1, <1>2, <1>3 DEF IInv

-----------------------------------------------------------------------------
(* What is lost stays lost, and its data unsent, as long as neither Connect *)
(* nor SendData concerns it.                                                *)
LEMMA LeaksKept ==
  ASSUME IInv, NotYetConnected', TakenWereConnected', TypeOK', handed' = handed,
         descriptors' \subseteq descriptors,
         pc # "idle" /\ pc' = "idle" =>
             handed \notin descriptors' \/ (Lost(handed)' /\ "data" \notin arrived'[handed]),
         pc = "idle" => pc' = "idle",
         \A m \in Messages : Lost(m) => Lost(m)',
         \A m \in Messages : m # handed \/ pc = "idle" => arrived'[m] = arrived[m]
  PROVE  LeaksAreLosses'
<1> SUFFICES ASSUME NEW m \in descriptors', ~ (m = handed' /\ pc' # "idle")
             PROVE  Fate(m)' = "lost" /\ "data" \notin arrived'[m]
  BY DEF LeaksAreLosses
<1>1. m \in descriptors /\ m \in Messages /\ m \in Messages'
  BY HandedType DEF IInv, TypeOK, Messages
<1>2. Lost(m)' /\ "data" \notin arrived'[m]
  <2>1. CASE m = handed /\ pc # "idle"
    BY <2>1
  <2>2. CASE ~ (m = handed /\ pc # "idle")
    <3>1. Fate(m) = "lost" /\ "data" \notin arrived[m]
      BY <1>1, <2>2 DEF IInv, LeaksAreLosses
    <3>2. Lost(m)
      BY <1>1, <3>1, FateCases DEF IInv, FatesDecided
    <3> QED BY <1>1, <2>2, <3>1, <3>2
  <2> QED BY <2>1, <2>2
<1> QED BY <1>1, <1>2, NextFateCases DEF FatesDecided

-----------------------------------------------------------------------------
(* The Merge thread's steps *)

(* The next message has no connection; the one before it is at rest. *)
LEMMA SocketIInv == ASSUME IInv, Socket PROVE IInv'
<1> USE DEF Socket, managerVars
<1>1. handed \in Nat /\ Last \in Nat /\ handed + 1 \in 1 .. Last
  BY HandedType DEF IInv
<1>2. TypeOK'
  BY <1>1 DEF IInv, TypeOK
<1>3. NotYetConnected' /\ TakenWereConnected'
  BY <1>1 DEF IInv, NotYetConnected, TakenWereConnected, Messages
<1>4. SendsAnswered' /\ DataFollowAnswer'
  BY DEF IInv, SendsAnswered, DataFollowAnswer
<1>5. LeaksAreLosses'
  <2> SUFFICES ASSUME NEW m \in descriptors, m # handed + 1
               PROVE  Fate(m)' = "lost" /\ "data" \notin arrived'[m]
    BY DEF LeaksAreLosses
  <2>1. m \in Messages /\ m \in Messages'
    BY HandedType DEF IInv, TypeOK, Messages
  <2>2. Fate(m) = "lost" /\ "data" \notin arrived[m]
    BY DEF IInv, LeaksAreLosses
  <2>3. Lost(m)
    BY <2>1, <2>2, FateCases DEF IInv, FatesDecided
  <2>4. Lost(m)'
    BY <2>3 DEF Lost
  <2>5. FatesDecided'
    BY <1>2, <1>3, NextFateCases
  <2> QED BY <2>1, <2>2, <2>4, <2>5 DEF FatesDecided
<1> QED BY <1>2, <1>3, <1>4, <1>5 DEF IInv

(* The link of the message in work is made, or fails, for the first time. *)
LEMMA ConnectIInv == ASSUME IInv, Connect PROVE IInv'
<1> USE DEF Connect, managerVars
<1>1. handed \in Messages /\ handed \in Nat /\ link[handed] = "none" /\ handed \notin taken
  BY HandedType DEF IInv, NotYetConnected, TakenWereConnected
<1>2. /\ link' \in [Messages -> LinkStates]
      /\ link'[handed] \in {"up", "failed"}
      /\ \A m \in Messages : m # handed => link'[m] = link[m]
  BY <1>1 DEF IInv, TypeOK, LinkStates
<1>3. TypeOK'
  BY <1>2 DEF IInv, TypeOK
<1>4. NotYetConnected' /\ TakenWereConnected'
  BY <1>1, <1>2 DEF IInv, NotYetConnected, TakenWereConnected, TypeOK
<1>5. SendsAnswered' /\ DataFollowAnswer'
  BY DEF IInv, SendsAnswered, DataFollowAnswer
<1>6. \A m \in Messages : Lost(m) => Lost(m)'
  BY <1>1, <1>2 DEF Lost
<1>7. LeaksAreLosses'
  BY <1>3, <1>4, <1>6, LeaksKept
<1> QED BY <1>3, <1>4, <1>5, <1>7 DEF IInv

(* Both calls of send: data arrive for an answered message only. *)
LEMMA SendIInv == ASSUME IInv, SendHead \/ SendData PROVE IInv'
<1> USE DEF SendHead, SendData, SendBoth, managerVars
<1>1. /\ handed \in Messages /\ handed \in Nat /\ pc \in {"head", "data"}
      /\ pc' \in {"answer", "close", "killed"}
      /\ handed' = handed /\ descriptors' = descriptors /\ link' = link
      /\ answered' = answered /\ taken' = taken
      /\ listening' = listening /\ faults' = faults
  BY HandedType DEF IInv
<1>2. /\ arrived' \in [Messages -> SUBSET {"head", "data"}]
      /\ \A m \in Messages : m # handed => arrived'[m] = arrived[m]
      /\ "data" \in arrived'[handed] => "data" \in arrived[handed] \/ handed \in answered
  <2>1. CASE UNCHANGED arrived
    BY <2>1 DEF IInv, TypeOK
  <2>2. CASE arrived' = [arrived EXCEPT ![handed] = @ \cup {"head"}]
    BY <1>1, <2>2 DEF IInv, TypeOK
  <2>3. CASE SendData /\ link[handed] = "up"
    BY <1>1, <2>3 DEF IInv, TypeOK, SendsAnswered
  <2> QED BY <2>1, <2>2, <2>3
<1>3. TypeOK'
  BY <1>1, <1>2 DEF IInv, TypeOK
<1>4. NotYetConnected' /\ TakenWereConnected' /\ SendsAnswered'
  BY <1>1 DEF IInv, NotYetConnected, TakenWereConnected, SendsAnswered
<1>5. DataFollowAnswer'
  BY <1>1, <1>2 DEF IInv, DataFollowAnswer
<1>6. \A m \in Messages : Lost(m) => Lost(m)'
  BY <1>1 DEF Lost
<1>7. LeaksAreLosses'
  BY <1>1, <1>2, <1>3, <1>4, <1>6, LeaksKept
<1> QED BY <1>3, <1>4, <1>5, <1>7 DEF IInv

(* An answer, or an error that is taken for one: then the link is down. *)
LEMMA ReceiveAnswerIInv == ASSUME IInv, ReceiveAnswer PROVE IInv'
<1> USE DEF ReceiveAnswer, ReturnsNonZero, managerVars
<1>1. TypeOK' /\ NotYetConnected' /\ TakenWereConnected'
  BY DEF IInv, TypeOK, NotYetConnected, TakenWereConnected
<1>2. SendsAnswered' /\ DataFollowAnswer'
  BY DEF IInv, SendsAnswered, DataFollowAnswer
<1>3. \A m \in Messages : Lost(m) => Lost(m)'
  BY DEF Lost
<1>4. LeaksAreLosses'
  BY <1>1, <1>3, LeaksKept
<1> QED BY <1>1, <1>2, <1>4 DEF IInv

(* Giving up leaves the socket open: the message is lost, with its data unsent. *)
LEMMA ReceiveEndIInv == ASSUME IInv, ReceiveEnd PROVE IInv'
<1> USE DEF ReceiveEnd, GiveUp, managerVars
<1>1. TypeOK' /\ NotYetConnected' /\ TakenWereConnected'
  BY DEF IInv, TypeOK, NotYetConnected, TakenWereConnected
<1>2. SendsAnswered' /\ DataFollowAnswer'
  BY DEF IInv, SendsAnswered, DataFollowAnswer
<1>3. \A m \in Messages : Lost(m) => Lost(m)'
  BY DEF Lost
<1>4. Lost(handed)' /\ "data" \notin arrived'[handed]
  BY HandedType DEF IInv, TypeOK, Lost, DataFollowAnswer
<1>5. LeaksAreLosses'
  BY <1>1, <1>3, <1>4, LeaksKept
<1> QED BY <1>1, <1>2, <1>5 DEF IInv

LEMMA CloseSocketIInv == ASSUME IInv, CloseSocket PROVE IInv'
<1> USE DEF CloseSocket, Released, managerVars
<1>1. TypeOK' /\ NotYetConnected' /\ TakenWereConnected'
  BY DEF IInv, TypeOK, NotYetConnected, TakenWereConnected
<1>2. SendsAnswered' /\ DataFollowAnswer'
  BY DEF IInv, SendsAnswered, DataFollowAnswer
<1>3. \A m \in Messages : Lost(m) => Lost(m)'
  BY DEF Lost
<1>4. LeaksAreLosses'
  BY <1>1, <1>3, LeaksKept
<1> QED BY <1>1, <1>2, <1>4 DEF IInv

-----------------------------------------------------------------------------
(* The manager's steps *)

(* The manager's side keeps the invariant if links only go down, and it     *)
(* takes only what came over a link that is up.                             *)
LEMMA ManagerKeeps ==
  ASSUME IInv, UNCHANGED senderVars,
         link' \in [Messages -> LinkStates],
         \A m \in Messages : link'[m] # link[m] =>
             link[m] = "up" /\ link'[m] \in {"ended", "broken"},
         answered \subseteq answered', answered' \subseteq Messages,
         taken \subseteq taken', taken' \subseteq answered',
         \A m \in taken' \ taken : link[m] = "up",
         listening' \in BOOLEAN, faults' \in 0 .. MaxFaults
  PROVE  IInv'
<1> USE DEF senderVars
<1>1. TypeOK'
  BY DEF IInv, TypeOK
<1>2. NotYetConnected' /\ TakenWereConnected'
  BY <1>1 DEF IInv, TypeOK, NotYetConnected, TakenWereConnected
<1>3. SendsAnswered' /\ DataFollowAnswer'
  BY HandedType DEF IInv, SendsAnswered, DataFollowAnswer
<1>4. \A m \in Messages : Lost(m) => Lost(m)'
  BY DEF Lost
<1>5. LeaksAreLosses'
  BY <1>1, <1>2, <1>4, LeaksKept
<1> QED BY <1>1, <1>2, <1>3, <1>5 DEF IInv

LEMMA ServeIInv == ASSUME IInv, NEW m \in Messages, Serve(m) PROVE IInv'
<1>1. CASE Answer(m)
  BY <1>1, ManagerKeeps DEF Answer, IInv, TypeOK
<1>2. CASE TakeData(m)
  BY <1>2, ManagerKeeps DEF TakeData, IInv, TypeOK
<1> QED BY <1>1, <1>2 DEF Serve

LEMMA FaultIInv ==
  ASSUME IInv, Stop \/ Start \/ \E m \in Messages : CloseEarly(m)
  PROVE  IInv'
<1>1. ASSUME NEW m \in Messages, CloseEarly(m) PROVE IInv'
  <2> USE <1>1 DEF CloseEarly
  <2>1. m \in Untaken /\ link[m] = "up"
    BY DEF Untaken
  <2>2. PICK s \in {"ended", "broken"} : link' = [link EXCEPT ![m] = s]
    OBVIOUS
  <2>3. faults' \in 0 .. MaxFaults
    BY BoundsAssumption DEF IInv, TypeOK
  <2>4. link' \in [Messages -> LinkStates]
    BY <2>2 DEF IInv, TypeOK, LinkStates
  <2> QED BY <2>1, <2>2, <2>3, <2>4, ManagerKeeps DEF IInv, TypeOK
<1>2. CASE Stop
  <2> USE <1>2 DEF Stop
  <2>1. PICK s \in [Untaken -> {"ended", "broken"}] :
           link' = [m \in Messages |-> IF m \in Untaken THEN s[m] ELSE link[m]]
    OBVIOUS
  <2>2. faults' \in 0 .. MaxFaults
    BY BoundsAssumption DEF IInv, TypeOK
  <2>3. link' \in [Messages -> LinkStates]
    BY <2>1 DEF IInv, TypeOK, LinkStates
  <2>4. \A m \in Messages : link'[m] # link[m] =>
           link[m] = "up" /\ link'[m] \in {"ended", "broken"}
    BY <2>1 DEF Untaken
  <2> QED BY <2>2, <2>3, <2>4, ManagerKeeps DEF IInv, TypeOK
<1>3. CASE Start
  BY <1>3, ManagerKeeps DEF Start, IInv, TypeOK
<1> QED BY <1>1, <1>2, <1>3

-----------------------------------------------------------------------------
LEMMA NextIInv == IInv /\ [Next]_vars => IInv'
<1> SUFFICES ASSUME IInv, [Next]_vars PROVE IInv'
  OBVIOUS
<1>1. CASE UNCHANGED vars
  BY <1>1 DEF vars, IInv, TypeOK, NotYetConnected, TakenWereConnected, SendsAnswered,
              DataFollowAnswer, LeaksAreLosses, Fate
<1>2. CASE Next
  BY <1>2, SocketIInv, ConnectIInv, SendIInv, ReceiveAnswerIInv, ReceiveEndIInv,
     CloseSocketIInv, ServeIInv, FaultIInv DEF Next, SendDataToBufferManager
<1> QED BY <1>1, <1>2

LEMMA InductiveInvariant == Spec => []IInv
  BY InitIInv, NextIInv, PTL DEF Spec

(* The state of the exchange keeps its type. *)
THEOREM TypeCorrect == Spec => []TypeOK
  BY InductiveInvariant, PTL DEF IInv

(* Whatever recv returns and however often the manager fails, data reach    *)
(* its host only behind an answer.                                          *)
THEOREM AnswerFirst == Spec => []DataFollowAnswer
  BY InductiveInvariant, PTL DEF IInv

(* Only messages that were lost before their data leave a socket open. *)
THEOREM LeaksCorrect == Spec => []LeaksAreLosses
  BY InductiveInvariant, PTL DEF IInv

-----------------------------------------------------------------------------
(* The refinement *)

fates == [m \in Messages |-> Fate(m)]

(* Losing or delivering messages that were pending settles them. *)
LEMMA Settles ==
  ASSUME IInv, IInv', handed' = handed,
         NEW M \in SUBSET Messages, NEW f,
         \A m \in M : Fate(m) = "pending" /\ Fate(m)' = f,
         \A m \in Messages \ M : Fate(m)' = Fate(m)
  PROVE  D!Settle(M, f)
<1>1. fates' = [m \in Messages |-> IF m \in M THEN f ELSE fates[m]]
  BY DEF fates, Messages
<1> QED BY <1>1 DEF D!Settle, fates, Messages

(* Fates that do not change are a stuttering step. *)
LEMMA Stutters ==
  ASSUME IInv, IInv', handed' = handed, \A m \in Messages : Fate(m)' = Fate(m)
  PROVE  UNCHANGED D!vars
<1>1. fates' = fates
  BY DEF fates, Messages
<1> QED BY <1>1 DEF D!vars, fates

LEMMA SocketHandsOver == ASSUME IInv, IInv', Socket PROVE D!HandOver
<1> USE DEF Socket, managerVars
<1>1. handed \in Nat /\ Last \in Nat /\ handed + 1 \in Messages
  BY HandedType DEF IInv, Messages
<1>2. FatesDecided /\ FatesDecided'
  BY FateCases, NextFateCases DEF IInv
<1>3. \A m \in Messages : m \in Nat /\ (Lost(m)' <=> Lost(m))
  BY BoundsAssumption DEF Lost, Messages
<1>4. ASSUME NEW m \in Messages, m = handed + 1 PROVE Fate(m)' = "pending"
  <2>1. ~ Lost(m) /\ m \notin taken
    BY <1>1, <1>3, <1>4 DEF IInv, NotYetConnected, TakenWereConnected, Lost
  <2>2. m <= handed' /\ m \notin taken' /\ ~ Lost(m)'
    BY <1>1, <1>3, <1>4, <2>1
  <2>3. m \in Messages'
    BY DEF Messages
  <2> QED BY <1>2, <2>2, <2>3 DEF FatesDecided
<1>5. \A m \in Messages : m # handed + 1 => Fate(m)' = Fate(m)
  BY <1>1 DEF Fate, Messages
<1>6. fates' = [fates EXCEPT ![handed + 1] = "pending"]
  BY <1>1, <1>4, <1>5 DEF fates, Messages
<1> QED BY <1>1, <1>6 DEF D!HandOver, fates

LEMMA ConnectLoses ==
  ASSUME IInv, IInv', Connect
  PROVE  D!Lose({handed}) \/ UNCHANGED D!vars
<1> USE DEF Connect, managerVars
<1>1. handed \in Messages /\ handed \in Nat
  BY HandedType DEF IInv
<1>2. FatesDecided /\ FatesDecided'
  BY FateCases, NextFateCases DEF IInv
<1>3. Fate(handed) = "pending"
  BY <1>1, <1>2 DEF FatesDecided, Lost, IInv, NotYetConnected, TakenWereConnected
<1>4. \A m \in Messages : m # handed => Fate(m)' = Fate(m)
  BY DEF Fate, IInv, TypeOK
<1>5. CASE link'[handed] = "up"
  <2>1. Fate(handed)' = "pending"
    BY <1>1, <1>2, <1>3, <1>5 DEF FatesDecided, Lost, Messages
  <2> QED BY <1>3, <1>4, <2>1, Stutters
<1>6. CASE link'[handed] = "failed"
  <2>1. Fate(handed)' = "lost"
    BY <1>1, <1>2, <1>3, <1>6 DEF FatesDecided, Lost, Messages
  <2> QED BY <1>1, <1>3, <1>4, <2>1, Settles DEF D!Lose
<1>7. link'[handed] \in {"up", "failed"}
  BY <1>1 DEF IInv, TypeOK
<1> QED BY <1>5, <1>6, <1>7

LEMMA TakeDelivers ==
  ASSUME IInv, IInv', NEW m \in Messages, TakeData(m)
  PROVE  D!Deliver(m)
<1> USE DEF TakeData, senderVars
<1>1. FatesDecided /\ FatesDecided'
  BY FateCases, NextFateCases DEF IInv
<1>2. m \in Nat /\ handed \in Nat /\ m <= handed
  BY BoundsAssumption DEF IInv, NotYetConnected, Messages, TypeOK
<1>3. Fate(m) = "pending" /\ Fate(m)' = "delivered"
  BY <1>1, <1>2 DEF FatesDecided, Lost, Messages
<1>4. \A n \in Messages \ {m} : Fate(n)' = Fate(n)
  BY DEF Fate
<1> QED BY <1>3, <1>4, Settles DEF D!Deliver

(* Links of untaken messages that go down lose their messages. *)
LEMMA FaultLoses ==
  ASSUME IInv, IInv', handed' = handed, taken' = taken,
         NEW M \in SUBSET Untaken,
         \A m \in M : link'[m] \in {"ended", "broken"},
         \A m \in Messages \ M : link'[m] = link[m]
  PROVE  D!Lose(M)
<1>1. FatesDecided /\ FatesDecided'
  BY FateCases, NextFateCases DEF IInv
<1>2. ASSUME NEW m \in M PROVE Fate(m) = "pending" /\ Fate(m)' = "lost"
  <2>1. m \in Messages /\ link[m] = "up" /\ m \notin taken /\ m <= handed
    BY BoundsAssumption DEF Untaken, IInv, NotYetConnected, Messages, TypeOK
  <2> QED BY <1>1, <2>1 DEF FatesDecided, Lost, Messages
<1>3. \A m \in Messages \ M : Fate(m)' = Fate(m)
  BY DEF Fate
<1>4. M \in SUBSET Messages
  BY DEF Untaken
<1> QED BY <1>2, <1>3, <1>4, Settles DEF D!Lose

(* Every step of the exchange is a step of Delivery or leaves it unchanged. *)
LEMMA StepRefines == IInv /\ IInv' /\ [Next]_vars => [D!Next]_(D!vars)
<1> SUFFICES ASSUME IInv, IInv', [Next]_vars PROVE [D!Next]_(D!vars)
  OBVIOUS
<1>1. CASE Socket
  BY <1>1, SocketHandsOver DEF D!Next
<1>2. CASE Connect
  <2>1. {handed} \in SUBSET (1 .. Last)
    BY <1>2, HandedType DEF IInv, Connect, Messages
  <2> QED BY <1>2, <2>1, ConnectLoses DEF D!Next
<1>3. ASSUME NEW m \in Messages, TakeData(m) PROVE D!Next
  BY <1>3, TakeDelivers DEF D!Next, Messages
<1>4. ASSUME NEW m \in Messages, CloseEarly(m) PROVE D!Next
  <2>1. D!Lose({m})
    BY <1>4, FaultLoses DEF CloseEarly, senderVars, IInv, TypeOK
  <2> QED BY <2>1 DEF D!Next, Messages
<1>5. CASE Stop
  <2>1. Untaken \in SUBSET (1 .. Last)
    BY DEF Untaken, Messages
  <2>2. PICK s \in [Untaken -> {"ended", "broken"}] :
           link' = [m \in Messages |-> IF m \in Untaken THEN s[m] ELSE link[m]]
    BY <1>5 DEF Stop
  <2>3. \A m \in Untaken : m \in Messages /\ link'[m] \in {"ended", "broken"}
    BY <2>2 DEF Untaken
  <2>4. \A m \in Messages \ Untaken : link'[m] = link[m]
    BY <2>2
  <2>5. handed' = handed /\ taken' = taken
    BY <1>5 DEF Stop, senderVars
  <2>6. D!Lose(Untaken)
    BY <2>3, <2>4, <2>5, FaultLoses
  <2> QED BY <2>1, <2>6 DEF D!Next
<1>6. ASSUME \/ SendHead \/ SendData \/ ReceiveAnswer \/ ReceiveEnd \/ CloseSocket \/ Start
             \/ \E m \in Messages : Answer(m)
             \/ UNCHANGED vars
      PROVE  UNCHANGED D!vars
  <2>1. handed' = handed /\ link' = link /\ taken' = taken
    BY <1>6 DEF SendHead, SendData, SendBoth, ReceiveAnswer, ReceiveEnd, CloseSocket, Start,
                Answer, senderVars, managerVars, vars
  <2>2. \A m \in Messages : Fate(m)' = Fate(m)
    BY <2>1 DEF Fate
  <2> QED BY <2>1, <2>2, Stutters
<1> QED BY <1>1, <1>2, <1>3, <1>4, <1>5, <1>6 DEF Next, SendDataToBufferManager, Serve

(* Each message is handed over once, in order, and then delivered whole or  *)
(* lost: never twice, and never delivered after it was lost, for any number *)
(* of messages, descriptors and faults of the manager.                      *)
THEOREM RefinesDelivery == Spec => ImplementsDelivery
<1>1. Init => D!Init
  <2> SUFFICES ASSUME Init PROVE D!Init
    OBVIOUS
  <2>1. \A m \in Messages : Fate(m) = "none"
    BY BoundsAssumption DEF Init, Fate, Messages
  <2> QED BY <2>1 DEF Init, D!Init, Messages
<1> QED BY <1>1, StepRefines, InductiveInvariant, PTL DEF Spec, ImplementsDelivery, D!Spec
=============================================================================
