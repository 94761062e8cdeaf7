---------------------------- MODULE BufferSender ----------------------------
(***************************************************************************)
(* SendDataToBufferManager: the Merge thread opens a connection for each   *)
(* message, sends its JSON text, waits for an answer, sends the data and   *)
(* closes.  Only socket() and an answer of no bytes are looked at; the     *)
(* results of connect and of the sends are not, and nothing is sent again. *)
(*                                                                         *)
(* The buffer manager is another program.  It is modelled from what the    *)
(* function expects of it, with the faults such a program has: it may      *)
(* close a connection early, stop, and be started again.                   *)
(***************************************************************************)
EXTENDS Naturals, FiniteSets

CONSTANTS
    Last,       \* the messages are numbered 1 .. Last
    MaxFds,     \* how many sockets the process may have open
    MaxFaults   \* bound of the model: how often the manager fails

ASSUME BoundsAssumption == Last \in Nat /\ MaxFds \in Nat \ {0} /\ MaxFaults \in Nat

Messages == 1 .. Last

VARIABLES
    pc,         \* where the Merge thread is in SendDataToBufferManager
    handed,     \* the message it was last called with
    descriptors,  \* the messages whose socket is open
    link,       \* what has become of each message's connection
    arrived,    \* what each connection has brought to the manager's host
    answered,   \* the messages the manager has answered
    taken,      \* the messages whose data the manager has read
    listening,  \* the manager is running
    faults      \* how often it has failed

vars == <<pc, handed, descriptors, link, arrived, answered, taken, listening, faults>>

managerVars == <<answered, taken, listening, faults>>

\* "ended": the manager has closed; "broken": reset; "failed": never connected.
LinkStates == {"none", "up", "ended", "broken", "failed"}

Init ==
    /\ pc = "idle"
    /\ handed = 0
    /\ descriptors = {}
    /\ link = [m \in Messages |-> "none"]
    /\ arrived = [m \in Messages |-> {}]
    /\ answered = {}
    /\ taken = {}
    /\ listening = TRUE
    /\ faults = 0

-----------------------------------------------------------------------------
(* The Merge thread *)

\* socket(): when there is no descriptor left it returns -1, and the thread goes on.
Socket ==
    /\ pc = "idle"
    /\ handed < Last
    /\ handed' = handed + 1
    /\ descriptors' =
         IF Cardinality(descriptors) < MaxFds THEN descriptors \cup {handed + 1} ELSE descriptors
    /\ pc' = "connect"
    /\ UNCHANGED <<link, arrived, managerVars>>

HasSocket == handed \in descriptors

Connect ==
    /\ pc = "connect"
    /\ link' = [link EXCEPT ![handed] = IF HasSocket /\ listening THEN "up" ELSE "failed"]
    /\ pc' = "head"
    /\ UNCHANGED <<handed, descriptors, arrived, managerVars>>

\* Two calls of send.  Without a connection they return -1, and where there is a
\* socket SIGPIPE ends the process, unless the error was a pending one.
SendBoth(part, next) ==
    \/ /\ link[handed] = "up"
       /\ arrived' = [arrived EXCEPT ![handed] = @ \cup {part}]
       /\ pc' = next
    \/ /\ link[handed] # "up"
       /\ pc' \in IF HasSocket THEN {next, "killed"} ELSE {next}
       /\ UNCHANGED arrived

SendHead ==
    /\ pc = "head"
    /\ SendBoth("head", "answer")
    /\ UNCHANGED <<handed, descriptors, link, managerVars>>

\* An error: nobody waits for the answer.
ReturnsAtOnce == TRUE

\* recv returns bytes of the answer, or -1, which is taken for an answer.
ReturnsNonZero == handed \in answered \/ link[handed] \in {"broken", "failed"}

ReceiveAnswer ==
    /\ pc = "answer"
    /\ ReturnsNonZero
    /\ pc' = "data"
    /\ UNCHANGED <<handed, descriptors, link, arrived, managerVars>>

\* An error: the exchange is tried again with the same message.
TryAgain == "connect"

\* return: the data are not sent, and close is not reached.
GiveUp == "idle"

\* recv returns 0.
ReceiveEnd ==
    /\ pc = "answer"
    /\ link[handed] = "ended"
    /\ handed \notin answered
    /\ pc' = GiveUp
    /\ UNCHANGED <<handed, descriptors, link, arrived, managerVars>>

SendData ==
    /\ pc = "data"
    /\ SendBoth("data", "close")
    /\ UNCHANGED <<handed, descriptors, link, managerVars>>

\* An error: the socket is not closed after the data either.
LeaveOpen == descriptors

Released == descriptors \ {handed}

\* What was sent is still delivered, by the kernel.
CloseSocket ==
    /\ pc = "close"
    /\ descriptors' = Released
    /\ pc' = "idle"
    /\ UNCHANGED <<handed, link, arrived, managerVars>>

SendDataToBufferManager ==
    Socket \/ Connect \/ SendHead \/ ReceiveAnswer \/ ReceiveEnd \/ SendData \/ CloseSocket

-----------------------------------------------------------------------------
(* The buffer manager *)

senderVars == <<pc, handed, descriptors, arrived>>

Answer(m) ==
    /\ link[m] = "up"
    /\ "head" \in arrived[m]
    /\ m \notin answered
    /\ answered' = answered \cup {m}
    /\ UNCHANGED <<senderVars, link, taken, listening, faults>>

TakeData(m) ==
    /\ link[m] = "up"
    /\ "data" \in arrived[m]
    /\ m \in answered \ taken
    /\ taken' = taken \cup {m}
    /\ UNCHANGED <<senderVars, link, answered, listening, faults>>

Untaken == {m \in Messages : link[m] = "up"} \ taken

CloseEarly(m) ==
    /\ faults < MaxFaults
    /\ m \in Untaken
    /\ link' \in {[link EXCEPT ![m] = s] : s \in {"ended", "broken"}}
    /\ faults' = faults + 1
    /\ UNCHANGED <<senderVars, answered, taken, listening>>

\* Every connection ends, with a reset where the manager had not read everything.
Stop ==
    /\ listening
    /\ faults < MaxFaults
    /\ \E s \in [Untaken -> {"ended", "broken"}] :
          link' = [m \in Messages |-> IF m \in Untaken THEN s[m] ELSE link[m]]
    /\ listening' = FALSE
    /\ faults' = faults + 1
    /\ UNCHANGED <<senderVars, answered, taken>>

Start ==
    /\ ~ listening
    /\ listening' = TRUE
    /\ UNCHANGED <<senderVars, link, answered, taken, faults>>

Serve(m) == Answer(m) \/ TakeData(m)

-----------------------------------------------------------------------------
Next ==
    \/ SendDataToBufferManager
    \/ \E m \in Messages : Serve(m) \/ CloseEarly(m)
    \/ Stop
    \/ Start

(* The Merge thread goes on whenever a call returns, and a manager that    *)
(* runs answers what it has received and reads the data, as the thread     *)
(* expects: it waits for the answer without a timeout.                     *)
Spec ==
    /\ Init /\ [][Next]_vars
    /\ WF_vars(SendDataToBufferManager)
    /\ \A m \in Messages : WF_vars(Serve(m))

-----------------------------------------------------------------------------
(* The type of the state.                                                  *)
TypeOK ==
    /\ pc \in {"idle", "connect", "head", "answer", "data", "close", "killed"}
    /\ handed \in 0 .. Last
    /\ pc # "idle" => handed > 0
    /\ descriptors \subseteq 1 .. handed
    /\ link \in [Messages -> LinkStates]
    /\ arrived \in [Messages -> SUBSET {"head", "data"}]
    /\ answered \subseteq Messages
    /\ taken \subseteq answered
    /\ listening \in BOOLEAN
    /\ faults \in 0 .. MaxFaults

Fate(m) ==
    CASE m \in taken -> "delivered"
      [] m \notin taken /\ link[m] \in {"ended", "broken", "failed"} -> "lost"
      [] m > handed -> "none"
      [] OTHER -> "pending"

D == INSTANCE Delivery WITH fate <- [m \in Messages |-> Fate(m)]

(* Sockets, answers and failures of the manager hidden, each message is    *)
(* handed over once, in order, and then delivered whole or lost: never     *)
(* delivered twice, and never delivered after it was lost.                 *)
ImplementsDelivery == D!Spec

(* The manager's host gets the data of a message only on the connection on *)
(* which the manager has answered that message's text: an error of recv,   *)
(* which the code takes for an answer, never lets data arrive unannounced. *)
DataFollowAnswer == \A m \in Messages : "data" \in arrived[m] => m \in answered

(* A socket that stays open behind the thread belongs to a message that    *)
(* was lost with its data unsent; a delivered message leaves none behind.  *)
LeaksAreLosses ==
    \A m \in descriptors :
        \/ m = handed /\ pc # "idle"
        \/ Fate(m) = "lost" /\ "data" \notin arrived[m]

(* The call for each message comes to an end, and the message is then      *)
(* delivered, or lost in a fault of the manager or, after faults, for want *)
(* of a descriptor or of a process.                                        *)
CallsEnd ==
    \A m \in Messages :
        handed = m ~> \/ Fate(m) = "delivered"
                      \/ /\ Fate(m) = "lost"
                         /\ faults > 0
                         /\ pc \in {"idle", "killed"} \/ handed > m
=============================================================================
