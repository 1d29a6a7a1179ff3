------------------------------ MODULE ServerLink ------------------------------
(***************************************************************************)
(* A module's TCP connection to the simulator server (tcp_send_and_update, *)
(* main.c; thread_handler, server.py).                                     *)
(*                                                                         *)
(* The main task asks for the node id; then amperage_broadcaster_task asks *)
(* for amperage readings and blockchain_listener_task for load             *)
(* calculations, on the same socket and with no lock.  Whoever receives an *)
(* answer stores it by its type, in the global of the task that asked.     *)
(* Requests end with nothing: the server's thread takes what one recv      *)
(* returns for one request, and raises an exception if it is more.         *)
(* Answers end with ';' and the decoder stops at the first: what the same  *)
(* recv returned behind it is lost.                                        *)
(***************************************************************************)
EXTENDS Integers, Sequences, FiniteSets

CONSTANTS
    NodeIds,                   \* the ids the server has for its households
    MaxAge                     \* bound: requests told apart

NoId == -1                     \* at boot, and the answer when there is none left
Unanswered == 0                \* the server's ids start at 1

Task == {"main", "broadcaster", "validator"}

(* A request, or the answer to it: whose it is, and how many requests that *)
(* task has sent since (MaxAge: that many or more).                        *)
Message == [task : Task, age : 0..MaxAge]

VARIABLES
    conn,                      \* the connection as the module will find it
    pc,                        \* [t] the place of task t
    up,                        \* requests sent and not yet received
    down,                      \* answers sent and not yet received
    thread,                    \* the household's thread in the server
    serving,                   \* the request it is working on, if it is
    hand,                      \* [t] the answer task t has received last
    known,                     \* [t] age of the request the stored value answers
    node_id,
    pni,                       \* the id the server has answered, of which there is one answer
    lost                       \* history: has an answer been lost?

ids == <<node_id, pni>>
linkVars == <<conn, pc, up, down, thread, serving, hand, known, ids, lost>>

-----------------------------------------------------------------------------
Older(age) == IF age < MaxAge THEN age + 1 ELSE MaxAge
Aged(t, m) == IF m.task = t THEN [m EXCEPT !.age = Older(@)] ELSE m
AllAged(t, q) == [i \in DOMAIN q |-> Aged(t, q[i])]

Request(t) == [task |-> t, age |-> 0]

NothingSent ==
    /\ up = <<>>
    /\ down = <<>>
    /\ thread = "recv"
    /\ serving = Request("main")
    /\ hand = [t \in Task |-> Request(t)]
    /\ known = [t \in Task |-> 0]
    /\ lost = FALSE

(* The tasks once the main task has started them.                          *)
Started == [t \in Task |-> IF t = "main" THEN "off" ELSE "idle"]

Init ==
    /\ conn = "up"
    /\ pc = Started
    /\ NothingSent
    /\ pni \in NodeIds \cup {NoId}
    /\ node_id = pni

-----------------------------------------------------------------------------
(***************************************************************************)
(* tcp_send_and_update                                                     *)
(***************************************************************************)

(* A task calls it after a delay of seconds: a task that has an answer in  *)
(* hand has stored it by then, and a closed socket has been reset.         *)
Call(t) ==
    /\ pc[t] = "idle"
    /\ \A o \in Task : pc[o] # "decode"
    /\ conn = "closed" => up = <<>>
    /\ pc' = [pc EXCEPT ![t] = "send"]
    /\ UNCHANGED <<conn, up, down, thread, serving, hand, known, lost, ids>>

Send(t) ==
    /\ pc[t] = "send"
    /\ conn \in {"up", "closed"}
    /\ up' = Append(AllAged(t, up), Request(t))
    /\ down' = AllAged(t, down)
    /\ serving' = Aged(t, serving)
    /\ hand' = [o \in Task |-> Aged(t, hand[o])]
    /\ known' = [known EXCEPT ![t] = Older(@)]
    /\ pc' = [pc EXCEPT ![t] = "recv"]
    /\ UNCHANGED <<conn, thread, lost, ids>>

AfterError_Faulty == "use"                             \* return instead of continue
AfterError == "send"

(* An error of send or recv: after half a second the task sends again.     *)
Error(t) ==
    /\ \/ pc[t] = "send" /\ conn \in {"unconnected", "reset"}
       \/ pc[t] = "recv" /\ conn = "reset"
    /\ pc' = [pc EXCEPT ![t] = AfterError]
    /\ UNCHANGED <<conn, up, down, thread, serving, hand, known, lost, ids>>

(* One recv returns all the answers that have arrived, whoever asked.      *)
Recv(t) ==
    /\ pc[t] = "recv"
    /\ \E k \in 1..Len(down) :
           /\ down' = SubSeq(down, k + 1, Len(down))
           /\ lost' = (lost \/ k > 1)
    /\ hand' = [hand EXCEPT ![t] = Head(down)]
    /\ pc' = [pc EXCEPT ![t] = "decode"]
    /\ UNCHANGED <<conn, up, thread, serving, known, ids>>

RecvNothing_Faulty(t) ==                               \* as if the socket did not block
    /\ pc[t] = "recv"
    /\ down = <<>>
    /\ pc' = [pc EXCEPT ![t] = "use"]
    /\ UNCHANGED <<conn, up, down, thread, serving, hand, known, lost, ids>>

(* The server has closed the connection: recv returns 0, nothing is        *)
(* decoded and no value stored.                                            *)
RecvNothing(t) ==
    /\ pc[t] = "recv"
    /\ conn = "closed"
    /\ down = <<>>
    /\ pc' = [pc EXCEPT ![t] = "use"]
    /\ UNCHANGED <<conn, up, down, thread, serving, hand, known, lost, ids>>

Stored_Faulty(t) ==                                    \* another task's answer dropped
    IF hand[t].task = t THEN [known EXCEPT ![t] = hand[t].age] ELSE known
Stored(t) == [known EXCEPT ![hand[t].task] = hand[t].age]

(* The id is stored also if it is -1, which is only logged.                *)
IdStored(t) == node_id' = IF hand[t].task = "main" THEN pni ELSE node_id

Decode(t) ==
    /\ pc[t] = "decode"
    /\ known' = Stored(t)
    /\ IdStored(t)
    /\ pc' = [pc EXCEPT ![t] = "use"]
    /\ UNCHANGED <<conn, up, down, thread, serving, hand, pni, lost>>

(* The task decides on the value as it is stored by now.                   *)
Use(t) ==
    /\ t # "main"
    /\ pc[t] = "use"
    /\ pc' = [pc EXCEPT ![t] = "idle"]
    /\ UNCHANGED <<conn, up, down, thread, serving, hand, known, lost, ids>>

-----------------------------------------------------------------------------
(***************************************************************************)
(* The household's thread in the server.  When it ends, its socket is      *)
(* closed as soon as nothing refers to it: the accept loop does as long as *)
(* no other household has connected.                                       *)
(***************************************************************************)
Closed == IF up' = <<>> THEN "closed" ELSE "reset"
Ended == thread' = "dead" /\ conn' \in {conn, IF conn = "up" THEN Closed ELSE conn}

ServerRecv ==
    /\ thread = "recv"
    /\ conn = "up"
    /\ up # <<>>
    /\ serving' = Head(up)
    /\ up' = Tail(up)
    /\ thread' = "work"
    /\ UNCHANGED <<conn, pc, down, hand, known, lost, ids>>

(* Two requests in one: "rql,3rql,3" has no number as its second field,    *)
(* "rlc,...rql,3" too many fields.                                         *)
ServerRecvJoined ==
    /\ thread = "recv"
    /\ conn = "up"
    /\ \E k \in 2..Len(up) : up' = SubSeq(up, k + 1, Len(up))
    /\ Ended
    /\ UNCHANGED <<pc, down, serving, hand, known, lost, ids>>

Sent_Faulty == down                                    \* computed but not sent
Sent == Append(down, serving)

(* Whether an id is left is for the other households to say (GridServer).  *)
get_node_id == pni' \in IF serving.task = "main" THEN NodeIds \cup {NoId} ELSE {pni}

ServerAnswer ==
    /\ thread = "work"
    /\ get_node_id
    /\ down' = Sent
    /\ thread' = "recv"
    /\ UNCHANGED <<conn, pc, up, serving, hand, known, node_id, lost>>

(* The load calculation raises an exception, or the pool of ids does.      *)
ServerFails ==
    /\ thread = "work"
    /\ serving.task \in {"validator", "main"}
    /\ UNCHANGED up
    /\ Ended
    /\ UNCHANGED <<pc, down, serving, hand, known, lost, ids>>

(* Another household connects: the socket of a dead thread is closed.      *)
CloseDead ==
    /\ thread = "dead"
    /\ conn = "up"
    /\ UNCHANGED up
    /\ conn' = Closed
    /\ UNCHANGED <<pc, down, thread, serving, hand, known, lost, ids>>

(* What was sent to a closed socket is answered with a reset.              *)
Reset ==
    /\ conn = "closed"
    /\ up # <<>>
    /\ conn' = "reset"
    /\ UNCHANGED <<pc, up, down, thread, serving, hand, known, lost, ids>>

-----------------------------------------------------------------------------
tcp_send_and_update(t) ==
    Send(t) \/ Error(t) \/ Recv(t) \/ RecvNothing(t) \/ Decode(t)
thread_handler == ServerRecv \/ ServerRecvJoined \/ ServerAnswer \/ ServerFails

Next ==
    \/ \E t \in Task : Call(t) \/ tcp_send_and_update(t) \/ Use(t)
    \/ thread_handler
    \/ CloseDead \/ Reset

Spec == Init /\ [][Next]_linkVars

-----------------------------------------------------------------------------
(***************************************************************************)
(* Properties                                                              *)
(***************************************************************************)
TypeOK ==
    /\ conn \in {"unconnected", "up", "closed", "reset"}
    /\ pc \in [Task -> {"off", "idle", "send", "recv", "decode", "use"}]
    /\ up \in Seq(Message)
    /\ down \in Seq(Message)
    /\ thread \in {"recv", "work", "dead"}
    /\ serving \in Message
    /\ hand \in [Task -> Message]
    /\ known \in [Task -> 0..MaxAge]
    /\ node_id \in NodeIds \cup {NoId, Unanswered}
    /\ pni \in NodeIds \cup {NoId, Unanswered}
    /\ lost \in BOOLEAN

Waiting == {t \in Task : pc[t] = "recv"}
InFlight == Len(up) + Len(down) + (IF thread = "work" THEN 1 ELSE 0)

(* There are never more requests and answers under way than tasks that     *)
(* wait for one: answers may be swapped, but none is left over for a later *)
(* request to take, and as long as none is lost each waiting task has one  *)
(* coming (main.c:91-112, server.py:62-94).                                *)
NothingLeftOver ==
    conn = "up" =>
        /\ InFlight <= Cardinality(Waiting)
        /\ thread # "dead" /\ ~lost => InFlight = Cardinality(Waiting)

(* While the server's thread lives, a task decides on the answer to one of *)
(* its last three requests, or on the value from boot before there are     *)
(* three: swapped and late answers are made good by the next ones          *)
(* (main.c:104-110, 647-650).                                              *)
FreshWhileServed ==
    \A t \in Task : conn = "up" /\ thread # "dead" /\ pc[t] = "use" => known[t] <= 2

(* "For every phase a load calculation is requested and if it is 0 then    *)
(* the phase array is tallied up" (main.c:643): a validator the server     *)
(* serves decides on the answer to the request it has just made.           *)
EstimateIsOwn ==
    conn = "up" /\ thread # "dead" /\ pc["validator"] = "use" => known["validator"] = 0
=============================================================================
