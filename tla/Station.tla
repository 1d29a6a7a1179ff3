------------------------------- MODULE Station --------------------------------
(***************************************************************************)
(* A module from power-up on (laset_main, main.c): it waits for the WiFi,  *)
(* connects to the simulator server, asks for its node id and starts the   *)
(* tasks that share the connection, while the WiFi may break and the       *)
(* server may end its thread at any point.                                 *)
(***************************************************************************)
EXTENDS Integers, Sequences, FiniteSets

CONSTANTS
    MaximumRetry,                                  \* 5 in the code
    NodeIds,                                       \* what the server's pool may hold
    MaxAge                                         \* bound: requests told apart

ASSUME RetryAssumption == MaximumRetry \in Nat
ASSUME AgeAssumption == MaxAge \in Nat \ {0, 1}
ASSUME NodeIdsAssumption == NodeIds \subseteq Nat \ {0}

VARIABLES
    boot,                                          \* laset_main's place
    station, events, s_retry_num, bits,            \* see WifiStation
    conn, pc, up, down, thread, serving, hand, known, node_id, pni, lost   \* see ServerLink

Wifi == INSTANCE WifiStation
Link == INSTANCE ServerLink

wifiVars == <<station, events, s_retry_num, bits>>
linkVars == <<conn, pc, up, down, thread, serving, hand, known, node_id, pni, lost>>
vars == <<boot, wifiVars, linkVars>>

Init ==
    /\ boot = "wifi"
    /\ Wifi!Init
    /\ conn = "unconnected"
    /\ pc = [t \in Link!Task |-> "off"]
    /\ Link!NothingSent
    /\ node_id = Link!NoId
    /\ pni = Link!Unanswered

-----------------------------------------------------------------------------
(* wifi_init_sta returns when a bit is set, whichever it is.               *)
WifiDone ==
    /\ boot = "wifi"
    /\ bits # {}
    /\ boot' = "connect"
    /\ UNCHANGED <<wifiVars, linkVars>>

(* create_connect_tcp_socket returns the socket after the first attempt,   *)
(* connected or not; the request for the node id follows.                  *)
ConnectSocket ==
    /\ boot = "connect"
    /\ conn' \in IF Wifi!Online THEN {"up", "unconnected"} ELSE {"unconnected"}
    /\ pc' = [pc EXCEPT !["main"] = "send"]
    /\ boot' = "rni"
    /\ UNCHANGED <<wifiVars, up, down, thread, serving, hand, known, node_id, pni, lost>>

StartTasks ==
    /\ boot = "rni"
    /\ pc["main"] = "use"
    /\ pc' = Link!Started
    /\ boot' = "running"
    /\ UNCHANGED <<wifiVars, conn, up, down, thread, serving, hand, known, node_id, pni, lost>>

(* Without WiFi a segment is sent again some times, then TCP gives up.     *)
Abort ==
    /\ conn = "up"
    /\ ~Wifi!Online
    /\ conn' = "reset"
    /\ UNCHANGED <<boot, wifiVars, pc, up, down, thread, serving, hand, known, node_id, pni, lost>>

laset_main == WifiDone \/ ConnectSocket \/ StartTasks

Next ==
    \/ laset_main \/ Abort
    \/ Wifi!Next /\ UNCHANGED <<boot, linkVars>>
    \/ Link!Next /\ UNCHANGED <<boot, wifiVars>>

(* The server's thread is scheduled and a load calculation ends; so do the *)
(* tasks' steps, and a task that waits for an answer is not passed over    *)
(* for ever: FreeRTOS wakes the one that has waited longest.               *)
LinkFairness ==
    /\ WF_vars(Wifi!Online /\ Link!thread_handler /\ UNCHANGED <<boot, wifiVars>>)
    /\ \A t \in Link!Task :
           /\ WF_vars(Link!tcp_send_and_update(t) /\ UNCHANGED <<boot, wifiVars>>)
           /\ SF_vars(Link!Recv(t) /\ UNCHANGED <<boot, wifiVars>>)

Spec == Init /\ [][Next]_vars /\ LinkFairness

-----------------------------------------------------------------------------
(***************************************************************************)
(* Properties                                                              *)
(***************************************************************************)
TypeOK ==
    /\ boot \in {"wifi", "connect", "rni", "running"}
    /\ Wifi!TypeOK
    /\ Link!TypeOK

NeverStranded == Wifi!NeverStranded
NothingLeftOver == Link!NothingLeftOver
FreshWhileServed == Link!FreshWhileServed

(* The tasks never run on a socket that was never connected, and unless    *)
(* the server has ended its thread they run under the id it has answered:  *)
(* what goes wrong before holds the main task in its request.  That id may *)
(* be -1, but only if the server had none left (main.c:81-103, 682-721;    *)
(* lasetsockets.c:32-39).                                                  *)
RunsRegistered ==
    boot = "running" =>
        /\ conn # "unconnected"
        /\ thread # "dead" => pni # Link!Unanswered /\ node_id = pni

(* A task that waits for an answer gets one, its own or another's, unless  *)
(* the WiFi or the connection breaks, the server's thread ends, or an      *)
(* answer was lost behind another (main.c:91-112).                         *)
Answered ==
    \A t \in Link!Task :
        pc[t] = "recv" ~>
            \/ pc[t] # "recv"
            \/ ~Wifi!Online \/ conn # "up" \/ thread = "dead" \/ lost
=============================================================================
