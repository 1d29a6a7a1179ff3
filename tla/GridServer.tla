------------------------------ MODULE GridServer ------------------------------
(***************************************************************************)
(* The node ids of the simulator server (server.py, simulator.py).         *)
(*                                                                         *)
(* The accept loop starts one thread per connection; the thread answers    *)
(* the household's request for a node id from the list available_nodes and *)
(* notes it in taken_nodes.  When a household connects again, the accept   *)
(* loop first takes back what is noted under its address.  No lock is      *)
(* used.  One call on a list is atomic in CPython (which has to be 3.10 or *)
(* later for the match statement); a thread may be switched out after a    *)
(* test, after a call and at the end of a loop's body, and those are the   *)
(* steps below.                                                            *)
(***************************************************************************)
EXTENDS Integers, Sequences, FiniteSets, Functions

CONSTANTS
    Address,      \* the households, by IP address
    Within,       \* <<a, b>>: a's address is a part of b's, as 10.0.0.1 of 10.0.0.12
    Pool,         \* the ids available at first, 3, 5, 6 in the code
    MaxConns      \* bound: connections made

NoAnswer == 0
NoId == -1                             \* the answer when the pool is empty
Ids == {Pool[i] : i \in DOMAIN Pool}

ASSUME AddressAssumption ==
    /\ IsFiniteSet(Address)
    /\ Within \subseteq {p \in Address \X Address : p[1] # p[2]}
ASSUME PoolAssumption ==
    /\ Pool \in Seq(Nat \ {NoAnswer})
    /\ \A i, j \in DOMAIN Pool : i < j => Pool[i] < Pool[j]
    /\ MaxConns \in Nat

VARIABLES
    conns,                     \* the household of each connection, in the order made
    accepted,                  \* connections accepted so far
    accepting,                 \* the accept loop: place, list index, list under construction
    thread,                    \* [c] the place of the thread of connection c in get_node_id
    answer,                    \* [c] the node id answered on connection c
    available_nodes,
    taken_nodes,
    disorder                   \* history: have operations on the lists overlapped?

serverVars == <<accepted, accepting, thread, available_nodes, taken_nodes>>
vars == <<conns, serverVars, answer, disorder>>

-----------------------------------------------------------------------------
Init ==
    /\ conns = <<>>
    /\ accepted = 0
    /\ accepting = [pc |-> "accept", index |-> 1, kept |-> <<>>]
    /\ thread = [c \in 1..MaxConns |-> "none"]
    /\ answer = [c \in 1..MaxConns |-> NoAnswer]
    /\ available_nodes = Pool
    /\ taken_nodes = <<>>
    /\ disorder = FALSE

(* A household boots, or boots again, connects and asks for its id.        *)
Connect(a) ==
    /\ Len(conns) < MaxConns
    /\ conns' = Append(conns, a)
    /\ UNCHANGED <<serverVars, answer, disorder>>

Current(c) == \A d \in (c + 1)..Len(conns) : conns[d] # conns[c]

AtWork == {c \in 1..MaxConns : thread[c] \in {"record", "pop"}}

-----------------------------------------------------------------------------
(***************************************************************************)
(* The accept loop (Server.__call__).                                      *)
(***************************************************************************)
Caller == conns[accepted]
(* The index is the for statement's own: outside the two loops there is    *)
(* none, and no list under construction, which is 1 and <<>> here.         *)
GoTo(pc, index, kept) == accepting' = [pc |-> pc, index |-> index, kept |-> kept]

Accept ==
    /\ accepting.pc = "accept"
    /\ accepted < Len(conns)
    /\ accepted' = accepted + 1
    /\ IF \E c \in 1..accepted : conns[c] = conns[accepted + 1]
       THEN GoTo("free", 1, <<>>) /\ disorder' = (disorder \/ AtWork # {})
       ELSE GoTo("start", 1, <<>>) /\ UNCHANGED disorder
    /\ UNCHANGED <<conns, thread, answer, available_nodes, taken_nodes>>

Freed_Faulty(id) == available_nodes                    \* taken back from nobody
Freed(id) == Append(available_nodes, id)

FreeNext_Faulty ==                                     \* stuck at another's entry
    /\ accepting.pc = "free"
    /\ IF accepting.index > Len(taken_nodes)
       THEN GoTo("keep", 1, <<>>) /\ UNCHANGED available_nodes
       ELSE IF taken_nodes[accepting.index].address = Caller
       THEN /\ available_nodes' = Freed(taken_nodes[accepting.index].id)
            /\ GoTo("sort", accepting.index, <<>>)
       ELSE UNCHANGED <<accepting, available_nodes>>
    /\ UNCHANGED <<conns, accepted, thread, answer, taken_nodes, disorder>>

FreeNextRemoving_Faulty ==                             \* deletes from the list it walks over
    /\ accepting.pc = "free"
    /\ IF accepting.index > Len(taken_nodes)
       THEN GoTo("keep", 1, <<>>) /\ UNCHANGED <<available_nodes, taken_nodes>>
       ELSE IF taken_nodes[accepting.index].address = Caller
       THEN /\ available_nodes' = Freed(taken_nodes[accepting.index].id)
            /\ taken_nodes' = [i \in 1..(Len(taken_nodes) - 1) |->
                                   taken_nodes[IF i < accepting.index THEN i ELSE i + 1]]
            /\ GoTo("sort", accepting.index, <<>>)
       ELSE /\ GoTo("free", accepting.index + 1, <<>>)
            /\ UNCHANGED <<available_nodes, taken_nodes>>
    /\ UNCHANGED <<conns, accepted, thread, answer, disorder>>

FreeNextWithin_Faulty ==                               \* by the test that filters the list
    /\ accepting.pc = "free"
    /\ IF accepting.index > Len(taken_nodes)
       THEN GoTo("keep", 1, <<>>) /\ UNCHANGED available_nodes
       ELSE LET node == taken_nodes[accepting.index] IN
            IF node.address = Caller \/ <<Caller, node.address>> \in Within
            THEN available_nodes' = Freed(node.id) /\ GoTo("sort", accepting.index, <<>>)
            ELSE GoTo("free", accepting.index + 1, <<>>) /\ UNCHANGED available_nodes
    /\ UNCHANGED <<conns, accepted, thread, answer, taken_nodes, disorder>>

(* Each id noted under the caller's address returns to the pool...         *)
FreeNext ==
    /\ accepting.pc = "free"
    /\ IF accepting.index > Len(taken_nodes)
       THEN GoTo("keep", 1, <<>>) /\ UNCHANGED available_nodes
       ELSE IF taken_nodes[accepting.index].address = Caller
       THEN /\ available_nodes' = Freed(taken_nodes[accepting.index].id)
            /\ GoTo("sort", accepting.index, <<>>)
       ELSE GoTo("free", accepting.index + 1, <<>>) /\ UNCHANGED available_nodes
    /\ UNCHANGED <<conns, accepted, thread, answer, taken_nodes, disorder>>

Sorted(list) ==
    CHOOSE t \in {[i \in DOMAIN list |-> list[p[i]]] :
                      p \in Bijection(DOMAIN list, DOMAIN list)} :
        \A i, j \in DOMAIN list : i < j => t[i] <= t[j]

(* ...which is sorted each time.                                           *)
SortPool ==
    /\ accepting.pc = "sort"
    /\ available_nodes' = Sorted(available_nodes)
    /\ GoTo("free", accepting.index + 1, <<>>)
    /\ UNCHANGED <<conns, accepted, thread, answer, taken_nodes, disorder>>

Kept_Faulty(node) == TRUE                              \* nothing is taken off the list
Kept(node) == node.address # Caller /\ <<Caller, node.address>> \notin Within

(* Then taken_nodes is replaced by a copy without the entries whose        *)
(* address contains the caller's.                                          *)
KeepNext ==
    /\ accepting.pc = "keep"
    /\ accepting.index <= Len(taken_nodes)
    /\ LET node == taken_nodes[accepting.index] IN
       GoTo("keep", accepting.index + 1,
            IF Kept(node) THEN Append(accepting.kept, node) ELSE accepting.kept)
    /\ UNCHANGED <<conns, accepted, thread, answer, available_nodes, taken_nodes, disorder>>

ReplaceTaken ==
    /\ accepting.pc = "keep"
    /\ accepting.index > Len(taken_nodes)
    /\ taken_nodes' = accepting.kept
    /\ GoTo("start", 1, <<>>)
    /\ UNCHANGED <<conns, accepted, thread, answer, available_nodes, disorder>>

StartThread ==
    /\ accepting.pc = "start"
    /\ thread' = [thread EXCEPT ![accepted] = "recv"]
    /\ GoTo("accept", 1, <<>>)
    /\ UNCHANGED <<conns, accepted, answer, available_nodes, taken_nodes, disorder>>

-----------------------------------------------------------------------------
(***************************************************************************)
(* A household's thread: the rni case of thread_handler, get_node_id.      *)
(***************************************************************************)
Answer(c, id) == answer' = [answer EXCEPT ![c] = id]

(* An empty pool is answered with -1.  (That the household has an id noted *)
(* is tested with its address and port, which are never in the list.)      *)
TestPool(c) ==
    /\ thread[c] = "recv"
    /\ disorder' = (disorder \/ AtWork # {} \/ ~Current(c)
                             \/ accepting.pc \in {"free", "sort", "keep"})
    /\ IF available_nodes = <<>>
       THEN Answer(c, NoId) /\ thread' = [thread EXCEPT ![c] = "served"]
       ELSE thread' = [thread EXCEPT ![c] = "record"] /\ UNCHANGED answer
    /\ UNCHANGED <<conns, accepted, accepting, available_nodes, taken_nodes>>

(* The first id of the pool is noted for the household...                  *)
RecordId(c) ==
    /\ thread[c] = "record"
    /\ available_nodes # <<>>
    /\ taken_nodes' = Append(taken_nodes, [address |-> conns[c], id |-> Head(available_nodes)])
    /\ thread' = [thread EXCEPT ![c] = "pop"]
    /\ UNCHANGED <<conns, accepted, accepting, answer, available_nodes, disorder>>

Popped_Faulty == available_nodes                       \* indexed instead of popped
Popped == Tail(available_nodes)

(* ...and what is the first by then is taken from it and answered.         *)
PopId(c) ==
    /\ thread[c] = "pop"
    /\ available_nodes # <<>>
    /\ Answer(c, Head(available_nodes))
    /\ available_nodes' = Popped
    /\ thread' = [thread EXCEPT ![c] = "served"]
    /\ UNCHANGED <<conns, accepted, accepting, taken_nodes, disorder>>

(* IndexError: the pool has become empty, the thread ends without answer.  *)
Fail(c) ==
    /\ c \in AtWork
    /\ available_nodes = <<>>
    /\ thread' = [thread EXCEPT ![c] = "dead"]
    /\ UNCHANGED <<conns, accepted, accepting, answer, available_nodes, taken_nodes, disorder>>

-----------------------------------------------------------------------------
AcceptLoop == Accept \/ FreeNext \/ SortPool \/ KeepNext \/ ReplaceTaken \/ StartThread
HouseholdThread(c) == TestPool(c) \/ RecordId(c) \/ PopId(c) \/ Fail(c)

Next ==
    \/ \E a \in Address : Connect(a)
    \/ AcceptLoop
    \/ \E c \in 1..MaxConns : HouseholdThread(c)

(* The interpreter runs every thread that is not waiting.                  *)
Spec == /\ Init /\ [][Next]_vars
        /\ WF_vars(AcceptLoop)
        /\ \A c \in 1..MaxConns : WF_vars(HouseholdThread(c))

-----------------------------------------------------------------------------
(***************************************************************************)
(* Properties                                                              *)
(***************************************************************************)
Node == [address : Address, id : Ids]

(* Every variable has its type; indexes stay within a list that only other *)
(* threads lengthen (server.py:31-37).                                     *)
TypeOK ==
    /\ conns \in Seq(Address) /\ Len(conns) <= MaxConns
    /\ accepted \in 0..Len(conns)
    /\ accepting \in [pc : {"accept", "free", "sort", "keep", "start"},
                      index : 1..(Len(taken_nodes) + 1), kept : Seq(Node)]
    /\ thread \in [1..MaxConns -> {"none", "recv", "record", "pop", "served", "dead"}]
    /\ answer \in [1..MaxConns -> Ids \cup {NoAnswer, NoId}]
    /\ available_nodes \in Seq(Ids)
    /\ taken_nodes \in Seq(Node)
    /\ disorder \in BOOLEAN

(* "Returns next available node ID and assigns this to the node that       *)
(* requested it" (simulator.py:55): no two households have the same id.    *)
Holders == {c \in 1..Len(conns) : Current(c) /\ answer[c] \in Ids}
IdsUnique == \A c, d \in Holders : c # d => answer[c] # answer[d]

(* Until the first household comes back, no id is out twice, however the   *)
(* threads interleave: what is answered is what one pop has taken          *)
(* (simulator.py:63-66).                                                   *)
Reconnected(a) == Cardinality({c \in 1..Len(conns) : conns[c] = a}) > 1
FirstIdsUnique == (\A a \in Address : ~Reconnected(a)) => IdsUnique

(* As long as no two operations on the lists overlap, no id is out twice   *)
(* however often households come back, also after one whose address is a   *)
(* part of another's has made the server forget the other's id             *)
(* (server.py:31-37, simulator.py:57-66).                                  *)
OrderlyUnique == ~disorder => IdsUnique

(* No two operations on the lists have overlapped, and no household has    *)
(* come back whose address is a part of another's.                         *)
Undisturbed == ~disorder /\ \A p \in Within : ~Reconnected(p[1])

(* Between operations each id is in exactly one list, and whoever has an   *)
(* id is noted under it, households that came back included                *)
(* (server.py:29-37, simulator.py:57-66).                                  *)
AtRest == accepting.pc \in {"accept", "start"} /\ AtWork = {}
Accounted ==
    Undisturbed /\ AtRest =>
        /\ \A id \in Ids :
               Cardinality({i \in DOMAIN available_nodes : available_nodes[i] = id}) +
               Cardinality({i \in DOMAIN taken_nodes : taken_nodes[i].id = id}) = 1
        /\ \A c \in Holders : \E i \in DOMAIN taken_nodes :
               taken_nodes[i] = [address |-> conns[c], id |-> answer[c]]

(* As long as there are no more households than ids, each gets one,        *)
(* however often they boot: an id comes back before it is needed           *)
(* (server.py:29-37, simulator.py:57-58).                                  *)
Households == {conns[c] : c \in 1..Len(conns)}
ServedWithinCapacity ==
    Undisturbed /\ Cardinality(Households) <= Len(Pool) =>
        \A c \in 1..MaxConns : answer[c] # NoId /\ thread[c] # "dead"

(* Every connection gets an answer, or its thread has died of an empty     *)
(* pool: the accept loop gets through a list that grows under it           *)
(* (server.py:31-37, simulator.py:57-66).                                  *)
Handled == \A c \in 1..MaxConns :
               c <= Len(conns) ~> thread[c] \in {"served", "dead"}
=============================================================================
