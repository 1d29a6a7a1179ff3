---------------------------- MODULE Station_proofs ----------------------------
(***************************************************************************)
(* Proofs about Station: its types, that answers are never left over for a *)
(* later request, that the tasks never run without a connection or under   *)
(* an id the server has not given, that the main task is told when the     *)
(* WiFi is gone for good, and that a task the server serves decides on an  *)
(* answer to one of its last three requests; for any number of retries.    *)
(***************************************************************************)
EXTENDS Station, FiniteSetTheorems, SequenceTheorems, TLAPS

(***************************************************************************)
(* The WiFi.  What the handler has still to be told follows from what the  *)
(* station is doing.                                                       *)
(***************************************************************************)
EventsOK ==
    /\ station \in {"off", "connecting"} => events = <<>>
    /\ station = "started" => Len(events) = 1 /\ events[1] = "STA_START"
    /\ station = "online" /\ events # <<>> => Len(events) = 1 /\ events[1] = "STA_GOT_IP"
    /\ station = "idle" =>
           \/ events = <<>> /\ Wifi!FAIL \in bits
           \/ Len(events) = 1 /\ events[1] = "STA_DISCONNECTED"
           \/ Len(events) = 2 /\ events[1] = "STA_GOT_IP" /\ events[2] = "STA_DISCONNECTED"

(***************************************************************************)
(* The start.  Until the tasks are started only the main task uses the     *)
(* connection, and a connection not yet made has nothing on it.            *)
(***************************************************************************)
BootOK ==
    /\ boot \in {"wifi", "connect"} => conn = "unconnected" /\ pc["main"] = "off"
    /\ boot # "running" => \A t \in Link!Task \ {"main"} : pc[t] = "off"
    /\ boot = "rni" => pc["main"] # "off"
    /\ pc["main"] # "idle"
    /\ boot = "running" => pc["main"] = "off" /\ conn # "unconnected"

UnusedOK ==
    /\ conn = "unconnected" => pc["main"] \in {"off", "send"}
    /\ conn = "unconnected" \/ (pc["main"] = "send" /\ conn = "up") =>
           up = <<>> /\ down = <<>> /\ thread = "recv"

(* Only a server that has ended its thread closes the connection.          *)
ClosedOK == conn = "closed" => thread = "dead"

(* As the main task asks but once while the thread lives, whatever is on   *)
(* its way for it, or about to be stored, is the answer to its last and    *)
(* only request.                                                           *)
ForMain(place, m) ==
    /\ place = "rni" => m.task = "main"
    /\ m.task = "main" => m.age = 0
OnceOK ==
    thread # "dead" =>
        /\ \A i \in DOMAIN up : ForMain(boot, up[i])
        /\ \A i \in DOMAIN down : ForMain(boot, down[i])
        /\ thread = "work" => ForMain(boot, serving)
        /\ \A t \in Link!Task : pc[t] = "decode" => ForMain(boot, hand[t])
        /\ pc["main"] = "use" \/ boot = "running" => known["main"] = 0

SInv == TypeOK /\ EventsOK /\ BootOK /\ UnusedOK /\ ClosedOK /\ OnceOK /\ NothingLeftOver

-----------------------------------------------------------------------------
(***************************************************************************)
(* The WiFi                                                                *)
(***************************************************************************)
LEMMA WifiKeeps ==
    ASSUME Wifi!TypeOK, EventsOK, Wifi!Next
    PROVE  Wifi!TypeOK' /\ EventsOK'
  <1> USE RetryAssumption
          DEF Wifi!TypeOK, EventsOK, Wifi!Raise, Wifi!Take, Wifi!FAIL, Wifi!CONNECTED,
              Wifi!esp_wifi_connect
  <1>1. CASE Wifi!Start
    BY <1>1 DEF Wifi!Start
  <1>2. CASE Wifi!GetAddress
    BY <1>2 DEF Wifi!GetAddress
  <1>3. CASE Wifi!Disconnect
    BY <1>3 DEF Wifi!Disconnect
  <1>4. CASE Wifi!HandleStart
    BY <1>4 DEF Wifi!HandleStart
  <1>5. CASE Wifi!HandleDisconnected
    <2>1. station = "idle" /\ Len(events) = 1 /\ events' = <<>>
      BY <1>5 DEF Wifi!HandleDisconnected
    <2>2. CASE Wifi!RetryLeft
      <3>1. station' = "connecting" /\ s_retry_num' \in 0..MaximumRetry /\ bits' = bits
        BY <1>5, <2>2 DEF Wifi!HandleDisconnected, Wifi!RetryLeft
      <3> QED
        BY <2>1, <3>1
    <2>3. CASE ~Wifi!RetryLeft
      <3>1. station' = station /\ s_retry_num' = s_retry_num /\ bits' = bits \cup {"WIFI_FAIL_BIT"}
        BY <1>5, <2>3 DEF Wifi!HandleDisconnected, Wifi!GiveUp
      <3> QED
        BY <2>1, <3>1
    <2> QED
      BY <2>2, <2>3
  <1>6. CASE Wifi!HandleGotIP
    <2>1. \/ station = "online" /\ events' = <<>>
          \/ station = "idle" /\ Len(events') = 1 /\ events'[1] = "STA_DISCONNECTED"
      BY <1>6 DEF Wifi!HandleGotIP
    <2> QED
      BY <1>6, <2>1 DEF Wifi!HandleGotIP
  <1> QED
    BY <1>1, <1>2, <1>3, <1>4, <1>5, <1>6 DEF Wifi!Next, Wifi!Driver, Wifi!Handler

-----------------------------------------------------------------------------
(***************************************************************************)
(* The link: types                                                         *)
(***************************************************************************)

(* A new request makes the others of its task older, and nothing else.     *)
LEMMA AgedMessage ==
    ASSUME NEW t \in Link!Task, NEW m \in Link!Message
    PROVE  /\ Link!Aged(t, m) \in Link!Message
           /\ Link!Aged(t, m).task = m.task
           /\ m.task # t => Link!Aged(t, m) = m
  BY AgeAssumption DEF Link!Message, Link!Aged, Link!Older

LEMMA AgedSequence ==
    ASSUME NEW t \in Link!Task, NEW q \in Seq(Link!Message)
    PROVE  /\ Link!AllAged(t, q) \in Seq(Link!Message)
           /\ Len(Link!AllAged(t, q)) = Len(q)
           /\ \A i \in 1..Len(q) : Link!AllAged(t, q)[i] = Link!Aged(t, q[i])
  <1>1. Len(q) \in Nat /\ DOMAIN q = 1..Len(q)
    OBVIOUS
  <1>2. Link!AllAged(t, q) = [i \in 1..Len(q) |-> Link!Aged(t, q[i])]
    BY <1>1 DEF Link!AllAged
  <1>3. \A i \in 1..Len(q) : Link!Aged(t, q[i]) \in Link!Message
    BY AgedMessage
  <1> QED
    BY <1>1, <1>2, <1>3

LEMMA RequestTyped == \A t \in Link!Task : Link!Request(t) \in Link!Message
  BY AgeAssumption DEF Link!Request, Link!Message

LEMMA LinkTypes ==
    ASSUME Link!TypeOK, Link!Next
    PROVE  Link!TypeOK'
  <1> USE AgeAssumption DEF Link!TypeOK, Link!ids
  <1>1. ASSUME NEW t \in Link!Task, Link!Call(t)
        PROVE  Link!TypeOK'
    BY <1>1 DEF Link!Call
  <1>2. ASSUME NEW t \in Link!Task, Link!Send(t)
        PROVE  Link!TypeOK'
    <2>1. up' \in Seq(Link!Message)
      <3>1. Link!AllAged(t, up) \in Seq(Link!Message) /\ Link!Request(t) \in Link!Message
        BY AgedSequence, RequestTyped
      <3> QED
        BY <1>2, <3>1 DEF Link!Send
    <2>2. down' \in Seq(Link!Message)
      BY <1>2, AgedSequence DEF Link!Send
    <2>3. serving' \in Link!Message /\ hand' \in [Link!Task -> Link!Message]
      BY <1>2, AgedMessage DEF Link!Send
    <2>4. known' \in [Link!Task -> 0..MaxAge]
      BY <1>2 DEF Link!Send, Link!Older
    <2> QED
      BY <1>2, <2>1, <2>2, <2>3, <2>4 DEF Link!Send
  <1>3. ASSUME NEW t \in Link!Task, Link!Error(t)
        PROVE  Link!TypeOK'
    BY <1>3 DEF Link!Error, Link!AfterError
  <1>4. ASSUME NEW t \in Link!Task, Link!Recv(t)
        PROVE  Link!TypeOK'
    <2>1. PICK k \in 1..Len(down) : down' = SubSeq(down, k + 1, Len(down))
      BY <1>4 DEF Link!Recv
    <2>2. Len(down) \in Nat /\ down # <<>>
      BY <2>1
    <2>3. down' \in Seq(Link!Message)
      BY <2>1, <2>2
    <2>4. hand' \in [Link!Task -> Link!Message]
      BY <1>4, <2>2 DEF Link!Recv
    <2>5. lost' \in BOOLEAN
      BY <1>4 DEF Link!Recv
    <2> QED
      BY <1>4, <2>3, <2>4, <2>5 DEF Link!Recv
  <1>5. ASSUME NEW t \in Link!Task, Link!RecvNothing(t)
        PROVE  Link!TypeOK'
    BY <1>5 DEF Link!RecvNothing
  <1>6. ASSUME NEW t \in Link!Task, Link!Decode(t)
        PROVE  Link!TypeOK'
    BY <1>6 DEF Link!Decode, Link!Stored, Link!IdStored, Link!Message
  <1>7. ASSUME NEW t \in Link!Task, Link!Use(t)
        PROVE  Link!TypeOK'
    BY <1>7 DEF Link!Use
  <1>8. CASE Link!ServerRecv
    BY <1>8 DEF Link!ServerRecv
  <1>9. CASE Link!ServerRecvJoined
    <2>1. PICK k \in 2..Len(up) : up' = SubSeq(up, k + 1, Len(up))
      BY <1>9 DEF Link!ServerRecvJoined
    <2>2. up' \in Seq(Link!Message)
      BY <2>1
    <2> QED
      BY <1>9, <2>2 DEF Link!ServerRecvJoined, Link!Ended, Link!Closed
  <1>10. CASE Link!ServerAnswer
    BY <1>10 DEF Link!ServerAnswer, Link!Sent, Link!get_node_id
  <1>11. CASE Link!ServerFails
    BY <1>11 DEF Link!ServerFails, Link!Ended, Link!Closed
  <1>12. CASE Link!CloseDead
    BY <1>12 DEF Link!CloseDead, Link!Closed
  <1>13. CASE Link!Reset
    BY <1>13 DEF Link!Reset
  <1> QED
    BY <1>1, <1>2, <1>3, <1>4, <1>5, <1>6, <1>7, <1>8, <1>9, <1>10, <1>11, <1>12, <1>13
    DEF Link!Next, Link!tcp_send_and_update, Link!thread_handler

-----------------------------------------------------------------------------
(***************************************************************************)
(* The link: what is under way is counted                                  *)
(***************************************************************************)

(* The same operator, reached through two modules.                         *)
LEMMA SameCardinality == \A S : Link!Cardinality(S) = Cardinality(S)
  BY DEF Cardinality, Link!Cardinality

LEMMA WaitingFinite ==
    /\ IsFiniteSet(Link!Waiting)
    /\ Cardinality(Link!Waiting) \in Nat
  <1>1. IsFiniteSet({"main"}) /\ IsFiniteSet({"broadcaster"}) /\ IsFiniteSet({"validator"})
    BY FS_Singleton
  <1>2. IsFiniteSet({"main"} \cup {"broadcaster"})
    BY <1>1, FS_Union
  <1>3. IsFiniteSet(({"main"} \cup {"broadcaster"}) \cup {"validator"})
    BY <1>1, <1>2, FS_Union
  <1>4. Link!Waiting \subseteq ({"main"} \cup {"broadcaster"}) \cup {"validator"}
    BY DEF Link!Waiting, Link!Task
  <1>5. IsFiniteSet(Link!Waiting)
    BY ONLY <1>3, <1>4, FS_Subset
  <1> QED
    BY ONLY <1>5, FS_CardinalityType

LEMMA StartsWaiting ==
    ASSUME Link!TypeOK, NEW t \in Link!Task, pc[t] # "recv", pc' = [pc EXCEPT ![t] = "recv"]
    PROVE  Cardinality(Link!Waiting') = Cardinality(Link!Waiting) + 1
  <1>1. Link!Waiting' = Link!Waiting \cup {t} /\ t \notin Link!Waiting
    BY DEF Link!Waiting, Link!TypeOK
  <1>2. Cardinality(Link!Waiting \cup {t}) = Cardinality(Link!Waiting) + 1
    BY ONLY <1>1, WaitingFinite, FS_AddElement
  <1> QED
    BY ONLY <1>1, <1>2

LEMMA StopsWaiting ==
    ASSUME Link!TypeOK, NEW t \in Link!Task, NEW place, pc[t] = "recv", place # "recv",
           pc' = [pc EXCEPT ![t] = place]
    PROVE  Cardinality(Link!Waiting') = Cardinality(Link!Waiting) - 1
  <1>1. Link!Waiting' = Link!Waiting \ {t} /\ t \in Link!Waiting
    BY DEF Link!Waiting, Link!TypeOK
  <1>2. Cardinality(Link!Waiting \ {t}) = Cardinality(Link!Waiting) - 1
    BY ONLY <1>1, WaitingFinite, FS_RemoveElement
  <1> QED
    BY ONLY <1>1, <1>2

LEMMA StaysSame ==
    ASSUME Link!TypeOK, NEW t \in Link!Task, NEW place, pc[t] # "recv", place # "recv",
           pc' = [pc EXCEPT ![t] = place]
    PROVE  Link!Waiting' = Link!Waiting
  BY DEF Link!Waiting, Link!TypeOK

(* As long as the connection is up each step of a task or of the server    *)
(* moves one request or answer on, or takes what it loses off the count.   *)
LEMMA LinkCounts ==
    ASSUME Link!TypeOK, NothingLeftOver, Link!Next
    PROVE  NothingLeftOver'
  <1> DEFINE W == Cardinality(Link!Waiting)
             F == Link!InFlight
             Working == IF thread = "work" THEN 1 ELSE 0
  <1> SUFFICES conn' = "up" => /\ F' <= W'
                               /\ thread' # "dead" /\ ~lost' => F' = W'
    <2>1. Link!Cardinality(Link!Waiting') = W'
      BY ONLY SameCardinality
    <2> QED
      BY <2>1 DEF NothingLeftOver, Link!NothingLeftOver
  <1>n. conn = "up" => /\ F <= W
                       /\ thread # "dead" /\ ~lost => F = W
    BY SameCardinality DEF NothingLeftOver, Link!NothingLeftOver
  <1>0. Len(up) \in Nat /\ Len(down) \in Nat /\ W \in Nat
    BY WaitingFinite DEF Link!TypeOK
  <1>a. F = Len(up) + Len(down) + Working /\ Working \in {0, 1} /\ F \in Nat
    BY <1>0 DEF Link!InFlight
  <1>b. F' = Len(up') + Len(down') + Working'
    BY DEF Link!InFlight
  <1>c. Working' = IF thread' = "work" THEN 1 ELSE 0
    OBVIOUS
  <1> HIDE DEF W, F
  <1>1. ASSUME NEW t \in Link!Task, Link!Call(t) \/ Link!Decode(t) \/ Link!Use(t)
        PROVE  conn' = "up" => /\ F' <= W'
                               /\ thread' # "dead" /\ ~lost' => F' = W'
    <2>1. PICK place \in {"send", "use", "idle"} : pc' = [pc EXCEPT ![t] = place]
      BY <1>1 DEF Link!Call, Link!Decode, Link!Use
    <2>2. pc[t] # "recv"
      BY <1>1 DEF Link!Call, Link!Decode, Link!Use
    <2>3. W' = W
      BY <2>1, <2>2, StaysSame DEF W
    <2>4. conn' = conn /\ up' = up /\ down' = down /\ thread' = thread /\ lost' = lost
      BY <1>1 DEF Link!Call, Link!Decode, Link!Use
    <2>5. F' = F
      BY <1>a, <1>b, <2>4
    <2> QED
      BY <1>n, <2>3, <2>4, <2>5
  <1>2. ASSUME NEW t \in Link!Task, Link!Send(t)
        PROVE  conn' = "up" => /\ F' <= W'
                               /\ thread' # "dead" /\ ~lost' => F' = W'
    <2>1. W' = W + 1
      BY <1>2, StartsWaiting DEF Link!Send, W
    <2>2. Len(up') = Len(up) + 1 /\ Len(down') = Len(down)
      BY <1>2, AgedSequence, RequestTyped DEF Link!Send, Link!TypeOK
    <2>3. conn' = conn /\ thread' = thread /\ lost' = lost
      BY <1>2 DEF Link!Send
    <2>4. F' = F + 1
      BY <1>0, <1>a, <1>b, <1>c, <2>2, <2>3
    <2> QED
      BY <1>0, <1>a, <1>n, <2>1, <2>3, <2>4
  <1>3. ASSUME NEW t \in Link!Task, Link!Error(t) \/ Link!RecvNothing(t)
        PROVE  conn' = "up" => /\ F' <= W'
                               /\ thread' # "dead" /\ ~lost' => F' = W'
    BY <1>3 DEF Link!Error, Link!RecvNothing
  <1>4. ASSUME NEW t \in Link!Task, Link!Recv(t)
        PROVE  conn' = "up" => /\ F' <= W'
                               /\ thread' # "dead" /\ ~lost' => F' = W'
    <2>1. PICK k \in 1..Len(down) :
              down' = SubSeq(down, k + 1, Len(down)) /\ lost' = (lost \/ k > 1)
      BY <1>4 DEF Link!Recv
    <2>2. Len(down') = Len(down) - k
      BY <2>1, <1>0 DEF Link!TypeOK
    <2>3. W' = W - 1
      BY <1>4, StopsWaiting DEF Link!Recv, W
    <2>4. conn' = conn /\ thread' = thread /\ up' = up
      BY <1>4 DEF Link!Recv
    <2>5. F' = F - k
      BY <1>0, <1>a, <1>b, <1>c, <2>2, <2>4
    <2>7. ~lost' => ~lost /\ k = 1
      <3>1. k \in Nat /\ k >= 1
        BY <1>0
      <3>2. lost' <=> lost \/ k > 1
        BY <2>1
      <3> QED
        BY <3>1, <3>2
    <2> QED
      BY <1>0, <1>a, <1>n, <2>1, <2>3, <2>4, <2>5, <2>7
  <1>5. CASE Link!ServerRecv \/ Link!ServerAnswer
    <2>1. /\ conn' = conn /\ lost' = lost /\ pc' = pc
          /\ thread # "dead" /\ thread' # "dead"
      BY <1>5 DEF Link!ServerRecv, Link!ServerAnswer
    <2>2. W' = W
      BY <2>1 DEF Link!Waiting, W
    <2>3. F' = F
      <3>1. CASE Link!ServerRecv
        BY <1>0, <1>a, <1>b, <3>1 DEF Link!ServerRecv, Link!TypeOK
      <3>2. CASE Link!ServerAnswer
        BY <1>0, <1>a, <1>b, <3>2 DEF Link!ServerAnswer, Link!Sent, Link!TypeOK
      <3> QED
        BY <1>5, <3>1, <3>2
    <2> QED
      BY <1>n, <2>1, <2>2, <2>3
  <1>6. CASE Link!ServerRecvJoined \/ Link!ServerFails
    <2>1. thread' = "dead" /\ pc' = pc /\ down' = down
      BY <1>6 DEF Link!ServerRecvJoined, Link!ServerFails, Link!Ended
    <2>2. Len(up') \in Nat /\ Len(up') <= Len(up)
      <3>1. CASE Link!ServerFails
        BY <1>0, <3>1 DEF Link!ServerFails
      <3>2. CASE Link!ServerRecvJoined
        <4>1. PICK k \in 2..Len(up) : up' = SubSeq(up, k + 1, Len(up))
          BY <3>2 DEF Link!ServerRecvJoined
        <4> QED
          BY <1>0, <4>1 DEF Link!TypeOK
      <3> QED
        BY <1>6, <3>1, <3>2
    <2>3. W' = W
      BY <2>1 DEF Link!Waiting, W
    <2>4. conn' = "up" => conn = "up"
      BY <1>6 DEF Link!ServerRecvJoined, Link!ServerFails, Link!Ended, Link!Closed
    <2>5. F' <= F
      BY <1>0, <1>a, <1>b, <2>1, <2>2
    <2>6. F' \in Nat
      BY <1>0, <1>b, <1>c, <2>1, <2>2
    <2> QED
      BY <1>0, <1>a, <1>n, <2>1, <2>3, <2>4, <2>5, <2>6
  <1>7. CASE Link!CloseDead \/ Link!Reset
    BY <1>7 DEF Link!CloseDead, Link!Reset, Link!Closed
  <1> QED
    BY <1>1, <1>2, <1>3, <1>4, <1>5, <1>6, <1>7
    DEF Link!Next, Link!tcp_send_and_update, Link!thread_handler

-----------------------------------------------------------------------------
(***************************************************************************)
(* The start of a module                                                   *)
(***************************************************************************)
StartOK == BootOK /\ UnusedOK /\ ClosedOK /\ OnceOK

(* A task of its own asks for each kind of answer, so only the main task's *)
(* request makes a message for the main task.                              *)
LEMMA TasksKeep ==
    ASSUME TypeOK, StartOK, NEW t \in Link!Task, boot' = boot,
           Link!Call(t) \/ Link!tcp_send_and_update(t) \/ Link!Use(t)
    PROVE  StartOK'
  <1> USE DEF TypeOK, Link!TypeOK, StartOK, BootOK, UnusedOK, ClosedOK
  <1>m. "main" \in Link!Task
    BY DEF Link!Task
  <1>1. CASE Link!Call(t)
    <2>1. pc[t] = "idle" /\ pc' = [pc EXCEPT ![t] = "send"] /\ t # "main"
      BY <1>1, <1>m DEF Link!Call
    <2> QED
      BY <1>1, <1>m, <2>1 DEF Link!Call, OnceOK, ForMain
  <1>2. CASE Link!Send(t)
    <2>1. /\ pc[t] = "send" /\ conn \in {"up", "closed"} /\ pc' = [pc EXCEPT ![t] = "recv"]
          /\ conn' = conn /\ thread' = thread
      BY <1>2 DEF Link!Send
    <2>2. BootOK' /\ UnusedOK' /\ ClosedOK'
      BY <1>m, <2>1
    <2>3. ASSUME thread # "dead"
          PROVE  OnceOK'
      <3>1. conn = "up"
        BY <2>1, <2>3
      <3>2. Len(up) \in Nat /\ Len(down) \in Nat
        OBVIOUS
      <3>3. /\ up' = Append(Link!AllAged(t, up), Link!Request(t))
            /\ down' = Link!AllAged(t, down)
            /\ serving' = Link!Aged(t, serving)
            /\ hand' = [o \in Link!Task |-> Link!Aged(t, hand[o])]
            /\ known' = [known EXCEPT ![t] = Link!Older(@)]
        BY <1>2 DEF Link!Send
      <3>4. /\ Len(up') = Len(up) + 1 /\ up'[Len(up) + 1] = Link!Request(t)
            /\ \A i \in 1..Len(up) : up'[i] = Link!Aged(t, up[i])
        BY <3>2, <3>3, AgedSequence, RequestTyped
      <3>5. /\ Len(down') = Len(down)
            /\ \A i \in 1..Len(down) : down'[i] = Link!Aged(t, down[i])
        BY <3>3, AgedSequence
      <3>6. DOMAIN up' = 1..(Len(up) + 1) /\ DOMAIN down' = 1..Len(down)
        BY <3>2, <3>3, <3>4, <3>5, AgedSequence, RequestTyped
      <3>7. CASE t = "main"
        <4>1. boot = "rni" /\ up = <<>> /\ down = <<>> /\ thread = "recv"
          BY <2>1, <3>1, <3>7
        <4>2. \A o \in Link!Task : pc'[o] # "decode"
          BY <1>m, <2>1, <3>7, <4>1
        <4>3. ForMain(boot, Link!Request(t))
          BY <3>7 DEF ForMain, Link!Request
        <4>4. \A i \in DOMAIN up' : ForMain(boot, up'[i])
          BY <3>4, <3>6, <4>1, <4>3 DEF ForMain
        <4>5. DOMAIN down' = {}
          BY <3>6, <4>1
        <4>6. pc'["main"] # "use" /\ boot' # "running"
          BY <1>m, <2>1, <3>7, <4>1
        <4> QED
          BY <2>1, <4>1, <4>2, <4>4, <4>5, <4>6 DEF OnceOK
      <3>8. CASE t # "main"
        <4>1. boot' = "running" /\ boot = "running"
          BY <2>1, <3>8
        <4>2. \A m \in Link!Message : ForMain(boot, m) => ForMain(boot, Link!Aged(t, m))
          BY <3>8, <4>1, AgedMessage DEF ForMain
        <4>3. ForMain(boot, Link!Request(t))
          BY <3>8, <4>1 DEF ForMain, Link!Request
        <4>4. \A i \in DOMAIN up' : ForMain(boot, up'[i])
          BY <2>3, <3>2, <3>4, <3>6, <4>2, <4>3 DEF OnceOK
        <4>5. \A i \in DOMAIN down' : ForMain(boot, down'[i])
          BY <2>3, <3>2, <3>5, <3>6, <4>2 DEF OnceOK
        <4>6. thread' = "work" => ForMain(boot, serving')
          BY <2>1, <2>3, <3>3, <4>2 DEF OnceOK
        <4>7. \A o \in Link!Task : pc'[o] = "decode" => ForMain(boot, hand'[o])
          BY <2>1, <2>3, <3>3, <4>2 DEF OnceOK
        <4>8. known'["main"] = 0
          BY <1>m, <2>3, <3>3, <3>8, <4>1 DEF OnceOK
        <4> QED
          BY <4>4, <4>5, <4>6, <4>7, <4>8 DEF OnceOK
      <3> QED
        BY <3>7, <3>8
    <2>4. ASSUME thread = "dead"
          PROVE  OnceOK'
      BY <2>1, <2>4 DEF OnceOK
    <2> QED
      BY <2>2, <2>3, <2>4
  <1>3. CASE Link!Error(t)
    <2>1. /\ pc[t] \in {"send", "recv"} /\ pc' = [pc EXCEPT ![t] = "send"]
          /\ conn \in {"unconnected", "reset"} /\ (pc[t] = "recv" => conn = "reset")
      BY <1>3 DEF Link!Error, Link!AfterError
    <2>2. /\ conn' = conn /\ up' = up /\ down' = down /\ thread' = thread
          /\ serving' = serving /\ hand' = hand /\ known' = known
      BY <1>3 DEF Link!Error
    <2> QED
      BY <1>m, <2>1, <2>2 DEF OnceOK, ForMain
  <1>4. CASE Link!Recv(t)
    <2>1. PICK k \in 1..Len(down) : down' = SubSeq(down, k + 1, Len(down))
      BY <1>4 DEF Link!Recv
    <2>2. /\ pc[t] = "recv" /\ pc' = [pc EXCEPT ![t] = "decode"]
          /\ hand' = [hand EXCEPT ![t] = Head(down)]
          /\ conn' = conn /\ up' = up /\ thread' = thread /\ serving' = serving /\ known' = known
      BY <1>4 DEF Link!Recv
    <2>3. Len(down) \in Nat /\ Len(down) # 0 /\ k \in Nat /\ k <= Len(down) /\ k >= 1
      BY <2>1
    <2>4. /\ Len(down') = Len(down) - k /\ DOMAIN down' = 1..(Len(down) - k)
          /\ \A i \in 1..(Len(down) - k) : down'[i] = down[i + k]
      BY <2>1, <2>3
    <2>5. BootOK' /\ UnusedOK' /\ ClosedOK'
      BY <1>m, <2>2, <2>3
    <2>6. ASSUME thread # "dead"
          PROVE  OnceOK'
      <3>1. \A i \in 1..Len(down) : ForMain(boot, down[i])
        BY <2>6 DEF OnceOK
      <3>2. \A i \in DOMAIN down' : ForMain(boot, down'[i])
        BY <2>3, <2>4, <3>1 DEF ForMain
      <3>3. Head(down) = down[1] /\ ForMain(boot, Head(down))
        BY <2>3, <3>1
      <3>4. \A o \in Link!Task : pc'[o] = "decode" => ForMain(boot, hand'[o])
        BY <2>2, <2>6, <3>3 DEF OnceOK, ForMain
      <3>5. pc'["main"] = "use" \/ boot' = "running" => known'["main"] = 0
        BY <1>m, <2>2, <2>6 DEF OnceOK
      <3> QED
        BY <2>2, <2>6, <3>2, <3>4, <3>5 DEF OnceOK, ForMain
    <2>7. ASSUME thread = "dead"
          PROVE  OnceOK'
      BY <2>2, <2>7 DEF OnceOK
    <2> QED
      BY <2>5, <2>6, <2>7
  <1>5. CASE Link!RecvNothing(t)
    <2>1. pc[t] = "recv" /\ conn = "closed" /\ pc' = [pc EXCEPT ![t] = "use"]
      BY <1>5 DEF Link!RecvNothing
    <2>2. conn' = conn /\ thread' = thread /\ up' = up /\ down' = down
      BY <1>5 DEF Link!RecvNothing
    <2>3. thread = "dead"
      BY <2>1
    <2> QED
      BY <1>m, <2>1, <2>2, <2>3 DEF OnceOK
  <1>6. CASE Link!Decode(t)
    <2>1. /\ pc[t] = "decode" /\ pc' = [pc EXCEPT ![t] = "use"]
          /\ known' = [known EXCEPT ![hand[t].task] = hand[t].age]
          /\ conn' = conn /\ thread' = thread /\ up' = up /\ down' = down
          /\ serving' = serving /\ hand' = hand
      BY <1>6 DEF Link!Decode, Link!Stored
    <2>2. BootOK' /\ UnusedOK' /\ ClosedOK'
      BY <1>m, <2>1
    <2>3. ASSUME thread # "dead"
          PROVE  OnceOK'
      <3>1. ForMain(boot, hand[t]) /\ hand[t] \in Link!Message
        BY <2>1, <2>3 DEF OnceOK
      <3>2. pc'["main"] = "use" \/ boot' = "running" => known'["main"] = 0
        <4>1. CASE hand[t].task = "main"
          BY <1>m, <2>1, <3>1, <4>1 DEF ForMain
        <4>2. CASE hand[t].task # "main"
          <5>1. boot # "rni"
            BY <3>1, <4>2 DEF ForMain
          <5>2. boot = "running"
            BY <1>m, <2>1, <5>1
          <5> QED
            BY <1>m, <2>1, <2>3, <3>1, <4>2, <5>2 DEF OnceOK, Link!Message
        <4> QED
          BY <4>1, <4>2
      <3> QED
        BY <2>1, <2>3, <3>2 DEF OnceOK, ForMain
    <2>4. ASSUME thread = "dead"
          PROVE  OnceOK'
      BY <2>1, <2>4 DEF OnceOK
    <2> QED
      BY <2>2, <2>3, <2>4
  <1>7. CASE Link!Use(t)
    BY <1>7, <1>m DEF Link!Use, OnceOK, ForMain
  <1> QED
    BY <1>1, <1>2, <1>3, <1>4, <1>5, <1>6, <1>7 DEF Link!tcp_send_and_update

LEMMA ServerKeeps ==
    ASSUME TypeOK, StartOK, boot' = boot,
           Link!thread_handler \/ Link!CloseDead \/ Link!Reset
    PROVE  StartOK'
  <1> USE DEF TypeOK, Link!TypeOK, StartOK, BootOK, UnusedOK, ClosedOK
  <1>1. CASE Link!ServerRecv
    <2>1. /\ up # <<>> /\ conn = "up" /\ thread = "recv"
          /\ serving' = Head(up) /\ up' = Tail(up) /\ thread' = "work"
          /\ conn' = conn /\ pc' = pc /\ down' = down /\ hand' = hand /\ known' = known
      BY <1>1 DEF Link!ServerRecv
    <2>2. /\ Len(up) \in Nat \ {0} /\ Head(up) = up[1]
          /\ DOMAIN up' = 1..(Len(up) - 1) /\ \A i \in 1..(Len(up) - 1) : up'[i] = up[i + 1]
      BY <2>1
    <2>3. \A i \in 1..Len(up) : ForMain(boot, up[i])
      BY <2>1 DEF OnceOK
    <2>4. ForMain(boot, serving') /\ \A i \in DOMAIN up' : ForMain(boot, up'[i])
      <3>1. ForMain(boot, serving')
        BY <2>1, <2>2, <2>3
      <3>2. ASSUME NEW i \in 1..(Len(up) - 1)
            PROVE  ForMain(boot, up'[i])
        <4>1. i + 1 \in 1..Len(up) /\ up'[i] = up[i + 1]
          BY <2>2
        <4> QED
          BY <2>3, <4>1
      <3> QED
        BY <2>2, <3>1, <3>2
    <2>5. OnceOK'
      BY <2>1, <2>4 DEF OnceOK
    <2> QED
      BY <2>1, <2>5
  <1>2. CASE Link!ServerRecvJoined \/ Link!ServerFails
    <2>1. thread' = "dead" /\ pc' = pc
      BY <1>2 DEF Link!ServerRecvJoined, Link!ServerFails, Link!Ended
    <2>2. thread # "dead" /\ ~(thread = "recv" /\ up = <<>>)
      <3>1. CASE Link!ServerFails
        BY <3>1 DEF Link!ServerFails
      <3>2. CASE Link!ServerRecvJoined
        BY <3>2 DEF Link!ServerRecvJoined
      <3> QED
        BY <1>2, <3>1, <3>2
    <2>3. conn # "unconnected" /\ ~(pc["main"] = "send" /\ conn = "up")
      BY <2>2
    <2>4. conn' \in {conn, IF conn = "up" THEN Link!Closed ELSE conn}
      BY <1>2 DEF Link!ServerRecvJoined, Link!ServerFails, Link!Ended
    <2>5. conn' = "up" => conn = "up"
      BY <2>4 DEF Link!Closed
    <2>6. conn' # "unconnected"
      BY <2>3, <2>4 DEF Link!Closed
    <2>7. OnceOK'
      BY <2>1 DEF OnceOK
    <2> QED
      BY <2>1, <2>3, <2>5, <2>6, <2>7
  <1>3. CASE Link!ServerAnswer
    <2>1. /\ thread = "work" /\ thread' = "recv" /\ down' = Append(down, serving)
          /\ conn' = conn /\ pc' = pc /\ up' = up /\ hand' = hand /\ known' = known
      BY <1>3 DEF Link!ServerAnswer, Link!Sent
    <2>2. Len(down) \in Nat
      OBVIOUS
    <2>3. /\ DOMAIN down' = 1..(Len(down) + 1) /\ down'[Len(down) + 1] = serving
          /\ \A i \in 1..Len(down) : down'[i] = down[i]
      BY <2>1, <2>2
    <2>4. ForMain(boot, serving) /\ \A i \in 1..Len(down) : ForMain(boot, down[i])
      BY <2>1 DEF OnceOK
    <2>5. \A i \in DOMAIN down' : ForMain(boot, down'[i])
      BY <2>2, <2>3, <2>4
    <2>6. OnceOK'
      BY <2>1, <2>5 DEF OnceOK
    <2> QED
      BY <2>1, <2>6
  <1>4. CASE Link!CloseDead
    BY <1>4 DEF Link!CloseDead, Link!Closed, OnceOK
  <1>5. CASE Link!Reset
    BY <1>5 DEF Link!Reset, OnceOK
  <1> QED
    BY <1>1, <1>2, <1>3, <1>4, <1>5 DEF Link!thread_handler

(* Nobody waits while the main task is not in its request and the tasks    *)
(* have not been started.                                                  *)
LEMMA NobodyWaits ==
    ASSUME \A t \in Link!Task : pc'[t] # "recv", up' = <<>>, down' = <<>>, thread' = "recv"
    PROVE  NothingLeftOver'
  <1>1. Link!Waiting' = {}
    BY DEF Link!Waiting
  <1>2. Cardinality({}) = 0
    BY FS_EmptySet
  <1>3. Link!Cardinality(Link!Waiting') = 0
    BY ONLY <1>1, <1>2, SameCardinality
  <1>4. Link!InFlight' = 0
    BY DEF Link!InFlight
  <1> QED
    BY <1>3, <1>4 DEF NothingLeftOver, Link!NothingLeftOver

LEMMA BootKeeps ==
    ASSUME SInv, laset_main \/ Abort
    PROVE  SInv'
  <1> USE DEF SInv, TypeOK, Wifi!TypeOK, Link!TypeOK, BootOK, UnusedOK, ClosedOK, wifiVars
  <1>m. "main" \in Link!Task
    BY DEF Link!Task
  <1>1. CASE WifiDone
    <2> USE <1>1 DEF WifiDone, linkVars
    <2>1. TypeOK' /\ BootOK' /\ UnusedOK' /\ ClosedOK'
      OBVIOUS
    <2>2. OnceOK' /\ EventsOK'
      BY DEF OnceOK, ForMain, EventsOK
    <2>3. NothingLeftOver'
      BY DEF NothingLeftOver, Link!NothingLeftOver, Link!InFlight, Link!Waiting
    <2> QED
      BY <2>1, <2>2, <2>3
  <1>2. CASE ConnectSocket
    <2> USE <1>2 DEF ConnectSocket
    <2>1. /\ boot = "connect" /\ boot' = "rni" /\ pc' = [pc EXCEPT !["main"] = "send"]
          /\ up' = <<>> /\ down' = <<>> /\ thread' = "recv" /\ conn' \in {"up", "unconnected"}
      OBVIOUS
    <2>2. TypeOK' /\ BootOK' /\ UnusedOK' /\ ClosedOK'
      BY <1>m, <2>1
    <2>3. \A t \in Link!Task : pc'[t] \in {"send", "off"}
      BY <1>m, <2>1
    <2>4. OnceOK'
      BY <1>m, <2>1, <2>3 DEF OnceOK
    <2>5. EventsOK'
      BY DEF EventsOK
    <2>6. NothingLeftOver'
      BY <2>1, <2>3, NobodyWaits
    <2> QED
      BY <2>2, <2>4, <2>5, <2>6
  <1>3. CASE StartTasks
    <2> USE <1>3 DEF StartTasks
    <2>1. /\ boot = "rni" /\ boot' = "running" /\ pc["main"] = "use"
          /\ conn' = conn /\ up' = up /\ down' = down /\ thread' = thread
          /\ serving' = serving /\ hand' = hand /\ known' = known /\ lost' = lost
      OBVIOUS
    <2>2. pc' \in [Link!Task -> {"off", "idle"}] /\ pc'["main"] = "off"
      BY <1>m DEF Link!Started
    <2>3. TypeOK'
      BY <2>1, <2>2
    <2>4. conn' # "unconnected" /\ pc'["main"] = "off" /\ boot' = "running"
      BY <2>1, <2>2
    <2>5. BootOK' /\ UnusedOK'
      BY ONLY <2>4 DEF BootOK, UnusedOK
    <2>6. ClosedOK'
      <3>1. conn = "closed" => thread = "dead"
        OBVIOUS
      <3>2. conn' = conn /\ thread' = thread
        BY <2>1
      <3> QED
        BY ONLY <3>1, <3>2 DEF ClosedOK
    <2>7. OnceOK'
      <3>1. \A t \in Link!Task : pc'[t] # "decode"
        BY <2>2
      <3>2. OnceOK /\ pc["main"] = "use"
        BY <2>1
      <3>3. \A m : ForMain(boot, m) => ForMain(boot', m)
        BY <2>1 DEF ForMain
      <3> QED
        BY ONLY <2>1, <3>1, <3>2, <3>3 DEF OnceOK
    <2>8. EventsOK'
      BY DEF EventsOK
    <2>9. NothingLeftOver'
      <3>1. \A t \in Link!Task : pc[t] # "recv" /\ pc'[t] # "recv"
        BY <2>1, <2>2
      <3>2. Link!Waiting' = Link!Waiting
        BY <3>1 DEF Link!Waiting
      <3>3. Link!InFlight' = Link!InFlight
        BY <2>1 DEF Link!InFlight
      <3> QED
        BY <2>1, <3>2, <3>3 DEF NothingLeftOver, Link!NothingLeftOver
    <2> QED
      BY <2>3, <2>5, <2>6, <2>7, <2>8, <2>9
  <1>4. CASE Abort
    <2> USE <1>4 DEF Abort
    <2>1. TypeOK' /\ BootOK' /\ UnusedOK' /\ ClosedOK'
      OBVIOUS
    <2>2. OnceOK' /\ EventsOK'
      BY DEF OnceOK, ForMain, EventsOK
    <2>3. NothingLeftOver'
      BY DEF NothingLeftOver, Link!NothingLeftOver
    <2> QED
      BY <2>1, <2>2, <2>3
  <1> QED
    BY <1>1, <1>2, <1>3, <1>4 DEF laset_main

-----------------------------------------------------------------------------
THEOREM Invariance == Spec => []SInv
  <1>1. Init => SInv
    <2> SUFFICES ASSUME Init PROVE SInv
      OBVIOUS
    <2> USE RetryAssumption, AgeAssumption DEF Init, Wifi!Init, Link!NothingSent
    <2>m. "main" \in Link!Task
      BY DEF Link!Task
    <2>1. TypeOK
      <3>1. Link!Request("main") \in Link!Message /\ \A t \in Link!Task : Link!Request(t) \in Link!Message
        BY <2>m, RequestTyped
      <3>2. Wifi!TypeOK /\ boot = "wifi"
        BY DEF Wifi!TypeOK
      <3>3. Link!TypeOK
        <4>1. hand \in [Link!Task -> Link!Message] /\ serving \in Link!Message
          BY <3>1
        <4>2. known \in [Link!Task -> 0..MaxAge]
          OBVIOUS
        <4>3. up \in Seq(Link!Message) /\ down \in Seq(Link!Message)
          OBVIOUS
        <4>4. pc \in [Link!Task -> {"off", "idle", "send", "recv", "decode", "use"}]
          OBVIOUS
        <4> QED
          BY <4>1, <4>2, <4>3, <4>4 DEF Link!TypeOK
      <3> QED
        BY <3>2, <3>3 DEF TypeOK
    <2>2. EventsOK /\ BootOK /\ UnusedOK /\ ClosedOK /\ OnceOK
      BY <2>m DEF EventsOK, BootOK, UnusedOK, ClosedOK, OnceOK
    <2>3. NothingLeftOver
      BY DEF NothingLeftOver, Link!NothingLeftOver
    <2> QED
      BY <2>1, <2>2, <2>3 DEF SInv
  <1>2. SInv /\ [Next]_vars => SInv'
    <2> SUFFICES ASSUME SInv, [Next]_vars PROVE SInv'
      OBVIOUS
    <2>1. CASE laset_main \/ Abort
      BY <2>1, BootKeeps
    <2>2. CASE Wifi!Next /\ UNCHANGED <<boot, linkVars>>
      <3>1. Wifi!TypeOK' /\ EventsOK'
        BY <2>2, WifiKeeps DEF SInv, TypeOK
      <3>2. TypeOK'
        BY <2>2, <3>1 DEF SInv, TypeOK, Link!TypeOK, linkVars
      <3>3. BootOK' /\ UnusedOK' /\ ClosedOK' /\ OnceOK'
        BY <2>2 DEF SInv, linkVars, BootOK, UnusedOK, ClosedOK, OnceOK, ForMain
      <3>4. NothingLeftOver'
        BY <2>2 DEF SInv, linkVars, NothingLeftOver, Link!NothingLeftOver, Link!InFlight,
                    Link!Waiting
      <3> QED
        BY <3>1, <3>2, <3>3, <3>4 DEF SInv
    <2>3. CASE Link!Next /\ UNCHANGED <<boot, wifiVars>>
      <3>1. TypeOK'
        BY <2>3, LinkTypes DEF SInv, TypeOK, Wifi!TypeOK, wifiVars
      <3>2. EventsOK'
        BY <2>3 DEF SInv, EventsOK, wifiVars
      <3>3. StartOK'
        BY <2>3, TasksKeep, ServerKeeps DEF SInv, StartOK, Link!Next
      <3>4. NothingLeftOver'
        BY <2>3, LinkCounts DEF SInv, TypeOK
      <3> QED
        BY <3>1, <3>2, <3>3, <3>4 DEF SInv, StartOK
    <2>4. CASE UNCHANGED vars
      BY <2>4 DEF vars, wifiVars, linkVars, SInv, TypeOK, Wifi!TypeOK, Link!TypeOK, EventsOK,
                  BootOK, UnusedOK, ClosedOK, OnceOK, ForMain, NothingLeftOver,
                  Link!NothingLeftOver, Link!InFlight, Link!Waiting
    <2> QED
      BY <2>1, <2>2, <2>3, <2>4 DEF Next
  <1> QED
    BY <1>1, <1>2, PTL DEF Spec

(* Every reachable state has its type, for any number of retries           *)
(* (wifi_connect.c:16-35, main.c:75-114).                                  *)
THEOREM TypeCorrect == Spec => []TypeOK
  <1>1. SInv => TypeOK
    BY DEF SInv
  <1> QED
    BY <1>1, Invariance, PTL

(* While the connection is up there are never more requests and answers    *)
(* under way than tasks waiting for one, and as long as the server's       *)
(* thread lives and no answer is lost exactly as many, however the tasks   *)
(* share the socket (main.c:91-112, server.py:62-94).                      *)
THEOREM NoAnswerLeft == Spec => []NothingLeftOver
  <1>1. SInv => NothingLeftOver
    BY DEF SInv
  <1> QED
    BY <1>1, Invariance, PTL

(* A station that nothing will connect any more has told the main task, at *)
(* any limit of retries (wifi_connect.c:16-23).                            *)
THEOREM GivingUpIsTold == Spec => []NeverStranded
  <1>1. SInv => NeverStranded
    BY DEF SInv, EventsOK, NeverStranded, Wifi!NeverStranded
  <1> QED
    BY <1>1, Invariance, PTL

-----------------------------------------------------------------------------
(***************************************************************************)
(* The node id.  The thread answers the main task's one request, and the   *)
(* main task is out of its request only when that answer has been stored:  *)
(* there is nothing else under way then, and nothing for it ever after.    *)
(***************************************************************************)
NoneForMain ==
    /\ \A i \in DOMAIN up : up[i].task # "main"
    /\ thread = "work" => serving.task # "main"

IdKept == pni # Link!Unanswered /\ node_id = pni

RegisterOK ==
    thread # "dead" =>
        /\ boot = "rni" /\ down # <<>> => pni # Link!Unanswered
        /\ boot = "rni" /\ pc["main"] = "recv" => Link!InFlight <= 1
        /\ pc["main"] \in {"decode", "use"} => Link!InFlight = 0 /\ pni # Link!Unanswered
        /\ pc["main"] = "use" \/ boot = "running" => IdKept
        /\ boot = "running" => NoneForMain

LEMMA InFlightBounds ==
    ASSUME Link!TypeOK
    PROVE  /\ Link!InFlight \in Nat
           /\ Link!InFlight = 0 => up = <<>> /\ down = <<>> /\ thread # "work"
           /\ Link!InFlight <= 1 =>
                  /\ Len(up) <= 1 /\ Len(down) <= 1
                  /\ down # <<>> => up = <<>> /\ thread # "work"
  BY DEF Link!TypeOK, Link!InFlight

LEMMA RegisterTasks ==
    ASSUME SInv, RegisterOK, boot' = boot, NEW t \in Link!Task,
           Link!Call(t) \/ Link!tcp_send_and_update(t) \/ Link!Use(t)
    PROVE  RegisterOK'
  <1> SUFFICES ASSUME thread' # "dead"
               PROVE  RegisterOK'
    BY DEF RegisterOK
  <1>0. /\ thread' = thread /\ conn' = conn /\ pni' = pni
        /\ Link!TypeOK /\ BootOK /\ UnusedOK /\ OnceOK /\ "main" \in Link!Task
    BY DEF Link!Call, Link!tcp_send_and_update, Link!Send, Link!Error, Link!Recv, Link!ids,
           Link!RecvNothing, Link!Decode, Link!Use, SInv, TypeOK, Link!Task
  <1>1. thread # "dead" /\ conn # "closed"
    BY <1>0 DEF SInv, ClosedOK
  <1>2. pc[t] # "off"
    BY DEF Link!Call, Link!tcp_send_and_update, Link!Send, Link!Error, Link!Recv,
           Link!RecvNothing, Link!Decode, Link!Use
  <1>3. boot \in {"rni", "running"}
    BY <1>0, <1>2 DEF SInv, TypeOK, BootOK
  <1>4. t = "main" <=> boot = "rni"
    BY <1>0, <1>2, <1>3 DEF BootOK
  <1>5. CASE boot = "rni"
    <2>1. CASE Link!Call(t) \/ Link!Use(t)
      BY <1>0, <1>4, <1>5, <2>1 DEF Link!Call, Link!Use, BootOK
    <2>2. CASE Link!Send(t)
      <3>1. /\ pc["main"] = "send" /\ conn = "up" /\ pc' = [pc EXCEPT !["main"] = "recv"]
            /\ up' = Append(Link!AllAged(t, up), Link!Request(t)) /\ down' = Link!AllAged(t, down)
        BY <1>1, <1>4, <1>5, <2>2 DEF Link!Send
      <3>2. up = <<>> /\ down = <<>> /\ thread = "recv"
        BY <1>0, <3>1 DEF UnusedOK
      <3>3. Len(up') = 1 /\ Len(down') = 0 /\ down' = <<>>
        <4>1. Link!AllAged(t, up) = <<>> /\ Link!AllAged(t, down) = <<>>
          BY <3>2 DEF Link!AllAged
        <4> QED
          BY <3>1, <4>1
      <3>4. Link!InFlight' = 1
        BY <1>0, <3>2, <3>3 DEF Link!InFlight
      <3>5. pc'["main"] = "recv"
        BY <1>0, <3>1 DEF Link!TypeOK
      <3> QED
        BY <1>5, <3>3, <3>4, <3>5 DEF RegisterOK
    <2>3. CASE Link!Error(t) \/ Link!RecvNothing(t)
      <3>1. /\ up' = up /\ down' = down /\ serving' = serving /\ node_id' = node_id
            /\ pc'["main"] = "send"
        BY <1>0, <1>1, <1>4, <1>5, <2>3
        DEF Link!Error, Link!AfterError, Link!RecvNothing, Link!TypeOK, Link!ids
      <3> QED
        BY <1>0, <1>1, <1>5, <3>1 DEF RegisterOK
    <2>4. CASE Link!Recv(t)
      <3>1. /\ pc["main"] = "recv" /\ pc' = [pc EXCEPT !["main"] = "decode"] /\ up' = up
            /\ serving' = serving
        BY <1>4, <1>5, <2>4 DEF Link!Recv
      <3>2. PICK k \in 1..Len(down) : down' = SubSeq(down, k + 1, Len(down))
        BY <2>4 DEF Link!Recv
      <3>3. Len(down) \in Nat /\ down # <<>>
        BY <1>0, <3>2 DEF Link!TypeOK
      <3>4. Link!InFlight <= 1 /\ pni # Link!Unanswered
        BY <1>1, <1>5, <3>1, <3>3 DEF RegisterOK
      <3>5. Len(down) = 1 /\ up = <<>> /\ thread # "work"
        BY <1>0, <3>3, <3>4, InFlightBounds
      <3>6. Len(down') = 0
        BY <1>0, <3>2, <3>5 DEF Link!TypeOK
      <3>7. Link!InFlight' = 0
        BY <1>0, <3>1, <3>5, <3>6 DEF Link!InFlight
      <3>8. pc'["main"] = "decode"
        BY <1>0, <3>1 DEF Link!TypeOK
      <3> QED
        BY <1>0, <1>5, <3>4, <3>7, <3>8 DEF RegisterOK
    <2>5. CASE Link!Decode(t)
      <3>1. /\ pc["main"] = "decode" /\ pc' = [pc EXCEPT !["main"] = "use"] /\ up' = up
            /\ down' = down /\ serving' = serving
            /\ node_id' = IF hand["main"].task = "main" THEN pni ELSE node_id
        BY <1>4, <1>5, <2>5 DEF Link!Decode, Link!IdStored
      <3>2. hand["main"].task = "main"
        BY <1>0, <1>1, <1>5, <3>1 DEF OnceOK, ForMain
      <3>3. Link!InFlight = 0 /\ pni # Link!Unanswered
        BY <1>1, <3>1 DEF RegisterOK
      <3>4. Link!InFlight' = 0
        BY <1>0, <3>1, <3>3 DEF Link!InFlight
      <3>5. pc'["main"] = "use"
        BY <1>0, <3>1 DEF Link!TypeOK
      <3> QED
        BY <1>0, <1>5, <3>1, <3>2, <3>3, <3>4, <3>5 DEF RegisterOK, IdKept
    <2> QED
      BY <2>1, <2>2, <2>3, <2>4, <2>5 DEF Link!tcp_send_and_update
  <1>6. CASE boot = "running"
    <2>1. IdKept /\ NoneForMain /\ pc["main"] = "off" /\ t # "main"
      BY <1>0, <1>1, <1>4, <1>6 DEF RegisterOK, BootOK
    <2>2. pc'["main"] = "off"
      BY <1>0, <2>1 DEF Link!TypeOK, Link!Call, Link!tcp_send_and_update, Link!Send, Link!Error,
                Link!Recv, Link!RecvNothing, Link!Decode, Link!Use
    <2>3. IdKept'
      <3>1. node_id' = node_id \/ node_id' = pni
        BY DEF Link!Call, Link!tcp_send_and_update, Link!Send, Link!Error, Link!ids,
               Link!Recv, Link!RecvNothing, Link!Decode, Link!IdStored, Link!Use
      <3> QED
        BY <1>0, <2>1, <3>1 DEF IdKept
    <2>4. NoneForMain'
      <3>1. CASE Link!Send(t)
        <4>1. /\ up' = Append(Link!AllAged(t, up), Link!Request(t))
              /\ serving' = Link!Aged(t, serving)
          BY <3>1 DEF Link!Send
        <4>2. /\ Link!AllAged(t, up) \in Seq(Link!Message)
              /\ Len(Link!AllAged(t, up)) = Len(up) /\ Len(up) \in Nat
              /\ \A i \in 1..Len(up) : Link!AllAged(t, up)[i].task = up[i].task
          BY <1>0, AgedSequence, AgedMessage DEF Link!TypeOK
        <4>3. /\ DOMAIN up' = 1..(Len(up) + 1)
              /\ \A i \in 1..Len(up) : up'[i] = Link!AllAged(t, up)[i]
              /\ up'[Len(up) + 1] = Link!Request(t)
          BY <4>1, <4>2
        <4>4. Link!Request(t).task # "main"
          BY <2>1 DEF Link!Request
        <4>5. \A i \in 1..Len(up) : up[i].task # "main"
          BY <1>0, <2>1 DEF NoneForMain, Link!TypeOK
        <4>6. \A i \in DOMAIN up' : up'[i].task # "main"
          <5>1. \A i \in 1..(Len(up) + 1) : i \in 1..Len(up) \/ i = Len(up) + 1
            BY <4>2
          <5> QED
            BY <4>2, <4>3, <4>4, <4>5, <5>1
        <4>7. serving'.task = serving.task
          BY <1>0, <4>1, AgedMessage DEF Link!TypeOK
        <4> QED
          BY <1>0, <2>1, <4>6, <4>7 DEF NoneForMain
      <3>2. CASE ~Link!Send(t)
        <4>1. up' = up /\ serving' = serving
          BY <3>2 DEF Link!Call, Link!tcp_send_and_update, Link!Error,
                Link!Recv, Link!RecvNothing, Link!Decode, Link!Use
        <4> QED
          BY <1>0, <2>1, <4>1 DEF NoneForMain
      <3> QED
        BY <3>1, <3>2
    <2> QED
      BY <1>6, <2>2, <2>3, <2>4 DEF RegisterOK
  <1> QED
    BY <1>3, <1>5, <1>6

LEMMA RegisterServer ==
    ASSUME SInv, RegisterOK, boot' = boot,
           Link!thread_handler \/ Link!CloseDead \/ Link!Reset
    PROVE  RegisterOK'
  <1> SUFFICES ASSUME thread' # "dead"
               PROVE  RegisterOK'
    BY DEF RegisterOK
  <1>0. pc' = pc /\ Link!TypeOK /\ OnceOK /\ node_id' = node_id
    BY DEF Link!thread_handler, Link!ServerRecv, Link!ServerRecvJoined, Link!ServerAnswer,
           Link!ServerFails, Link!CloseDead, Link!Reset, Link!ids, SInv, TypeOK
  <1>1. CASE Link!ServerRecv
    <2>1. /\ up # <<>> /\ thread = "recv" /\ thread' = "work" /\ serving' = Head(up)
          /\ up' = Tail(up) /\ down' = down /\ pni' = pni
      BY <1>1 DEF Link!ServerRecv, Link!ids
    <2>2. /\ Len(up) \in Nat \ {0} /\ Head(up) = up[1] /\ Len(up') = Len(up) - 1
          /\ DOMAIN up = 1..Len(up)
          /\ DOMAIN up' = 1..(Len(up) - 1) /\ \A i \in 1..(Len(up) - 1) : up'[i] = up[i + 1]
      BY <1>0, <2>1 DEF Link!TypeOK
    <2>3. Link!InFlight' = Link!InFlight
      BY <1>0, <2>1, <2>2 DEF Link!InFlight, Link!TypeOK
    <2>4. NoneForMain => NoneForMain'
      <3>1. SUFFICES ASSUME \A i \in 1..Len(up) : up[i].task # "main"
                     PROVE  NoneForMain'
        BY <2>2 DEF NoneForMain
      <3>2. serving'.task # "main"
        BY <2>1, <2>2, <3>1
      <3>3. \A i \in DOMAIN up' : up'[i].task # "main"
        BY <2>2, <3>1
      <3> QED
        BY <3>2, <3>3 DEF NoneForMain
    <2> QED
      BY <1>0, <2>1, <2>3, <2>4 DEF RegisterOK, IdKept
  <1>2. CASE Link!ServerAnswer
    <2>1. /\ thread = "work" /\ thread' = "recv" /\ down' = Append(down, serving)
          /\ up' = up /\ serving' = serving
          /\ serving.task = "main" => pni' \in NodeIds \cup {Link!NoId}
          /\ serving.task # "main" => pni' = pni
      BY <1>2 DEF Link!ServerAnswer, Link!Sent, Link!get_node_id, linkVars
    <2>2. Len(down') = Len(down) + 1 /\ Len(down) \in Nat /\ Len(up) \in Nat
      BY <1>0, <2>1 DEF Link!TypeOK
    <2>3. Link!InFlight' = Link!InFlight
      BY <2>1, <2>2 DEF Link!InFlight
    <2>4. boot = "rni" => pni' # Link!Unanswered
      <3>1. boot = "rni" => serving.task = "main"
        BY <1>0, <2>1 DEF OnceOK, ForMain
      <3>2. \A i \in NodeIds \cup {Link!NoId} : i # Link!Unanswered
        BY NodeIdsAssumption DEF Link!NoId, Link!Unanswered
      <3> QED
        BY <2>1, <3>1, <3>2
    <2>5. Link!InFlight # 0
      BY <1>0, <2>1, InFlightBounds
    <2>6. NoneForMain => serving.task # "main" /\ NoneForMain'
      BY <2>1 DEF NoneForMain
    <2> QED
      BY <1>0, <2>1, <2>3, <2>4, <2>5, <2>6 DEF RegisterOK, IdKept
  <1>3. CASE Link!ServerRecvJoined \/ Link!ServerFails
    BY <1>3 DEF Link!ServerRecvJoined, Link!ServerFails, Link!Ended
  <1>4. CASE Link!CloseDead \/ Link!Reset
    <2>1. /\ thread' = thread /\ up' = up /\ down' = down /\ serving' = serving /\ pni' = pni
      BY <1>4 DEF Link!CloseDead, Link!Reset, Link!ids
    <2> QED
      BY <1>0, <2>1 DEF RegisterOK, IdKept, NoneForMain, Link!InFlight
  <1> QED
    BY <1>1, <1>2, <1>3, <1>4 DEF Link!thread_handler

LEMMA RegisterBoot ==
    ASSUME SInv, RegisterOK, laset_main \/ Abort
    PROVE  RegisterOK'
  <1>0. /\ thread' = thread /\ up' = up /\ down' = down /\ serving' = serving
        /\ pni' = pni /\ node_id' = node_id /\ Link!InFlight' = Link!InFlight
    BY DEF laset_main, WifiDone, ConnectSocket, StartTasks, Abort, linkVars, Link!InFlight
  <1>1. /\ Link!TypeOK /\ BootOK /\ UnusedOK /\ "main" \in Link!Task
    BY DEF SInv, TypeOK, Link!Task
  <1>2. CASE WifiDone
    BY <1>0, <1>1, <1>2 DEF WifiDone, linkVars, RegisterOK, BootOK
  <1>3. CASE ConnectSocket
    <2>1. /\ boot = "connect" /\ boot' = "rni" /\ pc'["main"] = "send" /\ down = <<>>
      BY <1>1, <1>3 DEF ConnectSocket, Link!TypeOK, BootOK, UnusedOK
    <2> QED
      BY <1>0, <2>1 DEF RegisterOK
  <1>4. CASE StartTasks
    <2>1. /\ pc["main"] = "use" /\ boot' = "running" /\ pc'["main"] = "off"
      BY <1>1, <1>4 DEF StartTasks, Link!Started
    <2>2. thread # "dead" => up = <<>> /\ thread # "work" /\ IdKept
      BY <1>1, <2>1, InFlightBounds DEF RegisterOK
    <2> QED
      BY <1>0, <2>1, <2>2 DEF RegisterOK, IdKept, NoneForMain
  <1>5. CASE Abort
    BY <1>0, <1>5 DEF Abort, RegisterOK, IdKept, NoneForMain
  <1> QED
    BY <1>2, <1>3, <1>4, <1>5 DEF laset_main

(* The tasks never run on a socket that was never connected, and while the *)
(* server's thread lives they run under the id it has answered, be it one  *)
(* of the pool or -1, whatever the WiFi and the connection did before      *)
(* (main.c:81-103, 682-721).                                               *)
THEOREM OnlyRegisteredRun == Spec => []RunsRegistered
  <1>1. Init => RegisterOK
    <2>1. Init => /\ down = <<>> /\ boot = "wifi" /\ pc["main"] = "off"
      BY DEF Init, Link!NothingSent, Link!Task
    <2> QED
      BY <2>1 DEF RegisterOK
  <1>2. SInv /\ RegisterOK /\ [Next]_vars => RegisterOK'
    <2> SUFFICES ASSUME SInv, RegisterOK, [Next]_vars PROVE RegisterOK'
      OBVIOUS
    <2>1. CASE laset_main \/ Abort
      BY <2>1, RegisterBoot
    <2>2. CASE Link!Next /\ UNCHANGED <<boot, wifiVars>>
      BY <2>2, RegisterTasks, RegisterServer DEF Link!Next
    <2>3. CASE UNCHANGED <<boot, linkVars>>
      BY <2>3 DEF linkVars, RegisterOK, IdKept, NoneForMain, Link!InFlight
    <2> QED
      BY <2>1, <2>2, <2>3 DEF Next, vars
  <1>3. SInv /\ RegisterOK => RunsRegistered
    BY DEF SInv, BootOK, RegisterOK, IdKept, RunsRegistered
  <1> QED
    BY <1>1, <1>2, <1>3, Invariance, PTL DEF Spec

-----------------------------------------------------------------------------
(***************************************************************************)
(* How old a value the tasks decide on.                                    *)
(*                                                                         *)
(* While the server's thread lives, the two tasks that share the socket    *)
(* hold each other back: what is under way stands in one line, which is no *)
(* longer than the tasks that wait.  The facts below are about the places  *)
(* p of the tasks, the line q, the answers in hand h and the ages k of the *)
(* values stored; o is always the other task of t.                         *)
(***************************************************************************)
Sharing == {"broadcaster", "validator"}
Places == {"off", "idle", "send", "recv", "decode", "use"}
Round == {"use", "idle", "send"}                       \* has not asked (again)
Held == {"recv", "decode"}                             \* has asked

(* The line: answers that have been sent, the request the server's thread  *)
(* works on and the requests it has still to receive, in the order they    *)
(* were made.                                                              *)
Working == IF thread = "work" THEN <<serving>> ELSE <<>>
Line == (down \o Working) \o up

(* Nothing of task o is in the line or in a hand.                          *)
NoneOf(o, p, q, h) ==
    /\ \A i \in 1..Len(q) : q[i].task # o
    /\ \A x \in Sharing : p[x] = "decode" => h[x].task # o

(* Whatever is under way is one of its task's last two requests, and each  *)
(* is there once.                                                          *)
LineOK(p, q, h) ==
    /\ \A i \in 1..Len(q) : q[i].task \in Sharing /\ q[i].age \in {0, 1}
    /\ \A x \in Sharing : p[x] = "decode" => h[x].task \in Sharing /\ h[x].age \in {0, 1}
    /\ \A i, j \in 1..Len(q) : q[i] = q[j] => i = j
    /\ \A i \in 1..Len(q), x \in Sharing : p[x] = "decode" => h[x] # q[i]
    /\ \A x, y \in Sharing : p[x] = "decode" /\ p[y] = "decode" /\ h[x] = h[y] => x = y

(* No more is under way than there are tasks that wait.                    *)
Counted(p, q) ==
    /\ Len(q) <= 2
    /\ Len(q) >= 1 => \E x \in Sharing : p[x] = "recv"
    /\ Len(q) = 2 => \A x \in Sharing : p[x] = "recv"

(* Task t can fall behind only while the other one waits without anything  *)
(* of its own under way: then what comes is for t, or t has to wait too.   *)
Calm(t, o, p, q, h, k) ==
    /\ k[t] <= 3
    /\ k[t] = 3 => p[t] \in Held /\ p[o] \in Held /\ NoneOf(o, p, q, h)
    /\ k[t] = 2 /\ p[t] \in Round => p[o] \in Held /\ NoneOf(o, p, q, h)
    /\ k[t] = 2 /\ p[t] = "decode" /\ h[t].task = o =>
          /\ p[o] \in Held
          /\ \A i \in 1..Len(q) : q[i].task = t
          /\ p[o] = "decode" => h[o].task = t
    /\ p[o] \in Round /\ k[t] # 0 => NoneOf(o, p, q, h)
    /\ \A i \in 1..Len(q) : q[i].task = t /\ q[i].age = 1 =>
          NoneOf(o, p, q, h) /\ k[o] = 0 /\ Len(q) = 2 /\ i = 1
    /\ \A x \in Sharing : p[x] = "decode" /\ h[x].task = t /\ h[x].age = 1 =>
          NoneOf(o, p, q, h) /\ k[o] = 0
    /\ p[o] = "decode" /\ h[o].age = 1 => p[t] # "send"

Settled(p, q, h, k) ==
    /\ LineOK(p, q, h)
    /\ \A t, o \in Sharing : t # o => Calm(t, o, p, q, h, k)

Shape(p, q, h, k) ==
    /\ p \in [Link!Task -> Places]
    /\ q \in Seq(Link!Message)
    /\ h \in [Link!Task -> Link!Message]
    /\ k \in [Link!Task -> 0..MaxAge]
    /\ \A x \in Sharing : p[x] # "off"

(* With requests told apart up to an age of 2 only, the property says no   *)
(* more than the types.                                                    *)
FreshOK ==
    thread # "dead" =>
        /\ boot # "running" => \A x \in Sharing : known[x] = 0
        /\ boot = "running" => \A x \in Sharing : pc[x] # "off"
        /\ boot = "running" /\ conn = "up" /\ MaxAge >= 3 => Settled(pc, Line, hand, known)

(* A task starts another round.                                            *)
LEMMA SettledMove ==
    ASSUME NEW p, NEW q, NEW h, NEW k, Shape(p, q, h, k), Counted(p, q), Settled(p, q, h, k),
           NEW t \in Sharing, NEW place,
           \/ p[t] = "use" /\ place = "idle"
           \/ p[t] = "idle" /\ place = "send" /\ \A x \in Sharing : p[x] # "decode"
    PROVE  Settled([p EXCEPT ![t] = place], q, h, k)
  <1> DEFINE n == [p EXCEPT ![t] = place]
  <1>1. /\ \A x \in Sharing : n[x] = IF x = t THEN place ELSE p[x]
        /\ \A x \in Sharing : n[x] = "decode" <=> p[x] = "decode"
        /\ \A x \in Sharing : n[x] \in Held <=> p[x] \in Held
        /\ \A x \in Sharing : n[x] \in Round <=> p[x] \in Round
        /\ \A x \in Sharing : p[x] = "decode" => h[x].task \in Sharing
    BY DEF Shape, Sharing, Link!Task, Places, Held, Round, Settled, LineOK
  <1> HIDE DEF n
  <1>2. LineOK(n, q, h)
    BY <1>1 DEF Settled, LineOK
  <1>3. \A o \in Sharing : NoneOf(o, n, q, h) <=> NoneOf(o, p, q, h)
    BY <1>1 DEF NoneOf
  <1>4. ASSUME NEW x \in Sharing, NEW y \in Sharing, x # y
        PROVE  Calm(x, y, n, q, h, k)
    <2>1. Calm(x, y, p, q, h, k)
      BY <1>4 DEF Settled
    <2>2. n[y] = "decode" /\ h[y].age = 1 => n[x] # "send"
      BY <1>1, <2>1 DEF Calm
    <2> QED
      BY <1>1, <1>3, <2>1, <2>2 DEF Calm
  <1> QED
    BY <1>2, <1>4 DEF Settled, n

(* A new request goes to the end of the line and ages those of its task.   *)
LEMMA SettledSend ==
    ASSUME NEW p, NEW q, NEW h, NEW k, Shape(p, q, h, k), Counted(p, q), Settled(p, q, h, k),
           MaxAge >= 3, NEW t \in Sharing, p[t] = "send"
    PROVE  Settled([p EXCEPT ![t] = "recv"], Append(Link!AllAged(t, q), Link!Request(t)),
                   [x \in Link!Task |-> Link!Aged(t, h[x])], [k EXCEPT ![t] = Link!Older(@)])
  <1> SUFFICES ASSUME NEW pn, pn = [p EXCEPT ![t] = "recv"],
                      NEW qn, qn = Append(Link!AllAged(t, q), Link!Request(t)),
                      NEW hn, hn = [x \in Link!Task |-> Link!Aged(t, h[x])],
                      NEW kn, kn = [k EXCEPT ![t] = Link!Older(@)],
                      NEW n, n = Len(q)
               PROVE  Settled(pn, qn, hn, kn)
    OBVIOUS
  <1> USE AgeAssumption
  <1>0. PICK o \in Sharing : o # t /\ \A x \in Sharing : x = t \/ x = o
    BY DEF Sharing
  <1>1. /\ pn[t] = "recv" /\ pn[o] = p[o]
        /\ kn[o] = k[o] /\ kn[t] = Link!Older(k[t])
        /\ hn[t] = Link!Aged(t, h[t]) /\ hn[o] = Link!Aged(t, h[o])
    BY <1>0 DEF Shape, Sharing, Link!Task
  <1>2. /\ n \in Nat /\ Len(qn) = n + 1
        /\ \A i \in 1..n : qn[i] = Link!Aged(t, q[i])
        /\ qn[n + 1] = Link!Request(t)
    BY AgedSequence, RequestTyped DEF Shape, Sharing, Link!Task
  <1>3. /\ Calm(t, o, p, q, h, k) /\ Calm(o, t, p, q, h, k) /\ LineOK(p, q, h)
    BY <1>0 DEF Settled
  <1>4. n <= 1 /\ (n = 1 => p[o] = "recv")
    <2>1. p[t] # "recv"
      OBVIOUS
    <2>2. n <= 2 /\ n # 2 /\ (n >= 1 => p[o] = "recv")
      BY <1>0, <2>1, Counted(p, q) DEF Counted
    <2> QED
      BY <1>2, <2>2
  <1>5. \A i \in 1..n : /\ q[i] \in Link!Message
                        /\ q[i].task = t => q[i].age = 0 /\ qn[i] = [task |-> t, age |-> 1]
                        /\ q[i].task # t => qn[i] = q[i] /\ q[i].task = o
    <2>1. \A i \in 1..n : q[i] \in Link!Message /\ q[i].age \in {0, 1} /\ q[i].task \in Sharing
      BY <1>2, <1>3 DEF LineOK, Shape
    <2>2. ASSUME NEW i \in 1..n, q[i].task = t
          PROVE  q[i].age = 0
      <3>1. q[i].age = 1 => n = 2
        BY <1>3, <2>2 DEF Calm
      <3> QED
        BY <1>4, <2>1, <3>1
    <2>3. \A m \in Link!Message : m.task = t /\ m.age = 0 => Link!Aged(t, m) = [task |-> t, age |-> 1]
      BY DEF Link!Aged, Link!Older, Link!Message
    <2>4. \A m \in Link!Message : m.task # t => Link!Aged(t, m) = m
      BY DEF Link!Aged
    <2> QED
      BY <1>0, <1>2, <2>1, <2>2, <2>3, <2>4
  <1>6. p[o] = "decode" =>
           /\ h[o] \in Link!Message
           /\ h[o].age = 0
           /\ h[o].task = t => hn[o] = [task |-> t, age |-> 1]
           /\ h[o].task # t => hn[o] = h[o] /\ h[o].task = o
    <2>1. p[o] = "decode" => h[o] \in Link!Message /\ h[o].age \in {0, 1} /\ h[o].task \in Sharing
      BY <1>0, <1>3 DEF LineOK, Shape, Sharing, Link!Task
    <2>2. p[o] = "decode" => h[o].age = 0
      BY <1>3, <2>1 DEF Calm
    <2> QED
      BY <1>0, <1>1, <2>1, <2>2 DEF Link!Aged, Link!Older, Link!Message
  <1>7. /\ Link!Request(t) = [task |-> t, age |-> 0] /\ k[t] \in 0..MaxAge /\ k[o] \in 0..MaxAge
        /\ kn[t] = IF k[t] < MaxAge THEN k[t] + 1 ELSE MaxAge
        /\ k[t] <= 2
    BY <1>1, <1>3 DEF Link!Request, Link!Older, Shape, Sharing, Link!Task, Calm, Held
  <1>a. /\ k[t] \in {0, 1, 2} /\ kn[t] = k[t] + 1
        /\ Link!Request(t) = [task |-> t, age |-> 0]
    BY <1>7
  <1>b. /\ p[t] = "send" /\ pn[t] = "recv" /\ pn[o] = p[o] /\ kn[o] = k[o]
        /\ n \in {0, 1} /\ (n = 1 => p[o] = "recv")
        /\ n = Len(q)
    <2>1. n \in {0, 1}
      BY <1>2, <1>4
    <2> QED
      BY <1>1, <1>4, <2>1
  (* What is in the line, at most one entry before the new one.            *)
  <1>c. /\ n = 0 => Len(qn) = 1 /\ qn[1] = [task |-> t, age |-> 0]
        /\ n = 1 => /\ Len(qn) = 2 /\ qn[2] = [task |-> t, age |-> 0]
                    /\ \/ q[1].task = t /\ q[1].age = 0 /\ qn[1] = [task |-> t, age |-> 1]
                       \/ q[1].task = o /\ q[1].age \in {0, 1} /\ qn[1] = q[1]
    <2>1. n = 1 => q[1].age \in {0, 1}
      BY <1>2, <1>3 DEF LineOK
    <2> QED
      BY <1>2, <1>5, <1>7, <2>1
  <1>d. p[o] = "decode" => \/ h[o].task = t /\ h[o].age = 0 /\ hn[o] = [task |-> t, age |-> 1]
                           \/ h[o].task = o /\ h[o].age = 0 /\ hn[o] = h[o]
    BY <1>6
  <1>8. LineOK(pn, qn, hn)
    <2>1. CASE n = 0
      BY <2>1, <1>0, <1>b, <1>c, <1>d DEF LineOK
    <2>2. CASE n = 1
      <3>1. Len(qn) = 2 /\ \A i \in 1..2 : i = 1 \/ i = 2
        BY <2>2, <1>c
      <3>2. p[o] = "recv" /\ qn[1] # qn[2]
        BY <2>2, <1>0, <1>b, <1>c
      <3> QED
        BY <2>2, <3>1, <3>2, <1>0, <1>b, <1>c DEF LineOK
    <2> QED
      BY <1>b, <2>1, <2>2
  <1>e. \A x \in 1..2 : x = 1 \/ x = 2
    OBVIOUS
  <1>9. NoneOf(o, pn, qn, hn) <=> NoneOf(o, p, q, h)
    <2>1. CASE n = 0
      <3>1. /\ Len(q) = 0 /\ Len(qn) = 1 /\ qn[1].task # o /\ \A i \in 1..1 : i = 1
            /\ \A i \in 1..0 : FALSE
        BY <2>1, <1>0, <1>b, <1>c
      <3>2. \A x \in Sharing : p[x] = "decode" <=> pn[x] = "decode"
        BY <1>0, <1>b
      <3>3. \A x \in Sharing : p[x] = "decode" => (h[x].task # o <=> hn[x].task # o)
        BY <1>0, <1>b, <1>d
      <3>4. NoneOf(o, p, q, h) <=> \A x \in Sharing : p[x] = "decode" => h[x].task # o
        BY <3>1 DEF NoneOf
      <3>5. NoneOf(o, pn, qn, hn) <=> \A x \in Sharing : pn[x] = "decode" => hn[x].task # o
        BY <3>1 DEF NoneOf
      <3> QED
        BY <3>2, <3>3, <3>4, <3>5
    <2>2. CASE n = 1
      <3>1. Len(q) = 1 /\ Len(qn) = 2 /\ \A x \in Sharing : p[x] # "decode" /\ pn[x] # "decode"
        BY <2>2, <1>0, <1>b, <1>c
      <3>2. qn[2].task # o /\ (qn[1].task # o <=> q[1].task # o)
        BY <2>2, <1>0, <1>c
      <3>3. NoneOf(o, p, q, h) <=> q[1].task # o
        BY <3>1 DEF NoneOf
      <3>4. NoneOf(o, pn, qn, hn) <=> qn[1].task # o
        BY <3>1, <3>2, <1>e DEF NoneOf
      <3> QED
        BY <3>2, <3>3, <3>4
    <2> QED
      BY <1>b, <2>1, <2>2
  <1>10. Calm(t, o, pn, qn, hn, kn)
    <2>1. /\ kn[t] <= 3
          /\ kn[t] = 3 => pn[t] \in Held /\ pn[o] \in Held /\ NoneOf(o, pn, qn, hn)
      BY <1>a, <1>b, <1>3, <1>9 DEF Calm, Held, Round
    <2>2. pn[t] = "recv" /\ pn[t] \notin Round
      BY <1>b DEF Round
    <2>3. pn[o] \in Round /\ kn[t] # 0 => NoneOf(o, pn, qn, hn)
      <3>1. ASSUME p[o] \in Round
            PROVE  NoneOf(o, p, q, h)
        <4>1. n = 0 /\ p[t] # "decode" /\ p[o] # "decode"
          BY <3>1, <1>b DEF Round
        <4> QED
          BY <4>1, <1>b, <1>0 DEF NoneOf
      <3> QED
        BY <3>1, <1>9, <1>b
    <2>4. \A i \in 1..Len(qn) : qn[i].task = t /\ qn[i].age = 1 =>
             NoneOf(o, pn, qn, hn) /\ kn[o] = 0 /\ Len(qn) = 2 /\ i = 1
      <3>1. CASE n = 0
        BY <3>1, <1>c
      <3>2. CASE n = 1
        <4>1. q[1].task = t => NoneOf(o, p, q, h)
          BY <3>2, <1>0, <1>b, <1>e DEF NoneOf
        <4>2. q[1].task = t => k[o] = 0
          BY <3>2, <1>b, <1>3 DEF Calm, NoneOf, Round
        <4> QED
          BY <3>2, <4>1, <4>2, <1>0, <1>9, <1>b, <1>c, <1>e
      <3> QED
        BY <1>b, <3>1, <3>2
    <2>5. \A x \in Sharing : pn[x] = "decode" /\ hn[x].task = t /\ hn[x].age = 1 =>
             NoneOf(o, pn, qn, hn) /\ kn[o] = 0
      <3>1. p[o] = "decode" /\ h[o].task = t => NoneOf(o, p, q, h)
        BY <1>0, <1>b DEF NoneOf
      <3>2. p[o] = "decode" /\ h[o].task = t => k[o] = 0
        BY <1>0, <1>b, <1>3 DEF Calm, NoneOf, Round
      <3> QED
        BY <3>1, <3>2, <1>0, <1>9, <1>b, <1>d
    <2>6. pn[t] # "send" /\ pn[t] # "decode"
      BY <1>b
    <2> QED
      BY <2>1, <2>2, <2>3, <2>4, <2>5, <2>6 DEF Calm
  <1>11. Calm(o, t, pn, qn, hn, kn)
    <2>1. /\ k[o] <= 3 /\ k[o] # 3
          /\ ~(k[o] = 2 /\ p[o] \in Round)
          /\ ~(k[o] = 2 /\ p[o] = "decode" /\ h[o].task = t)
          /\ k[o] # 0 => NoneOf(t, p, q, h)
      BY <1>3, <1>b DEF Calm, Held, Round
    <2>2. pn[t] \notin Round /\ pn[t] # "decode"
      BY <1>b DEF Round
    <2>3. \A i \in 1..Len(qn) : ~(qn[i].task = o /\ qn[i].age = 1)
      <3>1. n = 1 => ~(q[1].task = o /\ q[1].age = 1)
        BY <1>3, <1>b DEF Calm
      <3> QED
        BY <3>1, <1>0, <1>b, <1>c, <1>e
    <2>4. \A x \in Sharing : ~(pn[x] = "decode" /\ hn[x].task = o /\ hn[x].age = 1)
      BY <1>0, <1>b, <1>d
    <2>5. ~(kn[o] = 2 /\ pn[o] = "decode" /\ hn[o].task = t)
      BY <1>0, <2>1, <1>b, <1>d
    <2> QED
      BY <2>1, <2>2, <2>3, <2>4, <2>5, <1>b DEF Calm
  <1> QED
    BY <1>0, <1>8, <1>10, <1>11 DEF Settled

(* A message is known by its task and its age.                             *)
LEMMA Twins ==
    \A m, r \in Link!Message : m.task = r.task /\ m.age = r.age => m = r
  BY AgeAssumption DEF Link!Message

(* An answer is stored for the task that asked.                            *)
LEMMA SettledDecode ==
    ASSUME NEW p, NEW q, NEW h, NEW k, Shape(p, q, h, k), Settled(p, q, h, k),
           NEW t \in Sharing, p[t] = "decode"
    PROVE  Settled([p EXCEPT ![t] = "use"], q, h, [k EXCEPT ![h[t].task] = h[t].age])
  <1> SUFFICES ASSUME NEW pn, pn = [p EXCEPT ![t] = "use"],
                      NEW kn, kn = [k EXCEPT ![h[t].task] = h[t].age]
               PROVE  Settled(pn, q, h, kn)
    OBVIOUS
  <1> USE AgeAssumption
  <1>0. PICK o \in Sharing : o # t /\ \A x \in Sharing : x = t \/ x = o
    BY DEF Sharing
  <1>1. /\ pn[t] = "use" /\ pn[o] = p[o] /\ p[t] = "decode"
        /\ h[t].task \in {t, o} /\ h[t].age \in {0, 1}
        /\ h[t].task = t => kn[t] = h[t].age /\ kn[o] = k[o]
        /\ h[t].task = o => kn[o] = h[t].age /\ kn[t] = k[t]
        /\ \A x \in Sharing : pn[x] = "decode" => p[x] = "decode"
    BY <1>0 DEF Shape, Sharing, Link!Task, Settled, LineOK
  <1>2. /\ Calm(t, o, p, q, h, k) /\ Calm(o, t, p, q, h, k) /\ LineOK(p, q, h)
    BY <1>0 DEF Settled
  <1>3. LineOK(pn, q, h)
    BY <1>1, <1>2 DEF LineOK
  <1>4. \A x \in Sharing : NoneOf(x, p, q, h) => NoneOf(x, pn, q, h)
    BY <1>1 DEF NoneOf
  <1>5. ~NoneOf(h[t].task, p, q, h)
    BY <1>1 DEF NoneOf
  <1>6. Calm(t, o, pn, q, h, kn)
    <2>1. CASE h[t].task = t
      <3>1. kn[t] \in {0, 1} /\ kn[o] = k[o] /\ kn[t] = h[t].age
        BY <2>1, <1>1
      <3>2. kn[t] # 0 => NoneOf(o, p, q, h)
        BY <2>1, <1>1, <1>2, <3>1 DEF Calm
      <3>3. \A i \in 1..Len(q) : q[i].task = t /\ q[i].age = 1 =>
               NoneOf(o, pn, q, h) /\ kn[o] = 0 /\ Len(q) = 2 /\ i = 1
        BY <3>1, <1>0, <1>2, <1>4 DEF Calm
      <3>4. \A x \in Sharing : pn[x] = "decode" /\ h[x].task = t /\ h[x].age = 1 =>
               NoneOf(o, pn, q, h) /\ kn[o] = 0
        BY <3>1, <1>0, <1>1, <1>2, <1>4 DEF Calm
      <3>5. pn[t] # "decode" /\ pn[t] # "send"
        BY <1>1
      <3>6. kn[t] # 0 => NoneOf(o, pn, q, h)
        BY <3>2, <1>0, <1>4
      <3>7. kn[t] <= 3 /\ kn[t] # 3 /\ kn[t] # 2
        BY <3>1
      <3> QED
        BY <3>3, <3>4, <3>5, <3>6, <3>7, <1>0, <1>1 DEF Calm
    <2>2. CASE h[t].task = o
      <3>1. kn[t] = k[t] /\ ~NoneOf(o, p, q, h)
        BY <2>2, <1>1, <1>5
      <3>2. k[t] <= 3 /\ k[t] # 3 /\ ~(p[o] \in Round /\ k[t] # 0)
        BY <3>1, <1>2 DEF Calm
      <3>3. k[t] = 2 => p[o] \in Held /\ NoneOf(o, pn, q, h)
        BY <2>2, <1>0, <1>1, <1>2 DEF Calm, NoneOf
      <3>4. /\ \A i \in 1..Len(q) : ~(q[i].task = t /\ q[i].age = 1)
            /\ \A x \in Sharing : ~(p[x] = "decode" /\ h[x].task = t /\ h[x].age = 1)
        BY <3>1, <1>2 DEF Calm
      <3> QED
        BY <3>1, <3>2, <3>3, <3>4, <1>1 DEF Calm
    <2> QED
      BY <1>1, <2>1, <2>2
  <1>7. Calm(o, t, pn, q, h, kn)
    <2>1. CASE h[t].task = t
      <3>1. kn[o] = k[o] /\ ~NoneOf(t, p, q, h)
        BY <2>1, <1>1, <1>5
      <3>2. /\ k[o] <= 3 /\ k[o] # 3
            /\ ~(k[o] = 2 /\ p[o] \in Round)
            /\ ~(k[o] = 2 /\ p[o] = "decode" /\ h[o].task = t)
        BY <2>1, <3>1, <1>0, <1>1, <1>2 DEF Calm
      <3>3. /\ \A i \in 1..Len(q) : ~(q[i].task = o /\ q[i].age = 1)
            /\ \A x \in Sharing : ~(p[x] = "decode" /\ h[x].task = o /\ h[x].age = 1)
        BY <3>1, <1>2 DEF Calm
      <3>4. ASSUME k[o] # 0
            PROVE  NoneOf(t, pn, q, h)
        <4>1. /\ \A i \in 1..Len(q) : ~(q[i].task = t /\ q[i].age = 1)
              /\ \A x \in Sharing : ~(p[x] = "decode" /\ h[x].task = t /\ h[x].age = 1)
          BY <3>4, <1>2 DEF Calm
        <4>2. h[t] \in Link!Message /\ h[t].task = t /\ h[t].age = 0
          BY <2>1, <4>1, <1>1 DEF Shape, Sharing, Link!Task
        <4>3. \A i \in 1..Len(q) : q[i].task # t
          <5> SUFFICES ASSUME NEW i \in 1..Len(q), q[i].task = t PROVE FALSE
            OBVIOUS
          <5>1. q[i] \in Link!Message /\ q[i].age = 0 /\ h[t] # q[i]
            BY <4>1, <1>1, <1>2 DEF LineOK, Shape
          <5> QED
            BY <4>2, <5>1, Twins
        <4>4. p[o] = "decode" => h[o].task # t
          <5> SUFFICES ASSUME p[o] = "decode", h[o].task = t PROVE FALSE
            OBVIOUS
          <5>1. h[o] \in Link!Message /\ h[o].age = 0 /\ h[t] # h[o]
            BY <1>0, <4>1, <1>1, <1>2 DEF LineOK, Shape, Sharing, Link!Task
          <5> QED
            BY <4>2, <5>1, Twins
        <4> QED
          BY <1>0, <1>1, <4>3, <4>4 DEF NoneOf
      <3> QED
        BY <3>1, <3>2, <3>3, <3>4, <1>1 DEF Calm
    <2>2. CASE h[t].task = o
      <3>1. kn[o] \in {0, 1} /\ kn[t] = k[t] /\ kn[o] = h[t].age
        BY <2>2, <1>1
      <3>2. kn[o] # 0 => NoneOf(t, p, q, h)
        BY <2>2, <1>1, <1>2, <3>1 DEF Calm
      <3>3. \A i \in 1..Len(q) : q[i].task = o /\ q[i].age = 1 =>
               NoneOf(t, pn, q, h) /\ kn[t] = 0 /\ Len(q) = 2 /\ i = 1
        BY <3>1, <1>0, <1>2, <1>4 DEF Calm
      <3>4. \A x \in Sharing : pn[x] = "decode" /\ h[x].task = o /\ h[x].age = 1 =>
               NoneOf(t, pn, q, h) /\ kn[t] = 0
        BY <3>1, <1>0, <1>1, <1>2, <1>4 DEF Calm
      <3>5. pn[t] # "decode" /\ pn[t] # "send"
        BY <1>1
      <3>6. kn[o] # 0 => NoneOf(t, pn, q, h)
        BY <3>2, <1>0, <1>4
      <3>7. kn[o] <= 3 /\ kn[o] # 3 /\ kn[o] # 2
        BY <3>1
      <3> QED
        BY <3>3, <3>4, <3>5, <3>6, <3>7, <1>0, <1>1 DEF Calm
    <2> QED
      BY <1>1, <2>1, <2>2
  <1> QED
    BY <1>0, <1>3, <1>6, <1>7 DEF Settled

(* The first answer is received, the others of the same recv are lost.     *)
LEMMA SettledRecv ==
    ASSUME NEW p, NEW q, NEW h, NEW k, Shape(p, q, h, k), Counted(p, q), Settled(p, q, h, k),
           NEW t \in Sharing, p[t] = "recv", NEW j \in 1..Len(q)
    PROVE  Settled([p EXCEPT ![t] = "decode"], SubSeq(q, j + 1, Len(q)),
                   [h EXCEPT ![t] = q[1]], k)
  <1> SUFFICES ASSUME NEW pn, pn = [p EXCEPT ![t] = "decode"],
                      NEW qn, qn = SubSeq(q, j + 1, Len(q)),
                      NEW hn, hn = [h EXCEPT ![t] = q[1]],
                      NEW n, n = Len(q)
               PROVE  Settled(pn, qn, hn, k)
    OBVIOUS
  <1> USE AgeAssumption
  <1>0. PICK o \in Sharing : o # t /\ \A x \in Sharing : x = t \/ x = o
    BY DEF Sharing
  <1>1. /\ pn[t] = "decode" /\ pn[o] = p[o] /\ p[t] = "recv"
        /\ hn[t] = q[1] /\ hn[o] = h[o]
        /\ p[o] # "off" /\ p[o] \in Places
    BY <1>0 DEF Shape, Sharing, Link!Task
  <1>2. /\ Calm(t, o, p, q, h, k) /\ Calm(o, t, p, q, h, k) /\ LineOK(p, q, h)
    BY <1>0 DEF Settled
  <1>3. n \in {1, 2} /\ n = Len(q) /\ (n = 2 => p[o] = "recv") /\ q \in Seq(Link!Message) /\ j \in 1..n
    <2>1. n \in Nat /\ q \in Seq(Link!Message) /\ j \in 1..n
      BY DEF Shape
    <2> QED
      BY <1>0, <2>1 DEF Counted
  <1>4. \/ Len(qn) = 0
        \/ Len(qn) = 1 /\ n = 2 /\ qn[1] = q[2]
    <2>1. Len(qn) = n - j /\ \A i \in 1..(n - j) : qn[i] = q[i + j]
      BY <1>3
    <2>2. CASE n = 2 /\ j = 1
      <3>1. Len(qn) = 1
        BY <2>1, <2>2
      <3>2. 1 \in 1..(n - j) /\ 1 + j = 2
        BY <2>2
      <3> QED
        BY <2>1, <2>2, <3>1, <3>2
    <2>3. CASE j = n
      BY <1>3, <2>1, <2>3
    <2>4. (n = 2 /\ j = 1) \/ j = n
      BY <1>3
    <2> QED
      BY <2>2, <2>3, <2>4
  <1>5. /\ q[1] \in Link!Message /\ q[1].task \in {t, o} /\ q[1].age \in {0, 1}
        /\ n = 2 => q[2] \in Link!Message /\ q[2].task \in {t, o} /\ q[2].age \in {0, 1} /\ q[1] # q[2]
        /\ p[o] = "decode" => /\ h[o] \in Link!Message /\ h[o].task \in {t, o} /\ h[o].age \in {0, 1}
                               /\ h[o] # q[1] /\ n = 1
    <2>1. q[1] \in Link!Message /\ (n = 2 => q[2] \in Link!Message)
      BY <1>3
    <2>2. 1 \in 1..n /\ (n = 2 => 2 \in 1..n)
      BY <1>3
    <2>3. p[o] = "decode" => h[o] \in Link!Message
      BY <1>0 DEF Shape, Sharing, Link!Task
    <2> QED
      BY <1>0, <1>2, <1>3, <2>1, <2>2, <2>3 DEF LineOK
  <1>e. (\A i \in 1..1 : i = 1) /\ (\A i \in 1..0 : FALSE)
    OBVIOUS
  <1>6. \A i \in 1..Len(qn) : i = 1 /\ Len(qn) = 1 /\ n = 2 /\ p[o] = "recv" /\ qn[i] = q[2]
    BY <1>e, <1>3, <1>4
  <1>7. LineOK(pn, qn, hn)
    <2>1. \A i \in 1..Len(qn) : qn[i].task \in Sharing /\ qn[i].age \in {0, 1}
      BY <1>0, <1>5, <1>6
    <2>2. \A x \in Sharing : pn[x] = "decode" => hn[x].task \in Sharing /\ hn[x].age \in {0, 1}
      BY <1>0, <1>1, <1>5
    <2>3. \A i, l \in 1..Len(qn) : qn[i] = qn[l] => i = l
      BY <1>6
    <2>4. \A i \in 1..Len(qn), x \in Sharing : pn[x] = "decode" => hn[x] # qn[i]
      BY <1>0, <1>1, <1>5, <1>6
    <2>5. \A x, y \in Sharing : pn[x] = "decode" /\ pn[y] = "decode" /\ hn[x] = hn[y] => x = y
      BY <1>0, <1>1, <1>5
    <2> QED
      BY <2>1, <2>2, <2>3, <2>4, <2>5 DEF LineOK
  <1>8. 1 \in 1..Len(q) /\ (n = 2 => 2 \in 1..Len(q))
    BY <1>3
  <1>9. ASSUME NEW x \in Sharing, NoneOf(x, p, q, h)
        PROVE  NoneOf(x, pn, qn, hn)
    <2>1. \A i \in 1..Len(qn) : qn[i].task # x
      BY <1>6, <1>8, <1>9 DEF NoneOf
    <2>2. hn[t].task # x
      BY <1>1, <1>8, <1>9 DEF NoneOf
    <2>3. pn[o] = "decode" => hn[o].task # x
      BY <1>0, <1>1, <1>9 DEF NoneOf
    <2> QED
      BY <1>0, <2>1, <2>2, <2>3 DEF NoneOf
  (* A second entry of a task is of age 0 or 1 where the first is not.     *)
  <1>a. ASSUME NEW x \in Sharing, NEW y \in Sharing, x # y, k[y] # 0, q[1].task = x
        PROVE  /\ \A i \in 1..Len(qn) : qn[i].task # x
               /\ p[o] = "decode" => h[o].task # x
    <2>1. Calm(x, y, p, q, h, k)
      BY <1>a DEF Settled
    <2>2. q[1].age = 0
      BY <1>8, <1>5, <1>a, <2>1 DEF Calm
    <2>3. ASSUME NEW i \in 1..Len(qn), qn[i].task = x
          PROVE  FALSE
      <3>1. n = 2 /\ q[2].task = x /\ q[2].age \in {0, 1} /\ q[1] # q[2] /\ q[2] \in Link!Message
        BY <2>3, <1>5, <1>6
      <3>2. q[2].age = 0
        BY <3>1, <1>8, <1>a, <2>1 DEF Calm
      <3> QED
        BY <3>1, <3>2, <2>2, <1>a, <1>5, Twins
    <2>4. ASSUME p[o] = "decode", h[o].task = x
          PROVE  FALSE
      <3>1. h[o].age = 0
        BY <2>4, <1>0, <1>5, <1>a, <2>1 DEF Calm
      <3> QED
        BY <3>1, <2>4, <2>2, <1>a, <1>5, Twins
    <2> QED
      BY <2>3, <2>4
  (* The one entry that may be of age 1 is the one received.               *)
  <1>b. \A i \in 1..Len(qn) : qn[i].age = 0
    <2> SUFFICES ASSUME NEW i \in 1..Len(qn), qn[i].age = 1 PROVE FALSE
      BY <1>5, <1>6
    <2>1. n = 2 /\ q[2].age = 1 /\ q[2].task \in {t, o}
      BY <1>5, <1>6
    <2> QED
      BY <2>1, <1>2, <1>8 DEF Calm
  <1>f. \A x \in Sharing : \A i \in 1..Len(qn) : ~(qn[i].task = x /\ qn[i].age = 1)
    BY <1>b
  <1>g. pn[t] = "decode"
    BY <1>1
  <1>c. Calm(t, o, pn, qn, hn, k)
    <2>1. /\ k[t] <= 3
          /\ k[t] = 3 => pn[t] \in Held /\ pn[o] \in Held /\ NoneOf(o, pn, qn, hn)
          /\ pn[t] \notin Round
          /\ pn[o] \in Round /\ k[t] # 0 => NoneOf(o, pn, qn, hn)
          /\ pn[t] # "send"
      BY <1>1, <1>2, <1>9 DEF Calm, Held, Round
    <2>2. ASSUME k[t] = 2, hn[t].task = o
          PROVE  /\ pn[o] \in Held
                 /\ \A i \in 1..Len(qn) : qn[i].task = t
                 /\ pn[o] = "decode" => hn[o].task = t
      <3>1. q[1].task = o /\ k[t] # 0
        BY <2>2, <1>1
      <3>2. ~NoneOf(o, p, q, h)
        BY <3>1, <1>8 DEF NoneOf
      <3>3. p[o] \in Held
        BY <3>1, <3>2, <1>1, <1>2 DEF Calm, Places, Round, Held
      <3>4. /\ \A i \in 1..Len(qn) : qn[i].task # o
            /\ p[o] = "decode" => h[o].task # o
        BY <3>1, <1>0, <1>a
      <3>5. \A i \in 1..Len(qn) : qn[i].task \in {t, o}
        BY <1>5, <1>6
      <3> QED
        BY <3>3, <3>4, <3>5, <1>1, <1>5
    <2>3. \A x \in Sharing : pn[x] = "decode" /\ hn[x].task = t /\ hn[x].age = 1 =>
             NoneOf(o, pn, qn, hn) /\ k[o] = 0
      <3>1. q[1].task = t /\ q[1].age = 1 => NoneOf(o, p, q, h) /\ k[o] = 0
        BY <1>2, <1>8 DEF Calm
      <3>2. p[o] = "decode" /\ h[o].task = t /\ h[o].age = 1 => NoneOf(o, p, q, h) /\ k[o] = 0
        BY <1>0, <1>2 DEF Calm
      <3> QED
        BY <1>0, <1>1, <1>9, <3>1, <3>2
    <2> QED
      BY <2>1, <2>2, <2>3, <1>0, <1>f DEF Calm
  <1>d. Calm(o, t, pn, qn, hn, k)
    <2>1. /\ k[o] <= 3
          /\ k[o] = 3 => pn[o] \in Held /\ pn[t] \in Held /\ NoneOf(t, pn, qn, hn)
          /\ k[o] = 2 /\ pn[o] \in Round => pn[t] \in Held /\ NoneOf(t, pn, qn, hn)
          /\ pn[t] \notin Round
      BY <1>1, <1>2, <1>9 DEF Calm, Held, Round
    <2>2. ASSUME k[o] = 2, pn[o] = "decode", hn[o].task = t
          PROVE  /\ pn[t] \in Held
                 /\ \A i \in 1..Len(qn) : qn[i].task = o
                 /\ hn[t].task = o
      BY <2>2, <1>1, <1>2, <1>6, <1>8 DEF Calm, Held
    <2>3. \A x \in Sharing : pn[x] = "decode" /\ hn[x].task = o /\ hn[x].age = 1 =>
             NoneOf(t, pn, qn, hn) /\ k[t] = 0
      <3>1. q[1].task = o /\ q[1].age = 1 => NoneOf(t, p, q, h) /\ k[t] = 0
        BY <1>2, <1>8 DEF Calm
      <3>2. p[o] = "decode" /\ h[o].task = o /\ h[o].age = 1 => NoneOf(t, p, q, h) /\ k[t] = 0
        BY <1>0, <1>2 DEF Calm
      <3> QED
        BY <1>0, <1>1, <1>9, <3>1, <3>2
    <2>4. hn[t].age = 1 => pn[o] # "send"
      <3>1. q[1].age = 1 => n = 2
        BY <1>2, <1>3, <1>5, <1>8 DEF Calm
      <3> QED
        BY <3>1, <1>1, <1>3
    <2> QED
      BY <2>1, <2>2, <2>3, <2>4, <1>0, <1>f DEF Calm
  <1> QED
    BY <1>0, <1>7, <1>c, <1>d DEF Settled

-----------------------------------------------------------------------------
(* What is taken off the front of the answers is taken off the line.       *)
LEMMA FrontTaken ==
    ASSUME NEW S, NEW a \in Seq(S), NEW b \in Seq(S), NEW j \in 1..Len(a)
    PROVE  SubSeq(a, j + 1, Len(a)) \o b = SubSeq(a \o b, j + 1, Len(a \o b))
  <1>1. /\ Len(a) \in Nat /\ Len(b) \in Nat /\ j \in Nat /\ 1 <= j /\ j <= Len(a)
        /\ a \o b \in Seq(S) /\ Len(a \o b) = Len(a) + Len(b)
    OBVIOUS
  <1>2. /\ SubSeq(a, j + 1, Len(a)) \in Seq(S)
        /\ Len(SubSeq(a, j + 1, Len(a))) = Len(a) - j
        /\ \A i \in 1..(Len(a) - j) : SubSeq(a, j + 1, Len(a))[i] = a[i + j]
    BY <1>1
  <1>3. /\ SubSeq(a \o b, j + 1, Len(a \o b)) \in Seq(S)
        /\ Len(SubSeq(a \o b, j + 1, Len(a \o b))) = Len(a) + Len(b) - j
        /\ \A i \in 1..(Len(a) + Len(b) - j) :
              SubSeq(a \o b, j + 1, Len(a \o b))[i] = (a \o b)[i + j]
    BY <1>1
  <1> SUFFICES ASSUME NEW s \in Seq(S), s = SubSeq(a, j + 1, Len(a)),
                      NEW r \in Seq(S), r = SubSeq(a \o b, j + 1, Len(a \o b))
               PROVE  s \o b = r
    BY <1>2, <1>3
  <1>4. s \o b \in Seq(S) /\ Len(s \o b) = Len(r)
    BY <1>1, <1>2, <1>3
  <1>5. ASSUME NEW i \in 1..Len(s \o b)
        PROVE  (s \o b)[i] = r[i]
    <2>1. r[i] = IF i + j <= Len(a) THEN a[i + j] ELSE b[i + j - Len(a)]
      BY <1>1, <1>3, <1>4
    <2>2. (s \o b)[i] = IF i <= Len(a) - j THEN a[i + j] ELSE b[i - (Len(a) - j)]
      BY <1>1, <1>2, <1>4
    <2> QED
      BY <1>1, <2>1, <2>2
  <1> QED
    BY <1>4, <1>5, SeqEqual

LEMMA AgedConcat ==
    ASSUME NEW t \in Link!Task, NEW a \in Seq(Link!Message), NEW b \in Seq(Link!Message)
    PROVE  Link!AllAged(t, a \o b) = Link!AllAged(t, a) \o Link!AllAged(t, b)
  <1>1. Len(a) \in Nat /\ Len(b) \in Nat /\ a \o b \in Seq(Link!Message)
        /\ Len(a \o b) = Len(a) + Len(b)
    OBVIOUS
  <1> SUFFICES ASSUME NEW x \in Seq(Link!Message), x = Link!AllAged(t, a),
                      NEW y \in Seq(Link!Message), y = Link!AllAged(t, b),
                      NEW z \in Seq(Link!Message), z = Link!AllAged(t, a \o b)
               PROVE  z = x \o y
    BY <1>1, AgedSequence
  <1>2. /\ Len(x) = Len(a) /\ \A i \in 1..Len(a) : x[i] = Link!Aged(t, a[i])
        /\ Len(y) = Len(b) /\ \A i \in 1..Len(b) : y[i] = Link!Aged(t, b[i])
        /\ Len(z) = Len(a) + Len(b)
        /\ \A i \in 1..(Len(a) + Len(b)) : z[i] = Link!Aged(t, (a \o b)[i])
    <2>1. Len(x) = Len(a) /\ \A i \in 1..Len(a) : x[i] = Link!Aged(t, a[i])
      BY AgedSequence
    <2>2. Len(y) = Len(b) /\ \A i \in 1..Len(b) : y[i] = Link!Aged(t, b[i])
      BY AgedSequence
    <2>3. /\ Len(z) = Len(a \o b)
          /\ \A i \in 1..Len(a \o b) : z[i] = Link!Aged(t, (a \o b)[i])
      BY <1>1, AgedSequence
    <2> QED
      BY <1>1, <2>1, <2>2, <2>3
  <1>3. x \o y \in Seq(Link!Message) /\ Len(x \o y) = Len(z)
    <2>1. x \o y \in Seq(Link!Message) /\ Len(x \o y) = Len(x) + Len(y)
      OBVIOUS
    <2> QED
      BY <1>2, <2>1
  <1>4. ASSUME NEW i \in 1..Len(z)
        PROVE  z[i] = (x \o y)[i]
    <2>1. CASE i <= Len(a)
      BY <1>1, <1>2, <2>1
    <2>2. CASE i > Len(a)
      <3>1. i - Len(a) \in 1..Len(b) /\ (a \o b)[i] = b[i - Len(a)] /\ (x \o y)[i] = y[i - Len(a)]
        BY <1>1, <1>2, <2>2
      <3> QED
        BY <1>2, <3>1
    <2> QED
      BY <1>1, <1>2, <2>1, <2>2
  <1> QED
    BY <1>3, <1>4, SeqEqual

LEMMA LineTyped ==
    ASSUME Link!TypeOK
    PROVE  /\ Working \in Seq(Link!Message)
           /\ Line \in Seq(Link!Message)
           /\ Len(Line) = Link!InFlight
           /\ Len(down) \in Nat
  <1>1. /\ up \in Seq(Link!Message) /\ down \in Seq(Link!Message) /\ serving \in Link!Message
        /\ Len(down) \in Nat /\ Len(up) \in Nat
    BY DEF Link!TypeOK
  <1>2. Working \in Seq(Link!Message) /\ Len(Working) = IF thread = "work" THEN 1 ELSE 0
    BY <1>1 DEF Working
  <1>3. /\ down \o Working \in Seq(Link!Message)
        /\ Len(down \o Working) = Len(down) + Len(Working)
    BY <1>1, <1>2, ConcatProperties
  <1>4. Line \in Seq(Link!Message) /\ Len(Line) = Len(down \o Working) + Len(up)
    BY <1>1, <1>3, ConcatProperties DEF Line
  <1>5. ASSUME NEW w, w = Len(Working)
        PROVE  (Len(down) + w) + Len(up) = (Len(up) + Len(down)) + (IF thread = "work" THEN 1 ELSE 0)
    BY <1>1, <1>2, <1>5
  <1>6. Len(Line) = (Len(up) + Len(down)) + (IF thread = "work" THEN 1 ELSE 0)
    BY <1>3, <1>4, <1>5
  <1> QED
    BY <1>1, <1>2, <1>4, <1>6 DEF Link!InFlight

LEMMA SendLine ==
    ASSUME Link!TypeOK, NEW t \in Link!Task, Link!Send(t)
    PROVE  Line' = Append(Link!AllAged(t, Line), Link!Request(t))
  <1>1. /\ up \in Seq(Link!Message) /\ down \in Seq(Link!Message) /\ serving \in Link!Message
        /\ Working \in Seq(Link!Message)
    BY LineTyped DEF Link!TypeOK
  <1>2. /\ up' = Append(Link!AllAged(t, up), Link!Request(t))
        /\ down' = Link!AllAged(t, down)
        /\ serving' = Link!Aged(t, serving) /\ thread' = thread
    BY DEF Link!Send
  <1>3. Working' = Link!AllAged(t, Working)
    <2>1. CASE thread = "work"
      <3>1. Working = <<serving>> /\ Working' = <<Link!Aged(t, serving)>>
        BY <1>2, <2>1 DEF Working
      <3>2. DOMAIN <<serving>> = {1}
        OBVIOUS
      <3>3. Link!AllAged(t, <<serving>>) = [i \in {1} |-> Link!Aged(t, serving)]
        BY <3>2 DEF Link!AllAged
      <3>4. <<Link!Aged(t, serving)>> = [i \in {1} |-> Link!Aged(t, serving)]
        OBVIOUS
      <3> QED
        BY <3>1, <3>3, <3>4
    <2>2. CASE thread # "work"
      <3>1. Working = <<>> /\ Working' = <<>>
        BY <1>2, <2>2 DEF Working
      <3>2. <<>> \in Seq(Link!Message)
        OBVIOUS
      <3>3. Link!AllAged(t, <<>>) \in Seq(Link!Message) /\ Len(Link!AllAged(t, <<>>)) = 0
        BY <3>2, AgedSequence
      <3> QED
        BY <3>1, <3>3
    <2> QED
      BY <2>1, <2>2
  <1>4. down \o Working \in Seq(Link!Message)
    BY <1>1
  <1>5. Link!AllAged(t, Line) = (Link!AllAged(t, down) \o Link!AllAged(t, Working)) \o Link!AllAged(t, up)
    <2>1. Link!AllAged(t, down \o Working) = Link!AllAged(t, down) \o Link!AllAged(t, Working)
      BY <1>1, AgedConcat
    <2>2. Link!AllAged(t, (down \o Working) \o up) = Link!AllAged(t, down \o Working) \o Link!AllAged(t, up)
      BY <1>1, <1>4, AgedConcat
    <2> QED
      BY <2>1, <2>2 DEF Line
  <1> SUFFICES ASSUME NEW a \in Seq(Link!Message), a = Link!AllAged(t, down),
                      NEW b \in Seq(Link!Message), b = Link!AllAged(t, Working),
                      NEW c \in Seq(Link!Message), c = Link!AllAged(t, up),
                      NEW r \in Link!Message, r = Link!Request(t)
               PROVE  (a \o b) \o Append(c, r) = Append((a \o b) \o c, r)
    BY <1>1, <1>2, <1>3, <1>5, AgedSequence, RequestTyped DEF Line
  <1> QED
    OBVIOUS

LEMMA ServerLine ==
    ASSUME Link!TypeOK, Link!ServerRecv \/ Link!ServerAnswer
    PROVE  Line' = Line
  <1>1. up \in Seq(Link!Message) /\ down \in Seq(Link!Message) /\ serving \in Link!Message
    BY DEF Link!TypeOK
  <1>2. CASE Link!ServerRecv
    <2>1. Working = <<>> /\ Working' = <<Head(up)>> /\ up # <<>> /\ up' = Tail(up) /\ down' = down
      BY <1>2 DEF Link!ServerRecv, Working
    <2>2. (down \o <<>>) \o up = (down \o <<Head(up)>>) \o Tail(up)
      BY <1>1, <2>1
    <2> QED
      BY <2>1, <2>2 DEF Line
  <1>3. CASE Link!ServerAnswer
    <2>1. Working = <<serving>> /\ Working' = <<>> /\ up' = up /\ down' = Append(down, serving)
      BY <1>3 DEF Link!ServerAnswer, Link!Sent, Working
    <2>2. (down \o <<serving>>) \o up = (Append(down, serving) \o <<>>) \o up
      BY <1>1
    <2> QED
      BY <2>1, <2>2 DEF Line
  <1> QED
    BY <1>2, <1>3

LEMMA RecvLine ==
    ASSUME Link!TypeOK, NEW t \in Link!Task, Link!Recv(t)
    PROVE  \E j \in 1..Len(Line) : /\ Line' = SubSeq(Line, j + 1, Len(Line))
                                   /\ hand' = [hand EXCEPT ![t] = Line[1]]
  <1>1. /\ up \in Seq(Link!Message) /\ down \in Seq(Link!Message) /\ Working \in Seq(Link!Message)
        /\ Len(down) \in Nat
    BY LineTyped DEF Link!TypeOK
  <1>2. PICK j \in 1..Len(down) : down' = SubSeq(down, j + 1, Len(down))
    BY DEF Link!Recv
  <1>3. up' = up /\ Working' = Working /\ hand' = [hand EXCEPT ![t] = Head(down)]
    BY DEF Link!Recv, Working
  <1>4. Working \o up \in Seq(Link!Message) /\ Line = down \o (Working \o up)
    BY <1>1 DEF Line
  <1>5. Line' = down' \o (Working \o up)
    <2>1. down' \in Seq(Link!Message)
      BY <1>1, <1>2
    <2>2. (down' \o Working) \o up = down' \o (Working \o up)
      BY <1>1, <2>1
    <2> QED
      BY <1>3, <2>2 DEF Line
  <1>6. Line' = SubSeq(Line, j + 1, Len(Line))
    BY <1>1, <1>2, <1>4, <1>5, FrontTaken
  <1>7. Head(down) = Line[1] /\ j \in 1..Len(Line)
    <2>1. \A s \in Seq(Link!Message) : Len(down \o s) = Len(down) + Len(s) /\ (down \o s)[1] = down[1]
      BY <1>1, <1>2
    <2>2. Head(down) = down[1]
      BY <1>1, <1>2
    <2> QED
      BY <1>1, <1>2, <1>4, <2>1, <2>2
  <1> QED
    BY <1>3, <1>6, <1>7

(* Once the tasks run, only they wait.                                     *)
LEMMA CountedLine ==
    ASSUME SInv, boot = "running", conn = "up"
    PROVE  Counted(pc, Line)
  <1>1. Len(Line) = Link!InFlight /\ Len(Line) \in Nat
    BY LineTyped DEF SInv, TypeOK
  <1>2. Len(Line) <= Cardinality(Link!Waiting)
    BY <1>1, SameCardinality DEF SInv, NothingLeftOver, Link!NothingLeftOver
  <1>3. Link!Waiting \subseteq Sharing /\ \A x \in Sharing : pc[x] = "recv" <=> x \in Link!Waiting
    BY DEF SInv, BootOK, Link!Waiting, Link!Task, Sharing
  <1>4. /\ IsFiniteSet({"broadcaster"}) /\ Cardinality({"broadcaster"}) = 1
        /\ IsFiniteSet({"validator"}) /\ Cardinality({"validator"}) = 1
        /\ IsFiniteSet({}) /\ Cardinality({}) = 0
    BY FS_Singleton, FS_EmptySet
  <1>5. IsFiniteSet(Sharing) /\ Cardinality(Sharing) = 2
    <2>1. Sharing = {"broadcaster"} \cup {"validator"} /\ "validator" \notin {"broadcaster"}
      BY DEF Sharing
    <2> QED
      BY <1>4, <2>1, FS_AddElement
  <1>6. Cardinality(Link!Waiting) \in Nat /\ Cardinality(Link!Waiting) <= 2
    BY <1>3, <1>5, FS_Subset, WaitingFinite
  <1>7. Link!Waiting = {} => Cardinality(Link!Waiting) = 0
    BY <1>4
  <1>8. "broadcaster" \notin Link!Waiting \/ "validator" \notin Link!Waiting =>
           Cardinality(Link!Waiting) <= 1
    <2>1. "broadcaster" \notin Link!Waiting => Link!Waiting \subseteq {"validator"}
      BY <1>3 DEF Sharing
    <2>2. "validator" \notin Link!Waiting => Link!Waiting \subseteq {"broadcaster"}
      BY <1>3 DEF Sharing
    <2> QED
      BY <1>4, <2>1, <2>2, FS_Subset
  <1>9. Len(Line) <= 2
    BY <1>1, <1>2, <1>6
  <1>10. ASSUME Len(Line) >= 1
         PROVE  \E x \in Sharing : pc[x] = "recv"
    <2>1. Link!Waiting # {}
      BY <1>1, <1>2, <1>6, <1>7, <1>10
    <2> QED
      BY <1>3, <2>1
  <1>11. ASSUME Len(Line) = 2
         PROVE  \A x \in Sharing : pc[x] = "recv"
    <2>1. "broadcaster" \in Link!Waiting /\ "validator" \in Link!Waiting
      BY <1>2, <1>6, <1>8, <1>11
    <2> QED
      BY <1>3, <2>1 DEF Sharing
  <1> QED
    BY <1>9, <1>10, <1>11 DEF Counted

(* Nothing is on its way and nothing in hand.                              *)
LEMMA SettledStart ==
    ASSUME NEW p, NEW h, NEW k, \A x \in Sharing : p[x] = "idle" /\ k[x] = 0
    PROVE  Settled(p, <<>>, h, k)
  <1>1. \A i \in 1..Len(<<>>) : FALSE
    OBVIOUS
  <1>2. LineOK(p, <<>>, h)
    BY <1>1 DEF LineOK
  <1>3. ASSUME NEW t \in Sharing, NEW o \in Sharing
        PROVE  Calm(t, o, p, <<>>, h, k)
    <2>1. NoneOf(o, p, <<>>, h)
      BY <1>1 DEF NoneOf
    <2> QED
      BY <1>1, <2>1 DEF Calm
  <1> QED
    BY <1>2, <1>3 DEF Settled

-----------------------------------------------------------------------------
LEMMA Shaped ==
    ASSUME Link!TypeOK, \A x \in Sharing : pc[x] # "off"
    PROVE  Shape(pc, Line, hand, known)
  BY LineTyped DEF Link!TypeOK, Shape, Places

LEMMA FreshTasks ==
    ASSUME SInv, FreshOK, boot' = boot, NEW t \in Link!Task,
           Link!Call(t) \/ Link!tcp_send_and_update(t) \/ Link!Use(t)
    PROVE  FreshOK'
  <1> SUFFICES ASSUME thread' # "dead"
               PROVE  /\ boot # "running" => \A x \in Sharing : known'[x] = 0
                      /\ boot = "running" => \A x \in Sharing : pc'[x] # "off"
                      /\ boot = "running" /\ conn' = "up" /\ MaxAge >= 3 =>
                             Settled(pc', Line', hand', known')
    BY DEF FreshOK
  <1>0. /\ thread = thread' /\ conn' = conn
        /\ Link!TypeOK /\ BootOK /\ OnceOK /\ Sharing \subseteq Link!Task
        /\ Sharing = Link!Task \ {"main"}
    BY DEF Link!Call, Link!tcp_send_and_update, Link!Send, Link!Error, Link!Recv,
           Link!RecvNothing, Link!Decode, Link!Use, SInv, TypeOK, Sharing, Link!Task
  <1>1. thread # "dead" /\ conn # "closed"
    BY <1>0 DEF SInv, ClosedOK
  <1>2. ASSUME boot # "running"
        PROVE  \A x \in Sharing : known'[x] = 0
    <2>1. \A x \in Sharing : known[x] = 0 /\ pc[x] = "off"
      BY <1>0, <1>1, <1>2 DEF FreshOK, BootOK
    <2>2. CASE Link!Decode(t)
      <3>1. pc[t] = "decode" /\ known' = [known EXCEPT ![hand[t].task] = hand[t].age]
        BY <2>2 DEF Link!Decode, Link!Stored
      <3>2. t = "main" /\ boot = "rni"
        BY <1>0, <1>2, <2>1, <3>1 DEF BootOK, SInv, TypeOK
      <3>3. hand[t].task = "main"
        BY <1>0, <1>1, <3>1, <3>2 DEF OnceOK, ForMain
      <3> QED
        BY <1>0, <2>1, <3>1, <3>3 DEF Link!TypeOK, Sharing
    <2>3. CASE Link!Send(t)
      <3>1. pc[t] = "send" /\ known' = [known EXCEPT ![t] = Link!Older(@)]
        BY <2>3 DEF Link!Send
      <3>2. t = "main"
        BY <1>0, <2>1, <3>1
      <3> QED
        BY <1>0, <2>1, <3>1, <3>2 DEF Link!TypeOK, Sharing
    <2>4. CASE ~Link!Decode(t) /\ ~Link!Send(t)
      <3>1. known' = known
        BY <2>4 DEF Link!Call, Link!tcp_send_and_update, Link!Error, Link!Recv,
                    Link!RecvNothing, Link!Use
      <3> QED
        BY <2>1, <3>1
    <2> QED
      BY <2>2, <2>3, <2>4
  <1>3. ASSUME boot = "running"
        PROVE  t \in Sharing /\ \A x \in Sharing : pc[x] # "off" /\ pc'[x] # "off"
    <2>1. pc["main"] = "off" /\ \A x \in Sharing : pc[x] # "off"
      BY <1>0, <1>1, <1>3 DEF BootOK, FreshOK
    <2>2. PICK place \in Places \ {"off"} : pc' = [pc EXCEPT ![t] = place] /\ pc[t] # "off"
      BY DEF Link!Call, Link!tcp_send_and_update, Link!Send, Link!Error, Link!AfterError,
             Link!Recv, Link!RecvNothing, Link!Decode, Link!Use, Places
    <2> QED
      BY <1>0, <2>1, <2>2 DEF Link!TypeOK
  <1>4. ASSUME boot = "running", conn' = "up", MaxAge >= 3
        PROVE  Settled(pc', Line', hand', known')
    <2>1. /\ Settled(pc, Line, hand, known) /\ Counted(pc, Line)
          /\ Shape(pc, Line, hand, known) /\ t \in Sharing
      BY <1>0, <1>1, <1>3, <1>4, CountedLine, Shaped DEF FreshOK
    <2>2. CASE Link!Call(t) \/ Link!Use(t)
      <3>1. Line' = Line /\ hand' = hand /\ known' = known
        BY <2>2 DEF Link!Call, Link!Use, Line, Working
      <3>2. PICK place : /\ pc' = [pc EXCEPT ![t] = place]
                         /\ \/ pc[t] = "use" /\ place = "idle"
                            \/ pc[t] = "idle" /\ place = "send" /\ \A x \in Sharing : pc[x] # "decode"
        BY <2>2, <1>0 DEF Link!Call, Link!Use
      <3>3. Settled([pc EXCEPT ![t] = place], Line, hand, known)
        BY <2>1, <3>2, SettledMove
      <3> QED
        BY <3>1, <3>2, <3>3
    <2>3. CASE Link!Send(t)
      <3>1. Line' = Append(Link!AllAged(t, Line), Link!Request(t))
        BY <1>0, <2>3, SendLine
      <3>2. /\ pc[t] = "send" /\ pc' = [pc EXCEPT ![t] = "recv"]
            /\ hand' = [x \in Link!Task |-> Link!Aged(t, hand[x])]
            /\ known' = [known EXCEPT ![t] = Link!Older(@)]
        BY <2>3 DEF Link!Send
      <3>3. Settled([pc EXCEPT ![t] = "recv"], Append(Link!AllAged(t, Line), Link!Request(t)),
                    [x \in Link!Task |-> Link!Aged(t, hand[x])], [known EXCEPT ![t] = Link!Older(@)])
        BY <1>4, <2>1, <3>2, SettledSend
      <3> QED
        BY <3>1, <3>2, <3>3
    <2>4. CASE Link!Recv(t)
      <3>1. PICK j \in 1..Len(Line) : /\ Line' = SubSeq(Line, j + 1, Len(Line))
                                      /\ hand' = [hand EXCEPT ![t] = Line[1]]
        BY <1>0, <2>4, RecvLine
      <3>2. pc[t] = "recv" /\ pc' = [pc EXCEPT ![t] = "decode"] /\ known' = known
        BY <2>4 DEF Link!Recv
      <3>3. Settled([pc EXCEPT ![t] = "decode"], SubSeq(Line, j + 1, Len(Line)),
                    [hand EXCEPT ![t] = Line[1]], known)
        BY <2>1, <3>2, SettledRecv
      <3> QED
        BY <3>1, <3>2, <3>3
    <2>5. CASE Link!Decode(t)
      <3>1. /\ pc[t] = "decode" /\ pc' = [pc EXCEPT ![t] = "use"]
            /\ Line' = Line /\ hand' = hand
            /\ known' = [known EXCEPT ![hand[t].task] = hand[t].age]
        BY <2>5 DEF Link!Decode, Link!Stored, Line, Working
      <3>2. Settled([pc EXCEPT ![t] = "use"], Line, hand,
                    [known EXCEPT ![hand[t].task] = hand[t].age])
        BY <2>1, <3>1, SettledDecode
      <3> QED
        BY <3>1, <3>2
    <2>6. ~Link!Error(t) /\ ~Link!RecvNothing(t)
      BY <1>0, <1>4 DEF Link!Error, Link!RecvNothing
    <2> QED
      BY <2>2, <2>3, <2>4, <2>5, <2>6 DEF Link!tcp_send_and_update
  <1> QED
    BY <1>2, <1>3, <1>4

LEMMA FreshServer ==
    ASSUME SInv, FreshOK, boot' = boot,
           Link!thread_handler \/ Link!CloseDead \/ Link!Reset
    PROVE  FreshOK'
  <1>1. ASSUME thread' # "dead"
        PROVE  /\ thread # "dead" /\ pc' = pc /\ hand' = hand /\ known' = known
               /\ conn' = "up" => conn = "up" /\ Line' = Line
    <2>1. CASE Link!ServerRecv \/ Link!ServerAnswer
      BY <2>1, ServerLine DEF Link!ServerRecv, Link!ServerAnswer, SInv, TypeOK
    <2>2. CASE Link!ServerRecvJoined \/ Link!ServerFails
      BY <1>1, <2>2 DEF Link!ServerRecvJoined, Link!ServerFails, Link!Ended
    <2>3. CASE Link!CloseDead \/ Link!Reset
      BY <1>1, <2>3 DEF Link!CloseDead, Link!Reset
    <2> QED
      BY <2>1, <2>2, <2>3 DEF Link!thread_handler
  <1>2. ASSUME thread' # "dead", boot = "running", conn' = "up", MaxAge >= 3
        PROVE  Settled(pc', Line', hand', known')
    BY <1>1, <1>2 DEF FreshOK
  <1> QED
    BY <1>1, <1>2 DEF FreshOK

LEMMA FreshBoot ==
    ASSUME SInv, FreshOK, laset_main \/ Abort
    PROVE  FreshOK'
  <1>1. CASE WifiDone \/ ConnectSocket
    <2>1. boot # "running" /\ boot' # "running" /\ known' = known /\ thread' = thread
      BY <1>1 DEF WifiDone, ConnectSocket, linkVars
    <2> QED
      BY <2>1 DEF FreshOK
  <1>2. CASE StartTasks
    <2>1. /\ boot = "rni" /\ boot' = "running" /\ pc["main"] = "use" /\ pc' = Link!Started
          /\ conn' = conn /\ up' = up /\ down' = down /\ thread' = thread
          /\ serving' = serving /\ known' = known
      BY <1>2 DEF StartTasks
    <2>2. \A x \in Sharing : pc'[x] = "idle"
      BY <2>1 DEF Link!Started, Sharing, Link!Task
    <2>3. ASSUME thread' # "dead"
          PROVE  \A x \in Sharing : known'[x] = 0
      BY <2>1, <2>3 DEF FreshOK
    <2>4. ASSUME conn' = "up"
          PROVE  Line' = <<>>
      <3>1. \A x \in Link!Task : pc[x] # "recv"
        BY <2>1 DEF SInv, BootOK
      <3>2. Link!Waiting = {}
        BY <3>1 DEF Link!Waiting
      <3>3. Cardinality(Link!Waiting) = 0
        BY ONLY <3>2, FS_EmptySet
      <3>4. Link!InFlight <= 0
        BY <2>1, <2>4, <3>3, SameCardinality DEF SInv, NothingLeftOver, Link!NothingLeftOver
      <3>5. Line \in Seq(Link!Message) /\ Len(Line) = Link!InFlight
        BY LineTyped DEF SInv, TypeOK
      <3>6. Line = <<>>
        BY <3>4, <3>5
      <3> QED
        BY <2>1, <3>6 DEF Line, Working
    <2>5. ASSUME thread' # "dead", conn' = "up"
          PROVE  Settled(pc', Line', hand', known')
      <3>1. \A x \in Sharing : pc'[x] = "idle" /\ known'[x] = 0
        BY <2>2, <2>3, <2>5
      <3>2. Settled(pc', <<>>, hand', known')
        BY <3>1, SettledStart
      <3> QED
        BY <2>4, <2>5, <3>2
    <2> QED
      BY <2>1, <2>2, <2>3, <2>5 DEF FreshOK
  <1>3. CASE Abort
    <2>1. /\ conn' # "up" /\ boot' = boot /\ known' = known /\ thread' = thread /\ pc' = pc
      BY <1>3 DEF Abort
    <2> QED
      BY <2>1 DEF FreshOK
  <1> QED
    BY <1>1, <1>2, <1>3 DEF laset_main

(* A task the server serves never decides on the answer to a request       *)
(* before its last three, nor on the value from boot after three, however  *)
(* the two tasks take each other's answers and however many answers one    *)
(* recv loses (main.c:104-110, 647-650).                                   *)
THEOREM ServedIsFresh == Spec => []FreshWhileServed
  <1>1. Init => FreshOK
    BY DEF Init, Link!NothingSent, FreshOK, Sharing, Link!Task
  <1>2. SInv /\ FreshOK /\ [Next]_vars => FreshOK'
    <2> SUFFICES ASSUME SInv, FreshOK, [Next]_vars PROVE FreshOK'
      OBVIOUS
    <2>1. CASE laset_main \/ Abort
      BY <2>1, FreshBoot
    <2>2. CASE Link!Next /\ UNCHANGED <<boot, wifiVars>>
      BY <2>2, FreshTasks, FreshServer DEF Link!Next
    <2>3. CASE UNCHANGED <<boot, linkVars>>
      <3>1. /\ boot' = boot /\ conn' = conn /\ thread' = thread /\ pc' = pc /\ hand' = hand
            /\ known' = known /\ Line' = Line
        BY <2>3 DEF linkVars, Line, Working
      <3>2. Settled(pc, Line, hand, known) => Settled(pc', Line', hand', known')
        BY <3>1
      <3> QED
        BY <3>1, <3>2 DEF FreshOK
    <2> QED
      BY <2>1, <2>2, <2>3 DEF Next, vars
  <1>3. SInv /\ FreshOK => FreshWhileServed
    <2> SUFFICES ASSUME SInv, FreshOK, NEW t \in Link!Task,
                        conn = "up", thread # "dead", pc[t] = "use"
                 PROVE  known[t] <= 2
      BY DEF FreshWhileServed, Link!FreshWhileServed
    <2>1. known[t] \in 0..MaxAge /\ MaxAge \in Nat
      BY AgeAssumption DEF SInv, TypeOK, Link!TypeOK
    <2>2. CASE t = "main"
      BY <2>2 DEF SInv, OnceOK
    <2>3. CASE t # "main"
      <3>1. boot = "running" /\ t \in Sharing
        BY <2>3 DEF SInv, BootOK, Link!Task, Sharing
      <3>2. CASE MaxAge >= 3
        <4>1. PICK o \in Sharing : t # o
          BY DEF Sharing
        <4>2. Calm(t, o, pc, Line, hand, known)
          BY <3>1, <3>2, <4>1 DEF FreshOK, Settled
        <4> QED
          BY <2>1, <4>2 DEF Calm, Held
      <3>3. CASE ~(MaxAge >= 3)
        BY <2>1, <3>3
      <3> QED
        BY <3>2, <3>3
    <2> QED
      BY <2>2, <2>3
  <1> QED
    BY <1>1, <1>2, <1>3, Invariance, PTL DEF Spec
=============================================================================
