-------------------------- MODULE GridServer_proofs --------------------------
(***************************************************************************)
(* The server's lists of node ids, for any number of households, ids and   *)
(* connections and however the threads interleave.                         *)
(*                                                                         *)
(* First: until a household comes back, no node id is out twice.  As long  *)
(* as nobody comes back the accept loop leaves the lists alone, so the     *)
(* pool is only ever popped: it stays sorted without duplicates, and what  *)
(* has been answered is no longer in it.  That two threads may note the    *)
(* same id before either pops (server.py:36, simulator.py:63) does not     *)
(* matter, because a thread answers what it has popped.                    *)
(*                                                                         *)
(* Then: the types of the lists and of the index into them, which rest on  *)
(* what sorting does to a list whose last element alone is out of place.   *)
(*                                                                         *)
(* Last: when households do come back but no two operations on the lists   *)
(* overlap, each id is in one list, whoever has one is noted under it, and *)
(* within the capacity nobody goes without.                                *)
(***************************************************************************)
EXTENDS GridServer, FiniteSetTheorems, SequenceTheorems, FunctionTheorems, TLAPS

NobodyBack == \A a \in Address : ~Reconnected(a)

(* The same without counting.                                              *)
Distinct == \A c, d \in 1..Len(conns) : conns[c] = conns[d] => c = d

ConnsOK ==
    /\ conns \in Seq(Address) /\ Len(conns) <= MaxConns
    /\ accepted \in 0..Len(conns)

ListsAlone == accepting.pc \in {"accept", "start"}

PoolOK ==
    /\ available_nodes \in Seq(Ids)
    /\ \A i, j \in DOMAIN available_nodes : i < j => available_nodes[i] < available_nodes[j]

(* What is answered was popped, once.                                      *)
AnswersOK ==
    /\ answer \in [1..MaxConns -> Ids \cup {NoAnswer, NoId}]
    /\ \A c \in 1..MaxConns, i \in DOMAIN available_nodes : answer[c] # available_nodes[i]
    /\ \A c, d \in 1..MaxConns : answer[c] \in Ids /\ answer[c] = answer[d] => c = d

GInv == ConnsOK /\ (Distinct => ListsAlone /\ PoolOK /\ AnswersOK)

LEMMA NobodyBackDistinct == ConnsOK /\ NobodyBack => Distinct
  <1> SUFFICES ASSUME ConnsOK, NEW c \in 1..Len(conns), NEW d \in 1..Len(conns),
                      conns[c] = conns[d], c # d
               PROVE  ~NobodyBack
    BY DEF Distinct
  <1> DEFINE a == conns[c]
             S == {e \in 1..Len(conns) : conns[e] = a}
  <1>1. a \in Address
    BY DEF ConnsOK
  <1>2. IsFiniteSet(S)
    <2>1. Len(conns) \in Nat
      BY DEF ConnsOK
    <2>2. IsFiniteSet(1..Len(conns))
      BY <2>1, FS_Interval
    <2>3. S \subseteq 1..Len(conns)
      OBVIOUS
    <2> QED
      BY ONLY <2>2, <2>3, FS_Subset
  <1>3. {c, d} \subseteq S
    OBVIOUS
  <1>4. Cardinality({c, d}) = 2
    <2>1. Cardinality({c}) = 1 /\ IsFiniteSet({c})
      BY FS_Singleton
    <2>2. Cardinality({c} \cup {d}) = Cardinality({c}) + 1
      <3>1. d \notin {c}
        OBVIOUS
      <3> QED
        BY ONLY <2>1, <3>1, FS_AddElement
    <2>3. {c, d} = {c} \cup {d}
      OBVIOUS
    <2>4. Cardinality({c, d}) = Cardinality({c}) + 1
      BY ONLY <2>2, <2>3
    <2> QED
      BY ONLY <2>1, <2>4
  <1>5. Cardinality({c, d}) <= Cardinality(S)
    BY ONLY <1>2, <1>3, FS_Subset
  <1>6. Cardinality(S) \in Nat
    BY ONLY <1>2, FS_CardinalityType
  <1>7. Cardinality(S) > 1
    BY ONLY <1>4, <1>5, <1>6
  <1>8. Reconnected(a)
    BY ONLY <1>7 DEF Reconnected
  <1> QED
    BY <1>1, <1>8 DEF NobodyBack

-----------------------------------------------------------------------------
LEMMA InitHolds == Init => GInv
  <1> SUFFICES ASSUME Init PROVE GInv
    OBVIOUS
  <1> USE PoolAssumption DEF Init
  <1>1. ConnsOK
    BY DEF ConnsOK
  <1>2. Pool \in Seq(Ids)
    BY DEF Ids
  <1>3. ListsAlone /\ PoolOK
    BY <1>2 DEF ListsAlone, PoolOK
  <1>4. \A id \in Ids : id # NoAnswer
    BY DEF Ids, NoAnswer
  <1>5. AnswersOK
    BY <1>4, <1>2 DEF AnswersOK, Ids
  <1> QED
    BY <1>1, <1>3, <1>5 DEF GInv

(* A household connects: whoever was distinct was so before.               *)
LEMMA ConnectKeeps ==
    ASSUME GInv, NEW a \in Address, Connect(a)
    PROVE  GInv'
  <1> USE DEF Connect, serverVars
  <1>1. ConnsOK'
    <2>1. conns \in Seq(Address) /\ accepted \in 0..Len(conns) /\ Len(conns) \in Nat
      BY DEF GInv, ConnsOK
    <2>2. conns' \in Seq(Address) /\ Len(conns') = Len(conns) + 1
      BY <2>1
    <2>3. Len(conns') <= MaxConns
      BY <2>1, <2>2, PoolAssumption
    <2> QED
      BY <2>1, <2>2, <2>3 DEF ConnsOK
  <1>2. Distinct' => Distinct
    <2> SUFFICES ASSUME Distinct', NEW c \in 1..Len(conns), NEW d \in 1..Len(conns),
                        conns[c] = conns[d]
                 PROVE  c = d
      BY DEF Distinct
    <2>1. conns'[c] = conns[c] /\ conns'[d] = conns[d] /\ Len(conns') = Len(conns) + 1
      BY DEF GInv, ConnsOK
    <2>2. c \in 1..Len(conns') /\ d \in 1..Len(conns')
      BY <2>1 DEF GInv, ConnsOK
    <2> QED
      BY <2>1, <2>2 DEF Distinct
  <1> QED
    BY <1>1, <1>2 DEF GInv, ListsAlone, PoolOK, AnswersOK

(* The accept loop: a household it has not seen leaves the lists alone.    *)
LEMMA AcceptLoopKeeps ==
    ASSUME GInv, AcceptLoop
    PROVE  GInv'
  <1>1. conns' = conns /\ answer' = answer /\ accepted' \in {accepted, accepted + 1}
    BY DEF AcceptLoop, Accept, FreeNext, SortPool, KeepNext, ReplaceTaken, StartThread
  <1>2. ConnsOK'
    <2>0. Len(conns) \in Nat /\ accepted \in 0..Len(conns)
      BY DEF GInv, ConnsOK
    <2>1. accepted' \in 0..Len(conns)
      <3>1. CASE Accept
        BY <2>0, <3>1 DEF Accept
      <3>2. CASE ~Accept
        BY <2>0, <3>2 DEF AcceptLoop, FreeNext, SortPool, KeepNext, ReplaceTaken, StartThread
      <3> QED
        BY <3>1, <3>2
    <2> QED
      BY <1>1, <2>1 DEF GInv, ConnsOK
  <1>3. ASSUME Distinct
        PROVE  ListsAlone' /\ PoolOK' /\ AnswersOK'
    <2>1. ListsAlone /\ PoolOK /\ AnswersOK
      BY <1>3 DEF GInv
    <2>2. CASE Accept
      <3>1. ~\E c \in 1..accepted : conns[c] = conns[accepted + 1]
        BY <1>3, <2>2 DEF Accept, Distinct, GInv, ConnsOK
      <3>2. ListsAlone'
        BY <2>2, <3>1 DEF Accept, ListsAlone, GoTo
      <3> QED
        BY <2>1, <2>2, <3>2 DEF Accept, PoolOK, AnswersOK
    <2>3. CASE StartThread
      BY <2>1, <2>3 DEF StartThread, ListsAlone, GoTo, PoolOK, AnswersOK
    <2>4. accepting.pc \notin {"free", "sort", "keep"}
      BY <2>1 DEF ListsAlone
    <2> QED
      BY <2>2, <2>3, <2>4 DEF AcceptLoop, FreeNext, SortPool, KeepNext, ReplaceTaken
  <1>4. Distinct' => Distinct
    BY <1>1 DEF Distinct
  <1> QED
    BY <1>2, <1>3, <1>4 DEF GInv

(* A household's thread: only PopId answers with an id, the one it pops.   *)
LEMMA ThreadKeeps ==
    ASSUME GInv, NEW c \in 1..MaxConns, HouseholdThread(c)
    PROVE  GInv'
  <1> USE PoolAssumption
  <1>0. conns' = conns /\ accepted' = accepted /\ accepting' = accepting
    BY DEF HouseholdThread, TestPool, RecordId, PopId, Fail
  <1>1. Ids \subseteq Nat \ {0}
    BY DEF Ids, NoAnswer
  <1>2. CASE TestPool(c)
    <2>1. available_nodes' = available_nodes
      BY <1>2 DEF TestPool
    <2>2. \/ answer' = answer
          \/ answer' = [answer EXCEPT ![c] = NoId] /\ available_nodes = <<>>
      <3>1. CASE available_nodes = <<>>
        BY <1>2, <3>1 DEF TestPool, Answer
      <3>2. CASE available_nodes # <<>>
        BY <1>2, <3>2 DEF TestPool
      <3> QED
        BY <3>1, <3>2
    <2>3. ConnsOK'
      BY <1>0 DEF GInv, ConnsOK
    <2>4. ASSUME PoolOK, AnswersOK
          PROVE  AnswersOK'
      <3>1. CASE answer' = answer
        BY <2>1, <2>4, <3>1 DEF AnswersOK
      <3>2. CASE answer' = [answer EXCEPT ![c] = NoId] /\ available_nodes = <<>>
        <4>1. DOMAIN available_nodes' = {}
          BY <2>1, <3>2
        <4>2. NoId \notin Ids
          BY <1>1 DEF NoId
        <4>3. \A d \in 1..MaxConns : answer'[d] = IF d = c THEN NoId ELSE answer[d]
          BY <2>4, <3>2 DEF AnswersOK
        <4>4. answer' \in [1..MaxConns -> Ids \cup {NoAnswer, NoId}]
          BY <2>4, <3>2 DEF AnswersOK
        <4> QED
          BY <2>4, <4>1, <4>2, <4>3, <4>4 DEF AnswersOK
      <3> QED
        BY <2>2, <3>1, <3>2
    <2> QED
      BY <1>0, <2>1, <2>3, <2>4 DEF GInv, ListsAlone, PoolOK, Distinct
  <1>3. CASE PopId(c)
    <2>1. /\ answer' = [answer EXCEPT ![c] = Head(available_nodes)]
          /\ available_nodes' = Tail(available_nodes)
          /\ available_nodes # <<>>
      BY <1>3 DEF PopId, Answer, Popped
    <2>2. ASSUME PoolOK, AnswersOK, ConnsOK
          PROVE  PoolOK' /\ AnswersOK' /\ Head(available_nodes) \in Ids
      <3> DEFINE av == available_nodes
      <3>1. /\ av \in Seq(Ids) /\ Len(av) \in Nat \ {0} /\ DOMAIN av = 1..Len(av)
            /\ av[1] = Head(av) /\ Head(av) \in Ids
        BY <2>1, <2>2 DEF PoolOK
      <3>2. /\ Tail(av) \in Seq(Ids) /\ DOMAIN Tail(av) = 1..(Len(av) - 1)
            /\ \A i \in 1..(Len(av) - 1) : Tail(av)[i] = av[i + 1]
        BY <3>1
      <3>3. \A i \in 1..(Len(av) - 1) : i + 1 \in DOMAIN av /\ 1 < i + 1
        BY <3>1
      <3>4. PoolOK'
        <4>1. ASSUME NEW i \in DOMAIN Tail(av), NEW j \in DOMAIN Tail(av), i < j
              PROVE  Tail(av)[i] < Tail(av)[j]
          <5>1. /\ i + 1 \in DOMAIN av /\ j + 1 \in DOMAIN av /\ i + 1 < j + 1
            BY <3>1, <3>2, <4>1
          <5>2. av[i + 1] < av[j + 1]
            BY <2>2, <5>1 DEF PoolOK
          <5> QED
            BY <3>2, <5>2
        <4> QED
          BY <2>1, <3>2, <4>1 DEF PoolOK
      <3>5. \A i \in DOMAIN Tail(av) : Tail(av)[i] # Head(av)
        <4> SUFFICES ASSUME NEW i \in DOMAIN Tail(av)
                     PROVE  Tail(av)[i] # Head(av)
          OBVIOUS
        <4>1. av[1] < av[i + 1]
          BY <2>2, <3>1, <3>2, <3>3 DEF PoolOK
        <4>2. av[1] \in Nat
          BY <1>1, <3>1
        <4> QED
          BY <3>1, <3>2, <4>1, <4>2
      <3>6. \A d \in 1..MaxConns : answer[d] # Head(av)
        BY <2>2, <3>1 DEF AnswersOK
      <3>7. \A d \in 1..MaxConns : answer'[d] = IF d = c THEN Head(av) ELSE answer[d]
        BY <2>1, <2>2 DEF AnswersOK
      <3>8. \A d \in 1..MaxConns, i \in DOMAIN Tail(av) : answer'[d] # Tail(av)[i]
        BY <2>2, <3>1, <3>2, <3>3, <3>5, <3>7 DEF AnswersOK
      <3>9. \A d, e \in 1..MaxConns : answer'[d] \in Ids /\ answer'[d] = answer'[e] => d = e
        BY <2>2, <3>6, <3>7 DEF AnswersOK
      <3> QED
        <4>1. answer' \in [1..MaxConns -> Ids \cup {NoAnswer, NoId}]
          BY <2>1, <2>2, <3>1 DEF AnswersOK
        <4> QED
          BY <2>1, <3>1, <3>4, <3>8, <3>9, <4>1 DEF AnswersOK
    <2>3. Distinct' => Distinct
      BY <1>0 DEF Distinct
    <2>4. ConnsOK'
      BY <1>0 DEF GInv, ConnsOK
    <2> QED
      BY <1>0, <2>2, <2>3, <2>4 DEF GInv, ListsAlone
  <1>4. CASE RecordId(c) \/ Fail(c)
    BY <1>0, <1>4 DEF RecordId, Fail, GInv, ConnsOK, ListsAlone, PoolOK, AnswersOK, Distinct
  <1> QED
    BY <1>2, <1>3, <1>4 DEF HouseholdThread
-----------------------------------------------------------------------------
(* Until the first household comes back, no two have the same node id, for *)
(* any number of households, ids and connections (simulator.py:55-66).     *)
THEOREM NoIdTwice == Spec => []FirstIdsUnique
  <1>1. GInv /\ [Next]_vars => GInv'
    <2> SUFFICES ASSUME GInv, [Next]_vars PROVE GInv'
      OBVIOUS
    <2>1. CASE Next
      BY <2>1, ConnectKeeps, AcceptLoopKeeps, ThreadKeeps DEF Next
    <2>2. CASE UNCHANGED vars
      BY <2>2 DEF vars, serverVars, GInv, ConnsOK, ListsAlone, PoolOK, AnswersOK, Distinct
    <2> QED
      BY <2>1, <2>2
  <1>2. GInv => FirstIdsUnique
    <2> SUFFICES ASSUME GInv, NobodyBack PROVE IdsUnique
      BY DEF FirstIdsUnique, NobodyBack
    <2>1. AnswersOK
      BY NobodyBackDistinct DEF GInv
    <2>2. Holders \subseteq 1..MaxConns
      BY PoolAssumption DEF Holders, GInv, ConnsOK
    <2> QED
      BY <2>1, <2>2 DEF IdsUnique, Holders, AnswersOK
  <1> QED
    BY InitHolds, <1>1, <1>2, PTL DEF Spec

-----------------------------------------------------------------------------
(***************************************************************************)
(* Sorting (list.sort(), server.py:33).                                    *)
(***************************************************************************)
(* A set of numbers that is not empty has a smallest one.                  *)
LEMMA Smallest ==
    ASSUME NEW K, K \subseteq Nat, K # {}
    PROVE  \E k \in K : \A j \in K : k <= j
  <1> DEFINE Below == {ss \in Nat \X Nat : ss[1] < ss[2]}
  <1>1. IsWellFoundedOn(Below, Nat)
    BY NatLessThanWellFounded DEF OpToRel
  <1>2. \A i, j \in Nat : <<i, j>> \in Below <=> i < j
    OBVIOUS
  <1> HIDE DEF Below
  <1>3. PICK k \in K : \A j \in K : ~(<<j, k>> \in Below)
    BY <1>1, WFMin, Zenon
  <1>4. \A j \in K : ~(j < k)
    BY <1>2, <1>3
  <1> QED
    BY <1>4

(***************************************************************************)
(* A list that is in order except for the element at its end has an order, *)
(* the one that moves this element to its place.                           *)
(***************************************************************************)
AlmostInOrder(s) == \A i, j \in DOMAIN s : i < j /\ j < Len(s) => s[i] <= s[j]

LEMMA Rearranged ==
    ASSUME NEW s \in Seq(Nat), AlmostInOrder(s)
    PROVE  \E p \in Bijection(1..Len(s), 1..Len(s)) :
               \A i, j \in 1..Len(s) : i < j => s[p[i]] <= s[p[j]]
  <1> SUFFICES ASSUME NEW n, n = Len(s)
               PROVE  \E p \in Bijection(1..n, 1..n) :
                          \A i, j \in 1..n : i < j => s[p[i]] <= s[p[j]]
    OBVIOUS
  <1>1. n \in Nat /\ DOMAIN s = 1..n /\ \A i \in 1..n : s[i] \in Nat
    OBVIOUS
  <1>2. CASE n = 0
    <2> DEFINE p == [i \in 1..n |-> i]
    <2>1. p \in Bijection(1..n, 1..n)
      BY <1>1, Fun_IsBij
    <2> QED
      BY <1>2, <2>1
  <1>3. CASE n # 0
    <2> DEFINE K == {k \in 1..n : s[k] > s[n] \/ k = n}
    <2>1. PICK k \in K : \A j \in K : k <= j
      <3>1. n \in K /\ K \subseteq Nat
        BY <1>1, <1>3
      <3> QED
        BY <3>1, Smallest
    <2>2. /\ k \in 1..n /\ (s[k] > s[n] \/ k = n)
          /\ \A j \in 1..n : s[j] > s[n] => k <= j
      BY <2>1
    <2> DEFINE p == [i \in 1..n |-> IF i < k THEN i ELSE IF i = k THEN n ELSE i - 1]
    <2> HIDE DEF K
    <2>3. p \in [1..n -> 1..n]
      BY <1>1, <1>3, <2>2
    <2>4. \A a, b \in 1..n : p[a] = p[b] => a = b
      BY <1>1, <2>2
    <2>5. \A b \in 1..n : \E a \in 1..n : p[a] = b
      <3> SUFFICES ASSUME NEW b \in 1..n
                   PROVE  \E a \in 1..n : p[a] = b
        OBVIOUS
      <3> DEFINE a == IF b < k THEN b ELSE IF b = n THEN k ELSE b + 1
      <3>1. a \in 1..n /\ p[a] = b
        BY <1>1, <2>2
      <3> QED
        BY <3>1
    <2>6. p \in Bijection(1..n, 1..n)
      BY <2>3, <2>4, <2>5, Fun_IsBij
    <2>7. \A i \in 1..n : i < k => s[i] <= s[n]
      BY <1>1, <2>2
    <2>8. \A i \in 1..n : k <= i /\ i < n => s[n] <= s[i]
      <3> SUFFICES ASSUME NEW i \in 1..n, k <= i, i < n
                   PROVE  s[n] <= s[i]
        OBVIOUS
      <3>1. s[k] > s[n] /\ k < n
        BY <1>1, <2>2
      <3>2. s[k] <= s[i]
        BY <1>1, <2>2, <3>1 DEF AlmostInOrder
      <3> QED
        BY <1>1, <2>2, <3>1, <3>2
    <2>9. ASSUME NEW i \in 1..n, NEW j \in 1..n, i < j
          PROVE  s[p[i]] <= s[p[j]]
      <3>1. \A a, b \in 1..n : a < b /\ b < n => s[a] <= s[b]
        BY <1>1 DEF AlmostInOrder
      <3>2. CASE j < k
        <4>1. p[i] = i /\ p[j] = j /\ j < n
          BY <1>1, <2>2, <2>9, <3>2
        <4> QED
          BY <2>9, <3>1, <4>1
      <3>3. CASE j = k
        <4>1. p[i] = i /\ p[j] = n
          BY <1>1, <2>2, <2>9, <3>3
        <4> QED
          BY <1>1, <2>2, <2>7, <2>9, <3>3, <4>1
      <3>4. CASE j > k /\ i = k
        <4>1. p[i] = n /\ p[j] = j - 1 /\ j - 1 \in 1..n /\ k <= j - 1 /\ j - 1 < n
          BY <1>1, <2>2, <2>9, <3>4
        <4> QED
          BY <2>8, <4>1
      <3>5. CASE j > k /\ i # k
        <4>1. p[j] = j - 1 /\ j - 1 < n /\ j - 1 \in 1..n
          BY <1>1, <2>2, <2>9, <3>5
        <4>2. p[i] = IF i < k THEN i ELSE i - 1
          BY <1>1, <2>2, <3>5
        <4>3. p[i] \in 1..n /\ p[i] < j - 1
          BY <1>1, <2>2, <2>9, <3>5, <4>2
        <4> QED
          BY <3>1, <4>1, <4>3
      <3> QED
        BY <1>1, <2>2, <3>2, <3>3, <3>4, <3>5
    <2> HIDE DEF p
    <2> QED
      BY <2>6, <2>9
  <1> QED
    BY <1>2, <1>3

(* What sorting makes of such a list: the same elements, each in order.    *)
LEMMA SortedIs ==
    ASSUME NEW s \in Seq(Nat), AlmostInOrder(s)
    PROVE  \E p \in Bijection(1..Len(s), 1..Len(s)) :
               /\ Sorted(s) = [i \in 1..Len(s) |-> s[p[i]]]
               /\ \A i, j \in 1..Len(s) : i < j => Sorted(s)[i] <= Sorted(s)[j]
  <1> DEFINE n == Len(s)
             L == {[i \in 1..n |-> s[p[i]]] : p \in Bijection(1..n, 1..n)}
             T(t) == \A i, j \in 1..n : i < j => t[i] <= t[j]
  <1>1. DOMAIN s = 1..n
    OBVIOUS
  <1>2. Sorted(s) = CHOOSE t \in L : T(t)
    BY <1>1 DEF Sorted
  <1>3. \E t \in L : T(t)
    <2>1. PICK p \in Bijection(1..n, 1..n) :
              \A i, j \in 1..n : i < j => s[p[i]] <= s[p[j]]
      BY Rearranged
    <2> DEFINE t == [i \in 1..n |-> s[p[i]]]
    <2>2. t \in L /\ T(t)
      BY <2>1
    <2> QED
      BY <2>2
  <1>4. Sorted(s) \in L /\ T(Sorted(s))
    BY <1>2, <1>3
  <1> QED
    BY <1>4

-----------------------------------------------------------------------------
(***************************************************************************)
(* Types.  The pool is in order except, while it waits to be sorted, for   *)
(* the id at its end; whose thread runs has been accepted.                 *)
(***************************************************************************)
Freeing == accepting.pc \in {"free", "sort", "keep"}

PoolSorted ==
    \A i, j \in DOMAIN available_nodes :
        i < j /\ (accepting.pc = "sort" => j < Len(available_nodes)) =>
            available_nodes[i] <= available_nodes[j]

LoopOK ==
    /\ accepting.pc = "sort" => accepting.index <= Len(taken_nodes)
    /\ accepting.pc # "accept" => accepted > 0
    /\ Freeing => \E c \in 1..(accepted - 1) : conns[c] = Caller

ThreadsOK ==
    \A c \in 1..MaxConns :
        /\ thread[c] # "none" => c <= accepted /\ (c = accepted => accepting.pc = "accept")
        /\ thread[c] # "served" => answer[c] = NoAnswer

TypeInv == TypeOK /\ PoolSorted /\ LoopOK /\ ThreadsOK

LEMMA IdsAre == Ids \subseteq Nat \ {0} /\ Pool \in Seq(Ids)
  BY PoolAssumption DEF Ids, NoAnswer

LEMMA TypeInit == Init => TypeInv
  <1> SUFFICES ASSUME Init PROVE TypeInv
    OBVIOUS
  <1> USE PoolAssumption DEF Init
  <1>1. TypeOK
    <2>1. Pool \in Seq(Ids)
      BY IdsAre
    <2>2. accepting \in [pc : {"accept", "free", "sort", "keep", "start"},
                         index : 1..(Len(taken_nodes) + 1), kept : Seq(Node)]
      OBVIOUS
    <2>3. /\ conns \in Seq(Address) /\ Len(conns) <= MaxConns
          /\ accepted \in 0..Len(conns) /\ taken_nodes \in Seq(Node)
      OBVIOUS
    <2>4. /\ thread \in [1..MaxConns -> {"none", "recv", "record", "pop", "served", "dead"}]
          /\ answer \in [1..MaxConns -> Ids \cup {NoAnswer, NoId}]
      OBVIOUS
    <2> QED
      BY <2>1, <2>2, <2>3, <2>4 DEF TypeOK
  <1>2. PoolSorted
    <2>1. \A i, j \in DOMAIN Pool : i < j => Pool[i] <= Pool[j]
      <3>1. \A i \in DOMAIN Pool : Pool[i] \in Nat
        OBVIOUS
      <3> QED
        BY <3>1
    <2> QED
      BY <2>1 DEF PoolSorted
  <1> QED
    BY <1>1, <1>2 DEF TypeInv, LoopOK, ThreadsOK, Freeing

LEMMA TypeConnect ==
    ASSUME TypeInv, NEW a \in Address, Connect(a)
    PROVE  TypeInv'
  <1> USE DEF Connect, serverVars
  <1>1. /\ conns \in Seq(Address) /\ accepted \in 0..Len(conns) /\ Len(conns) \in Nat
    BY DEF TypeInv, TypeOK
  <1>2. /\ conns' \in Seq(Address) /\ Len(conns') = Len(conns) + 1
        /\ \A d \in 1..accepted : conns'[d] = conns[d]
    BY <1>1
  <1>3. TypeOK'
    BY <1>1, <1>2, PoolAssumption DEF TypeInv, TypeOK
  <1>4. LoopOK'
    BY <1>1, <1>2 DEF TypeInv, LoopOK, Freeing, Caller
  <1> QED
    BY <1>3, <1>4 DEF TypeInv, PoolSorted, ThreadsOK

LEMMA TypeAcceptLoop ==
    ASSUME TypeInv, AcceptLoop
    PROVE  TypeInv'
  <1> USE DEF TypeInv, GoTo
  <1>0. /\ conns \in Seq(Address) /\ accepted \in 0..Len(conns) /\ Len(conns) \in Nat
        /\ accepting.index \in 1..(Len(taken_nodes) + 1) /\ Len(taken_nodes) \in Nat
        /\ accepting.kept \in Seq(Node) /\ taken_nodes \in Seq(Node)
        /\ available_nodes \in Seq(Ids)
    BY DEF TypeOK
  <1>1. CASE Accept
    <2>1. accepted' = accepted + 1 /\ accepted + 1 \in 0..Len(conns)
      BY <1>0, <1>1 DEF Accept
    <2>2. TypeOK'
      <3>1. disorder' \in BOOLEAN
        <4>1. CASE disorder' = disorder
          BY <4>1 DEF TypeOK
        <4>2. CASE disorder' = (disorder \/ AtWork # {})
          BY <4>2 DEF TypeOK
        <4> QED
          BY <1>1, <4>1, <4>2 DEF Accept
      <3>2. \/ accepting' = [pc |-> "free", index |-> 1, kept |-> <<>>]
            \/ accepting' = [pc |-> "start", index |-> 1, kept |-> <<>>]
        BY <1>1 DEF Accept
      <3>3. accepting' \in [pc : {"accept", "free", "sort", "keep", "start"},
                            index : 1..(Len(taken_nodes) + 1), kept : Seq(Node)]
        <4>1. 1 \in 1..(Len(taken_nodes) + 1) /\ <<>> \in Seq(Node)
          BY <1>0
        <4>2. CASE accepting' = [pc |-> "free", index |-> 1, kept |-> <<>>]
          BY ONLY <4>1, <4>2
        <4>3. CASE accepting' = [pc |-> "start", index |-> 1, kept |-> <<>>]
          BY ONLY <4>1, <4>3
        <4> QED
          BY ONLY <3>2, <4>2, <4>3
      <3>4. UNCHANGED <<conns, thread, answer, available_nodes, taken_nodes>>
        BY <1>1 DEF Accept
      <3> QED
        BY <2>1, <3>1, <3>3, <3>4 DEF TypeOK
    <2>3. LoopOK'
      BY <1>0, <1>1, <2>1 DEF Accept, LoopOK, Freeing, Caller
    <2>4. PoolSorted' /\ ThreadsOK'
      BY <1>0, <1>1, <2>1, PoolAssumption DEF Accept, PoolSorted, ThreadsOK, TypeOK
    <2> QED
      BY <2>2, <2>3, <2>4
  <1>2. CASE FreeNext
    <2>0. /\ accepted' = accepted /\ conns' = conns /\ taken_nodes' = taken_nodes
          /\ thread' = thread /\ answer' = answer /\ disorder' = disorder
      BY <1>2 DEF FreeNext
    <2>1. accepting.pc = "free" /\ accepting'.pc \in {"free", "sort", "keep"}
      BY <1>2 DEF FreeNext
    <2>2. LoopOK'
      BY <1>0, <1>2, <2>0 DEF FreeNext, LoopOK, Freeing, Caller
    <2>3. ThreadsOK'
      BY <2>0, <2>1 DEF ThreadsOK
    <2>4. TypeOK' /\ PoolSorted'
      <3>1. CASE accepting.index > Len(taken_nodes)
        <4>1. /\ accepting' = [pc |-> "keep", index |-> 1, kept |-> <<>>]
              /\ available_nodes' = available_nodes
          BY <1>2, <3>1 DEF FreeNext
        <4> QED
          BY <1>0, <2>0, <2>1, <4>1 DEF TypeOK, PoolSorted
      <3>2. CASE accepting.index <= Len(taken_nodes) /\ taken_nodes[accepting.index].address # Caller
        <4>1. /\ accepting' = [pc |-> "free", index |-> accepting.index + 1, kept |-> <<>>]
              /\ available_nodes' = available_nodes
          BY <1>0, <1>2, <3>2 DEF FreeNext
        <4> QED
          BY <1>0, <2>0, <2>1, <3>2, <4>1 DEF TypeOK, PoolSorted
      <3>3. CASE accepting.index <= Len(taken_nodes) /\ taken_nodes[accepting.index].address = Caller
        <4> DEFINE id == taken_nodes[accepting.index].id
        <4>1. id \in Ids /\ available_nodes' = Append(available_nodes, id)
              /\ accepting' = [pc |-> "sort", index |-> accepting.index, kept |-> <<>>]
          <5>1. taken_nodes[accepting.index] \in Node /\ ~(accepting.index > Len(taken_nodes))
            BY <1>0, <3>3
          <5>2. id \in Ids
            BY <5>1 DEF Node
          <5> QED
            BY <1>2, <3>3, <5>1, <5>2 DEF FreeNext, Freed
        <4>2. TypeOK'
          BY <1>0, <2>0, <4>1 DEF TypeOK
        <4>3. PoolSorted'
          BY <1>0, <2>1, <4>1 DEF PoolSorted
        <4> QED
          BY <4>2, <4>3
      <3> QED
        BY <1>0, <3>1, <3>2, <3>3
    <2> QED
      BY <2>2, <2>3, <2>4
  <1>3. CASE SortPool
    <2>0. /\ accepted' = accepted /\ conns' = conns /\ taken_nodes' = taken_nodes
          /\ thread' = thread /\ answer' = answer /\ disorder' = disorder
          /\ accepting.pc = "sort" /\ available_nodes' = Sorted(available_nodes)
          /\ accepting' = [pc |-> "free", index |-> accepting.index + 1, kept |-> <<>>]
      BY <1>3 DEF SortPool
    <2>1. LoopOK'
      BY <1>0, <2>0 DEF LoopOK, Freeing, Caller
    <2>2. ThreadsOK'
      BY <2>0 DEF ThreadsOK
    <2>3. available_nodes \in Seq(Nat) /\ AlmostInOrder(available_nodes)
      <3>1. Ids \subseteq Nat
        BY IdsAre
      <3>2. /\ available_nodes = [i \in 1..Len(available_nodes) |-> available_nodes[i]]
            /\ Len(available_nodes) \in Nat
            /\ \A i \in 1..Len(available_nodes) : available_nodes[i] \in Nat
        BY <1>0, <3>1
      <3>3. available_nodes \in Seq(Nat)
        BY <3>2
      <3> QED
        BY <2>0, <3>3 DEF PoolSorted, AlmostInOrder
    <2> DEFINE n == Len(available_nodes)
    <2>4. PICK p \in Bijection(1..n, 1..n) :
             /\ available_nodes' = [i \in 1..n |-> available_nodes[p[i]]]
             /\ \A i, j \in 1..n : i < j => available_nodes'[i] <= available_nodes'[j]
      <3> SUFFICES ASSUME NEW t, t = Sorted(available_nodes)
                   PROVE  \E p \in Bijection(1..n, 1..n) :
                             /\ t = [i \in 1..n |-> available_nodes[p[i]]]
                             /\ \A i, j \in 1..n : i < j => t[i] <= t[j]
        BY <2>0
      <3> QED
        BY <2>3, SortedIs
    <2>5. \A i \in 1..n : p[i] \in 1..n /\ available_nodes[p[i]] \in Ids
      <3>1. p \in [1..n -> 1..n]
        BY DEF Bijection, Injection
      <3>2. \A i \in 1..n : available_nodes[i] \in Ids
        BY <1>0
      <3> QED
        BY <3>1, <3>2
    <2>6. n \in Nat
      BY <1>0
    <2> HIDE DEF n
    <2>7. available_nodes' \in Seq(Ids) /\ DOMAIN available_nodes' = 1..n
      BY <2>4, <2>5, <2>6, IsASeq
    <2>8. TypeOK'
      BY <1>0, <2>0, <2>7 DEF TypeOK, LoopOK
    <2>9. PoolSorted'
      BY <2>4, <2>7 DEF PoolSorted
    <2> QED
      BY <2>1, <2>2, <2>8, <2>9
  <1>4. CASE KeepNext
    <2>0. /\ accepted' = accepted /\ conns' = conns /\ taken_nodes' = taken_nodes
          /\ thread' = thread /\ answer' = answer /\ disorder' = disorder
          /\ available_nodes' = available_nodes
      BY <1>4 DEF KeepNext
    <2>1. accepting.pc = "keep" /\ accepting'.pc = "keep" /\ accepting.index <= Len(taken_nodes)
      BY <1>4 DEF KeepNext
    <2>2. LoopOK' /\ PoolSorted' /\ ThreadsOK'
      BY <2>0, <2>1 DEF LoopOK, Freeing, Caller, PoolSorted, ThreadsOK
    <2>3. taken_nodes[accepting.index] \in Node
      BY <1>0, <2>1
    <2>4. TypeOK'
      BY <1>0, <1>4, <2>0, <2>1, <2>3 DEF KeepNext, TypeOK
    <2> QED
      BY <2>2, <2>4
  <1>5. CASE ReplaceTaken
    <2>1. TypeOK'
      BY <1>0, <1>5 DEF ReplaceTaken, TypeOK
    <2> QED
      BY <1>0, <1>5, <2>1 DEF ReplaceTaken, LoopOK, Freeing, Caller, PoolSorted, ThreadsOK
  <1>6. CASE StartThread
    <2>0. accepted \in 1..MaxConns
      BY <1>0, <1>6, PoolAssumption DEF StartThread, TypeOK, LoopOK
    <2>1. TypeOK'
      BY <1>0, <1>6, <2>0 DEF StartThread, TypeOK
    <2>2. ThreadsOK'
      <3> SUFFICES ASSUME NEW c \in 1..MaxConns
                   PROVE  /\ thread'[c] # "none" =>
                                c <= accepted' /\ (c = accepted' => accepting'.pc = "accept")
                          /\ thread'[c] # "served" => answer'[c] = NoAnswer
        BY DEF ThreadsOK
      <3>1. thread'[c] = IF c = accepted THEN "recv" ELSE thread[c]
        BY <1>6, <2>0 DEF StartThread, TypeOK
      <3>2. thread[accepted] # "served"
        BY <1>6, <2>0 DEF StartThread, ThreadsOK
      <3> QED
        BY <1>6, <2>0, <3>1, <3>2 DEF StartThread, ThreadsOK
    <2> QED
      BY <1>0, <1>6, <2>1, <2>2 DEF StartThread, LoopOK, Freeing, PoolSorted
  <1> QED
    BY <1>1, <1>2, <1>3, <1>4, <1>5, <1>6 DEF AcceptLoop

LEMMA TypeThread ==
    ASSUME TypeInv, NEW c \in 1..MaxConns, HouseholdThread(c)
    PROVE  TypeInv'
  <1> USE DEF TypeInv, Answer
  <1>0. /\ conns \in Seq(Address) /\ accepted \in 0..Len(conns) /\ Len(conns) \in Nat
        /\ accepting.index \in 1..(Len(taken_nodes) + 1) /\ Len(taken_nodes) \in Nat
        /\ taken_nodes \in Seq(Node) /\ available_nodes \in Seq(Ids)
        /\ thread \in [1..MaxConns -> {"none", "recv", "record", "pop", "served", "dead"}]
        /\ answer \in [1..MaxConns -> Ids \cup {NoAnswer, NoId}]
        /\ MaxConns \in Nat
    BY PoolAssumption DEF TypeOK
  <1>1. conns' = conns /\ accepted' = accepted /\ accepting' = accepting
    BY DEF HouseholdThread, TestPool, RecordId, PopId, Fail
  <1>2. CASE TestPool(c)
    <2>1. TypeOK'
      BY <1>0, <1>2 DEF TestPool, TypeOK
    <2>2. ThreadsOK'
      BY <1>0, <1>2 DEF TestPool, ThreadsOK
    <2> QED
      BY <1>2, <2>1, <2>2 DEF TestPool, LoopOK, Freeing, Caller, PoolSorted
  <1>3. CASE RecordId(c)
    <2>1. conns[c] \in Address /\ Head(available_nodes) \in Ids
      BY <1>0, <1>3 DEF RecordId, ThreadsOK
    <2>2. [address |-> conns[c], id |-> Head(available_nodes)] \in Node
      BY <2>1 DEF Node
    <2>3. taken_nodes' \in Seq(Node) /\ Len(taken_nodes') = Len(taken_nodes) + 1
      BY <1>0, <1>3, <2>2 DEF RecordId
    <2>4. TypeOK'
      BY <1>0, <1>3, <2>3 DEF RecordId, TypeOK
    <2>5. ThreadsOK' /\ LoopOK'
      BY <1>0, <1>3, <2>3 DEF RecordId, ThreadsOK, LoopOK, Freeing, Caller
    <2> QED
      BY <1>3, <2>4, <2>5 DEF RecordId, PoolSorted
  <1>4. CASE PopId(c)
    <2>1. /\ available_nodes # <<>> /\ Head(available_nodes) \in Ids
          /\ available_nodes' = Tail(available_nodes)
          /\ available_nodes' \in Seq(Ids) /\ Len(available_nodes') = Len(available_nodes) - 1
          /\ \A i \in DOMAIN available_nodes' :
                i + 1 \in DOMAIN available_nodes /\ available_nodes'[i] = available_nodes[i + 1]
      BY <1>0, <1>4 DEF PopId, Popped
    <2>2. TypeOK'
      BY <1>0, <1>4, <2>1 DEF PopId, TypeOK
    <2>3. PoolSorted'
      <3> SUFFICES ASSUME NEW i \in DOMAIN available_nodes', NEW j \in DOMAIN available_nodes', i < j,
                          accepting'.pc = "sort" => j < Len(available_nodes')
                   PROVE  available_nodes'[i] <= available_nodes'[j]
        BY DEF PoolSorted
      <3>1. i \in Nat /\ j \in Nat /\ i + 1 < j + 1
        BY <2>1
      <3> QED
        BY <1>0, <1>1, <2>1, <3>1 DEF PoolSorted
    <2>4. ThreadsOK' /\ LoopOK'
      BY <1>0, <1>4 DEF PopId, ThreadsOK, LoopOK, Freeing, Caller
    <2> QED
      BY <2>2, <2>3, <2>4
  <1>5. CASE Fail(c)
    <2>1. TypeOK'
      BY <1>0, <1>5 DEF Fail, TypeOK
    <2>2. ThreadsOK' /\ LoopOK'
      BY <1>0, <1>5 DEF Fail, AtWork, ThreadsOK, LoopOK, Freeing, Caller
    <2> QED
      BY <1>5, <2>1, <2>2 DEF Fail, PoolSorted
  <1> QED
    BY <1>2, <1>3, <1>4, <1>5 DEF HouseholdThread

LEMMA TypeKeeps == TypeInv /\ [Next]_vars => TypeInv'
  <1> SUFFICES ASSUME TypeInv, [Next]_vars PROVE TypeInv'
    OBVIOUS
  <1>1. CASE Next
    BY <1>1, TypeConnect, TypeAcceptLoop, TypeThread DEF Next
  <1>2. CASE UNCHANGED vars
    BY <1>2 DEF vars, serverVars, TypeInv, TypeOK, PoolSorted, LoopOK, ThreadsOK, Freeing, Caller
  <1> QED
    BY <1>1, <1>2

(* Every variable has its type; the index of the accept loop stays within  *)
(* a list that only other threads lengthen, and sorting loses and invents  *)
(* no id (server.py:31-37).                                                *)
THEOREM TypeCorrect == Spec => []TypeOK
  <1>1. TypeInv => TypeOK
    BY DEF TypeInv
  <1> QED
    BY TypeInit, TypeKeeps, <1>1, PTL DEF Spec

-----------------------------------------------------------------------------
(***************************************************************************)
(* The book that the two lists keep, as long as nothing has overlapped.    *)
(***************************************************************************)
(* The newest connection of its household among those accepted.            *)
Fresh(c) == \A d \in (c + 1)..accepted : conns[d] # conns[c]
InPool(id) == \E j \in DOMAIN available_nodes : available_nodes[j] = id
NodeAt(c, id) == [address |-> conns[c], id |-> id]

(* A thread at the lists is alone there, and is the household's last one.  *)
OneAtATime ==
    /\ \A c, d \in AtWork : c = d
    /\ \A c \in AtWork : ~Freeing /\ Fresh(c) /\ available_nodes # <<>>

EachOnce(nodes) ==
    \A i, j \in DOMAIN nodes : i # j =>
        nodes[i].id # nodes[j].id /\ nodes[i].address # nodes[j].address

(* The ids the accept loop has taken back already, noted until it is done. *)
Back(i) ==
    /\ taken_nodes[i].address = Caller
    /\ \/ accepting.pc = "free" /\ i < accepting.index
       \/ accepting.pc = "sort" /\ i <= accepting.index
       \/ accepting.pc = "keep"

(* The id a thread has noted but not yet popped.                           *)
Noting(c, i) == thread[c] = "pop" /\ i = Len(taken_nodes)

PoolOnce == \A i, j \in DOMAIN available_nodes : available_nodes[i] = available_nodes[j] => i = j

(* Every id is in a list, and in both only while it changes hands.         *)
Places ==
    /\ \A id \in Ids : InPool(id) \/ \E i \in DOMAIN taken_nodes : taken_nodes[i].id = id
    /\ \A i \in DOMAIN taken_nodes :
           InPool(taken_nodes[i].id) <=> Back(i) \/ \E c \in AtWork : Noting(c, i)
    /\ \A c \in AtWork : thread[c] = "pop" =>
           /\ taken_nodes # <<>>
           /\ taken_nodes[Len(taken_nodes)] = NodeAt(c, Head(available_nodes))

(* The copy under construction holds what others than the caller have.     *)
KeptOK ==
    accepting.pc = "keep" =>
        /\ EachOnce(accepting.kept)
        /\ \A k \in DOMAIN accepting.kept : \E i \in 1..(accepting.index - 1) :
              accepting.kept[k] = taken_nodes[i] /\ taken_nodes[i].address # Caller
        /\ \A i \in 1..(accepting.index - 1) : taken_nodes[i].address # Caller =>
              \E k \in DOMAIN accepting.kept : accepting.kept[k] = taken_nodes[i]

(* Nothing is noted under the address of a household that is asking.       *)
Asking(c) == thread[c] \in {"recv", "record"} \/ (c = accepted /\ accepting.pc = "start")
NotNoted ==
    \A c \in 1..MaxConns : Asking(c) /\ Fresh(c) =>
        \A i \in DOMAIN taken_nodes : taken_nodes[i].address # conns[c]

(* What is noted is noted under the address of an accepted connection.     *)
Known == \A i \in DOMAIN taken_nodes : \E d \in 1..accepted : conns[d] = taken_nodes[i].address

(* Who has an id is noted under it.                                        *)
Noted ==
    \A c \in 1..MaxConns : answer[c] \in Ids /\ Fresh(c) =>
        \E i \in DOMAIN taken_nodes : taken_nodes[i] = NodeAt(c, answer[c])

Capacity == Cardinality(Households) <= Len(Pool)
(* No thread finds the pool empty, unless there are too few ids.           *)
Served ==
    /\ \A c \in 1..MaxConns : thread[c] # "dead"
    /\ Capacity => \A c \in 1..MaxConns : answer[c] # NoId

Book ==
    /\ OneAtATime /\ EachOnce(taken_nodes) /\ PoolOnce /\ Places
    /\ KeptOK /\ NotNoted /\ Known /\ Noted /\ Served

UInv == TypeInv /\ (Undisturbed => Book)

(* What the type invariant gives the steps below.                          *)
Typed ==
    /\ conns \in Seq(Address) /\ Len(conns) \in Nat /\ Len(conns) <= MaxConns /\ MaxConns \in Nat
    /\ accepted \in 0..Len(conns)
    /\ accepting \in [pc : {"accept", "free", "sort", "keep", "start"},
                      index : 1..(Len(taken_nodes) + 1), kept : Seq(Node)]
    /\ thread \in [1..MaxConns -> {"none", "recv", "record", "pop", "served", "dead"}]
    /\ answer \in [1..MaxConns -> Ids \cup {NoAnswer, NoId}]
    /\ available_nodes \in Seq(Ids) /\ taken_nodes \in Seq(Node)
    /\ Len(available_nodes) \in Nat /\ Len(taken_nodes) \in Nat
    /\ Ids \subseteq Nat \ {0}
    /\ \A i \in DOMAIN available_nodes : available_nodes[i] \in Ids
    /\ \A i \in DOMAIN taken_nodes : taken_nodes[i] \in Node
    /\ \A c \in 1..MaxConns : thread[c] # "none" =>
          c \in 1..accepted /\ (c = accepted => accepting.pc = "accept")
    /\ \A c \in 1..MaxConns : thread[c] # "served" => answer[c] = NoAnswer
    /\ LoopOK

LEMMA TypedHolds == TypeInv => Typed
  <1> SUFFICES ASSUME TypeInv PROVE Typed
    OBVIOUS
  <1>1. Ids \subseteq Nat \ {0}
    BY IdsAre
  <1>2. /\ \A i \in DOMAIN available_nodes : available_nodes[i] \in Ids
        /\ \A i \in DOMAIN taken_nodes : taken_nodes[i] \in Node
    BY DEF TypeInv, TypeOK
  <1>3. Len(conns) \in Nat /\ Len(available_nodes) \in Nat /\ Len(taken_nodes) \in Nat /\ MaxConns \in Nat
    BY PoolAssumption DEF TypeInv, TypeOK
  <1>4. accepted \in Nat
    BY <1>3 DEF TypeInv, TypeOK
  <1> QED
    BY <1>1, <1>2, <1>3, <1>4 DEF Typed, TypeInv, TypeOK, ThreadsOK

(* Who came back once, came back.                                          *)
LEMMA TwiceIsReconnected ==
    ASSUME Typed, NEW c \in 1..Len(conns), NEW d \in 1..Len(conns), c # d, conns[c] = conns[d]
    PROVE  Reconnected(conns[c])
  <1> DEFINE S == {e \in 1..Len(conns) : conns[e] = conns[c]}
  <1>1. IsFiniteSet(S)
    <2>1. IsFiniteSet(1..Len(conns))
      BY FS_Interval DEF Typed
    <2> QED
      BY <2>1, FS_Subset
  <1>2. {c, d} \subseteq S
    OBVIOUS
  <1>3. Cardinality({c, d}) = 2
    <2>1. IsFiniteSet({c}) /\ Cardinality({c}) = 1
      BY FS_Singleton
    <2>2. Cardinality({c} \cup {d}) = Cardinality({c}) + 1
      BY <2>1, FS_AddElement
    <2>3. {c, d} = {c} \cup {d}
      OBVIOUS
    <2> QED
      BY <2>1, <2>2, <2>3
  <1>4. Cardinality({c, d}) <= Cardinality(S) /\ Cardinality(S) \in Nat
    BY <1>1, <1>2, FS_Subset, FS_CardinalityType
  <1> HIDE DEF S
  <1>5. Cardinality(S) > 1
    BY <1>3, <1>4
  <1> QED
    BY <1>5 DEF Reconnected, S

(* A history that is undisturbed after a step was so before it.            *)
LEMMA UndisturbedBack ==
    ASSUME TypeInv, Next, Undisturbed'
    PROVE  Undisturbed
  <1>1. ~disorder
    <2>1. disorder => disorder'
      BY DEF Next, Connect, AcceptLoop, Accept, FreeNext, SortPool, KeepNext, ReplaceTaken,
             StartThread, HouseholdThread, TestPool, RecordId, PopId, Fail
    <2> QED
      BY <2>1 DEF Undisturbed
  <1>2. /\ Len(conns) \in Nat /\ Len(conns') \in Nat /\ Len(conns) <= Len(conns')
        /\ \A c \in 1..Len(conns) : conns'[c] = conns[c]
    <2>1. conns \in Seq(Address) /\ Len(conns) \in Nat
      BY TypedHolds DEF Typed
    <2>2. CASE conns' = conns
      BY <2>1, <2>2
    <2>3. CASE \E a \in Address : conns' = Append(conns, a)
      BY <2>1, <2>3
    <2> QED
      BY <2>2, <2>3 DEF Next, Connect, AcceptLoop, Accept, FreeNext, SortPool, KeepNext,
             ReplaceTaken, StartThread, HouseholdThread, TestPool, RecordId, PopId, Fail
  <1>3. ASSUME NEW a, Reconnected(a)
        PROVE  Reconnected(a)'
    <2> DEFINE S == {c \in 1..Len(conns) : conns[c] = a}
               T == {c \in 1..Len(conns') : conns'[c] = a}
    <2>1. IsFiniteSet(T)
      <3>1. IsFiniteSet(1..Len(conns'))
        BY <1>2, FS_Interval
      <3> QED
        BY <3>1, FS_Subset
    <2>2. S \subseteq T
      BY <1>2
    <2>3. Cardinality(S) <= Cardinality(T) /\ IsFiniteSet(S)
      BY <2>1, <2>2, FS_Subset
    <2>4. Cardinality(S) \in Nat /\ Cardinality(T) \in Nat
      BY <2>1, <2>3, FS_CardinalityType
    <2>5. Cardinality(S) > 1
      BY <1>3 DEF Reconnected
    <2> HIDE DEF S, T
    <2>6. Cardinality(T) > 1
      BY <2>3, <2>4, <2>5
    <2> QED
      BY <2>6 DEF Reconnected, T
  <1>4. \A p \in Within : ~Reconnected(p[1])
    <2> SUFFICES ASSUME NEW p \in Within, Reconnected(p[1])
                 PROVE  FALSE
      OBVIOUS
    <2> DEFINE a == p[1]
    <2> HIDE DEF a
    <2>1. Reconnected(a)'
      BY <1>3 DEF a
    <2>2. ~Reconnected(a)'
      <3>1. \A q \in Within : ~(Cardinality({c \in 1..Len(conns') : conns'[c] = q[1]}) > 1)
        BY DEF Undisturbed, Reconnected
      <3> QED
        BY <3>1 DEF a, Reconnected
    <2> QED
      BY <2>1, <2>2
  <1> QED
    BY <1>1, <1>4 DEF Undisturbed

(* Under the caller's address alone is taken off the list what is noted.   *)
LEMMA KeptIs ==
    ASSUME Typed, Undisturbed, Freeing, NEW node \in Node
    PROVE  Kept(node) <=> node.address # Caller
  <1>1. PICK c \in 1..(accepted - 1) : conns[c] = Caller
    BY DEF Typed, LoopOK
  <1>2. accepted \in 1..Len(conns) /\ c \in 1..Len(conns) /\ c # accepted
    BY DEF Typed, LoopOK, Freeing
  <1>3. Reconnected(Caller)
    BY <1>1, <1>2, TwiceIsReconnected DEF Caller
  <1>4. <<Caller, node.address>> \notin Within
    BY <1>3 DEF Undisturbed
  <1> QED
    BY <1>4 DEF Kept

(* The newest connection of the caller is the one being accepted.          *)
LEMMA FreshCaller ==
    ASSUME Typed, Freeing, NEW c \in 1..accepted, Fresh(c), conns[c] = Caller
    PROVE  c = accepted
  BY DEF Typed, Fresh, Caller

-----------------------------------------------------------------------------
LEMMA BookInit == Init => Book
  <1> SUFFICES ASSUME Init PROVE Book
    OBVIOUS
  <1> USE DEF Init
  <1>1. AtWork = {} /\ taken_nodes = <<>> /\ available_nodes = Pool
    BY DEF AtWork
  <1>2. \A id \in Ids : InPool(id) /\ id # NoAnswer
    BY IdsAre DEF Ids, InPool, NoAnswer
  <1>3. PoolOnce
    <2>1. \A i \in DOMAIN Pool : Pool[i] \in Nat /\ i \in Nat
      BY PoolAssumption
    <2>2. \A i, j \in DOMAIN Pool : Pool[i] = Pool[j] => ~(i < j) /\ ~(j < i)
      BY <2>1, PoolAssumption
    <2> QED
      BY <1>1, <2>1, <2>2 DEF PoolOnce
  <1>4. Noted
    BY <1>2 DEF Noted
  <1>5. Served
    BY DEF Served, NoAnswer, NoId
  <1> QED
    BY <1>1, <1>2, <1>3, <1>4, <1>5
    DEF Book, OneAtATime, EachOnce, Places, KeptOK, NotNoted, Known

(* A new connection leaves the accepted ones alone.                        *)
LEMMA BookConnect ==
    ASSUME Typed, Book, NEW a \in Address, Connect(a)
    PROVE  Book'
  <1> USE DEF Connect, serverVars
  <1>1. \A d \in 1..accepted : conns'[d] = conns[d]
    BY DEF Typed
  <1>2. \A c \in 1..accepted : Fresh(c)' <=> Fresh(c)
    BY <1>1 DEF Fresh, Typed
  <1>3. \A c \in 1..MaxConns : thread[c] # "none" => c \in 1..accepted
    BY DEF Typed
  <1>4. AtWork' = AtWork /\ Freeing' = Freeing /\ AtWork \subseteq 1..accepted
    BY <1>3 DEF AtWork, Freeing
  <1>5. OneAtATime'
    BY <1>2, <1>4 DEF Book, OneAtATime
  <1>6. accepting.pc # "accept" => accepted \in 1..accepted /\ Caller' = Caller
    BY <1>1 DEF Typed, LoopOK, Caller
  <1>7. \A i : Back(i)' <=> Back(i)
    BY <1>6 DEF Back
  <1>8. Places'
    BY <1>1, <1>4, <1>7 DEF Book, Places, InPool, Noting, NodeAt
  <1>9. KeptOK'
    BY <1>6 DEF Book, KeptOK, EachOnce
  <1>10. NotNoted'
    BY <1>1, <1>2, <1>3, <1>6 DEF Book, NotNoted, Asking
  <1>11. Known'
    BY <1>1 DEF Book, Known
  <1>12. Noted'
    <2>1. \A c \in 1..MaxConns : answer[c] \in Ids => c \in 1..accepted
      BY <1>3 DEF Typed, NoAnswer
    <2> QED
      BY <1>1, <1>2, <2>1 DEF Book, Noted, NodeAt
  <1>13. Served'
    <2>1. Capacity' => Capacity
      <3>1. Households \subseteq Households' /\ IsFiniteSet(Households')
        <4>1. /\ Len(conns') \in Nat /\ Len(conns) \in Nat /\ Len(conns) <= Len(conns')
              /\ \A c \in 1..Len(conns) : conns'[c] = conns[c]
          BY DEF Typed
        <4>2. IsFiniteSet(Households')
          <5>1. Households' \subseteq Address
            <6>1. conns' \in Seq(Address)
              BY DEF Typed
            <6> QED
              BY <6>1 DEF Households
          <5> QED
            BY <5>1, AddressAssumption, FS_Subset
        <4>3. \A c \in 1..Len(conns) : c \in 1..Len(conns') /\ conns'[c] = conns[c]
          BY <4>1
        <4>4. Households \subseteq {conns'[c] : c \in 1..Len(conns')}
          BY <4>3 DEF Households
        <4> QED
          BY <4>2, <4>4 DEF Households
      <3>2. IsFiniteSet(Households) /\ Cardinality(Households) <= Cardinality(Households')
        BY <3>1, FS_Subset
      <3>3. Cardinality(Households) \in Nat /\ Cardinality(Households') \in Nat /\ Len(Pool) \in Nat
        BY <3>1, <3>2, FS_CardinalityType, PoolAssumption
      <3> QED
        BY <3>2, <3>3 DEF Capacity
    <2> QED
      BY <2>1 DEF Book, Served
  <1>14. EachOnce(taken_nodes)' /\ PoolOnce'
    BY DEF Book, EachOnce, PoolOnce
  <1> QED
    BY <1>5, <1>8, <1>9, <1>10, <1>11, <1>12, <1>13, <1>14 DEF Book

LEMMA BookAccept ==
    ASSUME Typed, Book, Accept, Undisturbed'
    PROVE  Book'
  <1>1. /\ accepting.pc = "accept" /\ accepted' = accepted + 1 /\ accepted < Len(conns)
        /\ conns' = conns /\ thread' = thread /\ answer' = answer
        /\ available_nodes' = available_nodes /\ taken_nodes' = taken_nodes
    BY DEF Accept
  <1>2. /\ AtWork' = AtWork
        /\ \/ accepting'.pc = "free" /\ accepting'.index = 1 /\ AtWork = {}
           \/ /\ accepting'.pc = "start"
              /\ \A d \in 1..accepted : conns[d] # conns[accepted + 1]
    <2>1. AtWork' = AtWork
      BY <1>1 DEF AtWork
    <2>2. ~disorder'
      BY DEF Undisturbed
    <2>3. CASE \E c \in 1..accepted : conns[c] = conns[accepted + 1]
      <3>1. disorder' = (disorder \/ AtWork # {})
        BY <2>3 DEF Accept
      <3>2. AtWork = {}
        BY <2>2, <3>1
      <3> QED
        BY <2>1, <2>3, <3>2 DEF Accept, GoTo
    <2>4. CASE ~\E c \in 1..accepted : conns[c] = conns[accepted + 1]
      BY <2>1, <2>4 DEF Accept, GoTo
    <2> QED
      BY <2>3, <2>4
  <1>3. \A c : Fresh(c)' => Fresh(c)
    BY <1>1 DEF Fresh, Typed
  <1>4. \A c \in 1..MaxConns : thread[c] # "none" => c \in 1..accepted
    BY DEF Typed
  <1>5. OneAtATime'
    <2>1. CASE AtWork = {}
      BY <1>2, <2>1 DEF OneAtATime
    <2>2. CASE /\ accepting'.pc = "start"
               /\ \A d \in 1..accepted : conns[d] # conns[accepted + 1]
      <3>1. ASSUME NEW c \in AtWork
            PROVE  Fresh(c)' /\ ~Freeing' /\ available_nodes' # <<>>
        <4>1. c \in 1..accepted /\ Fresh(c) /\ available_nodes # <<>>
          BY <1>4 DEF AtWork, Book, OneAtATime
        <4>2. Fresh(c)'
          BY <1>1, <2>2, <4>1 DEF Fresh, Typed
        <4> QED
          BY <1>1, <2>2, <4>1, <4>2 DEF Freeing
      <3> QED
        BY <1>2, <3>1 DEF Book, OneAtATime
    <2> QED
      BY <1>2, <2>1, <2>2
  <1>6. EachOnce(taken_nodes)' /\ PoolOnce' /\ KeptOK'
    BY <1>1, <1>2 DEF Book, EachOnce, PoolOnce, KeptOK
  <1>7. Places'
    <2>1. \A i \in DOMAIN taken_nodes : ~Back(i) /\ ~Back(i)'
      <3>1. \A i \in DOMAIN taken_nodes : ~(i < 1)
        BY DEF Typed
      <3> QED
        BY <1>1, <1>2, <3>1 DEF Back
    <2>2. \A id : InPool(id)' <=> InPool(id)
      BY <1>1 DEF InPool
    <2> QED
      BY <1>1, <1>2, <2>1, <2>2 DEF Book, Places, Noting, NodeAt
  <1>8. NotNoted'
    <2> SUFFICES ASSUME NEW c \in 1..MaxConns, Asking(c)', Fresh(c)', NEW i \in DOMAIN taken_nodes
                 PROVE  taken_nodes[i].address # conns[c]
      BY <1>1 DEF NotNoted
    <2>1. CASE thread[c] \in {"recv", "record"}
      BY <1>3, <2>1 DEF Book, NotNoted, Asking
    <2>2. CASE c = accepted + 1 /\ accepting'.pc = "start"
      BY <1>2, <2>2 DEF Book, Known
    <2> QED
      BY <1>1, <2>1, <2>2 DEF Asking
  <1>9. Known' /\ Noted' /\ Served'
    <2>1. Known'
      BY <1>1 DEF Typed, Book, Known
    <2>2. Noted'
      BY <1>1, <1>3 DEF Book, Noted, NodeAt
    <2>3. Served'
      BY <1>1 DEF Book, Served, Capacity, Households
    <2> QED
      BY <2>1, <2>2, <2>3
  <1> QED
    BY <1>5, <1>6, <1>7, <1>8, <1>9 DEF Book

(* While the accept loop is at the lists, no thread is.                    *)
LEMMA LoopAlone ==
    ASSUME Typed, Book, Freeing
    PROVE  AtWork = {}
  BY DEF Book, OneAtATime

LEMMA BookFreeNext ==
    ASSUME Typed, Book, FreeNext
    PROVE  Book'
  <1>1. /\ accepting.pc = "free" /\ conns' = conns /\ accepted' = accepted /\ thread' = thread
        /\ answer' = answer /\ taken_nodes' = taken_nodes /\ accepting'.pc \in {"free", "sort", "keep"}
    BY DEF FreeNext, GoTo
  <1>2. AtWork = {} /\ AtWork' = {} /\ Caller' = Caller
    BY <1>1, LoopAlone DEF Freeing, AtWork, Caller
  <1>3. accepting.index \in 1..(Len(taken_nodes) + 1) /\ Len(taken_nodes) \in Nat
    BY DEF Typed
  <1>4. KeptOK' /\ PoolOnce' /\ Places'
    <2>1. CASE ~(/\ accepting.index <= Len(taken_nodes)
                 /\ taken_nodes[accepting.index].address = Caller)
      <3>1. available_nodes' = available_nodes
        BY <1>3, <2>1 DEF FreeNext
      <3>2. \/ /\ accepting.index > Len(taken_nodes)
               /\ accepting' = [pc |-> "keep", index |-> 1, kept |-> <<>>]
            \/ /\ accepting.index <= Len(taken_nodes)
               /\ taken_nodes[accepting.index].address # Caller
               /\ accepting' = [pc |-> "free", index |-> accepting.index + 1, kept |-> <<>>]
        BY <1>3, <2>1 DEF FreeNext, GoTo
      <3>3. \A i \in DOMAIN taken_nodes : Back(i)' <=> Back(i)
        <4>1. \A i \in DOMAIN taken_nodes : i \in 1..Len(taken_nodes)
          BY DEF Typed
        <4>2. CASE /\ accepting.index > Len(taken_nodes)
                   /\ accepting' = [pc |-> "keep", index |-> 1, kept |-> <<>>]
          BY <1>1, <1>2, <1>3, <4>1, <4>2 DEF Back
        <4>3. CASE /\ accepting.index <= Len(taken_nodes)
                   /\ taken_nodes[accepting.index].address # Caller
                   /\ accepting' = [pc |-> "free", index |-> accepting.index + 1, kept |-> <<>>]
          BY <1>1, <1>2, <1>3, <4>1, <4>3 DEF Back
        <4> QED
          BY <3>2, <4>2, <4>3
      <3>4. KeptOK'
        BY <3>2 DEF KeptOK, EachOnce
      <3>5. PoolOnce'
        BY <3>1 DEF Book, PoolOnce
      <3> QED
        BY <1>1, <1>2, <3>1, <3>3, <3>4, <3>5 DEF Book, Places, InPool
    <2>2. CASE /\ accepting.index <= Len(taken_nodes)
               /\ taken_nodes[accepting.index].address = Caller
      <3> DEFINE k == accepting.index
                 id == taken_nodes[k].id
      <3>1. /\ available_nodes' = Append(available_nodes, id)
            /\ accepting' = [pc |-> "sort", index |-> k, kept |-> <<>>]
        <4>1. ~(k > Len(taken_nodes))
          BY <1>3, <2>2
        <4> QED
          BY <2>2, <4>1 DEF FreeNext, GoTo, Freed
      <3>2. k \in DOMAIN taken_nodes /\ ~InPool(id)
        <4>1. k \in DOMAIN taken_nodes /\ ~(k < k)
          BY <1>3, <2>2
        <4> QED
          BY <1>1, <1>2, <4>1 DEF Book, Places, Back
      <3>3. PoolOnce'
        BY <3>1, <3>2 DEF Book, PoolOnce, InPool, Typed
      <3>4. \A x : InPool(x)' <=> InPool(x) \/ x = id
        <4>1. /\ available_nodes \in Seq(Ids) /\ Len(available_nodes) \in Nat
          BY DEF Typed
        <4>2. /\ DOMAIN available_nodes' = 1..(Len(available_nodes) + 1)
              /\ \A j \in 1..Len(available_nodes) : available_nodes'[j] = available_nodes[j]
              /\ available_nodes'[Len(available_nodes) + 1] = id
          BY <3>1, <4>1
        <4> QED
          BY <4>1, <4>2 DEF InPool
      <3>5. \A i \in DOMAIN taken_nodes : InPool(taken_nodes[i].id)' <=> Back(i)'
        <4> SUFFICES ASSUME NEW i \in DOMAIN taken_nodes
                     PROVE  InPool(taken_nodes[i].id)' <=> Back(i)'
          OBVIOUS
        <4>1. i \in Nat /\ k \in Nat
          BY <1>3 DEF Typed
        <4>2. InPool(taken_nodes[i].id) <=> Back(i)
          BY <1>2 DEF Book, Places
        <4>3. taken_nodes[i].id = id <=> i = k
          BY <3>2 DEF Book, EachOnce
        <4>4. Back(i)' <=> Back(i) \/ i = k
          BY <1>1, <1>2, <2>2, <3>1, <4>1 DEF Back
        <4>5. InPool(taken_nodes[i].id)' <=> InPool(taken_nodes[i].id) \/ taken_nodes[i].id = id
          <5> DEFINE x == taken_nodes[i].id
          <5>1. x' = x
            BY <1>1
          <5> HIDE DEF x
          <5>2. InPool(x)' <=> InPool(x) \/ x = id
            BY <3>1, <3>4, <5>1 DEF InPool
          <5> QED
            BY <5>2 DEF x
        <4> QED
          BY <4>2, <4>3, <4>4, <4>5
      <3>6. Places'
        BY <1>1, <1>2, <3>4, <3>5 DEF Book, Places
      <3>7. KeptOK'
        BY <3>1 DEF KeptOK
      <3> QED
        BY <3>3, <3>6, <3>7
    <2> QED
      BY <2>1, <2>2
  <1>5. OneAtATime' /\ EachOnce(taken_nodes)'
    BY <1>1, <1>2 DEF Book, OneAtATime, EachOnce
  <1>6. NotNoted' /\ Known' /\ Noted' /\ Served'
    BY <1>1 DEF Book, NotNoted, Asking, Fresh, Known, Noted, NodeAt, Served, Capacity, Households
  <1> QED
    BY <1>4, <1>5, <1>6 DEF Book

(* Sorting moves the ids about in the pool.                                *)
LEMMA BookSortPool ==
    ASSUME TypeInv, Typed, Book, SortPool
    PROVE  Book'
  <1>1. /\ accepting.pc = "sort" /\ conns' = conns /\ accepted' = accepted /\ thread' = thread
        /\ answer' = answer /\ taken_nodes' = taken_nodes
        /\ accepting' = [pc |-> "free", index |-> accepting.index + 1, kept |-> <<>>]
        /\ available_nodes' = Sorted(available_nodes)
    BY DEF SortPool, GoTo
  <1>2. AtWork = {} /\ AtWork' = {} /\ Caller' = Caller
    BY <1>1, LoopAlone DEF Freeing, AtWork, Caller
  <1> DEFINE n == Len(available_nodes)
  <1>3. \E p \in Bijection(1..n, 1..n) :
            available_nodes' = [i \in 1..n |-> available_nodes[p[i]]]
    <2>1. \A i \in DOMAIN available_nodes : available_nodes[i] \in Nat
      BY DEF Typed
    <2>2. available_nodes \in Seq(Nat)
      <3>1. n \in Nat /\ available_nodes = [i \in 1..n |-> available_nodes[i]]
        BY DEF Typed
      <3>2. \A i \in 1..n : available_nodes[i] \in Nat
        BY <2>1 DEF Typed
      <3> HIDE DEF n
      <3> QED
        BY <3>1, <3>2
    <2>3. AlmostInOrder(available_nodes)
      BY <1>1 DEF TypeInv, PoolSorted, AlmostInOrder
    <2> SUFFICES ASSUME NEW t, t = Sorted(available_nodes)
                 PROVE  \E p \in Bijection(1..n, 1..n) : t = [i \in 1..n |-> available_nodes[p[i]]]
      BY <1>1
    <2> QED
      BY <2>2, <2>3, SortedIs
  <1>4. PICK p \in Bijection(1..n, 1..n) :
            available_nodes' = [i \in 1..n |-> available_nodes[p[i]]]
    BY <1>3
  <1>5. /\ p \in [1..n -> 1..n]
        /\ \A i, j \in 1..n : p[i] = p[j] => i = j
        /\ \A j \in 1..n : \E i \in 1..n : p[i] = j
    <2>1. p \in Injection(1..n, 1..n) /\ p \in Surjection(1..n, 1..n)
      BY DEF Bijection
    <2>2. p \in [1..n -> 1..n] /\ \A i, j \in 1..n : p[i] = p[j] => i = j
      BY <2>1 DEF Injection, IsInjective
    <2>3. \A j \in 1..n : \E i \in 1..n : p[i] = j
      BY <2>1 DEF Surjection
    <2> QED
      BY <2>2, <2>3
  <1>6. DOMAIN available_nodes = 1..n
    BY DEF Typed
  <1> HIDE DEF n
  <1>7. DOMAIN available_nodes' = 1..n /\ \A i \in 1..n : available_nodes'[i] = available_nodes[p[i]]
    BY <1>4
  <1>8. PoolOnce'
    BY <1>5, <1>6, <1>7 DEF Book, PoolOnce
  <1>9. \A x : InPool(x)' <=> InPool(x)
    BY <1>5, <1>6, <1>7 DEF InPool
  <1>10. \A i \in DOMAIN taken_nodes : Back(i)' <=> Back(i)
    BY <1>1, <1>2 DEF Back, Typed
  <1>11. Places'
    <2>1. \A i \in DOMAIN taken_nodes : InPool(taken_nodes[i].id)' <=> InPool(taken_nodes[i].id)
      BY <1>1, <1>5, <1>6, <1>7 DEF InPool
    <2> QED
      BY <1>1, <1>2, <1>9, <1>10, <2>1 DEF Book, Places
  <1>12. OneAtATime' /\ EachOnce(taken_nodes)' /\ KeptOK'
    BY <1>1, <1>2 DEF Book, OneAtATime, EachOnce, KeptOK
  <1>13. NotNoted' /\ Known' /\ Noted' /\ Served'
    BY <1>1 DEF Book, NotNoted, Asking, Fresh, Known, Noted, NodeAt, Served, Capacity, Households
  <1> QED
    BY <1>8, <1>11, <1>12, <1>13 DEF Book

(* The next entry is copied unless it is the caller's.                     *)
LEMMA BookKeepNext ==
    ASSUME Typed, Book, Undisturbed, KeepNext
    PROVE  Book'
  <1> DEFINE k == accepting.index
             node == taken_nodes[k]
             kept == accepting.kept
  <1>1. /\ accepting.pc = "keep" /\ conns' = conns /\ accepted' = accepted /\ thread' = thread
        /\ answer' = answer /\ taken_nodes' = taken_nodes /\ available_nodes' = available_nodes
        /\ accepting'.pc = "keep" /\ k <= Len(taken_nodes) /\ accepting'.index = k + 1
        /\ accepting'.kept = IF Kept(node) THEN Append(kept, node) ELSE kept
    BY DEF KeepNext, GoTo
  <1>2. AtWork = {} /\ AtWork' = {} /\ Caller' = Caller
    BY <1>1, LoopAlone DEF Freeing, AtWork, Caller
  <1>3. k \in 1..Len(taken_nodes) /\ k \in DOMAIN taken_nodes /\ node \in Node /\ kept \in Seq(Node)
    BY <1>1 DEF Typed
  <1>4. Kept(node) <=> node.address # Caller
    BY <1>1, <1>3, KeptIs DEF Freeing
  <1>5. /\ EachOnce(kept)
        /\ \A l \in DOMAIN kept : \E i \in 1..(k - 1) :
              kept[l] = taken_nodes[i] /\ taken_nodes[i].address # Caller
        /\ \A i \in 1..(k - 1) : taken_nodes[i].address # Caller =>
              \E l \in DOMAIN kept : kept[l] = taken_nodes[i]
    BY <1>1 DEF Book, KeptOK
  <1>6. \A i \in 1..k : i = k \/ i \in 1..(k - 1)
    BY <1>3
  <1>7. \A i \in 1..(k - 1) : i \in DOMAIN taken_nodes /\ i # k /\ i \in 1..k
    BY <1>3 DEF Typed
  <1>8. KeptOK'
    <2> DEFINE Good(new) ==
           /\ EachOnce(new)
           /\ \A l \in DOMAIN new : \E i \in 1..k :
                 new[l] = taken_nodes[i] /\ taken_nodes[i].address # Caller
           /\ \A i \in 1..k : taken_nodes[i].address # Caller =>
                 \E l \in DOMAIN new : new[l] = taken_nodes[i]
    <2> SUFFICES ASSUME NEW new, new = IF Kept(node) THEN Append(kept, node) ELSE kept
                 PROVE  Good(new)
      <3> DEFINE next == accepting'.kept
      <3>1. (k + 1) - 1 = k
        BY <1>3
      <3>2. Good(next)
        <4> HIDE DEF Good
        <4> QED
          BY <1>1
      <3> HIDE DEF next
      <3>3. /\ EachOnce(next)
            /\ \A l \in DOMAIN next : \E i \in 1..((k + 1) - 1) :
                  next[l] = taken_nodes[i] /\ taken_nodes[i].address # Caller
            /\ \A i \in 1..((k + 1) - 1) : taken_nodes[i].address # Caller =>
                  \E l \in DOMAIN next : next[l] = taken_nodes[i]
        BY <3>1, <3>2
      <3> QED
        BY <1>1, <1>2, <3>3 DEF KeptOK, EachOnce, next
    <2>1. CASE node.address = Caller
      <3>1. new = kept
        BY <1>4, <2>1
      <3>2. \A i \in 1..k : taken_nodes[i].address # Caller => i \in 1..(k - 1)
        BY <1>6, <2>1
      <3> HIDE DEF node, k, kept
      <3> QED
        BY <1>5, <1>7, <3>1, <3>2
    <2>2. CASE node.address # Caller
      <3>1. new = Append(kept, node)
        BY <1>4, <2>2
      <3> DEFINE m == Len(kept)
      <3>2. /\ m \in Nat /\ DOMAIN kept = 1..m /\ DOMAIN new = 1..(m + 1)
            /\ \A l \in 1..m : new[l] = kept[l]
            /\ new[m + 1] = node
        BY <1>3, <3>1
      <3> HIDE DEF m
      <3>4. \A l \in 1..(m + 1) : l = m + 1 \/ l \in 1..m
        BY <3>2
      <3>5. \A l \in 1..m : kept[l].id # node.id /\ kept[l].address # node.address
        <4> SUFFICES ASSUME NEW l \in 1..m
                     PROVE  kept[l].id # node.id /\ kept[l].address # node.address
          OBVIOUS
        <4>1. PICK i \in 1..(k - 1) : kept[l] = taken_nodes[i]
          BY <1>5, <3>2
        <4>2. i \in DOMAIN taken_nodes /\ i # k
          BY <1>7
        <4>3. taken_nodes[i].id # node.id /\ taken_nodes[i].address # node.address
          BY <1>3, <4>2 DEF Book, EachOnce
        <4> QED
          BY <4>1, <4>3
      <3> HIDE DEF node, kept
      <3>6. EachOnce(new)
        <4> SUFFICES ASSUME NEW i \in 1..(m + 1), NEW j \in 1..(m + 1), i # j
                     PROVE  new[i].id # new[j].id /\ new[i].address # new[j].address
          BY <3>2 DEF EachOnce
        <4>1. CASE i \in 1..m /\ j \in 1..m
          <5>1. EachOnce(kept)
            BY <1>5
          <5>2. kept[i].id # kept[j].id /\ kept[i].address # kept[j].address
            BY ONLY <3>2, <4>1, <5>1, i # j DEF EachOnce
          <5> QED
            BY <3>2, <4>1, <5>2
        <4>2. CASE i = m + 1 /\ j \in 1..m
          BY <3>2, <3>5, <4>2
        <4>3. CASE j = m + 1 /\ i \in 1..m
          BY <3>2, <3>5, <4>3
        <4> QED
          BY <3>4, <4>1, <4>2, <4>3
      <3>7. \A l \in 1..(m + 1) : \E i \in 1..k :
                new[l] = taken_nodes[i] /\ taken_nodes[i].address # Caller
        <4>1. k \in 1..k /\ new[m + 1] = taken_nodes[k] /\ taken_nodes[k].address # Caller
          BY <1>3, <2>2, <3>2 DEF node
        <4>2. \A l \in 1..m : \E i \in 1..k :
                new[l] = taken_nodes[i] /\ taken_nodes[i].address # Caller
          <5> SUFFICES ASSUME NEW l \in 1..m
                       PROVE  \E i \in 1..k : new[l] = taken_nodes[i] /\ taken_nodes[i].address # Caller
            OBVIOUS
          <5>1. PICK i \in 1..(k - 1) : kept[l] = taken_nodes[i] /\ taken_nodes[i].address # Caller
            BY <1>5, <3>2
          <5> QED
            BY <1>7, <3>2, <5>1
        <4> QED
          BY <3>4, <4>1, <4>2
      <3>8. \A i \in 1..k : taken_nodes[i].address # Caller =>
                \E l \in 1..(m + 1) : new[l] = taken_nodes[i]
        <4>1. \A l \in 1..m : l \in 1..(m + 1)
          BY <3>2
        <4>2. m + 1 \in 1..(m + 1) /\ new[m + 1] = taken_nodes[k]
          BY <3>2 DEF node
        <4> HIDE DEF k
        <4> QED
          BY <1>5, <1>6, <3>2, <4>1, <4>2
      <3> QED
        BY <3>2, <3>6, <3>7, <3>8
    <2> QED
      BY <2>1, <2>2
  <1>9. Places'
    <2>1. \A i \in DOMAIN taken_nodes : Back(i)' <=> Back(i)
      BY <1>1, <1>2 DEF Back
    <2> QED
      BY <1>1, <1>2, <2>1 DEF Book, Places, InPool
  <1>10. OneAtATime' /\ EachOnce(taken_nodes)' /\ PoolOnce'
    BY <1>1, <1>2 DEF Book, OneAtATime, EachOnce, PoolOnce
  <1>11. NotNoted' /\ Known' /\ Noted' /\ Served'
    BY <1>1 DEF Book, NotNoted, Asking, Fresh, Known, Noted, NodeAt, Served, Capacity, Households
  <1> QED
    BY <1>8, <1>9, <1>10, <1>11 DEF Book

(* The copy lacks the caller's entries, whose ids are back in the pool.    *)
LEMMA BookReplaceTaken ==
    ASSUME Typed, Book, ReplaceTaken
    PROVE  Book'
  <1> DEFINE kept == accepting.kept
             new == taken_nodes'
  <1>1. /\ accepting.pc = "keep" /\ conns' = conns /\ accepted' = accepted /\ thread' = thread
        /\ answer' = answer /\ new = kept /\ available_nodes' = available_nodes
        /\ accepting'.pc = "start" /\ accepting.index > Len(taken_nodes)
    BY DEF ReplaceTaken, GoTo
  <1>2. AtWork = {} /\ AtWork' = {} /\ Caller' = Caller
    BY <1>1, LoopAlone DEF Freeing, AtWork, Caller
  <1>3. DOMAIN taken_nodes = 1..(accepting.index - 1)
    BY <1>1 DEF Typed
  <1>4. /\ EachOnce(new)
        /\ \A k \in DOMAIN new : \E i \in DOMAIN taken_nodes :
              new[k] = taken_nodes[i] /\ taken_nodes[i].address # Caller
        /\ \A i \in DOMAIN taken_nodes : taken_nodes[i].address # Caller =>
              \E k \in DOMAIN new : new[k] = taken_nodes[i]
    BY <1>1, <1>3 DEF Book, KeptOK
  <1> HIDE DEF kept, new
  <1>5. \A x : InPool(x)' <=> InPool(x)
    BY <1>1 DEF InPool
  <1>6. \A i \in DOMAIN taken_nodes : InPool(taken_nodes[i].id) <=> taken_nodes[i].address = Caller
    BY <1>1, <1>2 DEF Book, Places, Back
  <1>7. Places'
    <2>1. \A id \in Ids : InPool(id) \/ \E k \in DOMAIN new : new[k].id = id
      BY <1>4, <1>6 DEF Book, Places
    <2>2. \A k \in DOMAIN new : ~\E j \in DOMAIN available_nodes : available_nodes[j] = new[k].id
      BY <1>4, <1>6 DEF InPool
    <2>3. \A k \in DOMAIN new : ~(\E j \in DOMAIN available_nodes' : available_nodes'[j] = new[k].id)
      BY <1>1, <2>2
    <2>4. \A k \in DOMAIN new : ~Back(k)'
      BY <1>1 DEF Back
    <2> QED
      BY <1>2, <1>5, <2>1, <2>3, <2>4 DEF Places, InPool, new
  <1>8. OneAtATime' /\ EachOnce(taken_nodes)' /\ PoolOnce' /\ KeptOK'
    BY <1>1, <1>2, <1>4 DEF Book, OneAtATime, EachOnce, PoolOnce, KeptOK, new
  <1>9. NotNoted'
    <2> SUFFICES ASSUME NEW c \in 1..MaxConns, Asking(c)', Fresh(c)', NEW k \in DOMAIN new
                 PROVE  new[k].address # conns[c]
      BY <1>1 DEF NotNoted, new
    <2>1. CASE thread[c] \in {"recv", "record"}
      BY <1>1, <1>4, <2>1 DEF Book, NotNoted, Asking, Fresh
    <2>2. CASE c = accepted
      BY <1>4, <2>2 DEF Caller
    <2> QED
      BY <1>1, <2>1, <2>2 DEF Asking
  <1>10. Known'
    <2>1. \A k \in DOMAIN new : \E d \in 1..accepted : conns[d] = new[k].address
      BY <1>4 DEF Book, Known
    <2> QED
      BY <1>1, <2>1 DEF Known, new
  <1>11. Noted'
    <2> SUFFICES ASSUME NEW c \in 1..MaxConns, answer[c] \in Ids, Fresh(c)
                 PROVE  \E k \in DOMAIN new : new[k] = NodeAt(c, answer[c])
      BY <1>1 DEF Noted, Fresh, NodeAt, new
    <2>1. PICK i \in DOMAIN taken_nodes : taken_nodes[i] = NodeAt(c, answer[c])
      BY DEF Book, Noted
    <2>2. c \in 1..accepted /\ c # accepted
      BY <1>1 DEF Typed, NoAnswer
    <2>3. taken_nodes[i].address # Caller
      BY <1>1, <2>1, <2>2, FreshCaller DEF NodeAt, Freeing
    <2> QED
      BY <1>4, <2>1, <2>3
  <1>12. Served'
    BY <1>1 DEF Book, Served, Capacity, Households
  <1> QED
    BY <1>7, <1>8, <1>9, <1>10, <1>11, <1>12 DEF Book

LEMMA BookStartThread ==
    ASSUME Typed, Book, StartThread
    PROVE  Book'
  <1>1. /\ accepting.pc = "start" /\ conns' = conns /\ accepted' = accepted
        /\ answer' = answer /\ taken_nodes' = taken_nodes /\ available_nodes' = available_nodes
        /\ accepting'.pc = "accept" /\ thread' = [thread EXCEPT ![accepted] = "recv"]
    BY DEF StartThread, GoTo
  <1>2. accepted \in 1..MaxConns /\ thread[accepted] = "none"
    BY <1>1 DEF Typed, LoopOK
  <1>3. \A c \in 1..MaxConns : thread'[c] = IF c = accepted THEN "recv" ELSE thread[c]
    BY <1>1 DEF Typed
  <1>4. AtWork' = AtWork
    BY <1>2, <1>3 DEF AtWork
  <1>5. \A c \in AtWork : c \in 1..MaxConns /\ thread'[c] = thread[c]
    BY <1>2, <1>3 DEF AtWork
  <1>6. OneAtATime'
    BY <1>1, <1>4 DEF Book, OneAtATime, Freeing, Fresh
  <1>7. EachOnce(taken_nodes)' /\ PoolOnce' /\ KeptOK' /\ Known' /\ Noted'
    BY <1>1 DEF Book, EachOnce, PoolOnce, KeptOK, Known, Noted, Fresh, NodeAt
  <1>8. Places'
    <2>1. \A i \in DOMAIN taken_nodes : ~Back(i) /\ ~Back(i)'
      BY <1>1 DEF Back
    <2> QED
      BY <1>1, <1>4, <1>5, <2>1 DEF Book, Places, InPool, Noting, NodeAt
  <1>9. NotNoted'
    <2>1. \A c \in 1..MaxConns : Asking(c)' => Asking(c)
      BY <1>1, <1>3 DEF Asking
    <2> QED
      BY <1>1, <2>1 DEF Book, NotNoted, Fresh
  <1>10. Served'
    BY <1>1, <1>3 DEF Book, Served, Capacity, Households
  <1> QED
    BY <1>6, <1>7, <1>8, <1>9, <1>10 DEF Book

-----------------------------------------------------------------------------
(* There are as many ids as the pool had entries at first.                 *)
LEMMA IdsCounted == IsFiniteSet(Ids) /\ Cardinality(Ids) = Len(Pool)
  <1>1. Len(Pool) \in Nat /\ \A i \in 1..Len(Pool) : Pool[i] \in Nat
    BY PoolAssumption
  <1> DEFINE f == [i \in 1..Len(Pool) |-> Pool[i]]
  <1>2. f \in Bijection(1..Len(Pool), Ids)
    <2>1. f \in [1..Len(Pool) -> Ids]
      BY PoolAssumption DEF Ids
    <2>2. \A i, j \in 1..Len(Pool) : f[i] = f[j] => i = j
      <3>1. \A i, j \in 1..Len(Pool) : Pool[i] = Pool[j] => ~(i < j) /\ ~(j < i)
        BY <1>1, PoolAssumption
      <3> QED
        BY <3>1
    <2>3. \A id \in Ids : \E i \in 1..Len(Pool) : f[i] = id
      BY PoolAssumption DEF Ids
    <2> HIDE DEF f
    <2>4. f \in Injection(1..Len(Pool), Ids)
      BY <2>1, <2>2 DEF Injection, IsInjective
    <2>5. f \in Surjection(1..Len(Pool), Ids)
      BY <2>1, <2>3 DEF Surjection
    <2> QED
      BY <2>4, <2>5 DEF Bijection
  <1>3. IsFiniteSet(1..Len(Pool)) /\ Cardinality(1..Len(Pool)) = Len(Pool)
    <2>1. ASSUME NEW n \in Nat
          PROVE  IsFiniteSet(1..n) /\ Cardinality(1..n) = n
      <3>1. 1 \in Int /\ n \in Int
        OBVIOUS
      <3>2. IsFiniteSet(1..n) /\ Cardinality(1..n) = IF 1 > n THEN 0 ELSE n - 1 + 1
        BY <3>1, FS_Interval
      <3> QED
        BY <3>2
    <2> QED
      BY <1>1, <2>1
  <1>4. ExistsBijection(1..Len(Pool), Ids)
    BY <1>2 DEF ExistsBijection
  <1> QED
    BY <1>3, <1>4, FS_Bijection

(* A household that asks has no id noted, and every other one at most one: *)
(* within the capacity an id is left.                                      *)
LEMMA IdLeft ==
    ASSUME Typed, Book, Capacity, NEW c \in 1..MaxConns, thread[c] = "recv", Fresh(c), c \in 1..accepted
    PROVE  available_nodes # <<>>
  <1> SUFFICES ASSUME available_nodes = <<>>
               PROVE  FALSE
    OBVIOUS
  <1>1. \A id : ~InPool(id)
    BY DEF InPool
  <1>2. \A id \in Ids : \E i \in DOMAIN taken_nodes : taken_nodes[i].id = id
    BY <1>1 DEF Book, Places
  <1> DEFINE At(id) == CHOOSE i \in DOMAIN taken_nodes : taken_nodes[i].id = id
             f == [id \in Ids |-> taken_nodes[At(id)].address]
             Others == Households \ {conns[c]}
  <1>3. \A id \in Ids : At(id) \in DOMAIN taken_nodes /\ taken_nodes[At(id)].id = id
    BY <1>2
  <1>4. \A i \in DOMAIN taken_nodes : taken_nodes[i].address \in Others
    <2>1. \A i \in DOMAIN taken_nodes : taken_nodes[i].address # conns[c]
      BY DEF Book, NotNoted, Asking
    <2>2. \A d \in 1..accepted : conns[d] \in Households
      BY DEF Households, Typed
    <2> QED
      BY <2>1, <2>2 DEF Book, Known
  <1> HIDE DEF At
  <1>5. f \in Injection(Ids, Others)
    <2>1. f \in [Ids -> Others]
      BY <1>3, <1>4
    <2>2. \A a, b \in Ids : f[a] = f[b] => a = b
      BY <1>3 DEF Book, EachOnce
    <2> QED
      BY <2>1, <2>2, Fun_IsInj
  <1>6. conns[c] \in Households
    BY DEF Households, Typed
  <1>7. IsFiniteSet(Households)
    <2>1. Households \subseteq Address
      BY DEF Households, Typed
    <2> QED
      BY <2>1, AddressAssumption, FS_Subset
  <1>8. /\ IsFiniteSet(Others) /\ Cardinality(Others) = Cardinality(Households) - 1
        /\ Cardinality(Households) \in Nat
    BY <1>6, <1>7, FS_RemoveElement, FS_CardinalityType
  <1> HIDE DEF f, Others
  <1>9. Cardinality(Ids) <= Cardinality(Others)
    BY <1>5, <1>8, FS_Injection
  <1>10. Len(Pool) \in Nat
    BY PoolAssumption
  <1> QED
    BY <1>8, <1>9, <1>10, IdsCounted DEF Capacity

LEMMA BookTestPool ==
    ASSUME Typed, Book, NEW c \in 1..MaxConns, TestPool(c), Undisturbed'
    PROVE  Book'
  <1>1. /\ thread[c] = "recv" /\ conns' = conns /\ accepted' = accepted /\ accepting' = accepting
        /\ available_nodes' = available_nodes /\ taken_nodes' = taken_nodes
    BY DEF TestPool
  <1>2. AtWork = {} /\ Current(c) /\ ~Freeing
    <2>1. ~disorder'
      BY DEF Undisturbed
    <2> QED
      BY <2>1 DEF TestPool, Freeing
  <1>3. c \in 1..accepted /\ Fresh(c)
    BY <1>1, <1>2 DEF Typed, Current, Fresh
  <1>4. \/ /\ available_nodes = <<>> /\ thread' = [thread EXCEPT ![c] = "served"]
           /\ answer' = [answer EXCEPT ![c] = NoId]
        \/ /\ available_nodes # <<>> /\ thread' = [thread EXCEPT ![c] = "record"]
           /\ answer' = answer
    BY DEF TestPool, Answer
  <1>5. /\ \A d \in 1..MaxConns : d # c => thread'[d] = thread[d] /\ answer'[d] = answer[d]
        /\ thread'[c] \in {"served", "record"}
        /\ answer'[c] \in Ids => answer'[c] = answer[c]
        /\ available_nodes = <<>> => thread'[c] = "served"
    <2>1. NoId \notin Ids
      BY DEF Typed, NoId
    <2> QED
      BY <1>4, <2>1 DEF Typed
  <1>6. AtWork' \subseteq {c} /\ (AtWork' # {} => available_nodes # <<>>)
    BY <1>2, <1>5 DEF AtWork
  <1>7. OneAtATime'
    BY <1>1, <1>2, <1>3, <1>6 DEF OneAtATime, Freeing, Fresh
  <1>8. EachOnce(taken_nodes)' /\ PoolOnce' /\ KeptOK' /\ Known'
    BY <1>1 DEF Book, EachOnce, PoolOnce, KeptOK, Known, Caller
  <1>9. Places'
    <2>1. \A i : Back(i)' <=> Back(i)
      BY <1>1 DEF Back, Caller
    <2>2. \A d \in AtWork' : thread'[d] # "pop"
      BY <1>5, <1>6
    <2> QED
      BY <1>1, <1>2, <2>1, <2>2 DEF Book, Places, InPool, Noting
  <1>10. NotNoted'
    <2>1. \A d \in 1..MaxConns : Asking(d)' => Asking(d)
      BY <1>1, <1>5 DEF Asking
    <2> QED
      BY <1>1, <2>1 DEF Book, NotNoted, Fresh
  <1>11. Noted'
    <2>1. \A d \in 1..MaxConns : answer'[d] \in Ids => answer'[d] = answer[d]
      BY <1>5
    <2> QED
      BY <1>1, <2>1 DEF Book, Noted, Fresh, NodeAt
  <1>12. Served'
    <2>1. \A d \in 1..MaxConns : thread'[d] # "dead"
      BY <1>5 DEF Book, Served
    <2>2. Capacity' <=> Capacity
      BY <1>1 DEF Capacity, Households
    <2>3. Capacity => answer' = answer
      BY <1>1, <1>3, <1>4, IdLeft
    <2> QED
      BY <2>1, <2>2, <2>3 DEF Book, Served
  <1> QED
    BY <1>7, <1>8, <1>9, <1>10, <1>11, <1>12 DEF Book

LEMMA BookRecordId ==
    ASSUME Typed, Book, NEW c \in 1..MaxConns, RecordId(c)
    PROVE  Book'
  <1> DEFINE n == Len(taken_nodes)
             x == Head(available_nodes)
             node == NodeAt(c, x)
             new == taken_nodes'
  <1>1. /\ thread[c] = "record" /\ conns' = conns /\ accepted' = accepted /\ accepting' = accepting
        /\ available_nodes' = available_nodes /\ answer' = answer /\ available_nodes # <<>>
        /\ new = Append(taken_nodes, node) /\ thread' = [thread EXCEPT ![c] = "pop"]
    BY DEF RecordId, NodeAt
  <1>2. AtWork = {c} /\ ~Freeing /\ Fresh(c) /\ c \in 1..accepted
    BY <1>1 DEF AtWork, Book, OneAtATime, Typed
  <1>3. \A d \in 1..MaxConns : thread'[d] = IF d = c THEN "pop" ELSE thread[d]
    BY <1>1 DEF Typed
  <1>4. AtWork' = {c} /\ Freeing' = Freeing
    BY <1>1, <1>2, <1>3 DEF AtWork, Freeing
  <1>5. /\ n \in Nat /\ DOMAIN taken_nodes = 1..n /\ DOMAIN new = 1..(n + 1) /\ Len(new) = n + 1
        /\ \A i \in 1..n : new[i] = taken_nodes[i]
        /\ new[n + 1] = node /\ node.address = conns[c] /\ node.id = x
    BY <1>1 DEF Typed, NodeAt
  <1>6. InPool(x) /\ \A id : InPool(id)' <=> InPool(id)
    BY <1>1 DEF InPool, Typed
  <1>7. \A i \in 1..n : ~InPool(taken_nodes[i].id)
    BY <1>1, <1>2, <1>5 DEF Book, Places, Back, Freeing, Noting
  <1>8. \A i \in 1..n : taken_nodes[i].address # conns[c]
    BY <1>1, <1>2, <1>5 DEF Book, NotNoted, Asking
  <1>9. \A i \in 1..(n + 1) : i \in 1..n \/ i = n + 1
    BY <1>5
  <1>10. \A i \in 1..n : i \in 1..(n + 1) /\ i # n + 1
    BY <1>5
  <1>11. n + 1 \in 1..(n + 1)
    BY <1>5
  <1> HIDE DEF new, node, x
  <1>12. EachOnce(new)
    <2> SUFFICES ASSUME NEW i \in 1..(n + 1), NEW j \in 1..(n + 1), i # j
                 PROVE  new[i].id # new[j].id /\ new[i].address # new[j].address
      BY <1>5 DEF EachOnce
    <2>1. CASE i \in 1..n /\ j \in 1..n
      BY <1>5, <2>1 DEF Book, EachOnce
    <2>2. CASE i \in 1..n /\ j = n + 1
      BY <1>5, <1>6, <1>7, <1>8, <2>2
    <2>3. CASE j \in 1..n /\ i = n + 1
      BY <1>5, <1>6, <1>7, <1>8, <2>3
    <2> QED
      BY <1>9, <2>1, <2>2, <2>3
  <1>13. OneAtATime' /\ PoolOnce'
    BY <1>1, <1>2, <1>4 DEF Book, OneAtATime, PoolOnce, Fresh
  <1>14. KeptOK'
    BY <1>1, <1>2 DEF KeptOK, Freeing
  <1>15. Places'
    <2>1. \A id \in Ids : InPool(id) \/ \E i \in 1..(n + 1) : new[i].id = id
      BY <1>5, <1>10 DEF Book, Places
    <2>2. \A i \in 1..(n + 1) :
             (\E j \in DOMAIN available_nodes : available_nodes[j] = new[i].id) <=> i = n + 1
      BY <1>5, <1>6, <1>7, <1>9, <1>10 DEF InPool
    <2>3. \A i : ~Back(i)'
      BY <1>1, <1>2 DEF Back, Freeing
    <2>4. \A i \in 1..(n + 1) : (\E d \in AtWork' : Noting(d, i)') <=> i = n + 1
      BY <1>3, <1>4, <1>5 DEF Noting, new
    <2>5. new # <<>> /\ new[Len(new)] = NodeAt(c, x)
      BY <1>5, <1>11 DEF node
    <2>6. NodeAt(c, Head(available_nodes))' = NodeAt(c, x)
      BY <1>1 DEF NodeAt, x
    <2>7. \A id \in Ids : InPool(id)' \/ \E i \in 1..(n + 1) : new[i].id = id
      BY <1>6, <2>1
    <2>8. \A i \in 1..(n + 1) :
             (\E j \in DOMAIN available_nodes' : available_nodes'[j] = new[i].id) <=> i = n + 1
      BY <1>1, <2>2
    <2> HIDE DEF n
    <2>9. \A d \in AtWork' : d = c
      BY <1>4
    <2>10. \A i \in DOMAIN new : InPool(taken_nodes[i].id)' <=> i = n + 1
      BY <1>5, <2>8 DEF InPool, new
    <2>11. \A d \in AtWork' : new # <<>> /\ new[Len(new)] = NodeAt(d, Head(available_nodes))'
      BY <2>5, <2>6, <2>9
    <2> QED
      BY <1>5, <2>3, <2>4, <2>7, <2>10, <2>11 DEF Places, new
  <1>16. NotNoted'
    <2> SUFFICES ASSUME NEW d \in 1..MaxConns, Asking(d)', Fresh(d)', NEW i \in 1..(n + 1)
                 PROVE  new[i].address # conns[d]
      BY <1>1, <1>5 DEF NotNoted, new
    <2>1. Asking(d) /\ Fresh(d) /\ d # c
      <3>1. Fresh(d)
        BY <1>1 DEF Fresh
      <3>2. d # c
        <4>1. c = accepted => accepting.pc = "accept"
          BY <1>1 DEF Typed
        <4> QED
          BY <1>1, <1>3, <4>1 DEF Asking
      <3> QED
        BY <1>1, <1>3, <3>1, <3>2 DEF Asking
    <2>2. d \in 1..accepted
      BY <2>1 DEF Asking, Typed, LoopOK
    <2>3. conns[d] # conns[c]
      BY <1>2, <2>1, <2>2 DEF Fresh, Typed
    <2>4. CASE i \in 1..n
      BY <1>5, <2>1, <2>4 DEF Book, NotNoted
    <2>5. CASE i = n + 1
      BY <1>5, <2>3, <2>5
    <2> QED
      BY <1>9, <2>4, <2>5
  <1>17. Known'
    <2>1. \A i \in 1..(n + 1) : \E d \in 1..accepted : conns[d] = new[i].address
      BY <1>2, <1>5, <1>9 DEF Book, Known
    <2> QED
      BY <1>1, <1>5, <2>1 DEF Known, new
  <1>18. Noted'
    <2>1. \A d \in 1..MaxConns : answer[d] \in Ids /\ Fresh(d) =>
             \E i \in 1..(n + 1) : new[i] = NodeAt(d, answer[d])
      BY <1>5, <1>10 DEF Book, Noted
    <2> QED
      BY <1>1, <1>5, <2>1 DEF Noted, Fresh, NodeAt, new
  <1>19. Served'
    BY <1>1, <1>3 DEF Book, Served, Capacity, Households
  <1> QED
    BY <1>12, <1>13, <1>14, <1>15, <1>16, <1>17, <1>18, <1>19 DEF Book, EachOnce, new

LEMMA BookPopId ==
    ASSUME Typed, Book, NEW c \in 1..MaxConns, PopId(c)
    PROVE  Book'
  <1> DEFINE n == Len(available_nodes)
             x == Head(available_nodes)
             pool == available_nodes'
  <1>1. /\ thread[c] = "pop" /\ conns' = conns /\ accepted' = accepted /\ accepting' = accepting
        /\ taken_nodes' = taken_nodes /\ available_nodes # <<>> /\ pool = Tail(available_nodes)
        /\ answer' = [answer EXCEPT ![c] = x] /\ thread' = [thread EXCEPT ![c] = "served"]
    BY DEF PopId, Answer, Popped
  <1>2. AtWork = {c} /\ ~Freeing /\ Fresh(c) /\ c \in 1..accepted
    BY <1>1 DEF AtWork, Book, OneAtATime, Typed
  <1>3. /\ \A d \in 1..MaxConns : thread'[d] = IF d = c THEN "served" ELSE thread[d]
        /\ \A d \in 1..MaxConns : answer'[d] = IF d = c THEN x ELSE answer[d]
    BY <1>1 DEF Typed
  <1>4. AtWork' = {}
    BY <1>2, <1>3 DEF AtWork
  <1>5. /\ n \in Nat \ {0} /\ DOMAIN available_nodes = 1..n /\ DOMAIN pool = 1..(n - 1)
        /\ \A i \in 1..(n - 1) : i + 1 \in 1..n /\ i + 1 # 1 /\ pool[i] = available_nodes[i + 1]
        /\ 1 \in 1..n /\ available_nodes[1] = x /\ x \in Ids
    BY <1>1 DEF Typed
  <1>6. \A j \in 1..n : j = 1 \/ (j - 1 \in 1..(n - 1) /\ pool[j - 1] = available_nodes[j])
    <2>1. \A j \in 1..n : j = 1 \/ (j - 1 \in 1..(n - 1) /\ (j - 1) + 1 = j)
      BY <1>5
    <2> QED
      BY <1>5, <2>1
  <1> HIDE DEF pool, x, n
  <1>7. PoolOnce'
    <2> SUFFICES ASSUME NEW i \in 1..(n - 1), NEW j \in 1..(n - 1), pool[i] = pool[j]
                 PROVE  i = j
      BY <1>5 DEF PoolOnce, pool
    <2>1. i + 1 = j + 1
      BY <1>5 DEF Book, PoolOnce
    <2> QED
      BY <1>5, <2>1
  <1>8. \A y : (\E j \in DOMAIN pool : pool[j] = y) <=> InPool(y) /\ y # x
    <2>1. \A j \in 1..n : available_nodes[j] = x <=> j = 1
      BY <1>5 DEF Book, PoolOnce
    <2> SUFFICES ASSUME NEW y
                 PROVE  (\E j \in DOMAIN pool : pool[j] = y) <=> InPool(y) /\ y # x
      OBVIOUS
    <2>2. ASSUME NEW j \in 1..(n - 1), pool[j] = y
          PROVE  InPool(y) /\ y # x
      BY <1>5, <2>1, <2>2 DEF InPool
    <2>3. ASSUME InPool(y), y # x
          PROVE  \E j \in 1..(n - 1) : pool[j] = y
      BY <1>5, <1>6, <2>3 DEF InPool
    <2> QED
      BY <1>5, <2>2, <2>3
  <1>9. /\ taken_nodes # <<>>
        /\ taken_nodes[Len(taken_nodes)] = NodeAt(c, x)
        /\ Len(taken_nodes) \in DOMAIN taken_nodes
    BY <1>1, <1>2 DEF Book, Places, Typed, x
  <1>10. taken_nodes[Len(taken_nodes)].id = x
    BY <1>9 DEF NodeAt
  <1>11. \A i \in DOMAIN taken_nodes : InPool(taken_nodes[i].id) => taken_nodes[i].id = x
    BY <1>2, <1>10 DEF Book, Places, Back, Freeing, Noting
  <1>12. Places'
    <2>1. \A id \in Ids : (\E j \in DOMAIN pool : pool[j] = id) \/
                          \E i \in DOMAIN taken_nodes : taken_nodes[i].id = id
      BY <1>8, <1>9, <1>10 DEF Book, Places
    <2>2. \A i \in DOMAIN taken_nodes : ~\E j \in DOMAIN pool : pool[j] = taken_nodes[i].id
      BY <1>8, <1>11
    <2>3. \A i : ~Back(i)'
      BY <1>1, <1>2 DEF Back, Freeing
    <2> QED
      BY <1>1, <1>4, <2>1, <2>2, <2>3 DEF Places, InPool, pool
  <1>13. OneAtATime' /\ EachOnce(taken_nodes)' /\ Known'
    BY <1>1, <1>4 DEF Book, OneAtATime, EachOnce, Known
  <1>14. KeptOK'
    BY <1>1, <1>2 DEF KeptOK, Freeing
  <1>15. NotNoted'
    <2>1. \A d \in 1..MaxConns : Asking(d)' => Asking(d)
      BY <1>1, <1>3 DEF Asking
    <2> QED
      BY <1>1, <2>1 DEF Book, NotNoted, Fresh
  <1>16. Noted'
    <2> SUFFICES ASSUME NEW d \in 1..MaxConns, answer'[d] \in Ids, Fresh(d)
                 PROVE  \E i \in DOMAIN taken_nodes : taken_nodes[i] = NodeAt(d, answer'[d])
      BY <1>1 DEF Noted, Fresh, NodeAt
    <2>1. CASE d = c
      BY <1>3, <1>9, <2>1
    <2>2. CASE d # c
      BY <1>3, <2>2 DEF Book, Noted
    <2> QED
      BY <2>1, <2>2
  <1>17. Served'
    <2>1. x # NoId
      BY <1>5 DEF Typed, NoId
    <2> QED
      BY <1>1, <1>3, <2>1 DEF Book, Served, Capacity, Households
  <1> QED
    BY <1>7, <1>12, <1>13, <1>14, <1>15, <1>16, <1>17 DEF Book

-----------------------------------------------------------------------------
LEMMA BookFail ==
    ASSUME Typed, Book, NEW c \in 1..MaxConns, Fail(c)
    PROVE  FALSE
  BY DEF Fail, Book, OneAtATime

LEMMA BookKeeps ==
    ASSUME TypeInv, Book, Next, Undisturbed, Undisturbed'
    PROVE  Book'
  <1>1. Typed
    BY TypedHolds
  <1>2. ASSUME NEW a \in Address, Connect(a) PROVE Book'
    BY <1>1, <1>2, BookConnect
  <1>3. ASSUME AcceptLoop PROVE Book'
    BY <1>1, <1>3, BookAccept, BookFreeNext, BookSortPool, BookKeepNext, BookReplaceTaken,
       BookStartThread DEF AcceptLoop
  <1>4. ASSUME NEW c \in 1..MaxConns, HouseholdThread(c) PROVE Book'
    BY <1>1, <1>4, BookTestPool, BookRecordId, BookPopId, BookFail DEF HouseholdThread
  <1> QED
    BY <1>2, <1>3, <1>4 DEF Next

LEMMA UInvHolds == Spec => []UInv
  <1>1. Init => UInv
    BY TypeInit, BookInit DEF UInv
  <1>2. UInv /\ [Next]_vars => UInv'
    <2> SUFFICES ASSUME UInv, [Next]_vars, Undisturbed' PROVE Book'
      BY TypeKeeps DEF UInv
    <2>1. CASE Next
      BY <2>1, UndisturbedBack, BookKeeps DEF UInv
    <2>2. CASE UNCHANGED vars
      <3> USE <2>2 DEF vars, serverVars
      <3>1. Undisturbed' <=> Undisturbed
        BY DEF Undisturbed, Reconnected
      <3>2. /\ OneAtATime' <=> OneAtATime
            /\ PoolOnce' <=> PoolOnce
            /\ EachOnce(taken_nodes)' <=> EachOnce(taken_nodes)
        BY DEF OneAtATime, AtWork, Freeing, Fresh, PoolOnce, EachOnce
      <3>3. Places' <=> Places
        BY DEF Places, InPool, Back, AtWork, Noting, NodeAt, Caller
      <3>4. /\ KeptOK' <=> KeptOK
            /\ NotNoted' <=> NotNoted
            /\ Known' <=> Known
            /\ Noted' <=> Noted
            /\ Served' <=> Served
        BY DEF KeptOK, EachOnce, Caller, NotNoted, Asking, Fresh, Known, Noted, NodeAt, Served,
               Capacity, Households
      <3> QED
        BY <3>1, <3>2, <3>3, <3>4 DEF UInv, Book
    <2> QED
      BY <2>1, <2>2
  <1> QED
    BY <1>1, <1>2, PTL DEF Spec

-----------------------------------------------------------------------------
(* As long as no two operations on the lists have overlapped, between      *)
(* operations each id is in exactly one list and every household that has  *)
(* one is noted under it, those that came back included (server.py:29-37,  *)
(* simulator.py:57-66).                                                    *)
THEOREM IdsAccounted == Spec => []Accounted
  <1>1. UInv => Accounted
    <2> SUFFICES ASSUME UInv, Undisturbed, AtRest PROVE
              /\ \A id \in Ids :
                     Cardinality({i \in DOMAIN available_nodes : available_nodes[i] = id}) +
                     Cardinality({i \in DOMAIN taken_nodes : taken_nodes[i].id = id}) = 1
              /\ \A c \in Holders : \E i \in DOMAIN taken_nodes :
                     taken_nodes[i] = [address |-> conns[c], id |-> answer[c]]
      BY DEF Accounted
    <2>1. Typed /\ Book
      BY TypedHolds DEF UInv
    <2>2. ASSUME NEW id \in Ids
          PROVE  Cardinality({i \in DOMAIN available_nodes : available_nodes[i] = id}) +
                 Cardinality({i \in DOMAIN taken_nodes : taken_nodes[i].id = id}) = 1
      <3> DEFINE S == {i \in DOMAIN available_nodes : available_nodes[i] = id}
                 T == {i \in DOMAIN taken_nodes : taken_nodes[i].id = id}
      <3>1. \A i \in DOMAIN taken_nodes : ~InPool(taken_nodes[i].id)
        BY <2>1 DEF AtRest, Book, Places, Back, Freeing
      <3>2. CASE InPool(id)
        <4>1. PICK k \in DOMAIN available_nodes : available_nodes[k] = id
          BY <3>2 DEF InPool
        <4>2. S = {k}
          BY <2>1, <4>1 DEF Book, PoolOnce
        <4>3. T = {}
          BY <3>1, <3>2
        <4>4. Cardinality(S) = 1 /\ Cardinality(T) = 0
          BY <4>2, <4>3, FS_Singleton, FS_EmptySet
        <4> QED
          BY <4>4
      <3>3. CASE ~InPool(id)
        <4>1. PICK k \in DOMAIN taken_nodes : taken_nodes[k].id = id
          BY <2>1, <3>3 DEF Book, Places
        <4>2. T = {k}
          BY <2>1, <4>1 DEF Book, EachOnce
        <4>3. S = {}
          BY <3>3 DEF InPool
        <4>4. Cardinality(T) = 1 /\ Cardinality(S) = 0
          BY <4>2, <4>3, FS_Singleton, FS_EmptySet
        <4> QED
          BY <4>4
      <3> QED
        BY <3>2, <3>3
    <2>3. ASSUME NEW c \in Holders
          PROVE  \E i \in DOMAIN taken_nodes : taken_nodes[i] = [address |-> conns[c], id |-> answer[c]]
      <3>1. c \in 1..MaxConns /\ answer[c] \in Ids /\ Current(c)
        BY <2>1 DEF Holders, Typed
      <3>2. Fresh(c)
        BY <2>1, <3>1 DEF Current, Fresh, Typed
      <3> QED
        BY <2>1, <3>1, <3>2 DEF Book, Noted, NodeAt
    <2> QED
      BY <2>2, <2>3
  <1> QED
    BY UInvHolds, <1>1, PTL

(* Then too, as long as there are no more households than ids, each gets   *)
(* one however often it boots, and no thread dies of an empty pool         *)
(* (server.py:29-37, simulator.py:57-66).                                  *)
THEOREM WithinCapacity == Spec => []ServedWithinCapacity
  <1>1. UInv => ServedWithinCapacity
    BY DEF UInv, Book, Served, Capacity, ServedWithinCapacity
  <1> QED
    BY UInvHolds, <1>1, PTL
=============================================================================
