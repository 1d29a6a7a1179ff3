--------------------------- MODULE BlockValidation ---------------------------
(***************************************************************************)
(* Phase voting on a traded block, and the local chain it is added to.     *)
(*                                                                         *)
(* Every LASET module (main.c) runs three kinds of task on shared globals: *)
(*   laset_listener_task       closes the trade, drafts and broadcasts the *)
(*                             block (the ATD branch; the negotiation that *)
(*                             leads to it is abstracted to its result);   *)
(*   blockchain_listener_task  receives a broadcast block, verifies it and *)
(*                             acknowledges its phases one by one;         *)
(*   blockchain_phase_listener one task per block, counts the              *)
(*                             acknowledgements until its deadline, then   *)
(*                             adjusts the block and makes it chain_head.  *)
(* The tasks have one priority and the ESP32 two cores: they interleave    *)
(* freely.  Their deadlines race against waits on the simulator server     *)
(* that have no upper bound, so a deadline may fall between any two steps. *)
(***************************************************************************)
EXTENDS Integers, Sequences, FiniteSets

CONSTANTS
    Module,       \* the modules of the neighbourhood, by node id
    Seller,       \* the modules that overproduce: amperage reading < 0
    MaxPhase,     \* length of phase_acceptance_array, 12 in the code
    TradeData,    \* the [duration, signature] contents trade_data may have
    InitialKeys,  \* the key tables the modules may start from
    MaxTrades,    \* bound: blocks drafted by one seller
    MaxDups       \* bound: datagrams delivered a second time

PhaseLength == 5                       \* seconds of trade one phase stands for
Phase == 1..MaxPhase
NoBlock == 0                           \* the null pointer, -1 in the code
BaseHash == <<>>                       \* the "BASE HASH" before the first block

ModuleAssumption == IsFiniteSet(Module) /\ Seller \subseteq Module
PhaseAssumption == MaxPhase \in Nat
TradeAssumption ==
    \A td \in TradeData : /\ td.duration \in {PhaseLength * p : p \in Phase}
                          /\ td.signature \in {PhaseLength * p : p \in Phase}
KeyAssumption ==
    \A table \in InitialKeys : /\ table \in [Module -> SUBSET Module]
                               /\ \A n \in Module : n \in table[n]
BoundAssumption ==
    /\ MaxTrades \in Nat
    /\ MaxDups \in Nat

ASSUME ModuleAssumption
ASSUME PhaseAssumption
ASSUME TradeAssumption
ASSUME KeyAssumption
ASSUME BoundAssumption

(***************************************************************************)
(* A definition whose name ends in _Faulty is the one that follows it with *)
(* a plausible mistake in it.  No specification uses them; they show what  *)
(* the properties would catch.                                             *)
(***************************************************************************)
VARIABLES
    foreign_public_key_array,  \* [n] the modules whose public key n stores
    trade_deal_is_open,        \* [n] may n accept an offer for its deal?
    drafting,                  \* [n] laset_listener_task's place in the ATD branch
    heap,                      \* [n] the blocks n has allocated, in order
    chain_head,                \* [n] pointer into heap[n], or NoBlock
    listener,                  \* [n] the phase listener task of each block in heap[n]
    port,                      \* [n] the block whose listener holds UDP port 8889
    phase_acceptance_array,    \* [n] the one tally all listeners of n share
    validator,                 \* [n] blockchain_listener_task's place in its loop
    blocks,                    \* block broadcasts (bcb) in flight
    acks,                      \* phase acceptances (bpa) in flight
    dups,                      \* datagrams duplicated so far
    (***********************************************************************)
    (* History, read by the properties only.                               *)
    (***********************************************************************)
    cast,                      \* every acknowledgement a module ever made
    disturbed                  \* [n] blocks whose listening was shared or cut short

tradeVars == <<foreign_public_key_array, trade_deal_is_open, drafting>>
chainVars == <<heap, chain_head, listener, port, disturbed>>
voteVars == <<phase_acceptance_array, validator, cast>>
netVars == <<blocks, acks, dups>>
vars == <<tradeVars, chainVars, voteVars, netVars>>

-----------------------------------------------------------------------------
(***************************************************************************)
(* Blocks.  A hash is collision free: it stands for everything hashed into *)
(* it, the previous hash and the block's own content, so it is the         *)
(* sequence of the contents of a block and its ancestors.  A signature of  *)
(* the seller is the duration it was made over (price and ids are fixed    *)
(* within a trade).                                                        *)
(***************************************************************************)
Durations == {PhaseLength * p : p \in 0..MaxPhase}
Content == Module \X Module \X Durations \X Durations
Hash == Seq(Content)

ContentOf(b) ==
    <<b.seller_node_id, b.buyer_node_id, b.duration, b.seller_signature>>

create_block_hash(b) == [b EXCEPT !.hash = Append(b.previous_hash, ContentOf(b))]

create_block(previous_hash, seller, buyer, duration, signature, previous_block) ==
    create_block_hash([previous_hash    |-> previous_hash,
                       seller_node_id   |-> seller,
                       duration         |-> duration,
                       seller_signature |-> signature,
                       buyer_node_id    |-> buyer,
                       hash             |-> BaseHash,
                       previous_block   |-> previous_block])

verify_block_hash_Faulty(n, b) == b.seller_signature = b.duration  \* no key needed

(* verify_block_hash: the hash is the one create_block has just computed,  *)
(* so what decides is whether both keys can be imported and the seller     *)
(* signed the terms the block states.                                      *)
verify_block_hash(n, b) ==
    /\ {b.seller_node_id, b.buyer_node_id} \subseteq foreign_public_key_array[n]
    /\ b.seller_signature = b.duration

get_laset_module_amount(n) == Cardinality(foreign_public_key_array[n])
needed_laset_amount(n) == (get_laset_module_amount(n) * 2) \div 3

AcceptedPhases_Faulty(n, needed) ==                    \* one acknowledgement short
    {p \in Phase : phase_acceptance_array[n][p] + 1 >= needed}

(* The duration a block is paid for: 5 seconds per phase with enough acks. *)
AcceptedPhases(n, needed) ==
    {p \in Phase : phase_acceptance_array[n][p] >= needed}
adjusted_duration(n, needed) == PhaseLength * Cardinality(AcceptedPhases(n, needed))

Tallied(n, p) == [phase_acceptance_array EXCEPT ![n][p] = @ + 1]

(* What the memset leaves.  It takes no mutex, so an increment it falls    *)
(* into the middle of stores the count it has read before.                 *)
EmptyTally == [p \in Phase |-> 0]
Counting(n) == \/ validator[n].pc = "rlc"
               \/ port[n] # NoBlock /\ listener[n][port[n]].pc = "listening"
Cleared_Faulty(n) == {phase_acceptance_array[n]}             \* no memset
Cleared(n) ==
    {EmptyTally} \cup
    {[EmptyTally EXCEPT ![p] = phase_acceptance_array[n][p]] :
        p \in IF Counting(n) THEN Phase ELSE {}}

Live(n) == {b \in DOMAIN listener[n] : listener[n][b].pc # "deleted"}

-----------------------------------------------------------------------------
(***************************************************************************)
(* The network.  A UDP broadcast reaches the other modules (never its      *)
(* sender), each at its own time, perhaps twice.  Nothing has to deliver   *)
(* it: a datagram that is lost for a receiver is one it never receives.    *)
(***************************************************************************)
Audience(n) == Module \ {n}

(* m leaves the network, or a copy of it stays behind.                     *)
Received(m, net) ==
    \/ net' = net \ {m} /\ UNCHANGED dups
    \/ dups < MaxDups /\ dups' = dups + 1 /\ UNCHANGED net

(* A new block shares its listening time with every listener task that is  *)
(* still alive, and with a validator still acknowledging an earlier block. *)
Disturbs(n, validating) ==
    LET new == Len(heap[n]) + 1
        others == Live(n)
    IN  IF others = {} /\ ~validating
        THEN UNCHANGED disturbed
        ELSE disturbed' = [disturbed EXCEPT ![n] = @ \cup others \cup {new}]

(* malloc, and xTaskCreate of the block's blockchain_phase_listener.       *)
Allocate(n, b) ==
    /\ heap' = [heap EXCEPT ![n] = Append(@, b)]
    /\ listener' = [listener EXCEPT ![n] = Append(@, [pc |-> "created", needed |-> 0])]

-----------------------------------------------------------------------------
Init ==
    /\ foreign_public_key_array \in InitialKeys
    /\ trade_deal_is_open = [n \in Module |-> TRUE]
    /\ drafting = [n \in Module |-> [pc |-> "recvmsg", buyer |-> n, previous_hash |-> BaseHash]]
    /\ heap = [n \in Module |-> <<>>]
    /\ chain_head = [n \in Module |-> NoBlock]
    /\ listener = [n \in Module |-> <<>>]
    /\ port = [n \in Module |-> NoBlock]
    /\ phase_acceptance_array = [n \in Module |-> EmptyTally]
    /\ validator = [n \in Module |-> [pc |-> "recvmsg", block |-> NoBlock, phase |-> 1]]
    /\ blocks = {}
    /\ acks = {}
    /\ dups = 0
    /\ cast = {}
    /\ disturbed = [n \in Module |-> {}]

-----------------------------------------------------------------------------
(***************************************************************************)
(* laset_listener_task                                                     *)
(***************************************************************************)

(* The BCA branch: another module's amperage broadcast carries its key,    *)
(* again and again: it overwrites the one stored before.                   *)
LearnKey(n, m) ==
    /\ n # m
    /\ foreign_public_key_array' = [foreign_public_key_array EXCEPT ![n] = @ \cup {m}]
    /\ UNCHANGED <<trade_deal_is_open, drafting, chainVars, voteVars, netVars>>

TradesOf(s) == Cardinality({b \in DOMAIN heap[s] : heap[s][b].seller_node_id = s})

PreviousHash_Faulty(s) ==                              \* one block too far back
    IF chain_head[s] = NoBlock THEN BaseHash ELSE heap[s][chain_head[s]].previous_hash
PreviousHash(s) ==
    IF chain_head[s] = NoBlock THEN BaseHash ELSE heap[s][chain_head[s]].hash

(* The ATD branch up to the previous hash: an offer whose signature        *)
(* verifies closes the deal, and the hash of the head is copied.           *)
AcceptTrade(s, buyer) ==
    /\ drafting[s].pc = "recvmsg"
    /\ TradesOf(s) < MaxTrades
    /\ trade_deal_is_open[s]
    /\ buyer # s
    /\ buyer \in foreign_public_key_array[s]
    /\ trade_deal_is_open' = [trade_deal_is_open EXCEPT ![s] = FALSE]
    /\ drafting' = [drafting EXCEPT ![s] =
           [pc |-> "draft", buyer |-> buyer, previous_hash |-> PreviousHash(s)]]
    /\ UNCHANGED <<foreign_public_key_array, chainVars, voteVars, netVars>>

(* The rest of the branch: the block is built from trade_data and the head *)
(* pointer as they are now, broadcast, and its listener task created.      *)
DraftBlock(s) ==
    /\ drafting[s].pc = "draft"
    /\ \E td \in TradeData :
           /\ Allocate(s, create_block(drafting[s].previous_hash, s, drafting[s].buyer,
                                       td.duration, td.signature, chain_head[s]))
           /\ blocks' = blocks \cup
                  {[to |-> r, previous_hash |-> drafting[s].previous_hash,
                    seller |-> s, buyer |-> drafting[s].buyer,
                    duration |-> td.duration, signature |-> td.signature] : r \in Audience(s)}
    /\ Disturbs(s, validator[s].pc # "recvmsg")
    /\ drafting' = [drafting EXCEPT ![s].pc = "recvmsg"]
    /\ UNCHANGED <<foreign_public_key_array, trade_deal_is_open, chain_head, port,
                   voteVars, acks, dups>>

-----------------------------------------------------------------------------
(***************************************************************************)
(* blockchain_listener_task                                                *)
(***************************************************************************)

CopyOf_Faulty(n, m) ==                                 \* not chained to anything
    create_block(m.previous_hash, m.seller, m.buyer, m.duration, m.signature, NoBlock)

(* The local copy of a broadcast block: chained to the local head.         *)
CopyOf(n, m) ==
    create_block(m.previous_hash, m.seller, m.buyer, m.duration, m.signature, chain_head[n])

AcceptBlock(n, m) ==
    /\ validator[n].pc = "recvmsg"
    /\ m.to = n
    /\ verify_block_hash(n, CopyOf(n, m))
    /\ Received(m, blocks)
    /\ Allocate(n, CopyOf(n, m))
    /\ Disturbs(n, FALSE)
    /\ validator' = [validator EXCEPT ![n] =
           [pc |-> "check", block |-> Len(heap[n]) + 1, phase |-> 1]]
    /\ UNCHANGED <<tradeVars, chain_head, port, phase_acceptance_array, cast, acks>>

(* A block that cannot be verified is freed again.                         *)
RejectBlock(n, m) ==
    /\ validator[n].pc = "recvmsg"
    /\ m.to = n
    /\ ~verify_block_hash(n, CopyOf(n, m))
    /\ Received(m, blocks)
    /\ UNCHANGED <<tradeVars, chainVars, voteVars, acks>>

PhaseLeft_Faulty(n) ==                                 \* one phase too many
    validator[n].phase <= heap[n][validator[n].block].duration \div PhaseLength + 1
PhaseLeft(n) ==
    validator[n].phase <= heap[n][validator[n].block].duration \div PhaseLength

(* The loop test, which reads the duration out of the shared block.  The   *)
(* 100 ms delay in front of the loop lets the listener task start first.   *)
CheckPhase(n) ==
    /\ validator[n].pc = "check"
    /\ listener[n][validator[n].block].pc # "created"
    /\ validator' = [validator EXCEPT ![n].pc = IF PhaseLeft(n) THEN "rlc" ELSE "recvmsg"]
    /\ UNCHANGED <<tradeVars, chainVars, phase_acceptance_array, cast, netVars>>

Vote(n) == [from |-> n, phase |-> validator[n].phase,
            hash |-> heap[n][validator[n].block].hash]

NextPhase_Faulty(n) == validator' = [validator EXCEPT ![n].pc = "check"]  \* no phase++
NextPhase(n) ==
    validator' = [validator EXCEPT ![n].pc = "check", ![n].phase = @ + 1]

TallyPhase_Faulty(n) ==                                \* its own vote is only sent
    /\ validator[n].pc = "rlc"
    /\ cast' = cast \cup {Vote(n)}
    /\ validator' = [validator EXCEPT ![n].pc = "bpa"]
    /\ UNCHANGED <<tradeVars, chainVars, phase_acceptance_array, netVars>>

(* The simulator's estimate is <= 0: the phase is counted locally first... *)
TallyPhase(n) ==
    LET v == validator[n] IN
    /\ v.pc = "rlc"
    /\ phase_acceptance_array' = Tallied(n, v.phase)
    /\ cast' = cast \cup {Vote(n)}
    /\ validator' = [validator EXCEPT ![n].pc = "bpa"]
    /\ UNCHANGED <<tradeVars, chainVars, netVars>>

(* ...and then broadcast with the hash the shared block has by then.       *)
BroadcastAck(n) ==
    /\ validator[n].pc = "bpa"
    /\ cast' = cast \cup {Vote(n)}
    /\ acks' = acks \cup {[to |-> r, vote |-> Vote(n)] : r \in Audience(n)}
    /\ NextPhase(n)
    /\ UNCHANGED <<tradeVars, chainVars, phase_acceptance_array, blocks, dups>>

(* The estimate is positive: the phase is not acknowledged.                *)
RefusePhase(n) ==
    /\ validator[n].pc = "rlc"
    /\ NextPhase(n)
    /\ UNCHANGED <<tradeVars, chainVars, phase_acceptance_array, cast, netVars>>

-----------------------------------------------------------------------------
(***************************************************************************)
(* blockchain_phase_listener                                               *)
(***************************************************************************)

(* The shared tally is cleared, port 8889 is bound unless another listener *)
(* holds it (the error is only logged), and the quorum is computed once.   *)
StartListening(n, b) ==
    /\ listener[n][b].pc = "created"
    /\ \E tally \in Cleared(n) :
           phase_acceptance_array' = [phase_acceptance_array EXCEPT ![n] = tally]
    /\ port' = [port EXCEPT ![n] = IF @ = NoBlock THEN b ELSE @]
    /\ listener' = [listener EXCEPT ![n][b] =
           [pc |-> "listening", needed |-> needed_laset_amount(n)]]
    /\ UNCHANGED <<tradeVars, heap, chain_head, disturbed, validator, cast, netVars>>

CountedFor_Faulty(n, vote) == Tallied(n, vote.phase)   \* whatever block it is for
CountedFor(n, vote) ==
    IF vote.hash = heap[n][port[n]].hash THEN Tallied(n, vote.phase)
    ELSE phase_acceptance_array

(* Only the listener that holds the port receives anything.                *)
RecvAck(n, m) ==
    /\ m.to = n
    /\ port[n] # NoBlock
    /\ listener[n][port[n]].pc = "listening"
    /\ Received(m, acks)
    /\ phase_acceptance_array' = CountedFor(n, m.vote)
    /\ UNCHANGED <<tradeVars, chainVars, validator, cast, blocks>>

(* Nothing the listener of b waits for is outstanding: no module has still *)
(* to receive b or to finish its phases, and no ack for b is on its way.   *)
Quiet(n, b) ==
    /\ \A m \in blocks : m.previous_hash # heap[n][b].previous_hash
    /\ \A o \in Module : validator[o].pc # "recvmsg" =>
           heap[o][validator[o].block].hash # heap[n][b].hash
    /\ port[n] = b => \A m \in acks : m.to = n => m.vote.hash # heap[n][b].hash

CutShort(n, b) ==
    disturbed' = IF Quiet(n, b) THEN disturbed ELSE [disturbed EXCEPT ![n] = @ \cup {b}]

(* The deadline: the duration is adjusted, the hash recomputed, and the    *)
(* block becomes the head of the chain, whether or not the votes are in.   *)
AppendBlock(n, b) ==
    LET d == adjusted_duration(n, listener[n][b].needed) IN
    /\ listener[n][b].pc = "listening"
    /\ heap' = [heap EXCEPT ![n][b] = create_block_hash([@ EXCEPT !.duration = d])]
    /\ chain_head' = [chain_head EXCEPT ![n] = b]
    /\ listener' = [listener EXCEPT ![n][b].pc = "appended"]
    /\ CutShort(n, b)
    /\ UNCHANGED <<tradeVars, port, voteVars, netVars>>

Reopened_Faulty(n) == trade_deal_is_open
Reopened(n) == [trade_deal_is_open EXCEPT ![n] = TRUE]

(* After printing the chain the socket is closed, the module opens for new *)
(* trades and the task deletes itself.                                     *)
CloseListener(n, b) ==
    /\ listener[n][b].pc = "appended"
    /\ port' = [port EXCEPT ![n] = IF @ = b THEN NoBlock ELSE @]
    /\ trade_deal_is_open' = Reopened(n)
    /\ listener' = [listener EXCEPT ![n][b].pc = "deleted"]
    /\ UNCHANGED <<foreign_public_key_array, drafting, heap, chain_head, disturbed,
                   voteVars, netVars>>

-----------------------------------------------------------------------------
LasetListenerTask(n) ==
    \/ \E m \in Module : LearnKey(n, m)
    \/ n \in Seller /\ \E buyer \in Module : AcceptTrade(n, buyer)
    \/ DraftBlock(n)

BlockchainListenerTask(n) ==
    \/ \E m \in blocks : AcceptBlock(n, m) \/ RejectBlock(n, m)
    \/ CheckPhase(n)
    \/ TallyPhase(n)
    \/ BroadcastAck(n)
    \/ RefusePhase(n)

PhaseListenerTask(n, b) ==
    \/ StartListening(n, b)
    \/ AppendBlock(n, b)
    \/ CloseListener(n, b)

Next ==
    \E n \in Module :
        \/ LasetListenerTask(n)
        \/ BlockchainListenerTask(n)
        \/ \E m \in acks : RecvAck(n, m)
        \/ \E b \in DOMAIN listener[n] : PhaseListenerTask(n, b)

Spec == Init /\ [][Next]_vars

(***************************************************************************)
(* The scheduler runs every ready task, and a listener's deadline is on    *)
(* the wall clock.  Nothing is assumed of the network.                     *)
(***************************************************************************)
Pointer == 1..(Cardinality(Seller) * MaxTrades + MaxDups)

ListenerFairness ==
    \A n \in Module :
        /\ WF_vars(DraftBlock(n))
        /\ \A b \in Pointer :
               WF_vars(b \in DOMAIN listener[n] /\ PhaseListenerTask(n, b))

(* The simulator answers every load calculation.                           *)
ValidatorFairness ==
    \A n \in Module :
        WF_vars(CheckPhase(n) \/ TallyPhase(n) \/ RefusePhase(n) \/ BroadcastAck(n))

FairSpec == Spec /\ ListenerFairness /\ ValidatorFairness

-----------------------------------------------------------------------------
(***************************************************************************)
(* Properties                                                              *)
(***************************************************************************)
Block == [previous_hash : Hash, seller_node_id : Module, duration : Durations,
          seller_signature : Durations, buyer_node_id : Module, hash : Hash,
          previous_block : Nat]

Votes == [from : Module, phase : Phase, hash : Hash]

TradeTypeOK ==
    /\ foreign_public_key_array \in [Module -> SUBSET Module]
    /\ trade_deal_is_open \in [Module -> BOOLEAN]
    /\ drafting \in [Module -> [pc : {"recvmsg", "draft"}, buyer : Module,
                                previous_hash : Hash]]

Listener == [pc : {"created", "listening", "appended", "deleted"}, needed : Nat]
ChainTypeOK ==
    /\ heap \in [Module -> Seq(Block)]
    /\ listener \in [Module -> Seq(Listener)]
    /\ chain_head \in [Module -> Nat]
    /\ port \in [Module -> Nat]
    /\ disturbed \in [Module -> SUBSET Nat]
    /\ \A n \in Module : /\ Len(listener[n]) = Len(heap[n])
                         /\ chain_head[n] <= Len(heap[n])
                         /\ port[n] <= Len(heap[n])

VoteTypeOK ==
    /\ phase_acceptance_array \in [Module -> [Phase -> Nat]]
    /\ validator \in [Module -> [pc : {"recvmsg", "check", "rlc", "bpa"}, block : Nat,
                                 phase : 1..(MaxPhase + 1)]]
    /\ cast \subseteq Votes

(* A validator at work has a block, and a phase of the array to count.     *)
ValidatorOK ==
    \A n \in Module :
        /\ validator[n].block <= Len(heap[n])
        /\ validator[n].pc # "recvmsg" => validator[n].block # NoBlock
        /\ validator[n].pc \in {"rlc", "bpa"} => validator[n].phase \in Phase

NetTypeOK ==
    /\ blocks \subseteq [to : Module, previous_hash : Hash, seller : Module,
                         buyer : Module, duration : Durations, signature : Durations]
    /\ acks \subseteq [to : Module, vote : Votes]
    /\ dups \in Nat

(* Every variable has its type, every pointer its block, and no validator  *)
(* counts a phase the array does not have (main.c:644, 654).               *)
TypeOK == TradeTypeOK /\ ChainTypeOK /\ VoteTypeOK /\ ValidatorOK /\ NetTypeOK

Listening(n, b) == b \in DOMAIN listener[n] /\ listener[n][b].pc = "listening"
Alone(n, b) == b \notin disturbed[n]

(* A listener never waits for a quorum of nobody, which would pay every    *)
(* phase, nor for more acknowledgements than can be cast: the seller does  *)
(* not acknowledge its own block (main.c:249-251, 298).                    *)
QuorumFeasible ==
    \A n \in Module : \A b \in DOMAIN listener[n] :
        Listening(n, b) => listener[n][b].needed \in 1..(Cardinality(Module) - 1)

Voters(hash, p) == {n \in Module : [from |-> n, phase |-> p, hash |-> hash] \in cast}

(* Every acknowledgement a lone listener has tallied was made, for its     *)
(* block and that phase, by a module of its own: nothing is counted twice  *)
(* and nothing leaks in from another block (main.c:279-283, 654).          *)
AcksBacked ==
    \A n \in Module : \A b \in DOMAIN listener[n] :
        Listening(n, b) /\ Alone(n, b) =>
            \A p \in Phase :
                phase_acceptance_array[n][p] <= Cardinality(Voters(heap[n][b].hash, p))

(* The deadline never raises the duration of a lone block above the        *)
(* duration its seller signed (main.c:295-301).                            *)
PaidWithinTerms ==
    [][\A n \in Module : \A b \in DOMAIN heap[n] :
           Alone(n, b) /\ heap[n][b].duration = heap[n][b].seller_signature =>
               heap'[n][b].duration <= heap[n][b].duration]_vars

(* A lone block is appended to the block that is chain_head at that very   *)
(* moment, so no block drops out of the chain (main.c:306-308).            *)
AppendsToHead ==
    [][\A n \in Module :
           chain_head'[n] # chain_head[n] /\ Alone(n, chain_head'[n]) =>
               heap[n][chain_head'[n]].previous_block = chain_head[n]]_vars

(* The only module that sells keeps a ledger: what chain_head leads to is  *)
(* only ever appended to, and the block appended is linked to the previous *)
(* head by pointer and by hash.  The hash was copied when the deal was     *)
(* closed, the pointer when the block was drafted, and the link is made at *)
(* the deadline (main.c:454-472, 306-308).                                 *)
ChainOf(n) == [i \in 1..chain_head[n] |-> heap[n][i]]
TheSeller == CHOOSE s \in Seller : TRUE
SellerLedger == INSTANCE Ledger WITH chain <- ChainOf(TheSeller)

SellerKeepsLedger == SellerLedger!Spec

(* Two modules whose deadlines waited for the votes, with the same quorum, *)
(* add the same block, the same hash included, for a trade neither of them *)
(* heard disturbed (main.c:249-251, 279-308, 650-666).  It holds           *)
(* for a trade that has the network to itself: an ack that overtakes its   *)
(* own block finds the listener of an earlier one, which drops it.         *)
Finished(n) == {b \in DOMAIN listener[n] : listener[n][b].pc \in {"appended", "deleted"}}
Origin(n, b) == [heap[n][b] EXCEPT !.duration = heap[n][b].seller_signature,
                                   !.hash = BaseHash, !.previous_block = NoBlock]
Agreement ==
    \A n, o \in Module : \A b \in Finished(n), c \in Finished(o) :
        /\ Origin(n, b) = Origin(o, c)
        /\ listener[n][b].needed = listener[o][c].needed
        /\ Alone(n, b) /\ Alone(o, c)
        => heap[n][b].hash = heap[o][c].hash

(***************************************************************************)
(* What comments of the program say and its tasks do not keep.             *)
(***************************************************************************)

(* "Adds the block as the new head of the chain" (main.c:307): the block   *)
(* appended points to the head it replaces, whoever else was listening.    *)
BlocksStayInChain ==
    [][\A n \in Module :
           chain_head'[n] # chain_head[n] =>
               heap[n][chain_head'[n]].previous_block = chain_head[n]]_vars

(* "Don't accept multiple offers on the same deal" (main.c:446), a closed  *)
(* deal being one that "has already been accepted" (main.c:409): the deal  *)
(* stays closed from its acceptance to the end of its block's listening.   *)
ClosedWhileSelling ==
    \A n \in Module :
        \/ drafting[n].pc = "draft"
        \/ \E b \in Live(n) : heap[n][b].seller_node_id = n
        => ~trade_deal_is_open[n]

-----------------------------------------------------------------------------
(* A closed deal is opened again, whatever becomes of the block, its       *)
(* datagrams and the other modules (main.c:314).                           *)
TradeReopens == \A n \in Module : ~trade_deal_is_open[n] ~> trade_deal_is_open[n]

(* A validator gets back to receiving blocks, although the duration its    *)
(* loop runs on is rewritten under it (main.c:644, 295).                   *)
ValidatorReturns == \A n \in Module : validator[n].pc # "recvmsg" ~> validator[n].pc = "recvmsg"
=============================================================================
