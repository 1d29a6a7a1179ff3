--------------------------- MODULE OneTrade_proofs ---------------------------
(***************************************************************************)
(* A trade that has the network to itself: the modules whose deadlines     *)
(* waited for the votes add the same block, for any number of modules and  *)
(* phases and any terms, signed or not, in whatever order the block, its   *)
(* acks and the deadlines come, and whatever is lost.                      *)
(*                                                                         *)
(* AckCount_proofs bounds a tally from above.  Agreement needs it exactly, *)
(* and the votes a deadline can have seen have to be told apart from those *)
(* it cannot: a module counts its own vote before it sends it, and a vote  *)
(* that is counted under one hash and sent under another, because its      *)
(* module's own deadline came in between, reaches nobody.  So a tally is   *)
(* the number of the modules in Got: the voter itself, and whoever's ack   *)
(* was sent under the hash of the block and has arrived.  At a deadline    *)
(* that cuts nothing short, everything sent has arrived and nothing more   *)
(* can be sent: the tally is the same in all modules, now and later.       *)
(***************************************************************************)
EXTENDS AckCount_proofs

VoteOf(o, p, h) == [from |-> o, phase |-> p, hash |-> h]

(* o has sent its ack of phase p under the hash h, and under no other.     *)
Unsent(o, p) == validator[o].pc = "bpa" /\ validator[o].phase = p
Sent(o, p, h) ==
    /\ VoteOf(o, p, h) \in cast
    /\ \A v \in cast : v.from = o /\ v.phase = p => v.hash = h
    /\ ~Unsent(o, p)
Senders(p, h) == {o \in Module : Sent(o, p, h)}

(* The modules n has counted: itself, and those whose ack has arrived.     *)
Arrived(n, o, p, h) == Sent(o, p, h) /\ [to |-> n, vote |-> VoteOf(o, p, h)] \notin acks
Got(n, p, h) == {o \in Voters(h, p) : o = n \/ Arrived(n, o, p, h)}

Has(n) == Len(heap[n]) = 1
At(n, pcs) == listener[n][1].pc \in pcs

(* The block of content c is all there is: every module has one copy of it *)
(* at most, and the copies on their way are for modules that have none.    *)
OneBlock(s) ==
    /\ Has(s) /\ heap[s][1].seller_node_id = s
    /\ \A n \in Module : Len(heap[n]) = 0 \/ Has(n)
    /\ \A n \in Module : drafting[n].pc # "draft"
Copied(n, c) ==
    Has(n) =>
        /\ heap[n][1].previous_hash = BaseHash
        /\ heap[n][1].seller_node_id = c[1] /\ heap[n][1].buyer_node_id = c[2]
        /\ heap[n][1].seller_signature = c[4]
        /\ At(n, {"created", "listening"}) => heap[n][1].duration = c[3]
Sendings(c) ==
    \A m \in blocks : /\ m.previous_hash = BaseHash /\ Len(heap[m.to]) = 0
                      /\ <<m.seller, m.buyer, m.duration, m.signature>> = c

(* The votes of n are for its one block, and it has counted them.          *)
VotesFor(n, h) ==
    /\ \A v \in cast : v.from = n =>
           /\ Has(n) /\ ~At(n, {"created"}) /\ Len(v.hash) = 1
           /\ heap[n][1].hash = h => v.hash = h
    /\ validator[n].pc = "bpa" /\ heap[n][1].hash = h =>
           VoteOf(n, validator[n].phase, h) \in cast
AcksSent(h) == \A m \in acks : m.vote.hash = h => Sent(m.vote.from, m.vote.phase, h)

TallyIsGot(n, h) ==
    /\ Len(heap[n]) = 0 \/ At(n, {"created"}) =>
           port[n] = NoBlock /\ \A p \in Phase : Got(n, p, h) = {}
    /\ Has(n) /\ At(n, {"listening"}) =>
           /\ port[n] = 1
           /\ \A p \in Phase : phase_acceptance_array[n][p] = Cardinality(Got(n, p, h))

(* Once a listener that was not cut short has passed its deadline, nobody  *)
(* will send an ack under h any more, and it has paid what was sent.       *)
Over(h) ==
    /\ blocks = {}
    /\ \A o \in Module : validator[o].pc # "recvmsg" => heap[o][1].hash # h
Won(h, needed) == {p \in Phase : Cardinality(Senders(p, h)) >= needed}
PaidAsSent(n, h) ==
    Has(n) /\ At(n, {"appended", "deleted"}) /\ 1 \notin disturbed[n] =>
        /\ Over(h)
        /\ heap[n][1].duration = PhaseLength * Cardinality(Won(h, listener[n][1].needed))

Before ==
    /\ blocks = {} /\ acks = {} /\ cast = {}
    /\ \A n \in Module : Len(heap[n]) = 0
Ballot(s, c) ==
    /\ OneBlock(s) /\ Sendings(c) /\ AcksSent(<<c>>)
    /\ \A n \in Module : /\ Copied(n, c) /\ VotesFor(n, <<c>>)
                         /\ TallyIsGot(n, <<c>>) /\ PaidAsSent(n, <<c>>)
OneTrade(s) == Before \/ \E c \in Content : Ballot(s, c)

OneTradeInv(s) == AckInv(s) /\ OneTrade(s)

-----------------------------------------------------------------------------
(* Contents are of four parts.                                             *)
LEMMA ContentIs ==
    ASSUME NEW c \in Content
    PROVE  c = <<c[1], c[2], c[3], c[4]>>
  BY DEF Content

(* The one block of a module, as its types and the hash it carries say.    *)
LEMMA OneBlockFacts ==
    ASSUME TypeOK, NEW n \in Module, Has(n)
    PROVE  /\ heap[n][1] \in Block /\ listener[n][1] \in Listener
           /\ DOMAIN heap[n] = {1} /\ DOMAIN listener[n] = {1}
  <1>1. /\ heap[n] \in Seq(Block) /\ listener[n] \in Seq(Listener)
        /\ DOMAIN heap[n] = 1..1 /\ DOMAIN listener[n] = 1..1
    BY ModuleFacts DEF Has
  <1>2. 1 \in 1..1 /\ 1..1 = {1}
    OBVIOUS
  <1> QED
    BY <1>1, <1>2, ElementOfSeq

LEMMA HashOf ==
    ASSUME TypeOK, NEW n \in Module, Hashed(n), Has(n), NEW c \in Content, Copied(n, c)
    PROVE  /\ Len(heap[n][1].hash) = 1
           /\ heap[n][1].hash = <<ContentOf(heap[n][1])>>
           /\ heap[n][1].hash = <<c>> <=> heap[n][1].duration = c[3]
  <1>1. heap[n][1] \in Block /\ 1 \in DOMAIN heap[n]
    BY OneBlockFacts
  <1>2. heap[n][1].hash = Append(<<>>, ContentOf(heap[n][1]))
    BY <1>1 DEF Hashed, Copied, BaseHash
  <1> SUFFICES ASSUME NEW x, x = ContentOf(heap[n][1]), NEW d, d = heap[n][1].duration
               PROVE  /\ Len(heap[n][1].hash) = 1 /\ heap[n][1].hash = <<x>>
                      /\ heap[n][1].hash = <<c>> <=> d = c[3]
    OBVIOUS
  <1>3. heap[n][1].hash = <<x>>
    BY <1>2
  <1>4. x = <<c[1], c[2], d, c[4]>>
    BY DEF ContentOf, Copied
  <1>5. <<x>> = <<c>> <=> x = c
    OBVIOUS
  <1>6. x = c <=> d = c[3]
    BY <1>4, ContentIs
  <1> QED
    BY <1>3, <1>5, <1>6

(* What the invariants say of one module during the ballot.                *)
LEMMA BallotFacts ==
    ASSUME NEW s \in Module, AckInv(s), NEW c \in Content, Ballot(s, c), NEW n \in Module
    PROVE  /\ TypeOK /\ Hashed(n) /\ WorksOn(n) /\ OnceEach(n) /\ dups = 0 /\ AcksCast
           /\ Len(heap[n]) \in {0, 1}
           /\ Copied(n, c) /\ VotesFor(n, <<c>>) /\ TallyIsGot(n, <<c>>)
           /\ PaidAsSent(n, <<c>>)
           /\ \A b \in DOMAIN listener[n] : b = 1 /\ Has(n)
           /\ port[n] \in {0, 1}
           /\ validator[n].pc # "recvmsg" =>
                  /\ Has(n) /\ validator[n].block = 1
                  /\ Vote(n) = VoteOf(n, validator[n].phase, heap[n][1].hash)
           /\ validator[n].pc \in {"rlc", "bpa"} => ~At(n, {"created"})
  <1>1. /\ TypeOK /\ LoneOK(n) /\ OnceEach(n) /\ dups = 0 /\ AcksCast
        /\ Copied(n, c) /\ VotesFor(n, <<c>>) /\ TallyIsGot(n, <<c>>) /\ PaidAsSent(n, <<c>>)
        /\ Len(heap[n]) \in {0, 1}
    BY DEF AckInv, AckOK, LoneInv, Once, Ballot, OneBlock, Has
  <1>2. \A b \in DOMAIN listener[n] : b = 1 /\ Has(n)
    <2> SUFFICES ASSUME NEW k, k = Len(heap[n])
                 PROVE  \A b \in DOMAIN listener[n] : b = 1 /\ k = 1
      BY DEF Has
    <2>1. DOMAIN listener[n] = 1..k /\ (k = 0 \/ k = 1)
      BY <1>1, ModuleFacts
    <2>2. CASE k = 0
      BY <2>1, <2>2
    <2>3. CASE k = 1
      BY <2>1, <2>3
    <2> QED
      BY <2>1, <2>2, <2>3
  <1>3. port[n] \in {0, 1}
    <2>1. port[n] \in Nat /\ port[n] <= Len(heap[n])
      BY <1>1 DEF TypeOK, ChainTypeOK
    <2>2. \A i \in Nat : \A k \in {0, 1} : i <= k => i \in {0, 1}
      OBVIOUS
    <2> QED
      BY <1>1, <2>1, <2>2
  <1>4. validator[n].pc # "recvmsg" =>
            /\ Has(n) /\ validator[n].block = 1
            /\ Vote(n) = VoteOf(n, validator[n].phase, heap[n][1].hash)
    <2> SUFFICES ASSUME validator[n].pc # "recvmsg"
                 PROVE  Has(n) /\ validator[n].block = 1
      BY DEF Vote, VoteOf
    <2> QED
      BY <1>1, ModuleFacts DEF Has
  <1>5. validator[n].pc \in {"rlc", "bpa"} => ~At(n, {"created"})
    BY <1>1, <1>4 DEF LoneOK, WorksOn, At
  <1> QED
    BY <1>1, <1>2, <1>3, <1>4, <1>5 DEF LoneOK

(* A phase that is still to be counted has not been voted for.             *)
LEMMA NotVoted ==
    ASSUME NEW s \in Module, AckInv(s), NEW c \in Content, Ballot(s, c), NEW n \in Module,
           validator[n].pc \in {"check", "rlc"}
    PROVE  \A v \in cast : v.from = n => v.phase # validator[n].phase
  <1>1. /\ TypeOK /\ Hashed(n) /\ OnceEach(n) /\ VotesFor(n, <<c>>) /\ Copied(n, c)
        /\ Has(n) /\ validator[n].block = 1
    BY BallotFacts
  <1>2. \A v \in cast : v.from = n => SameTrade(n, v.hash)
    BY <1>1, HashOf DEF SameTrade, VotesFor
  <1>3. \A v \in cast : v.from = n => v.phase < validator[n].phase
    BY <1>1, <1>2 DEF OnceEach
  <1>4. validator[n].phase \in Nat /\ \A v \in cast : v.phase \in Nat
    BY <1>1, VoteFacts
  <1> QED
    BY <1>3, <1>4

(* The sets counted are finite.                                            *)
LEMMA GotFinite ==
    ASSUME NEW n, NEW p, NEW h
    PROVE  /\ IsFiniteSet(Got(n, p, h)) /\ Cardinality(Got(n, p, h)) \in Nat
           /\ \A o \in Module \ Got(n, p, h) :
                  Cardinality(Got(n, p, h) \cup {o}) = Cardinality(Got(n, p, h)) + 1
  <1>1. Got(n, p, h) \subseteq Module /\ IsFiniteSet(Module)
    BY ModuleAssumption DEF Got, Voters, ModuleAssumption
  <1>2. IsFiniteSet(Got(n, p, h))
    BY <1>1, FS_Subset
  <1> QED
    BY <1>2, FS_CardinalityType, FS_AddElement
-----------------------------------------------------------------------------
(***************************************************************************)
(* What a step leaves alone.                                               *)
(***************************************************************************)

(* A module none of whose tasks moves, and none of whose acks arrives.     *)
LEMMA BystanderKeeps ==
    ASSUME NEW k \in Module, NEW c, NEW h, Still(k), port'[k] = port[k],
           cast \subseteq cast', \A v \in cast' : v.from = k => v \in cast,
           \A p \in Phase : Got(k, p, h)' = Got(k, p, h),
           Copied(k, c), VotesFor(k, h), TallyIsGot(k, h)
    PROVE  Copied(k, c)' /\ VotesFor(k, h)' /\ TallyIsGot(k, h)'
  <1>1. Copied(k, c)'
    BY DEF Copied, Still, Has, At
  <1>2. VotesFor(k, h)'
    BY DEF VotesFor, Still, Has, At
  <1>3. TallyIsGot(k, h)'
    BY DEF TallyIsGot, Still, Has, At
  <1> QED
    BY <1>1, <1>2, <1>3

(* What is over stays over, so what was paid stays right.                  *)
StaysOver(h) == Over(h) => Over(h)' /\ \A p \in Phase : Senders(p, h)' = Senders(p, h)

LEMMA PaidStays ==
    ASSUME NEW k \in Module, NEW h, StaysOver(h), PaidAsSent(k, h),
           heap'[k] = heap[k], disturbed[k] \subseteq disturbed'[k],
           At(k, {"appended", "deleted"})' =>
               /\ At(k, {"appended", "deleted"})
               /\ listener'[k][1].needed = listener[k][1].needed
    PROVE  PaidAsSent(k, h)'
  <1> SUFFICES ASSUME Has(k)', At(k, {"appended", "deleted"})', 1 \notin disturbed'[k]
               PROVE  /\ Over(h)'
                      /\ heap'[k][1].duration
                            = PhaseLength * Cardinality(Won(h, listener[k][1].needed)')
    BY DEF PaidAsSent
  <1>1. /\ Over(h)
        /\ heap[k][1].duration = PhaseLength * Cardinality(Won(h, listener[k][1].needed))
    BY DEF PaidAsSent, Has
  <1>2. Won(h, listener[k][1].needed)' = Won(h, listener'[k][1].needed)
    BY <1>1 DEF StaysOver, Won
  <1> QED
    BY <1>1, <1>2 DEF StaysOver

(* Steps that change no vote, no ack and no block.                         *)
IdleStep ==
    /\ UNCHANGED <<heap, cast, acks, disturbed, phase_acceptance_array>>
    /\ blocks' \subseteq blocks
    /\ \A k \in Module :
           /\ drafting'[k] = drafting[k]
           /\ \/ validator'[k] = validator[k]
              \/ validator[k].pc \in {"check", "rlc"} /\ validator'[k].pc \in {"check", "rlc", "recvmsg"}
           /\ \/ listener'[k] = listener[k] /\ port'[k] = port[k]
              \/ /\ Has(k) /\ At(k, {"appended"}) /\ At(k, {"deleted"})'
                 /\ listener'[k][1].needed = listener[k][1].needed

LEMMA IdleKeeps ==
    ASSUME NEW s \in Module, AckInv(s), NEW c \in Content, Ballot(s, c), IdleStep
    PROVE  Ballot(s, c)'
  <1> SUFFICES ASSUME NEW h, h = <<c>>
               PROVE  /\ OneBlock(s)' /\ Sendings(c)' /\ AcksSent(h)'
                      /\ \A n \in Module : /\ Copied(n, c)' /\ VotesFor(n, h)'
                                           /\ TallyIsGot(n, h)' /\ PaidAsSent(n, h)'
    BY DEF Ballot
  <1>1. TypeOK
    BY DEF AckInv, AckOK, LoneInv
  <1>2. \A o \in Module : \A p : Sent(o, p, h)' <=> Sent(o, p, h)
    BY DEF IdleStep, Sent, Unsent
  <1>3. /\ OneBlock(s)' /\ Sendings(c)'
    BY DEF IdleStep, Ballot, OneBlock, Sendings, Has
  <1>4. AcksSent(h)'
    BY <1>1, <1>2, VoteFacts DEF IdleStep, Ballot, AcksSent
  <1>5. \A n, p : Got(n, p, h)' = Got(n, p, h)
    BY <1>2 DEF IdleStep, Got, Voters, Arrived
  <1>6. StaysOver(h)
    BY <1>2 DEF IdleStep, StaysOver, Over, Senders
  <1> SUFFICES ASSUME NEW n \in Module
               PROVE  /\ Copied(n, c)' /\ VotesFor(n, h)' /\ TallyIsGot(n, h)'
                      /\ PaidAsSent(n, h)'
    BY <1>3, <1>4
  <1>7. /\ Copied(n, c) /\ VotesFor(n, h) /\ TallyIsGot(n, h) /\ PaidAsSent(n, h)
    BY DEF Ballot
  <1>8. Copied(n, c)'
    BY <1>7 DEF IdleStep, Copied, Has, At
  <1>9. VotesFor(n, h)'
    BY <1>7 DEF IdleStep, VotesFor, Has, At
  <1>10. TallyIsGot(n, h)'
    <2>1. CASE listener'[n] = listener[n] /\ port'[n] = port[n]
      BY <1>5, <1>7, <2>1 DEF IdleStep, TallyIsGot, Has, At
    <2>2. CASE Has(n) /\ At(n, {"appended"}) /\ At(n, {"deleted"})'
      BY <2>2 DEF IdleStep, TallyIsGot, Has, At
    <2> QED
      BY <2>1, <2>2 DEF IdleStep
  <1>11. PaidAsSent(n, h)'
    <2>1. At(n, {"appended", "deleted"})' =>
               /\ At(n, {"appended", "deleted"})
               /\ listener'[n][1].needed = listener[n][1].needed
      BY DEF IdleStep, At
    <2> QED
      BY <1>6, <1>7, <2>1, PaidStays DEF IdleStep
  <1> QED
    BY <1>8, <1>9, <1>10, <1>11

(* The seller has drafted its block, so it accepts no other offer.         *)
LEMMA IdleSteps ==
    ASSUME NEW s \in Module, AckInv(s), Seller = {s}, MaxTrades = 1, MaxDups = 0,
           NEW c \in Content, Ballot(s, c), NEW n \in Module,
           \/ LasetListenerTask(n)
           \/ \E m \in blocks : RejectBlock(n, m)
           \/ CheckPhase(n) \/ RefusePhase(n)
           \/ \E b \in DOMAIN listener[n] : CloseListener(n, b)
    PROVE  IdleStep
  <1>0. TypeOK /\ dups = 0 /\ OneBlock(s)
    BY BallotFacts DEF Ballot
  <1>1. ASSUME NEW m \in Module, LearnKey(n, m)
        PROVE  IdleStep
    BY <1>1 DEF LearnKey, IdleStep, chainVars, voteVars, netVars
  <1>2. ASSUME n \in Seller, NEW m \in Module, AcceptTrade(n, m)
        PROVE  IdleStep
    <2>1. n = s /\ TradesOf(s) < 1
      BY <1>2, MaxTrades = 1, Seller = {s} DEF AcceptTrade
    <2>2. DOMAIN heap[s] = {1} /\ heap[s][1].seller_node_id = s
      BY <1>0, OneBlockFacts DEF OneBlock
    <2>3. {b \in DOMAIN heap[s] : heap[s][b].seller_node_id = s} = {1}
      BY <2>2
    <2>4. TradesOf(s) = 1
      BY <2>3, FS_Singleton DEF TradesOf
    <2> QED
      BY <2>1, <2>4
  <1>3. ~DraftBlock(n)
    BY <1>0 DEF OneBlock, DraftBlock
  <1>4. ASSUME NEW m \in blocks, RejectBlock(n, m)
        PROVE  IdleStep
    BY <1>4 DEF RejectBlock, Received, IdleStep, tradeVars, chainVars, voteVars
  <1>5. CASE CheckPhase(n) \/ RefusePhase(n)
    <2>1. /\ UNCHANGED <<heap, cast, acks, blocks, disturbed, phase_acceptance_array, drafting,
                         listener, port>>
          /\ validator[n].pc \in {"check", "rlc"}
          /\ \A k \in Module \ {n} : validator'[k] = validator[k]
          /\ validator'[n].pc \in {"check", "rlc", "recvmsg"}
      BY <1>0, <1>5 DEF CheckPhase, RefusePhase, NextPhase, TypeOK, VoteTypeOK, tradeVars,
                        chainVars, netVars
    <2> QED
      BY <2>1 DEF IdleStep
  <1>6. ASSUME NEW b \in DOMAIN listener[n], CloseListener(n, b)
        PROVE  IdleStep
    <2>1. b = 1 /\ Has(n)
      BY BallotFacts
    <2>2. listener[n][1] \in Listener /\ 1 \in DOMAIN listener[n]
      BY <1>0, <2>1, OneBlockFacts
    <2>3. /\ UNCHANGED <<heap, cast, acks, blocks, disturbed, phase_acceptance_array, drafting,
                         validator>>
          /\ \A k \in Module \ {n} : listener'[k] = listener[k] /\ port'[k] = port[k]
          /\ listener'[n] = [listener[n] EXCEPT ![1].pc = "deleted"]
          /\ listener[n][1].pc = "appended"
      BY <1>0, <1>6, <2>1 DEF CloseListener, TypeOK, ChainTypeOK, voteVars, netVars
    <2>4. listener'[n][1].pc = "deleted" /\ listener'[n][1].needed = listener[n][1].needed
      BY <2>2, <2>3 DEF Listener
    <2>5. Has(n) /\ At(n, {"appended"}) /\ At(n, {"deleted"})'
      BY <2>1, <2>3, <2>4 DEF At
    <2> QED
      BY <2>3, <2>4, <2>5 DEF IdleStep
  <1> QED
    BY <1>1, <1>2, <1>3, <1>4, <1>5, <1>6 DEF LasetListenerTask

-----------------------------------------------------------------------------
(***************************************************************************)
(* The steps of the ballot, and what they do to Sent and Got.              *)
(***************************************************************************)

(* A vote that has only been counted has not been sent (main.c:654).       *)
LEMMA BallotTallyPhase ==
    ASSUME NEW s \in Module, AckInv(s), NEW c \in Content, Ballot(s, c),
           NEW n \in Module, TallyPhase(n)
    PROVE  Ballot(s, c)'
  <1> SUFFICES ASSUME NEW h, h = <<c>>, NEW q, q = validator[n].phase
               PROVE  /\ OneBlock(s)' /\ Sendings(c)' /\ AcksSent(h)'
                      /\ \A k \in Module : /\ Copied(k, c)' /\ VotesFor(k, h)'
                                           /\ TallyIsGot(k, h)' /\ PaidAsSent(k, h)'
    BY DEF Ballot
  <1>1. /\ TypeOK /\ Has(n) /\ ~At(n, {"created"}) /\ Hashed(n)
        /\ validator[n].pc = "rlc" /\ q \in Phase
        /\ Vote(n) = VoteOf(n, q, heap[n][1].hash)
        /\ Copied(n, c) /\ VotesFor(n, h) /\ TallyIsGot(n, h)
    <2>1. validator[n].pc = "rlc"
      BY DEF TallyPhase
    <2>2. TypeOK
      BY BallotFacts
    <2>3. q \in Phase
      BY <2>1, <2>2 DEF TypeOK, ValidatorOK
    <2> QED
      BY <2>1, <2>2, <2>3, BallotFacts
  <1>2. /\ UNCHANGED <<heap, acks, blocks, disturbed, drafting, listener, port>>
        /\ cast' = cast \cup {VoteOf(n, q, heap[n][1].hash)}
        /\ phase_acceptance_array' = Tallied(n, q)
        /\ validator' = [validator EXCEPT ![n].pc = "bpa"]
    BY <1>1 DEF TallyPhase, tradeVars, chainVars, netVars
  <1>3. /\ \A k \in Module \ {n} : validator'[k] = validator[k]
        /\ validator'[n].pc = "bpa" /\ validator'[n].phase = q
        /\ validator'[n].block = validator[n].block
    BY <1>1, <1>2 DEF TypeOK, VoteTypeOK
  <1>4. \A v \in cast : v.from = n => v.phase # q
    BY <1>1, NotVoted
  <1>5. ASSUME NEW o \in Module, NEW p
        PROVE  Sent(o, p, h)' <=> Sent(o, p, h)
    <2>1. CASE o # n
      BY <1>2, <1>3, <2>1 DEF Sent, Unsent, VoteOf
    <2>2. CASE o = n /\ p # q
      BY <1>1, <1>2, <1>3, <2>2 DEF Sent, Unsent, VoteOf
    <2>3. CASE o = n /\ p = q
      BY <1>3, <1>4, <2>3 DEF Sent, Unsent, VoteOf
    <2> QED
      BY <2>1, <2>2, <2>3
  <1>6. AcksSent(h)'
    BY <1>1, <1>2, <1>5, VoteFacts DEF Ballot, AcksSent
  <1>7. OneBlock(s)' /\ Sendings(c)'
    BY <1>2 DEF Ballot, OneBlock, Sendings, Has
  <1>8. StaysOver(h)
    <2>1. \A k \in Module : validator'[k].pc # "recvmsg" => validator[k].pc # "recvmsg"
      BY <1>1, <1>3
    <2> QED
      BY <1>2, <1>5, <2>1 DEF StaysOver, Over, Senders
  <1>9. \A k \in Module : PaidAsSent(k, h)'
    BY <1>2, <1>8, PaidStays DEF Ballot, At
  <1>10. \A k \in Module \ {n} : \A p : Got(k, p, h)' = Got(k, p, h)
    BY <1>2, <1>5 DEF Got, Voters, Arrived, Sent, VoteOf
  <1>11. ASSUME NEW k \in Module \ {n}
         PROVE  Copied(k, c)' /\ VotesFor(k, h)' /\ TallyIsGot(k, h)'
    <2>1. Still(k) /\ port'[k] = port[k] /\ cast \subseteq cast'
      BY <1>1, <1>2, <1>3 DEF Still, Tallied, TypeOK, VoteTypeOK, TallyPhase, chainVars
    <2>2. \A v \in cast' : v.from = k => v \in cast
      BY <1>2 DEF VoteOf
    <2> QED
      BY <1>10, <2>1, <2>2, BystanderKeeps DEF Ballot
  <1>12. Copied(n, c)'
    BY <1>1, <1>2 DEF Copied, Has, At
  <1>13. VotesFor(n, h)'
    <2>1. Len(heap[n][1].hash) = 1
      BY <1>1, HashOf
    <2>2. VoteOf(n, q, heap[n][1].hash).hash = heap[n][1].hash
      BY DEF VoteOf
    <2> QED
      BY <1>1, <1>2, <1>3, <2>1, <2>2 DEF VotesFor, Has, At
  <1>14. TallyIsGot(n, h)'
    <2> SUFFICES ASSUME At(n, {"listening"})', NEW p \in Phase
                 PROVE  /\ port'[n] = 1
                        /\ phase_acceptance_array'[n][p] = Cardinality(Got(n, p, h)')
      BY <1>1, <1>2 DEF TallyIsGot, Has, At
    <2>1. /\ At(n, {"listening"}) /\ port'[n] = 1
          /\ phase_acceptance_array[n][p] = Cardinality(Got(n, p, h))
      BY <1>1, <1>2 DEF TallyIsGot, At
    <2>2. heap[n][1].hash = h
      BY <1>1, <2>1, HashOf DEF Copied, At
    <2>3. /\ phase_acceptance_array \in [Module -> [Phase -> Nat]]
      BY <1>1 DEF TypeOK, VoteTypeOK
    <2>4. CASE p # q
      <3>1. Got(n, p, h)' = Got(n, p, h)
        BY <1>2, <1>5, <2>4 DEF Got, Voters, Arrived, VoteOf
      <3>2. phase_acceptance_array'[n][p] = phase_acceptance_array[n][p]
        BY <1>2, <2>3, <2>4 DEF Tallied
      <3> QED
        BY <2>1, <3>1, <3>2
    <2>5. CASE p = q
      <3>1. Got(n, p, h)' = Got(n, p, h) \cup {n}
        BY <1>2, <1>5, <2>2, <2>5 DEF Got, Voters, Arrived, VoteOf
      <3>2. n \notin Got(n, p, h)
        BY <1>4, <2>5 DEF Got, Voters
      <3>3. phase_acceptance_array'[n][p] = phase_acceptance_array[n][p] + 1
        BY <1>2, <2>3, <2>5 DEF Tallied
      <3> QED
        BY <2>1, <3>1, <3>2, <3>3, GotFinite
    <2> QED
      BY <2>1, <2>4, <2>5
  <1> QED
    BY <1>6, <1>7, <1>9, <1>11, <1>12, <1>13, <1>14

(* An ack that is sent is on its way to everyone but its sender, who has   *)
(* counted it (main.c:654-666).                                            *)
LEMMA BallotBroadcastAck ==
    ASSUME NEW s \in Module, AckInv(s), NEW c \in Content, Ballot(s, c),
           NEW n \in Module, BroadcastAck(n)
    PROVE  Ballot(s, c)'
  <1> SUFFICES ASSUME NEW h, h = <<c>>, NEW q, q = validator[n].phase,
                      NEW g, g = heap[n][1].hash
               PROVE  /\ OneBlock(s)' /\ Sendings(c)' /\ AcksSent(h)'
                      /\ \A k \in Module : /\ Copied(k, c)' /\ VotesFor(k, h)'
                                           /\ TallyIsGot(k, h)' /\ PaidAsSent(k, h)'
    BY DEF Ballot
  <1>1. /\ TypeOK /\ Has(n) /\ ~At(n, {"created"}) /\ Hashed(n)
        /\ validator[n].pc = "bpa" /\ Vote(n) = VoteOf(n, q, g)
        /\ Copied(n, c) /\ VotesFor(n, h) /\ TallyIsGot(n, h)
    <2>1. validator[n].pc = "bpa"
      BY DEF BroadcastAck
    <2> QED
      BY <2>1, BallotFacts
  <1>2. /\ UNCHANGED <<heap, blocks, disturbed, drafting, listener, port, chain_head,
                       phase_acceptance_array>>
        /\ cast' = cast \cup {VoteOf(n, q, g)}
        /\ acks' = acks \cup {[to |-> r, vote |-> VoteOf(n, q, g)] : r \in Module \ {n}}
    BY <1>1 DEF BroadcastAck, tradeVars, chainVars, Audience
  <1>3. /\ \A k \in Module \ {n} : validator'[k] = validator[k]
        /\ validator'[n].pc = "check"
    BY <1>1 DEF BroadcastAck, NextPhase, TypeOK, VoteTypeOK
  <1>4. g = h => VoteOf(n, q, h) \in cast /\ \A v \in cast : v.from = n => v.hash = h
    BY <1>1 DEF VotesFor
  <1>5. \A o \in Module : \A p : o # n \/ p # q => (Sent(o, p, h)' <=> Sent(o, p, h))
    <2>1. ASSUME NEW o \in Module, NEW p, o # n
          PROVE  Sent(o, p, h)' <=> Sent(o, p, h)
      BY <1>2, <1>3, <2>1 DEF Sent, Unsent, VoteOf
    <2>2. ASSUME NEW p, p # q
          PROVE  Sent(n, p, h)' <=> Sent(n, p, h)
      BY <1>1, <1>2, <1>3, <2>2 DEF Sent, Unsent, VoteOf
    <2> QED
      BY <2>1, <2>2
  <1>6. ~Sent(n, q, h)
    BY <1>1 DEF Sent, Unsent
  <1>7. Sent(n, q, h)' <=> g = h
    <2>1. CASE g = h
      BY <1>2, <1>3, <1>4, <2>1 DEF Sent, Unsent, VoteOf
    <2>2. CASE g # h
      BY <1>2, <2>2 DEF Sent, VoteOf
    <2> QED
      BY <2>1, <2>2
  <1>8. AcksSent(h)'
    <2> SUFFICES ASSUME NEW m \in acks', m.vote.hash = h
                 PROVE  Sent(m.vote.from, m.vote.phase, h)'
      BY DEF AcksSent
    <2>1. CASE m \in acks
      <3>1. m.vote.from \in Module /\ Sent(m.vote.from, m.vote.phase, h)
        BY <1>1, <2>1, VoteFacts DEF Ballot, AcksSent
      <3> QED
        BY <1>5, <1>6, <3>1
    <2>2. CASE m \notin acks
      <3>1. m.vote = VoteOf(n, q, g)
        BY <1>2, <2>2
      <3>2. m.vote.from = n /\ m.vote.phase = q /\ g = h
        BY <3>1 DEF VoteOf
      <3> QED
        BY <1>7, <3>2
    <2> QED
      BY <2>1, <2>2
  <1>9. OneBlock(s)' /\ Sendings(c)'
    BY <1>2 DEF BroadcastAck, tradeVars, Ballot, OneBlock, Sendings, Has
  <1>10. StaysOver(h)
    <2>1. \A k \in Module : validator'[k].pc # "recvmsg" => validator[k].pc # "recvmsg"
      BY <1>1, <1>3
    <2>2. Over(h) => g # h
      BY <1>1 DEF Over
    <2>3. Over(h) => \A p : Senders(p, h)' = Senders(p, h)
      BY <1>5, <1>6, <1>7, <2>2 DEF Senders
    <2> QED
      BY <1>2, <2>1, <2>3 DEF StaysOver, Over
  <1>11. \A k \in Module : PaidAsSent(k, h)'
    BY <1>2, <1>10, PaidStays DEF Ballot, At
  <1>12. ASSUME NEW k \in Module, NEW p
         PROVE  Got(k, p, h)' = Got(k, p, h)
    <2>1. ASSUME NEW o \in Module, o # n \/ p # q
          PROVE  o \in Got(k, p, h)' <=> o \in Got(k, p, h)
      <3>1. VoteOf(o, p, h) # VoteOf(n, q, g)
        BY <2>1 DEF VoteOf
      <3>2. [to |-> k, vote |-> VoteOf(o, p, h)] \in acks'
                <=> [to |-> k, vote |-> VoteOf(o, p, h)] \in acks
        BY <1>2, <3>1
      <3>3. VoteOf(o, p, h) \in cast' <=> VoteOf(o, p, h) \in cast
        BY <1>2, <3>1
      <3> QED
        BY <1>5, <2>1, <3>2, <3>3 DEF Got, Voters, Arrived, VoteOf
    <2>2. ASSUME p = q, k = n
          PROVE  n \in Got(k, p, h)' <=> n \in Got(k, p, h)
      BY <1>2, <1>4, <2>2 DEF Got, Voters, VoteOf
    <2>3. ASSUME p = q, k # n
          PROVE  n \notin Got(k, p, h)' /\ n \notin Got(k, p, h)
      BY <1>2, <1>6, <1>7, <2>3 DEF Got, Arrived
    <2> QED
      BY <2>1, <2>2, <2>3 DEF Got, Voters
  <1>13. ASSUME NEW k \in Module
         PROVE  Copied(k, c)' /\ VotesFor(k, h)' /\ TallyIsGot(k, h)'
    <2>1. Copied(k, c) /\ VotesFor(k, h) /\ TallyIsGot(k, h)
      BY DEF Ballot
    <2>2. Copied(k, c)' /\ TallyIsGot(k, h)'
      BY <1>2, <1>12, <2>1 DEF Copied, TallyIsGot, Has, At
    <2>3. VotesFor(k, h)'
      <3>1. CASE k # n
        BY <1>2, <1>3, <2>1, <3>1 DEF VotesFor, VoteOf, Has, At
      <3>2. CASE k = n
        <4>1. Len(g) = 1
          BY <1>1, HashOf
        <4>2. VoteOf(n, q, g).hash = g
          BY DEF VoteOf
        <4> QED
          BY <1>1, <1>2, <1>3, <3>2, <4>1, <4>2 DEF VotesFor, Has, At
      <3> QED
        BY <3>1, <3>2
    <2> QED
      BY <2>2, <2>3
  <1> QED
    BY <1>8, <1>9, <1>11, <1>13

(* An ack is counted by the listener it was sent under the hash of, which  *)
(* had not counted its sender before (main.c:279-283).                     *)
LEMMA BallotRecvAck ==
    ASSUME NEW s \in Module, AckInv(s), MaxDups = 0, NEW c \in Content, Ballot(s, c),
           NEW n \in Module, NEW m \in acks, RecvAck(n, m)
    PROVE  Ballot(s, c)'
  <1> SUFFICES ASSUME NEW h, h = <<c>>
               PROVE  /\ OneBlock(s)' /\ Sendings(c)' /\ AcksSent(h)'
                      /\ \A k \in Module : /\ Copied(k, c)' /\ VotesFor(k, h)'
                                           /\ TallyIsGot(k, h)' /\ PaidAsSent(k, h)'
    BY DEF Ballot
  <1>1. /\ TypeOK /\ Hashed(n) /\ dups = 0 /\ AcksCast /\ port[n] \in {0, 1}
        /\ Copied(n, c) /\ VotesFor(n, h) /\ TallyIsGot(n, h)
    BY BallotFacts
  <1>2. /\ UNCHANGED <<heap, blocks, disturbed, drafting, listener, port, chain_head, validator,
                       cast>>
        /\ acks' = acks \ {m} /\ m.to = n
        /\ phase_acceptance_array' = CountedFor(n, m.vote)
        /\ port[n] = 1 /\ At(n, {"listening"})
    <2>1. port[n] = 1 /\ listener[n][port[n]].pc = "listening"
      BY <1>1 DEF RecvAck, NoBlock
    <2>2. acks' = acks \ {m}
      BY <1>1, MaxDups = 0 DEF RecvAck, Received
    <2> QED
      BY <2>1, <2>2 DEF RecvAck, tradeVars, chainVars, At
  <1>3. Has(n)
    <2>1. 1 <= Len(heap[n])
      BY <1>1, <1>2 DEF TypeOK, ChainTypeOK
    <2> QED
      BY <2>1 DEF Ballot, OneBlock
  <1>4. heap[n][1].hash = h
    BY <1>1, <1>2, <1>3, HashOf DEF Copied, At
  <1>5. \A o, p : Sent(o, p, h)' <=> Sent(o, p, h)
    BY <1>2 DEF Sent, Unsent
  <1>6. AcksSent(h)' /\ OneBlock(s)' /\ Sendings(c)'
    BY <1>2, <1>5 DEF Ballot, AcksSent, OneBlock, Sendings, Has
  <1>7. StaysOver(h)
    BY <1>2, <1>5 DEF StaysOver, Over, Senders
  <1>8. \A k \in Module : PaidAsSent(k, h)'
    BY <1>2, <1>7, PaidStays DEF Ballot, At
  <1>9. \A k \in Module \ {n} : \A p : Got(k, p, h)' = Got(k, p, h)
    <2> SUFFICES ASSUME NEW k \in Module \ {n}, NEW p, NEW o \in Module
                 PROVE  [to |-> k, vote |-> VoteOf(o, p, h)] \in acks'
                            <=> [to |-> k, vote |-> VoteOf(o, p, h)] \in acks
      BY <1>2, <1>5 DEF Got, Voters, Arrived
    <2>1. [to |-> k, vote |-> VoteOf(o, p, h)] # m
      BY <1>2
    <2> QED
      BY <1>2, <2>1
  <1>10. ASSUME NEW k \in Module \ {n}
         PROVE  Copied(k, c)' /\ VotesFor(k, h)' /\ TallyIsGot(k, h)'
    <2>1. Still(k) /\ port'[k] = port[k]
      BY <1>1, <1>2 DEF Still, CountedFor, Tallied, TypeOK, VoteTypeOK
    <2> QED
      BY <1>2, <1>9, <2>1, BystanderKeeps DEF Ballot
  <1>11. Copied(n, c)' /\ VotesFor(n, h)'
    BY <1>1, <1>2 DEF Copied, VotesFor, Has, At
  <1>12. TallyIsGot(n, h)'
    <2> DEFINE o == m.vote.from
               q == m.vote.phase
    <2>1. /\ o \in Module /\ q \in Phase /\ m.vote = VoteOf(o, q, m.vote.hash)
          /\ m = [to |-> n, vote |-> m.vote] /\ o # n
      <3>1. m.vote \in Votes /\ m = [to |-> m.to, vote |-> m.vote]
        BY <1>1, VoteFacts
      <3> QED
        BY <1>1, <1>2, <3>1 DEF Votes, VoteOf, AcksCast
    <2> SUFFICES ASSUME NEW p \in Phase
                 PROVE  phase_acceptance_array'[n][p] = Cardinality(Got(n, p, h)')
      BY <1>2, <1>3 DEF TallyIsGot, Has, At
    <2>2. phase_acceptance_array[n][p] = Cardinality(Got(n, p, h))
      BY <1>1, <1>2, <1>3 DEF TallyIsGot
    <2>3. phase_acceptance_array \in [Module -> [Phase -> Nat]]
      BY <1>1 DEF TypeOK, VoteTypeOK
    <2>4. CASE m.vote.hash # h \/ p # q
      <3>1. ASSUME NEW r \in Module
            PROVE  [to |-> n, vote |-> VoteOf(r, p, h)] \in acks'
                       <=> [to |-> n, vote |-> VoteOf(r, p, h)] \in acks
        <4>1. VoteOf(r, p, h) # m.vote
          BY <2>4 DEF VoteOf
        <4> QED
          BY <1>2, <4>1
      <3>2. Got(n, p, h)' = Got(n, p, h)
        BY <1>2, <1>5, <3>1 DEF Got, Voters, Arrived
      <3>3. phase_acceptance_array'[n][p] = phase_acceptance_array[n][p]
        BY <1>2, <1>4, <2>3, <2>4 DEF CountedFor, Tallied
      <3> QED
        BY <2>2, <3>2, <3>3
    <2>5. CASE m.vote.hash = h /\ p = q
      <3>1. m = [to |-> n, vote |-> VoteOf(o, p, h)]
        BY <2>1, <2>5
      <3>2. Sent(o, p, h)
        BY <2>5 DEF Ballot, AcksSent
      <3>3. o \notin Got(n, p, h)
        BY <2>1, <3>1 DEF Got, Arrived
      <3>4. o \in Got(n, p, h)'
        <4>1. VoteOf(o, p, h) \in cast' /\ Arrived(n, o, p, h)'
          BY <1>2, <1>5, <3>1, <3>2 DEF Arrived, Sent
        <4> QED
          BY <2>1, <4>1 DEF Got, Voters, VoteOf
      <3>5. ASSUME NEW r \in Module, r # o
            PROVE  r \in Got(n, p, h)' <=> r \in Got(n, p, h)
        <4>1. [to |-> n, vote |-> VoteOf(r, p, h)] # m
          BY <3>1, <3>5 DEF VoteOf
        <4>2. [to |-> n, vote |-> VoteOf(r, p, h)] \in acks'
                  <=> [to |-> n, vote |-> VoteOf(r, p, h)] \in acks
          BY <1>2, <4>1
        <4> QED
          BY <1>2, <1>5, <4>2 DEF Got, Voters, Arrived
      <3>6. Got(n, p, h)' = Got(n, p, h) \cup {o}
        BY <3>4, <3>5 DEF Got, Voters
      <3>7. phase_acceptance_array'[n][p] = phase_acceptance_array[n][p] + 1
        BY <1>2, <1>4, <2>3, <2>5 DEF CountedFor, Tallied
      <3> QED
        BY <2>1, <2>2, <3>3, <3>6, <3>7, GotFinite
    <2> QED
      BY <2>4, <2>5
  <1> QED
    BY <1>6, <1>8, <1>10, <1>11, <1>12

(* A listener starts before its module has acknowledged anything, so there *)
(* is nothing the clearing of the tally can lose or leave (main.c:201).    *)
LEMMA BallotStartListening ==
    ASSUME NEW s \in Module, AckInv(s), NEW c \in Content, Ballot(s, c),
           NEW n \in Module, NEW b \in DOMAIN listener[n], StartListening(n, b)
    PROVE  Ballot(s, c)'
  <1> SUFFICES ASSUME NEW h, h = <<c>>
               PROVE  /\ OneBlock(s)' /\ Sendings(c)' /\ AcksSent(h)'
                      /\ \A k \in Module : /\ Copied(k, c)' /\ VotesFor(k, h)'
                                           /\ TallyIsGot(k, h)' /\ PaidAsSent(k, h)'
    BY DEF Ballot
  <1>1. /\ TypeOK /\ b = 1 /\ Has(n) /\ At(n, {"created"})
        /\ Copied(n, c) /\ VotesFor(n, h) /\ TallyIsGot(n, h)
        /\ validator[n].pc # "rlc" /\ port[n] = 0
    <2>1. b = 1
      BY BallotFacts
    <2>2. At(n, {"created"})
      BY <2>1 DEF StartListening, At
    <2>3. port[n] = 0
      BY <2>2, BallotFacts DEF TallyIsGot, NoBlock
    <2> QED
      BY <2>1, <2>2, <2>3, BallotFacts
  <1>2. /\ UNCHANGED <<heap, blocks, disturbed, drafting, chain_head, validator, cast, acks>>
        /\ phase_acceptance_array' = [phase_acceptance_array EXCEPT ![n] = EmptyTally]
        /\ port' = [port EXCEPT ![n] = 1]
        /\ listener' = [listener EXCEPT ![n][1] =
                            [pc |-> "listening", needed |-> needed_laset_amount(n)]]
    <2>1. Cleared(n) = {EmptyTally}
      BY <1>1 DEF Cleared, Counting, NoBlock
    <2> QED
      BY <1>1, <2>1 DEF StartListening, tradeVars, netVars, NoBlock
  <1>3. /\ \A k \in Module \ {n} : listener'[k] = listener[k]
        /\ listener'[n][1].pc = "listening" /\ port'[n] = 1
        /\ \A k \in Module \ {n} : port'[k] = port[k]
        /\ phase_acceptance_array'[n] = EmptyTally
        /\ \A k \in Module \ {n} : phase_acceptance_array'[k] = phase_acceptance_array[k]
    <2>1. 1 \in DOMAIN listener[n]
      BY <1>1
    <2>2. /\ listener \in [Module -> Seq(Listener)] /\ port \in [Module -> Nat]
          /\ phase_acceptance_array \in [Module -> [Phase -> Nat]]
      BY <1>1 DEF TypeOK, ChainTypeOK, VoteTypeOK
    <2>3. /\ \A k \in Module \ {n} : listener'[k] = listener[k]
          /\ listener'[n][1] = [pc |-> "listening", needed |-> needed_laset_amount(n)]
      BY <1>2, <2>1, <2>2
    <2> QED
      BY <1>2, <2>2, <2>3
  <1>4. \A o, p : Sent(o, p, h)' <=> Sent(o, p, h)
    BY <1>2 DEF Sent, Unsent
  <1>5. AcksSent(h)' /\ OneBlock(s)' /\ Sendings(c)'
    BY <1>2, <1>4 DEF Ballot, AcksSent, OneBlock, Sendings, Has
  <1>6. StaysOver(h)
    BY <1>2, <1>4 DEF StaysOver, Over, Senders
  <1>7. \A k, p : Got(k, p, h)' = Got(k, p, h)
    BY <1>2, <1>4 DEF Got, Voters, Arrived
  <1>8. ASSUME NEW k \in Module \ {n}
        PROVE  Copied(k, c)' /\ VotesFor(k, h)' /\ TallyIsGot(k, h)' /\ PaidAsSent(k, h)'
    <2>1. Still(k) /\ port'[k] = port[k]
      BY <1>2, <1>3 DEF Still
    <2>2. Copied(k, c)' /\ VotesFor(k, h)' /\ TallyIsGot(k, h)'
      BY <1>2, <1>7, <2>1, BystanderKeeps DEF Ballot
    <2>3. PaidAsSent(k, h)'
      BY <1>2, <1>3, <1>6, PaidStays DEF Ballot, At
    <2> QED
      BY <2>2, <2>3
  <1>9. Copied(n, c)' /\ VotesFor(n, h)' /\ PaidAsSent(n, h)'
    BY <1>1, <1>2, <1>3 DEF Copied, VotesFor, PaidAsSent, Has, At
  <1>10. TallyIsGot(n, h)'
    <2>1. \A p \in Phase : Got(n, p, h)' = {} /\ phase_acceptance_array'[n][p] = 0
      BY <1>1, <1>3, <1>7 DEF TallyIsGot, EmptyTally
    <2> QED
      BY <1>1, <1>2, <1>3, <2>1, FS_EmptySet DEF TallyIsGot, Has, At
  <1> QED
    BY <1>5, <1>8, <1>9, <1>10

-----------------------------------------------------------------------------
(***************************************************************************)
(* The block arrives.                                                      *)
(***************************************************************************)

(* What a block is created with, it holds (chain.c:41-58).                 *)
LEMMA CreatedFields ==
    ASSUME NEW ph, NEW s, NEW r, NEW d, NEW sg, NEW p,
           NEW b, b = create_block(ph, s, r, d, sg, p)
    PROVE  /\ b.previous_hash = ph /\ b.seller_node_id = s /\ b.buyer_node_id = r
           /\ b.duration = d /\ b.seller_signature = sg
  BY DEF create_block, create_block_hash

(* A module that has one block is given it as its first.                   *)
LEMMA FirstAllocated ==
    ASSUME TypeOK, NEW n \in Module, NEW b \in Block, Allocate(n, b), Len(heap[n]) = 0
    PROVE  /\ Has(n)' /\ heap'[n][1] = b /\ At(n, {"created"})'
           /\ \A o \in Module \ {n} : heap'[o] = heap[o] /\ listener'[o] = listener[o]
  <1>1. /\ Len(heap'[n]) = 0 + 1 /\ heap'[n][0 + 1] = b
        /\ \A o \in Module \ {n} : heap'[o] = heap[o] /\ listener'[o] = listener[o]
    BY Allocated
  <1>2. listener'[n] = Append(listener[n], [pc |-> "created", needed |-> 0])
    BY DEF Allocate, TypeOK, ChainTypeOK
  <1>3. listener[n] \in Seq(Listener) /\ Len(listener[n]) = 0
    BY ModuleFacts
  <1>4. [pc |-> "created", needed |-> 0] \in Listener
    BY DEF Listener
  <1>5. listener'[n][1] = [pc |-> "created", needed |-> 0]
    BY <1>2, <1>3, <1>4, AppendProperties
  <1> QED
    BY <1>1, <1>5 DEF Has, At

LEMMA BallotAcceptBlock ==
    ASSUME NEW s \in Module, AckInv(s), MaxDups = 0, NEW c \in Content, Ballot(s, c),
           NEW n \in Module, NEW m \in blocks, AcceptBlock(n, m)
    PROVE  Ballot(s, c)'
  <1> SUFFICES ASSUME NEW h, h = <<c>>
               PROVE  /\ OneBlock(s)' /\ Sendings(c)' /\ AcksSent(h)'
                      /\ \A k \in Module : /\ Copied(k, c)' /\ VotesFor(k, h)'
                                           /\ TallyIsGot(k, h)' /\ PaidAsSent(k, h)'
    BY DEF Ballot
  <1>1. /\ TypeOK /\ dups = 0 /\ m.to = n /\ Len(heap[n]) = 0
        /\ Copied(n, c) /\ VotesFor(n, h) /\ TallyIsGot(n, h)
        /\ validator[n].pc = "recvmsg"
        /\ m.previous_hash = BaseHash /\ <<m.seller, m.buyer, m.duration, m.signature>> = c
    BY BallotFacts DEF AcceptBlock, Ballot, Sendings
  <1>2. CopyOf(n, m) \in Block
    <2>1. /\ m.previous_hash \in Hash /\ m.seller \in Module /\ m.buyer \in Module
          /\ m.duration \in Durations /\ m.signature \in Durations
          /\ chain_head[n] \in Nat
      BY <1>1 DEF TypeOK, NetTypeOK, ChainTypeOK
    <2> QED
      BY <2>1, CreatedBlockType DEF CopyOf
  <1>3. /\ UNCHANGED <<drafting, port, phase_acceptance_array, cast, acks, chain_head>>
        /\ blocks' = blocks \ {m}
        /\ Allocate(n, CopyOf(n, m))
        /\ \A k \in Module \ {n} : validator'[k] = validator[k] /\ disturbed'[k] = disturbed[k]
        /\ validator'[n].pc = "check"
    <2>1. blocks' = blocks \ {m}
      BY <1>1, MaxDups = 0 DEF AcceptBlock, Received
    <2>2. \A k \in Module \ {n} : disturbed'[k] = disturbed[k]
      BY <1>1 DEF AcceptBlock, Disturbs, TypeOK, ChainTypeOK
    <2>3. /\ \A k \in Module \ {n} : validator'[k] = validator[k]
          /\ validator'[n].pc = "check"
      BY <1>1 DEF AcceptBlock, TypeOK, VoteTypeOK
    <2> QED
      BY <2>1, <2>2, <2>3 DEF AcceptBlock, tradeVars
  <1>4. /\ Has(n)' /\ heap'[n][1] = CopyOf(n, m) /\ At(n, {"created"})'
        /\ \A k \in Module \ {n} : heap'[k] = heap[k] /\ listener'[k] = listener[k]
    BY <1>1, <1>2, <1>3, FirstAllocated
  <1>5. \A o \in Module : \A p : Sent(o, p, h)' <=> Sent(o, p, h)
    BY <1>1, <1>3 DEF Sent, Unsent
  <1>6. AcksSent(h)'
    BY <1>1, <1>3, <1>5, VoteFacts DEF Ballot, AcksSent
  <1>7. OneBlock(s)'
    <2>1. n # s
      BY <1>1 DEF Ballot, OneBlock, Has
    <2> QED
      BY <1>3, <1>4, <2>1 DEF Ballot, OneBlock, Has
  <1>8. Sendings(c)'
    <2> SUFFICES ASSUME NEW l \in blocks \ {m}
                 PROVE  /\ l.previous_hash = BaseHash /\ Len(heap'[l.to]) = 0
                        /\ <<l.seller, l.buyer, l.duration, l.signature>> = c
      BY <1>3 DEF Sendings
    <2>1. /\ l.previous_hash = BaseHash /\ Len(heap[l.to]) = 0 /\ l.to \in Module
          /\ <<l.seller, l.buyer, l.duration, l.signature>> = c
      BY <1>1, VoteFacts DEF Ballot, Sendings
    <2>2. l.to # n
      BY <1>1, <2>1 DEF AckInv, AckOK, Once, NumbersNew
    <2> QED
      BY <1>4, <2>1, <2>2
  <1>9. StaysOver(h)
    BY DEF StaysOver, Over
  <1>10. \A k, p : Got(k, p, h)' = Got(k, p, h)
    BY <1>3, <1>5 DEF Got, Voters, Arrived
  <1>11. ASSUME NEW k \in Module \ {n}
         PROVE  Copied(k, c)' /\ VotesFor(k, h)' /\ TallyIsGot(k, h)' /\ PaidAsSent(k, h)'
    <2>1. Still(k) /\ port'[k] = port[k]
      BY <1>3, <1>4 DEF Still
    <2>2. Copied(k, c)' /\ VotesFor(k, h)' /\ TallyIsGot(k, h)'
      BY <1>3, <1>10, <2>1, BystanderKeeps DEF Ballot
    <2>3. PaidAsSent(k, h)'
      BY <1>3, <1>4, <1>9, PaidStays DEF Ballot, At
    <2> QED
      BY <2>2, <2>3
  <1>12. Copied(n, c)'
    <2>1. /\ CopyOf(n, m).previous_hash = m.previous_hash
          /\ CopyOf(n, m).seller_node_id = m.seller /\ CopyOf(n, m).buyer_node_id = m.buyer
          /\ CopyOf(n, m).duration = m.duration /\ CopyOf(n, m).seller_signature = m.signature
      BY CreatedFields DEF CopyOf
    <2>2. c[1] = m.seller /\ c[2] = m.buyer /\ c[3] = m.duration /\ c[4] = m.signature
      BY <1>1
    <2> QED
      BY <1>1, <1>4, <2>1, <2>2 DEF Copied
  <1>13. VotesFor(n, h)' /\ PaidAsSent(n, h)'
    BY <1>1, <1>3, <1>4 DEF VotesFor, PaidAsSent, Has, At
  <1>14. TallyIsGot(n, h)'
    BY <1>1, <1>3, <1>4, <1>10 DEF TallyIsGot, Has, At
  <1> QED
    BY <1>6, <1>7, <1>8, <1>11, <1>12, <1>13, <1>14

-----------------------------------------------------------------------------
(***************************************************************************)
(* The deadline.                                                           *)
(***************************************************************************)

(* At a deadline that cuts nothing short everything sent has arrived.      *)
LEMMA QuietCounts ==
    ASSUME NEW s \in Module, AckInv(s), NEW c \in Content, Ballot(s, c), NEW n \in Module,
           Has(n), At(n, {"listening"}), Quiet(n, 1), NEW p \in Phase
    PROVE  Got(n, p, <<c>>) = Senders(p, <<c>>)
  <1> SUFFICES ASSUME NEW h, h = <<c>>, NEW o \in Module
               PROVE  o \in Got(n, p, h) <=> Sent(o, p, h)
    BY DEF Got, Senders, Voters
  <1>1. /\ heap[n][1].hash = h /\ VotesFor(n, h) /\ port[n] = 1
    BY BallotFacts, HashOf DEF TallyIsGot, Copied, At
  <1>2. Sent(o, p, h) => VoteOf(o, p, h) \in cast
    BY DEF Sent
  <1>3. CASE o = n
    <2>1. validator[n].pc = "recvmsg"
      BY <1>1, BallotFacts DEF Quiet
    <2>2. VoteOf(n, p, h) \in cast => Sent(n, p, h)
      BY <1>1, <2>1 DEF VotesFor, Sent, Unsent
    <2> QED
      BY <1>2, <1>3, <2>2 DEF Got, Voters, VoteOf
  <1>4. CASE o # n
    <2>1. [to |-> n, vote |-> VoteOf(o, p, h)] \notin acks
      BY <1>1 DEF Quiet, VoteOf
    <2> QED
      BY <1>2, <1>4, <2>1 DEF Got, Voters, Arrived, VoteOf
  <1> QED
    BY <1>3, <1>4

LEMMA BallotAppendBlock ==
    ASSUME NEW s \in Module, AckInv(s), NEW c \in Content, Ballot(s, c),
           NEW n \in Module, NEW b \in DOMAIN listener[n], AppendBlock(n, b)
    PROVE  Ballot(s, c)'
  <1> SUFFICES ASSUME NEW h, h = <<c>>, NEW needed, needed = listener[n][1].needed,
                      NEW d, d = adjusted_duration(n, needed)
               PROVE  /\ OneBlock(s)' /\ Sendings(c)' /\ AcksSent(h)'
                      /\ \A k \in Module : /\ Copied(k, c)' /\ VotesFor(k, h)'
                                           /\ TallyIsGot(k, h)' /\ PaidAsSent(k, h)'
    BY DEF Ballot
  <1>1. /\ TypeOK /\ b = 1 /\ Has(n) /\ At(n, {"listening"})
        /\ Copied(n, c) /\ VotesFor(n, h) /\ TallyIsGot(n, h)
        /\ heap[n][1].hash = h
    <2>1. b = 1
      BY BallotFacts
    <2>2. At(n, {"listening"})
      BY <2>1 DEF AppendBlock, At
    <2> QED
      BY <2>1, <2>2, BallotFacts, HashOf DEF Copied, At
  <1>2. /\ UNCHANGED <<blocks, drafting, port, phase_acceptance_array, validator, cast, acks>>
        /\ heap' = [heap EXCEPT ![n][1] =
                        create_block_hash([heap[n][1] EXCEPT !.duration = d])]
        /\ listener' = [listener EXCEPT ![n][1].pc = "appended"]
        /\ CutShort(n, 1)
    BY <1>1 DEF AppendBlock, tradeVars, voteVars, netVars
  <1>3. /\ heap[n][1] \in Block /\ listener[n][1] \in Listener
        /\ 1 \in DOMAIN heap[n] /\ 1 \in DOMAIN listener[n]
    BY <1>1, OneBlockFacts
  <1>4. /\ heap'[n][1] = create_block_hash([heap[n][1] EXCEPT !.duration = d])
        /\ Len(heap'[n]) = Len(heap[n])
        /\ \A k \in Module \ {n} : heap'[k] = heap[k]
    <2>1. heap \in [Module -> Seq(Block)] /\ heap[n] \in Seq(Block)
      BY <1>1 DEF TypeOK, ChainTypeOK
    <2> DEFINE a == create_block_hash([heap[n][1] EXCEPT !.duration = d])
    <2>2. heap' = [heap EXCEPT ![n][1] = a]
      BY <1>2
    <2> HIDE DEF a
    <2>3. /\ heap'[n] = [heap[n] EXCEPT ![1] = a]
          /\ \A k \in Module \ {n} : heap'[k] = heap[k]
      BY <2>1, <2>2
    <2>4. heap'[n][1] = a
      BY <1>3, <2>3
    <2>5. Len(heap'[n]) = Len(heap[n])
      BY <2>1, <2>3
    <2> QED
      BY <2>3, <2>4, <2>5 DEF a
  <1>5. /\ listener'[n][1].pc = "appended" /\ listener'[n][1].needed = needed
        /\ \A k \in Module \ {n} : listener'[k] = listener[k]
    <2>1. listener \in [Module -> Seq(Listener)]
      BY <1>1 DEF TypeOK, ChainTypeOK
    <2> QED
      BY <1>2, <1>3, <2>1 DEF Listener
  <1>6. /\ \A k \in Module : disturbed[k] \subseteq disturbed'[k]
        /\ \A k \in Module \ {n} : disturbed'[k] = disturbed[k]
        /\ 1 \notin disturbed'[n] => Quiet(n, 1)
    BY <1>1, <1>2 DEF CutShort, TypeOK, ChainTypeOK
  <1>7. \A o, p : Sent(o, p, h)' <=> Sent(o, p, h)
    BY <1>2 DEF Sent, Unsent
  <1>8. AcksSent(h)' /\ Sendings(c)'
    <2>1. \A m \in blocks : m.to \in Module /\ m.to # n
      BY <1>1, VoteFacts DEF Ballot, Sendings, Has
    <2> QED
      BY <1>2, <1>4, <1>7, <2>1 DEF Ballot, AcksSent, Sendings
  <1>9. /\ heap'[n][1].previous_hash = heap[n][1].previous_hash
        /\ heap'[n][1].seller_node_id = heap[n][1].seller_node_id
        /\ heap'[n][1].buyer_node_id = heap[n][1].buyer_node_id
        /\ heap'[n][1].seller_signature = heap[n][1].seller_signature
        /\ heap'[n][1].duration = d                                 \* main.c:295
    <2> SUFFICES ASSUME NEW x, x = heap[n][1], NEW a, a = heap'[n][1]
                 PROVE  /\ a.previous_hash = x.previous_hash
                        /\ a.seller_node_id = x.seller_node_id
                        /\ a.buyer_node_id = x.buyer_node_id
                        /\ a.seller_signature = x.seller_signature /\ a.duration = d
      OBVIOUS
    <2>1. x \in Block /\ a = create_block_hash([x EXCEPT !.duration = d])
      BY <1>3, <1>4
    <2> QED
      BY <2>1 DEF Block, create_block_hash
  <1>10. OneBlock(s)'
    <2>1. \A k \in Module : Len(heap'[k]) = Len(heap[k])
      BY <1>4
    <2>2. heap'[s][1].seller_node_id = heap[s][1].seller_node_id
      BY <1>4, <1>9
    <2> QED
      BY <1>2, <2>1, <2>2 DEF Ballot, OneBlock, Has
  <1>11. Over(h) => Over(h)'
    BY <1>1, <1>2, <1>4 DEF Over
  <1>12. StaysOver(h)
    BY <1>7, <1>11 DEF StaysOver, Senders
  <1>13. \A k, p : Got(k, p, h)' = Got(k, p, h)
    BY <1>2, <1>7 DEF Got, Voters, Arrived
  <1>14. ASSUME NEW k \in Module \ {n}
         PROVE  Copied(k, c)' /\ VotesFor(k, h)' /\ TallyIsGot(k, h)' /\ PaidAsSent(k, h)'
    <2>1. Still(k) /\ port'[k] = port[k]
      <3>1. chain_head'[k] = chain_head[k]
        BY <1>1 DEF AppendBlock, TypeOK, ChainTypeOK
      <3> QED
        BY <1>2, <1>4, <1>5, <1>6, <3>1 DEF Still
    <2>2. Copied(k, c)' /\ VotesFor(k, h)' /\ TallyIsGot(k, h)'
      BY <1>2, <1>13, <2>1, BystanderKeeps DEF Ballot
    <2>3. PaidAsSent(k, h)'
      BY <1>4, <1>5, <1>6, <1>12, PaidStays DEF Ballot, At
    <2> QED
      BY <2>2, <2>3
  <1>15. Copied(n, c)' /\ VotesFor(n, h)' /\ TallyIsGot(n, h)'
    BY <1>1, <1>2, <1>4, <1>5, <1>9 DEF Copied, VotesFor, TallyIsGot, Has, At
  <1>16. PaidAsSent(n, h)'
    <2> SUFFICES ASSUME Quiet(n, 1)
                 PROVE  Over(h)' /\ d = PhaseLength * Cardinality(Won(h, needed)')
      BY <1>5, <1>6, <1>9 DEF PaidAsSent
    <2>1. blocks = {}
      BY <1>1 DEF Quiet, Ballot, Sendings, Copied
    <2>2. \A o \in Module : validator[o].pc # "recvmsg" => heap[o][1].hash # h
      BY <1>1, BallotFacts DEF Quiet
    <2>3. Over(h)
      BY <2>1, <2>2 DEF Over
    <2>4. \A p \in Phase : phase_acceptance_array[n][p] = Cardinality(Senders(p, h))
      BY <1>1, QuietCounts DEF TallyIsGot
    <2>5. AcceptedPhases(n, needed) = Won(h, needed)
      BY <2>4 DEF AcceptedPhases, Won
    <2>6. Won(h, needed)' = Won(h, needed)
      BY <1>7 DEF Won, Senders
    <2> QED
      BY <1>11, <2>3, <2>5, <2>6 DEF adjusted_duration
  <1> QED
    BY <1>8, <1>10, <1>14, <1>15, <1>16

-----------------------------------------------------------------------------
(***************************************************************************)
(* The draft, and before it.                                               *)
(***************************************************************************)
LEMMA DraftOpens ==
    ASSUME NEW s \in Module, AckInv(s), Before, NEW n \in Module, DraftBlock(n)
    PROVE  \E c \in Content : Ballot(s, c)'
  <1>1. TypeOK /\ SellerInv(s) /\ \A k \in Module : Len(heap[k]) = 0
    BY DEF AckInv, AckOK, LoneInv, Before
  <1>2. n = s /\ drafting[s].previous_hash = BaseHash
    BY <1>1 DEF DraftBlock, SellerInv, OnlySeller, Linked, HashAt, Newest
  <1> PICK td \in TradeData :
        /\ Allocate(s, create_block(BaseHash, s, drafting[s].buyer, td.duration, td.signature,
                                    chain_head[s]))
        /\ blocks' = blocks \cup
               {[to |-> r, previous_hash |-> BaseHash, seller |-> s, buyer |-> drafting[s].buyer,
                 duration |-> td.duration, signature |-> td.signature] : r \in Audience(s)}
    BY <1>2 DEF DraftBlock
  <1> SUFFICES ASSUME NEW r, r = drafting[s].buyer, NEW d, d = td.duration,
                      NEW sg, sg = td.signature, NEW c, c = <<s, r, d, sg>>
               PROVE  c \in Content /\ Ballot(s, c)'
    OBVIOUS
  <1>3. r \in Module /\ d \in Durations /\ sg \in Durations /\ chain_head[s] \in Nat
        /\ BaseHash \in Hash
    BY <1>1, TradeDataType, EmptySeq DEF TypeOK, TradeTypeOK, ChainTypeOK, BaseHash, Hash
  <1>4. c \in Content
    BY <1>3 DEF Content
  <1> DEFINE b == create_block(BaseHash, s, r, d, sg, chain_head[s])
  <1>5. /\ b \in Block /\ b.previous_hash = BaseHash /\ b.seller_node_id = s
        /\ b.buyer_node_id = r /\ b.duration = d /\ b.seller_signature = sg
    <2>1. b \in Block
      BY <1>3, CreatedBlockType
    <2> SUFFICES ASSUME NEW x, x = b, NEW head, head = chain_head[s]
                 PROVE  /\ x.previous_hash = BaseHash /\ x.seller_node_id = s
                        /\ x.buyer_node_id = r /\ x.duration = d /\ x.seller_signature = sg
      BY <2>1
    <2>2. x = create_block(BaseHash, s, r, d, sg, head)
      OBVIOUS
    <2> HIDE DEF b
    <2> QED
      BY <2>2, CreatedFields
  <1>6. Allocate(s, b)
    OBVIOUS
  <1> HIDE DEF b
  <1>7. /\ Has(s)' /\ heap'[s][1] = b /\ At(s, {"created"})'
        /\ \A o \in Module \ {s} : Len(heap'[o]) = 0
    BY <1>1, <1>5, <1>6, FirstAllocated
  <1>8. /\ UNCHANGED <<port, phase_acceptance_array, validator, cast, acks>>
        /\ cast = {} /\ acks = {} /\ blocks = {}
        /\ \A k \in Module : drafting'[k].pc # "draft"
    <2>1. UNCHANGED <<port, phase_acceptance_array, validator, cast, acks>>
      BY DEF DraftBlock, voteVars
    <2>2. \A k \in Module : drafting'[k].pc # "draft"
      BY <1>1, <1>2 DEF DraftBlock, SellerInv, OnlySeller, TypeOK, TradeTypeOK
    <2> QED
      BY <2>1, <2>2 DEF Before
  <1>9. OneBlock(s)'
    BY <1>5, <1>7, <1>8 DEF OneBlock, Has
  <1>10. Sendings(c)'
    <2> SUFFICES ASSUME NEW m \in blocks'
                 PROVE  /\ m.previous_hash = BaseHash /\ Len(heap'[m.to]) = 0
                        /\ <<m.seller, m.buyer, m.duration, m.signature>> = c
      BY DEF Sendings
    <2>1. PICK o \in Audience(s) :
            m = [to |-> o, previous_hash |-> BaseHash, seller |-> s, buyer |-> r,
                 duration |-> d, signature |-> sg]
      BY <1>8
    <2> QED
      BY <1>7, <2>1 DEF Audience
  <1>11. AcksSent(<<c>>)'
    BY <1>8 DEF AcksSent
  <1> SUFFICES ASSUME NEW k \in Module
               PROVE  /\ Copied(k, c)' /\ VotesFor(k, <<c>>)'
                      /\ TallyIsGot(k, <<c>>)' /\ PaidAsSent(k, <<c>>)'
    BY <1>4, <1>9, <1>10, <1>11 DEF Ballot
  <1>12. k = s \/ Len(heap'[k]) = 0
    BY <1>7
  <1>13. Copied(k, c)'
    BY <1>5, <1>7, <1>12 DEF Copied, Has
  <1>14. VotesFor(k, <<c>>)'
    <2>1. validator[k].pc = "recvmsg"
      <3>1. validator[k].pc # "recvmsg" => validator[k].block \in 1..0
        BY <1>1, ModuleFacts
      <3> QED
        BY <3>1
    <2> QED
      BY <1>8, <2>1 DEF VotesFor
  <1>15. TallyIsGot(k, <<c>>)'
    <2>1. port[k] = 0
      <3>1. port[k] \in Nat /\ port[k] <= Len(heap[k])
        BY <1>1 DEF TypeOK, ChainTypeOK
      <3> QED
        BY <1>1, <3>1
    <2>2. \A p : Got(k, p, <<c>>)' = {}
      BY <1>8 DEF Got, Voters
    <2> QED
      BY <1>7, <1>8, <1>12, <2>1, <2>2 DEF TallyIsGot, Has, At, NoBlock
  <1>16. PaidAsSent(k, <<c>>)'
    BY <1>7, <1>12 DEF PaidAsSent, Has, At
  <1> QED
    BY <1>13, <1>14, <1>15, <1>16

(* Until then there is nothing to receive and nobody to listen.            *)
LEMMA BeforeStays ==
    ASSUME NEW s \in Module, AckInv(s), Before, NEW n \in Module,
           \/ LasetListenerTask(n) /\ ~DraftBlock(n)
           \/ BlockchainListenerTask(n)
           \/ \E m \in acks : RecvAck(n, m)
           \/ \E b \in DOMAIN listener[n] : PhaseListenerTask(n, b)
    PROVE  Before'
  <1>1. /\ TypeOK /\ Len(heap[n]) = 0 /\ blocks = {} /\ acks = {}
    BY DEF AckInv, AckOK, LoneInv, Before
  <1>2. DOMAIN listener[n] = {} /\ validator[n].pc = "recvmsg"
    <2>1. /\ DOMAIN listener[n] = 1..0
          /\ validator[n].pc # "recvmsg" => validator[n].block \in 1..0
      BY <1>1, ModuleFacts
    <2>2. 1..0 = {}
      OBVIOUS
    <2> QED
      BY <2>1, <2>2
  <1>3. \E m \in Module : LearnKey(n, m) \/ AcceptTrade(n, m)
    BY <1>1, <1>2 DEF LasetListenerTask, BlockchainListenerTask, CheckPhase, TallyPhase,
                      BroadcastAck, RefusePhase
  <1> QED
    BY <1>3 DEF LearnKey, AcceptTrade, chainVars, voteVars, netVars, Before

-----------------------------------------------------------------------------
(***************************************************************************)
(* The theorem.                                                            *)
(***************************************************************************)
LEMMA OneTradeStep ==
    ASSUME NEW s \in Module, Seller = {s}, MaxTrades = 1, MaxDups = 0,
           OneTradeInv(s), [Next]_vars
    PROVE  OneTradeInv(s)'
  <1>1. AckInv(s) /\ AckInv(s)'
    BY AckStep, Seller = {s}, MaxDups = 0 DEF OneTradeInv
  <1>2. CASE UNCHANGED vars
    <2>1. CASE Before
      BY <1>1, <1>2, <2>1 DEF OneTradeInv, OneTrade, Before, vars, chainVars, voteVars, netVars
    <2>2. ASSUME NEW c \in Content, Ballot(s, c)
          PROVE  Ballot(s, c)'
      <3>1. IdleStep
        BY <1>2 DEF IdleStep, vars, tradeVars, chainVars, voteVars, netVars
      <3> QED
        BY <1>1, <2>2, <3>1, IdleKeeps
    <2> QED
      BY <1>1, <2>1, <2>2 DEF OneTradeInv, OneTrade
  <1>3. CASE Next
    <2> PICK n \in Module :
            \/ LasetListenerTask(n)
            \/ BlockchainListenerTask(n)
            \/ \E m \in acks : RecvAck(n, m)
            \/ \E b \in DOMAIN listener[n] : PhaseListenerTask(n, b)
      BY <1>3 DEF Next
    <2>1. CASE Before
      BY <1>1, <2>1, DraftOpens, BeforeStays DEF OneTradeInv, OneTrade
    <2>2. ASSUME NEW c \in Content, Ballot(s, c)
          PROVE  Ballot(s, c)'
      <3>1. CASE \/ LasetListenerTask(n)
                 \/ \E m \in blocks : RejectBlock(n, m)
                 \/ CheckPhase(n) \/ RefusePhase(n)
                 \/ \E b \in DOMAIN listener[n] : CloseListener(n, b)
        BY <1>1, <2>2, <3>1, IdleSteps, IdleKeeps, Seller = {s}, MaxTrades = 1, MaxDups = 0
      <3>2. CASE \/ \E m \in blocks : AcceptBlock(n, m)
                 \/ TallyPhase(n) \/ BroadcastAck(n)
        BY <1>1, <2>2, <3>2, BallotAcceptBlock, BallotTallyPhase, BallotBroadcastAck,
           MaxDups = 0
      <3>3. CASE \E m \in acks : RecvAck(n, m)
        BY <1>1, <2>2, <3>3, BallotRecvAck, MaxDups = 0
      <3>4. CASE \E b \in DOMAIN listener[n] : StartListening(n, b) \/ AppendBlock(n, b)
        BY <1>1, <2>2, <3>4, BallotStartListening, BallotAppendBlock
      <3> QED
        BY <3>1, <3>2, <3>3, <3>4 DEF BlockchainListenerTask, PhaseListenerTask
    <2> QED
      BY <1>1, <2>1, <2>2 DEF OneTradeInv, OneTrade
  <1> QED
    BY <1>2, <1>3

LEMMA OneTradeInit ==
    ASSUME NEW s \in Module, Seller = {s}, Init
    PROVE  OneTradeInv(s)
  <1>1. AckInv(s)
    BY AckInit, Seller = {s}
  <1>2. Before
    BY EmptySeq DEF Init, Before
  <1> QED
    BY <1>1, <1>2 DEF OneTradeInv, OneTrade

(* Two listeners that have passed their deadlines, and that nothing cut    *)
(* short, have paid the phases won by what was sent.                       *)
LEMMA BallotAgrees ==
    ASSUME NEW s \in Module, AckInv(s), NEW c \in Content, Ballot(s, c),
           NEW n \in Module, NEW o \in Module,
           NEW b \in Finished(n), NEW e \in Finished(o),
           listener[n][b].needed = listener[o][e].needed, Alone(n, b), Alone(o, e)
    PROVE  heap[n][b].hash = heap[o][e].hash
  <1>1. /\ b = 1 /\ e = 1 /\ Has(n) /\ Has(o)
        /\ At(n, {"appended", "deleted"}) /\ At(o, {"appended", "deleted"})
    BY BallotFacts DEF Finished, At
  <1>2. /\ TypeOK /\ Hashed(n) /\ Hashed(o) /\ Copied(n, c) /\ Copied(o, c)
        /\ PaidAsSent(n, <<c>>) /\ PaidAsSent(o, <<c>>)
    BY BallotFacts
  <1>3. heap[n][1].duration = heap[o][1].duration
    BY <1>1, <1>2 DEF PaidAsSent, Alone
  <1>4. ContentOf(heap[n][1]) = ContentOf(heap[o][1])
    BY <1>1, <1>2, <1>3 DEF ContentOf, Copied
  <1> QED
    BY <1>1, <1>2, <1>4, HashOf

(* With one seller, one trade and no duplicated datagram, two modules that *)
(* waited for the votes with the same quorum add the same block, the same  *)
(* hash included, for a trade neither of them heard disturbed              *)
(* (main.c:249-251, 279-308, 650-666).                                     *)
THEOREM OneTradeAgrees ==
    ASSUME NEW s \in Module, Seller = {s}, MaxTrades = 1, MaxDups = 0
    PROVE  Spec => []Agreement
  <1>1. Init => OneTradeInv(s)
    BY OneTradeInit, Seller = {s}
  <1>2. OneTradeInv(s) /\ [Next]_vars => OneTradeInv(s)'
    BY OneTradeStep, Seller = {s}, MaxTrades = 1, MaxDups = 0
  <1>3. OneTradeInv(s) => Agreement
    <2> SUFFICES ASSUME AckInv(s), OneTrade(s), NEW n \in Module, NEW o \in Module,
                        NEW b \in Finished(n), NEW e \in Finished(o),
                        listener[n][b].needed = listener[o][e].needed,
                        Alone(n, b), Alone(o, e)
                 PROVE  heap[n][b].hash = heap[o][e].hash
      BY DEF Agreement, OneTradeInv
    <2>1. ~Before
      <3> SUFFICES ASSUME Before PROVE FALSE
        OBVIOUS
      <3>1. b \in 1..0
        BY ModuleFacts DEF AckInv, AckOK, LoneInv, Before, Finished
      <3> QED
        BY <3>1
    <2> QED
      BY <2>1, BallotAgrees DEF OneTrade
  <1> QED
    BY <1>1, <1>2, <1>3, PTL DEF Spec
=============================================================================
