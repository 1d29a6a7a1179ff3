-------------------------- MODULE LoneListener_proofs --------------------------
(***************************************************************************)
(* A block that has the listening time of its module to itself is appended *)
(* to the head of the chain and never paid for more than its seller        *)
(* signed, for any number of modules, phases and trades, whatever is lost, *)
(* delayed or duplicated.                                                  *)
(*                                                                         *)
(* The tally has no upper bound of its own: a phase beyond the end of a    *)
(* block stays empty because nobody acknowledges it.  That has to be       *)
(* followed through every module: a validator tests a phase against the    *)
(* duration the seller signed, its ack carries the hash made of that       *)
(* duration, and a lone listener counts no ack with another hash.          *)
(***************************************************************************)
EXTENDS BlockValidation_proofs

WellSigned(o) == o.duration = o.seller_signature

(* Of two live listeners each is disturbed.                                *)
LiveApart(n) == \A b, c \in Live(n) : b # c => b \in disturbed[n]

Lone(n) == Live(n) \ disturbed[n]

(* While a lone block waits for its deadline nothing else is appended.     *)
HeadLinked(n) ==
    \A b \in Lone(n) :
        listener[n][b].pc # "appended" => heap[n][b].previous_block = chain_head[n]

Hashed(n) ==
    \A b \in DOMAIN heap[n] :
        heap[n][b].hash = Append(heap[n][b].previous_hash, ContentOf(heap[n][b]))

(* A validator at work is at work on the lone block, if there is one; it   *)
(* accepted the block with its seller's signature, and has tested against  *)
(* its duration the phase it acknowledges.                                 *)
WorksOn(n) ==
    LET v == validator[n] IN
    v.pc # "recvmsg" =>
        /\ \A b \in Lone(n) : v.block = b
        /\ listener[n][v.block].pc \in {"created", "listening"} =>
               WellSigned(heap[n][v.block])
        /\ v.pc \in {"rlc", "bpa"} =>
               /\ listener[n][v.block].pc # "created"
               /\ WellSigned(heap[n][v.block]) =>
                      PhaseLength * v.phase <= heap[n][v.block].duration

(* So a vote for a block as its seller signed it is for one of its phases. *)
Within(h, p) ==
    h[Len(h)][3] = h[Len(h)][4] => PhaseLength * p <= h[Len(h)][3]
AcksWithin == \A m \in acks : Within(m.vote.hash, m.vote.phase)

TallyWithin(n) ==
    \A b \in Lone(n) :
        listener[n][b].pc = "listening" /\ WellSigned(heap[n][b]) =>
            \A p \in Phase :
                phase_acceptance_array[n][p] = 0 \/ PhaseLength * p <= heap[n][b].duration

LoneOK(n) == LiveApart(n) /\ HeadLinked(n) /\ Hashed(n) /\ WorksOn(n) /\ TallyWithin(n)
LoneInv == TypeOK /\ AcksWithin /\ \A n \in Module : LoneOK(n)

USE DEF PhaseLength, NoBlock

-----------------------------------------------------------------------------
(* What the types say about one module.                                    *)
LEMMA ModuleFacts ==
    ASSUME TypeOK, NEW n \in Module
    PROVE  /\ heap[n] \in Seq(Block) /\ listener[n] \in Seq(Listener)
           /\ Len(heap[n]) \in Nat /\ Len(listener[n]) = Len(heap[n])
           /\ DOMAIN heap[n] = 1..Len(heap[n]) /\ DOMAIN listener[n] = 1..Len(heap[n])
           /\ Live(n) = {b \in 1..Len(heap[n]) : listener[n][b].pc # "deleted"}
           /\ validator[n].pc # "recvmsg" => validator[n].block \in 1..Len(heap[n])
           /\ validator[n].phase \in Nat
  <1>1. heap[n] \in Seq(Block) /\ listener[n] \in Seq(Listener)
    BY DEF TypeOK, ChainTypeOK
  <1>2. Len(heap[n]) \in Nat /\ Len(listener[n]) = Len(heap[n])
    BY <1>1, LenProperties DEF TypeOK, ChainTypeOK
  <1>3. DOMAIN heap[n] = 1..Len(heap[n]) /\ DOMAIN listener[n] = 1..Len(heap[n])
    BY <1>1, <1>2, LenProperties
  <1>4. validator[n].pc # "recvmsg" => validator[n].block \in 1..Len(heap[n])
    BY <1>2 DEF TypeOK, VoteTypeOK, ValidatorOK
  <1>5. validator[n].phase \in Nat
    BY PhaseAssumption DEF TypeOK, VoteTypeOK, PhaseAssumption
  <1> QED
    BY <1>1, <1>2, <1>3, <1>4, <1>5 DEF Live

(* A module none of whose tasks moves.                                     *)
Still(m) ==
    /\ heap'[m] = heap[m] /\ listener'[m] = listener[m] /\ chain_head'[m] = chain_head[m]
    /\ disturbed'[m] = disturbed[m] /\ validator'[m] = validator[m]
    /\ phase_acceptance_array'[m] = phase_acceptance_array[m]

LEMMA LoneStill ==
    ASSUME NEW m \in Module, LoneOK(m), Still(m)
    PROVE  LoneOK(m)'
  BY DEF LoneOK, Still, LiveApart, HeadLinked, Hashed, WorksOn, TallyWithin, Lone, Live

(* A validator's phase may have been counted, sent or refused: the next is *)
(* tested before it counts.                                                *)
LEMMA PhaseDone ==
    ASSUME TypeOK, NEW n \in Module, LoneOK(n), NextPhase(n), validator[n].pc # "recvmsg",
           UNCHANGED <<heap, listener, disturbed>>
    PROVE  WorksOn(n)'
  <1>1. validator'[n].pc = "check" /\ validator'[n].block = validator[n].block
    BY DEF NextPhase, TypeOK, VoteTypeOK
  <1> QED
    BY <1>1 DEF LoneOK, WorksOn, Lone, Live

(* A new block is lone only if no other listener is alive and, where the   *)
(* seller drafts it, the validator is not at work.                         *)
LEMMA LoneAllocate ==
    ASSUME TypeOK, NEW n \in Module, LoneOK(n), NEW b \in Block,
           NEW STATE busy, busy \in BOOLEAN, Allocate(n, b), Disturbs(n, busy), b.previous_block = chain_head[n],
           b.hash = Append(b.previous_hash, ContentOf(b)),
           UNCHANGED <<chain_head, phase_acceptance_array>>
    PROVE  /\ LiveApart(n)' /\ HeadLinked(n)' /\ Hashed(n)' /\ TallyWithin(n)'
           /\ Lone(n)' \subseteq {Len(heap[n]) + 1}
           /\ Lone(n)' # {} => ~busy
           /\ \A c \in 1..Len(heap[n]) : heap'[n][c] = heap[n][c]
                                         /\ listener'[n][c] = listener[n][c]
           /\ heap'[n][Len(heap[n]) + 1] = b
           /\ listener'[n][Len(heap[n]) + 1] = [pc |-> "created", needed |-> 0]
  <1> DEFINE k == Len(heap[n])
             fresh == [pc |-> "created", needed |-> 0]
  <1>1. /\ heap[n] \in Seq(Block) /\ listener[n] \in Seq(Listener) /\ k \in Nat
        /\ Len(listener[n]) = k
        /\ Live(n) = {c \in 1..k : listener[n][c].pc # "deleted"}
    BY ModuleFacts
  <1>2. /\ heap'[n] = Append(heap[n], b) /\ listener'[n] = Append(listener[n], fresh)
    BY DEF Allocate, TypeOK, ChainTypeOK
  <1>3. fresh \in Listener
    BY DEF Listener
  <1>4. /\ DOMAIN heap'[n] = 1..(k + 1) /\ DOMAIN listener'[n] = 1..(k + 1)
        /\ heap'[n][k + 1] = b /\ listener'[n][k + 1] = fresh
        /\ \A c \in 1..k : heap'[n][c] = heap[n][c] /\ listener'[n][c] = listener[n][c]
    BY <1>1, <1>2, <1>3
  <1>5. Live(n)' = Live(n) \cup {k + 1}
    BY <1>1, <1>4 DEF Live
  <1>6. k + 1 \notin Live(n)
    BY <1>1
  <1>7. \/ Live(n) = {} /\ ~busy /\ disturbed'[n] = disturbed[n]
        \/ disturbed'[n] = disturbed[n] \cup Live(n) \cup {k + 1}
    BY DEF Disturbs, TypeOK, ChainTypeOK
  <1>8. Lone(n)' \subseteq {k + 1} /\ (Lone(n)' # {} => Live(n) = {} /\ ~busy)
    BY <1>5, <1>7 DEF Lone
  <1>9. LiveApart(n)'
    BY <1>5, <1>7 DEF LiveApart
  <1>10. HeadLinked(n)'
    BY <1>4, <1>8 DEF HeadLinked
  <1>11. Hashed(n)'
    <2> SUFFICES ASSUME NEW c \in 1..(k + 1)
                 PROVE  heap'[n][c].hash
                            = Append(heap'[n][c].previous_hash, ContentOf(heap'[n][c]))
      BY <1>4 DEF Hashed, ContentOf
    <2>1. CASE c = k + 1
      BY <1>4, <2>1
    <2>2. CASE c # k + 1
      <3>1. c \in 1..k /\ c \in DOMAIN heap[n]
        BY <1>1, <2>2
      <3> QED
        BY <1>4, <3>1 DEF LoneOK, Hashed
    <2> QED
      BY <2>1, <2>2
  <1>12. TallyWithin(n)'
    BY <1>4, <1>8 DEF TallyWithin
  <1> QED
    BY <1>4, <1>8, <1>9, <1>10, <1>11, <1>12

(* A block carries the hash made of what it holds (chain.c:192-233).       *)
LEMMA HashedOwn ==
    ASSUME NEW b \in Block
    PROVE  /\ create_block_hash(b).hash
                  = Append(create_block_hash(b).previous_hash, ContentOf(create_block_hash(b)))
           /\ create_block_hash(b).duration = b.duration
           /\ create_block_hash(b).seller_signature = b.seller_signature
  BY DEF Block, create_block_hash, ContentOf

LEMMA CreatedOwn ==
    ASSUME NEW ph \in Hash, NEW s \in Module, NEW r \in Module,
           NEW d \in Durations, NEW sg \in Durations, NEW p \in Nat
    PROVE  create_block(ph, s, r, d, sg, p).hash
               = Append(create_block(ph, s, r, d, sg, p).previous_hash,
                        ContentOf(create_block(ph, s, r, d, sg, p)))
  <1> DEFINE raw == [previous_hash |-> ph, seller_node_id |-> s, duration |-> d,
                     seller_signature |-> sg, buyer_node_id |-> r,
                     hash |-> BaseHash, previous_block |-> p]
  <1>1. raw \in Block
    BY EmptySeq DEF Block, Hash, BaseHash
  <1>2. create_block(ph, s, r, d, sg, p) = create_block_hash(raw)
    BY DEF create_block
  <1> HIDE DEF raw
  <1> QED
    BY <1>1, <1>2, HashedOwn

(* The last thing hashed into a block are its own terms, so what a block's *)
(* validator has tested is what its votes claim.                           *)
LEMMA VoteWithin ==
    ASSUME NEW h \in Hash, NEW o \in Block, o.hash = Append(h, ContentOf(o)), NEW p \in Nat
    PROVE  Within(o.hash, p) <=> (WellSigned(o) => PhaseLength * p <= o.duration)
  <1>1. ContentOf(o) \in Content
    BY DEF Block, ContentOf, Content
  <1>2. Len(o.hash) = Len(h) + 1 /\ o.hash[Len(o.hash)] = ContentOf(o)
    BY <1>1, AppendProperties, LenProperties DEF Hash
  <1>3. ContentOf(o)[3] = o.duration /\ ContentOf(o)[4] = o.seller_signature
    BY DEF ContentOf
  <1> QED
    BY <1>2, <1>3 DEF Within, WellSigned

-----------------------------------------------------------------------------
(***************************************************************************)
(* One lemma per action: what it leaves of its own module.                 *)
(***************************************************************************)
LEMMA LoneDraftBlock ==
    ASSUME TypeOK, NEW s \in Module, LoneOK(s), DraftBlock(s)
    PROVE  LoneOK(s)'
  <1> DEFINE busy == validator[s].pc # "recvmsg"
             k == Len(heap[s])
  <1>1. PICK td \in TradeData :
            Allocate(s, create_block(drafting[s].previous_hash, s, drafting[s].buyer,
                                     td.duration, td.signature, chain_head[s]))
    BY DEF DraftBlock
  <1> DEFINE b == create_block(drafting[s].previous_hash, s, drafting[s].buyer,
                               td.duration, td.signature, chain_head[s])
  <1>2. /\ drafting[s].previous_hash \in Hash /\ drafting[s].buyer \in Module
        /\ chain_head[s] \in Nat
    BY DEF TypeOK, TradeTypeOK, ChainTypeOK
  <1>3. b \in Block /\ b.previous_block = chain_head[s]
        /\ b.hash = Append(b.previous_hash, ContentOf(b))
    <2>1. td.duration \in Durations /\ td.signature \in Durations /\ s \in Module
      BY TradeDataType
    <2>2. b \in Block /\ b.previous_block = chain_head[s]
      BY <1>2, <2>1, CreatedBlockType
    <2>3. b.hash = Append(b.previous_hash, ContentOf(b))
      BY <1>2, <2>1, CreatedOwn
    <2> QED
      BY <2>2, <2>3
  <1>4. /\ Disturbs(s, busy) /\ busy \in BOOLEAN
        /\ UNCHANGED <<chain_head, phase_acceptance_array, validator>>
    BY DEF DraftBlock, voteVars
  <1> HIDE DEF b, busy
  <1>5. /\ LiveApart(s)' /\ HeadLinked(s)' /\ Hashed(s)' /\ TallyWithin(s)'
        /\ Lone(s)' # {} => ~busy
        /\ \A c \in 1..k : heap'[s][c] = heap[s][c] /\ listener'[s][c] = listener[s][c]
    BY <1>1, <1>3, <1>4, LoneAllocate DEF b
  <1>6. WorksOn(s)'
    <2>1. validator'[s] = validator[s]
      BY <1>4
    <2>2. CASE validator[s].pc # "recvmsg"
      <3>1. validator[s].block \in 1..k
        BY <2>2, ModuleFacts
      <3>2. Lone(s)' = {}
        BY <1>5, <2>2 DEF busy
      <3> QED
        BY <1>5, <2>1, <2>2, <3>1, <3>2 DEF LoneOK, WorksOn, WellSigned
    <2>3. CASE validator[s].pc = "recvmsg"
      BY <2>1, <2>3 DEF WorksOn
    <2> QED
      BY <2>2, <2>3
  <1> QED
    BY <1>5, <1>6 DEF LoneOK

LEMMA LoneAcceptBlock ==
    ASSUME TypeOK, NEW n \in Module, LoneOK(n), NEW m \in blocks, AcceptBlock(n, m)
    PROVE  LoneOK(n)'
  <1> DEFINE b == CopyOf(n, m)
             k == Len(heap[n])
  <1>1. /\ m.previous_hash \in Hash /\ m.seller \in Module /\ m.buyer \in Module
        /\ m.duration \in Durations /\ m.signature \in Durations
        /\ chain_head[n] \in Nat
    BY DEF TypeOK, NetTypeOK, ChainTypeOK
  <1>2. b \in Block /\ b.previous_block = chain_head[n]
        /\ b.hash = Append(b.previous_hash, ContentOf(b))
    <2> DEFINE c == create_block(m.previous_hash, m.seller, m.buyer, m.duration,
                                 m.signature, chain_head[n])
    <2>1. c \in Block /\ c.previous_block = chain_head[n]
      <3>1. c \in Block
        BY <1>1, CreatedBlockType
      <3> QED
        BY <3>1 DEF create_block, create_block_hash
    <2>2. b = c
      BY DEF CopyOf
    <2>3. b.hash = Append(b.previous_hash, ContentOf(b))
      BY <1>1, CreatedOwn DEF CopyOf
    <2> HIDE DEF b, c
    <2> QED
      BY <2>1, <2>2, <2>3
  <1>3. /\ Allocate(n, b) /\ Disturbs(n, FALSE) /\ b.seller_signature = b.duration
        /\ UNCHANGED <<chain_head, phase_acceptance_array>>
    BY DEF AcceptBlock, verify_block_hash
  <1>4. validator'[n] = [pc |-> "check", block |-> k + 1, phase |-> 1]
    BY DEF AcceptBlock, TypeOK, VoteTypeOK
  <1> HIDE DEF b
  <1>5. /\ LiveApart(n)' /\ HeadLinked(n)' /\ Hashed(n)' /\ TallyWithin(n)'
        /\ Lone(n)' \subseteq {k + 1}
        /\ heap'[n][k + 1] = b
    BY <1>2, <1>3, LoneAllocate
  <1>6. WorksOn(n)'
    BY <1>3, <1>4, <1>5 DEF WorksOn, WellSigned
  <1> QED
    BY <1>5, <1>6 DEF LoneOK

LEMMA LoneCheckPhase ==
    ASSUME TypeOK, NEW n \in Module, LoneOK(n), CheckPhase(n)
    PROVE  LoneOK(n)'
  <1> DEFINE v == validator[n]
  <1>1. /\ v.pc = "check" /\ listener[n][v.block].pc # "created"
        /\ UNCHANGED <<heap, listener, chain_head, disturbed, phase_acceptance_array>>
        /\ validator'[n].block = v.block /\ validator'[n].phase = v.phase
        /\ validator'[n].pc = IF PhaseLeft(n) THEN "rlc" ELSE "recvmsg"
    BY DEF CheckPhase, chainVars, TypeOK, VoteTypeOK
  <1>2. PhaseLeft(n) => PhaseLength * v.phase <= heap[n][v.block].duration
    <2>1. v.block \in 1..Len(heap[n]) /\ heap[n] \in Seq(Block) /\ v.phase \in Nat
      <3>1. validator[n].pc # "recvmsg"
        BY <1>1
      <3> QED
        BY <3>1, ModuleFacts
    <2>2. heap[n][v.block].duration \in Durations
      <3>1. heap[n][v.block] \in Block
        BY <2>1, ElementOfSeq
      <3> QED
        BY <3>1 DEF Block
    <2>3. PICK p \in 0..MaxPhase : heap[n][v.block].duration = PhaseLength * p
      BY <2>2 DEF Durations
    <2>4. p \in Nat /\ heap[n][v.block].duration \div PhaseLength = p
      BY <2>3, PhaseAssumption DEF PhaseAssumption
    <2> QED
      BY <2>1, <2>3, <2>4 DEF PhaseLeft
  <1>3. WorksOn(n)'
    BY <1>1, <1>2 DEF LoneOK, WorksOn, Lone, Live
  <1> QED
    BY <1>1, <1>3 DEF LoneOK, LiveApart, HeadLinked, Hashed, TallyWithin, Lone, Live

(* A validator that counts a phase of a lone block has tested it.          *)
LEMMA LoneTallyPhase ==
    ASSUME TypeOK, NEW n \in Module, LoneOK(n), TallyPhase(n)
    PROVE  LoneOK(n)'
  <1> DEFINE v == validator[n]
  <1>1. /\ v.pc = "rlc" /\ UNCHANGED <<heap, listener, chain_head, disturbed>>
        /\ phase_acceptance_array' = Tallied(n, v.phase)
        /\ validator'[n].block = v.block /\ validator'[n].phase = v.phase
        /\ validator'[n].pc = "bpa"
    BY DEF TallyPhase, chainVars, TypeOK, VoteTypeOK
  <1>2. WorksOn(n)'
    BY <1>1 DEF LoneOK, WorksOn, Lone, Live
  <1>3. TallyWithin(n)'
    <2> SUFFICES ASSUME NEW b \in Lone(n), listener[n][b].pc = "listening",
                        WellSigned(heap[n][b]), NEW p \in Phase
                 PROVE  phase_acceptance_array'[n][p] = 0
                            \/ PhaseLength * p <= heap[n][b].duration
      BY <1>1 DEF TallyWithin, Lone, Live
    <2>1. v.block = b /\ PhaseLength * v.phase <= heap[n][b].duration
      BY <1>1 DEF LoneOK, WorksOn
    <2>2. p # v.phase => phase_acceptance_array'[n][p] = phase_acceptance_array[n][p]
      BY <1>1 DEF Tallied, TypeOK, VoteTypeOK
    <2> QED
      BY <2>1, <2>2 DEF LoneOK, TallyWithin
  <1> QED
    BY <1>1, <1>2, <1>3 DEF LoneOK, LiveApart, HeadLinked, Hashed, Lone, Live

LEMMA LonePhaseDone ==
    ASSUME TypeOK, NEW n \in Module, LoneOK(n), BroadcastAck(n) \/ RefusePhase(n)
    PROVE  LoneOK(n)'
  <1>1. /\ NextPhase(n) /\ validator[n].pc # "recvmsg"
        /\ UNCHANGED <<heap, listener, chain_head, disturbed, phase_acceptance_array>>
    BY DEF BroadcastAck, RefusePhase, chainVars
  <1>2. WorksOn(n)'
    BY <1>1, PhaseDone
  <1> QED
    BY <1>1, <1>2 DEF LoneOK, LiveApart, HeadLinked, Hashed, TallyWithin, Lone, Live

(* The tally a lone listener starts from is empty: nobody else is counting *)
(* while it is cleared (main.c:201).                                       *)
LEMMA StartsEmpty ==
    ASSUME TypeOK, NEW n \in Module, LoneOK(n), NEW b \in DOMAIN listener[n],
           StartListening(n, b), NEW c \in Lone(n), NEW p \in Phase
    PROVE  c = b /\ phase_acceptance_array'[n][p] = 0
  <1>1. listener[n][b].pc = "created" /\ phase_acceptance_array'[n] \in Cleared(n)
    BY DEF StartListening, TypeOK, VoteTypeOK
  <1>2. c = b
    <2>1. b \in Live(n)
      BY <1>1 DEF Live
    <2> QED
      BY <2>1 DEF LoneOK, LiveApart, Lone
  <1>3. validator[n].pc # "rlc"
    BY <1>1, <1>2 DEF LoneOK, WorksOn
  <1>4. ~(port[n] # 0 /\ listener[n][port[n]].pc = "listening")
    <2> SUFFICES ASSUME port[n] # 0, listener[n][port[n]].pc = "listening" PROVE FALSE
      OBVIOUS
    <2>1. port[n] \in DOMAIN listener[n]
      BY ModuleFacts DEF TypeOK, ChainTypeOK
    <2>2. port[n] \in Live(n) /\ port[n] # b
      BY <1>1, <2>1 DEF Live
    <2> QED
      BY <1>2, <2>2 DEF LoneOK, LiveApart, Lone
  <1>5. Cleared(n) = {EmptyTally}
    BY <1>3, <1>4 DEF Cleared, Counting
  <1> QED
    BY <1>1, <1>2, <1>5 DEF EmptyTally

LEMMA LoneStartListening ==
    ASSUME TypeOK, NEW n \in Module, LoneOK(n), NEW b \in DOMAIN listener[n],
           StartListening(n, b)
    PROVE  LoneOK(n)'
  <1>1. /\ listener[n][b].pc = "created"
        /\ UNCHANGED <<heap, chain_head, disturbed, validator>>
    BY DEF StartListening
  <1>2. /\ DOMAIN listener'[n] = DOMAIN listener[n]
        /\ listener'[n][b].pc = "listening"
        /\ \A c \in DOMAIN listener[n] : c # b => listener'[n][c] = listener[n][c]
    BY DEF StartListening, TypeOK, ChainTypeOK
  <1>3. Live(n)' = Live(n) /\ Lone(n)' = Lone(n)
    BY <1>1, <1>2 DEF Live, Lone
  <1>4. validator[n].pc # "recvmsg" => validator[n].block \in DOMAIN listener[n]
    BY ModuleFacts
  <1>5. WorksOn(n)'
    BY <1>1, <1>2, <1>3, <1>4 DEF LoneOK, WorksOn, WellSigned
  <1>6. HeadLinked(n)'
    <2> SUFFICES ASSUME NEW c \in Lone(n), listener'[n][c].pc # "appended"
                 PROVE  heap[n][c].previous_block = chain_head[n]
      BY <1>1, <1>3 DEF HeadLinked
    <2>1. listener[n][c].pc # "appended" /\ c \in DOMAIN listener[n]
      BY <1>1, <1>2 DEF Lone, Live
    <2> QED
      BY <2>1 DEF LoneOK, HeadLinked
  <1>7. TallyWithin(n)'
    <2>1. \A c \in Lone(n) : \A p \in Phase : phase_acceptance_array'[n][p] = 0
      BY StartsEmpty
    <2> QED
      BY <1>1, <1>3, <2>1 DEF TallyWithin
  <1> QED
    BY <1>1, <1>3, <1>5, <1>6, <1>7 DEF LoneOK, LiveApart, Hashed, ContentOf

(* A listener that receives is the lone one, if there is one.              *)
LEMMA PortIsLone ==
    ASSUME TypeOK, NEW n \in Module, LoneOK(n), NEW c \in Lone(n),
           port[n] # 0, listener[n][port[n]].pc = "listening"
    PROVE  port[n] = c /\ c \in DOMAIN listener[n]
  <1>1. port[n] \in DOMAIN listener[n]
    BY ModuleFacts DEF TypeOK, ChainTypeOK
  <1>2. port[n] \in Live(n)
    BY <1>1 DEF Live
  <1> QED
    BY <1>1, <1>2 DEF LoneOK, LiveApart, Lone

(* What a lone listener counts is for its own block, so for one of its     *)
(* phases (main.c:279-283).                                                *)
LEMMA LoneRecvAck ==
    ASSUME TypeOK, AcksWithin, NEW n \in Module, LoneOK(n), NEW m \in acks, RecvAck(n, m)
    PROVE  LoneOK(n)'
  <1>1. /\ UNCHANGED <<heap, listener, chain_head, disturbed, validator>>
        /\ port[n] # 0 /\ listener[n][port[n]].pc = "listening"
        /\ phase_acceptance_array' = CountedFor(n, m.vote)
    BY DEF RecvAck, chainVars
  <1>2. TallyWithin(n)'
    <2> SUFFICES ASSUME NEW c \in Lone(n), listener[n][c].pc = "listening",
                        WellSigned(heap[n][c]), NEW p \in Phase
                 PROVE  phase_acceptance_array'[n][p] = 0
                            \/ PhaseLength * p <= heap[n][c].duration
      BY <1>1 DEF TallyWithin, Lone, Live, WellSigned
    <2>1. phase_acceptance_array[n][p] = 0 \/ PhaseLength * p <= heap[n][c].duration
      BY DEF LoneOK, TallyWithin
    <2>2. CASE m.vote.hash = heap[n][port[n]].hash /\ p = m.vote.phase
      <3>1. port[n] = c /\ c \in DOMAIN listener[n]
        BY <1>1, PortIsLone
      <3>2. c \in 1..Len(heap[n]) /\ heap[n] \in Seq(Block) /\ DOMAIN heap[n] = 1..Len(heap[n])
        BY <3>1, ModuleFacts
      <3>3. heap[n][c] \in Block
        BY <3>2, ElementOfSeq
      <3>4. /\ heap[n][c].previous_hash \in Hash
            /\ heap[n][c].hash = Append(heap[n][c].previous_hash, ContentOf(heap[n][c]))
        BY <3>2, <3>3 DEF LoneOK, Hashed, Block
      <3>5. Within(heap[n][c].hash, p)
        BY <2>2, <3>1 DEF AcksWithin
      <3>6. p \in Nat
        BY PhaseAssumption DEF Phase, PhaseAssumption
      <3> QED
        BY <3>3, <3>4, <3>5, <3>6, VoteWithin
    <2>3. CASE ~(m.vote.hash = heap[n][port[n]].hash /\ p = m.vote.phase)
      <3>1. phase_acceptance_array'[n][p] = phase_acceptance_array[n][p]
        BY <1>1, <2>3 DEF CountedFor, Tallied, TypeOK, VoteTypeOK
      <3> QED
        BY <2>1, <3>1
    <2> QED
      BY <2>2, <2>3
  <1> QED
    BY <1>1, <1>2 DEF LoneOK, LiveApart, HeadLinked, Hashed, WorksOn, Lone, Live

(* The deadline of a block changes its duration; no other block is lone    *)
(* while its listener is alive (main.c:295-308).                           *)
LEMMA LoneAppendBlock ==
    ASSUME TypeOK, NEW n \in Module, LoneOK(n), NEW b \in DOMAIN listener[n],
           AppendBlock(n, b)
    PROVE  LoneOK(n)'
  <1> DEFINE d == adjusted_duration(n, listener[n][b].needed)
             raw == [heap[n][b] EXCEPT !.duration = d]
             o == create_block_hash(raw)
  <1>1. b \in 1..Len(heap[n]) /\ heap[n][b] \in Block /\ listener[n][b] \in Listener
    BY PointerType DEF TypeOK
  <1>2. raw \in Block
    <2>1. d \in Durations
      BY <1>1, AdjustedDurationType DEF Listener
    <2> QED
      BY <1>1, <2>1 DEF Block
  <1>3. /\ o.hash = Append(o.previous_hash, ContentOf(o))
        /\ o.seller_signature = heap[n][b].seller_signature
    <2>1. raw.seller_signature = heap[n][b].seller_signature
      BY <1>1 DEF Block
    <2> HIDE DEF raw
    <2> QED
      BY <1>2, <2>1, HashedOwn
  <1>4. /\ listener[n][b].pc = "listening"
        /\ DOMAIN heap'[n] = DOMAIN heap[n] /\ DOMAIN listener'[n] = DOMAIN listener[n]
        /\ heap'[n][b] = o /\ listener'[n][b].pc = "appended"
        /\ \A c \in DOMAIN heap[n] : c # b => heap'[n][c] = heap[n][c]
        /\ \A c \in DOMAIN listener[n] : c # b => listener'[n][c] = listener[n][c]
        /\ UNCHANGED <<validator, phase_acceptance_array>>
    <2>1. /\ heap \in [Module -> Seq(Block)] /\ heap[n] \in Seq(Block)
          /\ listener \in [Module -> Seq(Listener)] /\ listener[n] \in Seq(Listener)
          /\ DOMAIN heap[n] = 1..Len(heap[n]) /\ b \in DOMAIN heap[n]
      BY <1>1, ModuleFacts DEF TypeOK, ChainTypeOK
    <2>2. /\ listener[n][b].pc = "listening" /\ heap' = [heap EXCEPT ![n][b] = o]
          /\ UNCHANGED <<validator, phase_acceptance_array>>
      BY DEF AppendBlock, voteVars
    <2> HIDE DEF o
    <2>3. /\ DOMAIN heap'[n] = DOMAIN heap[n] /\ heap'[n][b] = o
          /\ \A c \in DOMAIN heap[n] : c # b => heap'[n][c] = heap[n][c]
      BY <2>1, <2>2
    <2>4. listener' = [listener EXCEPT ![n][b].pc = "appended"]
      BY DEF AppendBlock
    <2>5. /\ DOMAIN listener'[n] = DOMAIN listener[n] /\ listener'[n][b].pc = "appended"
          /\ \A c \in DOMAIN listener[n] : c # b => listener'[n][c] = listener[n][c]
      BY <1>1, <2>1, <2>4 DEF Listener
    <2> QED
      BY <2>2, <2>3, <2>5
  <1> HIDE DEF o
  <1>5. Live(n)' = Live(n) /\ b \in Live(n)
    BY <1>4 DEF Live
  <1>6. disturbed[n] \subseteq disturbed'[n]
    BY DEF AppendBlock, CutShort, TypeOK, ChainTypeOK
  <1>7. Lone(n)' \subseteq Lone(n) \cap {b}
    BY <1>5, <1>6 DEF LoneOK, LiveApart, Lone
  <1>8. LiveApart(n)'
    BY <1>5, <1>6 DEF LoneOK, LiveApart
  <1>9. HeadLinked(n)' /\ TallyWithin(n)'
    BY <1>4, <1>7 DEF HeadLinked, TallyWithin
  <1>10. Hashed(n)'
    <2> SUFFICES ASSUME NEW c \in DOMAIN heap[n]
                 PROVE  heap'[n][c].hash
                            = Append(heap'[n][c].previous_hash, ContentOf(heap'[n][c]))
      BY <1>4 DEF Hashed, ContentOf
    <2>1. CASE c = b
      BY <1>3, <1>4, <2>1
    <2>2. CASE c # b
      BY <1>4, <2>2 DEF LoneOK, Hashed
    <2> QED
      BY <2>1, <2>2
  <1>11. WorksOn(n)'
    <2>1. CASE validator[n].pc = "recvmsg"
      BY <1>4, <2>1 DEF WorksOn
    <2>2. CASE validator[n].pc # "recvmsg" /\ validator[n].block = b
      BY <1>3, <1>4, <1>7, <2>2 DEF LoneOK, WorksOn, WellSigned
    <2>3. CASE validator[n].pc # "recvmsg" /\ validator[n].block # b
      <3>1. validator[n].block \in DOMAIN heap[n] /\ validator[n].block \in DOMAIN listener[n]
        BY <2>3, ModuleFacts
      <3> QED
        BY <1>4, <1>7, <2>3, <3>1 DEF LoneOK, WorksOn, WellSigned
    <2> QED
      BY <2>1, <2>2, <2>3
  <1> QED
    BY <1>8, <1>9, <1>10, <1>11 DEF LoneOK

LEMMA LoneCloseListener ==
    ASSUME TypeOK, NEW n \in Module, LoneOK(n), NEW b \in DOMAIN listener[n],
           CloseListener(n, b)
    PROVE  LoneOK(n)'
  <1>1. /\ listener[n][b].pc = "appended"
        /\ UNCHANGED <<heap, chain_head, disturbed, phase_acceptance_array, validator>>
    BY DEF CloseListener, voteVars
  <1>2. /\ DOMAIN listener'[n] = DOMAIN listener[n]
        /\ listener'[n][b].pc = "deleted"
        /\ \A c \in DOMAIN listener[n] : c # b => listener'[n][c] = listener[n][c]
    BY DEF CloseListener, TypeOK, ChainTypeOK
  <1>3. /\ Live(n)' \subseteq Live(n) /\ Lone(n)' \subseteq Lone(n)
        /\ \A c \in Lone(n)' : listener'[n][c] = listener[n][c]
    BY <1>1, <1>2 DEF Live, Lone
  <1>4. validator[n].pc # "recvmsg" => validator[n].block \in DOMAIN listener[n]
    BY ModuleFacts
  <1>5. WorksOn(n)'
    BY <1>1, <1>2, <1>3, <1>4 DEF LoneOK, WorksOn, WellSigned
  <1>6. HeadLinked(n)' /\ TallyWithin(n)'
    BY <1>1, <1>3 DEF LoneOK, HeadLinked, TallyWithin, WellSigned
  <1> QED
    BY <1>1, <1>3, <1>5, <1>6 DEF LoneOK, LiveApart, Hashed, ContentOf

-----------------------------------------------------------------------------
(* An action of one module leaves every other module where it is.          *)
LEMMA OthersStill ==
    ASSUME TypeOK, NEW n \in Module,
           \/ LasetListenerTask(n)
           \/ BlockchainListenerTask(n)
           \/ \E m \in acks : RecvAck(n, m)
           \/ \E b \in DOMAIN listener[n] : PhaseListenerTask(n, b),
           NEW o \in Module, o # n
    PROVE  Still(o)
  <1> USE DEF TypeOK, ChainTypeOK, VoteTypeOK, Still, chainVars, voteVars
  <1>1. ASSUME NEW m \in Module, LearnKey(n, m) \/ AcceptTrade(n, m)
        PROVE  Still(o)
    BY <1>1 DEF LearnKey, AcceptTrade
  <1>2. CASE DraftBlock(n)
    BY <1>2 DEF DraftBlock, Allocate, Disturbs
  <1>3. ASSUME NEW m \in blocks, AcceptBlock(n, m)
        PROVE  Still(o)
    BY <1>3 DEF AcceptBlock, Allocate, Disturbs
  <1>4. ASSUME NEW m \in blocks, RejectBlock(n, m)
        PROVE  Still(o)
    BY <1>4 DEF RejectBlock
  <1>5. CASE CheckPhase(n) \/ TallyPhase(n) \/ BroadcastAck(n) \/ RefusePhase(n)
    BY <1>5 DEF CheckPhase, TallyPhase, BroadcastAck, RefusePhase, NextPhase, Tallied
  <1>6. ASSUME NEW m \in acks, RecvAck(n, m)
        PROVE  Still(o)
    BY <1>6 DEF RecvAck, CountedFor, Tallied
  <1>7. ASSUME NEW b \in DOMAIN listener[n], StartListening(n, b)
        PROVE  Still(o)
    BY <1>7 DEF StartListening
  <1>8. ASSUME NEW b \in DOMAIN listener[n], AppendBlock(n, b)
        PROVE  Still(o)
    BY <1>8 DEF AppendBlock, CutShort
  <1>9. ASSUME NEW b \in DOMAIN listener[n], CloseListener(n, b)
        PROVE  Still(o)
    BY <1>9 DEF CloseListener
  <1> QED
    BY <1>1, <1>2, <1>3, <1>4, <1>5, <1>6, <1>7, <1>8, <1>9
       DEF LasetListenerTask, BlockchainListenerTask, PhaseListenerTask

(* The module that acts stays in order as well.                            *)
LEMMA OwnStep ==
    ASSUME TypeOK, AcksWithin, NEW n \in Module, LoneOK(n),
           \/ LasetListenerTask(n)
           \/ BlockchainListenerTask(n)
           \/ \E m \in acks : RecvAck(n, m)
           \/ \E b \in DOMAIN listener[n] : PhaseListenerTask(n, b)
    PROVE  LoneOK(n)'
  <1>1. ASSUME NEW m \in Module, LearnKey(n, m) \/ AcceptTrade(n, m)
        PROVE  LoneOK(n)'
    <2>1. Still(n)
      BY <1>1 DEF LearnKey, AcceptTrade, Still, chainVars, voteVars
    <2> QED
      BY <2>1, LoneStill
  <1>2. ASSUME NEW m \in blocks, RejectBlock(n, m)
        PROVE  LoneOK(n)'
    <2>1. Still(n)
      BY <1>2 DEF RejectBlock, Still, chainVars, voteVars
    <2> QED
      BY <2>1, LoneStill
  <1>3. ASSUME LasetListenerTask(n)
        PROVE  LoneOK(n)'
    BY <1>1, <1>3, LoneDraftBlock DEF LasetListenerTask
  <1>4. ASSUME BlockchainListenerTask(n)
        PROVE  LoneOK(n)'
    BY <1>2, <1>4, LoneAcceptBlock, LoneCheckPhase, LoneTallyPhase, LonePhaseDone
       DEF BlockchainListenerTask
  <1>5. ASSUME NEW b \in DOMAIN listener[n], PhaseListenerTask(n, b)
        PROVE  LoneOK(n)'
    BY <1>5, LoneStartListening, LoneAppendBlock, LoneCloseListener
       DEF PhaseListenerTask
  <1> QED
    BY <1>3, <1>4, <1>5, LoneRecvAck

(* What a validator broadcasts it has tested (main.c:644, 657-667).        *)
LEMMA AcksStay ==
    ASSUME TypeOK, AcksWithin, NEW n \in Module, LoneOK(n),
           \/ LasetListenerTask(n)
           \/ BlockchainListenerTask(n)
           \/ \E m \in acks : RecvAck(n, m)
           \/ \E b \in DOMAIN listener[n] : PhaseListenerTask(n, b)
    PROVE  AcksWithin'
  <1>1. CASE BroadcastAck(n)
    <2> DEFINE v == validator[n]
    <2>1. v.pc = "bpa" /\ acks' = acks \cup {[to |-> r, vote |-> Vote(n)] : r \in Audience(n)}
      BY <1>1 DEF BroadcastAck
    <2>2. /\ v.block \in 1..Len(heap[n]) /\ heap[n] \in Seq(Block) /\ v.phase \in Nat
          /\ DOMAIN heap[n] = 1..Len(heap[n])
      <3>1. validator[n].pc # "recvmsg"
        BY <2>1
      <3> QED
        BY <3>1, ModuleFacts
    <2>3. heap[n][v.block] \in Block
      BY <2>2, ElementOfSeq
    <2>4. WellSigned(heap[n][v.block]) => PhaseLength * v.phase <= heap[n][v.block].duration
      BY <2>1 DEF LoneOK, WorksOn
    <2>5. /\ heap[n][v.block].previous_hash \in Hash
          /\ heap[n][v.block].hash
                 = Append(heap[n][v.block].previous_hash, ContentOf(heap[n][v.block]))
      BY <2>2, <2>3 DEF LoneOK, Hashed, Block
    <2>6. Within(heap[n][v.block].hash, v.phase)
      BY <2>2, <2>3, <2>4, <2>5, VoteWithin
    <2>7. Within(Vote(n).hash, Vote(n).phase)
      BY <2>6 DEF Vote
    <2> QED
      BY <2>1, <2>7 DEF AcksWithin, Within
  <1>2. CASE acks' \subseteq acks
    BY <1>2 DEF AcksWithin, Within
  <1>3. BroadcastAck(n) \/ acks' \subseteq acks
    BY DEF LasetListenerTask, LearnKey, AcceptTrade, DraftBlock, BlockchainListenerTask,
           AcceptBlock, RejectBlock, CheckPhase, TallyPhase, RefusePhase, RecvAck, Received,
           PhaseListenerTask, StartListening, AppendBlock, CloseListener, netVars
  <1> QED
    BY <1>1, <1>2, <1>3

LEMMA LoneStep == LoneInv /\ [Next]_vars => LoneInv'
  <1> SUFFICES ASSUME LoneInv, [Next]_vars PROVE LoneInv'
    OBVIOUS
  <1>1. TypeOK'
    BY TypeNext DEF LoneInv
  <1>2. CASE UNCHANGED vars
    <2>1. \A n \in Module : Still(n)
      BY <1>2 DEF Still, vars, chainVars, voteVars
    <2>2. AcksWithin'
      BY <1>2 DEF LoneInv, AcksWithin, Within, vars, netVars
    <2> QED
      BY <1>1, <2>1, <2>2, LoneStill DEF LoneInv
  <1>3. CASE Next
    <2> PICK n \in Module :
            \/ LasetListenerTask(n)
            \/ BlockchainListenerTask(n)
            \/ \E m \in acks : RecvAck(n, m)
            \/ \E b \in DOMAIN listener[n] : PhaseListenerTask(n, b)
      BY <1>3 DEF Next
    <2>1. LoneOK(n)' /\ AcksWithin'
      BY OwnStep, AcksStay DEF LoneInv
    <2>2. ASSUME NEW o \in Module, o # n
          PROVE  LoneOK(o)'
      BY <2>2, OthersStill, LoneStill DEF LoneInv
    <2> QED
      BY <1>1, <2>1, <2>2 DEF LoneInv
  <1> QED
    BY <1>2, <1>3

LEMMA LoneInit == Init => LoneInv
  <1> SUFFICES ASSUME Init PROVE LoneInv
    OBVIOUS
  <1>1. AcksWithin
    BY DEF Init, AcksWithin
  <1>2. ASSUME NEW n \in Module
        PROVE  LoneOK(n)
    <2>1. DOMAIN listener[n] = {} /\ DOMAIN heap[n] = {} /\ validator[n].pc = "recvmsg"
      BY DEF Init
    <2> QED
      BY <2>1 DEF LoneOK, LiveApart, HeadLinked, Hashed, WorksOn, TallyWithin, Lone, Live
  <1> QED
    BY <1>1, <1>2, TypeInit DEF LoneInv

THEOREM Invariance == Spec => []LoneInv
  BY LoneInit, LoneStep, PTL DEF Spec

-----------------------------------------------------------------------------
(***************************************************************************)
(* What a lone block's deadline does                                       *)
(***************************************************************************)

(* Only a deadline changes a block that exists, or moves the head; the     *)
(* block whose deadline it is, if nothing disturbed it, is the lone one.   *)
LEMMA OnlyDeadlines ==
    ASSUME LoneInv, [Next]_vars, NEW n \in Module
    PROVE  \/ /\ chain_head'[n] = chain_head[n]
              /\ \A b \in DOMAIN heap[n] : heap'[n][b] = heap[n][b]
           \/ \E b \in DOMAIN listener[n] : AppendBlock(n, b)
  <1> USE DEF LoneInv
  <1>1. CASE UNCHANGED vars
    BY <1>1 DEF vars, chainVars
  <1>2. CASE Next
    <2> PICK o \in Module :
            \/ LasetListenerTask(o)
            \/ BlockchainListenerTask(o)
            \/ \E m \in acks : RecvAck(o, m)
            \/ \E b \in DOMAIN listener[o] : PhaseListenerTask(o, b)
      BY <1>2 DEF Next
    <2>1. CASE o # n
      BY <2>1, OthersStill DEF Still
    <2>2. CASE o = n
      <3>1. CASE chain_head' = chain_head /\ heap' = heap
        BY <3>1
      <3>2. ASSUME NEW b \in Block, Allocate(n, b), chain_head' = chain_head
            PROVE  \A c \in DOMAIN heap[n] : heap'[n][c] = heap[n][c]
        <4>1. heap[n] \in Seq(Block) /\ heap'[n] = Append(heap[n], b)
          BY <3>2 DEF Allocate, TypeOK, ChainTypeOK
        <4> QED
          BY <4>1
      <3>3. CASE DraftBlock(n)
        <4>1. PICK td \in TradeData :
                  Allocate(n, create_block(drafting[n].previous_hash, n, drafting[n].buyer,
                                           td.duration, td.signature, chain_head[n]))
          BY <3>3 DEF DraftBlock
        <4> DEFINE b == create_block(drafting[n].previous_hash, n, drafting[n].buyer,
                                     td.duration, td.signature, chain_head[n])
        <4>2. /\ drafting[n].previous_hash \in Hash /\ drafting[n].buyer \in Module
              /\ chain_head[n] \in Nat /\ td.duration \in Durations
              /\ td.signature \in Durations
          BY TradeDataType DEF TypeOK, TradeTypeOK, ChainTypeOK
        <4>3. b \in Block
          BY <4>2, CreatedBlockType
        <4>4. chain_head' = chain_head
          BY <3>3 DEF DraftBlock
        <4> HIDE DEF b
        <4> QED
          BY <3>2, <4>1, <4>3, <4>4 DEF b
      <3>4. ASSUME NEW m \in blocks, AcceptBlock(n, m)
            PROVE  /\ chain_head'[n] = chain_head[n]
                   /\ \A c \in DOMAIN heap[n] : heap'[n][c] = heap[n][c]
        <4>1. /\ m.previous_hash \in Hash /\ m.seller \in Module /\ m.buyer \in Module
              /\ m.duration \in Durations /\ m.signature \in Durations
              /\ chain_head[n] \in Nat
          BY DEF TypeOK, NetTypeOK, ChainTypeOK
        <4>2. CopyOf(n, m) \in Block
          BY <4>1, CreatedBlockType DEF CopyOf
        <4>3. Allocate(n, CopyOf(n, m)) /\ chain_head' = chain_head
          BY <3>4 DEF AcceptBlock
        <4> QED
          BY <3>2, <4>2, <4>3
      <3>5. \/ chain_head' = chain_head /\ heap' = heap
            \/ DraftBlock(n)
            \/ \E m \in blocks : AcceptBlock(n, m)
            \/ \E b \in DOMAIN listener[n] : AppendBlock(n, b)
        BY <2>2 DEF LasetListenerTask, LearnKey, AcceptTrade, BlockchainListenerTask,
                    RejectBlock, CheckPhase, TallyPhase, BroadcastAck, RefusePhase, RecvAck,
                    PhaseListenerTask, StartListening, CloseListener, chainVars
      <3>6. CASE DraftBlock(n)
        BY <3>3, <3>6 DEF DraftBlock
      <3> QED
        BY <3>1, <3>4, <3>5, <3>6
    <2> QED
      BY <2>1, <2>2
  <1> QED
    BY <1>1, <1>2

(* What the deadline leaves in the module's heap.                          *)
LEMMA DeadlineMoves ==
    ASSUME TypeOK, NEW n \in Module, NEW b \in DOMAIN listener[n], AppendBlock(n, b)
    PROVE  /\ b \in Live(n) /\ listener[n][b].pc = "listening"
           /\ chain_head'[n] = b
           /\ heap'[n][b].duration = adjusted_duration(n, listener[n][b].needed)
           /\ \A c \in DOMAIN heap[n] : c # b => heap'[n][c] = heap[n][c]
  <1>1. b \in 1..Len(heap[n]) /\ heap[n][b] \in Block /\ listener[n][b] \in Listener
    BY PointerType DEF TypeOK
  <1>2. heap[n] \in Seq(Block) /\ heap \in [Module -> Seq(Block)]
    BY DEF TypeOK, ChainTypeOK
  <1>3. adjusted_duration(n, listener[n][b].needed) \in Durations
    BY <1>1, AdjustedDurationType DEF Listener
  <1> DEFINE raw == [heap[n][b] EXCEPT
                         !.duration = adjusted_duration(n, listener[n][b].needed)]
  <1>4. raw \in Block /\ raw.duration = adjusted_duration(n, listener[n][b].needed)
    BY <1>1, <1>3 DEF Block
  <1>5. heap' = [heap EXCEPT ![n][b] = create_block_hash(raw)]
    BY DEF AppendBlock
  <1> HIDE DEF raw
  <1>6. create_block_hash(raw).duration = raw.duration
    BY <1>4, HashedOwn
  <1>7. /\ heap'[n][b] = create_block_hash(raw)
        /\ \A c \in DOMAIN heap[n] : c # b => heap'[n][c] = heap[n][c]
    BY <1>1, <1>2, <1>5
  <1>8. b \in Live(n) /\ listener[n][b].pc = "listening" /\ chain_head'[n] = b
    BY DEF AppendBlock, Live, TypeOK, ChainTypeOK
  <1> QED
    BY <1>4, <1>6, <1>7, <1>8

(* A lone block is appended to the block that is chain_head at that very   *)
(* moment: the pointer it was given when it was drafted or received is     *)
(* still the head, because nobody else's listener was alive in between     *)
(* (main.c:306-308, 472, 625).                                             *)
THEOREM LoneAppends == Spec => AppendsToHead
  <1>1. LoneInv /\ [Next]_vars =>
            \A n \in Module :
                chain_head'[n] # chain_head[n] /\ Alone(n, chain_head'[n]) =>
                    heap[n][chain_head'[n]].previous_block = chain_head[n]
    <2> SUFFICES ASSUME LoneInv, [Next]_vars, NEW n \in Module,
                        chain_head'[n] # chain_head[n], Alone(n, chain_head'[n])
                 PROVE  heap[n][chain_head'[n]].previous_block = chain_head[n]
      OBVIOUS
    <2>1. PICK b \in DOMAIN listener[n] : AppendBlock(n, b)
      BY OnlyDeadlines
    <2>2. b \in Live(n) /\ listener[n][b].pc = "listening" /\ chain_head'[n] = b
      BY <2>1, DeadlineMoves DEF LoneInv
    <2>3. b \in Lone(n)
      BY <2>2 DEF Lone, Alone
    <2> QED
      BY <2>2, <2>3 DEF LoneInv, LoneOK, HeadLinked
  <1> QED
    BY <1>1, Invariance, PTL DEF Spec, AppendsToHead

(* Phases beyond a duration are not paid for, if a quorum is not zero.     *)
LEMMA PaidPhases ==
    ASSUME TypeOK, NEW n \in Module, NEW needed \in Nat \ {0}, NEW d \in Durations,
           \A p \in Phase : phase_acceptance_array[n][p] = 0 \/ PhaseLength * p <= d
    PROVE  adjusted_duration(n, needed) <= d
  <1>1. PICK k \in 0..MaxPhase : d = PhaseLength * k
    BY DEF Durations
  <1>2. k \in Nat /\ MaxPhase \in Nat
    BY PhaseAssumption DEF PhaseAssumption
  <1>3. AcceptedPhases(n, needed) \subseteq 1..k
    <2> SUFFICES ASSUME NEW p \in Phase, phase_acceptance_array[n][p] >= needed
                 PROVE  p \in 1..k
      BY DEF AcceptedPhases
    <2>1. phase_acceptance_array[n][p] \in Nat /\ phase_acceptance_array[n][p] # 0
      BY DEF TypeOK, VoteTypeOK
    <2>2. p \in Nat /\ p >= 1 /\ PhaseLength * p <= PhaseLength * k
      BY <1>1, <1>2, <2>1 DEF Phase
    <2> QED
      BY <1>2, <2>2
  <1>4. IsFiniteSet(1..k) /\ Cardinality(1..k) = k
    BY <1>2, FS_Interval
  <1>5. Cardinality(AcceptedPhases(n, needed)) \in Nat
        /\ Cardinality(AcceptedPhases(n, needed)) <= k
    BY <1>2, <1>3, <1>4, FS_Subset, FS_CardinalityType
  <1> QED
    BY <1>1, <1>2, <1>5 DEF adjusted_duration

(* The deadline never raises the duration of a lone block above the one    *)
(* its seller signed: a phase beyond it has no acknowledgement, and no     *)
(* quorum is zero (main.c:249-251, 295-301).                               *)
THEOREM LonePaidWithin == Spec => PaidWithinTerms
  <1>1. LoneInv /\ QuorumFeasible /\ [Next]_vars =>
            \A n \in Module : \A b \in DOMAIN heap[n] :
                Alone(n, b) /\ heap[n][b].duration = heap[n][b].seller_signature =>
                    heap'[n][b].duration <= heap[n][b].duration
    <2> SUFFICES ASSUME LoneInv, QuorumFeasible, [Next]_vars,
                        NEW n \in Module, NEW b \in DOMAIN heap[n],
                        Alone(n, b), heap[n][b].duration = heap[n][b].seller_signature
                 PROVE  heap'[n][b].duration <= heap[n][b].duration
      OBVIOUS
    <2>1. heap[n][b].duration \in Durations /\ heap[n][b].duration \in Nat
      <3>1. heap[n] \in Seq(Block) /\ b \in 1..Len(heap[n])
        BY ModuleFacts DEF LoneInv
      <3>2. heap[n][b] \in Block
        BY <3>1, ElementOfSeq
      <3> QED
        BY <3>2, PhaseAssumption DEF Block, Durations, PhaseAssumption
    <2>2. CASE heap'[n][b] = heap[n][b]
      BY <2>1, <2>2
    <2>3. CASE AppendBlock(n, b) /\ b \in DOMAIN listener[n]
      <3>1. /\ b \in Live(n) /\ listener[n][b].pc = "listening"
            /\ heap'[n][b].duration = adjusted_duration(n, listener[n][b].needed)
        BY <2>3, DeadlineMoves DEF LoneInv
      <3>2. b \in Lone(n) /\ WellSigned(heap[n][b])
        BY <3>1 DEF Lone, Alone, WellSigned
      <3>3. \A p \in Phase : phase_acceptance_array[n][p] = 0
                                 \/ PhaseLength * p <= heap[n][b].duration
        BY <3>1, <3>2 DEF LoneInv, LoneOK, TallyWithin
      <3>4. listener[n][b].needed \in 1..(Cardinality(Module) - 1)
        BY <2>3, <3>1 DEF QuorumFeasible, Listening
      <3>5. listener[n][b].needed \in Nat \ {0}
        BY <3>4, FS_CardinalityType, ModuleAssumption DEF ModuleAssumption
      <3> QED
        BY <2>1, <3>1, <3>3, <3>5, PaidPhases DEF LoneInv
    <2>4. ASSUME NEW c \in DOMAIN listener[n], AppendBlock(n, c), c # b
          PROVE  heap'[n][b] = heap[n][b]
      BY <2>4, DeadlineMoves DEF LoneInv
    <2> QED
      BY <2>2, <2>3, <2>4, OnlyDeadlines
  <1> QED
    BY <1>1, Invariance, QuorumCorrect, PTL DEF Spec, PaidWithinTerms
=============================================================================
