----------------------- MODULE BlockValidation_proofs -----------------------
(***************************************************************************)
(* Theorems about BlockValidation, for every value of its constants.       *)
(***************************************************************************)
EXTENDS BlockValidation, FiniteSetTheorems, SequenceTheorems, TLAPS

USE DEF PhaseLength, NoBlock

-----------------------------------------------------------------------------
(* Helpers on blocks and counts                                            *)
-----------------------------------------------------------------------------

(* What is hashed into a typed block is a typed hash (chain.c:192-233).    *)
LEMMA HashedBlockType ==
    ASSUME NEW b \in Block
    PROVE  /\ create_block_hash(b) \in Block
           /\ create_block_hash(b).hash = Append(b.previous_hash, ContentOf(b))
           /\ create_block_hash(b).previous_hash = b.previous_hash
           /\ create_block_hash(b).previous_block = b.previous_block
    <1>1. ContentOf(b) \in Content
      BY DEF Block, ContentOf, Content
    <1>2. Append(b.previous_hash, ContentOf(b)) \in Hash
      BY <1>1, AppendProperties DEF Block, Hash
    <1> QED
      BY <1>2 DEF Block, create_block_hash

(* create_block returns a typed block (chain.c:41-58).                     *)
LEMMA CreatedBlockType ==
    ASSUME NEW ph \in Hash, NEW s \in Module, NEW r \in Module,
           NEW d \in Durations, NEW sg \in Durations, NEW p \in Nat
    PROVE  /\ create_block(ph, s, r, d, sg, p) \in Block
           /\ create_block(ph, s, r, d, sg, p).previous_hash = ph
           /\ create_block(ph, s, r, d, sg, p).previous_block = p
           /\ create_block(ph, s, r, d, sg, p).seller_node_id = s
           /\ create_block(ph, s, r, d, sg, p).hash = Append(ph, <<s, r, d, sg>>)
    <1> DEFINE raw == [previous_hash |-> ph, seller_node_id |-> s, duration |-> d,
                       seller_signature |-> sg, buyer_node_id |-> r,
                       hash |-> BaseHash, previous_block |-> p]
    <1>1. raw \in Block
      BY EmptySeq DEF Block, Hash, BaseHash
    <1>2. /\ ContentOf(raw) = <<s, r, d, sg>>
          /\ create_block(ph, s, r, d, sg, p) = create_block_hash(raw)
      BY DEF ContentOf, create_block
    <1>3. create_block_hash(raw).seller_node_id = s
      BY DEF create_block_hash
    <1> HIDE DEF raw
    <1> QED
      BY <1>1, <1>2, <1>3, HashedBlockType DEF raw

(* The terms of a trade are durations (main.c:144-146).                    *)
LEMMA TradeDataType ==
    ASSUME NEW td \in TradeData
    PROVE  td.duration \in Durations /\ td.signature \in Durations
  BY TradeAssumption, PhaseAssumption DEF TradeAssumption, PhaseAssumption, Durations, Phase

(* A paid duration is a whole number of phases, at most MaxPhase           *)
(* (main.c:295-301).                                                       *)
LEMMA AdjustedDurationType ==
    ASSUME NEW n \in Module, NEW needed \in Nat
    PROVE  adjusted_duration(n, needed) \in Durations
    <1>1. IsFiniteSet(Phase) /\ Cardinality(Phase) = MaxPhase
      BY FS_Interval, PhaseAssumption DEF Phase, PhaseAssumption
    <1>2. AcceptedPhases(n, needed) \subseteq Phase
      BY DEF AcceptedPhases
    <1>3. Cardinality(AcceptedPhases(n, needed)) \in 0..MaxPhase
      BY <1>1, <1>2, FS_Subset, FS_CardinalityType, PhaseAssumption DEF PhaseAssumption
    <1> QED
      BY <1>3 DEF adjusted_duration, Durations

(* A quorum is a number (main.c:250-251).                                  *)
LEMMA NeededType ==
    ASSUME NEW n \in Module, foreign_public_key_array[n] \subseteq Module
    PROVE  needed_laset_amount(n) \in Nat
    <1>1. Cardinality(foreign_public_key_array[n]) \in Nat
      BY FS_Subset, FS_CardinalityType, ModuleAssumption DEF ModuleAssumption
    <1> QED
      BY <1>1 DEF needed_laset_amount, get_laset_module_amount

(* The block a listener works on: its entry in either sequence.            *)
LEMMA PointerType ==
    ASSUME ChainTypeOK, NEW n \in Module, NEW b \in DOMAIN listener[n]
    PROVE  /\ b \in 1..Len(heap[n]) /\ b \in 1..Len(listener[n]) /\ b \in Nat
           /\ heap[n][b] \in Block /\ listener[n][b] \in Listener
  BY LenProperties, ElementOfSeq DEF ChainTypeOK

(* Allocating a block adds one to the heap and the listeners of a module   *)
(* (main.c:463-485, 617-638).                                              *)
LEMMA AllocateType ==
    ASSUME ChainTypeOK, NEW n \in Module, NEW b \in Block, NEW STATE busy,
           Allocate(n, b), Disturbs(n, busy), UNCHANGED <<chain_head, port>>
    PROVE  /\ ChainTypeOK'
           /\ Len(heap'[n]) = Len(heap[n]) + 1
           /\ heap'[n][Len(heap[n]) + 1] = b
           /\ \A m \in Module \ {n} : heap'[m] = heap[m] /\ listener'[m] = listener[m]
    <1>1. /\ heap[n] \in Seq(Block) /\ listener[n] \in Seq(Listener)
          /\ [pc |-> "created", needed |-> 0] \in Listener
      BY DEF ChainTypeOK, Listener
    <1>2. /\ heap'[n] = Append(heap[n], b)
          /\ listener'[n] = Append(listener[n], [pc |-> "created", needed |-> 0])
          /\ \A m \in Module \ {n} : heap'[m] = heap[m] /\ listener'[m] = listener[m]
      BY DEF Allocate, ChainTypeOK
    <1>3. /\ heap'[n] \in Seq(Block) /\ Len(heap'[n]) = Len(heap[n]) + 1
          /\ heap'[n][Len(heap[n]) + 1] = b
      BY <1>1, <1>2, AppendProperties
    <1>4. /\ listener'[n] \in Seq(Listener) /\ Len(listener'[n]) = Len(listener[n]) + 1
      BY <1>1, <1>2, AppendProperties
    <1>5. heap' \in [Module -> Seq(Block)] /\ listener' \in [Module -> Seq(Listener)]
      BY <1>2, <1>3, <1>4 DEF Allocate, ChainTypeOK
    <1>6. disturbed' \in [Module -> SUBSET Nat]
      <2>1. Len(heap[n]) + 1 \in Nat
        BY <1>1, LenProperties
      <2>2. Live(n) \subseteq Nat
        BY <1>1, LenProperties DEF Live
      <2> QED
        BY <2>1, <2>2 DEF Disturbs, ChainTypeOK
    <1>7. \A m \in Module : Len(heap[m]) \in Nat
      BY LenProperties DEF ChainTypeOK
    <1>8. ASSUME NEW m \in Module
          PROVE  /\ Len(listener'[m]) = Len(heap'[m])
                 /\ chain_head'[m] <= Len(heap'[m]) /\ port'[m] <= Len(heap'[m])
      <2>1. CASE m = n
        BY <2>1, <1>3, <1>4, <1>7 DEF ChainTypeOK
      <2>2. CASE m # n
        BY <2>2, <1>2 DEF ChainTypeOK
      <2> QED
        BY <2>1, <2>2
    <1> QED
      BY <1>2, <1>3, <1>5, <1>6, <1>8 DEF ChainTypeOK

(* Blocks are never freed once a task works on them, so a validator keeps  *)
(* its pointer while the heap grows.                                       *)
LEMMA ValidatorKept ==
    ASSUME TypeOK, UNCHANGED validator,
           ChainTypeOK', \A m \in Module : Len(heap[m]) <= Len(heap'[m])
    PROVE  ValidatorOK'
    <1> SUFFICES ASSUME NEW m \in Module
                 PROVE  /\ validator[m].block <= Len(heap'[m])
                        /\ validator[m].pc # "recvmsg" => validator[m].block # NoBlock
                        /\ validator[m].pc \in {"rlc", "bpa"} => validator[m].phase \in Phase
      BY DEF ValidatorOK
    <1>1. Len(heap[m]) \in Nat /\ Len(heap'[m]) \in Nat
      BY LenProperties DEF TypeOK, ChainTypeOK
    <1>2. validator[m].block \in Nat
      BY DEF TypeOK, VoteTypeOK
    <1> QED
      BY <1>1, <1>2 DEF TypeOK, ValidatorOK

-----------------------------------------------------------------------------
(* Types: one lemma per action                                             *)
-----------------------------------------------------------------------------

LEMMA TypeInit == Init => TypeOK
    <1> SUFFICES ASSUME Init PROVE TypeOK
      OBVIOUS
    <1>1. /\ BaseHash \in Hash /\ EmptyTally \in [Phase -> Nat]
          /\ <<>> \in Seq(Block) /\ <<>> \in Seq(Listener) /\ Len(<<>>) = 0
      BY EmptySeq DEF BaseHash, Hash, EmptyTally
    <1>2. TradeTypeOK
      BY <1>1, KeyAssumption DEF Init, TradeTypeOK, KeyAssumption
    <1>3. ChainTypeOK
      BY <1>1 DEF Init, ChainTypeOK
    <1>4. VoteTypeOK
      BY <1>1, PhaseAssumption DEF Init, VoteTypeOK, PhaseAssumption
    <1>5. ValidatorOK
      BY <1>1 DEF Init, ValidatorOK
    <1>6. NetTypeOK
      BY DEF Init, NetTypeOK
    <1> QED
      BY <1>2, <1>3, <1>4, <1>5, <1>6 DEF TypeOK

LEMMA TypeLearnKey ==
    ASSUME TypeOK, NEW n \in Module, NEW m \in Module, LearnKey(n, m)
    PROVE  TypeOK'
    <1>1. TradeTypeOK'
      BY DEF TypeOK, TradeTypeOK, LearnKey
    <1> QED
      BY <1>1 DEF TypeOK, LearnKey, ChainTypeOK, VoteTypeOK, ValidatorOK, NetTypeOK,
                  chainVars, voteVars, netVars

LEMMA TypeAcceptTrade ==
    ASSUME TypeOK, NEW s \in Module, NEW buyer \in Module, AcceptTrade(s, buyer)
    PROVE  TypeOK'
    <1>1. PreviousHash(s) \in Hash
      <2>1. CASE chain_head[s] = NoBlock
        BY <2>1, EmptySeq DEF PreviousHash, BaseHash, Hash
      <2>2. CASE chain_head[s] # NoBlock
        <3>1. chain_head[s] \in 1..Len(heap[s])
          BY <2>2, LenProperties DEF TypeOK, ChainTypeOK
        <3>2. heap[s][chain_head[s]] \in Block
          BY <3>1, ElementOfSeq DEF TypeOK, ChainTypeOK
        <3> QED
          BY <2>2, <3>2 DEF PreviousHash, Block
      <2> QED
        BY <2>1, <2>2
    <1>2. TradeTypeOK'
      BY <1>1 DEF TypeOK, TradeTypeOK, AcceptTrade
    <1> QED
      BY <1>2 DEF TypeOK, AcceptTrade, ChainTypeOK, VoteTypeOK, ValidatorOK, NetTypeOK,
                  chainVars, voteVars, netVars

LEMMA TypeDraftBlock ==
    ASSUME TypeOK, NEW s \in Module, DraftBlock(s)
    PROVE  TypeOK'
    <1> PICK td \in TradeData :
          /\ Allocate(s, create_block(drafting[s].previous_hash, s, drafting[s].buyer,
                                      td.duration, td.signature, chain_head[s]))
          /\ blocks' = blocks \cup
                 {[to |-> r, previous_hash |-> drafting[s].previous_hash,
                   seller |-> s, buyer |-> drafting[s].buyer,
                   duration |-> td.duration, signature |-> td.signature] : r \in Audience(s)}
      BY DEF DraftBlock
    <1>1. /\ drafting[s].previous_hash \in Hash /\ drafting[s].buyer \in Module
          /\ td.duration \in Durations /\ td.signature \in Durations
          /\ chain_head[s] \in Nat
      BY TradeDataType DEF TypeOK, TradeTypeOK, ChainTypeOK
    <1>2. /\ ChainTypeOK'
          /\ Len(heap'[s]) = Len(heap[s]) + 1
          /\ \A m \in Module \ {s} : heap'[m] = heap[m]
      BY <1>1, CreatedBlockType, AllocateType DEF TypeOK, DraftBlock
    <1>3. TradeTypeOK'
      BY DEF TypeOK, TradeTypeOK, DraftBlock
    <1>4. VoteTypeOK'
      BY DEF TypeOK, VoteTypeOK, DraftBlock, voteVars
    <1>5. ValidatorOK'
      <2>1. \A m \in Module : Len(heap[m]) \in Nat
        BY LenProperties DEF TypeOK, ChainTypeOK
      <2>2. \A m \in Module : Len(heap[m]) <= Len(heap'[m])
        BY <1>2, <2>1
      <2> QED
        BY <1>2, <2>2, ValidatorKept DEF DraftBlock, voteVars
    <1>6. NetTypeOK'
      <2>1. Audience(s) \subseteq Module
        BY DEF Audience
      <2> QED
        BY <1>1, <2>1 DEF TypeOK, NetTypeOK, DraftBlock
    <1> QED
      BY <1>2, <1>3, <1>4, <1>5, <1>6 DEF TypeOK

LEMMA TypeAcceptBlock ==
    ASSUME TypeOK, NEW n \in Module, NEW m \in blocks, AcceptBlock(n, m)
    PROVE  TypeOK'
    <1>1. /\ m.previous_hash \in Hash /\ m.seller \in Module /\ m.buyer \in Module
          /\ m.duration \in Durations /\ m.signature \in Durations /\ chain_head[n] \in Nat
      BY DEF TypeOK, NetTypeOK, ChainTypeOK
    <1>2. CopyOf(n, m) \in Block
      BY <1>1, CreatedBlockType DEF CopyOf
    <1>3. /\ ChainTypeOK'
          /\ Len(heap'[n]) = Len(heap[n]) + 1
          /\ \A o \in Module \ {n} : heap'[o] = heap[o]
      BY <1>2, AllocateType DEF TypeOK, AcceptBlock
    <1>4. Len(heap[n]) + 1 \in Nat /\ Len(heap[n]) + 1 # 0
      BY LenProperties DEF TypeOK, ChainTypeOK
    <1>5. VoteTypeOK'
      BY <1>4, PhaseAssumption DEF TypeOK, VoteTypeOK, AcceptBlock, PhaseAssumption
    <1>6. ValidatorOK'
      <2>1. validator'[n] = [pc |-> "check", block |-> Len(heap[n]) + 1, phase |-> 1]
        BY DEF TypeOK, VoteTypeOK, AcceptBlock
      <2>2. \A o \in Module \ {n} : validator'[o] = validator[o]
        BY DEF TypeOK, VoteTypeOK, AcceptBlock
      <2> QED
        BY <1>3, <1>4, <2>1, <2>2 DEF TypeOK, ValidatorOK
    <1>7. NetTypeOK'
      <2>1. blocks' \subseteq blocks /\ dups' \in Nat
        BY DEF TypeOK, NetTypeOK, AcceptBlock, Received
      <2> QED
        BY <2>1 DEF TypeOK, NetTypeOK, AcceptBlock
    <1>8. TradeTypeOK'
      BY DEF TypeOK, TradeTypeOK, AcceptBlock, tradeVars
    <1> QED
      BY <1>3, <1>5, <1>6, <1>7, <1>8 DEF TypeOK

LEMMA TypeRejectBlock ==
    ASSUME TypeOK, NEW n \in Module, NEW m \in blocks, RejectBlock(n, m)
    PROVE  TypeOK'
    <1>1. NetTypeOK'
      <2>1. blocks' \subseteq blocks /\ dups' \in Nat
        BY DEF TypeOK, NetTypeOK, RejectBlock, Received
      <2> QED
        BY <2>1 DEF TypeOK, NetTypeOK, RejectBlock
    <1> QED
      BY <1>1 DEF TypeOK, RejectBlock, TradeTypeOK, ChainTypeOK, VoteTypeOK, ValidatorOK,
                  tradeVars, chainVars, voteVars

(* The loop test lets only phases of the array through.                    *)
LEMMA PhaseLeftType ==
    ASSUME TypeOK, NEW n \in Module, validator[n].pc = "check", PhaseLeft(n)
    PROVE  validator[n].phase \in Phase
    <1> DEFINE d == heap[n][validator[n].block].duration
    <1>1. validator[n].block \in 1..Len(heap[n])
      BY LenProperties DEF TypeOK, ValidatorOK, VoteTypeOK, ChainTypeOK
    <1>2. d \in Durations
      <2>1. heap[n] \in Seq(Block)
        BY DEF TypeOK, ChainTypeOK
      <2>2. heap[n][validator[n].block] \in Block
        BY <1>1, <2>1, ElementOfSeq
      <2> QED
        BY <2>2 DEF Block
    <1> PICK p \in 0..MaxPhase : d = PhaseLength * p
      BY <1>2 DEF Durations
    <1>3. d \div PhaseLength = p
      BY PhaseAssumption DEF PhaseAssumption
    <1>4. validator[n].phase \in 1..(MaxPhase + 1)
      BY DEF TypeOK, VoteTypeOK
    <1> QED
      BY <1>3, <1>4, PhaseAssumption DEF PhaseLeft, Phase, PhaseAssumption

LEMMA TypeCheckPhase ==
    ASSUME TypeOK, NEW n \in Module, CheckPhase(n)
    PROVE  TypeOK'
    <1>1. PhaseLeft(n) => validator[n].phase \in Phase
      BY PhaseLeftType DEF CheckPhase
    <1>2. /\ VoteTypeOK'
          /\ validator'[n].block = validator[n].block
          /\ validator'[n].phase = validator[n].phase
          /\ validator'[n].pc = IF PhaseLeft(n) THEN "rlc" ELSE "recvmsg"
          /\ \A o \in Module \ {n} : validator'[o] = validator[o]
      BY DEF TypeOK, VoteTypeOK, CheckPhase
    <1>3. ValidatorOK'
      BY <1>1, <1>2 DEF TypeOK, ValidatorOK, CheckPhase, chainVars
    <1> QED
      BY <1>2, <1>3 DEF TypeOK, CheckPhase, TradeTypeOK, ChainTypeOK, NetTypeOK,
                  tradeVars, chainVars, netVars

(* A vote of a validator at work is typed.                                 *)
LEMMA VoteType ==
    ASSUME TypeOK, NEW n \in Module, validator[n].pc \in {"rlc", "bpa"}
    PROVE  Vote(n) \in Votes
    <1>1. validator[n].block \in 1..Len(heap[n]) /\ validator[n].phase \in Phase
      BY LenProperties DEF TypeOK, ValidatorOK, VoteTypeOK, ChainTypeOK
    <1>2. heap[n] \in Seq(Block)
      BY DEF TypeOK, ChainTypeOK
    <1>3. heap[n][validator[n].block] \in Block
      BY <1>1, <1>2, ElementOfSeq
    <1> QED
      BY <1>1, <1>3 DEF Vote, Votes, Block

(* Counting a phase of the array keeps the tally typed (main.c:281, 654).  *)
LEMMA TalliedType ==
    ASSUME TypeOK, NEW n \in Module, NEW p \in Phase
    PROVE  Tallied(n, p) \in [Module -> [Phase -> Nat]]
  BY DEF TypeOK, VoteTypeOK, Tallied

LEMMA TypeTallyPhase ==
    ASSUME TypeOK, NEW n \in Module, TallyPhase(n)
    PROVE  TypeOK'
    <1>1. Vote(n) \in Votes /\ validator[n].phase \in Phase
      BY VoteType DEF TallyPhase, TypeOK, ValidatorOK
    <1>2. phase_acceptance_array' \in [Module -> [Phase -> Nat]]
      BY <1>1, TalliedType DEF TallyPhase
    <1>3. /\ VoteTypeOK'
          /\ validator'[n].block = validator[n].block
          /\ validator'[n].phase = validator[n].phase
          /\ validator'[n].pc = "bpa"
          /\ \A o \in Module \ {n} : validator'[o] = validator[o]
      BY <1>1, <1>2 DEF TypeOK, VoteTypeOK, TallyPhase
    <1>4. ValidatorOK'
      BY <1>1, <1>3 DEF TypeOK, ValidatorOK, TallyPhase, chainVars
    <1> QED
      BY <1>3, <1>4 DEF TypeOK, TallyPhase, TradeTypeOK, ChainTypeOK, NetTypeOK,
                  tradeVars, chainVars, netVars

(* The next phase is at most one beyond the array.                         *)
LEMMA TypeNextPhase ==
    ASSUME TypeOK, NEW n \in Module, validator[n].pc \in {"rlc", "bpa"}, NextPhase(n),
           UNCHANGED <<heap, phase_acceptance_array>>, cast' \subseteq Votes
    PROVE  VoteTypeOK' /\ ValidatorOK'
    <1>1. validator[n].phase \in Phase /\ validator[n].block # NoBlock
      BY DEF TypeOK, ValidatorOK
    <1>2. validator[n].phase + 1 \in 1..(MaxPhase + 1)
      BY <1>1, PhaseAssumption DEF Phase, PhaseAssumption
    <1>3. /\ validator'[n].block = validator[n].block
          /\ validator'[n].pc = "check"
          /\ validator'[n].phase = validator[n].phase + 1
          /\ \A o \in Module \ {n} : validator'[o] = validator[o]
      BY DEF TypeOK, VoteTypeOK, NextPhase
    <1>4. VoteTypeOK'
      BY <1>2 DEF TypeOK, VoteTypeOK, NextPhase
    <1>5. ValidatorOK'
      BY <1>1, <1>3 DEF TypeOK, ValidatorOK
    <1> QED
      BY <1>4, <1>5

LEMMA TypeBroadcastAck ==
    ASSUME TypeOK, NEW n \in Module, BroadcastAck(n)
    PROVE  TypeOK'
    <1>1. Vote(n) \in Votes
      BY VoteType DEF BroadcastAck
    <1>2. VoteTypeOK' /\ ValidatorOK'
      <2>1. cast' \subseteq Votes
        BY <1>1 DEF TypeOK, VoteTypeOK, BroadcastAck
      <2> QED
        BY <2>1, TypeNextPhase DEF BroadcastAck, chainVars
    <1>3. NetTypeOK'
      <2>1. Audience(n) \subseteq Module
        BY DEF Audience
      <2> QED
        BY <1>1, <2>1 DEF TypeOK, NetTypeOK, BroadcastAck
    <1> QED
      BY <1>2, <1>3 DEF TypeOK, BroadcastAck, TradeTypeOK, ChainTypeOK, tradeVars, chainVars

LEMMA TypeRefusePhase ==
    ASSUME TypeOK, NEW n \in Module, RefusePhase(n)
    PROVE  TypeOK'
    <1>1. VoteTypeOK' /\ ValidatorOK'
      <2>1. cast' \subseteq Votes
        BY DEF TypeOK, VoteTypeOK, RefusePhase
      <2> QED
        BY <2>1, TypeNextPhase DEF RefusePhase, chainVars
    <1> QED
      BY <1>1 DEF TypeOK, RefusePhase, TradeTypeOK, ChainTypeOK, NetTypeOK,
                  tradeVars, chainVars, netVars

(* A listener changes state without a block being added or removed.        *)
LEMMA ListenerMoves ==
    ASSUME ChainTypeOK, NEW n \in Module, NEW b \in DOMAIN listener[n],
           NEW l \in Listener, NEW o \in Block,
           listener' = [listener EXCEPT ![n][b] = l],
           \/ UNCHANGED heap
           \/ heap' = [heap EXCEPT ![n][b] = o],
           chain_head' \in [Module -> Nat], port' \in [Module -> Nat],
           disturbed' \in [Module -> SUBSET Nat],
           \A m \in Module : chain_head'[m] <= Len(heap[m]) /\ port'[m] <= Len(heap[m])
    PROVE  ChainTypeOK' /\ \A m \in Module : Len(heap'[m]) = Len(heap[m])
    <1>1. b \in 1..Len(heap[n]) /\ b \in 1..Len(listener[n])
      BY PointerType
    <1>2. /\ listener' \in [Module -> Seq(Listener)]
          /\ \A m \in Module : Len(listener'[m]) = Len(listener[m])
      BY <1>1, ExceptSeq DEF ChainTypeOK
    <1>3. /\ heap' \in [Module -> Seq(Block)]
          /\ \A m \in Module : Len(heap'[m]) = Len(heap[m])
      <2>1. CASE UNCHANGED heap
        BY <2>1 DEF ChainTypeOK
      <2>2. CASE heap' = [heap EXCEPT ![n][b] = o]
        BY <1>1, <2>2, ExceptSeq DEF ChainTypeOK
      <2> QED
        BY <2>1, <2>2
    <1> QED
      BY <1>2, <1>3 DEF ChainTypeOK

LEMMA TypeStartListening ==
    ASSUME TypeOK, NEW n \in Module, NEW b \in DOMAIN listener[n], StartListening(n, b)
    PROVE  TypeOK'
    <1>1. b \in Nat /\ b <= Len(heap[n]) /\ heap[n][b] \in Block
      BY PointerType, LenProperties DEF TypeOK, ChainTypeOK
    <1>2. [pc |-> "listening", needed |-> needed_laset_amount(n)] \in Listener
      BY NeededType DEF TypeOK, TradeTypeOK, Listener
    <1>3. /\ port' \in [Module -> Nat]
          /\ \A m \in Module : port'[m] <= Len(heap[m])
      BY <1>1 DEF TypeOK, ChainTypeOK, StartListening
    <1>4. ChainTypeOK' /\ \A m \in Module : Len(heap'[m]) = Len(heap[m])
      BY <1>1, <1>2, <1>3, ListenerMoves DEF TypeOK, ChainTypeOK, StartListening
    <1>5. Cleared(n) \subseteq [Phase -> Nat]
      BY DEF TypeOK, VoteTypeOK, Cleared, EmptyTally
    <1>6. VoteTypeOK'
      BY <1>5 DEF TypeOK, VoteTypeOK, StartListening
    <1>7. ValidatorOK'
      BY DEF TypeOK, ValidatorOK, StartListening
    <1> QED
      BY <1>4, <1>6, <1>7 DEF TypeOK, StartListening, TradeTypeOK, NetTypeOK, tradeVars, netVars

LEMMA TypeRecvAck ==
    ASSUME TypeOK, NEW n \in Module, NEW m \in acks, RecvAck(n, m)
    PROVE  TypeOK'
    <1>1. m.vote.phase \in Phase
      BY DEF TypeOK, NetTypeOK, Votes
    <1>2. CountedFor(n, m.vote) \in [Module -> [Phase -> Nat]]
      BY <1>1, TalliedType DEF CountedFor, TypeOK, VoteTypeOK
    <1>3. VoteTypeOK'
      BY <1>2 DEF TypeOK, VoteTypeOK, RecvAck
    <1>4. NetTypeOK'
      BY DEF TypeOK, NetTypeOK, RecvAck, Received
    <1> QED
      BY <1>3, <1>4 DEF TypeOK, RecvAck, TradeTypeOK, ChainTypeOK, ValidatorOK,
                  tradeVars, chainVars

LEMMA TypeAppendBlock ==
    ASSUME TypeOK, NEW n \in Module, NEW b \in DOMAIN listener[n], AppendBlock(n, b)
    PROVE  TypeOK'
    <1> DEFINE d == adjusted_duration(n, listener[n][b].needed)
               o == create_block_hash([heap[n][b] EXCEPT !.duration = d])
    <1>1. /\ b \in Nat /\ b <= Len(heap[n]) /\ heap[n][b] \in Block
          /\ listener[n][b] \in Listener
      BY PointerType, LenProperties DEF TypeOK, ChainTypeOK
    <1>2. d \in Durations
      BY <1>1, AdjustedDurationType DEF Listener
    <1>3. o \in Block
      <2>1. [heap[n][b] EXCEPT !.duration = d] \in Block
        BY <1>1, <1>2 DEF Block
      <2> QED
        BY <2>1, HashedBlockType
    <1>4. [listener[n][b] EXCEPT !.pc = "appended"] \in Listener
      BY <1>1 DEF Listener
    <1>5. /\ listener' = [listener EXCEPT ![n][b] = [listener[n][b] EXCEPT !.pc = "appended"]]
          /\ heap' = [heap EXCEPT ![n][b] = o]
      BY DEF AppendBlock
    <1>6. /\ chain_head' \in [Module -> Nat]
          /\ \A m \in Module : chain_head'[m] <= Len(heap[m])
      BY <1>1 DEF TypeOK, ChainTypeOK, AppendBlock
    <1>7. disturbed' \in [Module -> SUBSET Nat]
      BY <1>1 DEF TypeOK, ChainTypeOK, AppendBlock, CutShort
    <1>8. ChainTypeOK' /\ \A m \in Module : Len(heap'[m]) = Len(heap[m])
      <2> HIDE DEF d, o
      <2> QED
        BY <1>3, <1>4, <1>5, <1>6, <1>7, ListenerMoves DEF TypeOK, ChainTypeOK, AppendBlock
    <1>9. VoteTypeOK' /\ ValidatorOK'
      BY <1>8 DEF TypeOK, VoteTypeOK, ValidatorOK, AppendBlock, voteVars
    <1> QED
      BY <1>8, <1>9 DEF TypeOK, AppendBlock, TradeTypeOK, NetTypeOK, tradeVars, netVars

LEMMA TypeCloseListener ==
    ASSUME TypeOK, NEW n \in Module, NEW b \in DOMAIN listener[n], CloseListener(n, b)
    PROVE  TypeOK'
    <1>1. heap[n][b] \in Block /\ listener[n][b] \in Listener
      BY PointerType DEF TypeOK
    <1>2. [listener[n][b] EXCEPT !.pc = "deleted"] \in Listener
      BY <1>1 DEF Listener
    <1>3. listener' = [listener EXCEPT ![n][b] = [listener[n][b] EXCEPT !.pc = "deleted"]]
      BY DEF CloseListener
    <1>4. /\ port' \in [Module -> Nat]
          /\ \A m \in Module : port'[m] <= Len(heap[m])
      BY LenProperties DEF TypeOK, ChainTypeOK, CloseListener
    <1>5. ChainTypeOK'
      BY <1>1, <1>2, <1>3, <1>4, ListenerMoves DEF TypeOK, ChainTypeOK, CloseListener
    <1>6. TradeTypeOK'
      BY DEF TypeOK, TradeTypeOK, CloseListener, Reopened
    <1> QED
      BY <1>5, <1>6 DEF TypeOK, CloseListener, VoteTypeOK, ValidatorOK, NetTypeOK,
                  voteVars, netVars

-----------------------------------------------------------------------------
LEMMA TypeNext == TypeOK /\ [Next]_vars => TypeOK'
    <1> SUFFICES ASSUME TypeOK, [Next]_vars PROVE TypeOK'
      OBVIOUS
    <1>1. CASE UNCHANGED vars
      BY <1>1 DEF TypeOK, TradeTypeOK, ChainTypeOK, VoteTypeOK, ValidatorOK, NetTypeOK,
                  vars, tradeVars, chainVars, voteVars, netVars
    <1>2. ASSUME NEW n \in Module, LasetListenerTask(n)
          PROVE  TypeOK'
      BY <1>2, TypeLearnKey, TypeAcceptTrade, TypeDraftBlock DEF LasetListenerTask
    <1>3. ASSUME NEW n \in Module, BlockchainListenerTask(n)
          PROVE  TypeOK'
      BY <1>3, TypeAcceptBlock, TypeRejectBlock, TypeCheckPhase, TypeTallyPhase,
         TypeBroadcastAck, TypeRefusePhase DEF BlockchainListenerTask
    <1>4. ASSUME NEW n \in Module, NEW b \in DOMAIN listener[n], PhaseListenerTask(n, b)
          PROVE  TypeOK'
      BY <1>4, TypeStartListening, TypeAppendBlock, TypeCloseListener DEF PhaseListenerTask
    <1> QED
      BY <1>1, <1>2, <1>3, <1>4, TypeRecvAck DEF Next

(* Every variable keeps its type, pointers stay inside the heap and no     *)
(* phase outside phase_acceptance_array is ever counted.                   *)
THEOREM TypeCorrect == Spec => []TypeOK
  BY TypeInit, TypeNext, PTL DEF Spec

-----------------------------------------------------------------------------
(***************************************************************************)
(* The quorum of every listener can be met, and not by nobody              *)
(*                                                                         *)
(* QuorumFeasible is not inductive: that a listener computes its quorum    *)
(* from two keys or more rests on where its block came from.  A seller     *)
(* verified the buyer's signature before it drafted the block, the others  *)
(* verified both signatures before they accepted it, seller and buyer      *)
(* differ, and a stored key is never removed.                              *)
(***************************************************************************)
KeysKnown ==
    /\ \A n \in Module : n \in foreign_public_key_array[n]
    /\ \A n \in Module : drafting[n].pc = "draft" =>
           drafting[n].buyer \in foreign_public_key_array[n] \ {n}
    /\ \A m \in blocks : m.seller # m.buyer
    /\ \A n \in Module : Len(heap[n]) > 0 =>
           \E x, y \in foreign_public_key_array[n] : x # y

QuorumInv == TypeOK /\ KeysKnown /\ QuorumFeasible

(* Two known keys or more give a quorum between one and the voters there   *)
(* are (main.c:250-251).                                                   *)
LEMMA QuorumBounds ==
    ASSUME NEW n \in Module, foreign_public_key_array[n] \subseteq Module,
           NEW x \in foreign_public_key_array[n], NEW y \in foreign_public_key_array[n],
           x # y
    PROVE  needed_laset_amount(n) \in 1..(Cardinality(Module) - 1)
    <1> DEFINE c == Cardinality(foreign_public_key_array[n])
    <1>1. IsFiniteSet(foreign_public_key_array[n])
      BY FS_Subset, ModuleAssumption DEF ModuleAssumption
    <1>2. c \in Nat /\ Cardinality(Module) \in Nat /\ c <= Cardinality(Module)
      BY <1>1, FS_Subset, FS_CardinalityType, ModuleAssumption DEF ModuleAssumption
    <1>3. IsFiniteSet({x}) /\ Cardinality({x}) = 1
      BY FS_Singleton
    <1>4. IsFiniteSet({x, y}) /\ Cardinality({x, y}) = 2
      <2>1. Cardinality({x} \cup {y}) = Cardinality({x}) + 1 /\ IsFiniteSet({x} \cup {y})
        BY <1>3, FS_AddElement
      <2>2. {x} \cup {y} = {x, y}
        OBVIOUS
      <2> QED
        BY <1>3, <2>1, <2>2
    <1>5. 2 <= c
      BY <1>1, <1>4, FS_Subset
    <1>6. needed_laset_amount(n) = (c * 2) \div 3
      BY DEF needed_laset_amount, get_laset_module_amount
    <1> HIDE DEF c
    <1> QED
      BY <1>2, <1>5, <1>6

LEMMA KeysKept ==
    ASSUME KeysKnown, UNCHANGED <<foreign_public_key_array, drafting>>,
           blocks' \subseteq blocks, \A m \in Module : Len(heap'[m]) = Len(heap[m])
    PROVE  KeysKnown'
  BY DEF KeysKnown

(* A listener that was not listening before computes nothing but a quorum. *)
LEMMA QuorumKept ==
    ASSUME QuorumFeasible,
           \A n \in Module : \A b \in DOMAIN listener'[n] :
               listener'[n][b].pc = "listening" =>
                   \/ b \in DOMAIN listener[n] /\ listener'[n][b] = listener[n][b]
                   \/ listener'[n][b].needed \in 1..(Cardinality(Module) - 1)
    PROVE  QuorumFeasible'
  BY DEF QuorumFeasible, Listening

LEMMA QuorumAllocate ==
    ASSUME TypeOK, QuorumFeasible, NEW n \in Module, NEW b \in Block, Allocate(n, b)
    PROVE  QuorumFeasible'
    <1> DEFINE new == [pc |-> "created", needed |-> 0]
    <1>1. listener[n] \in Seq(Listener) /\ new \in Listener
      BY DEF TypeOK, ChainTypeOK, Listener
    <1>2. /\ listener'[n] = Append(listener[n], new)
          /\ \A m \in Module \ {n} : listener'[m] = listener[m]
      BY DEF TypeOK, ChainTypeOK, Allocate
    <1>3. /\ DOMAIN listener[n] = 1..Len(listener[n]) /\ Len(listener[n]) \in Nat
          /\ DOMAIN listener'[n] = 1..(Len(listener[n]) + 1)
          /\ \A i \in 1..Len(listener[n]) : listener'[n][i] = listener[n][i]
          /\ listener'[n][Len(listener[n]) + 1] = new
      BY <1>1, <1>2, AppendProperties, LenProperties
    <1>4. new.pc = "created"
      OBVIOUS
    <1> HIDE DEF new
    <1>5. ASSUME NEW m \in Module, NEW c \in DOMAIN listener'[m],
                 listener'[m][c].pc = "listening"
          PROVE  c \in DOMAIN listener[m] /\ listener'[m][c] = listener[m][c]
      <2>1. CASE m = n
        BY <1>3, <1>4, <1>5, <2>1
      <2>2. CASE m # n
        BY <1>2, <1>5, <2>2
      <2> QED
        BY <2>1, <2>2
    <1> QED
      BY <1>5, QuorumKept

LEMMA QuorumStep == QuorumInv /\ [Next]_vars => QuorumInv'
    <1> SUFFICES ASSUME QuorumInv, [Next]_vars PROVE QuorumInv'
      OBVIOUS
    <1> USE DEF QuorumInv
    <1>0. TypeOK'
      BY TypeNext
    <1>1. ASSUME UNCHANGED <<foreign_public_key_array, drafting, heap, listener>>,
                 blocks' \subseteq blocks
          PROVE  QuorumInv'
      BY <1>0, <1>1, KeysKept, QuorumKept
    <1>2. CASE UNCHANGED vars
      BY <1>1, <1>2 DEF vars, tradeVars, chainVars, netVars
    <1>3. ASSUME NEW n \in Module, NEW m \in Module, LearnKey(n, m)
          PROVE  QuorumInv'
      <2>1. \A o \in Module : foreign_public_key_array[o] \subseteq foreign_public_key_array'[o]
        BY <1>3 DEF LearnKey, TypeOK, TradeTypeOK
      <2>2. KeysKnown'
        BY <1>3, <2>1 DEF KeysKnown, LearnKey, chainVars, netVars
      <2>3. QuorumFeasible'
        BY <1>3, QuorumKept DEF LearnKey, chainVars
      <2> QED
        BY <1>0, <2>2, <2>3
    <1>4. ASSUME NEW n \in Module, NEW buyer \in Module, AcceptTrade(n, buyer)
          PROVE  QuorumInv'
      <2>1. KeysKnown'
        BY <1>4 DEF KeysKnown, AcceptTrade, TypeOK, TradeTypeOK, chainVars, netVars
      <2>2. QuorumFeasible'
        BY <1>4, QuorumKept DEF AcceptTrade, chainVars
      <2> QED
        BY <1>0, <2>1, <2>2
    <1>5. ASSUME NEW n \in Module, DraftBlock(n)
          PROVE  QuorumInv'
      <2> PICK td \in TradeData :
            /\ Allocate(n, create_block(drafting[n].previous_hash, n, drafting[n].buyer,
                                        td.duration, td.signature, chain_head[n]))
            /\ blocks' = blocks \cup
                   {[to |-> r, previous_hash |-> drafting[n].previous_hash,
                     seller |-> n, buyer |-> drafting[n].buyer,
                     duration |-> td.duration, signature |-> td.signature] : r \in Audience(n)}
        BY <1>5 DEF DraftBlock
      <2>1. /\ drafting[n].previous_hash \in Hash /\ drafting[n].buyer \in Module
            /\ td.duration \in Durations /\ td.signature \in Durations
            /\ chain_head[n] \in Nat
        BY TradeDataType DEF TypeOK, TradeTypeOK, ChainTypeOK
      <2>2. QuorumFeasible'
        BY <2>1, CreatedBlockType, QuorumAllocate
      <2>3. drafting[n].buyer \in foreign_public_key_array[n] \ {n}
            /\ n \in foreign_public_key_array[n]
        BY <1>5 DEF DraftBlock, KeysKnown
      <2>4. \A m \in blocks' : m.seller # m.buyer
        BY <2>3 DEF KeysKnown
      <2>5. \A m \in Module \ {n} : heap'[m] = heap[m]
        BY DEF Allocate, TypeOK, ChainTypeOK
      <2>6. /\ UNCHANGED foreign_public_key_array
            /\ \A m \in Module : /\ drafting'[m].buyer = drafting[m].buyer
                                 /\ drafting'[m].pc = "draft" => drafting[m].pc = "draft"
        BY <1>5 DEF DraftBlock, TypeOK, TradeTypeOK
      <2>7. KeysKnown'
        BY <2>3, <2>4, <2>5, <2>6 DEF KeysKnown
      <2> QED
        BY <1>0, <2>2, <2>7
    <1>6. ASSUME NEW n \in Module, NEW m \in blocks, AcceptBlock(n, m)
          PROVE  QuorumInv'
      <2>1. /\ m.previous_hash \in Hash /\ m.seller \in Module /\ m.buyer \in Module
            /\ m.duration \in Durations /\ m.signature \in Durations
            /\ chain_head[n] \in Nat
        BY DEF TypeOK, NetTypeOK, ChainTypeOK
      <2>2. /\ CopyOf(n, m) \in Block
            /\ CopyOf(n, m).seller_node_id = m.seller
            /\ CopyOf(n, m).buyer_node_id = m.buyer
        <3>1. CopyOf(n, m) \in Block
          BY <2>1, CreatedBlockType DEF CopyOf
        <3>2. CopyOf(n, m).seller_node_id = m.seller /\ CopyOf(n, m).buyer_node_id = m.buyer
          BY DEF CopyOf, create_block, create_block_hash
        <3> QED
          BY <3>1, <3>2
      <2>3. QuorumFeasible'
        BY <1>6, <2>2, QuorumAllocate DEF AcceptBlock
      <2>4. {m.seller, m.buyer} \subseteq foreign_public_key_array[n] /\ m.seller # m.buyer
        BY <1>6, <2>2 DEF AcceptBlock, verify_block_hash, KeysKnown
      <2>5. \A o \in Module \ {n} : heap'[o] = heap[o]
        BY <1>6 DEF AcceptBlock, Allocate, TypeOK, ChainTypeOK
      <2>6. blocks' \subseteq blocks /\ UNCHANGED <<foreign_public_key_array, drafting>>
        BY <1>6 DEF AcceptBlock, Received, tradeVars
      <2>7. KeysKnown'
        BY <2>4, <2>5, <2>6 DEF KeysKnown
      <2> QED
        BY <1>0, <2>3, <2>7
    <1>7. ASSUME NEW n \in Module, NEW m \in blocks, RejectBlock(n, m)
          PROVE  QuorumInv'
      BY <1>1, <1>7 DEF RejectBlock, Received, tradeVars, chainVars
    <1>8. ASSUME NEW n \in Module,
                 CheckPhase(n) \/ TallyPhase(n) \/ BroadcastAck(n) \/ RefusePhase(n)
          PROVE  QuorumInv'
      BY <1>1, <1>8 DEF CheckPhase, TallyPhase, BroadcastAck, RefusePhase,
                        tradeVars, chainVars, netVars
    <1>9. ASSUME NEW n \in Module, NEW m \in acks, RecvAck(n, m)
          PROVE  QuorumInv'
      BY <1>1, <1>9 DEF RecvAck, tradeVars, chainVars
    <1>10. ASSUME NEW n \in Module, NEW b \in DOMAIN listener[n], PhaseListenerTask(n, b)
           PROVE  QuorumInv'
      <2>1. /\ b \in 1..Len(heap[n]) /\ b \in 1..Len(listener[n])
            /\ heap[n] \in Seq(Block) /\ listener[n] \in Seq(Listener)
        BY PointerType DEF TypeOK, ChainTypeOK
      <2>2. /\ UNCHANGED <<foreign_public_key_array, drafting, blocks>>
            /\ \A m \in Module : Len(heap'[m]) = Len(heap[m])
        <3>1. UNCHANGED heap \/ \E o : heap' = [heap EXCEPT ![n][b] = o]
          BY <1>10 DEF PhaseListenerTask, StartListening, AppendBlock, CloseListener
        <3>2. CASE UNCHANGED heap
          BY <1>10, <3>2 DEF PhaseListenerTask, StartListening, AppendBlock, CloseListener,
                             tradeVars, netVars
        <3>3. CASE AppendBlock(n, b)
          <4>1. heap'[n] \in Seq(Block) /\ DOMAIN heap'[n] = DOMAIN heap[n]
            BY <1>0, <3>3 DEF AppendBlock, TypeOK, ChainTypeOK
          <4>2. Len(heap'[n]) = Len(heap[n])
            BY <2>1, <4>1, LenProperties
          <4> QED
            BY <3>3, <4>2 DEF AppendBlock, TypeOK, ChainTypeOK, tradeVars, netVars
        <3> QED
          BY <1>10, <3>2, <3>3 DEF PhaseListenerTask, StartListening, CloseListener
      <2>3. KeysKnown'
        BY <2>2, KeysKept
      <2>4. CASE StartListening(n, b)
        <3>1. \E x, y \in foreign_public_key_array[n] : x # y
          BY <2>1, LenProperties DEF KeysKnown
        <3>2. needed_laset_amount(n) \in 1..(Cardinality(Module) - 1)
          BY <3>1, QuorumBounds DEF TypeOK, TradeTypeOK
        <3>3. listener' = [listener EXCEPT ![n][b] =
                              [pc |-> "listening", needed |-> needed_laset_amount(n)]]
          BY <2>4 DEF StartListening
        <3>4. QuorumFeasible'
          BY <3>2, <3>3, QuorumKept DEF TypeOK, ChainTypeOK
        <3> QED
          BY <1>0, <2>3, <3>4
      <2>5. CASE AppendBlock(n, b) \/ CloseListener(n, b)
        <3> PICK pc \in {"appended", "deleted"} :
              listener' = [listener EXCEPT ![n][b] = [listener[n][b] EXCEPT !.pc = pc]]
          BY <2>5 DEF AppendBlock, CloseListener
        <3>1. [listener[n][b] EXCEPT !.pc = pc].pc # "listening"
          BY PointerType DEF TypeOK, Listener
        <3>2. QuorumFeasible'
          BY <3>1, QuorumKept DEF TypeOK, ChainTypeOK
        <3> QED
          BY <1>0, <2>3, <3>2
      <2> QED
        BY <1>10, <2>4, <2>5 DEF PhaseListenerTask
    <1> QED
      BY <1>2, <1>3, <1>4, <1>5, <1>6, <1>7, <1>8, <1>9, <1>10
      DEF Next, LasetListenerTask, BlockchainListenerTask

(* No listener ever waits for a quorum of nobody, nor for more modules     *)
(* than can acknowledge (main.c:249-251, 298).                             *)
THEOREM QuorumCorrect == Spec => []QuorumFeasible
    <1>1. Init => QuorumInv
      <2> SUFFICES ASSUME Init PROVE QuorumInv
        OBVIOUS
      <2>1. KeysKnown
        BY EmptySeq, KeyAssumption DEF Init, KeysKnown, KeyAssumption
      <2>2. QuorumFeasible
        BY DEF Init, QuorumFeasible, Listening
      <2> QED
        BY <2>1, <2>2, TypeInit DEF QuorumInv
    <1>2. QuorumInv => QuorumFeasible
      BY DEF QuorumInv
    <1> QED
      BY <1>1, <1>2, QuorumStep, PTL DEF Spec

-----------------------------------------------------------------------------
(***************************************************************************)
(* A module that is the only one to sell keeps a ledger: what its          *)
(* chain_head leads to implements Ledger, for any number of modules,       *)
(* phases and trades, whatever is lost, delayed or duplicated.             *)
(*                                                                         *)
(* The argument is that trade_deal_is_open makes its trades take turns.    *)
(* It is cleared before a block is drafted and set again only by the end   *)
(* of the block's listener, because with no other seller there is no other *)
(* listener at the seller.  So the head pointer and the head's hash, read  *)
(* at different moments, are of the same block, and that block is still    *)
(* the head when the new one is added to it.                               *)
(***************************************************************************)
(* Nobody else sells, so no block is ever on its way to the seller.        *)
OnlySeller(s) ==
    /\ \A m \in blocks : m.to # s
    /\ \A n \in Module \ {s} : drafting[n].pc # "draft"
    /\ validator[s].pc = "recvmsg"

(* Trades take turns: only the newest block has a listener, and while it   *)
(* has one the deal is closed.                                             *)
Newest(s) == Len(heap[s])
Pending(s) ==
    Newest(s) # 0 /\ listener[s][Newest(s)].pc \in {"created", "listening"}
Busy(s) == Newest(s) # 0 /\ listener[s][Newest(s)].pc # "deleted"
TakingTurns(s) ==
    /\ \A b \in DOMAIN listener[s] : b # Newest(s) => listener[s][b].pc = "deleted"
    /\ chain_head[s] = IF Pending(s) THEN Newest(s) - 1 ELSE Newest(s)
    /\ Busy(s) => ~trade_deal_is_open[s] /\ drafting[s].pc # "draft"
    /\ drafting[s].pc = "draft" => ~trade_deal_is_open[s]

(* Every block is linked to the one before it, and so will the draft be.   *)
HashAt(s, i) == IF i = 0 THEN BaseHash ELSE heap[s][i].hash
Linked(s) ==
    /\ \A i \in 1..Len(heap[s]) : /\ heap[s][i].previous_block = i - 1
                                  /\ heap[s][i].previous_hash = HashAt(s, i - 1)
                                  /\ Len(heap[s][i].hash) = i
    /\ drafting[s].pc = "draft" => drafting[s].previous_hash = HashAt(s, Newest(s))

SellerInv(s) == TypeOK /\ OnlySeller(s) /\ TakingTurns(s) /\ Linked(s)

-----------------------------------------------------------------------------
(* Facts about one module's heap and listeners, as natural numbers.        *)
LEMMA HeapFacts ==
    ASSUME TypeOK, NEW s \in Module
    PROVE  /\ heap[s] \in Seq(Block) /\ listener[s] \in Seq(Listener)
           /\ Newest(s) \in Nat /\ Len(heap[s]) = Newest(s)
           /\ DOMAIN listener[s] = 1..Newest(s) /\ DOMAIN heap[s] = 1..Newest(s)
           /\ chain_head[s] \in Nat
           /\ \A i \in 1..Newest(s) : heap[s][i] \in Block /\ listener[s][i] \in Listener
  BY LenProperties, ElementOfSeq DEF TypeOK, ChainTypeOK, Newest

(* A step that leaves the seller's own state alone keeps the invariant and *)
(* its chain.                                                              *)
SellerUntouched(s) ==
    /\ heap'[s] = heap[s] /\ listener'[s] = listener[s] /\ chain_head'[s] = chain_head[s]
    /\ trade_deal_is_open'[s] = trade_deal_is_open[s] /\ drafting'[s] = drafting[s]
    /\ validator'[s] = validator[s] /\ blocks' \subseteq blocks
    /\ \A n \in Module \ {s} : drafting'[n] = drafting[n]

LEMMA UntouchedKeeps ==
    ASSUME NEW s \in Module, SellerInv(s), TypeOK', SellerUntouched(s)
    PROVE  SellerInv(s)' /\ UNCHANGED ChainOf(s)
    <1>1. OnlySeller(s)'
      BY DEF SellerInv, OnlySeller, SellerUntouched
    <1>2. TakingTurns(s)'
      BY DEF SellerInv, TakingTurns, SellerUntouched, Pending, Busy, Newest
    <1>3. Linked(s)'
      BY DEF SellerInv, Linked, SellerUntouched, HashAt, Newest
    <1>4. UNCHANGED ChainOf(s)
      BY DEF SellerUntouched, ChainOf
    <1> QED
      BY <1>1, <1>2, <1>3, <1>4 DEF SellerInv

LEMMA UntouchedSteps ==
    ASSUME NEW s \in Module, SellerInv(s), NEW n \in Module,
           \/ \E m \in Module : LearnKey(n, m)
           \/ \E m \in blocks : AcceptBlock(n, m) \/ RejectBlock(n, m)
           \/ CheckPhase(n) \/ TallyPhase(n) \/ BroadcastAck(n) \/ RefusePhase(n)
           \/ \E m \in acks : RecvAck(n, m)
           \/ n # s /\ \E b \in DOMAIN listener[n] : PhaseListenerTask(n, b)
    PROVE  SellerUntouched(s)
    <1>1. CASE \E m \in Module : LearnKey(n, m)
      BY <1>1 DEF LearnKey, SellerUntouched, chainVars, voteVars, netVars
    <1>2. ASSUME NEW m \in blocks, AcceptBlock(n, m)
          PROVE  SellerUntouched(s)
      <2>1. n # s
        BY <1>2 DEF AcceptBlock, SellerInv, OnlySeller
      <2> QED
        BY <1>2, <2>1 DEF AcceptBlock, Allocate, Received, SellerUntouched, SellerInv,
                          TypeOK, ChainTypeOK, VoteTypeOK, tradeVars
    <1>3. ASSUME NEW m \in blocks, RejectBlock(n, m)
          PROVE  SellerUntouched(s)
      BY <1>3 DEF RejectBlock, Received, SellerUntouched, tradeVars, chainVars, voteVars
    <1>4. CASE CheckPhase(n) \/ TallyPhase(n) \/ BroadcastAck(n) \/ RefusePhase(n)
      <2>1. n # s
        BY <1>4 DEF CheckPhase, TallyPhase, BroadcastAck, RefusePhase, SellerInv, OnlySeller
      <2>2. validator'[s] = validator[s]
        BY <1>4, <2>1 DEF CheckPhase, TallyPhase, BroadcastAck, RefusePhase, NextPhase,
                          SellerInv, TypeOK, VoteTypeOK
      <2> QED
        BY <1>4, <2>2 DEF CheckPhase, TallyPhase, BroadcastAck, RefusePhase, SellerUntouched,
                          tradeVars, chainVars, netVars
    <1>5. CASE \E m \in acks : RecvAck(n, m)
      BY <1>5 DEF RecvAck, SellerUntouched, tradeVars, chainVars
    <1>6. ASSUME n # s, NEW b \in DOMAIN listener[n], PhaseListenerTask(n, b)
          PROVE  SellerUntouched(s)
      BY <1>6 DEF PhaseListenerTask, StartListening, AppendBlock, CloseListener, Reopened,
                  SellerUntouched, SellerInv, TypeOK, TradeTypeOK, ChainTypeOK,
                  tradeVars, voteVars, netVars
    <1> QED
      BY <1>1, <1>2, <1>3, <1>4, <1>5, <1>6

-----------------------------------------------------------------------------
(* The seller's own steps                                                  *)
-----------------------------------------------------------------------------

(* An open deal has no listener, so the head is the newest block.          *)
LEMMA AcceptTradeKeeps ==
    ASSUME NEW s \in Module, SellerInv(s), TypeOK', NEW buyer \in Module,
           AcceptTrade(s, buyer)
    PROVE  SellerInv(s)' /\ UNCHANGED ChainOf(s)
    <1> USE DEF SellerInv
    <1>1. ~Busy(s) /\ ~Pending(s) /\ chain_head[s] = Newest(s)
      BY DEF AcceptTrade, TakingTurns, Busy, Pending
    <1>2. PreviousHash(s) = HashAt(s, Newest(s))
      BY <1>1 DEF PreviousHash, HashAt
    <1>3. /\ drafting'[s].pc = "draft" /\ drafting'[s].previous_hash = PreviousHash(s)
          /\ \A n \in Module \ {s} : drafting'[n] = drafting[n]
          /\ ~trade_deal_is_open'[s]
          /\ UNCHANGED <<heap, listener, chain_head, validator, blocks>>
      BY DEF AcceptTrade, TypeOK, TradeTypeOK, chainVars, voteVars, netVars
    <1>4. OnlySeller(s)'
      BY <1>3 DEF OnlySeller
    <1>5. TakingTurns(s)'
      BY <1>1, <1>3 DEF TakingTurns, Busy, Pending, Newest
    <1>6. Linked(s)'
      BY <1>2, <1>3 DEF Linked, HashAt, Newest
    <1>7. UNCHANGED ChainOf(s)
      BY <1>3 DEF ChainOf
    <1> QED
      BY <1>4, <1>5, <1>6, <1>7

(* The draft is linked to the newest block, which is still the head.       *)
LEMMA DraftBlockKeeps ==
    ASSUME NEW s \in Module, SellerInv(s), TypeOK', DraftBlock(s)
    PROVE  SellerInv(s)' /\ UNCHANGED ChainOf(s)
    <1> USE DEF SellerInv
    <1> DEFINE k == Newest(s)
    <1>1. ~Busy(s) /\ ~Pending(s) /\ chain_head[s] = k /\ ~trade_deal_is_open[s]
      BY DEF DraftBlock, TakingTurns, Busy, Pending
    <1> PICK td \in TradeData :
          /\ Allocate(s, create_block(drafting[s].previous_hash, s, drafting[s].buyer,
                                      td.duration, td.signature, chain_head[s]))
          /\ blocks' = blocks \cup
                 {[to |-> r, previous_hash |-> drafting[s].previous_hash,
                   seller |-> s, buyer |-> drafting[s].buyer,
                   duration |-> td.duration, signature |-> td.signature] : r \in Audience(s)}
      BY DEF DraftBlock
    <1> DEFINE ph == drafting[s].previous_hash
               new == create_block(ph, s, drafting[s].buyer, td.duration, td.signature,
                                   chain_head[s])
    <1>2. /\ ph \in Hash /\ drafting[s].buyer \in Module
          /\ td.duration \in Durations /\ td.signature \in Durations
          /\ chain_head[s] \in Nat
      BY TradeDataType DEF TypeOK, TradeTypeOK, ChainTypeOK
    <1>3. /\ heap[s] \in Seq(Block) /\ listener[s] \in Seq(Listener) /\ k \in Nat
          /\ Len(heap[s]) = k /\ DOMAIN listener[s] = 1..k /\ Len(listener[s]) = k
          /\ \A i \in 1..k : heap[s][i] \in Block
      BY HeapFacts DEF TypeOK, ChainTypeOK
    <1>4. ph = HashAt(s, k) /\ Len(ph) = k
      <2>1. ph = HashAt(s, k)
        BY DEF DraftBlock, Linked
      <2>2. CASE k = 0
        BY <2>1, <2>2, EmptySeq DEF HashAt, BaseHash
      <2>3. CASE k # 0
        BY <1>3, <2>1, <2>3 DEF HashAt, Linked
      <2> QED
        BY <2>1, <2>2, <2>3
    <1>5. /\ new \in Block /\ new.previous_hash = ph /\ new.previous_block = k
          /\ Len(new.hash) = k + 1
      <2>0. new \in Block
        BY <1>2, CreatedBlockType
      <2>1. /\ new \in Block /\ new.previous_hash = ph /\ new.previous_block = chain_head[s]
            /\ new.hash = Append(ph, <<s, drafting[s].buyer, td.duration, td.signature>>)
        BY <2>0 DEF create_block, create_block_hash, ContentOf
      <2>2. <<s, drafting[s].buyer, td.duration, td.signature>> \in Content
        BY <1>2 DEF Content
      <2>3. Len(new.hash) = Len(ph) + 1
        BY <1>2, <2>1, <2>2, AppendProperties DEF Hash
      <2> QED
        BY <1>1, <1>4, <2>1, <2>3
    <1> HIDE DEF new, k
    <1>6. /\ heap'[s] = Append(heap[s], new)
          /\ listener'[s] = Append(listener[s], [pc |-> "created", needed |-> 0])
          /\ drafting'[s].pc = "recvmsg"
          /\ \A n \in Module \ {s} : drafting'[n] = drafting[n]
          /\ UNCHANGED <<trade_deal_is_open, chain_head, validator>>
      BY DEF DraftBlock, Allocate, TypeOK, TradeTypeOK, ChainTypeOK, voteVars, new
    <1>7. /\ Len(heap'[s]) = k + 1 /\ heap'[s][k + 1] = new
          /\ \A i \in 1..k : heap'[s][i] = heap[s][i]
      BY <1>3, <1>5, <1>6, AppendProperties
    <1>8. /\ DOMAIN listener'[s] = 1..(k + 1) /\ listener'[s][k + 1].pc = "created"
          /\ \A i \in 1..k : listener'[s][i] = listener[s][i]
      <2>1. [pc |-> "created", needed |-> 0] \in Listener
        BY DEF Listener
      <2>2. listener'[s] \in Seq(Listener) /\ Len(listener'[s]) = k + 1
        BY <1>3, <1>6, <2>1, AppendProperties
      <2> QED
        BY <1>3, <1>6, <2>1, <2>2, AppendProperties, LenProperties
    <1>9. OnlySeller(s)'
      BY <1>6 DEF OnlySeller, Audience
    <1>10. TakingTurns(s)'
      <2>1. Newest(s)' = k + 1 /\ Pending(s)' /\ (k + 1) - 1 = k
        BY <1>3, <1>7, <1>8 DEF Newest, Pending
      <2>2. \A b \in 1..k : listener[s][b].pc = "deleted"
        BY <1>1, <1>3 DEF TakingTurns, Busy, k
      <2> QED
        BY <1>1, <1>3, <1>6, <1>8, <2>1, <2>2 DEF TakingTurns, Busy
    <1>11. Linked(s)'
      <2>1. \A i \in 0..k : HashAt(s, i)' = HashAt(s, i)
        BY <1>3, <1>7 DEF HashAt
      <2>2. ASSUME NEW i \in 1..(k + 1)
            PROVE  /\ heap'[s][i].previous_block = i - 1
                   /\ heap'[s][i].previous_hash = HashAt(s, i - 1)'
                   /\ Len(heap'[s][i].hash) = i
        <3>1. CASE i = k + 1
          <4>1. i - 1 = k
            BY <1>3, <3>1
          <4> QED
            BY <1>3, <1>4, <1>5, <1>7, <2>1, <3>1, <4>1
        <3>2. CASE i # k + 1
          <4>1. i \in 1..k /\ i - 1 \in 0..k
            BY <1>3, <3>2
          <4> QED
            BY <1>3, <1>7, <2>1, <4>1 DEF Linked
        <3> QED
          BY <3>1, <3>2
      <2> QED
        BY <1>6, <1>7, <2>2 DEF Linked
    <1>12. UNCHANGED ChainOf(s)
      BY <1>1, <1>3, <1>6, <1>7 DEF ChainOf
    <1> QED
      BY <1>9, <1>10, <1>11, <1>12

(* Only the newest block has a listener.                                   *)
LEMMA NewestListens ==
    ASSUME NEW s \in Module, SellerInv(s), NEW b \in DOMAIN listener[s],
           listener[s][b].pc # "deleted"
    PROVE  b = Newest(s) /\ Newest(s) \in Nat /\ Newest(s) # 0 /\ Busy(s)
  BY HeapFacts DEF SellerInv, TakingTurns, Busy

LEMMA StartListeningKeeps ==
    ASSUME NEW s \in Module, SellerInv(s), TypeOK', NEW b \in DOMAIN listener[s],
           StartListening(s, b)
    PROVE  SellerInv(s)' /\ UNCHANGED ChainOf(s)
    <1> USE DEF SellerInv
    <1>1. listener[s][b].pc = "created" /\ b = Newest(s) /\ b # 0 /\ Busy(s) /\ Pending(s)
      BY NewestListens DEF StartListening, Pending
    <1>2. /\ UNCHANGED <<heap, chain_head, trade_deal_is_open, drafting, validator, blocks>>
          /\ DOMAIN listener'[s] = DOMAIN listener[s]
          /\ listener'[s][b].pc = "listening"
          /\ \A c \in DOMAIN listener[s] : c # b => listener'[s][c] = listener[s][c]
      BY DEF StartListening, TypeOK, ChainTypeOK, tradeVars, netVars
    <1>3. OnlySeller(s)' /\ Linked(s)'
      BY <1>2 DEF OnlySeller, Linked, HashAt, Newest
    <1>4. Newest(s)' = Newest(s) /\ Pending(s)'
      BY <1>1, <1>2 DEF Pending, Newest
    <1>5. TakingTurns(s)'
      BY <1>1, <1>2, <1>4 DEF TakingTurns, Busy
    <1>6. UNCHANGED ChainOf(s)
      BY <1>2 DEF ChainOf
    <1> QED
      BY <1>3, <1>5, <1>6

LEMMA CloseListenerKeeps ==
    ASSUME NEW s \in Module, SellerInv(s), TypeOK', NEW b \in DOMAIN listener[s],
           CloseListener(s, b)
    PROVE  SellerInv(s)' /\ UNCHANGED ChainOf(s)
    <1> USE DEF SellerInv
    <1>1. listener[s][b].pc = "appended" /\ b = Newest(s) /\ b # 0 /\ Busy(s) /\ ~Pending(s)
      BY NewestListens DEF CloseListener, Pending
    <1>2. /\ UNCHANGED <<heap, chain_head, drafting, validator, blocks>>
          /\ DOMAIN listener'[s] = DOMAIN listener[s]
          /\ listener'[s][b].pc = "deleted"
          /\ \A c \in DOMAIN listener[s] : c # b => listener'[s][c] = listener[s][c]
      BY DEF CloseListener, TypeOK, ChainTypeOK, voteVars, netVars
    <1>3. OnlySeller(s)' /\ Linked(s)'
      BY <1>2 DEF OnlySeller, Linked, HashAt, Newest
    <1>4. Newest(s)' = Newest(s) /\ ~Pending(s)' /\ ~Busy(s)'
      BY <1>1, <1>2 DEF Pending, Busy, Newest
    <1>5. TakingTurns(s)'
      BY <1>1, <1>2, <1>4 DEF TakingTurns
    <1>6. UNCHANGED ChainOf(s)
      BY <1>2 DEF ChainOf
    <1> QED
      BY <1>3, <1>5, <1>6

(* What the chain of the seller gains at a deadline: the newest block,     *)
(* with its duration adjusted and its hash made anew over the same         *)
(* previous hash.                                                          *)
Appended(s, chain, old) ==
    /\ chain = [i \in 1..Newest(s) |-> IF i = Newest(s) THEN chain[i] ELSE old[i]]
    /\ old = [i \in 1..(Newest(s) - 1) |-> heap[s][i]]
    /\ chain[Newest(s)].previous_block = Newest(s) - 1
    /\ chain[Newest(s)].previous_hash = HashAt(s, Newest(s) - 1)
    /\ Len(chain[Newest(s)].hash) = Newest(s)

LEMMA AppendBlockKeeps ==
    ASSUME NEW s \in Module, SellerInv(s), TypeOK', NEW b \in DOMAIN listener[s],
           AppendBlock(s, b)
    PROVE  SellerInv(s)' /\ Appended(s, ChainOf(s)', ChainOf(s)) /\ Newest(s) \in Nat \ {0}
    <1> USE DEF SellerInv
    <1> DEFINE k == Newest(s)
               d == adjusted_duration(s, listener[s][b].needed)
               o == create_block_hash([heap[s][b] EXCEPT !.duration = d])
    <1>1. /\ listener[s][b].pc = "listening" /\ b = k /\ k \in Nat /\ k # 0
          /\ Busy(s) /\ Pending(s)
      BY NewestListens DEF AppendBlock, Pending
    <1>2. /\ heap[s] \in Seq(Block) /\ Len(heap[s]) = k /\ DOMAIN listener[s] = 1..k
          /\ DOMAIN heap[s] = 1..k /\ heap[s][k] \in Block /\ listener[s][k] \in Listener
          /\ chain_head[s] = k - 1
      BY <1>1, HeapFacts DEF TakingTurns
    <1>3. /\ o.previous_hash = heap[s][k].previous_hash
          /\ o.previous_block = heap[s][k].previous_block
          /\ Len(o.hash) = k
      <2> DEFINE a == [heap[s][k] EXCEPT !.duration = d]
      <2>1. d \in Durations
        BY <1>1, <1>2, AdjustedDurationType DEF Listener
      <2>2. a \in Block /\ a.previous_hash = heap[s][k].previous_hash
            /\ a.previous_block = heap[s][k].previous_block
        BY <1>2, <2>1 DEF Block
      <2>3. ContentOf(a) \in Content
        BY <2>2 DEF Block, ContentOf, Content
      <2>4. Len(Append(a.previous_hash, ContentOf(a))) = Len(a.previous_hash) + 1
        BY <2>2, <2>3, AppendProperties DEF Block, Hash
      <2>5. Len(heap[s][k].previous_hash) = k - 1
        <3>1. heap[s][k].previous_hash = HashAt(s, k - 1)
          BY <1>1, <1>2 DEF Linked
        <3>2. CASE k = 1
          BY <3>1, <3>2, EmptySeq DEF HashAt, BaseHash
        <3>3. CASE k # 1
          <4>1. k - 1 \in 1..Len(heap[s]) /\ k - 1 # 0
            BY <1>1, <1>2, <3>3
          <4> QED
            BY <3>1, <4>1 DEF HashAt, Linked
        <3> QED
          BY <3>2, <3>3
      <2> HIDE DEF a, d
      <2>6. /\ create_block_hash(a).hash = Append(a.previous_hash, ContentOf(a))
            /\ create_block_hash(a).previous_hash = a.previous_hash
            /\ create_block_hash(a).previous_block = a.previous_block
        BY <2>2, HashedBlockType
      <2>7. o = create_block_hash(a)
        BY <1>1 DEF a
      <2> QED
        BY <1>1, <2>2, <2>4, <2>5, <2>6, <2>7
    <1> HIDE DEF k, d, o
    <1>4. /\ UNCHANGED <<trade_deal_is_open, drafting, validator, blocks>>
          /\ heap' = [heap EXCEPT ![s][k] = o]
          /\ chain_head'[s] = k
          /\ DOMAIN listener'[s] = 1..k
          /\ listener'[s][k].pc = "appended"
          /\ \A c \in DOMAIN listener[s] : c # k => listener'[s][c] = listener[s][c]
      BY <1>1, <1>2 DEF AppendBlock, TypeOK, ChainTypeOK, tradeVars, voteVars, netVars, o, d
    <1>5. /\ Len(heap'[s]) = k /\ heap'[s][k] = o
          /\ \A i \in 1..k : i # k => heap'[s][i] = heap[s][i]
      <2>1. /\ heap'[s][k] = o /\ \A i \in 1..k : i # k => heap'[s][i] = heap[s][i]
            /\ DOMAIN heap'[s] = 1..k
        BY <1>1, <1>2, <1>4 DEF TypeOK, ChainTypeOK
      <2>2. heap'[s] \in Seq(Block)
        BY DEF TypeOK, ChainTypeOK
      <2>3. Len(heap'[s]) \in Nat /\ DOMAIN heap'[s] = 1..Len(heap'[s])
        BY <2>2, LenProperties
      <2> QED
        BY <1>1, <2>1, <2>3
    <1>6. Newest(s)' = k /\ ~Pending(s)' /\ Busy(s)'
      BY <1>1, <1>4, <1>5 DEF Newest, Pending, Busy
    <1>7. OnlySeller(s)'
      BY <1>4 DEF OnlySeller
    <1>8. TakingTurns(s)'
      BY <1>1, <1>2, <1>4, <1>6 DEF TakingTurns, k
    <1>9. Linked(s)'
      <2>1. \A i \in 0..(k - 1) : HashAt(s, i)' = HashAt(s, i)
        BY <1>1, <1>5 DEF HashAt
      <2>2. ASSUME NEW i \in 1..k
            PROVE  /\ heap'[s][i].previous_block = i - 1
                   /\ heap'[s][i].previous_hash = HashAt(s, i - 1)'
                   /\ Len(heap'[s][i].hash) = i
        <3>1. i - 1 \in 0..(k - 1) /\ heap[s][i].previous_block = i - 1
              /\ heap[s][i].previous_hash = HashAt(s, i - 1) /\ Len(heap[s][i].hash) = i
          BY <1>1, <1>2 DEF Linked
        <3>2. CASE i = k
          BY <1>3, <1>5, <2>1, <3>1, <3>2
        <3>3. CASE i # k
          BY <1>5, <2>1, <3>1, <3>3
        <3> QED
          BY <3>2, <3>3
      <2>3. drafting'[s].pc # "draft"
        BY <1>1, <1>4 DEF TakingTurns
      <2> QED
        BY <1>5, <2>2, <2>3 DEF Linked
    <1>10. Appended(s, ChainOf(s)', ChainOf(s))
      <2>1. ChainOf(s)' = [i \in 1..k |-> heap'[s][i]]
        BY <1>4 DEF ChainOf
      <2>2. ChainOf(s) = [i \in 1..(k - 1) |-> heap[s][i]]
        BY <1>2 DEF ChainOf
      <2>3. \A i \in 1..k : i # k => ChainOf(s)[i] = ChainOf(s)'[i]
        BY <1>1, <1>5, <2>1, <2>2
      <2>4. ChainOf(s)' = [i \in 1..k |-> IF i = k THEN ChainOf(s)'[i] ELSE ChainOf(s)[i]]
        BY <2>1, <2>3
      <2>5. ChainOf(s)'[k] = o
        BY <1>1, <1>5, <2>1
      <2>6. heap[s][k].previous_block = k - 1 /\ heap[s][k].previous_hash = HashAt(s, k - 1)
        BY <1>1, <1>2 DEF Linked
      <2> QED
        BY <1>3, <2>2, <2>4, <2>5, <2>6 DEF Appended, k
    <1> QED
      BY <1>1, <1>7, <1>8, <1>9, <1>10 DEF k

-----------------------------------------------------------------------------
(* A function on 1..n with blocks for values is a sequence of n blocks.    *)
LEMMA ChainIsSeq ==
    ASSUME NEW n \in Nat, NEW f \in [1..n -> Block]
    PROVE  f \in Seq(Block) /\ Len(f) = n
  OBVIOUS

(* The first blocks of the seller have different hashes, each as long as   *)
(* its place in the chain.                                                 *)
LEMMA AppendedIsEntry ==
    ASSUME NEW s \in Module, s = TheSeller, SellerInv(s), TypeOK',
           Newest(s) \in Nat \ {0}, Appended(s, ChainOf(s)', ChainOf(s)),
           ChainOf(s)' \in [1..Newest(s) -> Block]
    PROVE  SellerLedger!AppendEntry
    <1> DEFINE k == Newest(s)
               new == ChainOf(s)'[k]
    <1>1. /\ Len(heap[s]) = k /\ k \in Nat /\ k # 0 /\ k - 1 \in Nat
          /\ \A i \in 1..(k - 1) : heap[s][i] \in Block
      BY HeapFacts DEF SellerInv
    <1>2. ChainOf(s) \in [1..(k - 1) -> Block]
      BY <1>1 DEF Appended
    <1>3. Len(ChainOf(s)') = k /\ Len(ChainOf(s)) = k - 1 /\ ChainOf(s) \in Seq(Block)
      BY <1>1, <1>2, ChainIsSeq
    <1>4. \A i \in 1..(k - 1) : /\ ChainOf(s)'[i] = ChainOf(s)[i]
                                /\ ChainOf(s)[i] = heap[s][i]
                                /\ Len(ChainOf(s)[i].hash) = i
      BY <1>1 DEF Appended, SellerInv, Linked
    <1>5. /\ new.previous_block = k - 1 /\ Len(new.hash) = k
          /\ new.previous_hash = HashAt(s, k - 1)
      BY DEF Appended
    <1> HIDE DEF new, k
    <1>6. SellerLedger!LastHash = HashAt(s, k - 1)
      <2>1. CASE k = 1
        <3>1. ChainOf(s) = <<>>
          BY <1>3, <2>1, EmptySeq
        <3> QED
          BY <2>1, <3>1 DEF SellerLedger!LastHash, HashAt
      <2>2. CASE k # 1
        <3>1. ChainOf(s) # <<>> /\ k - 1 \in 1..(k - 1) /\ k - 1 # 0
          BY <1>1, <1>3, <2>2, EmptySeq
        <3> QED
          BY <1>3, <1>4, <3>1 DEF SellerLedger!LastHash, HashAt
      <2> QED
        BY <2>1, <2>2
    <1>7. new.hash # BaseHash
      BY <1>1, <1>5, EmptySeq DEF BaseHash
    <1>8. \A i \in 1..(k - 1) : new.hash # ChainOf(s)[i].hash
      BY <1>1, <1>4, <1>5
    <1>9. SellerLedger!LinkedToHead(new)
      BY <1>3, <1>5, <1>6, <1>7, <1>8 DEF SellerLedger!LinkedToHead
    <1> QED
      BY <1>1, <1>3, <1>4, <1>9 DEF SellerLedger!AppendEntry, new

LEMMA SellerStep ==
    ASSUME NEW s \in Module, Seller = {s}, SellerInv(s), [Next]_vars
    PROVE  SellerInv(s)' /\ (SellerLedger!AppendEntry \/ UNCHANGED ChainOf(s))
    <1>0. TypeOK' /\ s = TheSeller
      BY TypeNext DEF SellerInv, TheSeller
    <1>1. CASE UNCHANGED vars
      <2>1. SellerUntouched(s)
        BY <1>1 DEF vars, tradeVars, chainVars, voteVars, netVars, SellerUntouched
      <2> QED
        BY <1>0, <2>1, UntouchedKeeps
    <1>2. ASSUME NEW n \in Module, NEW buyer \in Module, n \in Seller, AcceptTrade(n, buyer)
          PROVE  SellerInv(s)' /\ UNCHANGED ChainOf(s)
      BY <1>0, <1>2, AcceptTradeKeeps
    <1>3. ASSUME NEW n \in Module, DraftBlock(n)
          PROVE  SellerInv(s)' /\ UNCHANGED ChainOf(s)
      <2>1. n = s
        BY <1>3 DEF DraftBlock, SellerInv, OnlySeller
      <2> QED
        BY <1>0, <1>3, <2>1, DraftBlockKeeps
    <1>4. ASSUME NEW b \in DOMAIN listener[s], PhaseListenerTask(s, b)
          PROVE  SellerInv(s)' /\ (SellerLedger!AppendEntry \/ UNCHANGED ChainOf(s))
      <2>1. CASE StartListening(s, b)
        BY <1>0, <2>1, StartListeningKeeps
      <2>2. CASE CloseListener(s, b)
        BY <1>0, <2>2, CloseListenerKeeps
      <2>3. CASE AppendBlock(s, b)
        <3>1. /\ SellerInv(s)' /\ Newest(s) \in Nat \ {0}
              /\ Appended(s, ChainOf(s)', ChainOf(s))
          BY <1>0, <2>3, AppendBlockKeeps
        <3>2. ChainOf(s)' \in [1..Newest(s) -> Block]
          <4>1. DOMAIN ChainOf(s)' = 1..Newest(s) /\ DOMAIN ChainOf(s)' = 1..chain_head'[s]
            BY <3>1 DEF Appended, ChainOf
          <4>2. \A i \in 1..chain_head'[s] : heap'[s][i] \in Block
            BY <1>0, LenProperties, ElementOfSeq DEF TypeOK, ChainTypeOK
          <4> QED
            BY <4>1, <4>2 DEF ChainOf
        <3> QED
          BY <1>0, <3>1, <3>2, AppendedIsEntry
      <2> QED
        BY <1>4, <2>1, <2>2, <2>3 DEF PhaseListenerTask
    <1>5. ASSUME NEW n \in Module,
                 \/ \E m \in Module : LearnKey(n, m)
                 \/ \E m \in blocks : AcceptBlock(n, m) \/ RejectBlock(n, m)
                 \/ CheckPhase(n) \/ TallyPhase(n) \/ BroadcastAck(n) \/ RefusePhase(n)
                 \/ \E m \in acks : RecvAck(n, m)
                 \/ n # s /\ \E b \in DOMAIN listener[n] : PhaseListenerTask(n, b)
          PROVE  SellerInv(s)' /\ UNCHANGED ChainOf(s)
      BY <1>0, <1>5, UntouchedSteps, UntouchedKeeps
    <1> QED
      BY <1>1, <1>2, <1>3, <1>4, <1>5 DEF Next, LasetListenerTask, BlockchainListenerTask

(* The chain of the only seller implements the abstract ledger: it is only *)
(* ever appended to, and each block is linked to the one before it by      *)
(* pointer and by a new hash (main.c:454-472, 306-308).                    *)
THEOREM SellerRefinesLedger ==
    ASSUME NEW s \in Module, Seller = {s}
    PROVE  Spec => SellerKeepsLedger
    <1>0. s = TheSeller
      BY DEF TheSeller
    <1>1. Init => SellerInv(s) /\ SellerLedger!Init
      <2> SUFFICES ASSUME Init PROVE SellerInv(s) /\ SellerLedger!Init
        OBVIOUS
      <2>1. /\ Newest(s) = 0 /\ DOMAIN listener[s] = {} /\ chain_head[s] = 0
            /\ Len(heap[s]) = 0
        BY EmptySeq DEF Init, Newest
      <2>2. OnlySeller(s) /\ TakingTurns(s) /\ Linked(s)
        BY <2>1 DEF Init, OnlySeller, TakingTurns, Pending, Busy, Linked
      <2>3. ChainOf(s) = <<>>
        BY <2>1 DEF ChainOf
      <2> QED
        BY <1>0, <2>2, <2>3, TypeInit DEF SellerInv, SellerLedger!Init
    <1>2. SellerInv(s) /\ [Next]_vars
            => SellerInv(s)' /\ [SellerLedger!AppendEntry]_(ChainOf(TheSeller))
      BY <1>0, SellerStep
    <1> QED
      BY <1>1, <1>2, PTL DEF Spec, SellerKeepsLedger, SellerLedger!Spec
=============================================================================
