-------------------------- MODULE AckCount_proofs --------------------------
(***************************************************************************)
(* With a single seller, and no datagram delivered twice, a lone listener  *)
(* counts an acknowledgement once, and only if a module made it for its    *)
(* block and that phase; for any number of modules, phases and trades, in  *)
(* whatever order acks, blocks and deadlines come.                         *)
(*                                                                         *)
(* A count is compared with a set: the modules whose ack the listener has  *)
(* received, or that is the module itself.  Each receipt has to add a new  *)
(* module to that set.  It does, because a module makes an ack once: its   *)
(* phases only grow while it works on a block, and of the seller's trades, *)
(* which are told apart by the length of their hash, it is sent each once. *)
(***************************************************************************)
EXTENDS LoneListener_proofs

(* The acknowledgement v has been made, and n has still to receive it.     *)
OnItsWay(n, v) ==
    \/ [to |-> n, vote |-> v] \in acks
    \/ validator[v.from].pc = "bpa" /\ Vote(v.from) = v

(* The modules whose acknowledgement n has received, or made itself.       *)
Counted(n, h, p) ==
    {o \in Voters(h, p) : o = n \/ ~OnItsWay(n, [from |-> o, phase |-> p, hash |-> h])}

TallyBacked(n) ==
    \A b \in Lone(n) : listener[n][b].pc = "listening" =>
        \A p \in Phase :
            phase_acceptance_array[n][p] <= Cardinality(Counted(n, heap[n][b].hash, p))

(* What a module has acknowledged of the trade its validator works on are  *)
(* earlier phases, and the present one if it has counted that already.     *)
SameTrade(o, h) == Len(h) = Len(heap[o][validator[o].block].hash)
OnceEach(o) ==
    LET v == validator[o] IN
    v.pc # "recvmsg" =>
        /\ \A c \in cast : c.from = o /\ SameTrade(o, c.hash) =>
               \/ c.phase < v.phase
               \/ /\ v.pc = "bpa" /\ c.phase = v.phase
                  /\ listener[o][v.block].pc = "listening" => c.hash = heap[o][v.block].hash
        /\ \A m \in acks : m.vote.from = o /\ SameTrade(o, m.vote.hash) =>
               m.vote.phase < v.phase

AcksCast == \A m \in acks : m.vote \in cast /\ m.to # m.vote.from

(* The trades of seller s are numbered by the length of their hash.  No    *)
(* number is beyond the seller's last block, and no module is sent a       *)
(* number twice, nor one it has worked on or acknowledged.                 *)
Numbered(s) ==
    /\ \A m \in blocks : Len(m.previous_hash) + 1 <= Len(heap[s])
    /\ \A c \in cast : Len(c.hash) <= Len(heap[s])
    /\ \A o \in Module : \A b \in DOMAIN heap[o] : Len(heap[o][b].hash) <= Len(heap[s])
NumbersNew ==
    \A m \in blocks :
        /\ \A l \in blocks : l.to = m.to /\ Len(l.previous_hash) = Len(m.previous_hash) => l = m
        /\ \A c \in cast : c.from = m.to => Len(c.hash) # Len(m.previous_hash) + 1
        /\ validator[m.to].pc # "recvmsg" =>
               Len(heap[m.to][validator[m.to].block].hash) # Len(m.previous_hash) + 1

Once(s) ==
    /\ dups = 0 /\ AcksCast /\ Numbered(s) /\ NumbersNew
    /\ \A o \in Module : OnceEach(o)

AckOK(s) == LoneInv /\ SellerInv(s) /\ Once(s)
AckInv(s) == AckOK(s) /\ \A n \in Module : TallyBacked(n)

(* No ack that is made already is made or sent again by a step.            *)
WayShrinks ==
    /\ cast \subseteq cast'
    /\ \A n \in Module, v \in cast : OnItsWay(n, v)' => OnItsWay(n, v)

-----------------------------------------------------------------------------
(* Acknowledgements and the validators' blocks, by their types.            *)
LEMMA VoteFacts ==
    ASSUME TypeOK
    PROVE  /\ \A c \in cast : /\ c.from \in Module /\ c.phase \in Nat
                              /\ c = [from |-> c.from, phase |-> c.phase, hash |-> c.hash]
           /\ \A m \in acks : /\ m.vote.from \in Module /\ m.vote.phase \in Nat
                              /\ m = [to |-> m.to, vote |-> m.vote] /\ m.to \in Module
                              /\ m.vote \in Votes
           /\ \A m \in blocks : m.to \in Module
           /\ \A o \in Module : validator[o].phase \in Nat
  BY PhaseAssumption DEF TypeOK, VoteTypeOK, NetTypeOK, Votes, Phase, PhaseAssumption

(***************************************************************************)
(* A step that makes no acknowledgement and no block.                      *)
(***************************************************************************)
CalmAt(o) ==
    \/ /\ validator'[o] = validator[o]
       /\ validator[o].pc = "bpa" /\ listener'[o][validator[o].block].pc = "listening" =>
              listener[o][validator[o].block].pc = "listening"
    \/ validator'[o].pc = "recvmsg"
    \/ /\ validator[o].pc \in {"check", "rlc"} /\ validator'[o].pc \in {"check", "rlc"}
       /\ validator'[o].block = validator[o].block
       /\ validator'[o].phase \in Nat /\ validator[o].phase <= validator'[o].phase

Calm ==
    /\ UNCHANGED <<heap, cast, dups>> /\ acks' \subseteq acks /\ blocks' \subseteq blocks
    /\ \A o \in Module : CalmAt(o)

LEMMA CalmKeeps ==
    ASSUME NEW s \in Module, AckOK(s), Calm
    PROVE  Once(s)' /\ WayShrinks
  <1>0. TypeOK
    BY DEF AckOK, LoneInv
  <1>1. ASSUME NEW o \in Module
        PROVE  OnceEach(o)'
    <2>1. OnceEach(o) /\ CalmAt(o)
      BY DEF AckOK, Once, Calm
    <2>2. CASE validator'[o] = validator[o]
      BY <2>1, <2>2 DEF CalmAt, Calm, OnceEach, SameTrade
    <2>3. CASE validator'[o].pc = "recvmsg"
      BY <2>3 DEF OnceEach
    <2>4. CASE /\ validator[o].pc \in {"check", "rlc"} /\ validator'[o].block = validator[o].block
               /\ validator'[o].phase \in Nat /\ validator[o].phase <= validator'[o].phase
      <3> DEFINE v == validator[o]
      <3>1. /\ \A c \in cast : c.from = o /\ SameTrade(o, c.hash) => c.phase < v.phase
            /\ \A m \in acks : m.vote.from = o /\ SameTrade(o, m.vote.hash) =>
                   m.vote.phase < v.phase
        BY <2>1, <2>4 DEF OnceEach
      <3>2. \A h : SameTrade(o, h)' <=> SameTrade(o, h)
        BY <2>4 DEF Calm, SameTrade
      <3>3. v.phase \in Nat /\ (\A c \in cast : c.phase \in Nat)
            /\ \A m \in acks : m.vote.phase \in Nat
        BY <1>0, VoteFacts
      <3> HIDE DEF v
      <3>4. \A c \in cast : c.from = o /\ SameTrade(o, c.hash)' => c.phase < validator'[o].phase
        BY <2>4, <3>1, <3>2, <3>3 DEF v
      <3>5. \A m \in acks : m.vote.from = o /\ SameTrade(o, m.vote.hash)' =>
                m.vote.phase < validator'[o].phase
        BY <2>4, <3>1, <3>2, <3>3 DEF v
      <3> QED
        BY <3>4, <3>5 DEF OnceEach, Calm, SameTrade
    <2> QED
      BY <2>1, <2>2, <2>3, <2>4 DEF CalmAt
  <1>2. AcksCast' /\ Numbered(s)'
    BY DEF AckOK, Once, Calm, AcksCast, Numbered
  <1>3. NumbersNew'
    <2> SUFFICES ASSUME NEW m \in blocks'
                 PROVE  /\ \A l \in blocks' : l.to = m.to
                               /\ Len(l.previous_hash) = Len(m.previous_hash) => l = m
                        /\ \A c \in cast' : c.from = m.to =>
                               Len(c.hash) # Len(m.previous_hash) + 1
                        /\ validator'[m.to].pc # "recvmsg" =>
                               Len(heap'[m.to][validator'[m.to].block].hash)
                                   # Len(m.previous_hash) + 1
      BY DEF NumbersNew
    <2>1. m \in blocks /\ m.to \in Module
      BY <1>0, VoteFacts DEF Calm
    <2>2. CalmAt(m.to)
      BY <2>1 DEF Calm
    <2>3. validator'[m.to].pc # "recvmsg" =>
              validator[m.to].pc # "recvmsg" /\ validator'[m.to].block = validator[m.to].block
      BY <2>2 DEF CalmAt
    <2> QED
      BY <2>1, <2>3 DEF Calm, AckOK, Once, NumbersNew
  <1>4. WayShrinks
    <2> SUFFICES ASSUME NEW n \in Module, NEW v \in cast, OnItsWay(n, v)'
                 PROVE  OnItsWay(n, v)
      BY DEF WayShrinks, Calm
    <2>1. v.from \in Module
      BY <1>0, VoteFacts
    <2>2. CASE validator'[v.from].pc = "bpa" /\ Vote(v.from)' = v
      <3>1. validator'[v.from] = validator[v.from]
        BY <2>1, <2>2 DEF Calm, CalmAt
      <3> QED
        BY <2>2, <3>1 DEF OnItsWay, Vote, Calm
    <2> QED
      BY <2>2 DEF OnItsWay, Calm
  <1> QED
    BY <1>1, <1>2, <1>3, <1>4 DEF Once, AckOK, Calm

LEMMA CalmSteps ==
    ASSUME NEW s \in Module, AckOK(s), MaxDups = 0, NEW n \in Module,
           \/ \E m \in Module : LearnKey(n, m) \/ AcceptTrade(n, m)
           \/ \E m \in blocks : RejectBlock(n, m)
           \/ CheckPhase(n) \/ RefusePhase(n)
           \/ \E m \in acks : RecvAck(n, m)
           \/ \E b \in DOMAIN listener[n] : StartListening(n, b) \/ CloseListener(n, b)
    PROVE  Calm
  <1>0. TypeOK /\ dups = 0 /\ WorksOn(n)
    BY DEF AckOK, LoneInv, LoneOK, Once
  <1>1. CASE \E m \in Module : LearnKey(n, m) \/ AcceptTrade(n, m)
    BY <1>1 DEF LearnKey, AcceptTrade, Calm, CalmAt, chainVars, voteVars, netVars
  <1>2. ASSUME NEW m \in blocks, RejectBlock(n, m)
        PROVE  Calm
    <2>1. blocks' = blocks \ {m} /\ dups' = dups
      BY <1>0, <1>2, MaxDups = 0 DEF RejectBlock, Received
    <2> QED
      BY <1>2, <2>1 DEF RejectBlock, Calm, CalmAt, chainVars, voteVars
  <1>3. CASE CheckPhase(n) \/ RefusePhase(n)
    <2>1. /\ UNCHANGED <<heap, cast, dups, acks, blocks, listener>>
          /\ validator[n].pc \in {"check", "rlc"} /\ validator[n].phase \in Nat
          /\ \A o \in Module \ {n} : validator'[o] = validator[o]
          /\ validator'[n].block = validator[n].block
          /\ validator'[n].pc \in {"check", "rlc", "recvmsg"}
          /\ validator'[n].phase \in {validator[n].phase, validator[n].phase + 1}
      BY <1>0, <1>3, VoteFacts
         DEF CheckPhase, RefusePhase, NextPhase, TypeOK, VoteTypeOK, chainVars, netVars
    <2>2. CalmAt(n)
      BY <2>1 DEF CalmAt
    <2>3. \A o \in Module \ {n} : CalmAt(o)
      BY <2>1 DEF CalmAt
    <2> QED
      BY <2>1, <2>2, <2>3 DEF Calm
  <1>4. ASSUME NEW m \in acks, RecvAck(n, m)
        PROVE  Calm
    <2>1. acks' = acks \ {m} /\ dups' = dups
      BY <1>0, <1>4, MaxDups = 0 DEF RecvAck, Received
    <2> QED
      BY <1>4, <2>1 DEF RecvAck, Calm, CalmAt, chainVars
  <1>5. ASSUME NEW b \in DOMAIN listener[n], StartListening(n, b) \/ CloseListener(n, b)
        PROVE  Calm
    <2>1. /\ UNCHANGED <<heap, cast, dups, acks, blocks, validator>>
          /\ \A o \in Module \ {n} : listener'[o] = listener[o]
          /\ \A c \in DOMAIN listener[n] : c # b => listener'[n][c] = listener[n][c]
          /\ \/ listener[n][b].pc = "created"
             \/ listener'[n][b].pc = "deleted"
      <3>1. CASE StartListening(n, b)
        BY <1>0, <3>1 DEF StartListening, TypeOK, ChainTypeOK, netVars
      <3>2. CASE CloseListener(n, b)
        BY <1>0, <3>2 DEF CloseListener, TypeOK, ChainTypeOK, netVars, voteVars
      <3> QED
        BY <1>5, <3>1, <3>2
    <2>2. CalmAt(n)
      <3> SUFFICES ASSUME validator[n].pc = "bpa",
                          listener'[n][validator[n].block].pc = "listening"
                   PROVE  listener[n][validator[n].block].pc = "listening"
        BY <2>1 DEF CalmAt
      <3>1. validator[n].block \in DOMAIN listener[n]
        BY <1>0, ModuleFacts
      <3>2. listener[n][validator[n].block].pc # "created"
        BY <1>0 DEF WorksOn
      <3>3. validator[n].block # b
        BY <2>1, <3>2
      <3> QED
        BY <2>1, <3>1, <3>3
    <2>3. \A o \in Module \ {n} : CalmAt(o)
      BY <2>1 DEF CalmAt
    <2> QED
      BY <2>1, <2>2, <2>3 DEF Calm
  <1> QED
    BY <1>1, <1>2, <1>3, <1>4, <1>5

-----------------------------------------------------------------------------
(* What a validator is about to count it has not acknowledged before.      *)
LEMMA FreshVote ==
    ASSUME TypeOK, NEW n \in Module, OnceEach(n), validator[n].pc \in {"check", "rlc"}
    PROVE  Vote(n) \notin cast
  <1> SUFFICES ASSUME Vote(n) \in cast PROVE FALSE
    OBVIOUS
  <1>1. /\ Vote(n).from = n /\ Vote(n).phase = validator[n].phase
        /\ SameTrade(n, Vote(n).hash)
    BY DEF Vote, SameTrade
  <1>2. validator[n].phase < validator[n].phase
    BY <1>1 DEF OnceEach
  <1> QED
    BY <1>2, VoteFacts

(* An acknowledgement of n is of the trade n works on, so its number is    *)
(* neither too large nor that of a block still to come.                    *)
LEMMA VoteNumber ==
    ASSUME NEW s \in Module, AckOK(s), NEW n \in Module, validator[n].pc # "recvmsg"
    PROVE  /\ Len(Vote(n).hash) <= Len(heap[s])
           /\ \A m \in blocks : m.to = n => Len(Vote(n).hash) # Len(m.previous_hash) + 1
  <1>1. validator[n].block \in DOMAIN heap[n]
    BY ModuleFacts DEF AckOK, LoneInv
  <1> QED
    BY <1>1 DEF AckOK, Once, Numbered, NumbersNew, Vote

LEMMA TallyPhaseOnce ==
    ASSUME NEW s \in Module, AckOK(s), NEW n \in Module, TallyPhase(n)
    PROVE  Once(s)' /\ WayShrinks
  <1>0. TypeOK /\ Once(s)
    BY DEF AckOK, LoneInv
  <1>1. /\ validator[n].pc = "rlc" /\ cast' = cast \cup {Vote(n)}
        /\ UNCHANGED <<heap, listener, acks, blocks, dups>>
        /\ \A o \in Module \ {n} : validator'[o] = validator[o]
        /\ validator'[n].pc = "bpa" /\ validator'[n].block = validator[n].block
        /\ validator'[n].phase = validator[n].phase
    BY <1>0 DEF TallyPhase, chainVars, netVars, TypeOK, VoteTypeOK
  <1>2. Vote(n).from = n /\ Vote(n).phase = validator[n].phase
        /\ Vote(n).hash = heap[n][validator[n].block].hash
    BY DEF Vote
  <1>3. \A o \in Module : Vote(o)' = Vote(o)
    BY <1>1 DEF Vote
  <1>4. \A o \in Module : \A h : SameTrade(o, h)' <=> SameTrade(o, h)
    BY <1>1 DEF SameTrade
  <1>5. ASSUME NEW o \in Module
        PROVE  OnceEach(o)'
    <2>1. CASE o = n
      <3>1. \A c \in cast' : c.from = n /\ SameTrade(n, c.hash) =>
                \/ c.phase < validator[n].phase
                \/ c.phase = validator[n].phase /\ c.hash = heap[n][validator[n].block].hash
        BY <1>0, <1>1, <1>2 DEF Once, OnceEach
      <3>2. \A m \in acks : m.vote.from = n /\ SameTrade(n, m.vote.hash) =>
                m.vote.phase < validator[n].phase
        BY <1>0, <1>1 DEF Once, OnceEach
      <3> QED
        BY <1>1, <2>1, <3>1, <3>2 DEF OnceEach, SameTrade
    <2>2. CASE o # n
      BY <1>0, <1>1, <1>2, <2>2 DEF Once, OnceEach, SameTrade
    <2> QED
      BY <2>1, <2>2
  <1>6. AcksCast' /\ Numbered(s)'
    BY <1>0, <1>1, VoteNumber DEF Once, AcksCast, Numbered
  <1>7. NumbersNew'
    <2> SUFFICES ASSUME NEW m \in blocks
                 PROVE  /\ \A c \in cast' : c.from = m.to =>
                               Len(c.hash) # Len(m.previous_hash) + 1
                        /\ validator'[m.to].pc # "recvmsg" =>
                               Len(heap[m.to][validator'[m.to].block].hash)
                                   # Len(m.previous_hash) + 1
      BY <1>0, <1>1 DEF NumbersNew, Once
    <2>1. m.to \in Module
      BY <1>0, VoteFacts
    <2>2. \A c \in cast' : c.from = m.to => Len(c.hash) # Len(m.previous_hash) + 1
      BY <1>0, <1>1, <1>2, VoteNumber DEF Once, NumbersNew
    <2>3. validator'[m.to].pc # "recvmsg" =>
              validator[m.to].pc # "recvmsg" /\ validator'[m.to].block = validator[m.to].block
      BY <1>1, <2>1
    <2> QED
      BY <1>0, <2>2, <2>3 DEF Once, NumbersNew
  <1>8. WayShrinks
    <2> SUFFICES ASSUME NEW o \in Module, NEW v \in cast, OnItsWay(o, v)'
                 PROVE  OnItsWay(o, v)
      BY <1>1 DEF WayShrinks
    <2>1. v.from \in Module
      BY <1>0, VoteFacts
    <2>2. ~(v.from = n /\ Vote(n) = v)
      BY <1>0, <1>1, FreshVote DEF Once
    <2> QED
      BY <1>1, <1>3, <2>1, <2>2 DEF OnItsWay
  <1> QED
    BY <1>0, <1>1, <1>5, <1>6, <1>7, <1>8 DEF Once

LEMMA BroadcastAckOnce ==
    ASSUME NEW s \in Module, AckOK(s), NEW n \in Module, BroadcastAck(n)
    PROVE  Once(s)' /\ WayShrinks
  <1>0. TypeOK /\ Once(s)
    BY DEF AckOK, LoneInv
  <1>1. /\ validator[n].pc = "bpa" /\ cast' = cast \cup {Vote(n)}
        /\ acks' = acks \cup {[to |-> r, vote |-> Vote(n)] : r \in Audience(n)}
        /\ UNCHANGED <<heap, listener, blocks, dups>>
        /\ \A o \in Module \ {n} : validator'[o] = validator[o]
        /\ validator'[n].pc = "check" /\ validator'[n].block = validator[n].block
        /\ validator'[n].phase = validator[n].phase + 1 /\ validator[n].phase \in Nat
    BY <1>0, VoteFacts DEF BroadcastAck, NextPhase, chainVars, netVars, TypeOK, VoteTypeOK
  <1>2. Vote(n).from = n /\ Vote(n).phase = validator[n].phase
        /\ Vote(n).hash = heap[n][validator[n].block].hash
    BY DEF Vote
  <1>3. \A m \in acks' : m \in acks \/ (m.vote = Vote(n) /\ m.to # n)
    BY <1>1 DEF Audience
  <1>4. \A o \in Module : \A h : SameTrade(o, h)' <=> SameTrade(o, h)
    BY <1>1 DEF SameTrade
  <1>5. ASSUME NEW o \in Module
        PROVE  OnceEach(o)'
    <2>1. CASE o = n
      <3>1. \A c \in cast' : c.from = n /\ SameTrade(n, c.hash) =>
                c.phase < validator[n].phase \/ c.phase = validator[n].phase
        BY <1>0, <1>1, <1>2 DEF Once, OnceEach
      <3>2. \A m \in acks' : m.vote.from = n /\ SameTrade(n, m.vote.hash) =>
                m.vote.phase < validator[n].phase \/ m.vote.phase = validator[n].phase
        BY <1>0, <1>1, <1>2, <1>3 DEF Once, OnceEach
      <3>3. (\A c \in cast' : c.phase \in Nat) /\ \A m \in acks' : m.vote.phase \in Nat
        BY <1>0, <1>1, <1>2, <1>3, VoteFacts
      <3>4. \A k \in Nat : k < validator[n].phase \/ k = validator[n].phase =>
                           k < validator'[n].phase
        BY <1>1
      <3>5. /\ \A c \in cast' : c.from = n /\ SameTrade(n, c.hash)' =>
                   c.phase < validator'[n].phase
            /\ \A m \in acks' : m.vote.from = n /\ SameTrade(n, m.vote.hash)' =>
                   m.vote.phase < validator'[n].phase
        BY <1>4, <3>1, <3>2, <3>3, <3>4
      <3> QED
        BY <2>1, <3>5 DEF OnceEach, SameTrade
    <2>2. CASE o # n
      BY <1>0, <1>1, <1>2, <1>3, <2>2 DEF Once, OnceEach, SameTrade
    <2> QED
      BY <2>1, <2>2
  <1>6. AcksCast' /\ Numbered(s)'
    BY <1>0, <1>1, <1>2, <1>3, VoteNumber DEF Once, AcksCast, Numbered
  <1>7. NumbersNew'
    <2> SUFFICES ASSUME NEW m \in blocks
                 PROVE  /\ \A c \in cast' : c.from = m.to =>
                               Len(c.hash) # Len(m.previous_hash) + 1
                        /\ validator'[m.to].pc # "recvmsg" =>
                               Len(heap[m.to][validator'[m.to].block].hash)
                                   # Len(m.previous_hash) + 1
      BY <1>0, <1>1 DEF NumbersNew, Once
    <2>1. m.to \in Module
      BY <1>0, VoteFacts
    <2>2. \A c \in cast' : c.from = m.to => Len(c.hash) # Len(m.previous_hash) + 1
      BY <1>0, <1>1, <1>2, VoteNumber DEF Once, NumbersNew
    <2>3. validator'[m.to].pc # "recvmsg" =>
              validator[m.to].pc # "recvmsg" /\ validator'[m.to].block = validator[m.to].block
      BY <1>1, <2>1
    <2> QED
      BY <1>0, <2>2, <2>3 DEF Once, NumbersNew
  <1>8. WayShrinks
    <2> SUFFICES ASSUME NEW o \in Module, NEW v \in cast, OnItsWay(o, v)'
                 PROVE  OnItsWay(o, v)
      BY <1>1 DEF WayShrinks
    <2>1. v.from \in Module
      BY <1>0, VoteFacts
    <2>2. CASE [to |-> o, vote |-> v] \in acks'
      BY <1>1, <1>2, <1>3, <2>2 DEF OnItsWay
    <2>3. CASE validator'[v.from].pc = "bpa" /\ Vote(v.from)' = v
      BY <1>1, <2>1, <2>3 DEF OnItsWay, Vote
    <2> QED
      BY <2>2, <2>3 DEF OnItsWay
  <1> QED
    BY <1>0, <1>1, <1>5, <1>6, <1>7, <1>8 DEF Once

(* A block's number is one more than the length of its previous hash.      *)
LEMMA CreatedNumber ==
    ASSUME NEW ph \in Hash, NEW s \in Module, NEW r \in Module,
           NEW d \in Durations, NEW sg \in Durations, NEW p \in Nat
    PROVE  Len(create_block(ph, s, r, d, sg, p).hash) = Len(ph) + 1
  <1>1. create_block(ph, s, r, d, sg, p).hash = Append(ph, <<s, r, d, sg>>)
    <2>1. create_block(ph, s, r, d, sg, p) \in Block
      BY CreatedBlockType
    <2> QED
      BY <2>1 DEF create_block, create_block_hash, ContentOf
  <1>2. <<s, r, d, sg>> \in Content
    BY DEF Content
  <1> QED
    BY <1>1, <1>2, AppendProperties DEF Hash

(* Allocating a block: it is the last of its module.                       *)
LEMMA Allocated ==
    ASSUME TypeOK, NEW n \in Module, NEW b, b \in Block, Allocate(n, b)
    PROVE  /\ Len(heap[n]) \in Nat /\ DOMAIN heap[n] = 1..Len(heap[n])
           /\ DOMAIN heap'[n] = 1..(Len(heap[n]) + 1) /\ Len(heap'[n]) = Len(heap[n]) + 1
           /\ heap'[n][Len(heap[n]) + 1] = b
           /\ \A c \in DOMAIN heap[n] : /\ heap'[n][c] = heap[n][c]
                                        /\ listener'[n][c] = listener[n][c]
           /\ \A o \in Module \ {n} : heap'[o] = heap[o] /\ listener'[o] = listener[o]
  <1>1. /\ heap[n] \in Seq(Block) /\ listener[n] \in Seq(Listener)
        /\ Len(listener[n]) = Len(heap[n])
        /\ [pc |-> "created", needed |-> 0] \in Listener
    BY DEF TypeOK, ChainTypeOK, Listener
  <1>2. /\ heap'[n] = Append(heap[n], b)
        /\ listener'[n] = Append(listener[n], [pc |-> "created", needed |-> 0])
        /\ \A o \in Module \ {n} : heap'[o] = heap[o] /\ listener'[o] = listener[o]
    BY DEF Allocate, TypeOK, ChainTypeOK
  <1> QED
    BY <1>1, <1>2, AppendProperties, LenProperties

LEMMA AcceptBlockOnce ==
    ASSUME NEW s \in Module, AckOK(s), MaxDups = 0,
           NEW n \in Module, NEW m \in blocks, AcceptBlock(n, m)
    PROVE  Once(s)' /\ WayShrinks
  <1> DEFINE b == CopyOf(n, m)
             k == Len(heap[n])
  <1>0. TypeOK /\ Once(s) /\ OnlySeller(s)
    BY DEF AckOK, LoneInv, SellerInv
  <1>1. /\ b \in Block /\ Len(b.hash) = Len(m.previous_hash) + 1
    <2>1. /\ m.previous_hash \in Hash /\ m.seller \in Module /\ m.buyer \in Module
          /\ m.duration \in Durations /\ m.signature \in Durations
          /\ chain_head[n] \in Nat
      BY <1>0 DEF TypeOK, NetTypeOK, ChainTypeOK
    <2>2. b \in Block
      BY <2>1, CreatedBlockType DEF CopyOf
    <2>3. Len(b.hash) = Len(m.previous_hash) + 1
      BY <2>1, CreatedNumber DEF CopyOf
    <2> QED
      BY <2>2, <2>3
  <1>2. /\ m.to = n /\ Allocate(n, b) /\ blocks' = blocks \ {m}
        /\ UNCHANGED <<cast, acks, dups>>
        /\ validator'[n].block = k + 1 /\ validator'[n].phase = 1
        /\ validator'[n].pc = "check" /\ validator[n].pc = "recvmsg"
        /\ \A o \in Module \ {n} : validator'[o] = validator[o]
    BY <1>0, MaxDups = 0 DEF AcceptBlock, Received, Once, TypeOK, VoteTypeOK
  <1> HIDE DEF b
  <1>3. /\ k \in Nat /\ DOMAIN heap[n] = 1..k /\ DOMAIN heap'[n] = 1..(k + 1)
        /\ heap'[n][k + 1] = b /\ n # s
        /\ \A c \in DOMAIN heap[n] : heap'[n][c] = heap[n][c]
        /\ \A o \in Module \ {n} : heap'[o] = heap[o] /\ listener'[o] = listener[o]
    BY <1>0, <1>1, <1>2, Allocated DEF OnlySeller
  <1>4. \A c \in cast : c.from = n => Len(c.hash) # Len(b.hash)
    BY <1>0, <1>1, <1>2 DEF Once, NumbersNew
  <1>5. ASSUME NEW o \in Module
        PROVE  OnceEach(o)'
    <2>1. CASE o = n
      BY <1>0, <1>2, <1>3, <1>4, <2>1 DEF OnceEach, SameTrade, Once, AcksCast
    <2>2. CASE o # n
      BY <1>0, <1>2, <1>3, <2>2 DEF OnceEach, SameTrade, Once
    <2> QED
      BY <2>1, <2>2
  <1>6. AcksCast' /\ Numbered(s)'
    <2>1. \A o \in Module : \A c \in DOMAIN heap'[o] : Len(heap'[o][c].hash) <= Len(heap[s])
      <3>1. Len(b.hash) <= Len(heap[s])
        BY <1>0, <1>1 DEF Once, Numbered
      <3>2. \A c \in DOMAIN heap'[n] : c \in DOMAIN heap[n] \/ c = k + 1
        BY <1>3
      <3>3. \A c \in DOMAIN heap'[n] : Len(heap'[n][c].hash) <= Len(heap[s])
        BY <1>0, <1>3, <3>1, <3>2 DEF Once, Numbered
      <3> QED
        BY <1>0, <1>3, <3>3 DEF Once, Numbered
    <2> QED
      BY <1>0, <1>2, <1>3, <2>1 DEF Once, AcksCast, Numbered
  <1>7. NumbersNew'
    <2> SUFFICES ASSUME NEW l \in blocks', validator'[l.to].pc # "recvmsg"
                 PROVE  Len(heap'[l.to][validator'[l.to].block].hash)
                            # Len(l.previous_hash) + 1
      BY <1>0, <1>2 DEF NumbersNew, Once
    <2>1. l \in blocks /\ l # m /\ l.to \in Module
      BY <1>0, <1>2, VoteFacts
    <2>2. CASE l.to = n
      <3>1. Len(l.previous_hash) # Len(m.previous_hash)
        BY <1>0, <1>2, <2>1, <2>2 DEF Once, NumbersNew
      <3>2. Len(l.previous_hash) \in Nat /\ Len(m.previous_hash) \in Nat
        BY <1>0, <2>1, LenProperties DEF TypeOK, NetTypeOK, Hash
      <3>3. heap'[l.to][validator'[l.to].block] = b
        BY <1>2, <1>3, <2>2
      <3> QED
        BY <1>1, <3>1, <3>2, <3>3
    <2>3. CASE l.to # n
      BY <1>0, <1>2, <1>3, <2>1, <2>3 DEF Once, NumbersNew
    <2> QED
      BY <2>2, <2>3
  <1>8. WayShrinks
    <2> SUFFICES ASSUME NEW o \in Module, NEW v \in cast, OnItsWay(o, v)'
                 PROVE  OnItsWay(o, v)
      BY <1>2 DEF WayShrinks
    <2>1. v.from \in Module
      BY <1>0, VoteFacts
    <2>2. CASE validator'[v.from].pc = "bpa" /\ Vote(v.from)' = v
      BY <1>2, <1>3, <2>1, <2>2 DEF OnItsWay, Vote
    <2> QED
      BY <1>2, <2>2 DEF OnItsWay
  <1> QED
    BY <1>0, <1>2, <1>5, <1>6, <1>7, <1>8 DEF Once

(* The seller's next block has the next number: nobody can have worked on  *)
(* it or acknowledged it.                                                  *)
LEMMA DraftBlockOnce ==
    ASSUME NEW s \in Module, AckOK(s), NEW n \in Module, DraftBlock(n)
    PROVE  Once(s)' /\ WayShrinks
  <1> DEFINE k == Len(heap[s])
             ph == drafting[s].previous_hash
  <1>0. TypeOK /\ Once(s) /\ OnlySeller(s) /\ Linked(s)
    BY DEF AckOK, LoneInv, SellerInv
  <1>1. n = s
    BY <1>0 DEF DraftBlock, OnlySeller
  <1>2. k \in Nat /\ Len(ph) = k
    <2>1. k \in Nat
      BY <1>0, LenProperties DEF TypeOK, ChainTypeOK
    <2>2. ph = HashAt(s, k)
      BY <1>0, <1>1 DEF DraftBlock, Linked, Newest
    <2>3. CASE k = 0
      BY <2>2, <2>3, EmptySeq DEF HashAt, BaseHash
    <2>4. CASE k # 0
      BY <1>0, <2>1, <2>2, <2>4 DEF HashAt, Linked
    <2> QED
      BY <2>1, <2>3, <2>4
  <1>3. PICK td \in TradeData :
          /\ Allocate(s, create_block(ph, s, drafting[s].buyer,
                                      td.duration, td.signature, chain_head[s]))
          /\ blocks' = blocks \cup
                 {[to |-> r, previous_hash |-> ph,
                   seller |-> s, buyer |-> drafting[s].buyer,
                   duration |-> td.duration, signature |-> td.signature] : r \in Audience(s)}
    BY <1>1 DEF DraftBlock
  <1> DEFINE b == create_block(ph, s, drafting[s].buyer, td.duration, td.signature,
                               chain_head[s])
  <1>4. b \in Block /\ Len(b.hash) = k + 1
    <2>1. /\ ph \in Hash /\ drafting[s].buyer \in Module /\ chain_head[s] \in Nat
          /\ td.duration \in Durations /\ td.signature \in Durations
      BY <1>0, TradeDataType DEF TypeOK, TradeTypeOK, ChainTypeOK
    <2>2. b \in Block
      BY <2>1, CreatedBlockType
    <2>3. Len(b.hash) = Len(ph) + 1
      BY <2>1, CreatedNumber
    <2> QED
      BY <1>2, <2>2, <2>3
  <1>5. Allocate(s, b) /\ UNCHANGED <<validator, cast, acks, dups>>
    BY <1>1, <1>3 DEF DraftBlock, voteVars
  <1>6. \A m \in blocks' : m \in blocks \/ m.previous_hash = ph
    BY <1>3
  <1>7. \A m, l \in blocks' : m.previous_hash = ph /\ m \notin blocks
                              /\ l \notin blocks /\ l.to = m.to => l = m
    BY <1>3
  <1> HIDE DEF b, ph, k
  <1>8. /\ DOMAIN heap[s] = 1..k /\ DOMAIN heap'[s] = 1..(k + 1) /\ Len(heap'[s]) = k + 1
        /\ heap'[s][k + 1] = b
        /\ \A c \in DOMAIN heap[s] : heap'[s][c] = heap[s][c]
        /\ \A o \in Module \ {s} : heap'[o] = heap[o] /\ listener'[o] = listener[o]
    BY <1>0, <1>4, <1>5, Allocated DEF k
  <1>9. validator[s].pc = "recvmsg"
    BY <1>0 DEF OnlySeller
  <1>10. ASSUME NEW o \in Module
         PROVE  OnceEach(o)'
    BY <1>0, <1>5, <1>8, <1>9 DEF OnceEach, SameTrade, Once
  <1>11. Numbered(s)'
    <2>1. /\ \A m \in blocks : Len(m.previous_hash) + 1 <= k
          /\ \A m \in blocks : Len(m.previous_hash) \in Nat
          /\ \A c \in cast : Len(c.hash) <= k /\ Len(c.hash) \in Nat
          /\ \A o \in Module : \A c \in DOMAIN heap[o] :
                 Len(heap[o][c].hash) <= k /\ Len(heap[o][c].hash) \in Nat
      <3>1. \A o \in Module : \A c \in DOMAIN heap[o] : heap[o][c] \in Block
        BY <1>0, LenProperties, ElementOfSeq DEF TypeOK, ChainTypeOK
      <3>2. \A h \in Hash : Len(h) \in Nat
        BY LenProperties DEF Hash
      <3>3. /\ \A m \in blocks : m.previous_hash \in Hash
            /\ \A c \in cast : c.hash \in Hash
            /\ \A o \in Module : \A c \in DOMAIN heap[o] : heap[o][c].hash \in Hash
        BY <1>0, <3>1 DEF TypeOK, NetTypeOK, VoteTypeOK, Votes, Block
      <3> QED
        BY <1>0, <3>2, <3>3 DEF Once, Numbered, k
    <2>2. \A c \in DOMAIN heap'[s] : c \in DOMAIN heap[s] \/ c = k + 1
      BY <1>2, <1>8
    <2>3. \A m \in blocks' : Len(m.previous_hash) + 1 <= k + 1
      BY <1>2, <1>6, <2>1
    <2>4. \A o \in Module : \A c \in DOMAIN heap'[o] : Len(heap'[o][c].hash) <= k + 1
      <3>1. \A c \in DOMAIN heap'[s] : Len(heap'[s][c].hash) <= k + 1
        <4>1. \A c \in DOMAIN heap[s] : Len(heap'[s][c].hash) <= k + 1
          BY <1>2, <1>8, <2>1
        <4> QED
          BY <1>2, <1>4, <1>8, <2>2, <4>1
      <3>2. \A o \in Module \ {s} : \A c \in DOMAIN heap'[o] :
                Len(heap'[o][c].hash) <= k + 1
        BY <1>2, <1>8, <2>1
      <3> QED
        BY <3>1, <3>2
    <2>5. \A c \in cast' : Len(c.hash) <= k + 1
      BY <1>2, <1>5, <2>1
    <2> QED
      BY <1>8, <2>3, <2>4, <2>5 DEF Numbered
  <1>12. NumbersNew'
    <2>1. ASSUME NEW m \in blocks', m.previous_hash = ph
          PROVE  /\ \A l \in blocks : Len(l.previous_hash) # Len(m.previous_hash)
                 /\ \A c \in cast : Len(c.hash) # Len(m.previous_hash) + 1
                 /\ \A o \in Module : \A c \in DOMAIN heap[o] :
                        Len(heap[o][c].hash) # Len(m.previous_hash) + 1
      <3>1. \A i \in Int : i + 1 <= k => i # k
        BY <1>2
      <3>2. \A l \in blocks : Len(l.previous_hash) \in Int
        BY <1>0, LenProperties DEF TypeOK, NetTypeOK, Hash
      <3>3. \A i : i <= k => i # k + 1
        BY <1>2
      <3> QED
        BY <1>0, <1>2, <2>1, <3>1, <3>2, <3>3 DEF Once, Numbered, k
    <2>2. ASSUME NEW m \in blocks', NEW l \in blocks',
                 l.to = m.to, Len(l.previous_hash) = Len(m.previous_hash)
          PROVE  l = m
      <3>1. CASE m \in blocks /\ l \in blocks
        BY <1>0, <2>2, <3>1 DEF Once, NumbersNew
      <3>2. CASE m \notin blocks
        BY <1>6, <1>7, <2>1, <2>2, <3>2
      <3>3. CASE l \notin blocks
        BY <1>6, <1>7, <2>1, <2>2, <3>3
      <3> QED
        BY <3>1, <3>2, <3>3
    <2>3. ASSUME NEW m \in blocks'
          PROVE  \A c \in cast' : c.from = m.to => Len(c.hash) # Len(m.previous_hash) + 1
      BY <1>0, <1>5, <1>6, <2>1 DEF Once, NumbersNew
    <2>4. ASSUME NEW m \in blocks', validator[m.to].pc # "recvmsg"
          PROVE  Len(heap'[m.to][validator[m.to].block].hash) # Len(m.previous_hash) + 1
      <3>1. m.to \in Module
        BY <1>0, <1>3, VoteFacts DEF Audience
      <3>2. m.to # s
        BY <1>9, <2>4
      <3>3. validator[m.to].block \in DOMAIN heap[m.to]
        BY <1>0, <2>4, <3>1, ModuleFacts
      <3> QED
        BY <1>0, <1>6, <1>8, <2>1, <2>4, <3>1, <3>2, <3>3 DEF Once, NumbersNew
    <2> QED
      BY <1>5, <2>2, <2>3, <2>4 DEF NumbersNew
  <1>13. WayShrinks
    <2> SUFFICES ASSUME NEW o \in Module, NEW v \in cast, OnItsWay(o, v)'
                 PROVE  OnItsWay(o, v)
      BY <1>5 DEF WayShrinks
    <2>1. v.from \in Module
      BY <1>0, VoteFacts
    <2>2. CASE validator'[v.from].pc = "bpa" /\ Vote(v.from)' = v
      BY <1>5, <1>8, <1>9, <2>1, <2>2 DEF OnItsWay, Vote
    <2> QED
      BY <1>5, <2>2 DEF OnItsWay
  <1> QED
    BY <1>0, <1>5, <1>10, <1>11, <1>12, <1>13 DEF Once, AcksCast

(* A deadline changes a hash, not its length; a vote that is counted but   *)
(* not yet sent is then sent with the new hash (main.c:304, 661-667).      *)
LEMMA AppendBlockOnce ==
    ASSUME NEW s \in Module, AckOK(s), NEW n \in Module, NEW b \in DOMAIN listener[n],
           AppendBlock(n, b)
    PROVE  Once(s)' /\ WayShrinks
  <1> DEFINE d == adjusted_duration(n, listener[n][b].needed)
             raw == [heap[n][b] EXCEPT !.duration = d]
             new == create_block_hash(raw)
  <1>0. TypeOK /\ Once(s) /\ LoneOK(n)
    BY DEF AckOK, LoneInv
  <1>1. /\ b \in 1..Len(heap[n]) /\ heap[n][b] \in Block /\ listener[n][b] \in Listener
        /\ heap \in [Module -> Seq(Block)] /\ heap[n] \in Seq(Block)
        /\ Len(heap[n]) \in Nat /\ DOMAIN heap[n] = 1..Len(heap[n])
    BY <1>0, PointerType, LenProperties DEF TypeOK, ChainTypeOK
  <1>2. Len(new.hash) = Len(heap[n][b].hash)
    <2>1. d \in Durations
      BY <1>1, AdjustedDurationType DEF Listener
    <2>2. raw \in Block /\ raw.previous_hash = heap[n][b].previous_hash
      BY <1>1, <2>1 DEF Block
    <2> HIDE DEF raw
    <2>3. new.hash = Append(heap[n][b].previous_hash, ContentOf(raw))
      BY <2>2, HashedBlockType
    <2>4. heap[n][b].hash = Append(heap[n][b].previous_hash, ContentOf(heap[n][b]))
      BY <1>0, <1>1 DEF LoneOK, Hashed
    <2>5. /\ ContentOf(raw) \in Content /\ ContentOf(heap[n][b]) \in Content
          /\ heap[n][b].previous_hash \in Seq(Content)
      BY <1>1, <2>2 DEF Block, ContentOf, Content, Hash
    <2> QED
      BY <2>3, <2>4, <2>5, AppendProperties
  <1>3. /\ heap' = [heap EXCEPT ![n][b] = new] /\ listener[n][b].pc = "listening"
        /\ UNCHANGED <<validator, cast, acks, blocks, dups>>
    BY DEF AppendBlock, voteVars, netVars
  <1> HIDE DEF new
  <1>4. /\ DOMAIN heap'[n] = DOMAIN heap[n] /\ Len(heap'[n]) = Len(heap[n])
        /\ heap'[n][b] = new
        /\ \A c \in DOMAIN heap[n] : c # b => heap'[n][c] = heap[n][c]
        /\ \A o \in Module \ {n} : heap'[o] = heap[o]
    BY <1>1, <1>3
  <1>5. /\ listener'[n][b].pc = "appended"
        /\ \A c \in DOMAIN listener[n] : c # b => listener'[n][c] = listener[n][c]
        /\ \A o \in Module \ {n} : listener'[o] = listener[o]
    BY <1>0 DEF AppendBlock, TypeOK, ChainTypeOK
  <1>6. \A o \in Module : /\ DOMAIN heap'[o] = DOMAIN heap[o]
                          /\ Len(heap'[o]) = Len(heap[o])
                          /\ \A c \in DOMAIN heap[o] : Len(heap'[o][c].hash) = Len(heap[o][c].hash)
    BY <1>2, <1>4
  <1>7. \A o \in Module : validator[o].pc # "recvmsg" =>
            /\ validator[o].block \in DOMAIN heap[o]
            /\ validator[o].block \in DOMAIN listener[o]
    BY <1>0, ModuleFacts
  <1>8. ASSUME NEW o \in Module
        PROVE  OnceEach(o)'
    <2> SUFFICES ASSUME validator[o].pc # "recvmsg" PROVE OnceEach(o)'
      BY <1>3 DEF OnceEach
    <2>1. \A h : SameTrade(o, h)' <=> SameTrade(o, h)
      BY <1>3, <1>6, <1>7 DEF SameTrade
    <2>2. listener'[o][validator[o].block].pc = "listening" =>
              /\ listener[o][validator[o].block].pc = "listening"
              /\ heap'[o][validator[o].block].hash = heap[o][validator[o].block].hash
      BY <1>4, <1>5, <1>7
    <2>3. /\ \A c \in cast : c.from = o /\ SameTrade(o, c.hash)' =>
                 \/ c.phase < validator[o].phase
                 \/ /\ validator[o].pc = "bpa" /\ c.phase = validator[o].phase
                    /\ listener'[o][validator[o].block].pc = "listening" =>
                           c.hash = heap'[o][validator[o].block].hash
          /\ \A m \in acks : m.vote.from = o /\ SameTrade(o, m.vote.hash)' =>
                 m.vote.phase < validator[o].phase
      BY <1>0, <2>1, <2>2 DEF Once, OnceEach
    <2> QED
      BY <1>3, <2>3 DEF OnceEach, SameTrade
  <1>9. AcksCast' /\ Numbered(s)'
    BY <1>0, <1>3, <1>6 DEF Once, AcksCast, Numbered
  <1>10. NumbersNew'
    <2> SUFFICES ASSUME NEW m \in blocks, validator[m.to].pc # "recvmsg"
                 PROVE  Len(heap'[m.to][validator[m.to].block].hash)
                            # Len(m.previous_hash) + 1
      BY <1>0, <1>3 DEF NumbersNew, Once
    <2>1. m.to \in Module
      BY <1>0, VoteFacts
    <2> QED
      BY <1>0, <1>6, <1>7, <2>1 DEF Once, NumbersNew
  <1>11. WayShrinks
    <2> SUFFICES ASSUME NEW o \in Module, NEW v \in cast, OnItsWay(o, v)'
                 PROVE  OnItsWay(o, v)
      BY <1>3 DEF WayShrinks
    <2>1. v.from \in Module /\ v = [from |-> v.from, phase |-> v.phase, hash |-> v.hash]
          /\ v.phase \in Nat
      BY <1>0, VoteFacts
    <2>2. CASE [to |-> o, vote |-> v] \in acks
      BY <2>2 DEF OnItsWay
    <2>3. CASE /\ validator[v.from].pc = "bpa" /\ Vote(v.from)' = v
               /\ v.from = n /\ validator[n].block = b
      <3>1. v.phase = validator[n].phase /\ v.hash = heap'[n][b].hash
        BY <1>3, <2>3 DEF Vote
      <3>2. SameTrade(n, v.hash)
        BY <1>2, <1>4, <2>3, <3>1 DEF SameTrade
      <3>3. OnceEach(n)
        BY <1>0 DEF Once
      <3>4. ~(v.phase < validator[n].phase)
        BY <2>1, <3>1
      <3>5. v.hash = heap[n][b].hash
        BY <1>3, <2>3, <3>2, <3>3, <3>4 DEF OnceEach
      <3> QED
        BY <2>1, <2>3, <3>1, <3>5 DEF OnItsWay, Vote
    <2>4. CASE /\ validator[v.from].pc = "bpa" /\ Vote(v.from)' = v
               /\ ~(v.from = n /\ validator[n].block = b)
      <3>1. heap'[v.from][validator[v.from].block] = heap[v.from][validator[v.from].block]
        BY <1>4, <1>7, <2>1, <2>4
      <3>2. Vote(v.from)' = Vote(v.from)
        BY <1>3, <3>1 DEF Vote
      <3> QED
        BY <2>4, <3>2 DEF OnItsWay
    <2> QED
      BY <1>3, <2>2, <2>3, <2>4 DEF OnItsWay
  <1> QED
    BY <1>0, <1>3, <1>8, <1>9, <1>10, <1>11 DEF Once

LEMMA OnceStep ==
    ASSUME NEW s \in Module, AckOK(s), MaxDups = 0, [Next]_vars
    PROVE  Once(s)' /\ WayShrinks
  <1>1. CASE UNCHANGED vars
    <2>1. Calm
      BY <1>1 DEF Calm, CalmAt, vars, chainVars, voteVars, netVars
    <2> QED
      BY <2>1, CalmKeeps
  <1>2. CASE Next
    <2> PICK n \in Module :
            \/ LasetListenerTask(n)
            \/ BlockchainListenerTask(n)
            \/ \E m \in acks : RecvAck(n, m)
            \/ \E b \in DOMAIN listener[n] : PhaseListenerTask(n, b)
      BY <1>2 DEF Next
    <2>1. \/ Calm \/ DraftBlock(n)
          \/ \E m \in blocks : AcceptBlock(n, m)
          \/ TallyPhase(n) \/ BroadcastAck(n)
          \/ \E b \in DOMAIN listener[n] : AppendBlock(n, b)
      BY CalmSteps, MaxDups = 0
         DEF LasetListenerTask, BlockchainListenerTask, PhaseListenerTask
    <2> QED
      BY <2>1, CalmKeeps, DraftBlockOnce, AcceptBlockOnce, TallyPhaseOnce, BroadcastAckOnce,
         AppendBlockOnce, MaxDups = 0
  <1> QED
    BY <1>1, <1>2

-----------------------------------------------------------------------------
(***************************************************************************)
(* What the steps do to the counts                                         *)
(***************************************************************************)

(* The modules counted are finitely many, and none of them is forgotten.   *)
LEMMA CountGrows ==
    ASSUME TypeOK, WayShrinks, NEW n \in Module, NEW h, NEW p
    PROVE  /\ Counted(n, h, p) \subseteq Counted(n, h, p)'
           /\ IsFiniteSet(Counted(n, h, p)')
           /\ Cardinality(Counted(n, h, p)) \in Nat
           /\ Cardinality(Counted(n, h, p)') \in Nat
           /\ Cardinality(Counted(n, h, p)) <= Cardinality(Counted(n, h, p)')
  <1>1. ASSUME NEW o \in Counted(n, h, p)
        PROVE  o \in Counted(n, h, p)'
    <2> DEFINE v == [from |-> o, phase |-> p, hash |-> h]
    <2>1. v \in cast /\ v \in cast'
      BY DEF Counted, Voters, WayShrinks
    <2>2. OnItsWay(n, v)' => OnItsWay(n, v)
      BY <2>1 DEF WayShrinks
    <2> QED
      BY <2>1, <2>2 DEF Counted, Voters
  <1>2. Counted(n, h, p) \subseteq Module /\ Counted(n, h, p)' \subseteq Module
    BY DEF Counted, Voters
  <1>3. IsFiniteSet(Counted(n, h, p)) /\ IsFiniteSet(Counted(n, h, p)')
    BY <1>2, FS_Subset, ModuleAssumption DEF ModuleAssumption
  <1> QED
    BY <1>1, <1>3, FS_Subset, FS_CardinalityType

(* A count that does not rise stays backed.                                *)
LEMMA TallyKept ==
    ASSUME TypeOK, TypeOK', WayShrinks, NEW n \in Module, TallyBacked(n),
           \A b \in Lone(n)' : listener'[n][b].pc = "listening" =>
               /\ b \in Lone(n) /\ listener[n][b].pc = "listening"
               /\ heap'[n][b].hash = heap[n][b].hash,
           phase_acceptance_array'[n] = phase_acceptance_array[n]
    PROVE  TallyBacked(n)'
  <1> SUFFICES ASSUME NEW b \in Lone(n)', listener'[n][b].pc = "listening", NEW p \in Phase
               PROVE  (phase_acceptance_array[n][p]
                          <= Cardinality(Counted(n, heap[n][b].hash, p)))'
    BY DEF TallyBacked
  <1> DEFINE h == heap[n][b].hash
  <1>1. phase_acceptance_array[n][p] <= Cardinality(Counted(n, h, p))
    BY DEF TallyBacked
  <1>2. heap'[n][b].hash = h
    OBVIOUS
  <1>3. phase_acceptance_array[n][p] \in Nat
    BY DEF TypeOK, VoteTypeOK
  <1> QED
    BY <1>1, <1>2, <1>3, CountGrows

(* A new block is not listened to yet; if it is live, no other is lone.    *)
LEMMA NewBlockBacked ==
    ASSUME TypeOK, TypeOK', WayShrinks, NEW n \in Module, TallyBacked(n), LiveApart(n)',
           NEW b \in Block, Allocate(n, b), disturbed[n] \subseteq disturbed'[n],
           UNCHANGED phase_acceptance_array
    PROVE  TallyBacked(n)'
  <1> DEFINE new == Len(heap[n]) + 1
  <1>1. /\ DOMAIN listener'[n] = 1..new /\ new \in Nat
        /\ Live(n)' = {c \in 1..new : listener'[n][c].pc # "deleted"}
    <2>1. /\ listener' = [listener EXCEPT ![n] = Append(@, [pc |-> "created", needed |-> 0])]
          /\ listener \in [Module -> Seq(Listener)] /\ Len(listener[n]) = Len(heap[n])
          /\ Len(heap[n]) \in Nat
      BY ModuleFacts DEF Allocate, TypeOK, ChainTypeOK
    <2>2. listener'[n] = Append(listener[n], [pc |-> "created", needed |-> 0])
      BY <2>1
    <2>3. DOMAIN listener'[n] = 1..new /\ new \in Nat
      BY <2>1, <2>2
    <2> QED
      BY <2>3 DEF Live
  <1>2. listener'[n][new].pc = "created"
    BY ModuleFacts DEF Allocate, TypeOK, ChainTypeOK
  <1>3. new \in Live(n)'
    BY <1>1, <1>2
  <1>4. \A c \in Lone(n)' : c = new
    BY <1>3 DEF LiveApart, Lone
  <1> QED
    BY <1>2, <1>4, TallyKept

(* A listener that has passed its deadline is alive until it is deleted.   *)
LEMMA DeadlineBacked ==
    ASSUME TypeOK, TypeOK', WayShrinks, NEW n \in Module, TallyBacked(n), LiveApart(n)',
           NEW b \in DOMAIN listener[n], AppendBlock(n, b)
    PROVE  TallyBacked(n)'
  <1>1. /\ listener'[n][b].pc = "appended" /\ b \in DOMAIN listener'[n]
        /\ phase_acceptance_array' = phase_acceptance_array
    BY DEF AppendBlock, TypeOK, ChainTypeOK, voteVars
  <1>2. \A c \in Lone(n)' : c = b
    BY <1>1 DEF LiveApart, Lone, Live
  <1> QED
    BY <1>1, <1>2, TallyKept

LEMMA ClosedBacked ==
    ASSUME TypeOK, TypeOK', WayShrinks, NEW n \in Module, TallyBacked(n),
           NEW b \in DOMAIN listener[n], CloseListener(n, b)
    PROVE  TallyBacked(n)'
  <1>1. /\ DOMAIN listener'[n] = DOMAIN listener[n] /\ listener'[n][b].pc = "deleted"
        /\ \A c \in DOMAIN listener[n] : c # b => listener'[n][c] = listener[n][c]
        /\ UNCHANGED <<heap, disturbed, phase_acceptance_array>>
    BY DEF CloseListener, TypeOK, ChainTypeOK, voteVars
  <1> QED
    BY <1>1, TallyKept DEF Lone, Live

(* The tally is cleared under a lone listener only when it starts.         *)
LEMMA StartBacked ==
    ASSUME TypeOK, TypeOK', WayShrinks, NEW n \in Module, LoneOK(n),
           NEW b \in DOMAIN listener[n], StartListening(n, b)
    PROVE  TallyBacked(n)'
  <1>1. \A c \in Lone(n)' : c \in Lone(n)
    <2>1. /\ DOMAIN listener'[n] = DOMAIN listener[n] /\ listener[n][b].pc = "created"
          /\ \A c \in DOMAIN listener[n] : c # b => listener'[n][c] = listener[n][c]
          /\ UNCHANGED disturbed
      BY DEF StartListening, TypeOK, ChainTypeOK
    <2> QED
      BY <2>1 DEF Lone, Live
  <1>2. \A c \in Lone(n)', p \in Phase : phase_acceptance_array'[n][p] = 0
    BY <1>1, StartsEmpty
  <1> SUFFICES ASSUME NEW c \in Lone(n)', NEW p \in Phase
               PROVE  (phase_acceptance_array[n][p]
                          <= Cardinality(Counted(n, heap[n][c].hash, p)))'
    BY DEF TallyBacked
  <1> QED
    BY <1>2, CountGrows

(***************************************************************************)
(* A count that rises by one, with a module that was not counted before.   *)
(***************************************************************************)
LEMMA OneMore ==
    ASSUME TypeOK, TypeOK', WayShrinks, NEW n \in Module, TallyBacked(n),
           UNCHANGED <<heap, listener, disturbed>>,
           NEW c \in Lone(n), NEW q \in Phase, NEW o \in Module,
           LiveApart(n), listener[n][c].pc = "listening",
           phase_acceptance_array' = Tallied(n, q), NEW h, h = heap[n][c].hash,
           o \notin Counted(n, h, q), o \in Counted(n, h, q)'
    PROVE  TallyBacked(n)'
  <1> SUFFICES ASSUME NEW b \in Lone(n)', listener'[n][b].pc = "listening", NEW p \in Phase
               PROVE  (phase_acceptance_array[n][p]
                          <= Cardinality(Counted(n, heap[n][b].hash, p)))'
    BY DEF TallyBacked
  <1>1. b = c /\ heap'[n][b].hash = h
    BY DEF LiveApart, Lone, Live
  <1>2. phase_acceptance_array[n][p] <= Cardinality(Counted(n, h, p))
    BY DEF TallyBacked
  <1>3. /\ phase_acceptance_array \in [Module -> [Phase -> Nat]]
        /\ phase_acceptance_array[n][p] \in Nat
    BY DEF TypeOK, VoteTypeOK
  <1>4. CASE p # q
    <2>1. phase_acceptance_array'[n][p] = phase_acceptance_array[n][p]
      BY <1>3, <1>4 DEF Tallied
    <2> QED
      BY <1>1, <1>2, <1>3, <2>1, CountGrows
  <1>5. CASE p = q
    <2> DEFINE S == Counted(n, h, p)
               T == Counted(n, h, p)'
    <2>1. phase_acceptance_array'[n][p] = phase_acceptance_array[n][p] + 1
      BY <1>3, <1>5 DEF Tallied
    <2>2. /\ S \subseteq T /\ IsFiniteSet(T) /\ o \notin S /\ o \in T
          /\ Cardinality(S) \in Nat /\ Cardinality(T) \in Nat
      BY <1>1, <1>5, CountGrows
    <2> HIDE DEF S, T
    <2>3. IsFiniteSet(S) /\ Cardinality(S \cup {o}) = Cardinality(S) + 1
      BY <2>2, FS_Subset, FS_AddElement
    <2>4. Cardinality(S \cup {o}) <= Cardinality(T)
      BY <2>2, FS_Subset
    <2>5. Cardinality(S) + 1 <= Cardinality(T)
      BY <2>3, <2>4
    <2>6. phase_acceptance_array'[n][p] <= Cardinality(T)
      BY <1>2, <1>3, <2>1, <2>2, <2>5 DEF S
    <2> QED
      BY <1>1, <2>6 DEF T
  <1> QED
    BY <1>4, <1>5

(* A validator counts a phase of the lone block once (main.c:654).         *)
LEMMA TallyPhaseBacked ==
    ASSUME TypeOK, TypeOK', WayShrinks, NEW n \in Module, LoneOK(n), OnceEach(n),
           TallyBacked(n), TallyPhase(n)
    PROVE  TallyBacked(n)'
  <1>1. /\ phase_acceptance_array' = Tallied(n, validator[n].phase)
        /\ validator[n].pc = "rlc"
        /\ cast' = cast \cup {Vote(n)} /\ UNCHANGED <<heap, listener, disturbed>>
    BY DEF TallyPhase, chainVars
  <1> SUFFICES ASSUME NEW c \in Lone(n), listener[n][c].pc = "listening"
               PROVE  TallyBacked(n)'
    BY <1>1 DEF TallyBacked, Lone, Live
  <1> SUFFICES ASSUME NEW h, h = heap[n][c].hash, NEW q, q = validator[n].phase
               PROVE  TallyBacked(n)'
    OBVIOUS
  <1>2. q \in Phase /\ Vote(n) = [from |-> n, phase |-> q, hash |-> h]
    BY <1>1 DEF TypeOK, ValidatorOK, LoneOK, WorksOn, Vote
  <1>3. Vote(n) \notin cast
    BY <1>1, FreshVote
  <1>4. n \notin Counted(n, h, q)
    BY <1>2, <1>3 DEF Counted, Voters
  <1>5. n \in Counted(n, h, q)'
    BY <1>1, <1>2 DEF Counted, Voters
  <1>6. LiveApart(n)
    BY DEF LoneOK
  <1> QED
    BY <1>1, <1>2, <1>4, <1>5, <1>6, OneMore

(* An ack that a lone listener counts is received for the first time, and  *)
(* will not be sent again (main.c:279-283).                                *)
LEMMA RecvAckBacked ==
    ASSUME TypeOK, TypeOK', WayShrinks, NEW n \in Module, LoneOK(n), TallyBacked(n),
           AcksCast, \A o \in Module : OnceEach(o), MaxDups = 0, dups = 0,
           NEW m \in acks, RecvAck(n, m)
    PROVE  TallyBacked(n)'
  <1>1. /\ phase_acceptance_array' = CountedFor(n, m.vote) /\ acks' = acks \ {m}
        /\ port[n] # 0 /\ listener[n][port[n]].pc = "listening" /\ m.to = n
        /\ UNCHANGED <<heap, listener, disturbed, validator, cast>>
    BY DEF RecvAck, Received, chainVars, NoBlock
  <1> SUFFICES ASSUME NEW c \in Lone(n), listener[n][c].pc = "listening"
               PROVE  TallyBacked(n)'
    BY <1>1 DEF TallyBacked, Lone, Live
  <1> SUFFICES ASSUME NEW h, h = heap[n][c].hash
               PROVE  TallyBacked(n)'
    OBVIOUS
  <1> DEFINE o == m.vote.from
             q == m.vote.phase
             v == [from |-> o, phase |-> q, hash |-> h]
  <1>2. port[n] = c
    BY <1>1, PortIsLone
  <1>3. CASE m.vote.hash # h
    <2>1. phase_acceptance_array' = phase_acceptance_array
      BY <1>1, <1>2, <1>3 DEF CountedFor
    <2> QED
      BY <1>1, <2>1, TallyKept DEF Lone, Live
  <1>4. CASE m.vote.hash = h
    <2>1. phase_acceptance_array' = Tallied(n, q)
      BY <1>1, <1>2, <1>4 DEF CountedFor
    <2>2. /\ o \in Module /\ q \in Phase /\ q \in Nat /\ m.vote = v
          /\ m = [to |-> n, vote |-> v]
      <3>1. /\ m.vote \in Votes /\ m = [to |-> m.to, vote |-> m.vote]
            /\ q \in Nat /\ o \in Module
        BY VoteFacts
      <3>2. q \in Phase /\ m.vote = [from |-> m.vote.from, phase |-> m.vote.phase,
                                     hash |-> m.vote.hash]
        BY <3>1 DEF Votes
      <3> QED
        BY <1>1, <1>4, <3>1, <3>2
    <2>3. v \in cast /\ v \in cast' /\ o # n
      BY <1>1, <2>2 DEF AcksCast
    <2>4. OnItsWay(n, v)
      BY <2>2 DEF OnItsWay
    <2>5. ~OnItsWay(n, v)'
      <3>1. [to |-> n, vote |-> v] \notin acks'
        BY <1>1, <2>2
      <3>2. ASSUME validator'[o].pc = "bpa", Vote(o)' = v
            PROVE  FALSE
        <4>1. /\ validator[o].pc = "bpa" /\ q = validator[o].phase
              /\ h = heap[o][validator[o].block].hash
          BY <1>1, <3>2 DEF Vote
        <4>2. SameTrade(o, m.vote.hash)
          BY <1>4, <4>1 DEF SameTrade
        <4>3. m.vote.phase < validator[o].phase
          BY <2>2, <4>1, <4>2 DEF OnceEach
        <4> QED
          BY <2>2, <4>1, <4>3
      <3> QED
        BY <3>1, <3>2 DEF OnItsWay
    <2>6. o \notin Counted(n, h, q)
      BY <2>3, <2>4 DEF Counted
    <2>7. o \in Counted(n, h, q)'
      BY <2>2, <2>3, <2>5 DEF Counted, Voters
    <2>8. LiveApart(n)
      BY DEF LoneOK
    <2> HIDE DEF o, q, v
    <2> QED
      BY <1>1, <2>1, <2>2, <2>6, <2>7, <2>8, OneMore
  <1> QED
    BY <1>3, <1>4

(* A step that leaves the module's own state alone.                        *)
LEMMA StillBacked ==
    ASSUME TypeOK, TypeOK', WayShrinks, NEW n \in Module, TallyBacked(n), Still(n)
    PROVE  TallyBacked(n)'
  <1>1. \A b \in Lone(n)' : b \in Lone(n)
    BY DEF Still, Lone, Live
  <1> QED
    BY <1>1, TallyKept DEF Still

(* The module that acts.                                                   *)
LEMMA OwnBacked ==
    ASSUME TypeOK, TypeOK', WayShrinks, NEW s \in Module, Once(s), MaxDups = 0,
           NEW n \in Module, LoneOK(n), LoneOK(n)', TallyBacked(n),
           \/ LasetListenerTask(n)
           \/ BlockchainListenerTask(n)
           \/ \E m \in acks : RecvAck(n, m)
           \/ \E b \in DOMAIN listener[n] : PhaseListenerTask(n, b)
    PROVE  TallyBacked(n)'
  <1>0. OnceEach(n) /\ LiveApart(n)'
    BY DEF Once, LoneOK
  <1>1. CASE \/ \E m \in Module : LearnKey(n, m) \/ AcceptTrade(n, m)
             \/ \E m \in blocks : RejectBlock(n, m)
             \/ CheckPhase(n) \/ RefusePhase(n) \/ BroadcastAck(n)
    <2>1. UNCHANGED <<heap, listener, disturbed, phase_acceptance_array>>
      BY <1>1 DEF LearnKey, AcceptTrade, RejectBlock, CheckPhase, RefusePhase, BroadcastAck,
                  chainVars, voteVars
    <2> QED
      BY <2>1, TallyKept DEF Lone, Live
  <1>2. CASE DraftBlock(n)
    <2>1. PICK td \in TradeData :
            Allocate(n, create_block(drafting[n].previous_hash, n, drafting[n].buyer,
                                     td.duration, td.signature, chain_head[n]))
      BY <1>2 DEF DraftBlock
    <2> DEFINE b == create_block(drafting[n].previous_hash, n, drafting[n].buyer,
                                 td.duration, td.signature, chain_head[n])
    <2>2. b \in Block
      <3>1. /\ drafting[n].previous_hash \in Hash /\ drafting[n].buyer \in Module
            /\ chain_head[n] \in Nat /\ td.duration \in Durations /\ td.signature \in Durations
        BY TradeDataType DEF TypeOK, TradeTypeOK, ChainTypeOK
      <3> QED
        BY <3>1, CreatedBlockType
    <2>3. disturbed[n] \subseteq disturbed'[n] /\ UNCHANGED phase_acceptance_array
      BY <1>2 DEF DraftBlock, Disturbs, voteVars, TypeOK, ChainTypeOK
    <2> QED
      BY <1>0, <2>1, <2>2, <2>3, NewBlockBacked
  <1>3. ASSUME NEW m \in blocks, AcceptBlock(n, m)
        PROVE  TallyBacked(n)'
    <2>1. CopyOf(n, m) \in Block
      <3>1. /\ m.previous_hash \in Hash /\ m.seller \in Module /\ m.buyer \in Module
            /\ m.duration \in Durations /\ m.signature \in Durations /\ chain_head[n] \in Nat
        BY DEF TypeOK, NetTypeOK, ChainTypeOK
      <3> QED
        BY <3>1, CreatedBlockType DEF CopyOf
    <2>2. /\ Allocate(n, CopyOf(n, m)) /\ UNCHANGED phase_acceptance_array
          /\ disturbed[n] \subseteq disturbed'[n]
      BY <1>3 DEF AcceptBlock, Disturbs, TypeOK, ChainTypeOK
    <2> QED
      BY <1>0, <2>1, <2>2, NewBlockBacked
  <1>4. CASE TallyPhase(n)
    BY <1>0, <1>4, TallyPhaseBacked
  <1>5. ASSUME NEW m \in acks, RecvAck(n, m)
        PROVE  TallyBacked(n)'
    BY <1>5, RecvAckBacked, MaxDups = 0 DEF Once
  <1>6. ASSUME NEW b \in DOMAIN listener[n], PhaseListenerTask(n, b)
        PROVE  TallyBacked(n)'
    BY <1>0, <1>6, StartBacked, DeadlineBacked, ClosedBacked DEF PhaseListenerTask
  <1> QED
    BY <1>1, <1>2, <1>3, <1>4, <1>5, <1>6 DEF LasetListenerTask, BlockchainListenerTask

LEMMA AckStep ==
    ASSUME NEW s \in Module, Seller = {s}, MaxDups = 0, AckInv(s), [Next]_vars
    PROVE  AckInv(s)'
  <1>1. AckOK(s) /\ LoneInv /\ SellerInv(s) /\ Once(s) /\ TypeOK
    BY DEF AckInv, AckOK, LoneInv
  <1>2. LoneInv' /\ SellerInv(s)' /\ Once(s)' /\ WayShrinks /\ TypeOK'
    BY <1>1, LoneStep, SellerStep, OnceStep, TypeNext
  <1>3. \A n \in Module : LoneOK(n) /\ LoneOK(n)' /\ TallyBacked(n)
    BY <1>1, <1>2 DEF LoneInv, AckInv
  <1>4. ASSUME NEW n \in Module
        PROVE  TallyBacked(n)'
    <2>1. CASE UNCHANGED vars
      <3>1. Still(n)
        BY <2>1 DEF Still, vars, chainVars, voteVars
      <3> QED
        BY <1>1, <1>2, <1>3, <3>1, StillBacked
    <2>2. CASE Next
      <3> PICK a \in Module :
              \/ LasetListenerTask(a)
              \/ BlockchainListenerTask(a)
              \/ \E m \in acks : RecvAck(a, m)
              \/ \E b \in DOMAIN listener[a] : PhaseListenerTask(a, b)
        BY <2>2 DEF Next
      <3>1. CASE a = n
        BY <1>1, <1>2, <1>3, <3>1, OwnBacked, MaxDups = 0
      <3>2. CASE a # n
        BY <1>1, <1>2, <1>3, <3>2, OthersStill, StillBacked
      <3> QED
        BY <3>1, <3>2
    <2> QED
      BY <2>1, <2>2
  <1> QED
    BY <1>2, <1>4 DEF AckInv, AckOK

LEMMA AckInit ==
    ASSUME NEW s \in Module, Seller = {s}, Init
    PROVE  AckInv(s)
  <1>1. LoneInv
    BY LoneInit
  <1>2. SellerInv(s)
    <2>1. /\ Newest(s) = 0 /\ DOMAIN listener[s] = {} /\ chain_head[s] = 0
          /\ Len(heap[s]) = 0
      BY EmptySeq DEF Init, Newest, NoBlock
    <2>2. OnlySeller(s) /\ TakingTurns(s) /\ Linked(s)
      BY <2>1 DEF Init, OnlySeller, TakingTurns, Pending, Busy, Linked
    <2> QED
      BY <2>2, TypeInit DEF SellerInv
  <1>3. Once(s)
    BY EmptySeq DEF Init, Once, AcksCast, Numbered, NumbersNew, OnceEach
  <1>4. \A n \in Module : TallyBacked(n)
    BY EmptySeq DEF Init, TallyBacked, Lone, Live
  <1> QED
    BY <1>1, <1>2, <1>3, <1>4 DEF AckInv, AckOK

(* With one seller and no duplicated datagram, every acknowledgement a     *)
(* lone listener has tallied was made, for its block and that phase, by a  *)
(* module of its own: nothing is counted twice and nothing leaks in from   *)
(* another block (main.c:279-283, 654).                                    *)
THEOREM LoneCountsOnce ==
    ASSUME NEW s \in Module, Seller = {s}, MaxDups = 0
    PROVE  Spec => []AcksBacked
  <1>1. Init => AckInv(s)
    BY AckInit
  <1>2. AckInv(s) /\ [Next]_vars => AckInv(s)'
    BY AckStep, MaxDups = 0
  <1>3. AckInv(s) => AcksBacked
    <2> SUFFICES ASSUME AckInv(s), NEW n \in Module, NEW b \in DOMAIN listener[n],
                        Listening(n, b), Alone(n, b), NEW p \in Phase
                 PROVE  phase_acceptance_array[n][p]
                            <= Cardinality(Voters(heap[n][b].hash, p))
      BY DEF AcksBacked
    <2> DEFINE C == Counted(n, heap[n][b].hash, p)
               V == Voters(heap[n][b].hash, p)
    <2>1. phase_acceptance_array[n][p] <= Cardinality(C)
      BY DEF AckInv, TallyBacked, Lone, Live, Listening, Alone
    <2>2. C \subseteq V /\ V \subseteq Module
      BY DEF Counted, Voters
    <2>3. phase_acceptance_array[n][p] \in Nat
      BY DEF AckInv, AckOK, LoneInv, TypeOK, VoteTypeOK
    <2> HIDE DEF C, V
    <2>4. IsFiniteSet(V) /\ IsFiniteSet(C)
      BY <2>2, FS_Subset, ModuleAssumption DEF ModuleAssumption
    <2>5. Cardinality(C) \in Nat /\ Cardinality(V) \in Nat /\ Cardinality(C) <= Cardinality(V)
      BY <2>2, <2>4, FS_Subset, FS_CardinalityType
    <2> QED
      BY <2>1, <2>3, <2>5 DEF V
  <1> QED
    BY <1>1, <1>2, <1>3, PTL DEF Spec
=============================================================================
