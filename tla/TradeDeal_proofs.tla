--------------------------- MODULE TradeDeal_proofs ---------------------------
(***************************************************************************)
(* Proofs about TradeDeal: its types, and what stands behind a block that  *)
(* another module accepts.                                                 *)
(***************************************************************************)
EXTENDS TradeDeal, FiniteSetTheorems, TLAPS

(* Seller s has broadcast a deal with this signature.                      *)
Offered(s, g) == \E d \in deals : d.seller = s /\ d.signature = g

(* A seller drafts a block for a module that has answered it.              *)
DraftingOK ==
    \A n \in Module : drafting[n].pc # "recvmsg" =>
        [to |-> n, buyer |-> drafting[n].buyer, key |-> drafting[n].buyer_key] \in accepts

(* A deal is broadcast before its fields are stored: whatever signature    *)
(* trade_data holds, or will be given, is that of a deal.                  *)
StoringOK ==
    \A n \in Module : broadcaster[n].pc \in {"price", "duration", "signature"} =>
        /\ broadcaster[n].terms \in Terms
        /\ Offered(n, broadcaster[n].signature)
StoredOK ==
    \A n \in Module :
        trade_data[n].signature = Blank \/ Offered(n, trade_data[n].signature)

BlocksOK ==
    \A b \in blocks :
        /\ b.signature = Blank \/ Offered(b.seller, b.signature)
        /\ [to |-> b.seller, buyer |-> b.buyer, key |-> b.buyer_key] \in accepts

ListeningOK == \A n \in Module : listening[n] \subseteq blocks

(* Whoever answers has seen an affordable deal.                            *)
AcceptsOK == \A a \in accepts : \E d \in deals : d.seller = a.to /\ d.price <= MaxPrice

Inv ==
    /\ TypeOK
    /\ DraftingOK
    /\ StoringOK
    /\ StoredOK
    /\ BlocksOK
    /\ ListeningOK
    /\ AcceptsOK
    /\ VerifiedIsOffered

(* A deal that is signed is signed over its terms (main.c:124, 135).       *)
LEMMA SignedTerms == \A d \in Deal : d.signature = Blank \/ TermsOf(d) = d.signature.terms
  BY DEF Deal

(* The deal broadcast with a signature, or without one if signing failed.  *)
LEMMA BroadcastDealTyped ==
    ASSUME TypeOK, NEW n \in Seller, NEW t \in Terms, NEW g \in sign_message(n, t)
    PROVE  /\ [seller |-> n, price |-> t.price, duration |-> t.duration, signature |-> g] \in Deal
           /\ g \in Signature
  <1> DEFINE d == [seller |-> n, price |-> t.price, duration |-> t.duration, signature |-> g]
  <1>1. t.price \in AnyPrice /\ t.duration \in AnyDuration
    BY DEF AnyPrice, AnyDuration
  <1>2. key[n] \in Key
    BY ModuleAssumption DEF TypeOK
  <1>3. g = Blank \/ g = [key |-> key[n], terms |-> t]
    BY DEF sign_message, DealSignature
  <1>4. g \in Signature /\ (g = Blank \/ g.terms = t)
    BY <1>2, <1>3 DEF Signature
  <1>5. t = [price |-> t.price, duration |-> t.duration]
    BY TermsAssumption
  <1>6. TermsOf(d) = t
    BY <1>5 DEF TermsOf
  <1> QED
    BY <1>1, <1>4, <1>6 DEF Deal

-----------------------------------------------------------------------------
(***************************************************************************)
(* Types.  One lemma per task; each says what its actions change.          *)
(***************************************************************************)

LEMMA InitTypes == Init => TypeOK
  <1> SUFFICES ASSUME Init PROVE TypeOK
    OBVIOUS
  <1>1. 1 \in Key
    BY LimitAssumption DEF Key
  <1>2. keyless \subseteq Module \X Key
    BY <1>1 DEF Init
  <1>3. foreign_public_key_array \in [Module -> [Module -> Key \cup {NullKey}]]
    BY <1>1 DEF Init, OnlyOwnKey, PublicKey
  <1>4. used_slots \in [Module -> 0..KeySlots]
    BY LimitAssumption DEF Init
  <1> QED
    BY <1>1, <1>2, <1>3, <1>4, ModuleAssumption
    DEF Init, TypeOK, EmptyTradeData, IdleBroadcaster, IdleDrafting,
        AnyTerms, AnyPrice, AnyDuration, Signature, Blank, NoTerms

(* What an idle broadcaster and an idle draft hold.                        *)
LEMMA NoTermsTyped ==
    /\ NoTerms \in AnyTerms
    /\ EmptyTradeData \in [price : AnyPrice, duration : AnyDuration, signature : Signature]
    /\ Blank \in Signature
  BY DEF NoTerms, EmptyTradeData, AnyTerms, AnyPrice, AnyDuration, Signature

LEMMA RebootTypes ==
    ASSUME TypeOK, NEW n \in Module, Reboot(n)
    PROVE  TypeOK'
  <1> USE ModuleAssumption, LimitAssumption DEF TypeOK, Reboot
  <1>0. PICK made \in BOOLEAN : key_pair_init(n, made)
    OBVIOUS
  <1>1. key[n] + 1 \in Key
    BY DEF Key
  <1>2. key' \in [Module -> Key]
    BY <1>0, <1>1 DEF key_pair_init
  <1>8. keyless' \subseteq Module \X Key
    BY <1>0, <1>1 DEF key_pair_init
  <1>3. foreign_public_key_array' \in [Module -> [Module -> Key \cup {NullKey}]]
    <2> DEFINE k == IF made THEN key[n] + 1 ELSE NullKey
    <2>1. k \in Key \cup {NullKey}
      BY <1>1
    <2>2. foreign_public_key_array' = [foreign_public_key_array EXCEPT ![n] = OnlyOwnKey(n, k)]
      BY <1>0 DEF key_pair_init
    <2> HIDE DEF k
    <2>3. OnlyOwnKey(n, k) \in [Module -> Key \cup {NullKey}]
      BY <2>1 DEF OnlyOwnKey
    <2> QED
      BY <2>2, <2>3
  <1>4. used_slots' \in [Module -> 0..KeySlots]
    BY <1>0 DEF key_pair_init
  <1>5. trade_data' \in [Module -> [price : AnyPrice, duration : AnyDuration,
                                    signature : Signature]]
    BY NoTermsTyped
  <1>6. broadcaster' \in [Module -> [pc : {"rql", "bcd", "price", "duration", "signature"},
                                     terms : Terms \cup {NoTerms}, signature : Signature]]
    BY NoTermsTyped DEF IdleBroadcaster
  <1>7. drafting' \in [Module -> [pc : {"recvmsg", "price", "duration", "signature"},
                                  buyer : Module, buyer_key : Key \cup {NullKey},
                                  terms : AnyTerms]]
    BY NoTermsTyped DEF IdleDrafting
  <1> QED
    BY <1>2, <1>3, <1>4, <1>5, <1>6, <1>7, <1>8

(* A broadcaster that only moves on keeps its terms and signature.         *)
LEMMA MovesOn ==
    ASSUME NEW f \in [Module -> [pc : {"rql", "bcd", "price", "duration", "signature"},
                                 terms : Terms \cup {NoTerms}, signature : Signature]],
           NEW n \in Module, NEW p \in {"rql", "bcd", "price", "duration", "signature"}
    PROVE  [f EXCEPT ![n].pc = p] \in
               [Module -> [pc : {"rql", "bcd", "price", "duration", "signature"},
                           terms : Terms \cup {NoTerms}, signature : Signature]]
  <1> DEFINE R == [pc : {"rql", "bcd", "price", "duration", "signature"},
                   terms : Terms \cup {NoTerms}, signature : Signature]
  <1>1. [f[n] EXCEPT !.pc = p] \in R
    OBVIOUS
  <1> QED
    BY <1>1

LEMMA BroadcasterTypes ==
    ASSUME TypeOK, StoringOK, NEW n \in Module, AmperageBroadcasterTask(n)
    PROVE  TypeOK'
  <1> USE DEF TypeOK
  <1>1. CASE CheckDeal(n)
    <2>1. broadcaster' \in [Module -> [pc : {"rql", "bcd", "price", "duration", "signature"},
                                       terms : Terms \cup {NoTerms}, signature : Signature]]
      BY <1>1, MovesOn DEF CheckDeal
    <2> QED
      BY <1>1, <2>1 DEF CheckDeal, keyVars
  <1>2. CASE BroadcastDeal(n)
    <2>1. PICK t \in Terms : \E g \in sign_message(n, t) :
              /\ deals' = deals \cup {[seller |-> n, price |-> t.price, duration |-> t.duration,
                                       signature |-> g]}
              /\ broadcaster' = [broadcaster EXCEPT ![n] =
                     [pc |-> "price", terms |-> t, signature |-> g]]
      BY <1>2 DEF BroadcastDeal
    <2>g. PICK g \in sign_message(n, t) :
              /\ deals' = deals \cup {[seller |-> n, price |-> t.price, duration |-> t.duration,
                                       signature |-> g]}
              /\ broadcaster' = [broadcaster EXCEPT ![n] =
                     [pc |-> "price", terms |-> t, signature |-> g]]
      BY <2>1
    <2>2. n \in Seller
      BY DEF AmperageBroadcasterTask
    <2>d. /\ [seller |-> n, price |-> t.price, duration |-> t.duration, signature |-> g] \in Deal
          /\ g \in Signature
      BY <2>2, BroadcastDealTyped
    <2>3. deals' \subseteq Deal
      BY <2>g, <2>d
    <2>4. broadcaster' \in [Module -> [pc : {"rql", "bcd", "price", "duration", "signature"},
                                       terms : Terms \cup {NoTerms}, signature : Signature]]
      BY <2>g, <2>d
    <2> QED
      BY <1>2, <2>3, <2>4 DEF BroadcastDeal, keyVars
  <1>3. CASE StoreDeal(n)
    <2> DEFINE t == broadcaster[n].terms
    <2>1. t \in Terms
      BY <1>3 DEF StoringOK, StoreDeal
    <2>2. t.price \in AnyPrice /\ t.duration \in AnyDuration
      BY <2>1 DEF AnyPrice, AnyDuration
    <2>3. broadcaster[n].signature \in Signature
      OBVIOUS
    <2>4. CASE /\ broadcaster[n].pc = "price"
               /\ trade_data' = [trade_data EXCEPT ![n].price = t.price]
               /\ broadcaster' = [broadcaster EXCEPT ![n].pc = "duration"]
      <3>1. trade_data' \in [Module -> [price : AnyPrice, duration : AnyDuration,
                                        signature : Signature]]
        BY <2>4, <2>2, <2>3
      <3>2. broadcaster' \in [Module -> [pc : {"rql", "bcd", "price", "duration", "signature"},
                                         terms : Terms \cup {NoTerms}, signature : Signature]]
        BY <2>4, MovesOn
      <3> QED
        BY <3>1, <3>2, <1>3 DEF StoreDeal, keyVars
    <2>5. CASE /\ broadcaster[n].pc = "duration"
               /\ trade_data' = [trade_data EXCEPT ![n].duration = t.duration]
               /\ broadcaster' = [broadcaster EXCEPT ![n].pc = "signature"]
      <3>1. trade_data' \in [Module -> [price : AnyPrice, duration : AnyDuration,
                                        signature : Signature]]
        BY <2>5, <2>2, <2>3
      <3>2. broadcaster' \in [Module -> [pc : {"rql", "bcd", "price", "duration", "signature"},
                                         terms : Terms \cup {NoTerms}, signature : Signature]]
        BY <2>5, MovesOn
      <3> QED
        BY <3>1, <3>2, <1>3 DEF StoreDeal, keyVars
    <2>6. CASE /\ broadcaster[n].pc = "signature"
               /\ trade_data' = [trade_data EXCEPT ![n].signature = broadcaster[n].signature]
               /\ broadcaster' = [broadcaster EXCEPT ![n] = IdleBroadcaster]
      <3>1. trade_data' \in [Module -> [price : AnyPrice, duration : AnyDuration,
                                        signature : Signature]]
        BY <2>6, <2>2, <2>3
      <3>2. broadcaster' \in [Module -> [pc : {"rql", "bcd", "price", "duration", "signature"},
                                         terms : Terms \cup {NoTerms}, signature : Signature]]
        BY <2>6, NoTermsTyped DEF IdleBroadcaster
      <3> QED
        BY <3>1, <3>2, <1>3 DEF StoreDeal, keyVars
    <2> QED
      BY <1>3, <2>4, <2>5, <2>6 DEF StoreDeal
  <1> QED
    BY <1>1, <1>2, <1>3 DEF AmperageBroadcasterTask

(* A verification that fails keeps a slot, of which one was free.          *)
LEMMA LeakTypes ==
    ASSUME TypeOK, NEW n \in Module, NEW m \in Module, import_public_key(n, m), KeyLeaked(n)
    PROVE  used_slots' \in [Module -> 0..KeySlots]
  BY LimitAssumption DEF TypeOK, import_public_key, KeyLeaked

LEMMA ListenerTypes ==
    ASSUME TypeOK, DraftingOK, NEW n \in Module, LasetListenerTask(n)
    PROVE  TypeOK'
  <1> USE DEF TypeOK
  <1>1. ASSUME NEW m \in Module, NEW k \in Key, LearnKey(n, m, k)
        PROVE  TypeOK'
    <2>1. PublicKey(m, k) \in Key \cup {NullKey}
      BY DEF PublicKey
    <2>2. foreign_public_key_array' \in [Module -> [Module -> Key \cup {NullKey}]]
      BY <1>1, <2>1 DEF LearnKey
    <2> QED
      BY <1>1, <2>2 DEF LearnKey, sellVars
  <1>2. ASSUME NEW d \in deals, AnswerDeal(n, d)
        PROVE  TypeOK'
    <2>1. d.seller \in Seller
      BY DEF Deal
    <2>2. accepts' \subseteq Acceptance
      BY <1>2, <2>1 DEF AnswerDeal, Acceptance
    <2> QED
      BY <1>2, <2>2 DEF AnswerDeal, keyVars, sellVars
  <1>3. ASSUME NEW d \in deals, DistrustDeal(n, d)
        PROVE  TypeOK'
    <2>1. d.seller \in Module
      BY ModuleAssumption DEF Deal
    <2>2. used_slots' \in [Module -> 0..KeySlots]
      BY <1>3, <2>1, LeakTypes DEF DistrustDeal
    <2> QED
      BY <1>3, <2>2 DEF DistrustDeal, keyVars, sellVars
  <1>4. ASSUME NEW a \in accepts, AcceptTrade(n, a)
        PROVE  TypeOK'
    <2>1. a.buyer \in Module /\ a.key \in Key
      BY DEF Acceptance
    <2>2. drafting' \in [Module -> [pc : {"recvmsg", "price", "duration", "signature"},
                                    buyer : Module, buyer_key : Key \cup {NullKey},
                                    terms : AnyTerms]]
      BY <1>4, <2>1, NoTermsTyped DEF AcceptTrade
    <2> QED
      BY <1>4, <2>2 DEF AcceptTrade, Closed, keyVars, sellVars
  <1>5. ASSUME NEW a \in accepts, DistrustAccept(n, a)
        PROVE  TypeOK'
    <2>1. a.buyer \in Module
      BY DEF Acceptance
    <2>2. used_slots' \in [Module -> 0..KeySlots]
      BY <1>5, <2>1, LeakTypes DEF DistrustAccept
    <2> QED
      BY <1>5, <2>2 DEF DistrustAccept, keyVars, sellVars
  <1>6. CASE ReadTerms(n)
    <2>1. CASE drafting' = [drafting EXCEPT ![n].terms.price = trade_data[n].price,
                                         ![n].pc = "duration"]
      <3> DEFINE read == [drafting[n].terms EXCEPT !.price = trade_data[n].price]
      <3>1. drafting[n].terms \in AnyTerms /\ trade_data[n].price \in AnyPrice
        OBVIOUS
      <3>2. read \in AnyTerms
        BY <3>1 DEF AnyTerms
      <3>3. drafting'[n] = [drafting[n] EXCEPT !.terms = read, !.pc = "duration"]
        BY <2>1
      <3>4. drafting'[n] \in [pc : {"recvmsg", "price", "duration", "signature"},
                            buyer : Module, buyer_key : Key \cup {NullKey},
                            terms : AnyTerms]
        BY <3>2, <3>3
      <3>5. drafting' \in [Module -> [pc : {"recvmsg", "price", "duration", "signature"},
                                      buyer : Module, buyer_key : Key \cup {NullKey},
                                      terms : AnyTerms]]
        BY <2>1, <3>4
      <3> QED
        BY <1>6, <3>5 DEF ReadTerms, keyVars, sellVars
    <2>2. CASE drafting' = [drafting EXCEPT ![n].terms.duration = trade_data[n].duration,
                                         ![n].pc = "signature"]
      <3> DEFINE read == [drafting[n].terms EXCEPT !.duration = trade_data[n].duration]
      <3>1. drafting[n].terms \in AnyTerms /\ trade_data[n].duration \in AnyDuration
        OBVIOUS
      <3>2. read \in AnyTerms
        BY <3>1 DEF AnyTerms
      <3>3. drafting'[n] = [drafting[n] EXCEPT !.terms = read, !.pc = "signature"]
        BY <2>2
      <3>4. drafting'[n] \in [pc : {"recvmsg", "price", "duration", "signature"},
                            buyer : Module, buyer_key : Key \cup {NullKey},
                            terms : AnyTerms]
        BY <3>2, <3>3
      <3>5. drafting' \in [Module -> [pc : {"recvmsg", "price", "duration", "signature"},
                                      buyer : Module, buyer_key : Key \cup {NullKey},
                                      terms : AnyTerms]]
        BY <2>2, <3>4
      <3> QED
        BY <1>6, <3>5 DEF ReadTerms, keyVars, sellVars
    <2> QED
      BY <1>6, <2>1, <2>2 DEF ReadTerms
  <1>7. CASE DraftBlock(n)
    <2>1. [to |-> n, buyer |-> drafting[n].buyer, key |-> drafting[n].buyer_key] \in Acceptance
      BY <1>7 DEF DraftingOK, DraftBlock
    <2>2. n \in Seller /\ drafting[n].buyer \in Module /\ drafting[n].buyer_key \in Key
      BY <2>1 DEF Acceptance
    <2>3. trade_data[n].signature \in Signature /\ drafting[n].terms \in AnyTerms
      OBVIOUS
    <2>4. DraftOf(n) \in Block
      BY <2>2, <2>3 DEF DraftOf, Block, AnyTerms
    <2>5. blocks' \subseteq Block /\ listening' \in [Module -> SUBSET Block]
      BY <1>7, <2>4 DEF DraftBlock
    <2>6. drafting' \in [Module -> [pc : {"recvmsg", "price", "duration", "signature"},
                                    buyer : Module, buyer_key : Key \cup {NullKey},
                                    terms : AnyTerms]]
      BY <1>7, NoTermsTyped DEF DraftBlock, IdleDrafting
    <2> QED
      BY <1>7, <2>5, <2>6 DEF DraftBlock, keyVars, sellVars
  <1> QED
    BY <1>1, <1>2, <1>3, <1>4, <1>5, <1>6, <1>7 DEF LasetListenerTask

LEMMA BlockTaskTypes ==
    ASSUME TypeOK, NEW n \in Module, BlockTasks(n)
    PROVE  TypeOK'
  <1> USE DEF TypeOK
  <1>1. ASSUME NEW b \in blocks, AcceptBlock(n, b)
        PROVE  TypeOK'
    BY <1>1 DEF AcceptBlock, keyVars, sellVars
  <1>2. ASSUME NEW b \in blocks, DistrustBlock(n, b)
        PROVE  TypeOK'
    <2>1. b.buyer \in Module
      BY DEF Block
    <2>2. used_slots' \in [Module -> 0..KeySlots]
      BY <1>2, <2>1, LeakTypes DEF DistrustBlock
    <2> QED
      BY <1>2, <2>2 DEF DistrustBlock, keyVars, sellVars
  <1>3. ASSUME NEW b \in listening[n], EndListening(n, b)
        PROVE  TypeOK'
    BY <1>3 DEF EndListening, keyVars, sellVars
  <1> QED
    BY <1>1, <1>2, <1>3 DEF BlockTasks
-----------------------------------------------------------------------------
(***************************************************************************)
(* What stands behind signatures and answers.  Deals, acceptances and      *)
(* blocks are only ever added.                                             *)
(***************************************************************************)

LEMMA RebootKeeps ==
    ASSUME Inv, NEW n \in Module, Reboot(n)
    PROVE  Inv'
  <1> USE DEF Inv, Reboot
  <1>1. TypeOK'
    BY RebootTypes
  <1>2. DraftingOK'
    BY DEF DraftingOK, IdleDrafting, TypeOK
  <1>3. StoringOK'
    BY DEF StoringOK, IdleBroadcaster, TypeOK, Offered
  <1>4. StoredOK'
    BY DEF StoredOK, EmptyTradeData, TypeOK, Offered
  <1>5. BlocksOK' /\ AcceptsOK'
    BY DEF BlocksOK, AcceptsOK, Offered
  <1>6. ListeningOK' /\ VerifiedIsOffered'
    BY DEF ListeningOK, VerifiedIsOffered, Verified, TypeOK
  <1> QED
    BY <1>1, <1>2, <1>3, <1>4, <1>5, <1>6

LEMMA BroadcasterKeeps ==
    ASSUME Inv, NEW n \in Module, AmperageBroadcasterTask(n)
    PROVE  Inv'
  <1> USE DEF Inv
  <1>0. TypeOK'
    BY BroadcasterTypes
  <1>1. CASE CheckDeal(n)
    <2> USE <1>1 DEF CheckDeal, keyVars
    <2>1. StoringOK'
      BY DEF StoringOK, TypeOK, Offered
    <2> QED
      BY <1>0, <2>1 DEF DraftingOK, StoredOK, BlocksOK, ListeningOK, AcceptsOK,
                        VerifiedIsOffered, Verified, Offered
  <1>2. CASE BroadcastDeal(n)
    <2> USE <1>2 DEF BroadcastDeal, keyVars
    <2>0. PICK t \in Terms : \E g \in sign_message(n, t) :
              /\ deals' = deals \cup {[seller |-> n, price |-> t.price, duration |-> t.duration,
                                       signature |-> g]}
              /\ broadcaster' = [broadcaster EXCEPT ![n] =
                     [pc |-> "price", terms |-> t, signature |-> g]]
      OBVIOUS
    <2>1. PICK g \in sign_message(n, t) :
              /\ deals' = deals \cup {[seller |-> n, price |-> t.price, duration |-> t.duration,
                                       signature |-> g]}
              /\ broadcaster' = [broadcaster EXCEPT ![n] =
                     [pc |-> "price", terms |-> t, signature |-> g]]
      BY <2>0
    <2>2. \A s, h : Offered(s, h) => Offered(s, h)'
      BY <2>1 DEF Offered
    <2>3. Offered(n, g)'
      <3> DEFINE d == [seller |-> n, price |-> t.price, duration |-> t.duration,
                       signature |-> g]
      <3>1. d \in deals'
        BY <2>1
      <3>2. d.seller = n /\ d.signature = g
        OBVIOUS
      <3> QED
        BY <3>1, <3>2 DEF Offered
    <2>4. StoringOK'
      <3> SUFFICES ASSUME NEW m \in Module,
                          broadcaster'[m].pc \in {"price", "duration", "signature"}
                   PROVE  /\ broadcaster'[m].terms \in Terms
                          /\ Offered(m, broadcaster[m].signature)'
        BY DEF StoringOK
      <3>1. CASE m = n
        BY <3>1, <2>1, <2>3 DEF TypeOK
      <3>2. CASE m # n
        <4>1. broadcaster'[m] = broadcaster[m]
          BY <3>2, <2>1 DEF TypeOK
        <4>2. /\ broadcaster[m].terms \in Terms
              /\ Offered(m, broadcaster[m].signature)
          BY <4>1 DEF StoringOK
        <4> QED
          BY <4>1, <4>2, <2>1 DEF Offered
      <3> QED
        BY <3>1, <3>2
    <2>5. StoredOK' /\ BlocksOK'
      BY <2>2 DEF StoredOK, BlocksOK
    <2>6. AcceptsOK' /\ VerifiedIsOffered'
      BY <2>1 DEF AcceptsOK, VerifiedIsOffered, Verified
    <2> QED
      BY <1>0, <2>4, <2>5, <2>6 DEF DraftingOK, ListeningOK
  <1>3. CASE StoreDeal(n)
    <2> USE <1>3 DEF StoreDeal, keyVars
    <2>1. broadcaster[n].terms \in Terms /\ Offered(n, broadcaster[n].signature)
      BY DEF StoringOK
    <2>2. StoringOK'
      <3> SUFFICES ASSUME NEW m \in Module,
                          broadcaster'[m].pc \in {"price", "duration", "signature"}
                   PROVE  /\ broadcaster'[m].terms \in Terms
                          /\ Offered(m, broadcaster[m].signature)'
        BY DEF StoringOK
      <3>1. /\ broadcaster[m].pc \in {"price", "duration", "signature"}
            /\ broadcaster'[m].terms = broadcaster[m].terms
            /\ broadcaster'[m].signature = broadcaster[m].signature
        <4>0. broadcaster \in [Module -> [pc : {"rql", "bcd", "price", "duration", "signature"},
                                         terms : Terms \cup {NoTerms}, signature : Signature]]
          BY DEF TypeOK
        <4>1. CASE m # n
          BY <4>0, <4>1
        <4>2. CASE m = n
          <5>1. broadcaster[n].pc = "price" \/ broadcaster[n].pc = "duration"
                  \/ broadcaster[n].pc = "signature"
            OBVIOUS
          <5>2. broadcaster[n].pc # "signature"
            BY <4>0, <4>2 DEF IdleBroadcaster
          <5>3. /\ broadcaster'[n].terms = broadcaster[n].terms
                /\ broadcaster'[n].signature = broadcaster[n].signature
            BY <4>0, <5>1, <5>2
          <5> QED
            BY <4>2, <5>1, <5>3
        <4> QED
          BY <4>1, <4>2
      <3>2. /\ broadcaster[m].terms \in Terms
            /\ Offered(m, broadcaster[m].signature)
        BY <3>1 DEF StoringOK
      <3> QED
        BY <3>1, <3>2 DEF Offered
    <2>3. StoredOK'
      <3> SUFFICES ASSUME NEW m \in Module
                   PROVE  \/ trade_data'[m].signature = Blank
                          \/ Offered(m, trade_data'[m].signature)
        BY DEF StoredOK, Offered
      <3>0. trade_data \in [Module -> [price : AnyPrice, duration : AnyDuration,
                                        signature : Signature]]
        BY DEF TypeOK
      <3>1. CASE m = n
        <4>1. \/ trade_data'[n].signature = trade_data[n].signature
              \/ trade_data'[n].signature = broadcaster[n].signature
          BY <3>0
        <4> QED
          BY <2>1, <3>1, <4>1 DEF StoredOK
      <3>2. CASE m # n
        <4>1. trade_data'[m] = trade_data[m]
          BY <3>0, <3>2
        <4> QED
          BY <4>1 DEF StoredOK
      <3> QED
        BY <3>1, <3>2
    <2> QED
      BY <1>0, <2>2, <2>3 DEF DraftingOK, BlocksOK, ListeningOK, AcceptsOK,
                              VerifiedIsOffered, Verified, Offered
  <1> QED
    BY <1>1, <1>2, <1>3 DEF AmperageBroadcasterTask

LEMMA ListenerKeeps ==
    ASSUME Inv, NEW n \in Module, LasetListenerTask(n)
    PROVE  Inv'
  <1> USE DEF Inv, keyVars, sellVars
  <1>0. TypeOK'
    BY ListenerTypes
  <1>1. ASSUME NEW m \in Module, NEW k \in Key, LearnKey(n, m, k)
        PROVE  Inv'
    BY <1>0, <1>1 DEF LearnKey, DraftingOK, StoringOK, StoredOK, BlocksOK, ListeningOK,
                      AcceptsOK, VerifiedIsOffered, Verified, Offered
  <1>2. ASSUME NEW d \in deals, AnswerDeal(n, d)
        PROVE  Inv'
    <2> USE <1>2 DEF AnswerDeal
    <2>1. AcceptsOK'
      BY DEF AcceptsOK, Affordable, TypeOK, Deal
    <2> QED
      BY <1>0, <2>1 DEF DraftingOK, StoringOK, StoredOK, BlocksOK, ListeningOK,
                        VerifiedIsOffered, Verified, Offered
  <1>3. ASSUME NEW d \in deals, DistrustDeal(n, d)
        PROVE  Inv'
    BY <1>0, <1>3 DEF DistrustDeal, DraftingOK, StoringOK, StoredOK, BlocksOK, ListeningOK,
                      AcceptsOK, VerifiedIsOffered, Verified, Offered
  <1>4. ASSUME NEW a \in accepts, AcceptTrade(n, a)
        PROVE  Inv'
    <2> USE <1>4 DEF AcceptTrade
    <2>1. a = [to |-> n, buyer |-> a.buyer, key |-> a.key]
      BY DEF TypeOK, Acceptance
    <2>2. DraftingOK'
      BY <2>1 DEF DraftingOK, TypeOK
    <2> QED
      BY <1>0, <2>2 DEF StoringOK, StoredOK, BlocksOK, ListeningOK,
                        AcceptsOK, VerifiedIsOffered, Verified, Offered
  <1>5. ASSUME NEW a \in accepts, DistrustAccept(n, a)
        PROVE  Inv'
    BY <1>0, <1>5 DEF DistrustAccept, DraftingOK, StoringOK, StoredOK, BlocksOK, ListeningOK,
                      AcceptsOK, VerifiedIsOffered, Verified, Offered
  <1>6. CASE ReadTerms(n)
    <2> USE <1>6 DEF ReadTerms
    <2>1. DraftingOK'
      BY DEF DraftingOK, TypeOK
    <2> QED
      BY <1>0, <2>1 DEF StoringOK, StoredOK, BlocksOK, ListeningOK,
                        AcceptsOK, VerifiedIsOffered, Verified, Offered
  <1>7. CASE DraftBlock(n)
    <2> USE <1>7 DEF DraftBlock
    <2>1. DraftingOK'
      BY DEF DraftingOK, TypeOK, IdleDrafting
    <2>2. BlocksOK'
      <3>1. /\ DraftOf(n).signature = trade_data[n].signature
            /\ DraftOf(n).seller = n
            /\ DraftOf(n).buyer = drafting[n].buyer
            /\ DraftOf(n).buyer_key = drafting[n].buyer_key
        BY DEF DraftOf
      <3>2. trade_data[n].signature = Blank \/ Offered(n, trade_data[n].signature)
        BY DEF StoredOK
      <3>3. [to |-> n, buyer |-> drafting[n].buyer, key |-> drafting[n].buyer_key] \in accepts
        BY DEF DraftingOK
      <3>4. blocks' = blocks \cup {DraftOf(n)} /\ deals' = deals /\ accepts' = accepts
        OBVIOUS
      <3> QED
        BY <3>1, <3>2, <3>3, <3>4 DEF BlocksOK, Offered
    <2>3. ListeningOK'
      BY DEF ListeningOK, TypeOK
    <2>4. DraftOf(n).seller = n
      BY DEF DraftOf
    <2>5. VerifiedIsOffered'
      BY <2>4 DEF VerifiedIsOffered, Verified, TypeOK
    <2> QED
      BY <1>0, <2>1, <2>2, <2>3, <2>5 DEF StoringOK, StoredOK, AcceptsOK, Offered
  <1> QED
    BY <1>1, <1>2, <1>3, <1>4, <1>5, <1>6, <1>7 DEF LasetListenerTask

LEMMA BlockTaskKeeps ==
    ASSUME Inv, NEW n \in Module, BlockTasks(n)
    PROVE  Inv'
  <1> USE DEF Inv, keyVars, sellVars
  <1>0. TypeOK'
    BY BlockTaskTypes
  <1>1. ASSUME NEW b \in blocks, AcceptBlock(n, b)
        PROVE  Inv'
    <2> USE <1>1 DEF AcceptBlock
    <2>1. b.signature # Blank /\ b.signature.terms = TermsOf(b)
      BY DEF SellerVerified, verify_deal, import_public_key, Blank
    <2>2. PICK d \in deals : d.seller = b.seller /\ d.signature = b.signature
      BY <2>1 DEF BlocksOK, Offered
    <2>3. TermsOf(d) = TermsOf(b)
      BY <2>1, <2>2, SignedTerms DEF TypeOK
    <2>4. VerifiedIsOffered'
      BY <2>2, <2>3 DEF VerifiedIsOffered, Verified, TypeOK
    <2>5. ListeningOK'
      BY DEF ListeningOK, TypeOK
    <2> QED
      BY <1>0, <2>4, <2>5 DEF DraftingOK, StoringOK, StoredOK, BlocksOK, AcceptsOK,
                              Offered
  <1>2. ASSUME NEW b \in blocks, DistrustBlock(n, b)
        PROVE  Inv'
    BY <1>0, <1>2 DEF DistrustBlock, DraftingOK, StoringOK, StoredOK, BlocksOK, ListeningOK,
                      AcceptsOK, VerifiedIsOffered, Verified, Offered
  <1>3. ASSUME NEW b \in listening[n], EndListening(n, b)
        PROVE  Inv'
    <2> USE <1>3 DEF EndListening
    <2>1. ListeningOK' /\ VerifiedIsOffered'
      BY DEF ListeningOK, VerifiedIsOffered, Verified, TypeOK
    <2> QED
      BY <1>0, <2>1 DEF DraftingOK, StoringOK, StoredOK, BlocksOK, AcceptsOK,
                        Offered
  <1> QED
    BY <1>1, <1>2, <1>3 DEF BlockTasks

-----------------------------------------------------------------------------
THEOREM Invariance == Spec => []Inv
  <1>1. Init => Inv
    BY InitTypes
    DEF Init, Inv, DraftingOK, StoringOK, StoredOK, BlocksOK, ListeningOK, AcceptsOK,
        VerifiedIsOffered, Verified, IdleDrafting, IdleBroadcaster, EmptyTradeData
  <1>2. Inv /\ [Next]_vars => Inv'
    <2> SUFFICES ASSUME Inv, [Next]_vars PROVE Inv'
      OBVIOUS
    <2>1. CASE Next
      BY <2>1, RebootKeeps, BroadcasterKeeps, ListenerKeeps, BlockTaskKeeps DEF Next
    <2>2. CASE UNCHANGED vars
      BY <2>2 DEF vars, keyVars, sellVars, Inv, TypeOK, DraftingOK, StoringOK, StoredOK,
                  BlocksOK, ListeningOK, AcceptsOK, VerifiedIsOffered, Verified, Offered
    <2> QED
      BY <2>1, <2>2
  <1> QED
    BY <1>1, <1>2, PTL DEF Spec

(* Every reachable state has its type, and no module ever uses more key    *)
(* slots than the library has, whatever verifications fail and reboots     *)
(* happen (crypto.c:86-91, 153-158).                                       *)
THEOREM TypeCorrect == Spec => []TypeOK
  <1>1. Inv => TypeOK
    BY DEF Inv
  <1> QED
    BY <1>1, Invariance, PTL

(* A block another module accepts states the terms of one deal its seller  *)
(* broadcast, for any number of modules, deals, key slots and reboots      *)
(* (main.c:143-146, 463-472; chain.c:158-181).                             *)
THEOREM OnlyOfferedTerms == Spec => []VerifiedIsOffered
  <1>1. Inv => VerifiedIsOffered
    BY DEF Inv
  <1> QED
    BY <1>1, Invariance, PTL

(* The buyer of such a block has answered its very seller, which has       *)
(* broadcast a deal it could afford (main.c:408-442, 490-550).             *)
THEOREM OnlyAnsweredDeals == Spec => []BuyerAnswered
  <1>1. Inv => BuyerAnswered
    BY DEF Inv, ListeningOK, BlocksOK, AcceptsOK, BuyerAnswered, Verified
  <1> QED
    BY <1>1, Invariance, PTL
-----------------------------------------------------------------------------
(***************************************************************************)
(* Key slots.  Without a reboot every key that is stored is the one its    *)
(* module signs with, so what is signed over its terms is verified.        *)
(***************************************************************************)
Untroubled == (\A m \in Module : key[m] = 1) /\ (\A x \in deals \cup blocks : Sound(x))

SlotsInv == Untroubled => \A n \in Module : used_slots[n] <= 1

(* What is untroubled after a step was so before it.                       *)
LEMMA UntroubledBack ==
    ASSUME TypeOK, NEW n \in Module, Untroubled',
           Reboot(n) \/ AmperageBroadcasterTask(n) \/ LasetListenerTask(n) \/ BlockTasks(n)
    PROVE  Untroubled /\ key' = key
  <1>1. ~Reboot(n)
    BY DEF Reboot, key_pair_init, TypeOK, Key, Untroubled
  <1>2. key' = key /\ deals \subseteq deals' /\ blocks \subseteq blocks'
    BY <1>1 DEF AmperageBroadcasterTask, CheckDeal, BroadcastDeal, StoreDeal, LasetListenerTask,
                LearnKey, AnswerDeal, DistrustDeal, AcceptTrade, DistrustAccept, ReadTerms,
                DraftBlock, BlockTasks, AcceptBlock, DistrustBlock, EndListening, keyVars
  <1> QED
    BY <1>2 DEF Untroubled, Sound, DealSignature

(* No key is stored or answered with before its module has made it.        *)
KeysMade ==
    /\ \A n, m \in Module : foreign_public_key_array[n][m] <= key[m]
    /\ \A a \in accepts : a.key <= key[a.buyer]

LEMMA KeysMadeKept ==
    ASSUME TypeOK, KeysMade, NEW n \in Module,
           Reboot(n) \/ AmperageBroadcasterTask(n) \/ LasetListenerTask(n) \/ BlockTasks(n)
    PROVE  KeysMade'
  <1>t. /\ key \in [Module -> Key] /\ Key \subseteq Nat
        /\ foreign_public_key_array \in [Module -> [Module -> Key \cup {NullKey}]]
        /\ \A a \in accepts : a.buyer \in Module /\ a.key \in Key
    BY DEF TypeOK, Key, Acceptance
  <1>n. \A m \in Module : key[m] \in Nat
    <2>1. \A m \in Module : key[m] \in Key
      BY <1>t
    <2> QED
      BY <1>t, <2>1
  <1>f. \A o, m \in Module : foreign_public_key_array[o][m] \in Nat
    <2>1. \A o, m \in Module : foreign_public_key_array[o][m] \in Key \cup {NullKey}
      BY <1>t
    <2>2. Key \cup {NullKey} \subseteq Nat
      BY <1>t DEF NullKey
    <2> QED
      BY <2>1, <2>2
  <1>1. CASE Reboot(n)
    <2>1. PICK k \in {0, key[n] + 1} :
          /\ key' = [key EXCEPT ![n] = @ + 1] /\ accepts' = accepts
          /\ foreign_public_key_array' =
                 [foreign_public_key_array EXCEPT ![n] = OnlyOwnKey(n, k)]
      BY <1>1 DEF Reboot, key_pair_init, NullKey
    <2>2. \A m \in Module : key'[m] \in Nat /\ key[m] <= key'[m] /\ key'[n] = key[n] + 1
      <3>1. \A m \in Module : key'[m] = IF m = n THEN key[n] + 1 ELSE key[m]
        BY <1>t, <2>1
      <3> QED
        BY <1>n, <3>1
    <2>3. ASSUME NEW o \in Module, NEW m \in Module
          PROVE  foreign_public_key_array'[o][m] <= key'[m]
      <3>1. CASE o = n
        <4>1. foreign_public_key_array'[o] = OnlyOwnKey(n, k)
          BY <1>t, <2>1, <3>1
        <4>2. foreign_public_key_array'[o][m] = IF m = n THEN k ELSE 0
          BY <4>1 DEF OnlyOwnKey, NullKey
        <4>3. key'[m] \in Nat /\ key'[n] = key[n] + 1 /\ key[n] \in Nat
          BY <1>n, <2>2
        <4> QED
          BY <4>2, <4>3
      <3>2. CASE o # n
        <4>1. foreign_public_key_array'[o][m] = foreign_public_key_array[o][m]
          BY <1>t, <2>1, <3>2
        <4>2. foreign_public_key_array[o][m] \in Nat /\ key[m] \in Nat
          BY <1>n, <1>f
        <4> QED
          BY <2>2, <4>1, <4>2 DEF KeysMade
      <3> QED
        BY <3>1, <3>2
    <2>4. ASSUME NEW a \in accepts
          PROVE  a.key <= key'[a.buyer]
      <3>1. a.key \in Nat /\ key[a.buyer] \in Nat /\ a.key <= key[a.buyer]
        BY <1>t DEF KeysMade
      <3> QED
        BY <1>t, <2>2, <3>1
    <2> QED
      BY <2>1, <2>3, <2>4 DEF KeysMade
  <1>2. ASSUME NEW m \in Module, NEW k \in Key, LearnKey(n, m, k)
        PROVE  KeysMade'
    <2>1. /\ key' = key /\ accepts' = accepts /\ k <= key[m]
          /\ foreign_public_key_array' =
                 [foreign_public_key_array EXCEPT ![n][m] = PublicKey(m, k)]
      BY <1>2 DEF LearnKey
    <2>k. PublicKey(m, k) <= key[m]
      BY <1>n, <2>1 DEF PublicKey, NullKey
    <2>2. ASSUME NEW o \in Module, NEW p \in Module
          PROVE  foreign_public_key_array'[o][p] <= key[p]
      BY <1>t, <2>1, <2>k DEF KeysMade
    <2> QED
      BY <2>1, <2>2 DEF KeysMade
  <1>3. ASSUME NEW d \in deals, AnswerDeal(n, d)
        PROVE  KeysMade'
    <2>1. /\ key' = key /\ foreign_public_key_array' = foreign_public_key_array
          /\ accepts' = accepts \cup {[to |-> d.seller, buyer |-> n, key |-> key[n]]}
      BY <1>3 DEF AnswerDeal, keyVars
    <2>2. key[n] <= key[n]
      BY <1>n
    <2> QED
      BY <2>1, <2>2 DEF KeysMade
  <1>4. ASSUME key' = key, foreign_public_key_array' = foreign_public_key_array, accepts' = accepts
        PROVE  KeysMade'
    BY <1>4 DEF KeysMade
  <1> QED
    BY <1>1, <1>2, <1>3, <1>4 DEF AmperageBroadcasterTask, CheckDeal, BroadcastDeal, StoreDeal,
           LasetListenerTask, DistrustDeal, AcceptTrade, DistrustAccept, ReadTerms,
           DraftBlock, BlockTasks, AcceptBlock, DistrustBlock, EndListening, keyVars

(* A key that can be imported is the one its module signs with.            *)
LEMMA OneKey ==
    ASSUME TypeOK, KeysMade, Untroubled, NEW n \in Module, NEW m \in Module,
           import_public_key(n, m)
    PROVE  foreign_public_key_array[n][m] = 1
  <1>1. foreign_public_key_array[n][m] \in Nat /\ foreign_public_key_array[n][m] # 0
    BY DEF TypeOK, Key, NullKey, import_public_key
  <1>2. foreign_public_key_array[n][m] <= 1
    BY DEF KeysMade, Untroubled
  <1> QED
    BY <1>1, <1>2

LEMMA NothingDistrusted ==
    ASSUME Inv, KeysMade, Untroubled, NEW n \in Module
    PROVE  /\ \A d \in deals : ~DistrustDeal(n, d)
           /\ \A a \in accepts : ~DistrustAccept(n, a)
           /\ \A b \in blocks : ~DistrustBlock(n, b)
  <1>0. TypeOK /\ BlocksOK /\ \A m \in Module : key[m] = 1
    BY DEF Inv, Untroubled
  <1>1. ASSUME NEW d \in deals, DistrustDeal(n, d)
        PROVE  FALSE
    <2>1. d.seller \in Module
      BY <1>0, ModuleAssumption DEF TypeOK, Deal
    <2>2. foreign_public_key_array[n][d.seller] = 1
      BY <1>0, <1>1, <2>1, OneKey DEF DistrustDeal
    <2>3. d.signature = [key |-> 1, terms |-> TermsOf(d)]
      BY <1>0, <2>1 DEF Untroubled, Sound, DealSignature
    <2>4. verify_deal(n, d.seller, TermsOf(d), d.signature)
      BY <2>2, <2>3 DEF verify_deal
    <2> QED
      BY <1>1, <2>4 DEF DistrustDeal
  <1>2. ASSUME NEW a \in accepts
        PROVE  a.key = 1 /\ a.buyer \in Module
    <2>1. a.buyer \in Module /\ a.key \in Nat /\ a.key >= 1
      BY <1>0 DEF TypeOK, Acceptance, Key
    <2>2. a.key <= 1
      BY <1>0, <2>1 DEF KeysMade
    <2> QED
      BY <2>1, <2>2
  <1>3. ASSUME NEW a \in accepts, DistrustAccept(n, a)
        PROVE  FALSE
    <2>1. foreign_public_key_array[n][a.buyer] = 1
      BY <1>0, <1>2, <1>3, OneKey DEF DistrustAccept
    <2>2. verify_accept(n, a.buyer, a.key)
      BY <1>2, <2>1 DEF verify_accept
    <2> QED
      BY <1>3, <2>2 DEF DistrustAccept
  <1>4. ASSUME NEW b \in blocks, DistrustBlock(n, b)
        PROVE  FALSE
    <2>1. b.seller \in Module
      BY <1>0, ModuleAssumption DEF TypeOK, Block
    <2>2. b.buyer_key = 1 /\ b.buyer \in Module
      <3>1. [to |-> b.seller, buyer |-> b.buyer, key |-> b.buyer_key] \in accepts
        BY <1>0 DEF BlocksOK
      <3> QED
        BY <1>2, <3>1
    <2>3. foreign_public_key_array[n][b.buyer] = 1
      BY <1>0, <1>4, <2>2, OneKey DEF DistrustBlock
    <2>4. BuyerVerified(n, b)
      BY <2>2, <2>3 DEF BuyerVerified, verify_accept
    <2>5. import_public_key(n, b.seller)
      BY <1>4, <2>4 DEF DistrustBlock
    <2>6. foreign_public_key_array[n][b.seller] = 1
      BY <1>0, <2>1, <2>5, OneKey
    <2>7. b.signature = [key |-> 1, terms |-> TermsOf(b)]
      BY <1>0, <2>1 DEF Untroubled, Sound, DealSignature
    <2>8. SellerVerified(n, b)
      BY <2>6, <2>7 DEF SellerVerified, verify_deal
    <2> QED
      BY <1>4, <2>4, <2>8 DEF DistrustBlock
  <1> QED
    BY <1>1, <1>3, <1>4

LEMMA SlotsInvKept ==
    ASSUME Inv, KeysMade, SlotsInv, NEW n \in Module,
           Reboot(n) \/ AmperageBroadcasterTask(n) \/ LasetListenerTask(n) \/ BlockTasks(n)
    PROVE  SlotsInv'
  <1> SUFFICES ASSUME Untroubled'
               PROVE  \A m \in Module : used_slots'[m] <= 1
    BY DEF SlotsInv
  <1>1. Untroubled /\ key' = key /\ key[n] \in Nat
    BY UntroubledBack DEF Inv, TypeOK, Key
  <1>2. ~Reboot(n)
    <2>1. Reboot(n) => key'[n] = key[n] + 1
      BY DEF Reboot, key_pair_init, Inv, TypeOK
    <2> QED
      BY <1>1, <2>1
  <1>3. used_slots' = used_slots
    BY <1>1, <1>2, NothingDistrusted
    DEF AmperageBroadcasterTask, CheckDeal, BroadcastDeal, StoreDeal, LasetListenerTask,
        LearnKey, AnswerDeal, AcceptTrade, ReadTerms, DraftBlock, BlockTasks, AcceptBlock,
        EndListening
  <1> QED
    BY <1>1, <1>3 DEF SlotsInv

(* Key slots are lost to nothing but reboots, deals whose signing failed   *)
(* and blocks drafted from half a deal, for any number of modules, deals,  *)
(* blocks and key slots (crypto.c:152-164; main.c:130-146, 463-472).       *)
THEOREM SlotsGivenBack == Spec => []SlotsKept
  <1>1. Init => KeysMade /\ SlotsInv
    <2> SUFFICES ASSUME Init PROVE KeysMade /\ SlotsInv
      OBVIOUS
    <2>1. \A m \in Module : PublicKey(m, 1) \in {0, 1} /\ key[m] = 1
      BY DEF Init, PublicKey, NullKey
    <2>2. \A n, m \in Module :
              foreign_public_key_array[n][m] = IF m = n THEN PublicKey(n, 1) ELSE 0
      BY DEF Init, OnlyOwnKey, NullKey
    <2>3. \A n, m \in Module : foreign_public_key_array[n][m] <= key[m]
      BY <2>1, <2>2
    <2>4. \A n \in Module : used_slots[n] <= 1
      BY DEF Init
    <2> QED
      BY <2>3, <2>4 DEF Init, KeysMade, SlotsInv
  <1>2. Inv /\ KeysMade /\ SlotsInv /\ [Next]_vars => (KeysMade /\ SlotsInv)'
    <2> SUFFICES ASSUME Inv, KeysMade, SlotsInv, [Next]_vars PROVE (KeysMade /\ SlotsInv)'
      OBVIOUS
    <2>1. CASE Next
      BY <2>1, KeysMadeKept, SlotsInvKept DEF Next, Inv
    <2>2. CASE UNCHANGED vars
      BY <2>2 DEF vars, keyVars, KeysMade, SlotsInv, Untroubled, Sound, DealSignature
    <2> QED
      BY <2>1, <2>2
  <1>3. SlotsInv => SlotsKept
    BY DEF SlotsInv, Untroubled, SlotsKept
  <1> QED
    BY <1>1, <1>2, <1>3, Invariance, PTL DEF Spec

-----------------------------------------------------------------------------
(***************************************************************************)
(* One seller.  Whatever it listens for is its own, and its deal goes      *)
(* through three stages in turn: open, being drafted, being listened for.  *)
(***************************************************************************)
TakingTurns(s) ==
    /\ drafting[s].pc # "recvmsg" => listening[s] = {} /\ ~trade_deal_is_open[s]
    /\ listening[s] # {} => ~trade_deal_is_open[s]
    /\ \A b, c \in listening[s] : b = c

(* A module accepts no block of its own, so a single seller listens for    *)
(* none but those it drafted.                                              *)
LEMMA TurnsKept ==
    ASSUME NEW s \in Module, Seller = {s}, TypeOK, TakingTurns(s), Next
    PROVE  TakingTurns(s)'
  <1> USE DEF TypeOK, TakingTurns
  <1>0. PICK n \in Module :
            Reboot(n) \/ AmperageBroadcasterTask(n) \/ LasetListenerTask(n) \/ BlockTasks(n)
    BY DEF Next
  <1>1. CASE Reboot(n)
    BY <1>1 DEF Reboot, IdleDrafting
  <1>2. CASE AmperageBroadcasterTask(n)
    BY <1>2 DEF AmperageBroadcasterTask, CheckDeal, BroadcastDeal, StoreDeal
  <1>3. CASE LasetListenerTask(n)
    <2>1. ASSUME NEW m \in Module, NEW k \in Key, LearnKey(n, m, k)
          PROVE  TakingTurns(s)'
      BY <2>1 DEF LearnKey
    <2>2. ASSUME NEW d \in deals, AnswerDeal(n, d) \/ DistrustDeal(n, d)
          PROVE  TakingTurns(s)'
      BY <2>2 DEF AnswerDeal, DistrustDeal
    <2>3. ASSUME NEW a \in accepts, AcceptTrade(n, a)
          PROVE  TakingTurns(s)'
      <3>1. CASE n = s
        BY <2>3, <3>1 DEF AcceptTrade, Closed, Receiving
      <3>2. CASE n # s
        BY <2>3, <3>2 DEF AcceptTrade, Closed
      <3> QED
        BY <3>1, <3>2
    <2>4. ASSUME NEW a \in accepts, DistrustAccept(n, a)
          PROVE  TakingTurns(s)'
      BY <2>4 DEF DistrustAccept
    <2>5. CASE ReadTerms(n)
      <3>1. drafting'[s].pc # "recvmsg" => drafting[s].pc # "recvmsg"
        BY <2>5 DEF ReadTerms
      <3> QED
        BY <2>5, <3>1 DEF ReadTerms
    <2>6. CASE DraftBlock(n)
      <3>1. CASE n = s
        <4>1. listening'[s] = {DraftOf(s)} /\ drafting'[s].pc = "recvmsg"
          BY <2>6, <3>1 DEF DraftBlock, IdleDrafting
        <4>2. trade_deal_is_open'[s] = FALSE
          BY <2>6, <3>1 DEF DraftBlock
        <4> QED
          BY <4>1, <4>2
      <3>2. CASE n # s
        BY <2>6, <3>2 DEF DraftBlock
      <3> QED
        BY <3>1, <3>2
    <2> QED
      BY <1>3, <2>1, <2>2, <2>3, <2>4, <2>5, <2>6 DEF LasetListenerTask
  <1>4. CASE BlockTasks(n)
    <2>1. ASSUME NEW b \in blocks, AcceptBlock(n, b)
          PROVE  TakingTurns(s)'
      <3>1. n # s
        BY <2>1 DEF AcceptBlock, Block
      <3> QED
        BY <2>1, <3>1 DEF AcceptBlock
    <2>2. ASSUME NEW b \in blocks, DistrustBlock(n, b)
          PROVE  TakingTurns(s)'
      BY <2>2 DEF DistrustBlock
    <2>3. ASSUME NEW b \in listening[n], EndListening(n, b)
          PROVE  TakingTurns(s)'
      <3>1. CASE n = s
        <4>1. drafting[s].pc = "recvmsg"
          BY <2>3, <3>1
        <4>2. listening'[s] = {}
          BY <2>3, <3>1 DEF EndListening
        <4> QED
          BY <2>3, <4>1, <4>2 DEF EndListening
      <3>2. CASE n # s
        BY <2>3, <3>2 DEF EndListening
      <3> QED
        BY <3>1, <3>2
    <2> QED
      BY <1>4, <2>1, <2>2, <2>3 DEF BlockTasks
  <1> QED
    BY <1>0, <1>1, <1>2, <1>3, <1>4

(* With a single seller, its deal is closed from the acceptance to the end *)
(* of its block's listening, and it never listens for two blocks of its    *)
(* own (main.c:446, 311-317).                                              *)
THEOREM SingleSellerOneDeal ==
    ASSUME NEW s \in Module, Seller = {s}
    PROVE  Spec => []OneDealAtATime
  <1>1. Init => TakingTurns(s)
    BY DEF Init, TakingTurns, IdleDrafting
  <1>2. TypeOK /\ TakingTurns(s) /\ [Next]_vars => TakingTurns(s)'
    <2>1. CASE Next
      BY <2>1, TurnsKept
    <2>2. CASE UNCHANGED vars
      BY <2>2 DEF vars, TakingTurns
    <2> QED
      BY <2>1, <2>2
  <1>3. TakingTurns(s) => OneDealAtATime
    <2> SUFFICES ASSUME TakingTurns(s) PROVE OneDealAtATime
      OBVIOUS
    <2> DEFINE own == {b \in listening[s] : b.seller = s}
    <2>1. \A b, c \in own : b = c
      BY DEF TakingTurns
    <2>2. Cardinality(own) <= 1
      <3>1. CASE own = {}
        BY <3>1, FS_EmptySet
      <3>2. CASE own # {}
        <4>1. PICK b \in own : TRUE
          BY <3>2
        <4>2. own = {b}
          BY <2>1, <4>1
        <4>3. Cardinality({b}) = 1
          BY FS_Singleton
        <4>4. Cardinality(own) = 1
          BY ONLY <4>2, <4>3
        <4> QED
          BY <4>4
      <3> QED
        BY <3>1, <3>2
    <2>3. /\ drafting[s].pc # "recvmsg" => own = {}
          /\ drafting[s].pc # "recvmsg" \/ own # {} => ~trade_deal_is_open[s]
      BY DEF TakingTurns
    <2> HIDE DEF own
    <2>4. /\ drafting[s].pc # "recvmsg" => own = {}
          /\ drafting[s].pc # "recvmsg" \/ own # {} => ~trade_deal_is_open[s]
          /\ Cardinality(own) <= 1
      BY <2>2, <2>3
    <2> QED
      BY <2>4 DEF OneDealAtATime, own
  <1> QED
    BY <1>1, <1>2, <1>3, TypeCorrect, PTL DEF Spec
=============================================================================
