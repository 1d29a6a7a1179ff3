------------------------------ MODULE TradeDeal ------------------------------
(***************************************************************************)
(* How two modules come to a trade: the offer, its acceptance, the block   *)
(* drafted from it and the check other modules make of that block.         *)
(*                                                                         *)
(* An overproducing module offers a deal every two seconds until one is    *)
(* accepted (amperage_broadcaster_task), keeping the terms it offered last *)
(* in trade_data.  Its laset_listener_task takes an acceptance, closes the *)
(* deal and drafts a block from trade_data, field by field, while the      *)
(* broadcaster may be writing it: the two tasks share no lock.  Keys are   *)
(* made when a module boots, spread with the amperage broadcasts and       *)
(* imported into a key slot of the PSA library for each verification.      *)
(* What happens to a block after it is accepted, but for the end of its    *)
(* listening, is the subject of BlockValidation.                           *)
(***************************************************************************)
EXTENDS Integers, FiniteSets

CONSTANTS
    Module,       \* the modules of the neighbourhood, by node id
    Seller,       \* the modules that overproduce: amperage reading < 0
    Terms,        \* the [price, duration] pairs the random generator may draw
    MaxPrice,     \* the highest price a buyer accepts, 6 in the code
    KeySlots,     \* volatile key slots of the PSA library
    MaxBlocks,    \* bound: blocks drafted
    MaxBoots,     \* bound: times one module is powered up
    MaxUnsigned,  \* bound: different deals broadcast, if one has no signature
    MaxKeyless    \* bound: boots at which no key pair is made

Key == 1..MaxBoots                       \* the key pair of each boot
NullKey == 0                             \* a table entry that holds no key

ASSUME ModuleAssumption == IsFiniteSet(Module) /\ Seller \subseteq Module
ASSUME TermsAssumption == Terms \subseteq [price : Nat, duration : Nat \ {0}]
ASSUME LimitAssumption ==
    /\ MaxPrice \in Nat
    /\ KeySlots \in Nat \ {0}
    /\ MaxBlocks \in Nat
    /\ MaxBoots \in Nat \ {0}
    /\ MaxUnsigned \in Nat
    /\ MaxKeyless \in Nat

VARIABLES
    key,                       \* [n] the last boot of n, and the key pair made at it
    keyless,                   \* the boots <<n, k>> at which none could be made
    foreign_public_key_array,  \* [n][m] the key n stores for m, or NullKey
    used_slots,                \* [n] key slots in use, its own key pair's included
    trade_deal_is_open,        \* [n] may n accept an offer for its deal?
    trade_data,                \* [n] price, duration and signature of n's last deal
    broadcaster,               \* [n] amperage_broadcaster_task: place, terms and signature in hand
    drafting,                  \* [n] laset_listener_task: place, fields read so far
    listening,                 \* [n] the blocks a phase listener task of n is alive for
    deals,                     \* every trade deal broadcast (bcd)
    accepts,                   \* every acceptance sent (atd)
    blocks                     \* every block broadcast (bcb)

keyVars == <<key, keyless, foreign_public_key_array>>
sellVars == <<trade_data, broadcaster>>
vars == <<keyVars, used_slots, trade_deal_is_open, sellVars, drafting, listening,
          deals, accepts, blocks>>

-----------------------------------------------------------------------------
(***************************************************************************)
(* Signatures.  A signature is the key it was made with and what it was    *)
(* made over; Blank is zeroed memory.  A deal is signed as                 *)
(* "bcd,id,price,duration", an acceptance as "atd,id".                     *)
(***************************************************************************)
NoTerms == [price |-> 0, duration |-> 0]
Blank == [key |-> NullKey, terms |-> NoTerms]
DealSignature(n, t) == [key |-> key[n], terms |-> t]

(* A module whose key_pair_init failed goes on: it signs nothing, and      *)
(* broadcasts bytes that are no key.                                       *)
HasKey(n) == <<n, key[n]>> \notin keyless
PublicKey(n, k) == IF <<n, k>> \in keyless THEN NullKey ELSE k

(* sign_message leaves the zeroed buffer as it is if it fails.             *)
sign_message(n, t) == IF HasKey(n) THEN {DealSignature(n, t), Blank} ELSE {Blank}

(* import_public_key: the entry must hold a key, and a slot must be free.  *)
import_public_key_Faulty(n, m) ==                       \* the limit is off by one
    foreign_public_key_array[n][m] # NullKey /\ used_slots[n] <= KeySlots
import_public_key(n, m) ==
    foreign_public_key_array[n][m] # NullKey /\ used_slots[n] < KeySlots

(* verify_message under the key n stores for m.  It destroys the imported  *)
(* key if it verified the signature, and returns without that if not.      *)
verify_deal_Faulty(n, m, t, signature) ==               \* the price is not covered
    /\ signature.key = foreign_public_key_array[n][m]
    /\ signature.terms.duration = t.duration
verify_deal(n, m, t, signature) ==
    signature.key = foreign_public_key_array[n][m] /\ signature.terms = t
verify_accept(n, m, k) == k = foreign_public_key_array[n][m]

KeyLeaked(n) == used_slots' = [used_slots EXCEPT ![n] = @ + 1]

TermsOf(x) == [price |-> x.price, duration |-> x.duration]

IdleBroadcaster == [pc |-> "rql", terms |-> NoTerms, signature |-> Blank]
IdleDrafting(n) == [pc |-> "recvmsg", buyer |-> n, buyer_key |-> NullKey, terms |-> NoTerms]
EmptyTradeData == [price |-> 0, duration |-> 0, signature |-> Blank]
OnlyOwnKey(n, k) == [m \in Module |-> IF m = n THEN k ELSE NullKey]

-----------------------------------------------------------------------------
Init ==
    /\ key = [n \in Module |-> 1]
    /\ keyless \in SUBSET (Module \X {1})
    /\ Cardinality(keyless) <= MaxKeyless
    /\ foreign_public_key_array = [n \in Module |-> OnlyOwnKey(n, PublicKey(n, 1))]
    /\ used_slots = [n \in Module |-> IF HasKey(n) THEN 1 ELSE 0]
    /\ trade_deal_is_open = [n \in Module |-> TRUE]
    /\ trade_data = [n \in Module |-> EmptyTradeData]
    /\ broadcaster = [n \in Module |-> IdleBroadcaster]
    /\ drafting = [n \in Module |-> IdleDrafting(n)]
    /\ listening = [n \in Module |-> {}]
    /\ deals = {}
    /\ accepts = {}
    /\ blocks = {}

(* A new key pair, or only an error that is logged; the module's own entry *)
(* in the table is written from it.                                        *)
key_pair_init(n, made) ==
    /\ key' = [key EXCEPT ![n] = @ + 1]
    /\ keyless' = IF made THEN keyless ELSE keyless \cup {<<n, key[n] + 1>>}
    /\ Cardinality(keyless') <= MaxKeyless
    /\ foreign_public_key_array' = [foreign_public_key_array EXCEPT ![n] =
           OnlyOwnKey(n, IF made THEN key[n] + 1 ELSE NullKey)]
    /\ used_slots' = [used_slots EXCEPT ![n] = IF made THEN 1 ELSE 0]

(* A module that loses power loses everything in memory, its key pair and  *)
(* its chain included, and boots with a new one (laset_main).              *)
Reboot(n) ==
    /\ key[n] < MaxBoots
    /\ \A m \in Module \ {n} : key[m] = 1          \* bound: one module reboots
    /\ \E made \in BOOLEAN : key_pair_init(n, made)
    /\ trade_deal_is_open' = [trade_deal_is_open EXCEPT ![n] = TRUE]
    /\ trade_data' = [trade_data EXCEPT ![n] = EmptyTradeData]
    /\ broadcaster' = [broadcaster EXCEPT ![n] = IdleBroadcaster]
    /\ drafting' = [drafting EXCEPT ![n] = IdleDrafting(n)]
    /\ listening' = [listening EXCEPT ![n] = {}]
    /\ UNCHANGED <<deals, accepts, blocks>>

-----------------------------------------------------------------------------
(***************************************************************************)
(* amperage_broadcaster_task.  Its amperage broadcast has the same content *)
(* each time: LearnKey takes the key from it.                              *)
(***************************************************************************)

(* The deal is open: a new one is about to be made.                        *)
CheckDeal(s) ==
    /\ broadcaster[s].pc = "rql"
    /\ trade_deal_is_open[s]
    /\ broadcaster' = [broadcaster EXCEPT ![s].pc = "bcd"]
    /\ UNCHANGED <<keyVars, used_slots, trade_deal_is_open, trade_data, drafting,
                   listening, deals, accepts, blocks>>

(* create_trade_deal: random terms are signed and broadcast, whether the   *)
(* signing has failed or not...                                            *)
BroadcastDeal(s) ==
    /\ broadcaster[s].pc = "bcd"
    /\ \E t \in Terms : \E signature \in sign_message(s, t) :
           /\ deals' = deals \cup {[seller |-> s, price |-> t.price, duration |-> t.duration,
                                    signature |-> signature]}
           /\ broadcaster' = [broadcaster EXCEPT ![s] =
                  [pc |-> "price", terms |-> t, signature |-> signature]]
    /\ (\E d \in deals' : d.signature = Blank) => Cardinality(deals') <= MaxUnsigned
    /\ UNCHANGED <<keyVars, used_slots, trade_deal_is_open, trade_data, drafting,
                   listening, accepts, blocks>>

(* ...and stored afterwards, one field of trade_data at a time.            *)
StoreDeal(s) ==
    LET t == broadcaster[s].terms IN
    /\ \/ /\ broadcaster[s].pc = "price"
          /\ trade_data' = [trade_data EXCEPT ![s].price = t.price]
          /\ broadcaster' = [broadcaster EXCEPT ![s].pc = "duration"]
       \/ /\ broadcaster[s].pc = "duration"
          /\ trade_data' = [trade_data EXCEPT ![s].duration = t.duration]
          /\ broadcaster' = [broadcaster EXCEPT ![s].pc = "signature"]
       \/ /\ broadcaster[s].pc = "signature"
          /\ trade_data' = [trade_data EXCEPT ![s].signature = broadcaster[s].signature]
          /\ broadcaster' = [broadcaster EXCEPT ![s] = IdleBroadcaster]
    /\ UNCHANGED <<keyVars, used_slots, trade_deal_is_open, drafting, listening,
                   deals, accepts, blocks>>

-----------------------------------------------------------------------------
(***************************************************************************)
(* laset_listener_task: one message at a time, none while it drafts.       *)
(***************************************************************************)
Receiving(n) == drafting[n].pc = "recvmsg"

(* BCA: the key of another module.  The broadcast may be an old one that   *)
(* was on its way when the module rebooted.                                *)
LearnKey(n, m, k) ==
    /\ Receiving(n)
    /\ n # m
    /\ k <= key[m]
    /\ foreign_public_key_array' =
           [foreign_public_key_array EXCEPT ![n][m] = PublicKey(m, k)]
    /\ UNCHANGED <<key, keyless, used_slots, trade_deal_is_open, sellVars, drafting, listening,
                   deals, accepts, blocks>>

Affordable_Faulty(d) == d.price <= MaxPrice + 1         \* above the limit
Affordable(d) == d.price <= MaxPrice

(* BCD: a deal at an acceptable price, whose signature verifies, is        *)
(* accepted with an answer to its sender (or with nothing at all, if       *)
(* signing the answer fails)...                                            *)
AnswerDeal_Faulty(n, d) ==                              \* the key is not destroyed
    /\ Receiving(n)
    /\ HasKey(n)
    /\ n # d.seller
    /\ Affordable(d)
    /\ import_public_key(n, d.seller)
    /\ verify_deal(n, d.seller, TermsOf(d), d.signature)
    /\ accepts' = accepts \cup {[to |-> d.seller, buyer |-> n, key |-> key[n]]}
    /\ KeyLeaked(n)
    /\ UNCHANGED <<keyVars, trade_deal_is_open, sellVars, drafting, listening, deals, blocks>>

AnswerDeal(n, d) ==
    /\ Receiving(n)
    /\ HasKey(n)
    /\ n # d.seller
    /\ Affordable(d)
    /\ import_public_key(n, d.seller)
    /\ verify_deal(n, d.seller, TermsOf(d), d.signature)
    /\ accepts' = accepts \cup {[to |-> d.seller, buyer |-> n, key |-> key[n]]}
    /\ UNCHANGED <<keyVars, used_slots, trade_deal_is_open, sellVars, drafting, listening,
                   deals, blocks>>

(* ...and one whose signature does not is dropped, a key slot lost.        *)
DistrustDeal(n, d) ==
    /\ Receiving(n)
    /\ n # d.seller
    /\ Affordable(d)
    /\ import_public_key(n, d.seller)
    /\ ~verify_deal(n, d.seller, TermsOf(d), d.signature)
    /\ KeyLeaked(n)
    /\ UNCHANGED <<keyVars, trade_deal_is_open, sellVars, drafting, listening,
                   deals, accepts, blocks>>

Closed_Faulty(s) == trade_deal_is_open
Closed(s) == [trade_deal_is_open EXCEPT ![s] = FALSE]

(* ATD: an acceptance whose signature verifies closes the deal...          *)
AcceptTrade(s, a) ==
    /\ Receiving(s)
    /\ Cardinality(blocks) < MaxBlocks
    /\ a.to = s
    /\ trade_deal_is_open[s]
    /\ import_public_key(s, a.buyer)
    /\ verify_accept(s, a.buyer, a.key)
    /\ trade_deal_is_open' = Closed(s)
    /\ drafting' = [drafting EXCEPT ![s] =
           [pc |-> "price", buyer |-> a.buyer, buyer_key |-> a.key, terms |-> NoTerms]]
    /\ UNCHANGED <<keyVars, used_slots, sellVars, listening, deals, accepts, blocks>>

DistrustAccept(s, a) ==
    /\ Receiving(s)
    /\ a.to = s
    /\ trade_deal_is_open[s]
    /\ import_public_key(s, a.buyer)
    /\ ~verify_accept(s, a.buyer, a.key)
    /\ KeyLeaked(s)
    /\ UNCHANGED <<keyVars, trade_deal_is_open, sellVars, drafting, listening,
                   deals, accepts, blocks>>

(* ...then price and duration are read to be passed to create_block...     *)
ReadTerms(s) ==
    /\ \/ /\ drafting[s].pc = "price"
          /\ drafting' = [drafting EXCEPT ![s].terms.price = trade_data[s].price,
                                          ![s].pc = "duration"]
       \/ /\ drafting[s].pc = "duration"
          /\ drafting' = [drafting EXCEPT ![s].terms.duration = trade_data[s].duration,
                                          ![s].pc = "signature"]
    /\ UNCHANGED <<keyVars, used_slots, trade_deal_is_open, sellVars, listening,
                   deals, accepts, blocks>>

(* ...which copies the signature.  The block is broadcast and listened to. *)
DraftOf(s) ==
    [seller |-> s, price |-> drafting[s].terms.price, duration |-> drafting[s].terms.duration,
     signature |-> trade_data[s].signature,
     buyer |-> drafting[s].buyer, buyer_key |-> drafting[s].buyer_key]

DraftBlock(s) ==
    /\ drafting[s].pc = "signature"
    /\ blocks' = blocks \cup {DraftOf(s)}
    /\ listening' = [listening EXCEPT ![s] = @ \cup {DraftOf(s)}]
    /\ drafting' = [drafting EXCEPT ![s] = IdleDrafting(s)]
    /\ UNCHANGED <<keyVars, used_slots, trade_deal_is_open, sellVars, deals, accepts>>

-----------------------------------------------------------------------------
(***************************************************************************)
(* blockchain_listener_task: verify_block_hash checks the buyer's          *)
(* signature first and the seller's second.                                *)
(***************************************************************************)
BuyerVerified(n, b) == verify_accept(n, b.buyer, b.buyer_key)
SellerVerified(n, b) == verify_deal(n, b.seller, TermsOf(b), b.signature)

AcceptBlock(n, b) ==
    /\ n # b.seller
    /\ import_public_key(n, b.buyer)
    /\ BuyerVerified(n, b)
    /\ import_public_key(n, b.seller)
    /\ SellerVerified(n, b)
    /\ listening' = [listening EXCEPT ![n] = @ \cup {b}]
    /\ UNCHANGED <<keyVars, used_slots, trade_deal_is_open, sellVars, drafting,
                   deals, accepts, blocks>>

DistrustBlock(n, b) ==
    /\ n # b.seller
    /\ import_public_key(n, b.buyer)
    /\ \/ ~BuyerVerified(n, b)
       \/ import_public_key(n, b.seller) /\ ~SellerVerified(n, b)
    /\ KeyLeaked(n)
    /\ UNCHANGED <<keyVars, trade_deal_is_open, sellVars, drafting, listening,
                   deals, accepts, blocks>>

(* blockchain_phase_listener, at its end: open for new trades.             *)
EndListening(n, b) ==
    /\ listening' = [listening EXCEPT ![n] = @ \ {b}]
    /\ trade_deal_is_open' = [trade_deal_is_open EXCEPT ![n] = TRUE]
    /\ UNCHANGED <<keyVars, used_slots, sellVars, drafting, deals, accepts, blocks>>

-----------------------------------------------------------------------------
AmperageBroadcasterTask(n) ==
    n \in Seller /\ (CheckDeal(n) \/ BroadcastDeal(n) \/ StoreDeal(n))

LasetListenerTask(n) ==
    \/ \E m \in Module, k \in Key : LearnKey(n, m, k)
    \/ \E d \in deals : AnswerDeal(n, d) \/ DistrustDeal(n, d)
    \/ \E a \in accepts : AcceptTrade(n, a) \/ DistrustAccept(n, a)
    \/ ReadTerms(n)
    \/ DraftBlock(n)

BlockTasks(n) ==
    \/ \E b \in blocks : AcceptBlock(n, b) \/ DistrustBlock(n, b)
    \/ \E b \in listening[n] : EndListening(n, b)

Next ==
    \E n \in Module :
        Reboot(n) \/ AmperageBroadcasterTask(n) \/ LasetListenerTask(n) \/ BlockTasks(n)

Spec == Init /\ [][Next]_vars

-----------------------------------------------------------------------------
(***************************************************************************)
(* Properties                                                              *)
(***************************************************************************)
AnyPrice == {0} \cup {t.price : t \in Terms}
AnyDuration == {0} \cup {t.duration : t \in Terms}
AnyTerms == [price : AnyPrice, duration : AnyDuration]
Signature == [key : Key, terms : Terms] \cup {Blank}
Deal == {d \in [seller : Seller, price : AnyPrice, duration : AnyDuration,
                signature : Signature] :
            TermsOf(d) \in Terms /\ (d.signature = Blank \/ d.signature.terms = TermsOf(d))}
Acceptance == [to : Seller, buyer : Module, key : Key]
Block == [seller : Seller, price : AnyPrice, duration : AnyDuration, signature : Signature,
          buyer : Module, buyer_key : Key]

(* Every variable has its type; the slots in use never pass the library's  *)
(* limit, and at the limit imports fail (crypto.c:86-91).                  *)
TypeOK ==
    /\ key \in [Module -> Key]
    /\ keyless \subseteq Module \X Key
    /\ foreign_public_key_array \in [Module -> [Module -> Key \cup {NullKey}]]
    /\ used_slots \in [Module -> 0..KeySlots]
    /\ trade_deal_is_open \in [Module -> BOOLEAN]
    /\ trade_data \in [Module -> [price : AnyPrice, duration : AnyDuration,
                                  signature : Signature]]
    /\ broadcaster \in [Module -> [pc : {"rql", "bcd", "price", "duration", "signature"},
                                   terms : Terms \cup {NoTerms}, signature : Signature]]
    /\ drafting \in [Module -> [pc : {"recvmsg", "price", "duration", "signature"},
                                buyer : Module, buyer_key : Key \cup {NullKey},
                                terms : AnyTerms]]
    /\ listening \in [Module -> SUBSET Block]
    /\ deals \subseteq Deal
    /\ accepts \subseteq Acceptance
    /\ blocks \subseteq Block

(* The blocks of other modules that n accepted and still listens to.       *)
Verified(n) == {b \in listening[n] : b.seller # n}

(* A block another module accepts states the terms of one deal its seller  *)
(* broadcast, under one key pair, however the seller's two tasks wrote and *)
(* read trade_data, and although the seller may have rebooted in between   *)
(* (main.c:143-146, 463-472; chain.c:158-181).                             *)
VerifiedIsOffered ==
    \A n \in Module : \A b \in Verified(n) : \E d \in deals :
        /\ d.seller = b.seller
        /\ TermsOf(d) = TermsOf(b)
        /\ d.signature = b.signature

(* The buyer of such a block has answered its very seller, which must have *)
(* broadcast an affordable deal (main.c:408-442, 490-550; chain.c:147-156).*)
BuyerAnswered ==
    \A n \in Module : \A b \in Verified(n) :
        /\ [to |-> b.seller, buyer |-> b.buyer, key |-> b.buyer_key] \in accepts
        /\ \E d \in deals : d.seller = b.seller /\ d.price <= MaxPrice

(* With one seller in the neighbourhood, "don't accept multiple offers on  *)
(* the same deal" (main.c:446) is kept: its deal stays closed from the     *)
(* acceptance to the end of its block's listening, reboots included, and   *)
(* it never listens for two blocks of its own.                             *)
OneDealAtATime ==
    \A s \in Seller :
        LET own == {b \in listening[s] : b.seller = s} IN
        /\ drafting[s].pc # "recvmsg" => own = {}
        /\ drafting[s].pc # "recvmsg" \/ own # {} => ~trade_deal_is_open[s]
        /\ Cardinality(own) <= 1

(* Key slots are lost to nothing but reboots, failed signatures and torn   *)
(* drafts: as long as nobody has rebooted and whatever was broadcast is    *)
(* signed over the terms it states, each verification succeeds and gives   *)
(* its slot back (crypto.c:152-164; main.c:130-146, 463-472).              *)
Sound(x) == x.signature = DealSignature(x.seller, TermsOf(x))
SlotsKept ==
    (\A m \in Module : key[m] = 1) /\ (\A x \in deals \cup blocks : Sound(x)) =>
        \A n \in Module : used_slots[n] <= 1

(***************************************************************************)
(* What comments of the program say and its tasks do not keep.             *)
(***************************************************************************)

(* "If price is acceptable, accept trade!" (main.c:495): a block that its  *)
(* own buyer accepts has a price the buyer finds acceptable.               *)
PriceAgreed ==
    \A n \in Module : \A b \in Verified(n) : b.buyer = n => b.price <= MaxPrice
=============================================================================
