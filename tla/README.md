# A TLA+ model of the LASET grid trader

The repository is the software of a small neighbourhood grid: ESP32 modules
("LASET", C on FreeRTOS, `src/ESP32-Communication/station/main/`) trade power
with each other over UDP broadcasts and keep the trades in a block chain, and a
Python server (`src/server.py`) simulates the grid for them. This directory
models the modules' tasks from power-up to the appended block, the server's
threads, and the messages between them, wherever tasks, threads, messages and
deadlines interleave freely; it checks the models on small instances with TLC and
proves theorems about the core with TLAPS.

Below, `main.c`, `chain.c`, `crypto.c`, `communication.c`, `wifi_connect.c` and
`lasetsockets.c` are the files of these names under
`src/ESP32-Communication/station/main/`.

## The system

| component | state it keeps | operations | interacts through | modelled in |
|---|---|---|---|---|
| trade negotiation (`main.c` 116-193, 320-557) | `trade_data`, `trade_deal_is_open`, `foreign_public_key_array` | offer a deal every 2 s, answer one, accept an answer, draft the block | bca, bcd, atd, bcb datagrams; globals shared with the other tasks | `TradeDeal` |
| block validation (`main.c` 196-317, 561-678) | `phase_acceptance_array`, `chain_head`, UDP port 8889, the task's phase | receive and verify a block, acknowledge phases, count acks, adjust and append | bcb, bpa datagrams; the shared array, block and flag | `BlockValidation` |
| block chain (`chain.c`) | blocks on the heap, linked by pointer and hash | create, hash, verify, count modules | called by the tasks above | `BlockValidation`, abstractly `Ledger`; the bytes hashed: `Encoding` |
| key handling (`crypto.c`) | the PSA library's key slots | make, import, sign, verify | called by both listeners | `TradeDeal` |
| server link (`main.c` 75-114) | node id, amperage reading, `estimated_grid_calculation` | request and wait for the answer, for ever | one TCP socket used by three tasks | `ServerLink` |
| WiFi station (`wifi_connect.c`) | retry counter, event bits | connect, retry five times | event handler and main task | `WifiStation` |
| module start (`main.c` 681-729, `lasetsockets.c`) | the socket, the node id | wait for WiFi, connect, register, start the tasks | WiFi station and server link | `Station`; keys: `TradeDeal` |
| grid server (`server.py`, `simulator.py`) | free and taken node ids, one thread per connection | hand out ids and take them back, answer readings and load calculations | TCP | ids: `GridServer`; a thread: `ServerLink` |
| messages (`communication.c`, `models.h`) | none | send, decode | called by all tasks | `Encoding`; delivery: the models' network |
| load calculation (`validator.py`), display (`graphics.c`), test programs | - | - | - | not modelled |

A trade runs as follows. A module with a negative amperage reading broadcasts a
deal (**bcd**); another that finds the price acceptable answers (**atd**); the
seller closes the deal, drafts a block, broadcasts it (**bcb**) and starts a
*phase listener* task for it. Every module that verifies the block starts one
too, asks the server for a load calculation per 5-second phase, counts the
phase in its own array and broadcasts an acknowledgement (**bpa**). Two seconds
after the block's duration the listener pays the phases that have two thirds of
the modules behind them, hashes the block again, makes it `chain_head` and
reopens the deal.

### What is hard here

* Four tasks of one priority on two cores share globals, and only the increments
  of the phase array are under a mutex (its `memset` is not).
* The array, the port and the open flag are one per module, the listeners one
  per block: two blocks listened to at once disturb each other.
* A link of the chain is taken from three moments: the previous hash at the
  acceptance, the previous pointer at `create_block`, the new head at the
  deadline.
* The duration that drives a validator's loop is rewritten under it, and its
  acks carry the hash the block has by then.
* UDP: loss, delay, reordering, duplication; nothing is sent again. The
  deadline is on the wall clock, the waits on the server have no bound.
* `trade_data` is written and read field by field by two tasks; an acceptance
  names no deal; a rebooted module has a new key. A key pair that is not made, a
  signature that fails and a node id of -1 are logged, and the module goes on.
* One socket to the server is shared by two tasks without a lock, its answers are
  stored by type, and requests have no end mark: answers are swapped, requests
  run together, and the value a task decides on may be an older one.
* The WiFi, the connection and the server's thread each may break for good, and
  nothing connects again.
* The server's accept loop and its threads work on the two lists of ids at once.
* Numbers are sent as text, hashes and keys as they are: any byte may be a
  separator. The terms are hashed from a field too short for them.

### What makes it correct

* Block validation: an ack is counted once, for its own block and phase;
  nobody is paid more than the seller signed; a quorum is neither empty nor out
  of reach; modules that hear the same adjust a block alike; the chain only
  grows; the tasks come back to rest.
* Negotiation: a block that is verified states terms its seller really offered
  and a buyer that really answered; a deal stays closed while it is sold; a
  verification gives its key slot back.
* Server link: swapped answers are made good, no answer is left for a later
  request, and whoever waits is answered unless something has broken.
* Module start: no task runs on a socket that was never connected or, while the
  server serves the module, under another id than the answered one; the main task
  is told when the WiFi has given up.
* Grid server: no id is out twice, ids come back before they are needed, and each
  id is in one list.
* Messages: what is read is what was sent, whatever the bytes are, and blocks with
  other terms are hashed over other bytes.

## Modules

| module | what it is |
|---|---|
| `Ledger` | abstract: an append-only chain, each entry linked to the last by index and by a fresh hash |
| `BlockValidation` | the tasks of `main.c` from the accepted trade to the appended block |
| `MCBlockValidation` | model values, symmetry sets, key tables and terms for TLC |
| `BlockValidation_proofs` | type correctness, feasible quorums, and the seller's chain implements `Ledger` |
| `LoneListener_proofs` | what the deadline of an undisturbed block does |
| `AckCount_proofs` | what the tally of an undisturbed block counts |
| `OneTrade_proofs` | the modules that vote on one trade add the same block |
| `TradeDeal` | the tasks from the offer to the verified block, keys and reboots included |
| `MCTradeDeal` | model values and terms for TLC |
| `TradeDeal_proofs` | types, offered terms, answered deals, one deal at a time, key slots given back |
| `WifiStation` | the WiFi event handler, its retries and event bits |
| `ServerLink` | the tasks of a module and the server's thread at the two ends of one TCP connection |
| `Station` | composes `WifiStation` and `ServerLink` under `laset_main` |
| `Station_proofs` | types, no answer left over, no task before registration, giving up is told, fresh values while served |
| `GridServer` | the accept loop and the threads of the server on its lists of node ids |
| `MCGridServer` | households, addresses and pools for TLC |
| `GridServer_proofs` | no id is out twice until a household comes back; types; each id in one list, nobody without one |
| `Encoding` | the messages on the wire, `payload_decoder`, the bytes a block is hashed over |
| `MCEncoding` | negative readings, and one wider than a short, for TLC |
| `Encoding_proofs` | what is read is what was sent; no field too many; other terms, other bytes |

`TradeDeal` and `BlockValidation` meet at the drafted and the verified block:
`TradeDeal` follows its terms and signatures, `BlockValidation` its votes.
`ServerLink` refines what `BlockValidation` leaves open, the estimate a phase is
decided on; `GridServer` what `TradeDeal` and `ServerLink` take for granted, the
node id; `Encoding` justifies that all of them pass messages as records.

### BlockValidation

Every global of a module is a function from module to value under its C name
(`chain_head`, `phase_acceptance_array`, `trade_deal_is_open`, ...). `heap[n]`
holds the blocks `n` has allocated in order, so a pointer is an index into it
and 0 the null pointer; `listener[n][b]` is the phase listener task of block
`b`, `port[n]` the listener that managed to bind UDP port 8889,
`validator[n]` the place of `blockchain_listener_task` and `drafting[n]` that
of the ATD branch of `laset_listener_task`. An action is the code between two
points where another task or module can tell the difference.

| action | code |
|---|---|
| `LearnKey` | `main.c` 403-407 |
| `AcceptTrade`, `DraftBlock` | 408-460, 463-486: the deal is closed and the hash copied, then the block is made from `trade_data` and the head as they are by then |
| `AcceptBlock`, `RejectBlock` | 602-643, 628-634 |
| `CheckPhase`, `TallyPhase`, `BroadcastAck`, `RefusePhase` | the phase loop 644-671; the estimate is a free choice |
| `StartListening` | 196-251, the `memset` that takes no mutex and the `bind` that may fail included |
| `RecvAck` | 253-285 |
| `AppendBlock`, `CloseListener` | 287-309, 311-317 |

Abstractions:

* A hash is collision free and covers what `create_block_hash` feeds it, so it is
  the sequence of contents from the first block on. The seller's signature is
  the duration it was made over; price and ids are fixed within a trade
  (`TradeDeal` has them). `TornTerms` gives a block a duration other than the
  signed one: other modules reject it.
* A receiver ignores the hash in the bcb and computes its own, as the code does.
* Deadlines and waits are untimed: a listener's deadline may fall between any two
  steps, also while votes that concern its block are outstanding (`CutShort`).
* A module does not hear its own broadcasts. A datagram that is lost for a receiver
  is one it never receives; `MaxDups` datagrams may be received twice.
* The validator starts its loop after its own listener has started: that is
  what the 100 ms delay (639) is for.
* While the listener adjusts a block its duration is 0 for an instant; a
  validator that reads it then leaves its loop, which other modules cannot tell
  from one that refuses the remaining phases.
* A socket that errors out of its receive loop (271, 607) is left out.

History variables, read by properties only: `cast` (every ack made) and `disturbed`
(blocks whose listening overlapped another listener or a validator at work, or whose
deadline came before the votes were in). Several properties are about blocks that
are not disturbed, because the code gives no more: for disturbed ones the runs
`dropped_block` and `reopened_deal` show what happens.

### TradeDeal

`key[n]` counts the boots of a module: each makes a key pair, or none
(`key_pair_init`): such boots are in `keyless`, as many as `MaxKeyless`. `crypto.c`
23-45 and `main.c` 690-692 only log the error: the module goes on, every signature
it makes fails, and the amperage broadcasts carry bytes that are no key, which
others store like a key and cannot import (`NullKey`). A public key that cannot be
exported leaves the others the same.

`broadcaster[n]` and `drafting[n]` are the places of `amperage_broadcaster_task` and
`laset_listener_task`; `trade_data` is written in three steps and read in three, so
a block can be drafted from two deals. `deals`, `accepts` and `blocks` hold every
datagram ever sent: any of them may be received never, late or again. `used_slots`
counts the PSA key slots; `KeySlots` is small in the runs so that the limit is
reached (the library's default is 32).

A signature is the key it was made with and what it was made over. Making one may
also fail with a key pair (`sign_message`, `crypto.c` 126-129): a deal is broadcast
and stored all the same (`main.c` 130-146), with zeroed memory for its signature
(`Blank`), which nobody verifies. How many bytes of it are printed is then undefined
(`signature_length`, 127, is not initialised); whatever is printed, the model takes
the receiver to read no signature that verifies, and an overflow of the buffer is
not followed. `MaxUnsigned` bounds how many different deals are broadcast in a
behaviour with such a one. An answer whose signature fails is not sent (`main.c`
534-538): a step that changes nothing.

| action | code |
|---|---|
| `Reboot` | `laset_main` 681-729 |
| `CheckDeal`, `BroadcastDeal`, `StoreDeal` | `amperage_broadcaster_task` 159-178, `create_trade_deal` 116-141, 143-147 |
| `LearnKey` | 403-407; a broadcast from before a reboot may still arrive |
| `AnswerDeal`, `DistrustDeal` | the BCD branch 487-551 |
| `AcceptTrade`, `DistrustAccept` | the ATD branch 408-446 |
| `ReadTerms`, `DraftBlock` | 463-486 |
| `AcceptBlock`, `DistrustBlock` | 613-638 with `verify_block_hash`, `chain.c` 132-181 |
| `EndListening` | 311-317; the rest of a block's listening is `BlockValidation`'s subject |

A branch that changes nothing (price too high, key not known, no slot free) is a
stuttering step. One module reboots per behaviour (a bound), as often as `MaxBoots`
allows; any module's first boot may be without a key pair. It is assumed to get the
node id it had; how the server hands out ids is left to `GridServer`. The copy of a
key into the table is one step: a key half overwritten verifies nothing.

### WifiStation, ServerLink and Station

| action | code |
|---|---|
| `HandleStart`, `HandleDisconnected`, `HandleGotIP` | `event_handler`, `wifi_connect.c` 11-12, 16-23, 28-35 |
| `Start`, `GetAddress`, `Disconnect` | the driver (external): an attempt succeeds or fails, a connection breaks |
| `WifiDone` | the wait for either bit, `wifi_connect.c` 76-87 |
| `ConnectSocket` | `create_connect_tcp_socket`, which returns after one attempt (`lasetsockets.c` 35-39), and the call that follows (`main.c` 706) |
| `StartTasks` | `main.c` 709-728 |
| `Call`, `Use` | a task calls `tcp_send_and_update` and decides on what is stored afterwards (159-163, 643-671) |
| `Send`, `Recv`, `RecvNothing`, `Error`, `Decode` | 81-84, 91, 97-112, and the two `continue`s 84-95 |
| `ServerRecv`, `ServerAnswer` | one turn of the thread's loop, `server.py` 59-97 |
| `ServerRecvJoined`, `ServerFails` | an exception ends the thread, 105-108 |
| `CloseDead` | the dead thread's socket loses its last reference when the accept loop takes another one (27) |
| `Reset`, `Abort` | TCP (external) |

A request, and the answer to it, is the task it is for and its `age`: how many
requests that task has sent since. `known[t]` is the age of the request that
the value stored for task `t` answers, so 0 is the newest; ages are told apart
up to `MaxAge`. What the value is does not matter to the link. A small segment
is never split, but a `recv` may return several that have arrived (`Recv`,
`ServerRecvJoined`). The three kinds of request are for one task each, so a
value has one owner although anyone stores it. The id is the exception, because the
code tells its values apart: `pni` is what the server has answered, an id of its
own (`NodeIds`) or -1 if it has none left, and `node_id` what the module has stored.
An id of -1 is logged (`main.c` 100-102), stored like any other (103), and the
tasks start with it. `Call` assumes what the delays of
seconds give: a task that has an answer in hand stores it before another task
starts its next request.

`Station` composes the two with INSTANCE and adds `laset_main`; a WiFi event leaves
the link alone and a step of the link the WiFi, but a connection is aborted only
while the WiFi is down. The event bits are never cleared, so the connected bit may
stand although the module is offline, for good if the last attempt has failed, and
"Will block flow until connection is established" (`main.c` 682) is true of the
first attempts only: after the last one the main task goes on without WiFi. What
keeps it from starting the tasks is the request for the node id, which then fails
for ever. So `RunsRegistered` says that the tasks run on a socket that was connected
and, as long as the server's thread lives, with the id it has answered. It does not
say that this is a valid id: -1 is one of the answers. If the thread has ended,
`recv` returns 0, and the tasks start with the -1 from boot.

### GridServer

| action | code |
|---|---|
| `Connect` | a module boots and connects (`main.c` 700-706) |
| `Accept`, `StartThread` | `server.py` 27-29, 42-45 |
| `FreeNext`, `SortPool` | the loop that takes ids back, 31-35 |
| `KeepNext`, `ReplaceTaken` | the list comprehension and its assignment, 36-37 |
| `TestPool`, `RecordId`, `PopId` | `get_node_id`, `simulator.py` 57-66 |
| `Fail` | the `IndexError` of line 63 or 66 |

A call on a list is atomic: the `match` statement needs CPython 3.10, whose
interpreter lock is given up only at a function's start or a loop's end. To be safe
the steps are finer than that: each call and each turn of a loop is one. `accepting`
holds the accept loop's place, the list iterator's index and the list under
construction; both loops run over `taken_nodes` while threads lengthen it. `addr[0]
not in nodes[0]` (37) tests for a substring: `Within` says which household's address
is a part of another's. A household asks for an id once per connection, right after
connecting.

`FirstIdsUnique` holds whatever interleaves. `OrderlyUnique` drops its condition on
who has come back for one on how: as long as no two operations on the lists
overlapped (`disorder`), no id is out twice, also after the substring test has made
the server forget a household that is still there - its id is lost, but not given
out again. `Accounted` and `ServedWithinCapacity` are about behaviours in which
nothing overlapped and no household with a shorter address came back; `shared_id`
shows what an overlap does. A fourth household is answered -1, and the module only
logs that (`main.c` 100-103; `Station` has this) before it uses the id as an index
(710); that is undefined behaviour and not followed further.

### Encoding

Bytes are numbers, and the operators do what `snprintf`, `atoi`, `sscanf` and
`memcpy` do to them. `sent` is what one datagram or segment holds: one message,
or two answers of the server. `payload_decoder` keeps the code's structure: the
loop that cuts at separators (`Reached`, `Cut`), the three headers behind whose
n-th separator binary fields begin (`BinaryAt`), the tests that end it (`Stops`).
Hashes, signatures and keys are shorter than in the code (`HashSize`,
`SignatureSize`, `KeySize`), their bytes any of `Bytes`. A key of 7 bytes suffices to
pass the 9 fields there is room for. Receive buffers are cleared before
each message, so a buffer is what was sent, padded with zeros, and of two answers
that do not fit the second is cut off (`BufferSize`).

A module keeps every number in a short (`models.h` 25-32), and the decoder stores the
int that `atoi` returns in it (`Short`: its lower 16 bits). What modules send are
shorts; a reading comes from the server as an int of any size and is read as
`ReadAs` says. A load calculation is read with `atof` into a double, here without
its decimals. An id may be -1 in what a module sends before it has one or if it got
none (`Holders`), and so may the reading (`Amperages`); blocks have valid ids,
because the tables they are looked up in have no index -1.

`HashedText` is the field of ten bytes the terms are written into: `sizeof(int)*4 -
sizeof(char)*6` is less than the eleven of ",3,20,60,5,", but what is cut off is
the last comma only.

## Runs

The deployed neighbourhood has three modules, ids 3, 5 and 6 (`simulator.py:22`),
of which only 3 overproduces (`server.py:115`): that is the instance `one_trade`
takes. With more trades or deals two modules already give every overlap of
listeners, validators and drafts within one module; a third would add more of
the same acks and answers. `MaxPhase` is 1 or 2 instead of 12: two phases are
needed for one to be paid and the other not, and for a validator to be
interrupted between them.

| run | instance | shows |
|---|---|---|
| `one_trade` | 3 modules, 1 seller, 2 phases, 1 trade | `TypeOK`, `AcksBacked`, `Agreement`: tallies are right at every interleaving, and listeners that were not cut short agree |
| `two_trades` | 2 modules, 1 seller, 2 phases, 2 trades | `AcksBacked`, `PaidWithinTerms`, `SellerKeepsLedger`: overlapping trades, the seller's chain implements `Ledger` |
| `faulty_network` | 2 modules that know their own key only, torn blocks, a duplicated datagram, fair tasks | `QuorumFeasible`, `PaidWithinTerms`, `AppendsToHead`, `TradeReopens`, `ValidatorReturns` |
| `negotiation` | 2 modules, 1 seller, 2 deals, 2 blocks, one module reboots, 2 key slots, one boot without a key pair, 2 different deals if one of them has no signature, else all 4 | `TypeOK`, `BuyerAnswered`, `OneDealAtATime`, `VerifiedIsOffered`, `SlotsKept` |
| `station` | 2 retries, ages up to 3, one id besides -1 | `TypeOK`, `NeverStranded`, `NothingLeftOver`, `FreshWhileServed`, `RunsRegistered`, `Answered` |
| `grid_server` | 3 households, 2 ids, 4 connections | `TypeOK`, `FirstIdsUnique`, `OrderlyUnique`, `Accounted`, `ServedWithinCapacity`, `Handled` |
| `encoding` | the deployed ids; one- and two-digit numbers, negative ones, the lowest short and one that is no short; bytes NUL, ',' and ';' | `FirstIsRead`, `FieldsFit`, `HashedApart` |

Quorums are checked where they can go wrong: in `faulty_network` modules learn the
keys while they trade, whereas in `one_trade` all are known from the start and two
thirds of them is one number.

In `negotiation` a second key slot is the one every import needs, so a single slot
that is not given back is felt at once. One boot without a key pair, of either
module and at the first boot or the second, meets messages from before and after it.
With an unsigned deal there is one other: signed, of the same terms or of others, or
made after the reboot. Without one there are all four, two terms under two keys.

In `station` two retries give a first, a middle and a last attempt, and a fourth
age would only be told from the third, which `FreshWhileServed` excludes already.
In `grid_server` two ids for three households empty the pool, and four
connections let one household come back while the others are being served, or
twice. `grid_server` and `encoding` turn deadlock checking off: connections are
bounded there, and a message is received once. Elsewhere something can always
happen. In `encoding` a segment of two answers may be longer than the 12 bytes
received at once, so that the second is cut off.

Five runs show a comment of the code that the code does not keep (details and
quotes under "findings" in `PROJECT.json`):

| run | what happens |
|---|---|
| `dropped_block` | A receiver still listening to one block when the seller drafts the next appends both to the same head; the first is no longer in its chain |
| `reopened_deal` | The end of another seller's block reopens a deal that is still being sold |
| `other_terms` | A seller offers a second deal before the answer to its first arrives; the block has the second deal's terms and the buyer's signature, and the buyer itself verifies it |
| `stale_estimate` | The validator takes the amperage reading the broadcaster waits for, and decides on the load calculation of an earlier phase or on the value from boot |
| `shared_id` | Two threads note one id and answer two; a reconnecting household then frees the other one's id, which is given out again |

Two more disagreements have no run. A receiver hashes a block over the previous
hash in the message and links it to its own head (`main.c` 617-626): once chains
differ, "generates a hash for that block based on the previous block" (`chain.c`
191) is not true of it. And a verification that fails returns before "Destroy
the key and its attributes." (`crypto.c` 155-158), so it keeps its key slot;
`TradeDeal` models this (`KeyLeaked`), and at the limit no key can be imported.
`SlotsKept` says when that may happen: after a reboot, a failed signature or a block
drafted from half a deal, and for no other reason.

`Agreement` has a limit worth knowing. It is about blocks of one trade whose
listeners were not `disturbed`. With three modules and two trades in a row an ack
for the second block can reach a module whose listener still waits for the first,
and that listener reads and drops it (`main.c` 279): modules then disagree
although every message arrived.

The definitions ending in `_Faulty` are each a plausible mistake in the
definition that follows; substituting one breaks the property `PROJECT.json`
lists it under, which shows that the property depends on that line of code.

### Fairness

`FairSpec` assumes weak fairness of drafting a block, of each listener task and of
the validator. The FreeRTOS scheduler runs every ready task of equal priority
in turn; a listener leaves its receive loop by the clock whatever it receives
(`select` has a timeout); and the validator's requests are assumed to be
answered by the server, without which the code waits forever (92-95). Nothing is
assumed of the network and nothing of the negotiation: whether a trade is ever
made is not claimed.

`Station` assumes weak fairness of the server's thread while the module is
online (it runs, and a load calculation ends), and of each task's steps in
`tcp_send_and_update`; and strong fairness of `Recv`, because the other task may
take the answers in between: of the tasks that wait on a socket, lwIP's mailbox
and FreeRTOS wake the one that has waited longest. Nothing is assumed of the
WiFi, of TCP or of when a task makes its next request; `Answered` names every
break after which a task may wait for ever.

`GridServer` assumes weak fairness of the accept loop and of each thread: the
interpreter switches between threads that are ready.

## Proofs

All theorems hold for every value of the constants that satisfies the named
assumptions of the module they are about: finitely many modules, phases of 5
seconds, a module knows its own key (`BlockValidation`); durations above 0, a slot
for the module's own key, a first boot (`TradeDeal`); at least two ages and ids
above 0 (`Station`); a sorted pool without duplicates, which `simulator.py:22` is,
and no -1 in it (`GridServer`). Of `Encoding`: ids, prices, durations and phases are
shorts and not negative, readings and loads are ints, but not the lowest one; a byte
is a byte; each message fits in the buffer it is received in, which are 512 bytes
for a datagram (`main.c` 224, 367, 588) and 127 for an answer of the server (78,
91); and the text of the four terms of a block is no longer than that of ids of one
digit (`simulator.py:22`) and a price and a duration of two (`main.c` 184-185).

Of `BlockValidation`:

* `TypeCorrect`: `Spec => []TypeOK`. `TypeOK` is inductive because it contains
  what ties the variables together: a listener per allocated block, pointers
  within the heap, and a validator whose phase is in the array whenever it is
  past the loop test. One lemma per action.
* `QuorumCorrect`: `Spec => []QuorumFeasible`. The strengthening `KeysKnown` says a
  module always holds its own key, and a listener is only created once it holds
  those of buyer and seller as well (`verify_block_hash`, the ATD branch), of
  which one is not its own; so it counts between 2 and all modules, and two
  thirds of that, rounded down, are between 1 and all but one.
* `SellerRefinesLedger`: with a single seller, `Spec => SellerKeepsLedger`. The
  invariant `SellerInv` says that every block in the seller's heap is its own
  (`OnlySeller`), that its trade is at one of four places in turn - open,
  drafting, listening to the newest block, appended but not closed - with the
  deal closed in all but the first (`TakingTurns`), and that blocks below the
  head are linked by pointer and hash (`Linked`). So no second block can be
  drafted between the copy of the hash and the end of the listening, and the
  only step that changes the chain appends one linked entry. The step is then
  shown to be an `AppendEntry` of `Ledger` or a stutter.
* `LoneAppends`, `LonePaidWithin`: `Spec => AppendsToHead` and `Spec =>
  PaidWithinTerms`. The invariant `LoneInv` says of a *lone* block, one whose
  listener is alive and was never disturbed, that no other listener is alive
  (`LiveApart`), that it is linked to the present head (`HeadLinked`), and that
  the validator, if at work, is at work on it (`WorksOn`). That a phase beyond its
  duration stays empty (`TallyWithin`) cannot be seen in one module: the
  invariant also says that a vote whose hash is that of terms as their seller
  signed them is for one of their phases (`AcksWithin`), because the validator that
  cast it tested the phase against the duration of that hash, and that blocks carry
  the hash made of what they hold (`Hashed`). With `QuorumCorrect` an empty phase
  is not paid.
* `LoneCountsOnce`: with a single seller and no duplicated datagram, `Spec =>
  []AcksBacked`. A count is compared with a set: the modules whose
  acknowledgement the listener has received, or made itself (`Counted`). Every
  increment has to add a module to it (`OneMore`), so nobody may acknowledge a
  phase of a block twice. `Once` says why: a module acknowledges the phases of
  the block at hand in growing order (`OnceEach`); the trades of the one seller are
  told apart by the length of their hash, whatever the deadlines do to the hash
  itself, and each module is sent each of them once (`NumbersNew`). It builds on
  `SellerInv`, which numbers the trades, and `LoneInv`, by which the
  tally starts from zero and is the lone block's only.
  Both assumptions are used: an acknowledgement that arrives twice is counted
  twice, and of two sellers' trades the lengths say nothing.

* `OneTradeAgrees`: with a single seller, a single trade and no duplicated datagram,
  `Spec => []Agreement`, for any number of modules and phases and any terms,
  signed or torn. The bound of `LoneCountsOnce` is not enough: two tallies are
  equal only if each is known exactly, so `TallyIsGot` equates a tally with the
  number of the modules in `Got`, the voter itself and whoever's ack has arrived. An
  ack is in it only if it was `Sent` under the hash of the block. A module counts
  its own vote before it sends it, and if its deadline falls in between, the
  vote goes out under another hash and reaches nobody; `Counted` would hold such a
  vote for received. At a deadline that cuts nothing short, `Got` is all that was
  sent (`QuietCounts`), the block has reached everyone it will reach, and whoever
  still votes does so under another hash; this stays so (`Over`, `StaysOver`), and
  the duration paid is that of the phases `Won` (`PaidAsSent`), the same for
  everyone with the same quorum.
  Each assumption is used. An ack that arrives twice is counted twice; and acks of
  one trade that reach a listener of another one are dropped, which happens with
  two trades of one seller as with those of two.

Of `TradeDeal`:

* `TypeCorrect`, `OnlyOfferedTerms`, `OnlyAnsweredDeals`: `TypeOK`,
  `VerifiedIsOffered`, `BuyerAnswered`. `Inv` follows a deal through its places: a
  deal is broadcast before its fields are stored, so whatever signature
  `trade_data`, a draft or a block holds is blank or that of a broadcast deal
  (`StoringOK`, `StoredOK`, `BlocksOK`), and a verification succeeds only if the
  terms are those of the signature. An acceptance is in the network for every
  draft, every block and every block listened to (`DraftingOK`, `BlocksOK`,
  `ListeningOK`), and an affordable deal behind every acceptance (`AcceptsOK`).
* `SlotsGivenBack`: `SlotsKept`. As long as nobody has rebooted, the keys that are
  stored and those an acceptance was made with are their modules' own (`KeysMade`),
  and what was broadcast is signed over its terms; so a verification that gets as far
  as a key succeeds (`NothingDistrusted`). The condition is about the past, not a
  step: what is untroubled after a step was so before it (`UntroubledBack`).
* `SingleSellerOneDeal`: `OneDealAtATime` if there is one seller (`TakingTurns`: open,
  drafting, or listening to one block of its own). With two it is false, as
  `reopened_deal` shows of `BlockValidation`.

Of `Station`:

* `TypeCorrect`, `NoAnswerLeft`, `OnlyRegisteredRun`, `GivingUpIsTold`: `TypeOK`,
  `NothingLeftOver`, `RunsRegistered`, `NeverStranded`. `SInv` says what the event
  queue holds in each state of the station (`EventsOK`), which task may be where in
  each phase of the start (`BootOK`, `UnusedOK`), and that the main task asks but
  once while the thread lives, so that what is under way for it is the answer to
  that request (`OnceOK`). `RegisterOK` adds that an answer for the main task, under
  way or in hand, means that an id was answered, and a main task past `Decode` that
  it is the stored one (`IdKept`) and no answer is left that could change it.
  `NothingLeftOver` compares two counts, and is inductive: each step moves a request
  or an answer and the task that waits for it together.
* `ServedIsFresh`: `FreshWhileServed`. The bound of three requests is not
  inductive: a task whose value is two requests old must not take an answer of
  the other task and ask once more. What prevents it is what the other task is
  doing. The answers sent, the request being served and the requests not yet
  received form one `Line`, which each step of the server leaves as it is, a
  request lengthens at its end and a `recv` shortens at its front. By
  `NothingLeftOver` it is no longer than the tasks that wait (`Counted`), each of its
  entries is one of its task's last two requests, and there once (`LineOK`); and a
  task falls behind only while the other one waits with nothing of its own under
  way (`Calm`), so that what comes next is for the one that is behind, or it has
  to wait too. `Settled` says this of both tasks and one lemma shows each kind
  of step to keep it (`SettledMove`, `SettledSend`, `SettledRecv`,
  `SettledDecode`).

Of `GridServer`:

* `NoIdTwice`: `FirstIdsUnique`. While nobody has come back the accept loop leaves
  the lists alone, so the pool is only ever popped: it stays sorted, and no id
  answered is still in it (`GInv`). That two threads note the same id does not
  matter, because a thread answers what it has popped.
* `TypeCorrect`: `TypeOK`, for whatever interleaves. The index of the accept loop
  stays within the list it walks over because threads only lengthen that list and
  `ReplaceTaken` puts the index back (`LoopOK`). Sorting is stated by its result, a
  rearrangement in order (`Sorted`), so the proof has to show that there is
  one: a pool in order whose last element alone is new is put in order by
  inserting that element (`Rearranged`), and `PoolSorted` says that this is all the
  accept loop ever has to sort.
* `IdsAccounted`, `WithinCapacity`: `Accounted` and `ServedWithinCapacity`. Neither
  is inductive, because between operations an id may be in both lists or a household
  noted twice. `Book` says of every point within an operation which of the two it
  is: one thread at most is at the lists and the accept loop is not then
  (`OneAtATime`), nothing is in the taken list twice (`EachOnce`), an id is in both
  lists only between the loop that frees it and the comprehension that drops its
  node, or between a thread's noting and popping it (`Places`), and the new list
  under construction holds what has been walked past and is not the caller's
  (`KeptOK`). A household that asks is not noted (`NotNoted`), so when the pool is
  empty each id is another household's: there would be more households than
  ids. The book is kept while `Undisturbed` holds, which once false stays false.

Of `Encoding`:

* `ReadAsSent`, `NoFieldTooMany`: `FirstIsRead` and `FieldsFit`, for messages of any
  size. `ReadInv` only says that the buffer is what was sent and that what was
  decoded is right; the work is in `BufferIsRead`, that `payload_decoder` reads any
  buffer that begins with an encoded message as that message. `TextIsRead` says that
  `atoi` undoes `%i` and `HexIsRead` that `sscanf` undoes `%02x`, and both that no
  separator is printed. So in the text of a message the only separators are those
  the sender put behind the fields, the k-th of them ends the k-th field, and what
  the loop counts is how many fields are behind it. It stops with the last of them
  and not before: for a message that ends in text because this is the only
  semicolon, for the others because its number is that of `BinaryAt`. Whatever
  follows - a key whose bytes are separators, another answer - is not looked at, and
  there are at most five fields for the nine places. A number that is a short is
  then kept as it is, and any other as its lower 16 bits (`KeptIs`).
* `HashTellsTerms`: `HashedApart`. The field cuts off at most the last comma of the
  text. So of two texts that are hashed alike the first differing byte would be
  in a field or a comma that both fields hold: the commas are at the same places, the
  texts between them are the same (`SameFields`), and `atoi` reads one number
  from each.

Digits, places and pieces are given by recursive functions. The induction over them
does not need the library's induction theorems: a set of numbers that is not empty
has a smallest member (`Smallest`), and so a set that contains a number whenever it
contains those below it contains them all (`Induction`).

### Only model-checked

* `AcksBacked` for several sellers and `Agreement` for several trades: the first
  is neither checked nor proved, the second is false.
* `OrderlyUnique`: the book of `IdsAccounted` does not hold once the server has
  forgotten a household.
* `Agreement` and `PaidWithinTerms` say nothing of blocks whose listening overlapped
  another: an increment that survives the `memset` (201), a listener that could not
  bind its port (210) and an ack that another listener has read (279) are steps of
  the model, but what the code promises of such blocks is only that their deals
  reopen and their validators return (`TradeReopens`, `ValidatorReturns`).
* `TradeReopens`, `ValidatorReturns`, `Answered`, `Handled`: liveness; the prover
  does not handle fairness and ENABLED.

## Not modelled

* The load calculation (`validator.py`): it runs an Octave program that is not in
  the repository. The models let it fail and leave its answer open.
* The display (`graphics.c`): `main.c` does not call it.
* The inside of PSA and SHA-256: signatures and hashes are ideal.
* The test programs (`src/Testing`, the on-target unit tests).
* `app_main`'s flash initialisation, the values of `grid_load` and of the readings,
  and sockets that cannot be created at all.

## Plan

* A composition of `TradeDeal` and `BlockValidation` at the drafted block, with
  `ServerLink`'s estimates deciding the phases.

