------------------------------- MODULE Ledger -------------------------------
(***************************************************************************)
(* What a block chain promises (chain.h): entries are only ever appended,  *)
(* none is changed afterwards, and each is linked to the entry before it   *)
(* twice over, by pointer and by a hash no earlier entry has.              *)
(***************************************************************************)
EXTENDS Naturals, Sequences

CONSTANT BaseHash     \* what the first entry has for a previous hash
VARIABLE chain        \* the entries from the first one to the head

LastHash == IF chain = <<>> THEN BaseHash ELSE chain[Len(chain)].hash

LinkedToHead(entry) ==
    /\ entry.previous_block = Len(chain)
    /\ entry.previous_hash = LastHash
    /\ entry.hash # BaseHash
    /\ \A i \in 1..Len(chain) : entry.hash # chain[i].hash

Init == chain = <<>>

AppendEntry ==
    /\ Len(chain') = Len(chain) + 1
    /\ \A i \in 1..Len(chain) : chain'[i] = chain[i]
    /\ LinkedToHead(chain'[Len(chain) + 1])

Spec == Init /\ [][AppendEntry]_chain
=============================================================================
