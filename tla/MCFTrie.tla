------------------------------- MODULE MCFTrie -------------------------------
(***************************************************************************)
(* Instances of FTrie for TLC: addresses of eight bits, two windows deep.  *)
(***************************************************************************)
EXTENDS FTrieProps, TLC

CONSTANTS v1, v2

N(bits, len) == [val |-> [i \in 1..8 |-> (bits \div 2^(8-i)) % 2], len |-> len]
A(bits) == N(bits, 8).val

(* Prefixes that nest, two of them below one slot. *)
NestedNets == { N(128, 2), N(165, 8), N(172, 6) }

(* With prefixes that lose their last bit, to the root and to a slot beside  *)
(* the others, and an address with mask 0. *)
NestedLossyNets == NestedNets \cup { N(128, 1), N(136, 5), N(128, 0) }

(* 0.0.0.0/0 never reaches the trie, another address with mask 0 does. *)
ZeroNets == { N(160, 0), N(160, 4) }

NestedAddrs == {A(b) : b \in {64, 128, 144, 165, 172}}

Symmetry == Permutations(Value)

SomeAddrs == {A(b) : b \in {64, 115, 117, 118, 128, 144, 160, 164, 165, 172, 176, 255}}
=============================================================================
