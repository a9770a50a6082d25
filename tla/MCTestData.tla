----------------------------- MODULE MCTestData -----------------------------
(***************************************************************************)
(* FTrie at its real width, with networks of                               *)
(* testdata/smalltest-GeoLite2-ASN-Blocks-IPv4.csv.                        *)
(***************************************************************************)
EXTENDS FTrieProps

IP(a, b, c, d) ==
  [i \in 1..32 |-> (<<a, b, c, d>>[(i-1) \div 8 + 1] \div 2^(7 - ((i-1) % 8))) % 2]
CIDR(a, b, c, d, len) == [val |-> IP(a, b, c, d), len |-> len]

(* Lines 3, 4, 11 and 12 of the file: two adjacent blocks that share a level *)
(* of two bits, and two adjacent blocks in levels of three and four bits.    *)
Blocks == { CIDR(74,62,64,0, 22), CIDR(74,62,68,0, 22),
            CIDR(212,191,64,0, 19), CIDR(212,191,96,0, 20) }

(* Lines 6 and 7: a /21 and the /22 that follows it. *)
OddBlocks == { CIDR(142,169,240,0, 21), CIDR(142,169,248,0, 22) }

(* The ends of blocks and their neighbours outside; 74.62.72.72 is the       *)
(* address of test_ftrie.lua.                                                *)
Hosts == { IP(74,62,63,255), IP(74,62,67,255), IP(74,62,68,0), IP(74,62,72,72),
           IP(212,191,63,255), IP(212,191,95,255), IP(212,191,111,255), IP(212,191,112,0) }
OddHosts == { IP(142,169,247,255), IP(142,169,252,1) }
=============================================================================
