------------------------------ MODULE BitString ------------------------------
(***************************************************************************)
(* bits32_t and its iterator (bitstring.h): a word read from its top, a    *)
(* window of bits at a time, with shifts and masks.  Two readers drive it: *)
(* insert reads while has_more() (ftrie.cpp:39-44), longest_match reads    *)
(* without asking (ftrie.cpp:92), as long as the trie goes on.             *)
(*                                                                         *)
(* FTrie names bits by their position; this module shows that the shifts   *)
(* and masks select those bits.                                            *)
(***************************************************************************)
EXTENDS Integers, Sequences

CONSTANTS
  WordBits,      \* width of uint32_t
  Window,        \* 4, the argument of next()
  MaskRange,     \* 2^8, the number of masks of a uint8_t
  Asked          \* the prefix lengths that inserts are asked for, as ints

ASSUME WordBitsAssumption == WordBits \in Nat \ {0}
ASSUME WindowAssumption == Window \in 1..WordBits
ASSUME MaskAssumption == MaskRange \in Nat /\ MaskRange > WordBits
ASSUME AskedAssumption == Asked \subseteq Nat

VARIABLES
  reader,        \* "insert", "lookup", or how it ended
  val,           \* bits32_t::val
  kbitlength,    \* bits32_t::kbitlength
  currentpos,    \* iterator::currentpos
  pair,          \* what the last next() returned: <<nbits, value>>
  taken          \* history: the bits next() has returned of the word, as a number

vars == <<reader, val, kbitlength, currentpos, pair, taken>>

Uint32 == 0..(2^WordBits - 1)

(* The text of a file, and GeoIP_push_v4, pass a mask on in a uint8_t; the    *)
(* rows of a database come as an int.  None is compared with 32.  (An int     *)
(* below 0 would be a length that no insert gets to the end of.)              *)
Lengths(e) == {e % MaskRange} \cup {e}

(* val >> s.  A shift by less than 0 or by the width of the word or more is   *)
(* undefined. *)
ShiftRight(w, s) == IF s \in 0..(WordBits - 1) THEN {w \div 2^s} ELSE Uint32

(* kbitlength-1 is unsigned: it is huge for length 0.  Mutant: <=. *)
HasMoreAtEnd == kbitlength = 0 \/ currentpos <= kbitlength - 1
(* Mutant: <= kbitlength. *)
HasMoreLate == kbitlength = 0 \/ currentpos <= kbitlength
HasMore == kbitlength = 0 \/ currentpos < kbitlength - 1

Take(w, bits) ==
  taken' = IF currentpos + w <= WordBits THEN (taken * 2^w) + bits ELSE taken

(* Mutant: the shift does not allow for the bits read before. *)
NextWindowFixed ==
  LET w == IF kbitlength - currentpos < Window THEN kbitlength - currentpos ELSE Window
  IN \E shifted \in ShiftRight(val, WordBits - w) :
       /\ currentpos' = currentpos + w
       /\ pair' = <<w, shifted % 2^w>>
       /\ Take(w, shifted % 2^w)

(* Mutant: the window is not cut at the end of the bits. *)
NextWindowWhole ==
  \E shifted \in ShiftRight(val, WordBits - currentpos - Window) :
       /\ currentpos' = currentpos + Window
       /\ pair' = <<Window, shifted % 2^Window>>
       /\ Take(Window, shifted % 2^Window)

(* iterator::next(win) *)
NextWindow ==
  LET w == IF kbitlength - currentpos < Window THEN kbitlength - currentpos ELSE Window
  IN \E shifted \in ShiftRight(val, WordBits - currentpos - w) :
       /\ currentpos' = currentpos + w
       /\ pair' = <<w, shifted % 2^w>>
       /\ Take(w, shifted % 2^w)

-----------------------------------------------------------------------------
Init ==
  /\ val \in Uint32
  /\ \/ reader = "insert" /\ \E e \in Asked : kbitlength \in Lengths(e)
     \/ reader = "lookup" /\ kbitlength = WordBits
  /\ currentpos = 0
  /\ pair = <<0, 0>>
  /\ taken = 0

(* A node's insert that goes on; the assert(false) of ftrie.cpp:71 ends it   *)
(* when no bits came. *)
InsertReads ==
  /\ reader = "insert"
  /\ HasMore
  /\ NextWindow
  /\ reader' = IF pair'[1] = 0 THEN "aborted" ELSE "insert"
  /\ UNCHANGED <<val, kbitlength>>

InsertStops ==
  /\ reader = "insert"
  /\ ~HasMore
  /\ reader' = "inserted"
  /\ UNCHANGED <<val, kbitlength, currentpos, pair, taken>>

(* A node's longest_match.  It reads once more at the end of the word, and   *)
(* the trie has no deeper node then. *)
LookupReads ==
  /\ reader = "lookup"
  /\ NextWindow
  /\ reader' \in IF pair'[1] = 0 THEN {"answered"} ELSE {"lookup", "answered"}
  /\ UNCHANGED <<val, kbitlength>>

Next == InsertReads \/ InsertStops \/ LookupReads

Spec == Init /\ [][Next]_vars

-----------------------------------------------------------------------------
(* The bits first..first+n-1 of a word, counted from 1 at the top. *)
BitAt(w, i) == (w \div 2^(WordBits - i)) % 2
Bits(w, first, n) == [j \in 1..n |-> BitAt(w, first + j - 1)]
LowBits(w, n) == [j \in 1..n |-> (w \div 2^(n - j)) % 2]

(* Types of the variables; the bits read never pass the length. *)
TypeOK ==
  /\ reader \in {"insert", "lookup", "inserted", "answered", "aborted"}
  /\ val \in Uint32 /\ kbitlength \in Nat
  /\ currentpos \in 0..kbitlength
  /\ pair[1] \in 0..Window /\ pair[2] \in 0..(2^pair[1] - 1)
  /\ taken \in Uint32

Inside == currentpos <= WordBits

(* The windows tile the word: what next() has returned so far is exactly the *)
(* top currentpos bits of val, none skipped and none read twice, down to the *)
(* last, shorter window of a prefix (bitstring.h:16-22).  That holds of the  *)
(* windows inside the word also for a mask that is too long.                 *)
WindowsTile == Inside => LowBits(taken, currentpos) = Bits(val, 1, currentpos)

(* bitval >> (4-r), the slot index can_match computes from a whole window    *)
(* (bitlevel.h:78), is the window's first r bits: the same slot that insert  *)
(* selects with a window of r bits at the same place. *)
TopBitsAgree ==
  pair[1] = Window /\ Inside =>
    \A r \in 1..Window :
      LowBits(pair[2] \div 2^(Window - r), r) = Bits(val, currentpos - Window + 1, r)

(* An insert of a nonzero length stops, at its length or one bit before it,  *)
(* and one bit before only if a single bit was left over (bitstring.h:13).   *)
(* So a mask of 33 is one of 32, and no longer mask stays in the word.       *)
StopsAtLength ==
  reader = "inserted" /\ kbitlength > 0 =>
    kbitlength - currentpos = IF kbitlength % Window = 1 THEN 1 ELSE 0

(* No insert of a nonzero length runs out of bits while has_more() holds,    *)
(* which would end in the assert(false) of ftrie.cpp:71.  A mask of 256 is   *)
(* narrowed to 0 (GeoAPI.cpp:457) and does.                                  *)
NeverAborts == kbitlength > 0 => reader # "aborted"
=============================================================================
