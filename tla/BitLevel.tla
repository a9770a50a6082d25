------------------------------ MODULE BitLevel -------------------------------
(***************************************************************************)
(* bitlevel_t<Nbits> (bitlevel.h): a byte per slot that indexes a vector   *)
(* of pointers which grows as slots are taken, and a bit per vector index  *)
(* that says whether the pointer is really a datum.  A child is a live     *)
(* node of the heap; only its value and whether it has levels matter here, *)
(* and its own insert is one step.                                         *)
(***************************************************************************)
EXTENDS Integers, Sequences

CONSTANTS
  Nbits,       \* 1..4
  Node,        \* addresses that `new' may return
  Value,
  NoValue      \* 0xffffffff, which inserts take like any other value (GeoDB.cpp:109)

ASSUME NbitsAssumption == Nbits \in 1..4

VARIABLES
  pos,           \* std::array<uint8_t, 1<<Nbits>
  vb,            \* the vector; vb[0] of the code is vb[1] here
  data_leaves,   \* the bitset, as the set of its indexes that are set
  heap,          \* live child nodes -> [value, empty]
  out            \* what the last operation did

vars == <<pos, vb, data_leaves, heap, out>>

EmptySlotSigned == -1        \* mutant: the byte is signed
EMPTY_SLOT == 255
Uint8 == 0..255
ValueOrNone == Value \cup {NoValue}
SlotCount == <<2, 4, 8, 16>>[Nbits]     \* 1<<Nbits
Slots == 0..(SlotCount - 1)
WindowValue == 0..15                    \* a lookup's bitval has four bits
SlotOf(bitval) == bitval \div (16 \div SlotCount)   \* bitval >> (4-Nbits)

(* The vector's words: a pointer to a child, or a datum stored as one. *)
Pointer(c) == [kind |-> "child", node |-> c]
Datum(v) == [kind |-> "datum", value |-> v]
Entry == [kind : {"child"}, node : Node] \cup [kind : {"datum"}, value : ValueOrNone]
At(idx) == vb[idx + 1]

Free == [kind |-> "free"]
Wild == [kind |-> "wild"]       \* a pointer read as a datum, or the reverse

NewNode == [value |-> NoValue, empty |-> TRUE]

(* The child's own insert stores the value, or goes on to a level of it. *)
ChildInsert(node, v, below) ==
  IF below THEN [node EXCEPT !.empty = FALSE] ELSE [node EXCEPT !.value = v]

Ended == out.op \in {"crashed", "destroyed", "double free"}

-----------------------------------------------------------------------------
Init ==
  /\ pos = [s \in Slots |-> EMPTY_SLOT]
  /\ vb = <<>>
  /\ data_leaves = {}
  /\ heap = [c \in {} |-> NewNode]
  /\ out = [op |-> "none"]

(* Mutant: the slot number is stored where the vector index belongs. *)
InsertNewBySlot(s, v, below) ==
  /\ pos[s] = EMPTY_SLOT
  /\ pos' = [pos EXCEPT ![s] = s]
  /\ \E c \in Node \ DOMAIN heap :
       /\ heap' = [d \in DOMAIN heap \cup {c} |->
                     IF d = c THEN ChildInsert(NewNode, v, below) ELSE heap[d]]
       /\ vb' = Append(vb, Pointer(c))
  /\ out' = [op |-> "insert"]
  /\ UNCHANGED data_leaves

(* insert, into a free slot *)
InsertNew(s, v, below) ==
  /\ pos[s] = EMPTY_SLOT
  /\ pos' = [pos EXCEPT ![s] = Len(vb) % 256]
  /\ \E c \in Node \ DOMAIN heap :
       /\ heap' = [d \in DOMAIN heap \cup {c} |->
                     IF d = c THEN ChildInsert(NewNode, v, below) ELSE heap[d]]
       /\ vb' = Append(vb, Pointer(c))
  /\ out' = [op |-> "insert"]
  /\ UNCHANGED data_leaves

(* insert, into a slot that has a child; a datum is called as if it were one *)
InsertOld(s, v, below) ==
  /\ pos[s] # EMPTY_SLOT
  /\ LET entry == At(pos[s]) IN
       IF entry.kind = "child"
       THEN /\ heap' = [heap EXCEPT ![entry.node] = ChildInsert(@, v, below)]
            /\ out' = [op |-> "insert"]
       ELSE /\ out' = [op |-> "crashed"]
            /\ UNCHANGED heap
  /\ UNCHANGED <<pos, vb, data_leaves>>

(* Mutant: data_leaves is tested by slot. *)
LookupBySlot(bitval) ==
  LET idx == pos[SlotOf(bitval)]
  IN /\ out' = [op |-> "lookup", slot |-> SlotOf(bitval),
                result |-> IF idx = EMPTY_SLOT THEN Free
                           ELSE IF (SlotOf(bitval) \in data_leaves) = (At(idx).kind = "datum")
                           THEN At(idx) ELSE Wild]
     /\ UNCHANGED <<pos, vb, data_leaves, heap>>

(* can_match and longest_match.  What data_leaves says decides how the word  *)
(* of the vector is read.                                                    *)
Lookup(bitval) ==
  LET idx == pos[SlotOf(bitval)]
  IN /\ out' = [op |-> "lookup", slot |-> SlotOf(bitval),
                result |-> IF idx = EMPTY_SLOT THEN Free
                           ELSE IF (idx \in data_leaves) = (At(idx).kind = "datum")
                           THEN At(idx) ELSE Wild]
     /\ UNCHANGED <<pos, vb, data_leaves, heap>>

(* The vector indexes of childless children, which collapse_leaves frees. *)
Leaves == {idx \in {pos[s] : s \in Slots} \ ({EMPTY_SLOT} \cup data_leaves) :
             heap[At(idx).node].empty}

(* Mutant: data_leaves is indexed by slot, not by vector index. *)
CollapseBySlot ==
  /\ data_leaves' = data_leaves \cup {s \in Slots : pos[s] \in Leaves}
  /\ vb' = [i \in 1..Len(vb) |-> IF i - 1 \in Leaves
                                 THEN Datum(heap[vb[i].node].value) ELSE vb[i]]
  /\ heap' = [c \in DOMAIN heap \ {At(idx).node : idx \in Leaves} |-> heap[c]]
  /\ out' = [op |-> "collapse"]
  /\ UNCHANGED pos

(* Mutant: the collapsed node is not deleted. *)
CollapseLeaks ==
  /\ data_leaves' = data_leaves \cup Leaves
  /\ vb' = [i \in 1..Len(vb) |-> IF i - 1 \in Leaves
                                 THEN Datum(heap[vb[i].node].value) ELSE vb[i]]
  /\ out' = [op |-> "collapse"]
  /\ UNCHANGED <<pos, heap>>

(* collapse_leaves; what it does inside a child that stays is the child's *)
Collapse ==
  /\ data_leaves' = data_leaves \cup Leaves
  /\ vb' = [i \in 1..Len(vb) |-> IF i - 1 \in Leaves
                                 THEN Datum(heap[vb[i].node].value) ELSE vb[i]]
  /\ heap' = [c \in DOMAIN heap \ {At(idx).node : idx \in Leaves} |-> heap[c]]
  /\ out' = [op |-> "collapse"]
  /\ UNCHANGED pos

(* ~bitlevel_t: deletes slot by slot *)
Destroy ==
  LET owner == {s \in Slots : pos[s] # EMPTY_SLOT /\ pos[s] \notin data_leaves}
      gone == {At(pos[s]).node : s \in owner}
      once == \A s, t \in owner : At(pos[s]).node = At(pos[t]).node => s = t
  IN /\ heap' = [c \in DOMAIN heap \ gone |-> heap[c]]
     /\ out' = [op |-> IF once /\ gone \subseteq DOMAIN heap
                       THEN "destroyed" ELSE "double free"]
     /\ UNCHANGED <<pos, vb, data_leaves>>

Next ==
  /\ ~Ended
  /\ \/ \E s \in Slots, v \in ValueOrNone, below \in BOOLEAN :
          InsertNew(s, v, below) \/ InsertOld(s, v, below)
     \/ \E bitval \in WindowValue : Lookup(bitval)
     \/ Collapse
     \/ Destroy

Spec == Init /\ [][Next]_vars

-----------------------------------------------------------------------------
TakenSlots == {s \in Slots : pos[s] # EMPTY_SLOT}

(* Types of the variables: bytes in pos, and no bit beyond the bitset. *)
TypeOK ==
  /\ pos \in [Slots -> Uint8]
  /\ vb \in Seq(Entry)
  /\ data_leaves \subseteq Slots
  /\ DOMAIN heap \subseteq Node
  /\ \A c \in DOMAIN heap : heap[c] \in [value : ValueOrNone, empty : BOOLEAN]
  /\ out.op \in {"none", "insert", "lookup", "collapse",
                 "destroyed", "crashed", "double free"}

(* The taken slots and the vector's entries correspond one to one: no two    *)
(* slots share an entry, no entry is lost, and no index is EMPTY_SLOT, so    *)
(* that a byte is enough (bitlevel.h:65-70).                                 *)
Indexed ==
  /\ \A s \in TakenSlots : pos[s] < Len(vb)
  /\ \A s, t \in TakenSlots : pos[s] = pos[t] => s = t
  /\ \A idx \in 0..(Len(vb) - 1) : \E s \in TakenSlots : pos[s] = idx

(* data_leaves tells the data from the pointers, and each pointer is to a    *)
(* live child that no other entry refers to; no live child is out of reach.  *)
(* So the destructor deletes each child once and no datum (bitlevel.h:51-61).*)
Owned ==
  ~Ended =>
    /\ \A i \in 1..Len(vb) : (vb[i].kind = "datum") <=> (i - 1 \in data_leaves)
    /\ \A i, j \in 1..Len(vb) :
         vb[i].kind = "child" /\ vb[i] = vb[j] => i = j
    /\ DOMAIN heap = {vb[i].node : i \in {k \in 1..Len(vb) : vb[k].kind = "child"}}

(* The destructor frees every child, and none twice (bitlevel.h:51-61).      *)
FreesAll ==
  /\ out.op # "double free"
  /\ out.op = "destroyed" => DOMAIN heap = {}

(* The level implements the map from slots to children. *)
Shown(idx, words) ==
  IF idx = EMPTY_SLOT THEN Free ELSE IF idx >= Len(words) THEN Wild ELSE words[idx + 1]

SlotView == [s \in Slots |-> Shown(pos[s], vb)]

Map == INSTANCE SlotMap WITH slot <- SlotView
ImplementsSlotMap == Map!Spec
=============================================================================
