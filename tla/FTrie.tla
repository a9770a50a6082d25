-------------------------------- MODULE FTrie --------------------------------
(***************************************************************************)
(* The multi-level radix trie of ftrie.h, ftrie.cpp and bitlevel.h.        *)
(*                                                                         *)
(* A node (ptreearray_node_4_t) holds node_value and up to four levels     *)
(* bl4..bl1 (bitlevel_t<4>..<1>).  A slot of level r is selected by r      *)
(* bits and refers to a child node or, once collapse_leaves has run, holds *)
(* the child's value itself.  The recursion of insert and longest_match    *)
(* over nodes is modelled call by call: one action is one activation of    *)
(* ptreearray_node_4_t::insert or ::longest_match with the level method it *)
(* calls.  There is one thread.                                            *)
(*                                                                         *)
(* A slot, and the node it refers to, is named by its access path: the     *)
(* sequence of the bit strings that select it, from the root.  A bit       *)
(* string of length r is a slot of level r.  Every child pointer is        *)
(* written once, right after `new', so access paths name nodes uniquely.   *)
(* How a level finds a slot through pos[] and vb[] is module BitLevel.     *)
(***************************************************************************)
EXTENDS Integers, Sequences

CONSTANTS
  AddrBits,       \* width of an address: 32 in the code
  Value,          \* the values inserted (a geoname id, a row number)
  NoValue,        \* NO_VALUE = 0xffffffff
  Net,            \* networks inserted: [val |-> bits, len |-> mask length]
  Addr,           \* addresses looked up
  ExtendFrozen    \* does the caller insert after collapse_leaves?

Stride == 4       \* iter.next(4)
Bit == {0, 1}
Word == [1..AddrBits -> Bit]
Slot == UNION {[1..r -> Bit] : r \in 1..Stride}
Path == Seq(Slot)
ValueOrNone == Value \cup {NoValue}

ASSUME AddrBitsAssumption == AddrBits \in Nat /\ AddrBits % Stride = 0
ASSUME NoValueAssumption == NoValue \notin Value
ASSUME NetAssumption == Net \subseteq [val : Word, len : 0..AddrBits]
ASSUME AddrAssumption == Addr \subseteq Word

VARIABLES
  node_value,     \* live nodes: access path -> node_value
  data_leaf,      \* slots that hold a datum: access path -> the datum
  call,           \* the activation of insert or longest_match, or Idle
  ret,            \* the answer of the last longest_match
  frozen          \* has collapse_leaves run?

vars == <<node_value, data_leaf, call, ret, frozen>>

Root == <<>>
Idle == [op |-> "idle"]
CallOp == {"insert", "lookup", "aborted", "crashed"}
Call == [op : CallOp, val : Word, width : 0..AddrBits,
         currentpos : 0..AddrBits, this : Path, arg : ValueOrNone]

(* The slots whose pos[] entry is not EMPTY_SLOT, and the root node. *)
Occupied == DOMAIN node_value \cup DOMAIN data_leaf
IsTaken(p) == p \in DOMAIN node_value \/ p \in DOMAIN data_leaf

-----------------------------------------------------------------------------
(* bits32_t::iterator, over the bits of the word (module BitString has the   *)
(* shifts and masks).  kbitlength is a size_t: kbitlength-1 wraps around for *)
(* a zero length, so that has_more() is then always true.                    *)

(* Mutant: stops when less than a whole window is left. *)
HasMoreEarly == call.currentpos + Stride <= call.width
(* Mutant: runs on when nothing is left. *)
HasMoreLate == call.currentpos <= call.width

HasMore == call.width = 0 \/ call.currentpos < call.width - 1

WindowSize ==
  IF call.width - call.currentpos < Stride
  THEN call.width - call.currentpos ELSE Stride

WindowBits == [j \in 1..WindowSize |-> call.val[call.currentpos + j]]

(* The r bits `bitval >> (4-r)', where bitval is the WindowSize bits read,   *)
(* as a 4-bit number.                                                        *)
TopBitsMasked(r) ==  \* mutant: masks where it should shift
  [j \in 1..r |-> LET at == j + Stride - r - (Stride - WindowSize) IN
                  IF at < 1 THEN 0 ELSE call.val[call.currentpos + at]]

TopBits(r) ==
  [j \in 1..r |-> LET skip == Stride - WindowSize IN
                  IF j <= skip THEN 0 ELSE call.val[call.currentpos + j - skip]]

-----------------------------------------------------------------------------
Init ==
  /\ node_value = [p \in {Root} |-> NoValue]
  /\ data_leaf = [p \in {} |-> NoValue]
  /\ call = Idle
  /\ ret = NoValue
  /\ frozen = FALSE

(* sproot.insert(iter, id), called by CGeoDB::LoadBlocks and CGeoDB::Push.   *)
(* Nobody keeps an id of 0xffffffff, which is NO_VALUE, from coming here     *)
(* (GeoDB.cpp:109). *)
InsertCall(n, v) ==
  /\ call = Idle
  /\ frozen => ExtendFrozen
  /\ call' = [op |-> "insert", val |-> n.val, width |-> n.len,
              currentpos |-> 0, this |-> Root, arg |-> v]
  /\ UNCHANGED <<node_value, data_leaf, ret, frozen>>

(* Mutant: the first value of a node stays. *)
InsertHereFirst ==
  /\ call.op = "insert"
  /\ ~HasMore
  /\ node_value' = [node_value EXCEPT ![call.this] =
                      IF @ = NoValue THEN call.arg ELSE @]
  /\ call' = Idle
  /\ UNCHANGED <<data_leaf, ret, frozen>>

(* The prefix ends here: has_more() is false. *)
InsertHere ==
  /\ call.op = "insert"
  /\ ~HasMore
  /\ node_value' = [node_value EXCEPT ![call.this] = call.arg]
  /\ call' = Idle
  /\ UNCHANGED <<data_leaf, ret, frozen>>

(* next(4) returns no bits: the switch reaches assert(false). *)
InsertAbort ==
  /\ call.op = "insert"
  /\ HasMore
  /\ WindowSize = 0
  /\ call' = [call EXCEPT !.op = "aborted"]
  /\ UNCHANGED <<node_value, data_leaf, ret, frozen>>

(* Mutant: a new node's value is 0, not NO_VALUE. *)
InsertBelowZero ==
  /\ call.op = "insert"
  /\ HasMore
  /\ WindowSize > 0
  /\ LET child == Append(call.this, WindowBits) IN
       /\ child \notin DOMAIN data_leaf
       /\ node_value' = [p \in DOMAIN node_value \cup {child} |->
                           IF p \in DOMAIN node_value THEN node_value[p] ELSE 0]
       /\ call' = [call EXCEPT !.this = child, !.currentpos = @ + WindowSize]
  /\ UNCHANGED <<data_leaf, ret, frozen>>

(* bitlevel_t::insert, and on to pnew->insert or vb[idx]->insert.  A free    *)
(* slot gets a new node.                                                     *)
InsertBelow ==
  /\ call.op = "insert"
  /\ HasMore
  /\ WindowSize > 0
  /\ LET child == Append(call.this, WindowBits) IN
       /\ child \notin DOMAIN data_leaf
       /\ node_value' = [p \in DOMAIN node_value \cup {child} |->
                           IF p \in DOMAIN node_value THEN node_value[p] ELSE NoValue]
       /\ call' = [call EXCEPT !.this = child, !.currentpos = @ + WindowSize]
  /\ UNCHANGED <<data_leaf, ret, frozen>>

(* bitlevel_t::insert does not consult data_leaves: it takes a collapsed     *)
(* datum for a pointer and calls insert on it.                               *)
InsertIntoData ==
  /\ call.op = "insert"
  /\ HasMore
  /\ WindowSize > 0
  /\ Append(call.this, WindowBits) \in DOMAIN data_leaf
  /\ call' = [call EXCEPT !.op = "crashed"]
  /\ UNCHANGED <<node_value, data_leaf, ret, frozen>>

-----------------------------------------------------------------------------
LookupCall(a, parentval) ==
  /\ call = Idle
  /\ call' = [op |-> "lookup", val |-> a, width |-> AddrBits,
              currentpos |-> 0, this |-> Root, arg |-> parentval]
  /\ UNCHANGED <<node_value, data_leaf, ret, frozen>>

(* By number: CGeoDB passes 0xffffffff as parentval. *)
LookupIpnum(a) == LookupCall(a, NoValue)

(* By dotted string: longest_match passes the root's node_value. *)
LookupDotted(a) == LookupCall(a, node_value[Root])

(* The levels, of bl4..bl1, whose slot for the bits read is taken. *)
Matching == {r \in 1..Stride : IsTaken(Append(call.this, TopBits(r)))}

(* The first of bl4, bl3, bl2, bl1 that can_match. *)
ChosenLast == CHOOSE r \in Matching : \A s \in Matching : r <= s  \* mutant: bl1 first
Chosen == CHOOSE r \in Matching : \A s \in Matching : s <= r
ChosenSlot == Append(call.this, TopBits(Chosen))

Return(v) == ret' = v /\ call' = Idle

(* No level matches. *)
LookupHere ==
  /\ call.op = "lookup"
  /\ Matching = {}
  /\ LET own == node_value[call.this] IN
       Return(IF own = NoValue THEN call.arg ELSE own)
  /\ UNCHANGED <<node_value, data_leaf, frozen>>

(* The slot holds a datum. *)
LookupData ==
  /\ call.op = "lookup"
  /\ Matching # {}
  /\ ChosenSlot \in DOMAIN data_leaf
  /\ Return(data_leaf[ChosenSlot])
  /\ UNCHANGED <<node_value, data_leaf, frozen>>

(* The slot refers to a node: parentval is handed down as it came.  The      *)
(* iterator has moved by the whole window, whichever level matched.          *)
LookupBelow ==
  /\ call.op = "lookup"
  /\ Matching # {}
  /\ ChosenSlot \in DOMAIN node_value
  /\ call' = [call EXCEPT !.this = ChosenSlot, !.currentpos = @ + WindowSize]
  /\ UNCHANGED <<node_value, data_leaf, ret, frozen>>

-----------------------------------------------------------------------------
IsChild(q, p) == Len(q) = Len(p) + 1 /\ \A i \in 1..Len(p) : q[i] = p[i]

(* Mutant: looks at bl4 only. *)
IsEmptyNodeBl4(p) == \A q \in Occupied : ~(IsChild(q, p) /\ Len(q[Len(q)]) = Stride)

(* isemptynode(): a level is allocated when its first slot is taken. *)
IsEmptyNode(p) == \A q \in Occupied : ~IsChild(q, p)

Collapsible == {p \in DOMAIN node_value \ {Root} : IsEmptyNode(p)}

(* Mutant: marks the slots as data but does not store the values. *)
CollapseLeavesForgets ==
  /\ call = Idle
  /\ data_leaf' = [p \in DOMAIN data_leaf \cup Collapsible |->
                     IF p \in Collapsible THEN NoValue ELSE data_leaf[p]]
  /\ node_value' = [p \in DOMAIN node_value \ Collapsible |-> node_value[p]]
  /\ frozen' = TRUE
  /\ UNCHANGED <<call, ret>>

(* CGeoDB::collapse_leaves, the whole recursive pass. *)
CollapseLeaves ==
  /\ call = Idle
  /\ data_leaf' = [p \in DOMAIN data_leaf \cup Collapsible |->
                     IF p \in Collapsible THEN node_value[p] ELSE data_leaf[p]]
  /\ node_value' = [p \in DOMAIN node_value \ Collapsible |-> node_value[p]]
  /\ frozen' = TRUE
  /\ UNCHANGED <<call, ret>>

-----------------------------------------------------------------------------
InsertStep == InsertHere \/ InsertAbort \/ InsertBelow \/ InsertIntoData
LookupStep == LookupHere \/ LookupData \/ LookupBelow

Next ==
  \/ \E n \in Net, v \in ValueOrNone : InsertCall(n, v)
  \/ \E a \in Addr : LookupIpnum(a) \/ LookupDotted(a)
  \/ InsertStep
  \/ LookupStep
  \/ CollapseLeaves

Spec == Init /\ [][Next]_vars

(* A call that has begun runs on: it is the only thread. *)
FairSpec == Spec /\ WF_vars(InsertStep) /\ WF_vars(LookupStep)
=============================================================================
