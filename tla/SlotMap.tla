------------------------------- MODULE SlotMap -------------------------------
(***************************************************************************)
(* What a level of a trie node promises (bitlevel.h): a map from slots to  *)
(* children.  An insert reaches the child of its own slot and no other, a  *)
(* lookup finds the child or the datum last stored in its slot, collapse   *)
(* turns exactly the children that have no levels into their values, and   *)
(* the destructor leaves no child behind.                                  *)
(***************************************************************************)
EXTENDS Integers

CONSTANTS Nbits, Node, Value, NoValue

VARIABLES
  slot,      \* slot number -> Free, a child, or a datum
  heap,      \* live child nodes -> [value, empty]
  out        \* what the last operation did

vars == <<slot, heap, out>>

Slots == 0..(<<2, 4, 8, 16>>[Nbits] - 1)
Free == [kind |-> "free"]
Child(c) == [kind |-> "child", node |-> c]
Datum(v) == [kind |-> "datum", value |-> v]
IsChild(s) == slot[s].kind = "child"

(* The child's own insert stores the value, or goes on below it. *)
ChildInsert(node, v, below) ==
  IF below THEN [node EXCEPT !.empty = FALSE] ELSE [node EXCEPT !.value = v]

NewNode == [value |-> NoValue, empty |-> TRUE]

Init == /\ slot = [s \in Slots |-> Free]
        /\ heap = [c \in {} |-> NewNode]
        /\ out = [op |-> "none"]

InsertNew(s, v, below) ==
  /\ out' = [op |-> "insert"]
  /\ slot[s] = Free
  /\ \E c \in Node \ DOMAIN heap :
       /\ slot' = [slot EXCEPT ![s] = Child(c)]
       /\ heap' = [d \in DOMAIN heap \cup {c} |->
                     IF d = c THEN ChildInsert(NewNode, v, below) ELSE heap[d]]

InsertOld(s, v, below) ==
  /\ out' = [op |-> "insert"]
  /\ IsChild(s)
  /\ heap' = [heap EXCEPT ![slot[s].node] = ChildInsert(@, v, below)]
  /\ UNCHANGED slot

InsertDatum(s) ==
  /\ out' = [op |-> "crashed"]
  /\ slot[s].kind = "datum"
  /\ UNCHANGED <<slot, heap>>

Lookup(s) ==
  /\ out' = [op |-> "lookup", slot |-> s, result |-> slot[s]]
  /\ UNCHANGED <<slot, heap>>

Collapse ==
  LET leaf == {s \in Slots : IsChild(s) /\ heap[slot[s].node].empty}
      gone == {slot[s].node : s \in leaf}
  IN /\ out' = [op |-> "collapse"]
     /\ slot' = [s \in Slots |-> IF s \in leaf THEN Datum(heap[slot[s].node].value)
                                 ELSE slot[s]]
     /\ heap' = [c \in DOMAIN heap \ gone |-> heap[c]]

Destroy ==
  /\ heap' = [c \in {} |-> NewNode]
  /\ out' = [op |-> "destroyed"]
  /\ UNCHANGED slot

Next ==
  /\ out.op \notin {"crashed", "destroyed"}
  /\ \/ \E s \in Slots, v \in Value \cup {NoValue}, below \in BOOLEAN :
          InsertNew(s, v, below) \/ InsertOld(s, v, below) \/ InsertDatum(s)
     \/ \E s \in Slots : Lookup(s)
     \/ Collapse
     \/ Destroy

Spec == Init /\ [][Next]_vars
=============================================================================
