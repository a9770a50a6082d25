----------------------------- MODULE FTrieProofs -----------------------------
(***************************************************************************)
(* TLAPS proofs about FTrie, for every address width, every set of         *)
(* networks, addresses and values.                                         *)
(***************************************************************************)
EXTENDS FTrieProps, WellFoundedInduction, TLAPS

(* Where the running call stands.  A node at which an insert goes on is      *)
(* reached by a full window, so that its path has level-4 slots only.        *)
CallShape ==
  call # Idle =>
    /\ call.currentpos <= call.width
    /\ call.op \in {"insert", "lookup"} => call.this \in DOMAIN node_value
    /\ call.op = "insert" =>
         /\ call.currentpos = 0 => call.this = Root
         /\ HasMore /\ Len(call.this) > 0 => DOMAIN call.this[Len(call.this)] = 1..Stride

TypeInv == TypeOK /\ Root \in DOMAIN node_value /\ CallShape

(* The bits next(4) returns are a slot, and the bits can_match looks at are. *)
LEMMA WindowIsSlot ==
  ASSUME call \in Call, call.currentpos <= call.width, WindowSize > 0
  PROVE  /\ WindowSize \in 1..Stride
         /\ WindowBits \in Slot
         /\ DOMAIN WindowBits = 1..WindowSize
         /\ call.currentpos + WindowSize <= call.width
         /\ call.currentpos + WindowSize \in 0..AddrBits
         /\ call.currentpos + WindowSize > 0
<1> USE AddrBitsAssumption DEF Call, Stride
<1>1. WindowSize \in 1..Stride /\ call.currentpos + WindowSize <= call.width
  BY DEF WindowSize
<1>2. \A j \in 1..WindowSize : call.val[call.currentpos + j] \in Bit
  BY <1>1 DEF Word
<1>3. WindowBits \in [1..WindowSize -> Bit]
  BY <1>2 DEF WindowBits
<1>4. QED
  BY <1>1, <1>3 DEF Slot

LEMMA TypeInvInit == Init => TypeInv
<1> SUFFICES ASSUME Init PROVE TypeInv
  OBVIOUS
<1>1. Root \in Path
  BY DEF Root, Path
<1>2. QED
  BY <1>1 DEF Init, TypeInv, TypeOK, CallShape, ValueOrNone, Idle, Root

LEMMA TypeInvStep == TypeInv /\ [Next]_vars => TypeInv'
<1> SUFFICES ASSUME TypeInv, [Next]_vars PROVE TypeInv'
  OBVIOUS
<1> USE AddrBitsAssumption, NoValueAssumption DEF TypeInv, TypeOK, CallShape
<1>0. Root \in Path
  BY DEF Root, Path
<1>1. ASSUME NEW n \in Net, NEW v \in ValueOrNone, InsertCall(n, v) PROVE TypeInv'
  <2>1. n.val \in Word /\ n.len \in 0..AddrBits
    BY NetAssumption
  <2>2. call' \in Call
    BY <1>0, <1>1, <2>1 DEF InsertCall, Call, CallOp, ValueOrNone
  <2>3. CallShape'
    BY <1>1, <2>1 DEF InsertCall, Root
  <2>4. QED
    BY <1>1, <2>2, <2>3 DEF InsertCall
<1>2. ASSUME InsertHere PROVE TypeInv'
  <2>1. call \in Call /\ call.arg \in ValueOrNone
    BY <1>2 DEF InsertHere, Idle, Call
  <2>2. QED
    BY <1>2, <2>1 DEF InsertHere, Idle
<1>3. ASSUME InsertAbort PROVE TypeInv'
  <2>1. call \in Call
    BY <1>3 DEF InsertAbort, Idle
  <2>2. call' \in Call /\ call'.op = "aborted"
    BY <1>3, <2>1 DEF InsertAbort, Call, CallOp
  <2>3. QED
    BY <1>3, <2>1, <2>2 DEF InsertAbort, Call, Idle
<1>4. ASSUME InsertBelow PROVE TypeInv'
  <2>1. call \in Call /\ call # Idle
    BY <1>4 DEF InsertBelow, Idle
  <2> DEFINE child == Append(call.this, WindowBits)
  <2>2. child \in Path /\ Len(child) > 0 /\ child[Len(child)] = WindowBits
    BY <1>4, <2>1, WindowIsSlot DEF InsertBelow, Path, Call
  <2>3. /\ call' = [call EXCEPT !.this = child, !.currentpos = @ + WindowSize]
        /\ DOMAIN node_value' = DOMAIN node_value \cup {child}
        /\ \A p \in DOMAIN node_value' : node_value'[p] \in ValueOrNone
    BY <1>4 DEF InsertBelow, ValueOrNone
  <2>4. call' \in Call
    BY <1>4, <2>1, <2>2, <2>3, WindowIsSlot DEF InsertBelow, Call
  <2>5. HasMore' => WindowSize = Stride
    BY <1>4, <2>1, <2>3, WindowIsSlot DEF InsertBelow, Call, HasMore, WindowSize, Stride
  <2>6. CallShape'
    BY <1>4, <2>1, <2>2, <2>3, <2>4, <2>5, WindowIsSlot DEF InsertBelow, Call
  <2>7. QED
    BY <1>4, <2>2, <2>3, <2>4, <2>6 DEF InsertBelow
<1>5. ASSUME InsertIntoData PROVE TypeInv'
  <2>1. call \in Call
    BY <1>5 DEF InsertIntoData, Idle
  <2>2. call' \in Call /\ call'.op = "crashed"
    BY <1>5, <2>1 DEF InsertIntoData, Call, CallOp
  <2>3. QED
    BY <1>5, <2>1, <2>2 DEF InsertIntoData, Call, Idle
<1>6. ASSUME NEW a \in Addr, LookupIpnum(a) \/ LookupDotted(a) PROVE TypeInv'
  <2>1. PICK pv \in ValueOrNone : LookupCall(a, pv)
    BY <1>6 DEF LookupIpnum, LookupDotted, ValueOrNone
  <2>2. call' \in Call
    BY <1>0, <2>1, AddrAssumption DEF LookupCall, Call, CallOp
  <2>3. QED
    BY <2>1, <2>2 DEF LookupCall, Root
<1>7. ASSUME LookupHere PROVE TypeInv'
  <2>1. call \in Call
    BY <1>7 DEF LookupHere, Idle
  <2>2. ret' \in ValueOrNone
    BY <1>7, <2>1 DEF LookupHere, Return, Call, Idle
  <2>3. QED
    BY <1>7, <2>2 DEF LookupHere, Return
<1>8. ASSUME LookupData PROVE TypeInv'
  BY <1>8 DEF LookupData, Return
<1>9. ASSUME LookupBelow PROVE TypeInv'
  <2>1. call \in Call
    BY <1>9 DEF LookupBelow, Idle
  <2>2. call.currentpos + WindowSize \in 0..AddrBits /\ call.currentpos + WindowSize <= call.width
    BY <2>1 DEF Call, WindowSize, Stride, Idle, CallOp
  <2>3. call' \in Call /\ call'.op = "lookup"
    BY <1>9, <2>1, <2>2 DEF LookupBelow, Call
  <2>4. QED
    BY <1>9, <2>1, <2>2, <2>3 DEF LookupBelow, Call, Idle
<1>10. ASSUME CollapseLeaves PROVE TypeInv'
  BY <1>10 DEF CollapseLeaves, Collapsible, Idle
<1>11. CASE UNCHANGED vars
  BY <1>11 DEF vars, HasMore
<1>12. QED
  BY <1>1, <1>2, <1>3, <1>4, <1>5, <1>6, <1>7, <1>8, <1>9, <1>10, <1>11
     DEF Next, InsertStep, LookupStep

(* Every variable keeps its type (FTrieProps). *)
THEOREM TypeCorrect == Spec => []TypeOK
<1>1. TypeInv => TypeOK
  BY DEF TypeInv
<1>2. QED
  BY <1>1, TypeInvInit, TypeInvStep, PTL DEF Spec

-----------------------------------------------------------------------------
(* The first slots of a path, of a longer path, and of one's child. *)
LEMMA FirstSlotsFacts ==
  ASSUME NEW p \in Path, NEW s \in Slot
  PROVE  /\ Append(p, s) \in Path
         /\ Len(Append(p, s)) = Len(p) + 1
         /\ FirstSlots(p, Len(p)) = p
         /\ FirstSlots(Append(p, s), Len(p)) = p
         /\ \A k \in 0..Len(p) : FirstSlots(Append(p, s), k) = FirstSlots(p, k)
         /\ \A k \in 1..Len(p) : Append(p, s)[k] = p[k]
         /\ Append(p, s)[Len(p) + 1] = s
         /\ IsChild(Append(p, s), p)
<1> DEFINE q == Append(p, s)
<1>1. q \in Path /\ Len(q) = Len(p) + 1
  BY DEF Path
<1>2. \A k \in 1..Len(p) : q[k] = p[k]
  BY DEF Path
<1>3. q[Len(p) + 1] = s
  BY DEF Path
<1>4. FirstSlots(p, Len(p)) = p
  BY DEF FirstSlots, Path
<1>5. \A k \in 0..Len(p) : FirstSlots(q, k) = FirstSlots(p, k)
  BY <1>2 DEF FirstSlots, Path
<1>6. Len(p) \in 0..Len(p)
  BY DEF Path
<1>7. QED
  BY <1>1, <1>2, <1>3, <1>4, <1>5, <1>6 DEF IsChild

LEMMA FirstSlotsChild ==
  ASSUME NEW p \in Path, NEW k \in 0..(Len(p) - 1)
  PROVE  IsChild(FirstSlots(p, k + 1), FirstSlots(p, k))
<1>1. Len(p) \in Nat /\ k \in Nat /\ k + 1 \in Nat
  BY DEF Path
<1>2. \A n \in Nat : Len(FirstSlots(p, n)) = n
  BY DEF FirstSlots
<1>3. QED
  BY <1>1, <1>2 DEF IsChild, FirstSlots

(* Whoever has a taken slot below it is no empty node. *)
LEMMA InnerIsNotEmpty ==
  ASSUME TypeInv, WellLinked, NEW p \in Occupied, NEW k \in 0..(Len(p) - 1)
  PROVE  ~IsEmptyNode(FirstSlots(p, k))
<1>1. p \in Path
  BY DEF TypeInv, TypeOK, Occupied
<1>2. IsChild(FirstSlots(p, k + 1), FirstSlots(p, k))
  BY <1>1, FirstSlotsChild
<1>3. FirstSlots(p, k + 1) \in Occupied
  <2>1. Len(p) \in Nat
    BY <1>1 DEF Path
  <2>2. CASE k + 1 = Len(p)
    BY <1>1, <2>2 DEF FirstSlots, Path
  <2>3. CASE k + 1 # Len(p)
    BY <2>1, <2>3 DEF WellLinked, Occupied
  <2>4. QED
    BY <2>2, <2>3
<1>4. QED
  BY <1>2, <1>3 DEF IsEmptyNode

LEMMA WellLinkedInit == Init => WellLinked
<1>1. Len(Root) = 0
  BY DEF Root
<1>2. QED
  BY <1>1 DEF Init, WellLinked, Occupied

(* Only InsertBelow and CollapseLeaves change the taken slots. *)
LEMMA WellLinkedStep == TypeInv /\ WellLinked /\ [Next]_vars => WellLinked'
<1> SUFFICES ASSUME TypeInv, WellLinked, [Next]_vars PROVE WellLinked'
  OBVIOUS
<1>1. ASSUME InsertBelow PROVE WellLinked'
  <2> DEFINE child == Append(call.this, WindowBits)
  <2>1. /\ call \in Call /\ call.this \in DOMAIN node_value /\ call.this \in Path
        /\ HasMore /\ WindowSize > 0 /\ call.currentpos <= call.width
        /\ Len(call.this) > 0 => DOMAIN call.this[Len(call.this)] = 1..Stride
    BY <1>1 DEF InsertBelow, TypeInv, TypeOK, CallShape, Idle
  <2>2. WindowBits \in Slot
    BY <2>1, WindowIsSlot
  <2>3. /\ DOMAIN node_value' = DOMAIN node_value \cup {child}
        /\ data_leaf' = data_leaf
        /\ child \notin DOMAIN data_leaf
    BY <1>1 DEF InsertBelow
  <2>4. ASSUME NEW k \in 0..(Len(child) - 1)
        PROVE  /\ FirstSlots(child, k) \in DOMAIN node_value
               /\ k > 0 => DOMAIN child[k] = 1..Stride
    <3>1. k \in 0..Len(call.this) /\ Len(call.this) \in Nat
      BY <2>1, <2>2, FirstSlotsFacts DEF Path
    <3>2. CASE k = Len(call.this)
      BY <2>1, <2>2, <3>1, <3>2, FirstSlotsFacts
    <3>3. CASE k # Len(call.this)
      <4>1. k \in 0..(Len(call.this) - 1)
        BY <3>1, <3>3
      <4>2. /\ FirstSlots(call.this, k) \in DOMAIN node_value
            /\ k > 0 => DOMAIN call.this[k] = 1..Stride
        BY <2>1, <4>1 DEF WellLinked, Occupied
      <4>3. QED
        BY <2>1, <2>2, <3>1, <4>1, <4>2, FirstSlotsFacts
    <3>4. QED
      BY <3>2, <3>3
  <2>5. ASSUME NEW p \in Occupied', NEW k \in 0..(Len(p) - 1)
        PROVE  /\ FirstSlots(p, k) \in DOMAIN node_value
               /\ k > 0 => DOMAIN p[k] = 1..Stride
    BY <2>3, <2>4 DEF WellLinked, Occupied
  <2>6. QED
    BY <2>3, <2>5 DEF WellLinked
<1>2. ASSUME CollapseLeaves PROVE WellLinked'
  <2>1. /\ DOMAIN node_value' = DOMAIN node_value \ Collapsible
        /\ DOMAIN data_leaf' = DOMAIN data_leaf \cup Collapsible
        /\ Occupied' = Occupied
    BY <1>2 DEF CollapseLeaves, Occupied, Collapsible
  <2>2. ASSUME NEW p \in Occupied, NEW k \in 0..(Len(p) - 1)
        PROVE  FirstSlots(p, k) \in DOMAIN node_value \ Collapsible
    BY InnerIsNotEmpty DEF WellLinked, Collapsible
  <2>3. QED
    BY <2>1, <2>2 DEF WellLinked, Collapsible
<1>3. ASSUME UNCHANGED data_leaf, DOMAIN node_value' = DOMAIN node_value
      PROVE  WellLinked'
  BY <1>3 DEF WellLinked, Occupied
<1>4. QED
  BY <1>1, <1>2, <1>3 DEF Next, vars, InsertStep, LookupStep, InsertCall, InsertHere,
     InsertAbort, InsertIntoData, LookupIpnum, LookupDotted, LookupCall, LookupHere,
     LookupData, LookupBelow, Return

(* The pointers form a tree of level-4 slots with collapsed data only at its *)
(* leaves, after any inserts and collapses (FTrieProps). *)
THEOREM TreeShape == Spec => []WellLinked
<1>1. TypeInv /\ WellLinked /\ [Next]_vars => (TypeInv /\ WellLinked)'
  BY TypeInvStep, WellLinkedStep
<1>2. QED
  BY <1>1, TypeInvInit, WellLinkedInit, PTL DEF Spec

-----------------------------------------------------------------------------
(* Data appear only when the trie is frozen, and no insert runs then. *)
CrashInv ==
  /\ NoCrash
  /\ ~frozen => DOMAIN data_leaf = {}
  /\ call.op = "insert" => ~frozen /\ call.width > 0

(* A caller that inserts nothing after collapse_leaves, and no network of    *)
(* length 0, meets neither the assert(false) nor a datum taken for a pointer *)
(* (FTrieProps). *)
THEOREM InsertsNeverCrash ==
  ASSUME ~ExtendFrozen, \A n \in Net : n.len > 0
  PROVE  Spec => []NoCrash
<1>1. Init => CrashInv
  BY DEF Init, CrashInv, NoCrash, Idle
<1>2. TypeInv /\ CrashInv /\ [Next]_vars => CrashInv'
  <2> SUFFICES ASSUME TypeInv, CrashInv, [Next]_vars PROVE CrashInv'
    OBVIOUS
  <2>1. ASSUME NEW n \in Net, NEW v \in ValueOrNone, InsertCall(n, v) PROVE CrashInv'
    BY <2>1 DEF InsertCall, CrashInv, NoCrash, Idle
  <2>2. CASE InsertHere
    BY <2>2 DEF InsertHere, CrashInv, NoCrash, Idle
  <2>3. CASE InsertAbort
    BY <2>3 DEF InsertAbort, CrashInv, HasMore, WindowSize, Stride, TypeInv, TypeOK,
                CallShape, Call, Idle
  <2>4. CASE InsertBelow
    <3>1. call \in Call
      BY <2>4 DEF InsertBelow, TypeInv, TypeOK, Idle
    <3>2. QED
      BY <2>4, <3>1 DEF InsertBelow, CrashInv, NoCrash, Call
  <2>5. CASE InsertIntoData
    BY <2>5 DEF InsertIntoData, CrashInv
  <2>6. ASSUME NEW a \in Addr, LookupIpnum(a) \/ LookupDotted(a) PROVE CrashInv'
    BY <2>6 DEF LookupIpnum, LookupDotted, LookupCall, CrashInv, NoCrash
  <2>7. CASE LookupHere
    BY <2>7 DEF LookupHere, Return, CrashInv, NoCrash, Idle
  <2>8. CASE LookupData
    BY <2>8 DEF LookupData, Return, CrashInv, NoCrash, Idle
  <2>9. CASE LookupBelow
    <3>1. call \in Call
      BY <2>9 DEF LookupBelow, TypeInv, TypeOK, Idle
    <3>2. QED
      BY <2>9, <3>1 DEF LookupBelow, CrashInv, NoCrash, Call
  <2>10. CASE CollapseLeaves
    BY <2>10 DEF CollapseLeaves, CrashInv, NoCrash, Idle
  <2>11. CASE UNCHANGED vars
    BY <2>11 DEF vars, CrashInv, NoCrash
  <2>12. QED
    BY <2>1, <2>2, <2>3, <2>4, <2>5, <2>6, <2>7, <2>8, <2>9, <2>10, <2>11
       DEF Next, InsertStep, LookupStep
<1>3. CrashInv => NoCrash
  BY DEF CrashInv
<1>4. QED
  BY <1>1, <1>2, <1>3, TypeInvInit, TypeInvStep, PTL DEF Spec

-----------------------------------------------------------------------------
(* The path of a word, and what the trie answers along it.                   *)
Depth(len) == IF len % 4 > 1 THEN (len \div 4) + 1 ELSE len \div 4

(* The path of a word, slot by slot. *)
LEMMA PathOfSlots ==
  ASSUME NEW val, NEW len \in Nat
  PROVE  /\ Depth(len) \in Nat
         /\ DOMAIN PathOf(val, len) = 1..Depth(len)
         /\ Len(PathOf(val, len)) = Depth(len)
         /\ \A i \in 1..Depth(len) :
              PathOf(val, len)[i] = [j \in 1..(IF i <= len \div 4 THEN 4 ELSE len % 4)
                                       |-> val[4 * (i-1) + j]]
<1>1. Depth(len) \in Nat
  BY DEF Depth
<1>2. PathOf(val, len) = [i \in 1..Depth(len) |->
                            [j \in 1..(IF i <= len \div 4 THEN 4 ELSE len % 4)
                               |-> val[4 * (i-1) + j]]]
  BY DEF PathOf, Depth, Stride
<1> QED
  BY <1>1, <1>2

(* The bits of slot i, and the slot itself. *)
SlotSize(len, i) == IF i <= len \div 4 THEN 4 ELSE len % 4

LEMMA PathOfSlot ==
  ASSUME NEW val, NEW len \in Nat, NEW i \in 1..Depth(len)
  PROVE  PathOf(val, len)[i] = [j \in 1..SlotSize(len, i) |-> val[4 * (i-1) + j]]
<1>1. PathOf(val, len) = [k \in 1..Depth(len) |->
                            [j \in 1..SlotSize(len, k) |-> val[4 * (k-1) + j]]]
  BY DEF PathOf, Depth, Stride, SlotSize
<1> QED
  BY <1>1

LEMMA PathOfType ==
  ASSUME NEW val, NEW len \in Nat, \A i \in 1..len : val[i] \in Bit
  PROVE  PathOf(val, len) \in Path
<1>1. \A i \in 1..Depth(len) : PathOf(val, len)[i] \in Slot
  <2> SUFFICES ASSUME NEW i \in 1..Depth(len) PROVE PathOf(val, len)[i] \in Slot
    OBVIOUS
  <2> DEFINE m == IF i <= len \div 4 THEN 4 ELSE len % 4
  <2>1. m \in 1..4 /\ \A j \in 1..m : 4 * (i-1) + j \in 1..len
    BY PathOfSlots DEF Depth
  <2>2. [j \in 1..m |-> val[4 * (i-1) + j]] \in [1..m -> Bit]
    BY <2>1
  <2>3. PathOf(val, len)[i] = [j \in 1..m |-> val[4 * (i-1) + j]]
    BY PathOfSlots
  <2> QED
    BY <2>1, <2>2, <2>3 DEF Slot, Stride
<1>2. PathOf(val, len) = [i \in 1..Depth(len) |-> PathOf(val, len)[i]]
  BY PathOfSlots DEF PathOf, Depth, Stride
<1>3. PathOf(val, len) \in [1..Depth(len) -> Slot]
  BY <1>1, <1>2
<1> QED
  BY <1>3, PathOfSlots DEF Path

(* Two lengths that do not lose a bit, and words, are told apart by their    *)
(* paths. *)
LEMMA PathOfInjective ==
  ASSUME NEW v, NEW w, NEW m \in Nat, NEW n \in Nat, m % 4 # 1, n % 4 # 1,
         PathOf(v, m) = PathOf(w, n)
  PROVE  m = n /\ \A i \in 1..m : v[i] = w[i]
<1> DEFINE p == PathOf(v, m)
<1>1. Depth(m) = Depth(n)
  BY PathOfSlots
<1>2. ASSUME NEW i \in 1..Depth(m)
      PROVE  /\ DOMAIN p[i] = 1..SlotSize(m, i) /\ DOMAIN p[i] = 1..SlotSize(n, i)
             /\ \A j \in 1..SlotSize(m, i) : v[4 * (i-1) + j] = w[4 * (i-1) + j]
  <2>1. p[i] = [j \in 1..SlotSize(m, i) |-> v[4 * (i-1) + j]]
    <3>1. i \in 1..Depth(m)
      BY <1>2
    <3>2. PathOf(v, m)[i] = [j \in 1..SlotSize(m, i) |-> v[4 * (i-1) + j]]
      BY <3>1, PathOfSlot
    <3> QED
      BY <3>2
  <2>2. p[i] = [j \in 1..SlotSize(n, i) |-> w[4 * (i-1) + j]]
    <3>1. i \in 1..Depth(n)
      BY <1>1, <1>2
    <3>2. PathOf(w, n)[i] = [j \in 1..SlotSize(n, i) |-> w[4 * (i-1) + j]]
      BY <3>1, PathOfSlot
    <3> QED
      BY <3>2
  <2>3. DOMAIN p[i] = 1..SlotSize(m, i) /\ DOMAIN p[i] = 1..SlotSize(n, i)
    BY <2>1, <2>2
  <2>4. \A j \in 1..SlotSize(m, i) : p[i][j] = v[4 * (i-1) + j]
    BY <2>1
  <2>5. \A j \in 1..SlotSize(n, i) : p[i][j] = w[4 * (i-1) + j]
    BY <2>2
  <2> QED
    BY <2>3, <2>4, <2>5
<1>3. \A i \in 1..Depth(m) : SlotSize(m, i) = SlotSize(n, i)
  <2> SUFFICES ASSUME NEW i \in 1..Depth(m) PROVE SlotSize(m, i) = SlotSize(n, i)
    OBVIOUS
  <2>1. SlotSize(m, i) \in Nat /\ SlotSize(n, i) \in Nat
    BY PathOfSlots DEF SlotSize
  <2>2. 1..SlotSize(m, i) = 1..SlotSize(n, i)
    BY <1>2
  <2> QED
    BY <2>1, <2>2
<1>4. m = n
  <2>1. CASE Depth(m) = 0
    BY <1>1, <2>1 DEF Depth
  <2>2. CASE Depth(m) > 0
    <3>1. SlotSize(m, Depth(m)) = SlotSize(n, Depth(m))
      BY <1>3, <2>2, PathOfSlots
    <3> QED
      BY <1>1, <2>2, <3>1 DEF Depth, SlotSize
  <2> QED
    BY <2>1, <2>2, PathOfSlots
<1>5. ASSUME NEW i \in 1..m PROVE v[i] = w[i]
  <2> DEFINE k == (i - 1) \div 4 + 1
             j == ((i - 1) % 4) + 1
  <2>1. k \in 1..Depth(m) /\ j \in 1..SlotSize(m, k) /\ 4 * (k-1) + j = i
    BY <1>5 DEF Depth, SlotSize
  <2>2. v[4 * (k-1) + j] = w[4 * (k-1) + j]
    BY <1>2, <2>1
  <2> QED
    BY <2>1, <2>2
<1> QED
  BY <1>4, <1>5

(* The whole windows at the start of a path. *)
LEMMA PathOfPrefix ==
  ASSUME NEW val, NEW len \in Nat, NEW k \in 0..(len \div 4)
  PROVE  /\ FirstSlots(PathOf(val, len), k) = PathOf(val, 4 * k)
         /\ k <= Depth(len)
<1>1. k \in Nat /\ k <= Depth(len) /\ Depth(4 * k) = k /\ (4 * k) \div 4 = k /\ 4 * k \in Nat
  BY DEF Depth
<1>2. PathOf(val, 4 * k) = [i \in 1..k |-> [j \in 1..4 |-> val[4 * (i-1) + j]]]
  BY <1>1 DEF PathOf, Stride
<1>3. \A i \in 1..k : PathOf(val, len)[i] = [j \in 1..4 |-> val[4 * (i-1) + j]]
  <2> SUFFICES ASSUME NEW i \in 1..k PROVE PathOf(val, len)[i] = [j \in 1..4 |-> val[4 * (i-1) + j]]
    OBVIOUS
  <2>1. i \in 1..Depth(len) /\ i <= len \div 4
    BY <1>1 DEF Depth
  <2> QED
    BY <2>1, PathOfSlots
<1> QED
  BY <1>1, <1>2, <1>3 DEF FirstSlots

(* One slot more. *)
LEMMA PathOfAppend ==
  ASSUME NEW val, NEW k \in Nat, NEW r \in 2..4, \A i \in 1..(4 * k + r) : val[i] \in Bit
  PROVE  Append(PathOf(val, 4 * k), [j \in 1..r |-> val[4 * k + j]]) = PathOf(val, 4 * k + r)
<1> DEFINE p == PathOf(val, 4 * k)
           s == [j \in 1..r |-> val[4 * k + j]]
           q == PathOf(val, 4 * k + r)
<1>1. Depth(4 * k) = k /\ Depth(4 * k + r) = k + 1 /\ 4 * k \in Nat /\ 4 * k + r \in Nat
  BY DEF Depth
<1>2. p \in Path /\ q \in Path /\ Len(p) = k /\ Len(q) = k + 1
  BY <1>1, PathOfSlots, PathOfType
<1>3. s \in [1..r -> Bit]
  OBVIOUS
<1>4. s \in Slot
  BY <1>3 DEF Slot, Stride
<1>5. Append(p, s) \in Path /\ Len(Append(p, s)) = k + 1
      /\ (\A i \in 1..k : Append(p, s)[i] = p[i]) /\ Append(p, s)[k + 1] = s
  BY <1>2, <1>4 DEF Path
<1>6. \A i \in 1..k : p[i] = q[i]
  <2> SUFFICES ASSUME NEW i \in 1..k PROVE p[i] = q[i]
    OBVIOUS
  <2>1. i <= (4 * k) \div 4 /\ i <= (4 * k + r) \div 4
        /\ i \in 1..Depth(4 * k) /\ i \in 1..Depth(4 * k + r)
    BY <1>1
  <2>2. p[i] = [j \in 1..4 |-> val[4 * (i-1) + j]]
    BY <1>1, <2>1, PathOfSlots
  <2>3. q[i] = [j \in 1..4 |-> val[4 * (i-1) + j]]
    BY <1>1, <2>1, PathOfSlots
  <2> QED
    BY <2>2, <2>3
<1>7. q[k + 1] = s
  <2>1. (k + 1 <= (4 * k + r) \div 4) => r = 4
    OBVIOUS
  <2>2. ~(k + 1 <= (4 * k + r) \div 4) => (4 * k + r) % 4 = r
    OBVIOUS
  <2>3. k + 1 \in 1..Depth(4 * k + r) /\ 4 * ((k + 1) - 1) = 4 * k
    BY <1>1
  <2>4. q[k + 1] = [j \in 1..r |-> val[4 * ((k + 1) - 1) + j]]
    BY <1>1, <2>1, <2>2, <2>3, PathOfSlots
  <2> QED
    BY <2>3, <2>4
<1>8. \A i \in 1..(k + 1) : Append(p, s)[i] = q[i]
  BY <1>5, <1>6, <1>7
<1> QED
  BY <1>2, <1>5, <1>8 DEF Path

-----------------------------------------------------------------------------
Windows == AddrBits \div 4

LEMMA WindowsFacts == Windows \in Nat /\ AddrBits = 4 * Windows /\ AddrBits \div Stride = Windows
BY AddrBitsAssumption DEF Windows, Stride

(* A set of numbers up to a bound has a greatest one. *)
LEMMA Greatest ==
  ASSUME NEW n \in Nat, NEW T \in SUBSET (0..n), T # {}
  PROVE  \E k \in T : \A m \in T : m <= k
<1> DEFINE U == {n - k : k \in T}
<1>1. U \subseteq Nat /\ U # {}
  <2>1. \A k \in T : k \in Nat /\ n - k \in Nat
    OBVIOUS
  <2>2. PICK k \in T : TRUE
    OBVIOUS
  <2>3. n - k \in U
    BY <2>2
  <2> QED
    BY <2>1, <2>3
<1>2. PICK x \in U : \A y \in U : ~(<<y, x>> \in OpToRel(<, Nat))
  BY <1>1, WFMin, NatLessThanWellFounded
<1>3. \A y \in U : ~(y < x)
  BY <1>1, <1>2 DEF OpToRel
<1>4. PICK k \in T : x = n - k
  OBVIOUS
<1>5. \A m \in T : ~(n - m < n - k)
  BY <1>3, <1>4
<1> QED
  BY <1>5

(* The node at which the search of a word in a set of taken paths ends. *)
LEMMA DeepestFacts ==
  ASSUME NEW taken, Root \in taken, NEW a
  PROVE  /\ Deepest(taken, a) \in 0..Windows
         /\ PathOf(a, 4 * Deepest(taken, a)) \in taken
         /\ \A m \in 0..Windows : PathOf(a, 4 * m) \in taken => m <= Deepest(taken, a)
<1> DEFINE T == {k \in 0..Windows : PathOf(a, 4 * k) \in taken}
<1>1. PathOf(a, 0) = Root
  BY DEF PathOf, Root, Stride
<1>2. 0 \in T
  BY <1>1, WindowsFacts
<1>3. PICK k \in T : \A m \in T : m <= k
  BY <1>2, Greatest, WindowsFacts
<1>4. \E d \in 0..Windows : /\ PathOf(a, 4 * d) \in taken
                            /\ \A m \in (d+1)..Windows : PathOf(a, 4 * m) \notin taken
  <2>1. \A m \in (k+1)..Windows : PathOf(a, 4 * m) \notin taken
    BY <1>3, WindowsFacts
  <2> QED
    BY <1>3, <2>1
<1>5. /\ Deepest(taken, a) \in 0..Windows
      /\ PathOf(a, 4 * Deepest(taken, a)) \in taken
      /\ \A m \in (Deepest(taken, a) + 1)..Windows : PathOf(a, 4 * m) \notin taken
  BY <1>4, WindowsFacts DEF Deepest, Stride
<1> QED
  BY <1>5, WindowsFacts

(* And the level of that node. *)
LEMMA FoundFacts ==
  ASSUME NEW taken, Root \in taken, NEW a
  PROVE  \/ /\ Levels(taken, a) = {}
            /\ Found(taken, a) = PathOf(a, 4 * Deepest(taken, a))
         \/ \E r \in Levels(taken, a) :
              /\ Found(taken, a) = LevelSlot(a, Deepest(taken, a), r)
              /\ \A s \in Levels(taken, a) : s <= r
<1> DEFINE L == Levels(taken, a)
<1>1. L \subseteq 1..3
  BY DEF Levels, Stride
<1>2. CASE L = {}
  BY <1>2 DEF Found, Stride
<1>3. CASE L # {}
  <2>1. \E r \in L : \A s \in L : s <= r
    <3>1. L \in SUBSET (0..3)
      BY <1>1
    <3> QED
      BY <1>3, <3>1, Greatest
  <2> DEFINE c == CHOOSE r \in L : \A s \in L : s <= r
  <2>2. c \in L /\ \A s \in L : s <= c
    BY <2>1
  <2>3. Found(taken, a) = LevelSlot(a, Deepest(taken, a), c)
    BY <1>3 DEF Found
  <2> QED
    BY <2>2, <2>3
<1> QED
  BY <1>2, <1>3

LEMMA FoundTaken ==
  ASSUME NEW taken, Root \in taken, NEW a
  PROVE  Found(taken, a) \in taken
BY DeepestFacts, FoundFacts DEF Levels

-----------------------------------------------------------------------------
(* An insert stands at the path of the bits it has read: whole windows, or   *)
(* all of the prefix. *)
InsertPath ==
  call.op = "insert" =>
    /\ [val |-> call.val, len |-> call.width] \in Net
    /\ call.currentpos % 4 # 1
    /\ call.currentpos % 4 = 0 \/ call.currentpos = call.width
    /\ call.this = PathOf(call.val, call.currentpos)

(* A taken path is the beginning of a network's. *)
OnWay(p) ==
  \E n \in Net : \E len \in 0..n.len :
    /\ len % 4 # 1 /\ (len % 4 = 0 \/ len = n.len)
    /\ p = PathOf(n.val, len)

Rooted == \A p \in Occupied : p = Root \/ OnWay(p)

(* A value is at the end of the path of a network that was inserted. *)
EndOf(p) == \E n \in Net : n.len # 0 /\ p = PathOf(n.val, Effective(n).len)

Contents == \A p \in Occupied : Content(p) # NoValue => EndOf(p)

TreeInv == TypeInv /\ WellLinked
WayInv == InsertPath /\ Rooted /\ Contents

LEMMA EffectiveFacts ==
  ASSUME NEW n \in Net
  PROVE  /\ n.len \in 0..AddrBits /\ n.val \in Word /\ AddrBits \in Nat
         /\ n = [val |-> n.val, len |-> n.len]
         /\ Effective(n) = [val |-> n.val, len |-> Effective(n).len]
         /\ Effective(n).len = IF n.len % 4 = 1 THEN n.len - 1 ELSE n.len
         /\ Effective(n).len \in 0..AddrBits /\ Effective(n).len % 4 # 1
         /\ \A i \in 1..AddrBits : n.val[i] \in Bit
<1>1. n \in [val : Word, len : 0..AddrBits] /\ AddrBits \in Nat
  BY NetAssumption, AddrBitsAssumption
<1>2. n.len \in 0..AddrBits /\ n.val \in Word /\ n = [val |-> n.val, len |-> n.len]
  BY <1>1
<1>3. Effective(n) = [val |-> n.val, len |-> IF n.len % 4 = 1 THEN n.len - 1 ELSE n.len]
  BY DEF Effective, LosesBit, Stride
<1>4. Effective(n).len = IF n.len % 4 = 1 THEN n.len - 1 ELSE n.len
  BY <1>3
<1>5. Effective(n) = [val |-> n.val, len |-> Effective(n).len]
  BY <1>3
<1>6. Effective(n).len \in 0..AddrBits /\ Effective(n).len % 4 # 1
  BY <1>1, <1>2, <1>4
<1>7. \A i \in 1..AddrBits : n.val[i] \in Bit
  BY <1>2 DEF Word
<1> QED
  BY <1>1, <1>2, <1>4, <1>5, <1>6, <1>7

LEMMA WayInit == Init => WayInv
<1> SUFFICES ASSUME Init PROVE WayInv
  OBVIOUS
<1>1. Occupied = {Root} /\ Content(Root) = NoValue /\ call.op # "insert"
  BY DEF Init, Occupied, Content, Idle
<1> QED
  BY <1>1 DEF WayInv, InsertPath, Rooted, Contents

(* What an insert that goes on does to the taken paths. *)
LEMMA BelowView ==
  ASSUME TreeInv, InsertPath, InsertBelow
  PROVE  /\ WindowSize \in 2..4 /\ call.currentpos % 4 = 0
         /\ call \in Call /\ call.currentpos + WindowSize <= call.width
         /\ call' = [call EXCEPT !.this = PathOf(call.val, call.currentpos + WindowSize),
                                 !.currentpos = @ + WindowSize]
         /\ Append(call.this, WindowBits) = PathOf(call.val, call.currentpos + WindowSize)
         /\ Occupied' = Occupied \cup {PathOf(call.val, call.currentpos + WindowSize)}
         /\ \A p \in Occupied : Content(p)' = Content(p)
         /\ \A p \in Occupied' : p \notin Occupied => Content(p)' = NoValue
<1>1. call \in Call /\ call.currentpos <= call.width
  BY DEF TreeInv, TypeInv, TypeOK, CallShape, InsertBelow, Idle
<1>2. call.currentpos \in Nat /\ call.width \in Nat /\ call.val \in Word
      /\ call.width <= AddrBits /\ AddrBits \in Nat
  BY <1>1, AddrBitsAssumption DEF Call
<1>3. WindowSize \in 2..4 /\ call.currentpos % 4 = 0 /\ call.currentpos + WindowSize <= call.width
  BY <1>1, <1>2 DEF InsertBelow, InsertPath, HasMore, WindowSize, Stride
<1>4. PICK k \in Nat : call.currentpos = 4 * k
  BY <1>2, <1>3
<1>5. \A i \in 1..(4 * k + WindowSize) : call.val[i] \in Bit
  BY <1>2, <1>3, <1>4 DEF Word
<1>6. WindowBits = [j \in 1..WindowSize |-> call.val[4 * k + j]]
  BY <1>4 DEF WindowBits
<1>7. call.this = PathOf(call.val, 4 * k)
  BY <1>4 DEF InsertPath, InsertBelow
<1>8. Append(call.this, WindowBits) = PathOf(call.val, call.currentpos + WindowSize)
  BY <1>3, <1>4, <1>5, <1>6, <1>7, PathOfAppend
<1> DEFINE child == PathOf(call.val, call.currentpos + WindowSize)
<1>9. /\ data_leaf' = data_leaf /\ child \notin DOMAIN data_leaf
      /\ node_value' = [p \in DOMAIN node_value \cup {child} |->
                           IF p \in DOMAIN node_value THEN node_value[p] ELSE NoValue]
      /\ call' = [call EXCEPT !.this = child, !.currentpos = @ + WindowSize]
  BY <1>8 DEF InsertBelow
<1>10. Occupied' = Occupied \cup {child}
  BY <1>9 DEF Occupied
<1>11. \A p \in Occupied : Content(p)' = Content(p)
  BY <1>9 DEF Content, Occupied
<1>12. \A p \in Occupied' : p \notin Occupied => Content(p)' = NoValue
  BY <1>9, <1>10 DEF Content, Occupied
<1> QED
  BY <1>1, <1>3, <1>8, <1>9, <1>10, <1>11, <1>12

(* Where the prefix ends. *)
LEMMA HereView ==
  ASSUME TreeInv, InsertPath, InsertHere
  PROVE  /\ call.this = PathOf(call.val, Effective([val |-> call.val, len |-> call.width]).len)
         /\ [val |-> call.val, len |-> call.width] \in Net /\ call.width # 0
         /\ call.this \in DOMAIN node_value /\ call.arg \in ValueOrNone
         /\ call.currentpos = Effective([val |-> call.val, len |-> call.width]).len
         /\ Occupied' = Occupied
         /\ \A p \in Occupied : Content(p)' = IF p = call.this THEN call.arg ELSE Content(p)
         /\ call' = Idle /\ ret' = ret
<1>1. call \in Call /\ call.currentpos <= call.width /\ call.this \in DOMAIN node_value
      /\ call.arg \in ValueOrNone
  BY DEF TreeInv, TypeInv, TypeOK, CallShape, Call, InsertHere, Idle
<1>2. call.currentpos \in Nat /\ call.width \in Nat
  BY <1>1, AddrBitsAssumption DEF Call
<1> DEFINE n == [val |-> call.val, len |-> call.width]
<1>3. call.currentpos = Effective(n).len /\ call.width # 0
  BY <1>1, <1>2 DEF InsertHere, HasMore, InsertPath, Effective, LosesBit, Stride
<1>4. n \in Net /\ call.this = PathOf(call.val, call.currentpos)
  BY DEF InsertPath, InsertHere
<1>5. node_value' = [node_value EXCEPT ![call.this] = call.arg] /\ data_leaf' = data_leaf
      /\ call' = Idle /\ ret' = ret
  BY DEF InsertHere
<1>6. DOMAIN node_value \cap DOMAIN data_leaf = {}
  BY DEF TreeInv, WellLinked
<1>7. Occupied' = Occupied
  BY <1>5 DEF Occupied
<1>8. \A p \in Occupied : Content(p)' = IF p = call.this THEN call.arg ELSE Content(p)
  BY <1>1, <1>5, <1>6 DEF Content, Occupied
<1> QED
  BY <1>1, <1>3, <1>4, <1>5, <1>7, <1>8

(* A collapse changes no content. *)
LEMMA CollapseView ==
  ASSUME TreeInv, CollapseLeaves
  PROVE  /\ Occupied' = Occupied /\ \A p \in Occupied : Content(p)' = Content(p)
         /\ call' = call /\ ret' = ret /\ call = Idle
         /\ Root \notin Collapsible /\ Root \in DOMAIN node_value
         /\ node_value'[Root] = node_value[Root]
<1>1. DOMAIN node_value \cap DOMAIN data_leaf = {} /\ Root \in DOMAIN node_value
  BY DEF TreeInv, WellLinked
<1>2. Collapsible \subseteq DOMAIN node_value /\ Root \notin Collapsible
  BY DEF Collapsible
<1>3. Occupied' = Occupied
  BY <1>2 DEF CollapseLeaves, Occupied
<1>4. \A p \in Occupied : Content(p)' = Content(p)
  BY <1>1, <1>2 DEF CollapseLeaves, Content, Occupied
<1> QED
  BY <1>1, <1>2, <1>3, <1>4 DEF CollapseLeaves

(* No other action touches the trie. *)
LEMMA OtherView ==
  ASSUME [Next]_vars, ~InsertBelow, ~InsertHere, ~CollapseLeaves
  PROVE  node_value' = node_value /\ data_leaf' = data_leaf
BY DEF Next, vars, InsertStep, LookupStep, InsertCall, InsertAbort, InsertIntoData, LookupIpnum,
   LookupDotted, LookupCall, LookupHere, LookupData, LookupBelow, Return

LEMMA WayStep == TreeInv /\ WayInv /\ [Next]_vars => WayInv'
<1> SUFFICES ASSUME TreeInv, WayInv, [Next]_vars PROVE WayInv'
  OBVIOUS
<1> USE DEF WayInv
<1>1. CASE InsertBelow
  <2> DEFINE n == [val |-> call.val, len |-> call.width]
             here == call.currentpos + WindowSize
  <2>1. /\ WindowSize \in 2..4 /\ call.currentpos % 4 = 0
        /\ call \in Call /\ here <= call.width
        /\ call' = [call EXCEPT !.this = PathOf(call.val, here), !.currentpos = here]
        /\ Occupied' = Occupied \cup {PathOf(call.val, here)}
        /\ \A p \in Occupied : Content(p)' = Content(p)
        /\ \A p \in Occupied' : p \notin Occupied => Content(p)' = NoValue
    BY <1>1, BelowView
  <2>2. call.currentpos \in Nat /\ call.width \in Nat /\ n \in Net /\ call.op = "insert"
    BY <1>1, <2>1, AddrBitsAssumption DEF InsertPath, Call, InsertBelow
  <2>3. here \in 0..n.len /\ here % 4 # 1 /\ (here % 4 = 0 \/ here = n.len)
    BY <1>1, <2>1, <2>2 DEF WindowSize, Stride
  <2>4. call'.op = "insert" /\ call'.val = call.val /\ call'.width = call.width
        /\ call'.this = PathOf(call.val, here) /\ call'.currentpos = here
    BY <2>1, <2>2 DEF Call
  <2>5. InsertPath'
    BY <2>2, <2>3, <2>4 DEF InsertPath
  <2>6. OnWay(PathOf(call.val, here))
    BY <2>2, <2>3 DEF OnWay
  <2>7. Rooted'
    BY <2>1, <2>6 DEF Rooted, OnWay
  <2>8. Contents'
    BY <2>1 DEF Contents, EndOf
  <2> QED
    BY <2>5, <2>7, <2>8
<1>2. CASE InsertHere
  <2> DEFINE n == [val |-> call.val, len |-> call.width]
  <2>1. /\ n \in Net /\ n.len # 0 /\ call.this = PathOf(n.val, Effective(n).len)
        /\ Occupied' = Occupied /\ call' = Idle
        /\ \A p \in Occupied : Content(p)' = IF p = call.this THEN call.arg ELSE Content(p)
    BY <1>2, HereView
  <2>2. EndOf(call.this)
    BY <2>1 DEF EndOf
  <2> QED
    BY <2>1, <2>2 DEF InsertPath, Idle, Rooted, OnWay, Contents, EndOf
<1>3. CASE CollapseLeaves
  BY <1>3, CollapseView DEF InsertPath, Idle, Rooted, OnWay, Contents, EndOf
<1>4. ASSUME ~InsertBelow, ~InsertHere, ~CollapseLeaves PROVE WayInv'
  <2>1. Rooted' /\ Contents'
    BY <1>4, OtherView DEF Rooted, OnWay, Contents, EndOf, Content, Occupied
  <2>2. InsertPath'
    <3>1. ASSUME NEW n \in Net, NEW v \in ValueOrNone, InsertCall(n, v) PROVE InsertPath'
      <4>1. call' = [op |-> "insert", val |-> n.val, width |-> n.len,
                     currentpos |-> 0, this |-> Root, arg |-> v]
        BY <3>1 DEF InsertCall
      <4>2. [val |-> n.val, len |-> n.len] \in Net
        BY EffectiveFacts
      <4>3. PathOf(n.val, 0) = Root
        BY DEF PathOf, Root, Stride
      <4> QED
        BY <4>1, <4>2, <4>3 DEF InsertPath
    <3>2. ASSUME call'.op # "insert" PROVE InsertPath'
      BY <3>2 DEF InsertPath
    <3>3. ASSUME InsertAbort \/ InsertIntoData \/ LookupBelow PROVE call'.op # "insert"
      <4>1. call \in Call
        BY <3>3 DEF TreeInv, TypeInv, TypeOK, InsertAbort, InsertIntoData, LookupBelow, Idle
      <4> QED
        BY <3>3, <4>1 DEF InsertAbort, InsertIntoData, LookupBelow, Call
    <3>4. ASSUME NEW a \in Addr, LookupIpnum(a) \/ LookupDotted(a) PROVE call'.op # "insert"
      BY <3>4 DEF LookupIpnum, LookupDotted, LookupCall
    <3>5. ASSUME LookupHere \/ LookupData PROVE call'.op # "insert"
      BY <3>5 DEF LookupHere, LookupData, Return, Idle
    <3>6. CASE UNCHANGED vars
      BY <3>6 DEF vars, InsertPath
    <3> QED
      BY <1>4, <3>1, <3>2, <3>3, <3>4, <3>5, <3>6 DEF Next, InsertStep, LookupStep
  <2> QED
    BY <2>1, <2>2
<1> QED
  BY <1>1, <1>2, <1>3, <1>4

LEMMA TreeInit == Init => TreeInv /\ WayInv
BY TypeInvInit, WellLinkedInit, WayInit DEF TreeInv

LEMMA TreeStep == TreeInv /\ WayInv /\ [Next]_vars => (TreeInv /\ WayInv)'
BY TypeInvStep, WellLinkedStep, WayStep DEF TreeInv

LEMMA TreeCorrect == Spec => [](TreeInv /\ WayInv)
BY TreeInit, TreeStep, PTL DEF Spec

-----------------------------------------------------------------------------
LEMMA PathOfAgree ==
  ASSUME NEW v, NEW w, NEW len \in Nat, \A i \in 1..len : v[i] = w[i]
  PROVE  PathOf(v, len) = PathOf(w, len)
<1> DEFINE size(i) == IF i <= len \div 4 THEN 4 ELSE len % 4
<1>1. \A i \in 1..Depth(len) : \A j \in 1..size(i) : v[4 * (i-1) + j] = w[4 * (i-1) + j]
  <2> SUFFICES ASSUME NEW i \in 1..Depth(len), NEW j \in 1..size(i)
               PROVE  v[4 * (i-1) + j] = w[4 * (i-1) + j]
    OBVIOUS
  <2>1. 4 * (i-1) + j \in 1..len
    BY PathOfSlots DEF Depth
  <2> QED
    BY <2>1
<1>2. PathOf(v, len) = [i \in 1..Depth(len) |-> [j \in 1..size(i) |-> v[4 * (i-1) + j]]]
  BY DEF PathOf, Depth, Stride
<1>3. PathOf(w, len) = [i \in 1..Depth(len) |-> [j \in 1..size(i) |-> w[4 * (i-1) + j]]]
  BY DEF PathOf, Depth, Stride
<1> HIDE DEF size
<1> QED
  BY <1>1, <1>2, <1>3

LEMMA PathOfSizes ==
  ASSUME NEW val, NEW len \in Nat, len % 4 # 1
  PROVE  \A i \in 1..Depth(len) : \E m \in 2..4 : DOMAIN PathOf(val, len)[i] = 1..m
<1> SUFFICES ASSUME NEW i \in 1..Depth(len) PROVE \E m \in 2..4 : DOMAIN PathOf(val, len)[i] = 1..m
  OBVIOUS
<1> DEFINE m == SlotSize(len, i)
<1>1. PathOf(val, len)[i] = [j \in 1..m |-> val[4 * (i-1) + j]]
  BY PathOfSlot
<1>2. m \in 2..4
  BY DEF Depth, SlotSize
<1>3. DOMAIN PathOf(val, len)[i] = 1..m
  BY <1>1
<1> QED
  BY <1>2, <1>3

(* A slot below whole windows. *)
LEMMA LevelSlotFacts ==
  ASSUME NEW a \in Word, NEW k \in 0..Windows, NEW r \in 1..4, 4 * k + r <= AddrBits
  PROVE  /\ LevelSlot(a, k, r) \in Path
         /\ Len(LevelSlot(a, k, r)) = k + 1
         /\ LevelSlot(a, k, r)[k + 1] = [j \in 1..r |-> a[4 * k + j]]
         /\ FirstSlots(LevelSlot(a, k, r), k) = PathOf(a, 4 * k)
         /\ r # 1 => LevelSlot(a, k, r) = PathOf(a, 4 * k + r)
<1> DEFINE s == [j \in 1..r |-> a[4 * k + j]]
<1>1. k \in Nat /\ AddrBits \in Nat /\ \A i \in 1..AddrBits : a[i] \in Bit
  BY WindowsFacts, AddrBitsAssumption DEF Word
<1>2. \A i \in 1..(4 * k + r) : a[i] \in Bit
  BY <1>1
<1>3. s \in [1..r -> Bit]
  BY <1>2
<1>4. s \in Slot
  BY <1>3 DEF Slot, Stride
<1>5. PathOf(a, 4 * k) \in Path /\ Len(PathOf(a, 4 * k)) = k
  <2>1. 4 * k \in Nat /\ Depth(4 * k) = k /\ \A i \in 1..(4 * k) : a[i] \in Bit
    BY <1>1, <1>2 DEF Depth
  <2> QED
    BY <2>1, PathOfSlots, PathOfType
<1>6. LevelSlot(a, k, r) = Append(PathOf(a, 4 * k), s)
  BY DEF LevelSlot, Stride
<1>7. r # 1 => LevelSlot(a, k, r) = PathOf(a, 4 * k + r)
  <2> SUFFICES ASSUME r # 1 PROVE LevelSlot(a, k, r) = PathOf(a, 4 * k + r)
    OBVIOUS
  <2>1. r \in 2..4
    OBVIOUS
  <2> QED
    BY <1>1, <1>2, <1>6, <2>1, PathOfAppend
<1> HIDE DEF s
<1>8. /\ Append(PathOf(a, 4 * k), s) \in Path
      /\ Len(Append(PathOf(a, 4 * k), s)) = k + 1
      /\ Append(PathOf(a, 4 * k), s)[k + 1] = s
      /\ FirstSlots(Append(PathOf(a, 4 * k), s), k) = PathOf(a, 4 * k)
  BY <1>4, <1>5, FirstSlotsFacts
<1>9. s = [j \in 1..r |-> a[4 * k + j]]
  BY DEF s
<1> QED
  BY <1>6, <1>7, <1>8, <1>9

LEMMA LevelSlotPath ==
  ASSUME NEW a \in Word, NEW k \in 0..Windows, NEW r \in 2..4, 4 * k + r <= AddrBits
  PROVE  LevelSlot(a, k, r) = PathOf(a, 4 * k + r)
<1>1. r \in 1..4 /\ r # 1
  OBVIOUS
<1> QED
  BY <1>1, LevelSlotFacts

(* The slots of a taken path have two to four bits, and there are no more    *)
(* of them than windows in a word. *)
LEMMA TakenSlots ==
  ASSUME Rooted, NEW p \in Occupied
  PROVE  /\ Len(p) \in 0..Windows
         /\ \A i \in 1..Len(p) : \E m \in 2..4 : DOMAIN p[i] = 1..m
<1>1. CASE p = Root
  BY <1>1, WindowsFacts DEF Root
<1>2. ASSUME NEW n \in Net, NEW len \in 0..n.len, len % 4 # 1, p = PathOf(n.val, len)
      PROVE  /\ Len(p) \in 0..Windows
             /\ \A i \in 1..Len(p) : \E m \in 2..4 : DOMAIN p[i] = 1..m
  <2>1. len \in Nat /\ len <= 4 * Windows /\ Windows \in Nat
    BY EffectiveFacts, WindowsFacts
  <2>2. Len(p) = Depth(len) /\ Depth(len) \in Nat
    BY <1>2, <2>1, PathOfSlots
  <2>3. Depth(len) <= Windows
    BY <2>1 DEF Depth
  <2>4. \A i \in 1..Len(p) : \E m \in 2..4 : DOMAIN p[i] = 1..m
    BY <1>2, <2>1, <2>2, PathOfSizes
  <2> QED
    BY <2>2, <2>3, <2>4
<1> QED
  BY <1>1, <1>2 DEF Rooted, OnWay

(* The search ends at the longest taken beginning of the address. *)
LEMMA FoundIsLongest ==
  ASSUME TreeInv, Rooted, NEW a \in Word
  PROVE  \E len \in 0..AddrBits :
           /\ len % 4 # 1
           /\ Found(Occupied, a) = PathOf(a, len)
           /\ \A m \in 0..AddrBits :
                m % 4 # 1 /\ PathOf(a, m) \in Occupied => m <= len
<1> DEFINE k == Deepest(Occupied, a)
           L == Levels(Occupied, a)
<1>1. Root \in Occupied /\ WellLinked
  BY DEF TreeInv, WellLinked, Occupied
<1>2. /\ k \in 0..Windows /\ PathOf(a, 4 * k) \in Occupied
      /\ \A m \in 0..Windows : PathOf(a, 4 * m) \in Occupied => m <= k
  BY <1>1, DeepestFacts
<1>3. Windows \in Nat /\ AddrBits = 4 * Windows /\ AddrBits \in Nat
  BY WindowsFacts, AddrBitsAssumption
<1>4. L = {r \in 1..3 : 4 * k + r <= AddrBits /\ LevelSlot(a, k, r) \in Occupied}
  BY DEF Levels, Stride
<1>0. Levels(Occupied, a) = L /\ Deepest(Occupied, a) = k
  OBVIOUS
<1> HIDE DEF k, L
<1>5. 1 \notin L
  <2> SUFFICES ASSUME 1 \in L PROVE FALSE
    OBVIOUS
  <2>1. 4 * k + 1 <= AddrBits /\ LevelSlot(a, k, 1) \in Occupied
    BY <1>4
  <2>2. Len(LevelSlot(a, k, 1)) = k + 1 /\ LevelSlot(a, k, 1)[k + 1] = [j \in 1..1 |-> a[4 * k + j]]
    BY 1 \in 1..4, <1>2, <2>1, LevelSlotFacts
  <2>3. k + 1 \in 1..Len(LevelSlot(a, k, 1))
    BY <1>2, <1>3, <2>2
  <2>4. PICK m \in 2..4 : DOMAIN LevelSlot(a, k, 1)[k + 1] = 1..m
    BY <2>1, <2>3, TakenSlots
  <2>5. 1..1 = 1..m
    BY <2>2, <2>4
  <2> QED
    BY <2>5
<1>6. ASSUME NEW m \in 0..AddrBits, m % 4 # 1, PathOf(a, m) \in Occupied
      PROVE  \/ m <= 4 * k
             \/ m = 4 * k + (m % 4) /\ m % 4 \in L
  <2> DEFINE j == m \div 4
  <2>00. m \in Nat /\ m <= 4 * Windows
    BY <1>3
  <2>0. m \in Nat /\ m <= 4 * Windows /\ j \in Nat /\ m = 4 * j + (m % 4) /\ m % 4 \in 0..3
    BY <2>00
  <2>1. m \in Nat /\ j \in 0..Windows /\ j \in 0..(m \div 4) /\ m = 4 * j + (m % 4)
    BY <1>3, <2>0
  <2>2. FirstSlots(PathOf(a, m), j) = PathOf(a, 4 * j) /\ j <= Depth(m) /\ Len(PathOf(a, m)) = Depth(m)
    BY <2>1, PathOfPrefix, PathOfSlots
  <2>3. PathOf(a, 4 * j) \in Occupied
    <3>1. CASE m % 4 = 0
      BY <1>6, <2>1, <3>1
    <3>2. CASE m % 4 > 0
      <4>1. Depth(m) = j + 1
        BY <1>6, <2>1, <3>2 DEF Depth
      <4>2. j \in 0..(Len(PathOf(a, m)) - 1)
        BY <2>1, <2>2, <4>1
      <4>3. FirstSlots(PathOf(a, m), j) \in DOMAIN node_value
        BY <1>1, <1>6, <4>2 DEF WellLinked
      <4> QED
        BY <2>2, <4>3 DEF Occupied
    <3> QED
      BY <2>1, <3>1, <3>2
  <2>4. j <= k
    BY <1>2, <2>1, <2>3
  <2>5. CASE j < k
    BY <1>2, <2>1, <2>5
  <2>6. CASE j = k
    <3>1. CASE m % 4 = 0
      BY <2>1, <2>6, <3>1
    <3>2. CASE m % 4 # 0
      <4>1. m % 4 \in 2..3 /\ m = 4 * k + (m % 4) /\ 4 * k + (m % 4) <= AddrBits
        BY <1>6, <2>1, <2>6, <3>2
      <4>2. PICK r \in 2..4 : r = m % 4 /\ r \in 1..3
        BY <4>1
      <4>3. LevelSlot(a, k, r) = PathOf(a, 4 * k + r)
        BY <1>2, <4>1, <4>2, LevelSlotPath
      <4>4. LevelSlot(a, k, r) \in Occupied
        BY <1>6, <4>1, <4>2, <4>3
      <4>5. r \in L
        BY <1>4, <4>1, <4>2, <4>4
      <4> QED
        BY <4>1, <4>2, <4>5
    <3> QED
      BY <3>1, <3>2
  <2> QED
    BY <1>2, <2>1, <2>4, <2>5, <2>6
<1>7. CASE L = {}
  <2>1. Found(Occupied, a) = PathOf(a, 4 * k)
    BY <1>0, <1>1, <1>7, FoundFacts
  <2>2. 4 * k \in 0..AddrBits /\ (4 * k) % 4 # 1
    BY <1>2, <1>3
  <2> QED
    BY <1>6, <1>7, <2>1, <2>2
<1>8. CASE L # {}
  <2>1. PICK r \in L : Found(Occupied, a) = LevelSlot(a, k, r) /\ \A s \in L : s <= r
    BY <1>0, <1>1, <1>8, FoundFacts
  <2>2. r \in 2..4 /\ 4 * k + r <= AddrBits
    BY <1>4, <1>5
  <2>3. Found(Occupied, a) = PathOf(a, 4 * k + r)
    BY <1>2, <2>1, <2>2, LevelSlotPath
  <2>4. 4 * k + r \in 0..AddrBits /\ (4 * k + r) % 4 # 1
    BY <1>2, <1>3, <2>2
  <2>5. \A m \in 0..AddrBits : m % 4 # 1 /\ PathOf(a, m) \in Occupied => m <= 4 * k + r
    <3> SUFFICES ASSUME NEW m \in 0..AddrBits, m % 4 # 1, PathOf(a, m) \in Occupied
                 PROVE  m <= 4 * k + r
      OBVIOUS
    <3>1. CASE m <= 4 * k
      BY <1>2, <2>2, <3>1
    <3>2. CASE m = 4 * k + (m % 4) /\ m % 4 \in L
      <4>1. m % 4 <= r
        BY <2>1, <3>2
      <4> QED
        BY <1>2, <2>2, <3>2, <4>1
    <3> QED
      BY <1>6, <3>1, <3>2
  <2> QED
    BY <2>3, <2>4, <2>5
<1> QED
  BY <1>7, <1>8

-----------------------------------------------------------------------------
(* A taken prefix and the path that stands for it. *)
LEMMA PrefixFacts ==
  ASSUME NEW q \in Prefix
  PROVE  /\ q.len \in 0..AddrBits /\ q.len % 4 # 1
         /\ q \in Loose!Prefix
         /\ TableView[q] = IF PathOf(q.bits, q.len) \in Occupied
                           THEN Content(PathOf(q.bits, q.len)) ELSE NoValue
<1>1. PICK n \in Net : q = [len |-> Effective(n).len,
                            bits |-> [i \in 1..Effective(n).len |-> Effective(n).val[i]]]
  BY DEF Prefix, PrefixesOf, EffectiveNets
<1>2. q.len = Effective(n).len
  BY <1>1
<1>3. q.len \in 0..AddrBits /\ q.len % 4 # 1
  BY <1>2, EffectiveFacts
<1>4. q \in Loose!Prefix
  BY DEF Prefix, PrefixesOf, Loose!Prefix, Loose!PrefixOf
<1> QED
  BY <1>3, <1>4 DEF TableView, BindingOf, IsTaken, Occupied

(* The prefix of a network that was inserted. *)
LEMMA PrefixOfNet ==
  ASSUME NEW n \in Net
  PROVE  \E q \in Prefix : /\ q.len = Effective(n).len
                           /\ \A i \in 1..q.len : q.bits[i] = n.val[i]
                           /\ PathOf(q.bits, q.len) = PathOf(n.val, q.len)
<1> DEFINE e == Effective(n).len
           q == [len |-> e, bits |-> [i \in 1..e |-> Effective(n).val[i]]]
<1>1. e \in Nat /\ Effective(n).val = n.val
  BY EffectiveFacts
<1>2. q \in Prefix
  BY DEF Prefix, PrefixesOf, EffectiveNets
<1>3. q.len = e /\ \A i \in 1..e : q.bits[i] = n.val[i]
  BY <1>1
<1>4. PathOf(q.bits, q.len) = PathOf(n.val, q.len)
  BY <1>1, <1>3, PathOfAgree
<1> QED
  BY <1>2, <1>3, <1>4

(* By number, the answer is what the found slot or node holds. *)
LEMMA AnswerByNumber ==
  ASSUME TreeInv, NEW a
  PROVE  /\ Found(Occupied, a) \in Occupied
         /\ Answer(a, NoValue) = Content(Found(Occupied, a))
<1>1. Root \in Occupied
  BY DEF TreeInv, WellLinked, Occupied
<1>2. Found(Occupied, a) \in Occupied
  BY <1>1, FoundTaken
<1>3. Answer(a, NoValue) =
        IF Found(Occupied, a) \in DOMAIN data_leaf THEN data_leaf[Found(Occupied, a)]
        ELSE IF node_value[Found(Occupied, a)] = NoValue THEN NoValue
        ELSE node_value[Found(Occupied, a)]
  BY DEF Answer, AnswerIn, Occupied
<1> QED
  BY <1>2, <1>3 DEF Content

(* A bound prefix that covers an address is no longer than what is found. *)
LEMMA CoveringIsShorter ==
  ASSUME TreeInv, Rooted, NEW a \in Word, NEW len \in 0..AddrBits,
         \A m \in 0..AddrBits : m % 4 # 1 /\ PathOf(a, m) \in Occupied => m <= len,
         NEW q \in Prefix, Loose!Bound(q, a)
  PROVE  /\ PathOf(a, q.len) \in Occupied /\ Content(PathOf(a, q.len)) # NoValue
         /\ TableView[q] = Content(PathOf(a, q.len))
         /\ q.len <= len
<1>1. TableView[q] # NoValue /\ \A i \in 1..q.len : q.bits[i] = a[i]
  BY DEF Loose!Bound, Loose!Covers
<1>2. q.len \in 0..AddrBits /\ q.len % 4 # 1 /\ q.len \in Nat
  BY PrefixFacts, AddrBitsAssumption
<1>3. PathOf(q.bits, q.len) = PathOf(a, q.len)
  BY <1>1, <1>2, PathOfAgree
<1> QED
  BY <1>1, <1>2, <1>3, PrefixFacts

(* What is found, when it has a value, is the longest match. *)
LEMMA ValueIsLongest ==
  ASSUME TreeInv, Rooted, Contents, NEW a \in Word,
         Content(Found(Occupied, a)) # NoValue
  PROVE  Loose!IsMatch(a, Content(Found(Occupied, a)))
<1> DEFINE found == Found(Occupied, a)
<1>1. PICK len \in 0..AddrBits :
        /\ len % 4 # 1
        /\ found = PathOf(a, len)
        /\ \A m \in 0..AddrBits : m % 4 # 1 /\ PathOf(a, m) \in Occupied => m <= len
  BY FoundIsLongest
<1>2. found \in Occupied
  BY AnswerByNumber
<1> HIDE DEF found
<1>3. Content(found) # NoValue
  BY DEF found
<1>4. PICK n \in Net : found = PathOf(n.val, Effective(n).len)
  BY <1>2, <1>3 DEF Contents, EndOf
<1>5. PICK p \in Prefix : /\ p.len = Effective(n).len
                          /\ \A i \in 1..p.len : p.bits[i] = n.val[i]
                          /\ PathOf(p.bits, p.len) = PathOf(n.val, p.len)
  BY PrefixOfNet
<1>6. len = p.len /\ \A i \in 1..len : a[i] = n.val[i]
  <2>1. len \in Nat /\ p.len \in Nat /\ p.len % 4 # 1
    BY PrefixFacts, AddrBitsAssumption
  <2>2. PathOf(a, len) = PathOf(n.val, p.len)
    BY <1>1, <1>4, <1>5
  <2> QED
    BY <1>1, <2>1, <2>2, PathOfInjective
<1>7. TableView[p] = Content(found)
  BY <1>2, <1>4, <1>5, PrefixFacts
<1>8. Loose!Bound(p, a)
  BY <1>3, <1>5, <1>6, <1>7 DEF Loose!Bound, Loose!Covers
<1>9. \A q \in Prefix : Loose!Bound(q, a) => q.len <= p.len
  BY <1>1, <1>6, CoveringIsShorter
<1>10. Loose!IsLongest(p, a)
  BY <1>8, <1>9 DEF Loose!IsLongest, Loose!Prefix, Prefix, PrefixesOf, Loose!PrefixOf
<1>11. Loose!IsMatch(a, Content(found))
  BY <1>7, <1>10, PrefixFacts DEF Loose!IsMatch
<1> QED
  BY <1>11 DEF found

(* Under a spared address, the prefixes that inserts bind are those that      *)
(* callers give, but for a mask of 1. *)
LEMMA SparedMatch ==
  ASSUME NEW a \in Word, Spared(a), NEW v, NEW p \in Prefix,
         Loose!IsLongest(p, a), p.len # 0, v = TableView[p]
  PROVE  Exact!IsMatch(a, v)
<1>1. /\ TableView[p] # NoValue /\ (\A i \in 1..p.len : p.bits[i] = a[i])
      /\ \A q \in Loose!Prefix : Loose!Bound(q, a) => q.len <= p.len
  BY DEF Loose!IsLongest, Loose!Bound, Loose!Covers
<1>2. PICK n \in Net : p = [len |-> Effective(n).len,
                            bits |-> [i \in 1..Effective(n).len |-> Effective(n).val[i]]]
  BY DEF Prefix, PrefixesOf, EffectiveNets
<1>3. ~LosesBit(n)
  <2> SUFFICES ASSUME LosesBit(n) PROVE FALSE
    OBVIOUS
  <2>1. n.len \in Nat /\ Effective(n).len = n.len - 1 /\ Effective(n).val = n.val
    BY EffectiveFacts DEF Effective
  <2>2. n.len > 1
    BY <1>2, <2>1 DEF LosesBit, Stride
  <2>3. \A i \in 1..(n.len - 1) : n.val[i] = a[i]
    BY <1>1, <1>2, <2>1
  <2> QED
    BY <2>2, <2>3 DEF Spared
<1>4. Effective(n) = n
  BY <1>3, EffectiveFacts DEF Effective
<1>5. p \in PrefixesOf(Net)
  BY <1>2, <1>4 DEF PrefixesOf
<1>6. NetTable[p] = TableView[p]
  BY <1>5 DEF TableView, NetTable
<1>7. p.len \in Nat /\ p.len > 1
  BY PrefixFacts, AddrBitsAssumption
<1>8. ASSUME NEW q \in PrefixesOf(Net), NetTable[q] # NoValue, \A i \in 1..q.len : q.bits[i] = a[i]
      PROVE  q.len <= p.len
  <2>1. PICK m \in Net : q = [len |-> m.len, bits |-> [i \in 1..m.len |-> m.val[i]]]
    BY DEF PrefixesOf
  <2>2. m.len \in Nat
    BY EffectiveFacts
  <2>3. CASE LosesBit(m)
    <3>1. q.len = m.len /\ \A i \in 1..m.len : q.bits[i] = m.val[i]
      BY <2>1
    <3>2. \A i \in 1..m.len : m.val[i] = a[i]
      BY <1>8, <3>1
    <3>3. m.len <= 1
      BY <2>2, <2>3, <3>2 DEF Spared
    <3> QED
      BY <1>7, <2>2, <3>1, <3>3
  <2>4. CASE ~LosesBit(m)
    <3>1. Effective(m) = m
      BY <2>4, EffectiveFacts DEF Effective
    <3>2. q \in Prefix
      BY <2>1, <3>1 DEF Prefix, PrefixesOf, EffectiveNets
    <3>3. q \in Loose!Prefix /\ TableView[q] = NetTable[q]
      BY <3>2, PrefixFacts DEF TableView, NetTable
    <3> QED
      BY <1>1, <1>8, <3>3 DEF Loose!Bound, Loose!Covers
  <2> QED
    BY <2>3, <2>4
<1>9. Exact!Prefix = PrefixesOf(Net)
  BY DEF Exact!Prefix, Exact!PrefixOf, PrefixesOf
<1>10. Exact!IsLongest(p, a)
  BY <1>1, <1>5, <1>6, <1>8, <1>9 DEF Exact!IsLongest, Exact!Bound, Exact!Covers
<1> QED
  BY <1>5, <1>6, <1>9, <1>10 DEF Exact!IsMatch

(* Whatever was inserted and collapsed, in whatever order, with prefixes     *)
(* nested in any way: away from networks that lose a bit, longest_match      *)
(* answers with the value of the longest prefix that covers the address, not *)
(* at all, or with the value of a mask of 1 (ftrie.cpp:90-110). *)
THEOREM NeverAWrongValue == Spec => []LongestOrMiss
<1>1. TreeInv /\ WayInv => LongestOrMiss
  <2> SUFFICES ASSUME TreeInv, WayInv, NEW a \in Addr, Spared(a),
                      Answer(a, NoValue) # NoValue, Answer(a, NoValue) # node_value[Root]
               PROVE  Exact!IsMatch(a, Answer(a, NoValue))
    BY DEF LongestOrMiss
  <2>1. a \in Word
    BY AddrAssumption
  <2>2. Answer(a, NoValue) = Content(Found(Occupied, a))
    BY AnswerByNumber
  <2>3. Loose!IsMatch(a, Answer(a, NoValue))
    BY <2>1, <2>2, ValueIsLongest DEF WayInv
  <2>4. PICK p \in Prefix : Loose!IsLongest(p, a) /\ Answer(a, NoValue) = TableView[p]
    BY <2>3 DEF Loose!IsMatch, Loose!Prefix, Loose!PrefixOf, Prefix, PrefixesOf
  <2>5. p.len # 0
    <3> SUFFICES ASSUME p.len = 0 PROVE FALSE
      OBVIOUS
    <3>1. PathOf(p.bits, p.len) = Root
      BY DEF PathOf, Stride, Root
    <3>2. Root \in Occupied /\ Content(Root) = node_value[Root]
      BY DEF TreeInv, WellLinked, Occupied, Content
    <3> QED
      BY <2>4, <3>1, <3>2, PrefixFacts
  <2> QED
    BY <2>1, <2>4, <2>5, SparedMatch
<1> QED
  BY <1>1, TreeCorrect, PTL

(* The root has a value only if a prefix of length 1 lost its bit. *)
LEMMA RootIsFree ==
  ASSUME TreeInv, WayInv, \A n \in Net : n.len # 1
  PROVE  node_value[Root] = NoValue
<1>1. Root \in Occupied /\ Content(Root) = node_value[Root]
  BY DEF TreeInv, WellLinked, Occupied, Content
<1> SUFFICES ASSUME EndOf(Root) PROVE FALSE
  BY <1>1 DEF WayInv, Contents
<1>2. PICK n \in Net : n.len # 0 /\ Root = PathOf(n.val, Effective(n).len)
  BY DEF EndOf
<1>3. Effective(n).len \in Nat /\ Effective(n).len # 0 /\ Effective(n).len % 4 # 1
  BY <1>2, EffectiveFacts, AddrBitsAssumption
<1>4. Depth(Effective(n).len) # 0
  BY <1>3 DEF Depth
<1>5. Len(PathOf(n.val, Effective(n).len)) = Depth(Effective(n).len)
  BY <1>3, PathOfSlots
<1> QED
  BY <1>2, <1>4, <1>5 DEF Root

(* When no mask is 1, which loses its only bit, the root has no value, and   *)
(* the dotted form of lookup, which starts from it, answers what the numeric *)
(* one does (ftrie.cpp:84). *)
THEOREM BothFormsAgree ==
  ASSUME \A n \in Net : n.len # 1
  PROVE  Spec => []FormsAgree
<1>1. TreeInv /\ WayInv => FormsAgree
  BY RootIsFree DEF FormsAgree
<1> QED
  BY <1>1, TreeCorrect, PTL

(* collapse_leaves, in a trie of any shape, changes no answer of the numeric *)
(* form, and of the dotted form only where the slot found holds NO_VALUE     *)
(* (bitlevel.h:125-146). *)
THEOREM CollapseKeepsAnswers == Spec => CollapseTransparent
<1> DEFINE Kept(a) ==
             \/ Answers(node_value', data_leaf', a) = Answers(node_value, data_leaf, a)
             \/ /\ Content(Found(Occupied, a)) = NoValue
                /\ Answers(node_value', data_leaf', a) = <<NoValue, NoValue>>
           Step == data_leaf' # data_leaf => \A a \in Addr : Kept(a)
<1>1. TreeInv /\ TreeInv' /\ [Next]_vars => [Step]_vars
  <2> SUFFICES ASSUME TreeInv, TreeInv', CollapseLeaves, NEW a PROVE Kept(a)
    BY DEF Next, vars, InsertStep, LookupStep, InsertCall, InsertHere, InsertAbort, InsertBelow,
           InsertIntoData, LookupIpnum, LookupDotted, LookupCall, LookupHere, LookupData,
           LookupBelow, Return
  <2>1. Occupied' = Occupied /\ (\A p \in Occupied : Content(p)' = Content(p))
        /\ node_value'[Root] = node_value[Root]
    BY CollapseView
  <2>2. PICK found \in Occupied : found = Found(Occupied, a)
    BY AnswerByNumber
  <2>3. DOMAIN node_value' \cup DOMAIN data_leaf' = Occupied
    BY <2>1 DEF Occupied
  <2>4. /\ Content(found) = IF found \in DOMAIN data_leaf THEN data_leaf[found]
                            ELSE node_value[found]
        /\ Content(found) = IF found \in DOMAIN data_leaf' THEN data_leaf'[found]
                            ELSE node_value'[found]
    BY <2>1 DEF Content
  <2>5. \A parentval :
          /\ AnswerIn(node_value, data_leaf, a, parentval) =
               IF found \in DOMAIN data_leaf THEN data_leaf[found]
               ELSE IF node_value[found] = NoValue THEN parentval ELSE node_value[found]
          /\ AnswerIn(node_value', data_leaf', a, parentval) =
               IF found \in DOMAIN data_leaf' THEN data_leaf'[found]
               ELSE IF node_value'[found] = NoValue THEN parentval ELSE node_value'[found]
    BY <2>2, <2>3 DEF AnswerIn, Occupied
  <2>6. CASE Content(found) # NoValue
    <3>1. \A parentval : AnswerIn(node_value', data_leaf', a, parentval)
                           = AnswerIn(node_value, data_leaf, a, parentval)
      BY <2>4, <2>5, <2>6
    <3> QED
      BY <2>1, <3>1 DEF Answers
  <2>7. CASE Content(found) = NoValue
    <3>1. \A parentval : /\ AnswerIn(node_value', data_leaf', a, parentval) =
                              IF found \in DOMAIN data_leaf' THEN NoValue ELSE parentval
                         /\ AnswerIn(node_value, data_leaf, a, parentval) =
                              IF found \in DOMAIN data_leaf THEN NoValue ELSE parentval
      BY <2>4, <2>5, <2>7
    <3>2. found \in DOMAIN data_leaf => found \in DOMAIN data_leaf'
      BY DEF CollapseLeaves
    <3>3. CASE found \in DOMAIN data_leaf'
      <4>1. AnswerIn(node_value', data_leaf', a, NoValue) = NoValue
            /\ AnswerIn(node_value', data_leaf', a, node_value'[Root]) = NoValue
        BY <3>1, <3>3
      <4> QED
        BY <2>2, <2>7, <4>1 DEF Answers
    <3>4. CASE found \notin DOMAIN data_leaf'
      <4>1. \A parentval : AnswerIn(node_value', data_leaf', a, parentval)
                             = AnswerIn(node_value, data_leaf, a, parentval)
        BY <3>1, <3>2, <3>4
      <4> QED
        BY <2>1, <4>1 DEF Answers
    <3> QED
      BY <3>3, <3>4
  <2> QED
    BY <2>6, <2>7
<1> QED
  BY <1>1, TreeCorrect, PTL DEF CollapseTransparent, Spec

-----------------------------------------------------------------------------
(* No length loses its last bit (FTrieProps!Effective). *)
KeepsAllBits == \A n \in Net : ~LosesBit(n)

(* Two networks that agree on all bits of the shorter prefix are of one      *)
(* length: no network lies in another.  One of length 0, whose insert        *)
(* aborts, never comes to hold a value. *)
NoNesting ==
  \A m, n \in Net :
    /\ m.len > 0 /\ n.len > 0
    /\ \A i \in 1..m.len : i <= n.len => m.val[i] = n.val[i]
    => m.len = n.len

(* What callers insert is then what inserts bind. *)
LEMMA AllBitsKept ==
  ASSUME KeepsAllBits
  PROVE  /\ \A n \in Net : Effective(n) = n
         /\ EffectiveNets = Net
         /\ \A n \in Net : n.len # 1
<1>1. \A n \in Net : Effective(n) = n
  BY EffectiveFacts DEF KeepsAllBits, Effective
<1>2. \A n \in Net : n.len # 1
  BY DEF KeepsAllBits, LosesBit, Stride
<1> QED
  BY <1>1, <1>2 DEF EffectiveNets

(* So that the two tables are one. *)
LEMMA OneTable ==
  ASSUME KeepsAllBits
  PROVE  /\ Prefix = PrefixesOf(Net)
         /\ TableView = NetTable
         /\ \A a, v : Exact!IsMatch(a, v) <=> Loose!IsMatch(a, v)
<1>1. Prefix = PrefixesOf(Net)
  BY AllBitsKept DEF Prefix
<1>2. TableView = NetTable
  BY <1>1 DEF TableView, NetTable
<1>3. Exact!Prefix = PrefixesOf(Net) /\ Loose!Prefix = PrefixesOf(Net)
  BY AllBitsKept DEF Exact!Prefix, Exact!PrefixOf, Loose!Prefix, Loose!PrefixOf, PrefixesOf
<1> QED
  BY <1>1, <1>2, <1>3
     DEF Exact!IsMatch, Exact!IsLongest, Exact!Bound, Exact!Covers,
         Loose!IsMatch, Loose!IsLongest, Loose!Bound, Loose!Covers

LEMMA NothingCovers ==
  ASSUME KeepsAllBits, NoNesting, TreeInv, WayInv, NEW a \in Word,
         Content(Found(Occupied, a)) = NoValue
  PROVE  \A q \in Prefix : ~Loose!Bound(q, a)
<1> SUFFICES ASSUME NEW q \in Prefix, Loose!Bound(q, a) PROVE FALSE
  OBVIOUS
<1>1. PICK len \in 0..AddrBits :
        /\ len % 4 # 1
        /\ Found(Occupied, a) = PathOf(a, len)
        /\ \A m \in 0..AddrBits : m % 4 # 1 /\ PathOf(a, m) \in Occupied => m <= len
  BY FoundIsLongest DEF WayInv
<1>2. PathOf(a, len) \in Occupied /\ Content(PathOf(a, len)) = NoValue
  BY <1>1, AnswerByNumber
<1>3. /\ PathOf(a, q.len) \in Occupied /\ Content(PathOf(a, q.len)) # NoValue
      /\ q.len <= len
  BY <1>1, CoveringIsShorter DEF WayInv
<1>4. q.len \in Nat /\ q.len % 4 # 1 /\ len \in Nat /\ q.len < len
  BY <1>2, <1>3, PrefixFacts, AddrBitsAssumption
<1>5. PICK m \in Net : m.len # 0 /\ PathOf(a, q.len) = PathOf(m.val, Effective(m).len)
  BY <1>3 DEF WayInv, Contents, EndOf
<1>6. Effective(m).len = q.len /\ \A i \in 1..q.len : a[i] = m.val[i]
  <2>1. Effective(m).len \in Nat /\ Effective(m).len % 4 # 1
    BY EffectiveFacts, AddrBitsAssumption
  <2>2. PathOf(a, q.len) = PathOf(m.val, Effective(m).len)
    BY <1>5
  <2>3. q.len = Effective(m).len /\ \A i \in 1..q.len : a[i] = m.val[i]
    BY <1>4, <2>1, <2>2, PathOfInjective
  <2> QED
    BY <2>3
<1>7. OnWay(PathOf(a, len))
  <2>0. len \in Nat /\ len > 1
    BY <1>1, <1>4
  <2>1. Depth(len) # 0
    BY <2>0 DEF Depth
  <2>5. Len(PathOf(a, len)) = Depth(len)
    BY <2>0, PathOfSlots
  <2>2. Len(Root) = 0
    BY DEF Root
  <2>3. PathOf(a, len) # Root
    BY <2>1, <2>2, <2>5
  <2>4. \A p \in Occupied : p = Root \/ OnWay(p)
    BY DEF WayInv, Rooted
  <2> QED
    BY <1>2, <2>3, <2>4
<1>8a. PICK n \in Net : \E l \in 0..n.len : l % 4 # 1 /\ PathOf(a, len) = PathOf(n.val, l)
  BY <1>7 DEF OnWay
<1>8. PICK l \in 0..n.len : l % 4 # 1 /\ PathOf(a, len) = PathOf(n.val, l)
  BY <1>8a
<1>9. n.len \in Nat /\ l \in Nat /\ l <= Effective(n).len
  BY <1>8, EffectiveFacts, AddrBitsAssumption
<1>10. l = len /\ \A i \in 1..len : a[i] = n.val[i]
  BY <1>1, <1>4, <1>8, <1>9, PathOfInjective
<1>11. \A i \in 1..Effective(m).len : m.val[i] = n.val[i]
  BY <1>4, <1>6, <1>10
<1>12. Effective(m).len = Effective(n).len
  <2>1. m.len > 0
    BY <1>5, EffectiveFacts
  <2>2. n.len > 0
    BY <1>4, <1>8, <1>9, <1>10
  <2> QED
    BY <1>11, <2>1, <2>2, AllBitsKept DEF NoNesting
<1> QED
  BY <1>4, <1>6, <1>9, <1>10, <1>12, EffectiveFacts

LEMMA MatchIsExact ==
  ASSUME KeepsAllBits, NoNesting, TreeInv, WayInv, NEW a \in Word
  PROVE  Loose!IsMatch(a, Answer(a, NoValue))
<1>1. Answer(a, NoValue) = Content(Found(Occupied, a))
  BY AnswerByNumber
<1>2. CASE Content(Found(Occupied, a)) # NoValue
  BY <1>1, <1>2, ValueIsLongest DEF WayInv
<1>3. CASE Content(Found(Occupied, a)) = NoValue
  BY <1>1, <1>3, NothingCovers DEF Loose!IsMatch, Loose!Prefix, Loose!PrefixOf, Prefix, PrefixesOf
<1> QED
  BY <1>2, <1>3

(* While no network lies in another and no length loses a bit, longest_match *)
(* finds the longest match of every address, whatever was collapsed when     *)
(* (ftrie.h:60-61). *)
THEOREM LongestMatchFound ==
  ASSUME KeepsAllBits, NoNesting
  PROVE  Spec => []LongestMatch
<1>1. TreeInv /\ WayInv => LongestMatch
  BY MatchIsExact, OneTable, AddrAssumption DEF LongestMatch
<1> QED
  BY <1>1, TreeCorrect, PTL
=============================================================================
