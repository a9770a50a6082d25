--------------------------- MODULE BitLevelProofs ----------------------------
(***************************************************************************)
(* TLAPS proofs about BitLevel, for all four instances of the template and *)
(* any set of node addresses and values.                                   *)
(***************************************************************************)
EXTENDS BitLevel, FiniteSetTheorems, SequenceTheorems, TLAPS

(* Owned, in terms of vector positions and without the exception for the     *)
(* states after the end. *)
DataMarked == \A i \in 1..Len(vb) : (vb[i].kind = "datum") <=> (i - 1 \in data_leaves)
DataInside == \A idx \in data_leaves : idx < Len(vb)
OneOwner == \A i, j \in 1..Len(vb) : vb[i].kind = "child" /\ vb[i] = vb[j] => i = j
Reachable == DOMAIN heap = {vb[i].node : i \in {k \in 1..Len(vb) : vb[k].kind = "child"}}

LevelInv == /\ TypeOK /\ Indexed /\ FreesAll
            /\ Len(vb) <= SlotCount
            /\ ~Ended => DataMarked /\ DataInside /\ OneOwner /\ Reachable

LEMMA SlotCounts == SlotCount \in Nat /\ SlotCount >= 2 /\ SlotCount <= 16
<1>1. Nbits = 1 \/ Nbits = 2 \/ Nbits = 3 \/ Nbits = 4
  BY NbitsAssumption
<1>2. QED
  BY <1>1 DEF SlotCount

LEMMA SlotRange ==
  \E k \in Nat : k >= 2 /\ k <= 16 /\ SlotCount = k /\ Slots = 0..(k - 1)
BY SlotCounts DEF Slots

LEMMA ByteIndex ==
  ASSUME NEW n \in Nat, n <= SlotCount - 1
  PROVE  n \in Slots /\ n \in Uint8 /\ n % 256 = n /\ n # EMPTY_SLOT
<1> PICK k \in Nat : k <= 16 /\ SlotCount = k /\ Slots = 0..(k - 1)
  BY SlotRange
<1>1. n <= 15
  OBVIOUS
<1>2. QED
  BY <1>1 DEF EMPTY_SLOT, Uint8

(* As long as a slot is free, the vector's length is an index that a byte    *)
(* holds and that differs from EMPTY_SLOT. *)
LEMMA Room ==
  ASSUME TypeOK, Indexed, NEW s \in Slots, pos[s] = EMPTY_SLOT
  PROVE  /\ Len(vb) \in Slots /\ Len(vb) \in Uint8 /\ Len(vb) # EMPTY_SLOT
         /\ Len(vb) % 256 = Len(vb) /\ Len(vb) + 1 <= SlotCount
<1> DEFINE used == 0..(Len(vb) - 1)
           others == Slots \ {s}
           owner == [idx \in used |-> CHOOSE t \in TakenSlots : pos[t] = idx]
<1>a. vb \in Seq(Entry)
  BY DEF TypeOK
<1>0. Len(vb) \in Nat
  BY ONLY <1>a, SMT
<1>1. \A idx \in used : owner[idx] \in TakenSlots /\ pos[owner[idx]] = idx
  BY DEF Indexed
<1>2. TakenSlots \subseteq others
  BY DEF TakenSlots
<1>3. owner \in Injection(used, others)
  BY <1>1, <1>2 DEF Injection, IsInjective
<1>4. IsFiniteSet(Slots) /\ Cardinality(Slots) = SlotCount
  BY FS_Interval, SlotCounts DEF Slots
<1>5. IsFiniteSet(others) /\ Cardinality(others) = SlotCount - 1
  BY <1>4, FS_RemoveElement
<1>6. Cardinality(used) <= SlotCount - 1
  BY <1>3, <1>5, FS_Injection
<1>7. Cardinality(used) = Len(vb)
  <2>1. 0 \in Int /\ Len(vb) - 1 \in Int
    BY <1>0
  <2>2. Cardinality(used) = IF 0 > Len(vb) - 1 THEN 0 ELSE (Len(vb) - 1) - 0 + 1
    BY <2>1, FS_Interval, Zenon
  <2>3. QED
    BY <1>0, <2>2
<1>8. Len(vb) <= SlotCount - 1
  BY <1>6, <1>7
<1>9. QED
  BY <1>0, <1>8, ByteIndex, SlotCounts

LEMMA LevelInit == Init => LevelInv
<1> SUFFICES ASSUME Init PROVE LevelInv
  OBVIOUS
<1>1. TypeOK
  BY DEF Init, TypeOK, Uint8, EMPTY_SLOT
<1>2. Indexed
  BY DEF Init, Indexed, TakenSlots
<1>3. FreesAll
  BY DEF Init, FreesAll
<1>4. DataMarked /\ DataInside /\ OneOwner /\ Reachable
  BY DEF Init, DataMarked, DataInside, OneOwner, Reachable
<1>5. Len(vb) <= SlotCount
  BY SlotCounts DEF Init
<1>6. QED
  BY <1>1, <1>2, <1>3, <1>4, <1>5 DEF LevelInv

(* The vector is a function on 1..Len(vb). *)
LEMMA Vector ==
  ASSUME TypeOK
  PROVE  Len(vb) \in Nat /\ vb \in [1..Len(vb) -> Entry] /\ DOMAIN vb = 1..Len(vb)
<1>1. vb \in Seq(Entry)
  BY DEF TypeOK
<1>2. QED
  BY <1>1, LenProperties

LEMMA InsertNewStep ==
  ASSUME LevelInv, ~Ended, NEW s \in Slots, NEW v \in ValueOrNone, NEW below \in BOOLEAN,
         InsertNew(s, v, below)
  PROVE  LevelInv'
<1> USE DEF LevelInv
<1> PICK c \in Node \ DOMAIN heap :
      /\ heap' = [d \in DOMAIN heap \cup {c} |->
                    IF d = c THEN ChildInsert(NewNode, v, below) ELSE heap[d]]
      /\ vb' = Append(vb, Pointer(c))
  BY DEF InsertNew
<1> PICK n \in Nat : n = Len(vb)
  BY Vector
<1>1. /\ pos[s] = EMPTY_SLOT
      /\ n + 1 <= SlotCount /\ n \in Uint8 /\ n # EMPTY_SLOT /\ n \in Slots
      /\ pos' = [pos EXCEPT ![s] = n]
  <2>1. pos[s] = EMPTY_SLOT /\ pos' = [pos EXCEPT ![s] = n % 256]
    BY DEF InsertNew
  <2>2. QED
    BY <2>1, Room
<1>2. /\ vb' \in Seq(Entry)
      /\ Len(vb') = n + 1
      /\ \A i \in 1..n : vb'[i] = vb[i]
      /\ vb'[n + 1] = Pointer(c)
  <2>1. Pointer(c) \in Entry /\ vb \in Seq(Entry)
    BY DEF Pointer, Entry, TypeOK
  <2>2. QED
    BY <2>1, AppendProperties
<1>3. TypeOK'
  <2>2. pos' \in [Slots -> Uint8]
    BY <1>1 DEF TypeOK
  <2>3. \A d \in DOMAIN heap' :
          heap'[d] \in [value : ValueOrNone, empty : BOOLEAN]
    BY DEF TypeOK, ChildInsert, NewNode, ValueOrNone
  <2>4. QED
    BY <1>2, <2>2, <2>3 DEF TypeOK, InsertNew
<1>4. TakenSlots' = TakenSlots \cup {s}
  BY <1>1 DEF TakenSlots, TypeOK
<1>5. \A t \in TakenSlots : t # s /\ pos[t] \in Nat /\ pos[t] < n /\ pos'[t] = pos[t]
  <2>1. \A t \in TakenSlots : t # s /\ pos[t] \in Uint8 /\ pos'[t] = pos[t]
    BY <1>1 DEF TakenSlots, TypeOK
  <2>2. \A t \in TakenSlots : pos[t] < n
    BY DEF Indexed
  <2>3. \A t \in TakenSlots : pos[t] \in Nat
    <3>1. Uint8 \subseteq Nat
      BY DEF Uint8
    <3>2. QED
      BY <2>1, <3>1
  <2>4. QED
    BY <2>1, <2>2, <2>3
<1>6. pos'[s] = n
  BY <1>1 DEF TypeOK
<1>7. Indexed'
  <2>1. \A t \in TakenSlots' : pos'[t] < Len(vb')
    BY <1>2, <1>4, <1>5, <1>6
  <2>2. \A t, u \in TakenSlots' : pos'[t] = pos'[u] => t = u
    BY <1>4, <1>5, <1>6 DEF Indexed
  <2>3. \A idx \in 0..(Len(vb') - 1) : \E t \in TakenSlots' : pos'[t] = idx
    <3> TAKE idx \in 0..(Len(vb') - 1)
    <3>1. CASE idx = n
      BY <3>1, <1>4, <1>6
    <3>2. CASE idx # n
      <4>1. idx \in 0..(n - 1)
        BY <3>2, <1>2
      <4>2. PICK t \in TakenSlots : pos[t] = idx
        BY <4>1 DEF Indexed
      <4>3. QED
        BY <4>2, <1>4, <1>5
    <3>3. QED
      BY <3>1, <3>2
  <2>4. QED
    BY <2>1, <2>2, <2>3 DEF Indexed
<1>8. FreesAll' /\ (Len(vb) <= SlotCount)'
  <2>1. Len(vb') <= SlotCount
    BY <1>1, <1>2
  <2>2. QED
    BY <2>1 DEF FreesAll, InsertNew, SlotCount
<1>10. DataMarked' /\ DataInside'
  <2>1. data_leaves' = data_leaves /\ n \notin data_leaves
    BY DEF DataInside, InsertNew
  <2>2. \A idx \in data_leaves : idx \in Int
    <3> PICK k \in Nat : Slots = 0..(k - 1)
      BY SlotRange
    <3>1. data_leaves \subseteq Slots
      BY DEF TypeOK
    <3>2. QED
      BY <3>1
  <2>3. DataInside'
    BY <1>2, <2>1, <2>2 DEF DataInside
  <2>4. DataMarked'
    BY <1>2, <2>1 DEF DataMarked, Pointer
  <2>5. QED
    BY <2>3, <2>4
<1>11. \A i \in 1..n : vb[i].kind = "child" => vb[i] # Pointer(c)
  <2>1. \A i \in 1..n : vb[i].kind = "child" => vb[i].node \in DOMAIN heap
    BY DEF Reachable
  <2>2. QED
    BY <2>1 DEF Pointer
<1>12. OneOwner'
  BY <1>2, <1>11 DEF OneOwner, Pointer
<1>13. Reachable'
  BY <1>2 DEF Reachable, Pointer
<1>14. QED
  BY <1>3, <1>7, <1>8, <1>10, <1>12, <1>13

(* What a position of the vector holds, and that a taken slot names one. *)
LEMMA EntryAt ==
  ASSUME LevelInv, ~Ended, NEW i \in 1..Len(vb)
  PROVE  /\ vb[i] \in Entry /\ i - 1 \in 0..(Len(vb) - 1)
         /\ i - 1 \notin data_leaves => /\ vb[i].kind = "child"
                                        /\ vb[i] = Pointer(vb[i].node)
                                        /\ vb[i].node \in DOMAIN heap
         /\ i - 1 \in data_leaves => vb[i].kind = "datum" /\ vb[i].kind # "child"
<1>1. vb[i] \in Entry
  BY Vector DEF LevelInv
<1>2. i - 1 \notin data_leaves => vb[i].kind = "child"
  BY <1>1 DEF LevelInv, DataMarked, Entry
<1>3. vb[i].kind = "child" => vb[i] = Pointer(vb[i].node) /\ vb[i].node \in DOMAIN heap
  BY <1>1 DEF LevelInv, Entry, Pointer, Reachable
<1>4. i - 1 \in data_leaves => vb[i].kind = "datum"
  BY DEF LevelInv, DataMarked
<1>5. i - 1 \in 0..(Len(vb) - 1)
  BY Vector DEF LevelInv
<1>6. QED
  BY <1>1, <1>2, <1>3, <1>4, <1>5

LEMMA SlotAt ==
  ASSUME LevelInv, NEW s \in TakenSlots
  PROVE  pos[s] \in Nat /\ pos[s] + 1 \in 1..Len(vb) /\ (pos[s] + 1) - 1 = pos[s]
<1>1. pos[s] \in Uint8 /\ pos[s] < Len(vb)
  BY DEF LevelInv, TypeOK, Indexed, TakenSlots
<1>2. Uint8 \subseteq Nat
  BY DEF Uint8
<1>3. PICK n \in Nat : n = Len(vb)
  BY Vector DEF LevelInv
<1>4. PICK m \in Nat : m = pos[s] /\ m < n
  BY <1>1, <1>2, <1>3
<1>5. m + 1 \in 1..n /\ (m + 1) - 1 = m
  BY <1>4
<1>6. QED
  BY <1>3, <1>4, <1>5

LEMMA InsertOldStep ==
  ASSUME LevelInv, ~Ended, NEW s \in Slots, NEW v \in ValueOrNone, NEW below \in BOOLEAN,
         InsertOld(s, v, below)
  PROVE  LevelInv'
<1>1. s \in TakenSlots /\ UNCHANGED <<pos, vb, data_leaves>>
  BY DEF InsertOld, TakenSlots
<1>2. CASE At(pos[s]).kind = "child"
  <2> DEFINE c == At(pos[s]).node
  <2>1. c \in DOMAIN heap
    BY <1>1, <1>2, SlotAt, EntryAt DEF At
  <2>2. /\ heap' = [heap EXCEPT ![c] = ChildInsert(heap[c], v, below)]
        /\ out' = [op |-> "insert"]
    BY <1>2 DEF InsertOld
  <2> HIDE DEF c
  <2>3. heap[c] \in [value : ValueOrNone, empty : BOOLEAN]
    BY <2>1 DEF LevelInv, TypeOK
  <2>4. ChildInsert(heap[c], v, below) \in [value : ValueOrNone, empty : BOOLEAN]
    BY <2>3 DEF ChildInsert
  <2>5. TypeOK'
    BY <1>1, <2>1, <2>2, <2>4 DEF LevelInv, TypeOK, Slots, SlotCount
  <2>6. FreesAll' /\ Indexed' /\ (Len(vb) <= SlotCount)'
    BY <1>1, <2>2 DEF LevelInv, FreesAll, Indexed, TakenSlots, SlotCount, Slots
  <2>7. DataMarked' /\ DataInside' /\ OneOwner' /\ Reachable'
    BY <1>1, <2>1, <2>2 DEF LevelInv, DataMarked, DataInside, OneOwner, Reachable
  <2>8. QED
    BY <2>5, <2>6, <2>7 DEF LevelInv
<1>3. CASE At(pos[s]).kind # "child"
  <2>1. out' = [op |-> "crashed"] /\ UNCHANGED heap
    BY <1>3 DEF InsertOld
  <2>2. Ended' /\ FreesAll'
    BY <2>1 DEF Ended, FreesAll
  <2>3. TypeOK' /\ Indexed' /\ (Len(vb) <= SlotCount)'
    BY <1>1, <2>1 DEF LevelInv, TypeOK, Indexed, TakenSlots, SlotCount, Slots
  <2>4. QED
    BY <2>2, <2>3 DEF LevelInv
<1>4. QED
  BY <1>2, <1>3

LEMMA QuietStep ==
  ASSUME LevelInv, ~Ended, UNCHANGED <<pos, vb, data_leaves, heap>>,
         out'.op \in {"lookup"} \/ UNCHANGED out
  PROVE  LevelInv'
<1>1. ~Ended' /\ FreesAll'
  BY DEF LevelInv, Ended, FreesAll
<1>2. TypeOK' /\ Indexed' /\ (Len(vb) <= SlotCount)'
  BY DEF LevelInv, TypeOK, Indexed, TakenSlots, SlotCount, Slots
<1>3. DataMarked' /\ DataInside' /\ OneOwner' /\ Reachable'
  BY DEF LevelInv, DataMarked, DataInside, OneOwner, Reachable
<1>4. QED
  BY ONLY <1>1, <1>2, <1>3 DEF LevelInv

(* A vector index that collapse_leaves frees refers to a live child.         *)
LEMMA LeafAt ==
  ASSUME LevelInv, ~Ended, NEW idx \in Leaves
  PROVE  /\ idx \in Nat /\ idx \in Slots /\ idx < Len(vb)
         /\ idx + 1 \in 1..Len(vb) /\ (idx + 1) - 1 = idx
         /\ idx \notin data_leaves
         /\ vb[idx + 1].kind = "child" /\ vb[idx + 1].node \in DOMAIN heap
         /\ vb[idx + 1] = Pointer(vb[idx + 1].node)
         /\ heap[vb[idx + 1].node].value \in ValueOrNone
<1>1. PICK s \in TakenSlots : idx = pos[s]
  BY DEF Leaves, TakenSlots
<1>2. idx \notin data_leaves /\ heap[vb[idx + 1].node].empty
  BY DEF Leaves, At
<1>3. idx \in Nat /\ idx + 1 \in 1..Len(vb) /\ (idx + 1) - 1 = idx
  BY <1>1, SlotAt
<1>4. /\ vb[idx + 1].kind = "child" /\ vb[idx + 1].node \in DOMAIN heap
      /\ vb[idx + 1] = Pointer(vb[idx + 1].node)
  BY <1>2, <1>3, EntryAt
<1>5. heap[vb[idx + 1].node].value \in ValueOrNone
  BY <1>2, <1>4 DEF LevelInv, TypeOK
<1>6. idx \in Slots /\ idx < Len(vb)
  <2>1. PICK k \in Nat : SlotCount = k /\ Slots = 0..(k - 1)
    BY SlotRange
  <2>2. PICK n \in Nat : n = Len(vb) /\ n <= k
    BY <2>1, Vector DEF LevelInv
  <2>3. QED
    BY <1>3, <2>1, <2>2
<1>7. QED
  BY <1>2, <1>3, <1>4, <1>5, <1>6

LEMMA CollapseStep ==
  ASSUME LevelInv, ~Ended, Collapse
  PROVE  LevelInv'
<1> DEFINE gone == {At(idx).node : idx \in Leaves}
<1> PICK n \in Nat : n = Len(vb)
  BY Vector DEF LevelInv
<1>1. /\ data_leaves' = data_leaves \cup Leaves
      /\ vb' = [i \in 1..n |-> IF i - 1 \in Leaves THEN Datum(heap[vb[i].node].value)
                               ELSE vb[i]]
      /\ heap' = [c \in DOMAIN heap \ gone |-> heap[c]]
      /\ out' = [op |-> "collapse"]
      /\ pos' = pos
  BY DEF Collapse
<1>2. \A i \in 1..n : i - 1 \in Leaves => heap[vb[i].node].value \in ValueOrNone
  <2> TAKE i \in 1..n
  <2> HAVE i - 1 \in Leaves
  <2>1. (i - 1) + 1 = i
    OBVIOUS
  <2>2. QED
    BY <2>1, LeafAt
<1>3. vb' \in [1..n -> Entry]
  <2>1. \A i \in 1..n : vb[i] \in Entry
    BY EntryAt
  <2>2. QED
    BY <1>1, <1>2, <2>1 DEF Datum, Entry
<1>4. vb' \in Seq(Entry) /\ Len(vb') = n
  BY <1>3
<1>5. TypeOK'
  <2>1. Leaves \subseteq Slots
    BY LeafAt
  <2>2. /\ DOMAIN heap' \subseteq Node
        /\ \A c \in DOMAIN heap' :
             heap'[c] \in [value : ValueOrNone, empty : BOOLEAN]
    BY <1>1 DEF LevelInv, TypeOK
  <2>3. QED
    BY <1>1, <1>4, <2>1, <2>2 DEF LevelInv, TypeOK, Slots, SlotCount
<1>6. Indexed' /\ (Len(vb) <= SlotCount)'
  BY <1>1, <1>4 DEF LevelInv, Indexed, TakenSlots, Slots, SlotCount
<1>7. FreesAll'
  BY <1>1 DEF LevelInv, FreesAll
<1>8. \A i \in 1..n : i - 1 \notin Leaves => vb'[i] = vb[i]
  BY <1>1
<1>9. \A i \in 1..n : i - 1 \in Leaves => vb'[i].kind = "datum"
  BY <1>1 DEF Datum
<1>10. DataMarked'
  <2>1. \A i \in 1..n : (vb'[i].kind = "datum") <=> (i - 1 \in data_leaves')
    BY <1>1, <1>8, <1>9 DEF LevelInv, DataMarked
  <2>2. QED
    BY <1>4, <2>1 DEF DataMarked
<1>11. DataInside'
  BY <1>1, <1>4, LeafAt DEF LevelInv, DataInside
<1>12. OneOwner'
  BY <1>4, <1>8, <1>9 DEF LevelInv, OneOwner
<1>13. Reachable'
  <2> DEFINE pointing == {vb'[i].node : i \in {k \in 1..n : vb'[k].kind = "child"}}
  <2>1. ASSUME NEW c \in DOMAIN heap' PROVE c \in pointing
    <3>1. c \in DOMAIN heap /\ c \notin gone
      BY <1>1
    <3>2. PICK i \in 1..n : vb[i].kind = "child" /\ c = vb[i].node
      BY <3>1 DEF LevelInv, Reachable
    <3>3. i - 1 \notin Leaves
      <4>1. ASSUME i - 1 \in Leaves PROVE At(i - 1).node \in gone
        BY <4>1
      <4>2. At(i - 1) = vb[i]
        BY DEF At
      <4>3. QED
        BY <3>1, <3>2, <4>1, <4>2
    <3>4. QED
      BY <1>8, <3>2, <3>3
  <2>2. ASSUME NEW c \in pointing PROVE c \in DOMAIN heap'
    <3>1. PICK i \in 1..n : vb'[i].kind = "child" /\ c = vb'[i].node
      OBVIOUS
    <3>2. i - 1 \notin Leaves /\ vb'[i] = vb[i]
      BY <1>8, <1>9, <3>1
    <3>3. vb[i].kind = "child" /\ c = vb[i].node /\ c \in DOMAIN heap /\ vb[i] = Pointer(c)
      <4>1. i - 1 \notin data_leaves
        BY <3>1, <3>2, EntryAt
      <4>2. QED
        BY <3>1, <3>2, <4>1, EntryAt
    <3>4. ASSUME NEW idx \in Leaves PROVE At(idx).node # c
      <4>1. vb[idx + 1] = Pointer(At(idx).node) /\ idx + 1 \in 1..n /\ idx \in Nat
        BY LeafAt DEF At
      <4>2. At(idx).node = c => idx + 1 = i
        BY <3>3, <4>1 DEF LevelInv, OneOwner
      <4>3. QED
        BY <3>2, <4>1, <4>2
    <3>5. QED
      BY <1>1, <3>3, <3>4
  <2>3. QED
    BY <1>4, <2>1, <2>2 DEF Reachable
<1>14. QED
  BY <1>5, <1>6, <1>7, <1>10, <1>11, <1>12, <1>13 DEF LevelInv

(* The destructor: each live child is deleted by one slot. *)
LEMMA DestroyFrees ==
  ASSUME LevelInv, ~Ended, Destroy
  PROVE  /\ out' = [op |-> "destroyed"] /\ heap' = [c \in {} |-> NewNode]
         /\ pos' = pos /\ vb' = vb /\ data_leaves' = data_leaves
<1> DEFINE owner == {s \in Slots : pos[s] # EMPTY_SLOT /\ pos[s] \notin data_leaves}
           gone == {At(pos[s]).node : s \in owner}
           once == \A s, t \in owner : At(pos[s]).node = At(pos[t]).node => s = t
<1> PICK n \in Nat : n = Len(vb)
  BY Vector DEF LevelInv
<1>1. /\ heap' = [c \in DOMAIN heap \ gone |-> heap[c]]
      /\ out' = [op |-> IF once /\ gone \subseteq DOMAIN heap
                        THEN "destroyed" ELSE "double free"]
      /\ UNCHANGED <<pos, vb, data_leaves>>
  BY DEF Destroy
<1>2. \A s \in owner :
        /\ s \in TakenSlots /\ pos[s] + 1 \in 1..n
        /\ At(pos[s]).node \in DOMAIN heap
        /\ At(pos[s]).kind = "child" /\ At(pos[s]) = Pointer(At(pos[s]).node)
  BY SlotAt, EntryAt DEF TakenSlots, At
<1>3. once
  <2> SUFFICES ASSUME NEW s \in owner, NEW t \in owner, At(pos[s]).node = At(pos[t]).node
               PROVE  s = t
    OBVIOUS
  <2>1. pos[s] + 1 = pos[t] + 1
    BY <1>2 DEF LevelInv, OneOwner, At
  <2>2. pos[s] = pos[t]
    BY <1>2, <2>1, SlotAt
  <2>3. QED
    BY <1>2, <2>2 DEF LevelInv, Indexed
<1>4. gone = DOMAIN heap
  <2>1. ASSUME NEW c \in DOMAIN heap PROVE c \in gone
    <3>1. PICK i \in 1..n : vb[i].kind = "child" /\ c = vb[i].node
      BY DEF LevelInv, Reachable
    <3>2. i - 1 \notin data_leaves /\ i - 1 \in 0..(n - 1)
      BY <3>1, EntryAt
    <3>3. PICK s \in TakenSlots : pos[s] = i - 1
      BY <3>2 DEF LevelInv, Indexed
    <3>4. s \in owner /\ At(pos[s]) = vb[i]
      BY <3>2, <3>3 DEF TakenSlots, At
    <3>5. QED
      BY <3>1, <3>4
  <2>2. QED
    BY <1>2, <2>1
<1>5. QED
  BY <1>1, <1>3, <1>4

LEMMA DestroyStep ==
  ASSUME LevelInv, ~Ended, Destroy
  PROVE  LevelInv'
<1>1. /\ out' = [op |-> "destroyed"] /\ DOMAIN heap' = {}
      /\ pos' = pos /\ vb' = vb /\ data_leaves' = data_leaves
  BY DestroyFrees
<1>2. Ended' /\ FreesAll'
  BY <1>1 DEF Ended, FreesAll
<1>3. TypeOK'
  <2>1. out'.op = "destroyed"
    BY <1>1
  <2>2. QED
    BY <1>1, <2>1 DEF LevelInv, TypeOK, Slots, SlotCount
<1>4. Indexed' /\ (Len(vb) <= SlotCount)'
  BY <1>1 DEF LevelInv, Indexed, TakenSlots, Slots, SlotCount
<1>5. QED
  BY <1>2, <1>3, <1>4 DEF LevelInv

LEMMA LevelStep == LevelInv /\ [Next]_vars => LevelInv'
<1> SUFFICES ASSUME LevelInv, [Next]_vars PROVE LevelInv'
  OBVIOUS
<1>1. CASE UNCHANGED vars
  <2>1. CASE ~Ended
    BY <1>1, <2>1, QuietStep DEF vars
  <2>2. CASE Ended
    <3>1. Ended' /\ FreesAll'
      BY <1>1, <2>2 DEF vars, Ended, LevelInv, FreesAll
    <3>2. TypeOK' /\ Indexed' /\ (Len(vb) <= SlotCount)'
      BY <1>1 DEF vars, LevelInv, TypeOK, Indexed, TakenSlots, SlotCount, Slots
    <3>3. QED
      BY ONLY <3>1, <3>2 DEF LevelInv
  <2>3. QED
    BY <2>1, <2>2
<1>2. ASSUME ~Ended, NEW s \in Slots, NEW v \in ValueOrNone, NEW below \in BOOLEAN,
             InsertNew(s, v, below) \/ InsertOld(s, v, below)
      PROVE LevelInv'
  BY <1>2, InsertNewStep, InsertOldStep
<1>3. ASSUME ~Ended, NEW bitval \in WindowValue, Lookup(bitval) PROVE LevelInv'
  BY <1>3, QuietStep DEF Lookup
<1>4. CASE ~Ended /\ Collapse
  BY <1>4, CollapseStep
<1>5. CASE ~Ended /\ Destroy
  BY <1>5, DestroyStep
<1>6. QED
  BY <1>1, <1>2, <1>3, <1>4, <1>5 DEF Next

(* The level keeps its types: every index fits in the byte that holds it,    *)
(* and collapse sets no bit beyond the bitset (bitlevel.h:63-74, 128-143).   *)
THEOREM LevelTypes == Spec => []TypeOK
<1>1. LevelInv => TypeOK
  BY DEF LevelInv
<1>2. QED
  BY LevelInit, LevelStep, <1>1, PTL DEF Spec

(* Slots and vector entries correspond one to one, in any order of inserts,  *)
(* lookups and collapses, and in all four instances of bitlevel_t.           *)
THEOREM SlotsIndexed == Spec => []Indexed
<1>1. LevelInv => Indexed
  BY DEF LevelInv
<1>2. QED
  BY LevelInit, LevelStep, <1>1, PTL DEF Spec

(* data_leaves tells data from pointers, and each live child has exactly one *)
(* entry that refers to it.                                                  *)
THEOREM ChildrenOwned == Spec => []Owned
<1>1. LevelInv => Owned
  BY DEF LevelInv, Owned, DataMarked, OneOwner, Reachable
<1>2. QED
  BY LevelInit, LevelStep, <1>1, PTL DEF Spec

(* The destructor frees every child once and nothing else (bitlevel.h:51-61).*)
THEOREM ChildrenFreed == Spec => []FreesAll
<1>1. LevelInv => FreesAll
  BY DEF LevelInv
<1>2. QED
  BY LevelInit, LevelStep, <1>1, PTL DEF Spec

-----------------------------------------------------------------------------
(* The level implements the map from slots to children. *)

(* What the view shows for a free slot and for a taken one. *)
LEMMA ShownAt ==
  ASSUME NEW idx \in Nat, NEW words, Len(words) \in Nat, idx < Len(words), idx # EMPTY_SLOT
  PROVE  Shown(idx, words) = words[idx + 1]
<1>1. PICK n \in Nat : n = Len(words) /\ idx < n
  OBVIOUS
<1>2. ~(idx >= Len(words))
  BY <1>1
<1>3. QED
  BY <1>2 DEF Shown

LEMMA ViewAt ==
  ASSUME LevelInv, NEW s \in Slots
  PROVE  /\ pos[s] = EMPTY_SLOT => SlotView[s] = Free
         /\ pos[s] # EMPTY_SLOT => SlotView[s] = At(pos[s])
<1>1. pos[s] = EMPTY_SLOT => SlotView[s] = Free
  BY DEF SlotView, Shown
<1>2. ASSUME pos[s] # EMPTY_SLOT PROVE SlotView[s] = At(pos[s])
  <2>1. s \in TakenSlots
    BY <1>2 DEF TakenSlots
  <2>2. pos[s] \in Nat /\ pos[s] < Len(vb)
    BY <2>1, SlotAt DEF LevelInv, Indexed
  <2>3. Len(vb) \in Nat
    BY Vector DEF LevelInv
  <2>4. QED
    BY <1>2, <2>2, <2>3, ShownAt DEF SlotView, At
<1>3. QED
  BY <1>1, <1>2

LEMMA MapSlots == Map!Slots = Slots
BY DEF Map!Slots, Slots, SlotCount

LEMMA MapInit == Init => Map!Init
<1> SUFFICES ASSUME Init PROVE Map!Init
  OBVIOUS
<1>1. SlotView = [s \in Slots |-> Free]
  BY DEF Init, SlotView, Shown
<1>2. QED
  BY <1>1, MapSlots DEF Init, Map!Init, Map!Free, Free, NewNode, Map!NewNode

LEMMA MapInsertNew ==
  ASSUME LevelInv, LevelInv', ~Ended, NEW s \in Slots, NEW v \in ValueOrNone,
         NEW below \in BOOLEAN, InsertNew(s, v, below)
  PROVE  Map!InsertNew(s, v, below)
<1> PICK c \in Node \ DOMAIN heap :
      /\ heap' = [d \in DOMAIN heap \cup {c} |->
                    IF d = c THEN ChildInsert(NewNode, v, below) ELSE heap[d]]
      /\ vb' = Append(vb, Pointer(c))
  BY DEF InsertNew
<1> PICK n \in Nat : n = Len(vb)
  BY Vector DEF LevelInv
<1>1. /\ pos[s] = EMPTY_SLOT /\ pos' = [pos EXCEPT ![s] = n] /\ n # EMPTY_SLOT
      /\ out' = [op |-> "insert"]
  BY Room DEF LevelInv, InsertNew
<1>2. /\ Len(vb') = n + 1
      /\ \A i \in 1..n : vb'[i] = vb[i]
      /\ vb'[n + 1] = Pointer(c)
  <2>1. Pointer(c) \in Entry /\ vb \in Seq(Entry)
    BY DEF Pointer, Entry, LevelInv, TypeOK
  <2>2. QED
    BY <2>1, AppendProperties
<1>3. SlotView' = [SlotView EXCEPT ![s] = Pointer(c)]
  <2>0. Len(vb') = n + 1 /\ n < n + 1 /\ n + 1 \in Nat
    BY <1>2
  <2>1. \A t \in Slots : Shown(pos'[t], vb') = IF t = s THEN Pointer(c) ELSE Shown(pos[t], vb)
    <3> TAKE t \in Slots
    <3>1. CASE t = s
      <4>1. pos'[t] = n
        BY <1>1, <3>1 DEF LevelInv, TypeOK
      <4>2. Shown(n, vb') = vb'[n + 1]
        BY <1>1, <2>0, ShownAt
      <4>3. QED
        BY <1>2, <3>1, <4>1, <4>2
    <3>2. CASE t # s
      <4>1. pos'[t] = pos[t]
        BY <1>1, <3>2 DEF LevelInv, TypeOK
      <4>2. CASE pos[t] = EMPTY_SLOT
        BY <3>2, <4>1, <4>2 DEF Shown
      <4>3. CASE pos[t] # EMPTY_SLOT
        <5>1. pos[t] \in Nat /\ pos[t] + 1 \in 1..n /\ pos[t] < n
          BY <4>3, SlotAt DEF TakenSlots, LevelInv, Indexed
        <5>2. Shown(pos[t], vb) = vb[pos[t] + 1]
          BY <4>3, <5>1, ShownAt
        <5>3. pos[t] < Len(vb')
          <6>1. PICK m \in Nat : m = pos[t] /\ m < n
            BY <5>1
          <6>2. QED
            BY <2>0, <6>1
        <5>4. Shown(pos[t], vb') = vb'[pos[t] + 1]
          BY <2>0, <4>3, <5>1, <5>3, ShownAt
        <5>5. QED
          BY <1>2, <3>2, <4>1, <5>1, <5>2, <5>4
      <4>4. QED
        BY <4>2, <4>3
    <3>3. QED
      BY <3>1, <3>2
  <2>2. QED
    BY <2>1 DEF SlotView, Slots, SlotCount
<1>4. SlotView[s] = Map!Free
  BY <1>1, ViewAt DEF Free, Map!Free
<1>5. QED
  BY <1>1, <1>3, <1>4 DEF Map!InsertNew, Map!Child, Pointer, Map!ChildInsert, ChildInsert,
                          Map!NewNode, NewNode

LEMMA MapInsertOld ==
  ASSUME LevelInv, ~Ended, NEW s \in Slots, NEW v \in ValueOrNone,
         NEW below \in BOOLEAN, InsertOld(s, v, below)
  PROVE  Map!InsertOld(s, v, below) \/ Map!InsertDatum(s)
<1>1. pos[s] # EMPTY_SLOT /\ UNCHANGED <<pos, vb, data_leaves>>
  BY DEF InsertOld
<1>2. SlotView[s] = At(pos[s])
  BY <1>1, ViewAt
<1>3. SlotView' = SlotView
  BY <1>1 DEF SlotView, Slots, SlotCount, Shown
<1>4. CASE At(pos[s]).kind = "child"
  BY <1>2, <1>3, <1>4 DEF InsertOld, Map!InsertOld, Map!IsChild, Map!ChildInsert, ChildInsert
<1>5. CASE At(pos[s]).kind # "child"
  <2>1. At(pos[s]).kind = "datum"
    <3>1. At(pos[s]) \in Entry
      BY <1>1, SlotAt, EntryAt DEF TakenSlots, At
    <3>2. QED
      BY <1>5, <3>1 DEF Entry
  <2>2. QED
    BY <1>2, <1>3, <1>5, <2>1 DEF InsertOld, Map!InsertDatum
<1>6. QED
  BY <1>4, <1>5

LEMMA SlotOfType == \A bitval \in WindowValue : SlotOf(bitval) \in Slots
<1> SUFFICES ASSUME NEW bitval \in 0..15 PROVE SlotOf(bitval) \in Slots
  BY DEF WindowValue
<1>1. CASE SlotCount = 2
  BY <1>1 DEF SlotOf, Slots
<1>2. CASE SlotCount = 4
  BY <1>2 DEF SlotOf, Slots
<1>3. CASE SlotCount = 8
  BY <1>3 DEF SlotOf, Slots
<1>4. CASE SlotCount = 16
  BY <1>4 DEF SlotOf, Slots
<1>5. Nbits = 1 \/ Nbits = 2 \/ Nbits = 3 \/ Nbits = 4
  BY NbitsAssumption
<1>6. QED
  BY <1>1, <1>2, <1>3, <1>4, <1>5 DEF SlotCount

LEMMA MapLookup ==
  ASSUME LevelInv, ~Ended, NEW bitval \in WindowValue, Lookup(bitval)
  PROVE  \E s \in Slots : Map!Lookup(s)
<1> DEFINE s == SlotOf(bitval)
<1>0. s \in Slots
  BY SlotOfType
<1> HIDE DEF s
<1>1. /\ out' = [op |-> "lookup", slot |-> s,
                 result |-> IF pos[s] = EMPTY_SLOT THEN Free
                            ELSE IF (pos[s] \in data_leaves) = (At(pos[s]).kind = "datum")
                            THEN At(pos[s]) ELSE Wild]
      /\ UNCHANGED <<pos, vb, data_leaves, heap>>
  BY DEF Lookup, s
<1>2. ASSUME pos[s] # EMPTY_SLOT
      PROVE (pos[s] \in data_leaves) = (At(pos[s]).kind = "datum")
  <2>1. /\ pos[s] + 1 \in 1..Len(vb) /\ (pos[s] + 1) - 1 = pos[s]
    BY <1>0, <1>2, SlotAt DEF TakenSlots
  <2>2. (pos[s] \in data_leaves) <=> (At(pos[s]).kind = "datum")
    BY <2>1 DEF At, LevelInv, DataMarked
  <2>3. QED
    BY <2>2
<1>3. SlotView[s] = IF pos[s] = EMPTY_SLOT THEN Free ELSE At(pos[s])
  BY <1>0, ViewAt
<1>4. out' = [op |-> "lookup", slot |-> s, result |-> SlotView[s]]
  BY <1>1, <1>2, <1>3
<1>5. SlotView' = SlotView /\ heap' = heap
  BY <1>1 DEF SlotView, Slots, SlotCount, Shown
<1>6. QED
  BY <1>0, <1>4, <1>5 DEF Map!Lookup

LEMMA MapCollapse ==
  ASSUME LevelInv, ~Ended, Collapse
  PROVE  Map!Collapse
<1> DEFINE leaf == {s \in Slots : Map!IsChild(s) /\ heap[SlotView[s].node].empty}
<1> PICK n \in Nat : n = Len(vb)
  BY Vector DEF LevelInv
<1>1. /\ vb' = [i \in 1..n |-> IF i - 1 \in Leaves THEN Datum(heap[vb[i].node].value)
                               ELSE vb[i]]
      /\ heap' = [c \in DOMAIN heap \ {At(idx).node : idx \in Leaves} |-> heap[c]]
      /\ out' = [op |-> "collapse"]
      /\ pos' = pos
  BY DEF Collapse
<1>2. Len(vb') = n
  BY <1>1
<1>3. \A s \in Slots : pos[s] # EMPTY_SLOT =>
        /\ pos[s] \in Nat /\ pos[s] + 1 \in 1..n /\ (pos[s] + 1) - 1 = pos[s] /\ pos[s] < n
        /\ SlotView[s] = At(pos[s])
  BY SlotAt, ViewAt DEF TakenSlots, LevelInv, Indexed
<1>4. \A s \in Slots : s \in leaf <=> pos[s] # EMPTY_SLOT /\ pos[s] \in Leaves
  <2> TAKE s \in Slots
  <2>1. CASE pos[s] = EMPTY_SLOT
    BY <2>1, ViewAt DEF Map!IsChild, Free
  <2>2. CASE pos[s] # EMPTY_SLOT
    <3>1. At(pos[s]).kind = "child" <=> pos[s] \notin data_leaves
      BY <1>3, <2>2, EntryAt DEF At
    <3>2. QED
      BY <1>3, <2>2, <3>1 DEF Map!IsChild, Leaves
  <2>3. QED
    BY <2>1, <2>2
<1>5. {SlotView[s].node : s \in leaf} = {At(idx).node : idx \in Leaves}
  <2>1. \A idx \in Leaves : \E s \in Slots : pos[s] = idx /\ pos[s] # EMPTY_SLOT
    BY DEF Leaves
  <2>2. QED
    BY <1>3, <1>4, <2>1
<1>6. \A s \in Slots : Shown(pos'[s], vb') =
        IF s \in leaf THEN Map!Datum(heap[SlotView[s].node].value) ELSE SlotView[s]
  <2> TAKE s \in Slots
  <2>1. CASE pos[s] = EMPTY_SLOT
    BY <1>1, <1>4, <2>1, ViewAt DEF Shown
  <2>2. CASE pos[s] # EMPTY_SLOT
    <3>1. Shown(pos[s], vb') = vb'[pos[s] + 1]
      BY <1>2, <1>3, <2>2, ShownAt
    <3>2. vb'[pos[s] + 1] = IF pos[s] \in Leaves THEN Datum(heap[At(pos[s]).node].value)
                            ELSE At(pos[s])
      BY <1>1, <1>3, <2>2 DEF At
    <3>3. QED
      BY <1>1, <1>3, <1>4, <2>2, <3>1, <3>2 DEF Datum, Map!Datum
  <2>3. QED
    BY <2>1, <2>2
<1>7. SlotView' = [s \in Slots |-> IF s \in leaf THEN Map!Datum(heap[SlotView[s].node].value)
                                   ELSE SlotView[s]]
  BY <1>6 DEF SlotView, Slots, SlotCount
<1>8. QED
  BY <1>1, <1>5, <1>7, MapSlots DEF Map!Collapse

LEMMA MapDestroy ==
  ASSUME LevelInv, ~Ended, Destroy
  PROVE  Map!Destroy
<1>1. /\ out' = [op |-> "destroyed"] /\ heap' = [c \in {} |-> NewNode]
      /\ pos' = pos /\ vb' = vb
  BY DestroyFrees
<1>2. SlotView' = SlotView
  BY <1>1 DEF SlotView, Slots, SlotCount, Shown
<1>3. QED
  BY <1>1, <1>2 DEF Map!Destroy, Map!NewNode, NewNode

LEMMA MapStep == LevelInv /\ LevelInv' /\ [Next]_vars => [Map!Next]_(Map!vars)
<1> SUFFICES ASSUME LevelInv, LevelInv', [Next]_vars PROVE [Map!Next]_(Map!vars)
  OBVIOUS
<1>1. CASE UNCHANGED vars
  BY <1>1 DEF vars, Map!vars, SlotView, Slots, SlotCount, Shown
<1>2. CASE Next
  <2>0. ~Ended /\ out.op \notin {"crashed", "destroyed"}
    BY <1>2 DEF Next, Ended
  <2>1. ASSUME NEW s \in Slots, NEW v \in ValueOrNone, NEW below \in BOOLEAN,
               InsertNew(s, v, below) \/ InsertOld(s, v, below)
        PROVE Map!Next
    BY <2>0, <2>1, MapInsertNew, MapInsertOld, MapSlots DEF Map!Next, ValueOrNone
  <2>2. ASSUME NEW bitval \in WindowValue, Lookup(bitval) PROVE Map!Next
    BY <2>0, <2>2, MapLookup, MapSlots DEF Map!Next, ValueOrNone
  <2>3. CASE Collapse
    BY <2>0, <2>3, MapCollapse DEF Map!Next
  <2>4. CASE Destroy
    BY <2>0, <2>4, MapDestroy DEF Map!Next
  <2>5. QED
    BY <1>2, <2>1, <2>2, <2>3, <2>4 DEF Next
<1>3. QED
  BY <1>1, <1>2

(* bitlevel_t is a map from slots to children: pos[], vb and data_leaves     *)
(* together never confuse two slots, nor a datum with a child, whatever      *)
(* order slots are taken and collapsed in.                                   *)
THEOREM LevelIsAMap == Spec => ImplementsSlotMap
<1>1. Spec => Map!Init /\ [][Map!Next]_(Map!vars)
  BY LevelInit, LevelStep, MapInit, MapStep, PTL DEF Spec
<1>2. QED
  BY <1>1 DEF ImplementsSlotMap, Map!Spec

=============================================================================
