--------------------------- MODULE FTrieRefinement ---------------------------
(***************************************************************************)
(* TLAPS proofs that the recursion of longest_match, run activation by     *)
(* activation, returns what the whole trie says, and that the trie         *)
(* implements the table of PrefixTable.                                    *)
(***************************************************************************)
EXTENDS FTrieProofs

(* A lookup stands at the path of the windows it has read, or at a node      *)
(* below a slot of two or three bits, where it ends. *)
OnWindow ==
  \E k \in 0..Windows : call.this = PathOf(call.val, 4 * k) /\ call.currentpos = 4 * k

OnLevel ==
  /\ call.this = Found(Occupied, call.val)
  /\ Len(call.this) > 0 /\ DOMAIN call.this[Len(call.this)] # 1..4

LookupPath ==
  call.op = "lookup" =>
    /\ call.val \in Addr /\ call.width = AddrBits
    /\ call.arg \in {NoValue, node_value[Root]}
    /\ OnWindow \/ OnLevel

LookupInv == TreeInv /\ WayInv /\ LookupPath

(* What LookupInv says of a lookup that is about to take a step. *)
LEMMA LookupFacts ==
  ASSUME LookupInv, call.op = "lookup"
  PROVE  /\ call \in Call /\ call.this \in DOMAIN node_value /\ call.this \in Path
         /\ call.val \in Word /\ call.val \in Addr /\ call.width = AddrBits
         /\ call.currentpos \in 0..AddrBits
         /\ call.arg \in {NoValue, node_value[Root]}
         /\ \A i \in 1..AddrBits : call.val[i] \in Bit
<1>1. call \in Call /\ call # Idle /\ call.this \in DOMAIN node_value
  BY DEF LookupInv, TreeInv, TypeInv, TypeOK, CallShape, Idle
<1>2. call.this \in Path
  BY <1>1 DEF LookupInv, TreeInv, TypeInv, TypeOK
<1>3. call.val \in Addr /\ call.val \in Word /\ call.width = AddrBits
      /\ call.arg \in {NoValue, node_value[Root]}
  BY AddrAssumption DEF LookupInv, LookupPath
<1>4. call.currentpos \in 0..AddrBits
  BY <1>1 DEF Call
<1>5. \A i \in 1..AddrBits : call.val[i] \in Bit
  BY <1>3 DEF Word
<1> QED
  BY <1>1, <1>2, <1>3, <1>4, <1>5

(* The bits that can_match looks at are a slot, also past the last window. *)
LEMMA TopBitsIsSlot ==
  ASSUME LookupInv, call.op = "lookup", NEW r \in 1..4
  PROVE  TopBits(r) \in Slot /\ DOMAIN TopBits(r) = 1..r
<1>1. call.currentpos \in 0..AddrBits /\ call.width = AddrBits /\ AddrBits \in Nat
      /\ \A i \in 1..AddrBits : call.val[i] \in Bit
  BY LookupFacts, AddrBitsAssumption
<1>2. WindowSize \in 0..4 /\ call.currentpos + WindowSize <= AddrBits
  BY <1>1 DEF WindowSize, Stride
<1> DEFINE bit(j) == IF j <= 4 - WindowSize THEN 0
                     ELSE call.val[call.currentpos + j - (4 - WindowSize)]
<1>3. TopBits(r) = [j \in 1..r |-> bit(j)]
  BY DEF TopBits, Stride
<1>4. \A j \in 1..r : bit(j) \in Bit
  <2> SUFFICES ASSUME NEW j \in 1..r PROVE bit(j) \in Bit
    OBVIOUS
  <2>1. CASE j <= 4 - WindowSize
    BY <2>1 DEF Bit
  <2>2. CASE ~(j <= 4 - WindowSize)
    <3>1. call.currentpos + j - (4 - WindowSize) \in 1..AddrBits
      BY <1>1, <1>2, <2>2
    <3> QED
      BY <1>1, <2>2, <3>1
  <2> QED
    BY <2>1, <2>2
<1> HIDE DEF bit
<1>5. TopBits(r) \in [1..r -> Bit]
  BY <1>3, <1>4
<1> QED
  BY <1>5 DEF Slot, Stride

(* At whole windows, what can_match looks at are the next bits of the        *)
(* address; past the last window nothing matches. *)
LEMMA MatchingOnWindow ==
  ASSUME LookupInv, call.op = "lookup", NEW k \in 0..Windows,
         call.this = PathOf(call.val, 4 * k), call.currentpos = 4 * k
  PROVE  /\ \A r \in 1..4 : k < Windows => Append(call.this, TopBits(r)) = LevelSlot(call.val, k, r)
         /\ k < Windows => WindowSize = 4
         /\ k < Windows =>
              Matching = {r \in 1..4 : LevelSlot(call.val, k, r) \in Occupied}
         /\ k = Windows => Matching = {}
<1>1. Windows \in Nat /\ AddrBits = 4 * Windows /\ call.width = AddrBits
  BY WindowsFacts, LookupFacts
<1>2. ASSUME k < Windows PROVE WindowSize = 4
  BY <1>1, <1>2 DEF WindowSize, Stride
<1>3. ASSUME k < Windows, NEW r \in 1..4
      PROVE  Append(call.this, TopBits(r)) = LevelSlot(call.val, k, r)
  <2>1. TopBits(r) = [j \in 1..r |-> IF j <= 4 - WindowSize THEN 0
                                     ELSE call.val[call.currentpos + j - (4 - WindowSize)]]
    BY DEF TopBits, Stride
  <2>2. \A j \in 1..r : (IF j <= 4 - WindowSize THEN 0
                         ELSE call.val[call.currentpos + j - (4 - WindowSize)])
                        = call.val[4 * k + j]
    <3> SUFFICES ASSUME NEW j \in 1..r
                 PROVE (IF j <= 4 - 4 THEN 0 ELSE call.val[4 * k + j - (4 - 4)]) = call.val[4 * k + j]
      BY <1>2, <1>3
    <3>1. ~(j <= 4 - 4) /\ 4 * k + j - (4 - 4) = 4 * k + j
      OBVIOUS
    <3> QED
      BY <3>1
  <2>3. TopBits(r) = [j \in 1..r |-> call.val[4 * k + j]]
    BY <2>1, <2>2
  <2> QED
    BY <2>3 DEF LevelSlot, Stride
<1>4. ASSUME k < Windows
      PROVE  Matching = {r \in 1..4 : LevelSlot(call.val, k, r) \in Occupied}
  BY <1>3, <1>4 DEF Matching, IsTaken, Occupied, Stride
<1>5. ASSUME k = Windows, NEW r \in 1..4, Append(call.this, TopBits(r)) \in Occupied
      PROVE  FALSE
  <2>1. Len(call.this) = k
    <3>1. 4 * k \in Nat /\ Depth(4 * k) = k
      BY DEF Depth
    <3> QED
      BY <3>1, PathOfSlots
  <2>2. Len(Append(call.this, TopBits(r))) = k + 1
    BY <2>1, LookupFacts, TopBitsIsSlot, FirstSlotsFacts
  <2>3. Rooted
    BY DEF LookupInv, WayInv
  <2>4. Len(Append(call.this, TopBits(r))) \in 0..Windows
    BY <1>5, <2>3, TakenSlots
  <2> QED
    BY <1>1, <1>5, <2>2, <2>4
<1>6. k = Windows => Matching = {}
  BY <1>5 DEF Matching, IsTaken, Occupied, Stride
<1> QED
  BY <1>2, <1>3, <1>4, <1>6

(* Below a slot of two or three bits nothing matches (WellLinked). *)
LEMMA MatchingOnLevel ==
  ASSUME LookupInv, call.op = "lookup", OnLevel
  PROVE  Matching = {}
<1>1. ASSUME NEW r \in 1..4, Append(call.this, TopBits(r)) \in Occupied PROVE FALSE
  <2> DEFINE p == Append(call.this, TopBits(r))
             k == Len(call.this)
  <2>1. Len(p) = k + 1 /\ p[k] = call.this[k] /\ k \in Nat /\ k > 0
    <3>1. call.this \in Path /\ TopBits(r) \in Slot
      BY LookupFacts, TopBitsIsSlot
    <3>2. k \in Nat /\ k > 0
      BY <3>1 DEF OnLevel, Path
    <3> QED
      BY <3>1, <3>2, FirstSlotsFacts
  <2>2. k \in 0..(Len(p) - 1)
    BY <2>1
  <2>3. DOMAIN p[k] = 1..4
    BY <1>1, <2>1, <2>2 DEF LookupInv, TreeInv, WellLinked, Stride
  <2> QED
    BY <2>1, <2>3 DEF OnLevel
<1> QED
  BY <1>1 DEF Matching, IsTaken, Occupied, Stride

-----------------------------------------------------------------------------
(* Every whole-window beginning of a taken path is a live node. *)
LEMMA WindowsLinked ==
  ASSUME WellLinked, NEW a, NEW m \in 0..Windows, PathOf(a, 4 * m) \in Occupied,
         NEW j \in 0..Windows, j < m
  PROVE  PathOf(a, 4 * j) \in DOMAIN node_value
<1>1. 4 * m \in Nat /\ Depth(4 * m) = m /\ m = (4 * m) \div 4 /\ j \in 0..((4 * m) \div 4)
  BY WindowsFacts DEF Depth
<1>2. Len(PathOf(a, 4 * m)) = m
  BY <1>1, PathOfSlots
<1>3. FirstSlots(PathOf(a, 4 * m), j) = PathOf(a, 4 * j)
  BY <1>1, PathOfPrefix
<1>4. j \in 0..(Len(PathOf(a, 4 * m)) - 1)
  BY <1>1, <1>2
<1> QED
  BY <1>3, <1>4 DEF WellLinked

(* The node from which no further window is taken is where the search ends. *)
LEMMA EndsAt ==
  ASSUME WellLinked, NEW a \in Word, NEW k \in 0..Windows, PathOf(a, 4 * k) \in Occupied,
         k < Windows => PathOf(a, 4 * (k + 1)) \notin Occupied
  PROVE  Deepest(Occupied, a) = k
<1> DEFINE d == Deepest(Occupied, a)
<1>1. Root \in Occupied /\ Windows \in Nat
  BY WindowsFacts DEF WellLinked, Occupied
<1>2. d \in 0..Windows /\ PathOf(a, 4 * d) \in Occupied /\ k <= d
  BY <1>1, DeepestFacts
<1> HIDE DEF d
<1>3. ASSUME k < d PROVE FALSE
  <2>1. k + 1 \in 0..Windows /\ k < Windows
    BY <1>1, <1>2, <1>3
  <2>2. CASE k + 1 = d
    BY <1>2, <2>1, <2>2
  <2>3. CASE k + 1 < d
    <3>1. PathOf(a, 4 * (k + 1)) \in DOMAIN node_value
      BY <1>2, <2>1, <2>3, WindowsLinked
    <3> QED
      BY <2>1, <3>1 DEF Occupied
  <2> QED
    BY <1>2, <1>3, <2>1, <2>2, <2>3
<1>4. k = d
  BY <1>2, <1>3
<1> QED
  BY <1>4 DEF d

(* The search ends at a datum. *)
LEMMA EndsAtDatum ==
  ASSUME WellLinked, NEW a \in Word, NEW k \in 0..Windows, PathOf(a, 4 * k) \in DOMAIN data_leaf
  PROVE  Found(Occupied, a) = PathOf(a, 4 * k)
<1>1. Root \in Occupied /\ Windows \in Nat /\ PathOf(a, 4 * k) \in Occupied
      /\ PathOf(a, 4 * k) \notin DOMAIN node_value /\ AddrBits = 4 * Windows
  BY WindowsFacts DEF WellLinked, Occupied
<1>2. k < Windows => PathOf(a, 4 * (k + 1)) \notin Occupied
  <2>1. ASSUME k < Windows, PathOf(a, 4 * (k + 1)) \in Occupied PROVE FALSE
    <3>1. k + 1 \in 0..Windows /\ k < k + 1
      BY <1>1, <2>1
    <3>2. PathOf(a, 4 * k) \in DOMAIN node_value
      BY <2>1, <3>1, WindowsLinked
    <3> QED
      BY <1>1, <3>2
  <2> QED
    BY <2>1
<1>3. Deepest(Occupied, a) = k
  BY <1>1, <1>2, EndsAt
<1>4. Levels(Occupied, a) = {r \in 1..3 : 4 * k + r <= AddrBits /\ LevelSlot(a, k, r) \in Occupied}
  BY <1>3 DEF Levels, Stride
<1>5. ASSUME NEW r \in 1..4, 4 * k + r <= AddrBits, LevelSlot(a, k, r) \in Occupied PROVE FALSE
  <2>1. Len(LevelSlot(a, k, r)) = k + 1 /\ FirstSlots(LevelSlot(a, k, r), k) = PathOf(a, 4 * k)
    BY <1>5, LevelSlotFacts
  <2>2. k \in 0..(Len(LevelSlot(a, k, r)) - 1)
    BY <1>1, <2>1
  <2>3. FirstSlots(LevelSlot(a, k, r), k) \in DOMAIN node_value
    BY <1>5, <2>2 DEF WellLinked
  <2> QED
    BY <1>1, <2>1, <2>3
<1>6. Levels(Occupied, a) = {}
  BY <1>4, <1>5
<1> QED
  BY <1>1, <1>3, <1>6, FoundFacts

(* Nothing matches: the lookup stands at what Found names. *)
LEMMA HereIsFound ==
  ASSUME LookupInv, call.op = "lookup", Matching = {}
  PROVE  call.this = Found(Occupied, call.val)
<1>1. CASE OnLevel
  BY <1>1 DEF OnLevel
<1>2. CASE OnWindow
  <2>1. PICK k \in 0..Windows : call.this = PathOf(call.val, 4 * k) /\ call.currentpos = 4 * k
    BY <1>2 DEF OnWindow
  <2>2. PathOf(call.val, 4 * k) \in Occupied /\ call.val \in Word /\ Root \in Occupied
        /\ WellLinked /\ Windows \in Nat /\ AddrBits = 4 * Windows
    BY <2>1, LookupFacts, WindowsFacts DEF LookupInv, TreeInv, WellLinked, Occupied
  <2>3. ASSUME k < Windows, NEW r \in 1..4 PROVE LevelSlot(call.val, k, r) \notin Occupied
    BY <2>1, <2>3, MatchingOnWindow
  <2>4. k < Windows => PathOf(call.val, 4 * (k + 1)) \notin Occupied
    <3>1. ASSUME k < Windows PROVE LevelSlot(call.val, k, 4) = PathOf(call.val, 4 * k + 4)
      BY <2>2, <3>1, LevelSlotPath, 4 \in 2..4
    <3>2. 4 * (k + 1) = 4 * k + 4
      OBVIOUS
    <3> QED
      BY <2>3, <3>1, <3>2, 4 \in 1..4
  <2>5. Deepest(Occupied, call.val) = k
    BY <2>2, <2>4, EndsAt
  <2>6. Levels(Occupied, call.val) =
          {r \in 1..3 : 4 * k + r <= AddrBits /\ LevelSlot(call.val, k, r) \in Occupied}
    BY <2>5 DEF Levels, Stride
  <2>7. Levels(Occupied, call.val) = {}
    <3>1. CASE k < Windows
      BY <2>3, <2>6, <3>1
    <3>2. CASE k = Windows
      BY <2>2, <2>6, <3>2
    <3> QED
      BY <2>2, <3>1, <3>2
  <2> QED
    BY <2>1, <2>2, <2>5, <2>7, FoundFacts
<1> QED
  BY <1>1, <1>2 DEF LookupInv, LookupPath

(* Something matches: the lookup goes on by a whole window, or to what Found *)
(* names; a datum is what Found names. *)
LEMMA ChosenIsOnPath ==
  ASSUME LookupInv, call.op = "lookup", Matching # {}
  PROVE  /\ ChosenSlot \in Occupied
         /\ \/ ChosenSlot = Found(Occupied, call.val)
               /\ Len(ChosenSlot) > 0 /\ DOMAIN ChosenSlot[Len(ChosenSlot)] # 1..4
            \/ /\ WindowSize = 4
               /\ \E k \in 0..Windows : /\ ChosenSlot = PathOf(call.val, 4 * k)
                                        /\ call.currentpos + WindowSize = 4 * k
         /\ ChosenSlot \in DOMAIN data_leaf => ChosenSlot = Found(Occupied, call.val)
<1>1. PICK k \in 0..Windows : call.this = PathOf(call.val, 4 * k) /\ call.currentpos = 4 * k
  BY MatchingOnLevel DEF LookupInv, LookupPath, OnWindow
<1>2. /\ k < Windows /\ WindowSize = 4
      /\ Matching = {r \in 1..4 : LevelSlot(call.val, k, r) \in Occupied}
      /\ \A r \in 1..4 : Append(call.this, TopBits(r)) = LevelSlot(call.val, k, r)
  BY <1>1, MatchingOnWindow, WindowsFacts
<1>3. PathOf(call.val, 4 * k) \in Occupied /\ call.val \in Word /\ Root \in Occupied
      /\ WellLinked /\ Windows \in Nat /\ AddrBits = 4 * Windows
  BY <1>1, LookupFacts, WindowsFacts DEF LookupInv, TreeInv, WellLinked, Occupied
<1>4. Chosen \in Matching /\ \A s \in Matching : s <= Chosen
  <2>1. \E r \in Matching : \A s \in Matching : s <= r
    <3>1. Matching \in SUBSET (0..4)
      BY <1>2
    <3> QED
      BY <3>1, Greatest
  <2> QED
    BY <2>1 DEF Chosen
<1>5. PICK r \in 1..4 : r = Chosen /\ LevelSlot(call.val, k, r) \in Occupied
  BY <1>2, <1>4
<1>6. ChosenSlot = LevelSlot(call.val, k, r) /\ ChosenSlot \in Occupied
  BY <1>2, <1>5 DEF ChosenSlot
<1>7. 4 * k + r <= AddrBits /\ k + 1 \in 0..Windows
  BY <1>2, <1>3
<1>8. CASE r = 4
  <2>1. ChosenSlot = PathOf(call.val, 4 * (k + 1))
    <3>1. LevelSlot(call.val, k, 4) = PathOf(call.val, 4 * k + 4) /\ 4 * (k + 1) = 4 * k + 4
      BY <1>3, <1>7, <1>8, LevelSlotPath, 4 \in 2..4
    <3> QED
      BY <1>6, <1>8, <3>1
  <2>2. ChosenSlot \in DOMAIN data_leaf => ChosenSlot = Found(Occupied, call.val)
    BY <1>3, <1>7, <2>1, EndsAtDatum
  <2>3. call.currentpos + WindowSize = 4 * (k + 1)
    BY <1>1, <1>2
  <2> QED
    BY <1>2, <1>6, <1>7, <2>1, <2>2, <2>3
<1>9. CASE r # 4
  <2>1. LevelSlot(call.val, k, 4) \notin Occupied
    BY <1>2, <1>4, <1>5, <1>9, 4 \in 1..4
  <2>2. LevelSlot(call.val, k, 4) = PathOf(call.val, 4 * k + 4) /\ 4 * (k + 1) = 4 * k + 4
    <3>1. 4 * k + 4 <= AddrBits
      BY <1>2, <1>3
    <3> QED
      BY <1>3, <3>1, LevelSlotPath, 4 \in 2..4
  <2>3. Deepest(Occupied, call.val) = k
    BY <1>3, <2>1, <2>2, EndsAt
  <2>4. Levels(Occupied, call.val) =
          {s \in 1..3 : 4 * k + s <= AddrBits /\ LevelSlot(call.val, k, s) \in Occupied}
    BY <2>3 DEF Levels, Stride
  <2>5. r \in Levels(Occupied, call.val) /\ \A s \in Levels(Occupied, call.val) : s <= r
    BY <1>2, <1>4, <1>5, <1>7, <1>9, <2>4
  <2>6. PICK s \in Levels(Occupied, call.val) :
          /\ Found(Occupied, call.val) = LevelSlot(call.val, k, s)
          /\ \A t \in Levels(Occupied, call.val) : t <= s
    BY <1>3, <2>3, <2>5, FoundFacts
  <2>7. s = r
    BY <2>4, <2>5, <2>6
  <2>8. Len(ChosenSlot) = k + 1 /\ ChosenSlot[k + 1] = [j \in 1..r |-> call.val[4 * k + j]]
    BY <1>3, <1>6, <1>7, LevelSlotFacts
  <2>9. DOMAIN ChosenSlot[k + 1] = 1..r /\ 1..r # 1..4
    <3>1. 4 \in 1..4 /\ 4 \notin 1..r
      BY <1>9
    <3> QED
      BY <2>8, <3>1
  <2> QED
    BY <1>6, <2>6, <2>7, <2>8, <2>9
<1> QED
  BY <1>8, <1>9

-----------------------------------------------------------------------------
LEMMA LookupPathStep == LookupInv /\ [Next]_vars => LookupPath'
<1> SUFFICES ASSUME LookupInv, [Next]_vars PROVE LookupPath'
  OBVIOUS
<1>1. ASSUME NEW a \in Addr, LookupIpnum(a) \/ LookupDotted(a) PROVE LookupPath'
  <2>1. PICK pv \in {NoValue, node_value[Root]} : LookupCall(a, pv)
    BY <1>1 DEF LookupIpnum, LookupDotted
  <2>2. /\ call' = [op |-> "lookup", val |-> a, width |-> AddrBits,
                    currentpos |-> 0, this |-> Root, arg |-> pv]
        /\ node_value' = node_value
    BY <2>1 DEF LookupCall
  <2>3. 0 \in 0..Windows /\ PathOf(a, 4 * 0) = Root /\ 4 * 0 = 0
    BY WindowsFacts DEF PathOf, Root, Stride
  <2>4. OnWindow'
    BY <2>2, <2>3 DEF OnWindow
  <2> QED
    BY <2>2, <2>4 DEF LookupPath
<1>2. ASSUME LookupBelow PROVE LookupPath'
  <2>1. /\ call.op = "lookup" /\ Matching # {}
        /\ call' = [call EXCEPT !.this = ChosenSlot, !.currentpos = @ + WindowSize]
        /\ node_value' = node_value /\ data_leaf' = data_leaf
    BY <1>2 DEF LookupBelow
  <2>2. /\ call'.this = ChosenSlot /\ call'.currentpos = call.currentpos + WindowSize
        /\ call'.op = call.op /\ call'.val = call.val /\ call'.width = call.width
        /\ call'.arg = call.arg
    BY <2>1, LookupFacts DEF Call
  <2>3. Occupied' = Occupied
    BY <2>1 DEF Occupied
  <2>4. CASE /\ ChosenSlot = Found(Occupied, call.val)
             /\ Len(ChosenSlot) > 0 /\ DOMAIN ChosenSlot[Len(ChosenSlot)] # 1..4
    <3>1. OnLevel'
      BY <2>2, <2>3, <2>4 DEF OnLevel
    <3> QED
      BY <2>1, <2>2, <3>1, LookupFacts DEF LookupPath
  <2>5. CASE \E k \in 0..Windows : /\ ChosenSlot = PathOf(call.val, 4 * k)
                                   /\ call.currentpos + WindowSize = 4 * k
    <3>1. OnWindow'
      BY <2>2, <2>5 DEF OnWindow
    <3> QED
      BY <2>1, <2>2, <3>1, LookupFacts DEF LookupPath
  <2> QED
    BY <2>1, <2>4, <2>5, ChosenIsOnPath
<1>3. CASE UNCHANGED vars
  BY <1>3 DEF vars, LookupInv, LookupPath, OnWindow, OnLevel, Occupied
<1>4. ASSUME call'.op # "lookup" PROVE LookupPath'
  BY <1>4 DEF LookupPath
<1>5. ASSUME NEW n \in Net, NEW v \in ValueOrNone, InsertCall(n, v) PROVE call'.op # "lookup"
  BY <1>5 DEF InsertCall
<1>6. ASSUME InsertStep PROVE call'.op # "lookup"
  <2>1. call \in Call /\ call.op = "insert"
    BY <1>6 DEF InsertStep, InsertHere, InsertAbort, InsertBelow, InsertIntoData, LookupInv,
                TreeInv, TypeInv, TypeOK, Idle
  <2>2. CASE InsertHere
    BY <2>2 DEF InsertHere, Idle
  <2>3. CASE InsertAbort \/ InsertIntoData
    BY <2>1, <2>3 DEF InsertAbort, InsertIntoData, Call
  <2>4. CASE InsertBelow
    <3>1. call'.op = call.op
      BY <2>1, <2>4 DEF InsertBelow, Call
    <3> QED
      BY <2>1, <3>1
  <2> QED
    BY <1>6, <2>2, <2>3, <2>4 DEF InsertStep
<1>7. ASSUME LookupHere \/ LookupData PROVE call'.op # "lookup"
  BY <1>7 DEF LookupHere, LookupData, Return, Idle
<1>8. ASSUME CollapseLeaves PROVE call'.op # "lookup"
  BY <1>8 DEF CollapseLeaves, Idle
<1> QED
  BY <1>1, <1>2, <1>3, <1>4, <1>5, <1>6, <1>7, <1>8 DEF Next, LookupStep

LEMMA LookupInit == Init => LookupInv
BY TreeInit DEF Init, LookupPath, LookupInv, Idle

LEMMA LookupStepInv == LookupInv /\ [Next]_vars => LookupInv'
BY TreeStep, LookupPathStep DEF LookupInv

LEMMA LookupCorrect == Spec => []LookupInv
BY LookupInit, LookupStepInv, PTL DEF Spec

(* The last activation of a lookup. *)
LEMMA ReturnsAnswer ==
  ASSUME LookupInv, LookupHere \/ LookupData
  PROVE  /\ call.op = "lookup" /\ call' = Idle
         /\ ret' = Answer(call.val, call.arg)
         /\ node_value' = node_value /\ data_leaf' = data_leaf
<1> DEFINE found == Found(Occupied, call.val)
<1>1. call.op = "lookup" /\ call' = Idle /\ node_value' = node_value /\ data_leaf' = data_leaf
  BY DEF LookupHere, LookupData, Return
<1>2. Answer(call.val, call.arg) =
        IF found \in DOMAIN data_leaf THEN data_leaf[found]
        ELSE IF node_value[found] = NoValue THEN call.arg ELSE node_value[found]
  BY DEF Answer, AnswerIn, Occupied
<1>3. CASE LookupHere
  <2>1. call.this = found
    BY <1>1, <1>3, HereIsFound DEF LookupHere
  <2>2. call.this \in DOMAIN node_value /\ call.this \notin DOMAIN data_leaf
    BY <1>1, LookupFacts DEF LookupInv, TreeInv, WellLinked
  <2>4. ret' = IF node_value[call.this] = NoValue THEN call.arg ELSE node_value[call.this]
    BY <1>3 DEF LookupHere, Return
  <2> QED
    BY <1>1, <1>2, <2>1, <2>2, <2>4
<1>4. CASE LookupData
  <2>1. ChosenSlot = found /\ ChosenSlot \in DOMAIN data_leaf
    BY <1>1, <1>4, ChosenIsOnPath DEF LookupData
  <2>3. ret' = data_leaf[ChosenSlot]
    BY <1>4 DEF LookupData, Return
  <2> QED
    BY <1>1, <1>2, <2>1, <2>3
<1> QED
  BY <1>3, <1>4

(* The recursion over nodes and levels, which reads the address window by    *)
(* window and calls next(4) once more at its end, returns what the closed    *)
(* form Answer says of the whole trie (ftrie.cpp:90-110, bitlevel.h:83-95).  *)
THEOREM RecursionReturns == Spec => LookupReturns
<1> DEFINE Step == call.op = "lookup" /\ call'.op = "idle" => ret' = Answer(call.val, call.arg)
<1>1. LookupInv /\ [Next]_vars => [Step]_vars
  <2> SUFFICES ASSUME LookupInv, Next, call.op = "lookup", call'.op = "idle"
               PROVE  ret' = Answer(call.val, call.arg)
    OBVIOUS
  <2>1. call \in Call /\ call # Idle
    BY DEF LookupInv, TreeInv, TypeInv, TypeOK, Idle
  <2>2. ~LookupBelow
    BY <2>1 DEF LookupBelow, Call
  <2>3. LookupHere \/ LookupData
    BY <2>1, <2>2 DEF Next, InsertStep, LookupStep, InsertCall, InsertHere, InsertAbort, InsertBelow,
           InsertIntoData, LookupIpnum, LookupDotted, LookupCall, CollapseLeaves
  <2> QED
    BY <2>3, ReturnsAnswer
<1> QED
  BY <1>1, LookupCorrect, PTL DEF LookupReturns, Spec

-----------------------------------------------------------------------------
(* The trie as a table: what each action is to it. *)
LEMMA PrefixShape ==
  ASSUME NEW q \in Prefix
  PROVE  q = [len |-> q.len, bits |-> [i \in 1..q.len |-> q.bits[i]]]
<1>1. PICK n \in Net : q = [len |-> Effective(n).len,
                            bits |-> [i \in 1..Effective(n).len |-> Effective(n).val[i]]]
  BY DEF Prefix, PrefixesOf, EffectiveNets
<1> DEFINE b == [i \in 1..Effective(n).len |-> Effective(n).val[i]]
<1>2. q.len = Effective(n).len /\ q.bits = b
  BY <1>1
<1>3. b = [i \in 1..Effective(n).len |-> b[i]]
  OBVIOUS
<1> HIDE DEF b
<1>4. q.bits = [i \in 1..q.len |-> q.bits[i]]
  BY <1>2, <1>3
<1> QED
  BY <1>1, <1>2, <1>4 DEF b

(* An insert that has not come to its end changes no binding. *)
LEMMA SameTable ==
  ASSUME \A p \in Occupied : p \in Occupied' /\ Content(p)' = Content(p),
         \A p \in Occupied' : p \notin Occupied => Content(p)' = NoValue
  PROVE  TableView' = TableView
<1>1. \A p \in Prefix : TableView[p] = IF PathOf(p.bits, p.len) \in Occupied
                                       THEN Content(PathOf(p.bits, p.len)) ELSE NoValue
  BY PrefixFacts
<1> DEFINE view(path) == IF path \in Occupied THEN Content(path) ELSE NoValue
<1>2. \A path : view(path)' = view(path)
  OBVIOUS
<1>3. TableView = [p \in Prefix |-> view(PathOf(p.bits, p.len))]
  BY DEF TableView, BindingOf, IsTaken, Occupied
<1>4. TableView' = [p \in Prefix |-> view(PathOf(p.bits, p.len))']
  BY DEF TableView, BindingOf, IsTaken, Occupied
<1> HIDE DEF view
<1> QED
  BY <1>2, <1>3, <1>4

(* The end of an insert binds the prefix of its network. *)
LEMMA InsertBinds ==
  ASSUME LookupInv, InsertHere
  PROVE  TableView' = [TableView EXCEPT ![Loose!PrefixOf(Effective([val |-> call.val,
                                                                    len |-> call.width]))]
                                        = call.arg]
<1> DEFINE n == [val |-> call.val, len |-> call.width]
           e == Effective(n).len
           new == Loose!PrefixOf(Effective(n))
           view(path) == IF path \in Occupied THEN Content(path) ELSE NoValue
<1>1. /\ n \in Net /\ call.this = PathOf(call.val, e) /\ call.this \in Occupied
      /\ Occupied' = Occupied
      /\ \A p \in Occupied : Content(p)' = IF p = call.this THEN call.arg ELSE Content(p)
  BY HereView DEF LookupInv, WayInv, Occupied
<1>2. e \in Nat /\ e % 4 # 1 /\ Effective(n).val = call.val
  BY <1>1, EffectiveFacts, AddrBitsAssumption
<1>3. new = [len |-> e, bits |-> [i \in 1..e |-> call.val[i]]]
  BY <1>2 DEF Loose!PrefixOf
<1> HIDE DEF new
<1>4. new.len = e /\ (\A i \in 1..e : new.bits[i] = call.val[i])
  BY <1>3
<1>5. PathOf(new.bits, new.len) = call.this
  BY <1>1, <1>2, <1>4, PathOfAgree
<1>6. ASSUME NEW p \in Prefix, PathOf(p.bits, p.len) = call.this PROVE p = new
  <2>1. p.len \in Nat /\ p.len % 4 # 1
    BY PrefixFacts, AddrBitsAssumption
  <2>2. p.len = e /\ \A i \in 1..p.len : p.bits[i] = call.val[i]
    BY <1>1, <1>2, <1>6, <2>1, PathOfInjective
  <2>3. [i \in 1..p.len |-> p.bits[i]] = [i \in 1..e |-> call.val[i]]
    BY <2>2
  <2> QED
    BY <1>3, <2>2, <2>3, PrefixShape
<1>7. \A path : view(path)' = IF path = call.this THEN call.arg ELSE view(path)
  BY <1>1
<1>8. TableView = [p \in Prefix |-> view(PathOf(p.bits, p.len))]
  BY DEF TableView, BindingOf, IsTaken, Occupied
<1>9. TableView' = [p \in Prefix |-> view(PathOf(p.bits, p.len))']
  BY DEF TableView, BindingOf, IsTaken, Occupied
<1>10. \A p \in Prefix : PathOf(p.bits, p.len) = call.this <=> p = new
  BY <1>5, <1>6
<1> HIDE DEF view
<1>11. TableView' = [p \in Prefix |-> IF p = new THEN call.arg ELSE view(PathOf(p.bits, p.len))]
  BY <1>7, <1>9, <1>10
<1>12. TableView' = [TableView EXCEPT ![new] = call.arg]
  BY <1>8, <1>11
<1> QED
  BY <1>12 DEF new

LEMMA ReqViewFacts ==
  /\ call = Idle => ReqView = Idle
  /\ call.op \in {"insert", "aborted", "crashed"} =>
       ReqView = [op |-> "insert", net |-> Effective([val |-> call.val, len |-> call.width]),
                  id |-> call.arg]
  /\ call.op = "lookup" => ReqView = [op |-> "lookup", addr |-> call.val]
BY DEF ReqView, CallView, Idle

(* A step of the trie is a step of the table or none. *)
LEMMA StepIsAStep ==
  ASSUME LookupInv, LookupInv', [Next]_vars
  PROVE  \/ UNCHANGED <<TableView, ReqView, ret>>
         \/ /\ ReqView = Idle /\ UNCHANGED <<TableView, ret>>
            /\ \/ \E n \in EffectiveNets, v \in ValueOrNone :
                    ReqView' = [op |-> "insert", net |-> n, id |-> v]
               \/ \E a \in Addr : ReqView' = [op |-> "lookup", addr |-> a]
         \/ /\ ReqView.op = "insert" /\ ReqView' = Idle /\ UNCHANGED ret
            /\ TableView' = [TableView EXCEPT ![Loose!PrefixOf(ReqView.net)] = ReqView.id]
         \/ /\ ReqView.op = "lookup" /\ ReqView' = Idle /\ UNCHANGED TableView
            /\ call.op = "lookup" /\ ReqView.addr = call.val
            /\ ret' = Answer(call.val, call.arg) /\ ret' \in Value \cup {NoValue}
<1>0. ASSUME node_value' = node_value, data_leaf' = data_leaf PROVE TableView' = TableView
  BY <1>0, SameTable DEF Occupied, Content
<1>1. ASSUME NEW n \in Net, NEW v \in ValueOrNone, InsertCall(n, v)
      PROVE  /\ ReqView = Idle /\ UNCHANGED <<TableView, ret>>
             /\ \E m \in EffectiveNets, w \in ValueOrNone :
                  ReqView' = [op |-> "insert", net |-> m, id |-> w]
  <2>1. /\ call = Idle /\ node_value' = node_value /\ data_leaf' = data_leaf /\ ret' = ret
        /\ call' = [op |-> "insert", val |-> n.val, width |-> n.len,
                    currentpos |-> 0, this |-> Root, arg |-> v]
    BY <1>1 DEF InsertCall
  <2>2. ReqView' = [op |-> "insert", net |-> Effective([val |-> n.val, len |-> n.len]), id |-> v]
    BY <2>1 DEF ReqView, CallView, Idle
  <2>3. Effective([val |-> n.val, len |-> n.len]) \in EffectiveNets
    BY EffectiveFacts DEF EffectiveNets
  <2> QED
    BY <1>0, <2>1, <2>2, <2>3, ReqViewFacts
<1>2. ASSUME NEW a \in Addr, LookupIpnum(a) \/ LookupDotted(a)
      PROVE  /\ ReqView = Idle /\ UNCHANGED <<TableView, ret>>
             /\ ReqView' = [op |-> "lookup", addr |-> a]
  <2>1. PICK pv : LookupCall(a, pv)
    BY <1>2 DEF LookupIpnum, LookupDotted
  <2>2. /\ call = Idle /\ node_value' = node_value /\ data_leaf' = data_leaf /\ ret' = ret
        /\ call' = [op |-> "lookup", val |-> a, width |-> AddrBits,
                    currentpos |-> 0, this |-> Root, arg |-> pv]
    BY <2>1 DEF LookupCall
  <2>3. ReqView' = [op |-> "lookup", addr |-> a]
    BY <2>2 DEF ReqView, CallView, Idle
  <2> QED
    BY <1>0, <2>2, <2>3, ReqViewFacts
<1>3. ASSUME call \in Call, call.op = "insert" \/ call.op = "lookup",
             call'.op = call.op \/ (call.op = "insert" /\ call'.op \in {"aborted", "crashed"}),
             call'.val = call.val, call'.width = call.width, call'.arg = call.arg
      PROVE  ReqView' = ReqView
  BY <1>3 DEF ReqView, CallView
<1>4. CASE InsertBelow
  <2>1. call \in Call /\ call.op = "insert" /\ ret' = ret
    BY <1>4 DEF InsertBelow, LookupInv, TreeInv, TypeInv, TypeOK, Idle
  <2>2. /\ call'.op = call.op /\ call'.val = call.val /\ call'.width = call.width
        /\ call'.arg = call.arg
    BY <1>4, <2>1 DEF InsertBelow, Call
  <2>3. TableView' = TableView
    <3>1. /\ \A p \in Occupied : p \in Occupied' /\ Content(p)' = Content(p)
          /\ \A p \in Occupied' : p \notin Occupied => Content(p)' = NoValue
      BY <1>4, BelowView DEF LookupInv, WayInv
    <3> QED
      BY <3>1, SameTable
  <2>4. ReqView' = ReqView
    BY <1>3, <2>1, <2>2
  <2> QED
    BY <2>1, <2>3, <2>4
<1>5. CASE InsertAbort \/ InsertIntoData
  <2>1. call \in Call /\ call.op = "insert" /\ ret' = ret
        /\ node_value' = node_value /\ data_leaf' = data_leaf
    BY <1>5 DEF InsertAbort, InsertIntoData, LookupInv, TreeInv, TypeInv, TypeOK, Idle
  <2>2. /\ call'.op \in {"aborted", "crashed"} /\ call'.val = call.val
        /\ call'.width = call.width /\ call'.arg = call.arg
    BY <1>5, <2>1 DEF InsertAbort, InsertIntoData, Call
  <2>3. ReqView' = ReqView
    BY <1>3, <2>1, <2>2
  <2> QED
    BY <1>0, <2>1, <2>3
<1>6. CASE InsertHere
  <2>1. /\ ReqView = [op |-> "insert", net |-> Effective([val |-> call.val, len |-> call.width]),
                      id |-> call.arg]
        /\ call' = Idle /\ ret' = ret
    BY <1>6, ReqViewFacts DEF InsertHere
  <2>2. ReqView' = Idle
    BY <2>1 DEF ReqView, CallView, Idle
  <2>3. TableView' = [TableView EXCEPT ![Loose!PrefixOf(ReqView.net)] = ReqView.id]
    <3>1. /\ ReqView.net = Effective([val |-> call.val, len |-> call.width])
          /\ ReqView.id = call.arg
      BY <2>1
    <3> QED
      BY <1>6, <3>1, InsertBinds
  <2> QED
    BY <2>1, <2>2, <2>3
<1>7. CASE LookupBelow
  <2>1. call \in Call /\ call.op = "lookup" /\ ret' = ret
        /\ node_value' = node_value /\ data_leaf' = data_leaf
    BY <1>7 DEF LookupBelow, LookupInv, TreeInv, TypeInv, TypeOK, Idle
  <2>2. /\ call'.op = call.op /\ call'.val = call.val /\ call'.width = call.width
        /\ call'.arg = call.arg
    BY <1>7, <2>1 DEF LookupBelow, Call
  <2>3. ReqView' = ReqView
    BY <1>3, <2>1, <2>2
  <2> QED
    BY <1>0, <2>1, <2>3
<1>8. CASE LookupHere \/ LookupData
  <2>1. /\ call.op = "lookup" /\ call' = Idle /\ ret' = Answer(call.val, call.arg)
        /\ node_value' = node_value /\ data_leaf' = data_leaf
    BY <1>8, ReturnsAnswer
  <2>2. ReqView = [op |-> "lookup", addr |-> call.val] /\ ReqView' = Idle
    BY <2>1, ReqViewFacts DEF ReqView, CallView, Idle
  <2>3. ret' \in Value \cup {NoValue}
    BY DEF LookupInv, TreeInv, TypeInv, TypeOK, ValueOrNone
  <2> QED
    BY <1>0, <2>1, <2>2, <2>3
<1>9. CASE CollapseLeaves
  <2>1. /\ Occupied' = Occupied /\ \A p \in Occupied : Content(p)' = Content(p)
        /\ call' = call /\ ret' = ret
    BY <1>9, CollapseView DEF LookupInv
  <2> QED
    BY <2>1, SameTable DEF ReqView, CallView
<1>10. CASE UNCHANGED vars
  BY <1>0, <1>10 DEF vars, ReqView, CallView
<1> QED
  BY <1>1, <1>2, <1>4, <1>5, <1>6, <1>7, <1>8, <1>9, <1>10 DEF Next, InsertStep, LookupStep

LEMMA InitIsInit == Init => /\ TableView = [p \in Prefix |-> NoValue]
                            /\ ReqView = Idle /\ ret = NoValue
<1> SUFFICES ASSUME Init PROVE /\ TableView = [p \in Prefix |-> NoValue]
                               /\ ReqView = Idle /\ ret = NoValue
  OBVIOUS
<1>1. \A path : (IF IsTaken(path) THEN Content(path) ELSE NoValue) = NoValue
  BY DEF Init, IsTaken, Content
<1>2. call = Idle
  BY DEF Init
<1> QED
  BY <1>1, <1>2, ReqViewFacts DEF Init, TableView, BindingOf

-----------------------------------------------------------------------------
(* What the root has is what the empty prefix has. *)
LEMMA RootIsDefault ==
  ASSUME TreeInv, WayInv
  PROVE  node_value[Root] \in Loose!Default
<1>1. Root \in Occupied /\ Content(Root) = node_value[Root]
  BY DEF TreeInv, WellLinked, Occupied, Content
<1>2. CASE Content(Root) = NoValue
  BY <1>1, <1>2 DEF Loose!Default
<1>3. CASE Content(Root) # NoValue
  <2>1. PICK n \in Net : n.len # 0 /\ Root = PathOf(n.val, Effective(n).len)
    BY <1>1, <1>3 DEF WayInv, Contents, EndOf
  <2>2. Effective(n).len \in Nat /\ Effective(n).len % 4 # 1
    BY EffectiveFacts, AddrBitsAssumption
  <2>3. Effective(n).len = 0
    <3>1. Len(PathOf(n.val, Effective(n).len)) = Depth(Effective(n).len)
      BY <2>2, PathOfSlots
    <3>2. Depth(Effective(n).len) = 0
      BY <2>1, <3>1 DEF Root
    <3> QED
      BY <2>2, <3>2 DEF Depth
  <2>4. PICK p \in Prefix : p.len = 0
    BY <2>3, PrefixOfNet
  <2>5. PathOf(p.bits, p.len) = Root
    BY <2>4 DEF PathOf, Stride, Root
  <2>6. p \in Loose!Prefix /\ TableView[p] = node_value[Root]
    BY <1>1, <2>5, PrefixFacts
  <2> QED
    BY <2>4, <2>6 DEF Loose!Default
<1> QED
  BY <1>2, <1>3

(* What the caller of the running insert gave is a network. *)
CallNet ==
  call.op \in {"insert", "aborted", "crashed"} => [val |-> call.val, len |-> call.width] \in Net

LEMMA CallNetStep == LookupInv /\ LookupInv' /\ CallNet /\ [Next]_vars => CallNet'
<1> SUFFICES ASSUME LookupInv, LookupInv', CallNet, [Next]_vars PROVE CallNet'
  OBVIOUS
<1>1. CASE InsertAbort \/ InsertIntoData
  <2>1. call \in Call /\ call.op = "insert"
    BY <1>1 DEF InsertAbort, InsertIntoData, LookupInv, TreeInv, TypeInv, TypeOK, Idle
  <2>2. call'.val = call.val /\ call'.width = call.width
    BY <1>1, <2>1 DEF InsertAbort, InsertIntoData, Call
  <2> QED
    BY <2>1, <2>2 DEF CallNet
<1>2. CASE UNCHANGED vars
  BY <1>2 DEF vars, CallNet
<1>3. ASSUME call'.op = "insert" PROVE CallNet'
  BY <1>3 DEF LookupInv, WayInv, InsertPath, CallNet
<1>4. ASSUME call'.op \notin {"insert", "aborted", "crashed"} PROVE CallNet'
  BY <1>4 DEF CallNet
<1>5. ASSUME InsertBelow \/ LookupBelow PROVE call'.op \in {"insert", "lookup"}
  <2>1. call \in Call
    BY <1>5 DEF InsertBelow, LookupBelow, LookupInv, TreeInv, TypeInv, TypeOK, Idle
  <2> QED
    BY <1>5, <2>1 DEF InsertBelow, LookupBelow, Call
<1> QED
  BY <1>1, <1>2, <1>3, <1>4, <1>5
     DEF Next, InsertStep, LookupStep, InsertCall, InsertHere, LookupIpnum, LookupDotted,
         LookupCall, LookupHere, LookupData, Return, CollapseLeaves, Idle

(* When all bits are kept, the request is what the caller asked for. *)
LEMMA OneRequest ==
  ASSUME KeepsAllBits, CallNet
  PROVE  ReqView = CallView
<1>1. CASE call.op \in {"insert", "aborted", "crashed"}
  <2> DEFINE n == [val |-> call.val, len |-> call.width]
  <2>1. Effective(n) = n
    BY <1>1, AllBitsKept DEF CallNet
  <2>2. CallView = [op |-> "insert", net |-> n, id |-> call.arg]
    BY <1>1 DEF CallView
  <2>3. ReqView = [op |-> "insert", net |-> Effective(n), id |-> call.arg]
    BY <1>1, ReqViewFacts
  <2> QED
    BY <2>1, <2>2, <2>3
<1>2. CASE call.op \notin {"insert", "aborted", "crashed"}
  BY <1>2 DEF ReqView, CallView, Idle
<1> QED
  BY <1>1, <1>2

(* As long as no network lies in another and no length loses a bit, the      *)
(* trie, run call by call with collapses in between, is the longest-prefix-  *)
(* match table of the networks that callers insert (ftrie.h:60-61). *)
THEOREM TrieIsTheTable ==
  ASSUME KeepsAllBits, NoNesting
  PROVE  Spec => ImplementsExact
<1> DEFINE Inv == LookupInv /\ CallNet
           Same == TableView = NetTable /\ ReqView = CallView
<1>1. Init => Inv
  BY LookupInit DEF Init, CallNet, Idle
<1>2. Inv /\ [Next]_vars => Inv'
  BY LookupStepInv, CallNetStep
<1>3. Inv => Same
  BY OneTable, OneRequest
<1>4. Same /\ Init => Exact!Init
  BY InitIsInit, OneTable
     DEF Exact!Init, Exact!Idle, Idle, Exact!Prefix, Exact!PrefixOf, Prefix, PrefixesOf
<1>5. Inv /\ Inv' /\ Same /\ Same' /\ [Next]_vars => [Exact!Next]_(Exact!tableVars)
  <2> SUFFICES ASSUME Inv, Inv', Same, Same', [Next]_vars
               PROVE  [Exact!Next]_(Exact!tableVars)
    OBVIOUS
  <2>1. ASSUME call.op = "lookup" PROVE Exact!IsMatch(call.val, Answer(call.val, call.arg))
    <3>1. call.arg = NoValue /\ call.val \in Word
      BY <2>1, LookupFacts, RootIsFree, AllBitsKept DEF LookupInv
    <3> QED
      BY <3>1, MatchIsExact, OneTable DEF LookupInv
  <2>2. /\ NetTable = TableView /\ NetTable' = TableView'
        /\ CallView = ReqView /\ CallView' = ReqView'
    OBVIOUS
  <2>3. EffectiveNets = Net /\ \A n : Exact!PrefixOf(n) = Loose!PrefixOf(n)
    BY AllBitsKept DEF Exact!PrefixOf, Loose!PrefixOf
  <2> HIDE DEF Inv, Same
  <2> QED
    BY <2>1, <2>2, <2>3, StepIsAStep
       DEF Inv, Exact!Next, Exact!tableVars, Exact!RequestInsert, Exact!RequestLookup, Exact!Insert,
           Exact!Lookup, Exact!Idle, Idle, ValueOrNone
<1> QED
  BY <1>1, <1>2, <1>3, <1>4, <1>5, PTL DEF Spec, ImplementsExact, Exact!Spec

(* Whatever prefixes nest and whatever lengths lose a bit, the trie is the   *)
(* table of the prefixes it really binds, whose lookups may overlook all but *)
(* the empty one (ftrie.cpp:84, 90-110). *)
THEOREM TrieMayMiss == Spec => ImplementsLoose
<1>1. Init => Loose!Init
  BY InitIsInit DEF Loose!Init, Loose!Idle, Idle, Loose!Prefix, Loose!PrefixOf, Prefix, PrefixesOf
<1>2. LookupInv /\ LookupInv' /\ [Next]_vars => [Loose!Next]_(Loose!tableVars)
  <2> SUFFICES ASSUME LookupInv, LookupInv', [Next]_vars PROVE [Loose!Next]_(Loose!tableVars)
    OBVIOUS
  <2>1. ASSUME call.op = "lookup"
        PROVE  \/ Answer(call.val, call.arg) \in Loose!Default
               \/ Loose!IsMatch(call.val, Answer(call.val, call.arg))
    <3> DEFINE found == Found(Occupied, call.val)
    <3>1. call.arg \in {NoValue, node_value[Root]} /\ call.val \in Word
      BY <2>1, LookupFacts
    <3>2. found \in Occupied /\ Answer(call.val, NoValue) = Content(found)
      BY AnswerByNumber DEF LookupInv
    <3>3. Answer(call.val, call.arg) \in {Content(found), call.arg}
      BY <3>2 DEF Answer, AnswerIn, Content, Occupied
    <3>4. Content(found) # NoValue => Answer(call.val, call.arg) = Content(found)
      BY <3>2 DEF Answer, AnswerIn, Content, Occupied
    <3>5. Content(found) # NoValue => Loose!IsMatch(call.val, Content(found))
      BY <3>1, ValueIsLongest DEF LookupInv, WayInv
    <3>6. node_value[Root] \in Loose!Default
      BY RootIsDefault DEF LookupInv
    <3>7. NoValue \in Loose!Default
      BY DEF Loose!Default
    <3> QED
      BY <3>1, <3>3, <3>4, <3>5, <3>6, <3>7
  <2> QED
    BY <2>1, StepIsAStep
       DEF Loose!Next, Loose!tableVars, Loose!RequestInsert, Loose!RequestLookup, Loose!Insert,
           Loose!Lookup, Loose!Idle, Idle, Loose!PrefixOf, ValueOrNone
<1> QED
  BY <1>1, <1>2, LookupCorrect, PTL DEF Spec, ImplementsLoose, Loose!Spec

-----------------------------------------------------------------------------
(* An address has one longest match. *)
LEMMA MatchIsUnique ==
  ASSUME NEW a, NEW v, NEW w, Loose!IsMatch(a, v), Loose!IsMatch(a, w)
  PROVE  v = w
<1>1. \A p, q \in Prefix : Loose!IsLongest(p, a) /\ Loose!IsLongest(q, a) => p = q
  <2> SUFFICES ASSUME NEW p \in Prefix, NEW q \in Prefix,
                      Loose!IsLongest(p, a), Loose!IsLongest(q, a)
               PROVE  p = q
    OBVIOUS
  <2>1. p.len \in Nat /\ q.len \in Nat /\ p \in Loose!Prefix /\ q \in Loose!Prefix
    BY PrefixFacts, AddrBitsAssumption
  <2>2. p.len <= q.len /\ q.len <= p.len
    BY <2>1 DEF Loose!IsLongest
  <2>3. p.len = q.len
    BY <2>1, <2>2
  <2>4. \A i \in 1..p.len : p.bits[i] = a[i] /\ q.bits[i] = a[i]
    BY <2>3 DEF Loose!IsLongest, Loose!Bound, Loose!Covers
  <2>5. [i \in 1..p.len |-> p.bits[i]] = [i \in 1..q.len |-> q.bits[i]]
    BY <2>3, <2>4
  <2> QED
    BY <2>3, <2>5, PrefixShape
<1>2. Loose!Prefix = Prefix
  BY DEF Loose!Prefix, Loose!PrefixOf, Prefix, PrefixesOf
<1> QED
  BY <1>1, <1>2 DEF Loose!IsMatch, Loose!IsLongest

(* What binds and covers an address outside the network being inserted. *)
LEMMA OutsideSameBinding ==
  ASSUME KeepsAllBits, LookupInv, InsertBelow \/ InsertHere,
         NEW a \in Addr, \E i \in 1..call.width : call.val[i] # a[i],
         NEW q \in Prefix, Loose!Covers(q, a)
  PROVE  TableView'[q] = TableView[q]
<1>1. CASE InsertBelow
  <2>1. /\ \A p \in Occupied : p \in Occupied' /\ Content(p)' = Content(p)
        /\ \A p \in Occupied' : p \notin Occupied => Content(p)' = NoValue
    BY <1>1, BelowView DEF LookupInv, WayInv
  <2> QED
    BY <2>1, SameTable
<1>2. CASE InsertHere
  <2> DEFINE n == [val |-> call.val, len |-> call.width]
             new == Loose!PrefixOf(Effective(n))
  <2>1. n \in Net
    BY <1>2, HereView DEF LookupInv, WayInv
  <2>2. Effective(n) = [val |-> call.val, len |-> call.width]
    BY <2>1, AllBitsKept
  <2>3. new = [len |-> call.width, bits |-> [i \in 1..call.width |-> call.val[i]]]
    <3>1. Effective(n).len = call.width /\ Effective(n).val = call.val
      BY <2>2
    <3> QED
      BY <3>1 DEF Loose!PrefixOf
  <2>4. TableView' = [TableView EXCEPT ![new] = call.arg]
    BY <1>2, InsertBinds
  <2> HIDE DEF new
  <2>5. new.len = call.width /\ \A i \in 1..call.width : new.bits[i] = call.val[i]
    BY <2>3
  <2>6. q # new
    BY <2>5 DEF Loose!Covers
  <2> QED
    BY <2>4, <2>6 DEF TableView
<1> QED
  BY <1>1, <1>2

(* As long as no network lies in another and no length loses a bit, an       *)
(* insert leaves the answer of every address outside its network as it was,  *)
(* at each step of its recursion (ftrie.cpp:37-74). *)
THEOREM InsertsAreLocal ==
  ASSUME KeepsAllBits, NoNesting
  PROVE  Spec => InsertLocal
<1> DEFINE Step == call.op = "insert" /\ node_value' # node_value =>
                     \A a \in Addr :
                       (\E i \in 1..call.width : call.val[i] # a[i])
                          => AnswerIn(node_value', data_leaf', a, NoValue) = Answer(a, NoValue)
           Matches == \A a \in Addr : Loose!IsMatch(a, Answer(a, NoValue))
<1>1. LookupInv => Matches
  BY MatchIsExact, AddrAssumption DEF LookupInv
<1>2. LookupInv /\ Matches /\ Matches' /\ [Next]_vars => [Step]_vars
  <2> SUFFICES ASSUME LookupInv, Matches, Matches', InsertBelow \/ InsertHere,
                      NEW a \in Addr, \E i \in 1..call.width : call.val[i] # a[i]
               PROVE  Answer(a, NoValue)' = Answer(a, NoValue)
    <3>1. ASSUME Next, call.op = "insert", node_value' # node_value
          PROVE  InsertBelow \/ InsertHere
      BY <3>1 DEF Next, InsertStep, LookupStep, InsertCall, InsertAbort, InsertIntoData,
           LookupIpnum, LookupDotted, LookupCall, LookupHere, LookupData, LookupBelow,
           CollapseLeaves, Idle
    <3> QED
      BY <3>1 DEF Answer
  <2>1. \A q \in Prefix : Loose!Covers(q, a) => TableView'[q] = TableView[q]
    BY OutsideSameBinding
  <2>2. Loose!Prefix = Prefix
    BY DEF Loose!Prefix, Loose!PrefixOf, Prefix, PrefixesOf
  <2>3. PICK v : v = Answer(a, NoValue)'
    OBVIOUS
  <2>4. Loose!IsMatch(a, Answer(a, NoValue))'
    OBVIOUS
  <2>5. \/ \E p \in Prefix : /\ TableView'[p] # NoValue /\ Loose!Covers(p, a)
                             /\ \A q \in Prefix : TableView'[q] # NoValue /\ Loose!Covers(q, a)
                                                    => q.len <= p.len
                             /\ v = TableView'[p]
        \/ v = NoValue /\ \A p \in Prefix : ~(TableView'[p] # NoValue /\ Loose!Covers(p, a))
    BY <2>2, <2>3, <2>4 DEF Loose!IsMatch, Loose!IsLongest, Loose!Bound, Loose!Covers
  <2>6. Loose!IsMatch(a, v)
    BY <2>1, <2>2, <2>5 DEF Loose!IsMatch, Loose!IsLongest, Loose!Bound
  <2>7. Loose!IsMatch(a, Answer(a, NoValue))
    OBVIOUS
  <2> QED
    BY <2>3, <2>6, <2>7, MatchIsUnique
<1> QED
  BY <1>1, <1>2, LookupCorrect, PTL DEF InsertLocal, Spec
=============================================================================
