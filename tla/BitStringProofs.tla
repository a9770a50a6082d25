--------------------------- MODULE BitStringProofs ---------------------------
(***************************************************************************)
(* Proofs about BitString.  With the window of the code, four bits: where  *)
(* an insert stops, for every width of a word and every mask.  For windows *)
(* of any size and words of up to the code's 32 bits: which bits of the    *)
(* word the shifts and masks select.                                       *)
(***************************************************************************)
EXTENDS BitString, TLAPS

(* Positions are whole windows, but for the end of the bits, where an insert  *)
(* never reads a single bit. *)
PositionInv ==
  /\ kbitlength \in Nat
  /\ currentpos \in 0..kbitlength
  /\ currentpos % 4 = 0 \/ currentpos = kbitlength
  /\ reader \in {"insert", "lookup", "inserted", "answered", "aborted"}

NoSingleBit == reader = "insert" /\ kbitlength % 4 = 1 => currentpos < kbitlength

StopInv == PositionInv /\ NoSingleBit /\ StopsAtLength /\ NeverAborts

LEMMA StopInit == Init => StopInv
<1> SUFFICES ASSUME Init PROVE StopInv
  OBVIOUS
<1>1. kbitlength \in Nat
  <2>1. CASE reader = "lookup" /\ kbitlength = WordBits
    BY <2>1, WordBitsAssumption
  <2>2. CASE reader = "insert" /\ \E e \in Asked : kbitlength \in Lengths(e)
    <3>1. PICK e \in Asked : kbitlength \in {e % MaskRange} \cup {e}
      BY <2>2 DEF Lengths
    <3>2. e \in Nat /\ MaskRange \in Nat \ {0}
      BY AskedAssumption, MaskAssumption, WordBitsAssumption
    <3> QED
      BY <3>1, <3>2
  <2> QED
    BY <2>1, <2>2 DEF Init
<1>2. currentpos = 0 /\ reader \in {"insert", "lookup"}
  BY DEF Init
<1> QED
  BY <1>1, <1>2 DEF StopInv, PositionInv, NoSingleBit, StopsAtLength, NeverAborts

(* A window is four bits, or all that is left. *)
LEMMA WindowMoves ==
  ASSUME PositionInv, Window = 4, NextWindow
  PROVE  /\ \/ currentpos' = currentpos + 4 /\ currentpos + 4 <= kbitlength /\ pair'[1] = 4
            \/ /\ currentpos' = kbitlength /\ kbitlength - currentpos < 4
               /\ pair'[1] = kbitlength - currentpos
         /\ kbitlength - currentpos \in Nat
<1> DEFINE w == IF kbitlength - currentpos < 4 THEN kbitlength - currentpos ELSE 4
<1>1. currentpos' = currentpos + w /\ pair'[1] = w
  BY DEF NextWindow, PositionInv
<1> QED
  BY <1>1 DEF PositionInv

LEMMA StopStep == ASSUME Window = 4 PROVE StopInv /\ [Next]_vars => StopInv'
<1> SUFFICES ASSUME StopInv, [Next]_vars PROVE StopInv'
  OBVIOUS
<1>1. CASE InsertReads
  <2>1. reader = "insert" /\ HasMore /\ NextWindow /\ kbitlength' = kbitlength
        /\ reader' = IF pair'[1] = 0 THEN "aborted" ELSE "insert"
    BY <1>1 DEF InsertReads
  <2>2. PositionInv'
    BY <2>1, WindowMoves DEF StopInv, PositionInv
  <2>3. NeverAborts'
    BY <2>1, WindowMoves DEF StopInv, PositionInv, NeverAborts, HasMore
  <2>4. NoSingleBit'
    BY <2>1, WindowMoves DEF StopInv, PositionInv, NoSingleBit, HasMore
  <2> QED
    BY <2>1, <2>2, <2>3, <2>4 DEF StopInv, StopsAtLength
<1>2. CASE InsertStops
  <2>1. reader = "insert" /\ ~HasMore /\ reader' = "inserted"
        /\ kbitlength' = kbitlength /\ currentpos' = currentpos
    BY <1>2 DEF InsertStops
  <2>2. kbitlength > 0 => kbitlength - currentpos = IF kbitlength % 4 = 1 THEN 1 ELSE 0
    <3>1. kbitlength > 0 => currentpos = kbitlength \/ currentpos = kbitlength - 1
      BY <2>1 DEF StopInv, PositionInv, HasMore
    <3>2. CASE currentpos = kbitlength
      BY <2>1, <3>2 DEF StopInv, PositionInv, NoSingleBit
    <3>3. CASE kbitlength > 0 /\ currentpos = kbitlength - 1
      BY <3>3 DEF StopInv, PositionInv
    <3> QED
      BY <3>1, <3>2, <3>3
  <2> QED
    BY <2>1, <2>2 DEF StopInv, PositionInv, NoSingleBit, StopsAtLength, NeverAborts
<1>3. CASE LookupReads
  <2>1. reader = "lookup" /\ NextWindow /\ kbitlength' = kbitlength
        /\ reader' \in {"lookup", "answered"}
    BY <1>3 DEF LookupReads
  <2>2. PositionInv'
    BY <2>1, WindowMoves DEF StopInv, PositionInv
  <2> QED
    BY <2>1, <2>2 DEF StopInv, NoSingleBit, StopsAtLength, NeverAborts
<1>4. CASE UNCHANGED vars
  BY <1>4 DEF vars, StopInv, PositionInv, NoSingleBit, StopsAtLength, NeverAborts
<1> QED
  BY <1>1, <1>2, <1>3, <1>4 DEF Next

(* An insert of any nonzero length, also of one beyond the word, stops at    *)
(* its length or one bit before it (bitstring.h:12-14).                      *)
THEOREM InsertStopsAtLength == ASSUME Window = 4 PROVE Spec => []StopsAtLength
<1>1. StopInv => StopsAtLength
  BY DEF StopInv
<1> QED
  BY <1>1, StopInit, StopStep, PTL DEF Spec

(* No insert of a nonzero length reaches the assert(false) of ftrie.cpp:71.  *)
THEOREM InsertNeverAborts == ASSUME Window = 4 PROVE Spec => []NeverAborts
<1>1. StopInv => NeverAborts
  BY DEF StopInv
<1> QED
  BY <1>1, StopInit, StopStep, PTL DEF Spec

-----------------------------------------------------------------------------
(* The provers keep apart a power and the arithmetic around it: 2^n is named *)
(* here, and what the definitions say is said of the name.                   *)
Pow(n) == 2^n

Words == 0..(Pow(WordBits) - 1)

BitTypes ==
  /\ reader \in {"insert", "lookup", "inserted", "answered", "aborted"}
  /\ val \in Words /\ kbitlength \in Nat
  /\ currentpos \in 0..kbitlength
  /\ pair[1] \in 0..Window /\ pair[2] \in 0..(Pow(pair[1]) - 1)
  /\ taken \in Words

LEMMA Named ==
  /\ Uint32 = Words
  /\ \A x, s : ShiftRight(x, s) =
        IF s \in 0..(WordBits - 1) THEN {x \div Pow(s)} ELSE Words
  /\ BitTypes => TypeOK
  /\ \A x, n : LowBits(x, n) = [j \in 1..n |-> (x \div Pow(n - j)) % 2]
  /\ \A x, first, n : Bits(x, first, n) =
        [j \in 1..n |-> (x \div Pow(WordBits - (first + j - 1))) % 2]
<1>1. Uint32 = Words
  BY DEF Uint32, Words, Pow
<1>2. \A x, s : ShiftRight(x, s) =
        IF s \in 0..(WordBits - 1) THEN {x \div Pow(s)} ELSE Words
  BY <1>1 DEF ShiftRight, Pow
<1>3. BitTypes => TypeOK
  BY <1>1 DEF BitTypes, TypeOK, Pow
<1>4. \A x, n : LowBits(x, n) = [j \in 1..n |-> (x \div Pow(n - j)) % 2]
  BY DEF LowBits, Pow
<1>5. \A x, first, n : Bits(x, first, n) =
        [j \in 1..n |-> (x \div Pow(WordBits - (first + j - 1))) % 2]
  BY DEF Bits, BitAt, Pow
<1> QED
  BY <1>1, <1>2, <1>3, <1>4, <1>5

(* Powers of two, as far as a 32 bit word has them.                          *)
LEMMA PowersOfTwo ==
  /\ Pow(0) = 1 /\ Pow(1) = 2 /\ Pow(2) = 4 /\ Pow(3) = 8 /\ Pow(4) = 16
  /\ Pow(5) = 32 /\ Pow(6) = 64 /\ Pow(7) = 128 /\ Pow(8) = 256 /\ Pow(9) = 512
  /\ Pow(10) = 1024 /\ Pow(11) = 2048 /\ Pow(12) = 4096 /\ Pow(13) = 8192
  /\ Pow(14) = 16384 /\ Pow(15) = 32768 /\ Pow(16) = 65536 /\ Pow(17) = 131072
  /\ Pow(18) = 262144 /\ Pow(19) = 524288 /\ Pow(20) = 1048576
  /\ Pow(21) = 2097152 /\ Pow(22) = 4194304 /\ Pow(23) = 8388608
  /\ Pow(24) = 16777216 /\ Pow(25) = 33554432 /\ Pow(26) = 67108864
  /\ Pow(27) = 134217728 /\ Pow(28) = 268435456 /\ Pow(29) = 536870912
  /\ Pow(30) = 1073741824 /\ Pow(31) = 2147483648 /\ Pow(32) = 4294967296
BY DEF Pow

LEMMA PowerPositive == \A n \in 0..32 : Pow(n) \in Nat \ {0}
BY PowersOfTwo

LEMMA PowersAdd ==
  \A m \in 0..32 : \A n \in 0..(32 - m) : Pow(m + n) = Pow(m) * Pow(n)
BY PowersOfTwo

(* What \div and % return.                                                   *)
LEMMA Quotient ==
  ASSUME NEW x \in Nat, NEW y \in Nat \ {0}
  PROVE  /\ x \div y \in Nat /\ x \div y <= x
         /\ x % y \in Nat /\ x % y \in 0..(y - 1)
OBVIOUS

LEMMA Remainder ==
  ASSUME NEW x \in Nat, NEW y \in Nat \ {0}
  PROVE  x = y * (x \div y) + (x % y)
OBVIOUS

LEMMA ShiftedSum ==
  ASSUME NEW b \in Nat \ {0}, NEW c \in Nat, NEW q \in Nat, NEW r \in Nat
  PROVE  ((b * (2 * c)) * q + r) \div b = 2 * (c * q) + (r \div b)
<1> DEFINE d == r \div b
           e == r % b
<1>1. r = b * d + e /\ d \in Nat /\ e \in 0..(b - 1)
  BY Quotient, Remainder
<1> HIDE DEF d, e
<1>2. (b * (2 * c)) * q + r = b * (2 * (c * q) + d) + e
  BY <1>1
<1>3. \A k \in Nat : (b * k + e) \div b = k
  BY <1>1
<1>4. 2 * (c * q) + d \in Nat
  BY <1>1
<1>5. ((b * (2 * c)) * q + r) \div b = 2 * (c * q) + d
  BY <1>2, <1>3, <1>4
<1> QED
  BY <1>5 DEF d

(* Two shifts to the right are one.                                          *)
LEMMA ShiftShift ==
  ASSUME NEW x \in Nat, NEW m \in 0..32, NEW n \in 0..(32 - m)
  PROVE  (x \div Pow(m)) \div Pow(n) = x \div Pow(m + n)
<1>1. \A y, z \in Nat \ {0} : (x \div y) \div z = x \div (y * z)
  OBVIOUS
<1>2. Pow(m) \in Nat \ {0} /\ Pow(n) \in Nat \ {0}
  BY PowerPositive
<1>3. Pow(m + n) = Pow(m) * Pow(n)
  BY PowersAdd
<1> QED
  BY <1>1, <1>2, <1>3

(* A mask leaves the bits below it.                                          *)
LEMMA MaskedBit ==
  ASSUME NEW x \in Nat, NEW n \in 1..32, NEW k \in 0..(n - 1)
  PROVE  ((x % Pow(n)) \div Pow(k)) % 2 = (x \div Pow(k)) % 2
<1>1. PICK b \in Nat \ {0}, c \in Nat \ {0} : Pow(k) = b /\ Pow(n) = b * (2 * c)
  <2>1. Pow(n) = Pow(k) * Pow(n - k) /\ Pow(n - k) = Pow(1) * Pow(n - k - 1)
    <3>1. n - k \in 1..32 /\ k + (n - k) = n /\ 1 + (n - k - 1) = n - k
      OBVIOUS
    <3> QED
      BY <3>1, PowersAdd
  <2>2. Pow(1) = 2
    BY DEF Pow
  <2>3. Pow(k) \in Nat \ {0} /\ Pow(n - k - 1) \in Nat \ {0}
    <3>1. k \in 0..32 /\ n - k - 1 \in 0..32
      OBVIOUS
    <3> QED
      BY <3>1, PowerPositive
  <2> QED
    BY <2>1, <2>2, <2>3
<1> DEFINE q == x \div Pow(n)
           r == x % Pow(n)
<1>2. x = (b * (2 * c)) * q + r /\ q \in Nat /\ r \in Nat
  <2>1. Pow(n) \in Nat \ {0}
    BY PowerPositive
  <2>2. q \in Nat /\ r \in Nat
    BY <2>1, Quotient
  <2>3. x = Pow(n) * q + r
    BY <2>1, Remainder
  <2> QED
    BY <1>1, <2>2, <2>3
<1> HIDE DEF q, r
<1>3. x \div b = 2 * (c * q) + (r \div b)
  BY <1>2, ShiftedSum
<1>4. c * q \in Nat /\ r \div b \in Nat
  BY <1>2, Quotient
<1>5. (r \div b) % 2 = (x \div b) % 2
  BY <1>3, <1>4
<1> QED
  BY <1>1, <1>5 DEF r

(* What next() does inside the word: it goes on w bits and returns them.     *)
BitsInv ==
  /\ BitTypes
  /\ Inside => taken = val \div Pow(WordBits - currentpos)
  /\ pair[1] = Window /\ Inside =>
       /\ currentpos >= Window
       /\ pair[2] = (val \div Pow(WordBits - currentpos)) % Pow(Window)

LEMMA BitsInit == ASSUME WordBits <= 32 PROVE Init => BitsInv
<1> SUFFICES ASSUME Init PROVE BitsInv
  OBVIOUS
<1>1. kbitlength \in Nat /\ currentpos = 0 /\ reader \in {"insert", "lookup"}
  BY StopInit DEF StopInv, PositionInv, Init
<1>2. val \in 0..(Pow(WordBits) - 1) /\ Pow(WordBits) \in Nat \ {0}
  <2>1. WordBits \in 0..32
    BY WordBitsAssumption
  <2> QED
    BY <2>1, PowerPositive, Named DEF Init, Words
<1>3. val \div Pow(WordBits) = 0 /\ WordBits - 0 = WordBits
  BY <1>2, WordBitsAssumption
<1>4. pair = <<0, 0>> /\ taken = 0 /\ Pow(0) = 1
  BY DEF Init, Pow
<1>5. Window \in 1..WordBits
  BY WindowAssumption
<1>6. BitTypes
  BY <1>1, <1>2, <1>4, <1>5 DEF BitTypes, Words
<1> QED
  BY <1>1, <1>3, <1>4, <1>5, <1>6, WordBitsAssumption DEF BitsInv

LEMMA WindowTakes ==
  ASSUME WordBits <= 32, BitsInv, NextWindow, kbitlength' = kbitlength, val' = val,
         reader' \in {"insert", "lookup", "inserted", "answered", "aborted"}
  PROVE  BitsInv'
<1> DEFINE w == IF kbitlength - currentpos < Window THEN kbitlength - currentpos ELSE Window
           s == WordBits - currentpos - w
<1>1. PICK shifted \in ShiftRight(val, s) :
        /\ currentpos' = currentpos + w
        /\ pair' = <<w, shifted % Pow(w)>>
        /\ Take(w, shifted % Pow(w))
  BY DEF NextWindow, Pow
<1>2. /\ kbitlength \in Nat /\ currentpos \in 0..kbitlength /\ Window \in 1..WordBits
      /\ WordBits \in 1..32
  BY WindowAssumption, WordBitsAssumption DEF BitsInv, BitTypes
<1>3. w \in 0..Window /\ currentpos + w \in 0..kbitlength /\ w \in 0..32
  BY <1>2
<1> HIDE DEF w
<1>4. val \in Words /\ taken \in Words /\ Pow(WordBits) \in Nat \ {0} /\ Pow(w) \in Nat \ {0}
  BY <1>2, <1>3, PowerPositive DEF BitsInv, BitTypes
<1>5. shifted \in Nat
  <2>1. CASE s \in 0..(WordBits - 1)
    <3>1. Pow(s) \in Nat \ {0} /\ val \in Nat
      BY <1>2, <1>4, <2>1, PowerPositive DEF Words
    <3>2. shifted = val \div Pow(s)
      BY <1>1, <2>1, Named
    <3> QED
      BY <3>1, <3>2, Quotient
  <2>2. CASE s \notin 0..(WordBits - 1)
    BY <1>1, <1>4, <2>2, Named DEF Words
  <2> QED
    BY <2>1, <2>2
<1>6. shifted % Pow(w) \in 0..(Pow(w) - 1)
  BY <1>4, <1>5, Quotient
<1>7. pair'[1] = w /\ pair'[2] = shifted % Pow(w)
  BY <1>1
<1>8. ASSUME currentpos + w <= WordBits
      PROVE  /\ taken' = val \div Pow(s)
             /\ pair'[1] = Window =>
                  currentpos' >= Window /\ pair'[2] = (val \div Pow(s)) % Pow(Window)
  <2>1. s \in 0..WordBits /\ s + w = WordBits - currentpos /\ s + w <= 32
    BY <1>2, <1>3, <1>8
  <2>2. taken' = (taken * Pow(w)) + (shifted % Pow(w))
    BY <1>1, <1>8 DEF Take, Pow
  <2>3. taken = val \div Pow(s + w)
    BY <1>2, <1>3, <1>8, <2>1 DEF BitsInv, Inside
  <2>4. CASE s \in 0..(WordBits - 1)
    <3>1. shifted = val \div Pow(s)
      BY <1>1, <2>4, Named
    <3>2. taken = shifted \div Pow(w)
      <4>1. s \in 0..32 /\ w \in 0..(32 - s) /\ val \in Nat
        BY <1>2, <1>3, <1>4, <2>1 DEF Words
      <4> QED
        BY <2>3, <3>1, <4>1, ShiftShift
    <3>3. shifted = Pow(w) * (shifted \div Pow(w)) + (shifted % Pow(w))
      BY <1>4, <1>5, Remainder
    <3>4. taken' = shifted
      <4>1. shifted \div Pow(w) \in Nat
        BY <1>4, <1>5, Quotient
      <4> QED
        BY <1>4, <1>6, <2>2, <3>2, <3>3, <4>1
    <3> QED
      BY <1>1, <1>2, <1>3, <1>7, <3>1, <3>4
  <2>5. CASE s = WordBits
    <3>1. w = 0 /\ currentpos = 0
      BY <1>2, <1>3, <2>5
    <3>2. taken' = taken /\ taken = val \div Pow(s)
      <4>1. shifted % Pow(w) = 0 /\ Pow(w) = 1
        <5>1. Pow(0) = 1
          BY DEF Pow
        <5> QED
          BY <1>5, <3>1, <5>1
      <4>2. s + w = s
        BY <2>1, <3>1
      <4> QED
        BY <1>4, <2>2, <2>3, <4>1, <4>2 DEF Words
    <3> QED
      BY <1>2, <1>7, <3>1, <3>2
  <2> QED
    BY <1>2, <2>1, <2>4, <2>5
<1>9. taken' \in Words
  <2>1. CASE currentpos + w <= WordBits
    <3>1. s \in 0..32
      BY <1>2, <1>3, <2>1
    <3> QED
      <4>1. Pow(s) \in Nat \ {0} /\ val \in Nat
        BY <1>4, <3>1, PowerPositive DEF Words
      <4>2. val \div Pow(s) \in Nat /\ val \div Pow(s) <= val
        BY <4>1, Quotient
      <4> QED
        BY <1>4, <1>8, <2>1, <4>2 DEF Words
  <2>2. CASE ~(currentpos + w <= WordBits)
    BY <1>1, <1>4, <2>2 DEF Take
  <2> QED
    BY <2>1, <2>2
<1>10. BitTypes'
  BY <1>1, <1>2, <1>3, <1>4, <1>6, <1>7, <1>9 DEF BitTypes, Words
<1>11. Inside' => currentpos + w <= WordBits /\ WordBits - currentpos' = s
  BY <1>1, <1>2, <1>3 DEF Inside
<1> QED
  BY <1>8, <1>10, <1>11 DEF BitsInv

LEMMA BitsStep == ASSUME WordBits <= 32 PROVE BitsInv /\ [Next]_vars => BitsInv'
<1> SUFFICES ASSUME BitsInv, [Next]_vars PROVE BitsInv'
  OBVIOUS
<1>1. CASE InsertReads
  BY <1>1, WindowTakes DEF InsertReads
<1>2. CASE InsertStops
  BY <1>2 DEF InsertStops, BitsInv, BitTypes, Inside, Words
<1>3. CASE LookupReads
  BY <1>3, WindowTakes DEF LookupReads
<1>4. CASE UNCHANGED vars
  BY <1>4 DEF vars, BitsInv, BitTypes, Inside, Words
<1> QED
  BY <1>1, <1>2, <1>3, <1>4 DEF Next

(* Types; next() reads no bit past the length, and what it returns fits the  *)
(* number of bits it reports (bitstring.h:16-22).                            *)
THEOREM ReaderTypes == ASSUME WordBits <= 32 PROVE Spec => []TypeOK
<1>1. BitsInv => TypeOK
  BY Named DEF BitsInv
<1> QED
  BY <1>1, BitsInit, BitsStep, PTL DEF Spec

(* The windows tile the word: next() skips no bit of the word and returns    *)
(* none twice (bitstring.h:16-22), whatever the size of the window.          *)
THEOREM WindowsTileWord == ASSUME WordBits <= 32 PROVE Spec => []WindowsTile
<1>1. BitsInv => WindowsTile
  <2> SUFFICES ASSUME BitsInv, Inside
               PROVE  LowBits(taken, currentpos) = Bits(val, 1, currentpos)
    BY DEF WindowsTile
  <2>1. currentpos \in 0..WordBits /\ WordBits \in 1..32 /\ val \in Nat
    BY WordBitsAssumption, PowerPositive DEF BitsInv, BitTypes, Inside, Words
  <2>2. ASSUME NEW j \in 1..currentpos
        PROVE  taken \div Pow(currentpos - j) = val \div Pow(WordBits - (1 + j - 1))
    <3>1. taken = val \div Pow(WordBits - currentpos)
      BY DEF BitsInv
    <3>2. /\ WordBits - currentpos \in 0..32
          /\ currentpos - j \in 0..(32 - (WordBits - currentpos))
          /\ WordBits - (1 + j - 1) = (WordBits - currentpos) + (currentpos - j)
      BY <2>1
    <3> QED
      BY <2>1, <3>1, <3>2, ShiftShift
  <2> QED
    BY <2>2, Named
<1> QED
  BY <1>1, BitsInit, BitsStep, PTL DEF Spec

(* The slot that can_match computes from a whole window (bitlevel.h:78) is   *)
(* the one that an insert selects with fewer bits at the same place.         *)
THEOREM SlotsOfWindows == ASSUME WordBits <= 32 PROVE Spec => []TopBitsAgree
<1>1. BitsInv => TopBitsAgree
  <2> SUFFICES ASSUME BitsInv, pair[1] = Window, Inside, NEW r \in 1..Window
               PROVE  LowBits(pair[2] \div Pow(Window - r), r)
                        = Bits(val, currentpos - Window + 1, r)
    BY DEF TopBitsAgree, Pow
  <2> DEFINE y == val \div Pow(WordBits - currentpos)
  <2>1. /\ currentpos \in Window..WordBits /\ WordBits \in 1..32 /\ val \in Nat
        /\ Window \in 1..WordBits
    BY WordBitsAssumption, WindowAssumption, PowerPositive DEF BitsInv, BitTypes, Inside, Words
  <2>2. pair[2] = y % Pow(Window) /\ y \in Nat /\ y % Pow(Window) \in Nat
    <3>1. WordBits - currentpos \in 0..32
      BY <2>1
    <3>2. y \in Nat
      BY <2>1, <3>1, PowerPositive, Quotient
    <3> QED
      <4>1. Pow(Window) \in Nat \ {0}
        BY <2>1, PowerPositive
      <4>2. y % Pow(Window) \in Nat
        BY <3>2, <4>1, Quotient
      <4> QED
        BY <3>2, <4>2 DEF BitsInv
  <2> HIDE DEF y
  <2>3. ASSUME NEW j \in 1..r
        PROVE  ((pair[2] \div Pow(Window - r)) \div Pow(r - j)) % 2
                 = (val \div Pow(WordBits - (currentpos - Window + 1 + j - 1))) % 2
    <3>1. (pair[2] \div Pow(Window - r)) \div Pow(r - j) = pair[2] \div Pow(Window - j)
      <4>1. /\ Window - r \in 0..32 /\ r - j \in 0..(32 - (Window - r))
            /\ (Window - r) + (r - j) = Window - j
        BY <2>1
      <4> QED
        BY <2>2, <4>1, ShiftShift
    <3>2. (pair[2] \div Pow(Window - j)) % 2 = (y \div Pow(Window - j)) % 2
      <4>1. Window - j \in 0..(Window - 1) /\ Window \in 1..32
        BY <2>1
      <4> QED
        BY <2>2, <4>1, MaskedBit
    <3>3. y \div Pow(Window - j) = val \div Pow(WordBits - (currentpos - Window + 1 + j - 1))
      <4>1. /\ WordBits - currentpos \in 0..32
            /\ Window - j \in 0..(32 - (WordBits - currentpos))
            /\ WordBits - (currentpos - Window + 1 + j - 1)
                 = (WordBits - currentpos) + (Window - j)
        BY <2>1
      <4> QED
        BY <2>1, <4>1, ShiftShift DEF y
    <3> QED
      BY <3>1, <3>2, <3>3
  <2> QED
    BY <2>3, Named
<1> QED
  BY <1>1, BitsInit, BitsStep, PTL DEF Spec
=============================================================================
