--------------------------- MODULE TextInputProofs ---------------------------
(***************************************************************************)
(* TLAPS proofs about TextInput: its tokenizers, the search for tabs, the  *)
(* keys and the types, for any number of tokenizers and any texts.         *)
(***************************************************************************)
EXTENDS TextInput, SequenceTheorems, FiniteSetTheorems, NaturalsInduction, TLAPS

Used == {o \in Object : tok[o] # NoTok}

Fields == {"src", "mode", "pc", "at", "m_CopySize", "m_Copy", "m_vTokenArr"}

(* OwnBuffers, and that a tokenizer in use is a record of seven fields. *)
BuffersInv ==
  /\ tok = [o \in Object |-> tok[o]]
  /\ \A o \in Used : DOMAIN tok[o] = Fields /\ tok[o].pc \in {"turn", "done"}
  /\ DOMAIN mem = {tok[o].m_Copy : o \in Used}
  /\ \A o, p \in Used : tok[o].m_Copy = tok[p].m_Copy => o = p

LEMMA NewTokenizer ==
  ASSUME BuffersInv, NEW o \in Object, tok[o] = NoTok, NEW b, b \notin DOMAIN mem,
         NEW new, DOMAIN new = Fields, new.pc \in {"turn", "done"}, new.m_Copy = b,
         tok' = [tok EXCEPT ![o] = new], DOMAIN mem' = DOMAIN mem \cup {b}
  PROVE  BuffersInv'
<1>1. tok'[o] = new /\ \A p \in Object : p # o => tok'[p] = tok[p]
  BY DEF BuffersInv
<1>2. new # NoTok
  BY DEF NoTok
<1>3. Used' = Used \cup {o} /\ o \notin Used
  BY <1>1, <1>2 DEF Used
<1>4. \A p \in Used : tok'[p] = tok[p] /\ tok[p].m_Copy \in DOMAIN mem
  BY <1>1, <1>3 DEF BuffersInv, Used
<1>5. DOMAIN mem' = {tok'[p].m_Copy : p \in Used'}
  BY <1>1, <1>3, <1>4 DEF BuffersInv
<1>6. \A p, q \in Used' : tok'[p].m_Copy = tok'[q].m_Copy => p = q
  <2>1. tok'[o].m_Copy = b /\ \A p \in Used : tok'[p].m_Copy = tok[p].m_Copy
                                               /\ tok'[p].m_Copy # b
    BY <1>1, <1>4
  <2>2. \A p, q \in Used : tok[p].m_Copy = tok[q].m_Copy => p = q
    BY DEF BuffersInv
  <2> SUFFICES ASSUME NEW p \in Used', NEW q \in Used', tok'[p].m_Copy = tok'[q].m_Copy
               PROVE  p = q
    OBVIOUS
  <2>3. CASE p = o \/ q = o
    BY <1>3, <2>1, <2>3
  <2>4. CASE p \in Used /\ q \in Used
    BY <2>1, <2>2, <2>4
  <2> QED
    BY <1>3, <2>3, <2>4
<1>7. \A p \in Used' : DOMAIN tok'[p] = Fields /\ tok'[p].pc \in {"turn", "done"}
  BY <1>1, <1>3, <1>4 DEF BuffersInv
<1>8. tok' = [p \in Object |-> tok'[p]]
  BY DEF BuffersInv
<1> QED
  BY <1>5, <1>6, <1>7, <1>8 DEF BuffersInv

LEMMA OldTokenizer ==
  ASSUME BuffersInv, NEW o \in Used, NEW new, DOMAIN new = Fields, new.pc \in {"turn", "done"},
         new.m_Copy = tok[o].m_Copy, tok' = [tok EXCEPT ![o] = new], DOMAIN mem' = DOMAIN mem
  PROVE  BuffersInv'
<1>1. tok'[o] = new /\ \A p \in Object : p # o => tok'[p] = tok[p]
  BY DEF BuffersInv, Used
<1>2. new # NoTok
  BY DEF NoTok
<1>3. Used' = Used
  BY <1>1, <1>2 DEF Used
<1>4. \A p \in Used : tok'[p].m_Copy = tok[p].m_Copy
  BY <1>1 DEF Used
<1>5. DOMAIN mem' = {tok'[p].m_Copy : p \in Used'}
  BY <1>3, <1>4 DEF BuffersInv
<1>6. \A p, q \in Used' : tok'[p].m_Copy = tok'[q].m_Copy => p = q
  <2>1. \A p, q \in Used : tok[p].m_Copy = tok[q].m_Copy => p = q
    BY DEF BuffersInv
  <2> SUFFICES ASSUME NEW p \in Used, NEW q \in Used, tok'[p].m_Copy = tok'[q].m_Copy
               PROVE  p = q
    BY <1>3
  <2> QED
    BY <1>4, <2>1
<1>7. \A p \in Used' : DOMAIN tok'[p] = Fields /\ tok'[p].pc \in {"turn", "done"}
  BY <1>1, <1>3 DEF BuffersInv, Used
<1>8. tok' = [p \in Object |-> tok'[p]]
  BY DEF BuffersInv
<1> QED
  BY <1>5, <1>6, <1>7, <1>8 DEF BuffersInv

LEMMA BuffersStep == BuffersInv /\ [Next]_vars => BuffersInv'
<1> SUFFICES ASSUME BuffersInv, [Next]_vars PROVE BuffersInv'
  OBVIOUS
<1>1. ASSUME NEW o \in Object, NEW s, NEW mode, NEW counted, Construct(o, s, mode, counted)
      PROVE  BuffersInv'
  <2>1. tok[o] = NoTok
    BY <1>1 DEF Construct
  <2>2. PICK b, new :
          /\ b \in Buffer \ DOMAIN mem
          /\ DOMAIN mem' = DOMAIN mem \cup {b}
          /\ tok' = [tok EXCEPT ![o] = new]
          /\ DOMAIN new = Fields /\ new.pc = "turn" /\ new.m_Copy = b
    <3>1. PICK b, src, size, arr :
            /\ b \in Buffer \ DOMAIN mem
            /\ DOMAIN mem' = DOMAIN mem \cup {b}
            /\ tok' = [tok EXCEPT ![o] = [src |-> src, mode |-> mode, pc |-> "turn", at |-> 1,
                                          m_CopySize |-> size, m_Copy |-> b, m_vTokenArr |-> arr]]
      BY <1>1 DEF Construct
    <3> DEFINE new == [src |-> src, mode |-> mode, pc |-> "turn", at |-> 1,
                       m_CopySize |-> size, m_Copy |-> b, m_vTokenArr |-> arr]
    <3>2. DOMAIN new = Fields /\ new.pc = "turn" /\ new.m_Copy = b
      BY DEF Fields
    <3> QED
      BY <3>1, <3>2
  <2> QED
    BY <2>1, <2>2, NewTokenizer
<1>2. ASSUME NEW o \in Object, IntTokenize(o) \/ IntTokenize_Chr(o) PROVE BuffersInv'
  <2>1. tok[o].pc = "turn" /\ DOMAIN mem' = DOMAIN mem
    BY <1>2 DEF IntTokenize, IntTokenize_Chr
  <2>2. o \in Used
    BY <2>1 DEF Used, NoTok
  <2>3. DOMAIN tok[o] = Fields /\ tok = [p \in Object |-> tok[p]]
    BY <2>2 DEF BuffersInv
  <2>4. \/ tok' = [tok EXCEPT ![o].pc = "done"]
        \/ \E v, w : tok' = [tok EXCEPT ![o].m_vTokenArr = v, ![o].at = w]
    BY <1>2 DEF IntTokenize, IntTokenize_Chr
  <2>5. CASE tok' = [tok EXCEPT ![o].pc = "done"]
    <3> DEFINE new == [tok[o] EXCEPT !.pc = "done"]
    <3>1. DOMAIN new = Fields /\ new.pc \in {"turn", "done"} /\ new.m_Copy = tok[o].m_Copy
      BY <2>3 DEF Fields
    <3>2. tok' = [tok EXCEPT ![o] = new]
      BY <2>5
    <3> HIDE DEF new
    <3> QED
      BY <2>1, <2>2, <3>1, <3>2, OldTokenizer
  <2>6. ASSUME NEW v, NEW w, tok' = [tok EXCEPT ![o].m_vTokenArr = v, ![o].at = w]
        PROVE  BuffersInv'
    <3> DEFINE new == [tok[o] EXCEPT !.m_vTokenArr = v, !.at = w]
    <3>1. DOMAIN new = Fields /\ new.pc \in {"turn", "done"} /\ new.m_Copy = tok[o].m_Copy
      BY <2>1, <2>3 DEF Fields
    <3>2. tok' = [tok EXCEPT ![o] = new]
      BY <2>3, <2>6
    <3> HIDE DEF new
    <3> QED
      BY <2>1, <2>2, <3>1, <3>2, OldTokenizer
  <2> QED
    BY <2>4, <2>5, <2>6
<1>3. ASSUME NEW o \in Object, NEW p \in Object, CopyConstruct(o, p) PROVE BuffersInv'
  <2>1. tok[o].pc = "done" /\ tok[p] = NoTok
    BY <1>3 DEF CopyConstruct
  <2>2. DOMAIN tok[o] = Fields
    BY <2>1 DEF Used, NoTok, BuffersInv
  <2>3. PICK b \in Buffer \ DOMAIN mem :
          /\ DOMAIN mem' = DOMAIN mem \cup {b}
          /\ tok' = [tok EXCEPT ![p] = [tok[o] EXCEPT !.m_Copy = b]]
    BY <1>3 DEF CopyConstruct
  <2> DEFINE new == [tok[o] EXCEPT !.m_Copy = b]
  <2>4. DOMAIN new = Fields /\ new.pc \in {"turn", "done"} /\ new.m_Copy = b
    BY <2>1, <2>2 DEF Fields
  <2> HIDE DEF new
  <2>5. tok' = [tok EXCEPT ![p] = new]
    BY <2>3 DEF new
  <2> QED
    BY <2>1, <2>3, <2>4, <2>5, NewTokenizer
<1>4. ASSUME NEW o \in Object, Destroy(o) PROVE BuffersInv'
  <2>1. tok[o].pc = "done" /\ DOMAIN mem' = DOMAIN mem \ {tok[o].m_Copy}
        /\ tok' = [tok EXCEPT ![o] = NoTok]
    BY <1>4 DEF Destroy
  <2>2. tok'[o] = NoTok /\ (\A p \in Object : p # o => tok'[p] = tok[p]) /\ o \in Used
    BY <2>1 DEF BuffersInv, Used, NoTok
  <2>3. Used' = Used \ {o}
    BY <2>2 DEF Used
  <2>4. \A p \in Used' : tok'[p] = tok[p] /\ p \in Used
    BY <2>2, <2>3 DEF Used
  <2>5. DOMAIN mem' = {tok'[p].m_Copy : p \in Used'}
    BY <2>1, <2>2, <2>3, <2>4 DEF BuffersInv
  <2>6. tok' = [p \in Object |-> tok'[p]]
    BY <2>1 DEF BuffersInv
  <2> QED
    BY <2>4, <2>5, <2>6 DEF BuffersInv
<1>5. ASSUME UNCHANGED tokVars PROVE BuffersInv'
  BY <1>5 DEF tokVars, BuffersInv, Used
<1> QED
  BY <1>1, <1>2, <1>3, <1>4, <1>5 DEF Next, TokNext, vars

(* No two tokenizers share a buffer, and no buffer is left behind without    *)
(* one, through any construction, copy and destruction                       *)
(* (StrTokenizer.cpp:87-113). *)
THEOREM BuffersOwned == Spec => []OwnBuffers
<1>1. Init => BuffersInv
  BY DEF Init, TokInit, BuffersInv, Used
<1>2. BuffersInv => OwnBuffers
  BY DEF BuffersInv, OwnBuffers, Used
<1> QED
  BY <1>1, <1>2, BuffersStep, PTL DEF Spec

-----------------------------------------------------------------------------
(* A set of numbers has a least one.                                         *)
LEMMA Least ==
  ASSUME NEW T \in SUBSET Nat, T # {}
  PROVE  \E k \in T : \A m \in T : k <= m
<1>1. PICK k \in T : \A m \in T : ~(<<m, k>> \in OpToRel(<, Nat))
  BY WFMin, NatLessThanWellFounded
<1>2. \A m \in T : ~(m < k)
  BY <1>1 DEF OpToRel
<1> QED
  BY <1>2

(* First finds what is there.                                                *)
LEMMA FirstFound ==
  ASSUME NEW s, NEW chars, NEW from \in Nat, Len(s) \in Nat,
         NEW i \in from..Len(s), s[i] \in chars
  PROVE  /\ First(s, chars, from) \in from..i
         /\ s[First(s, chars, from)] \in chars
         /\ \A j \in from..(First(s, chars, from) - 1) : s[j] \notin chars
<1> DEFINE T == {k \in from..Len(s) : s[k] \in chars}
           first == First(s, chars, from)
<1>1. PICK k \in T : \A m \in T : k <= m
  <2>1. T \in SUBSET Nat /\ T # {}
    OBVIOUS
  <2> QED
    BY <2>1, Least
<1>2. k \in from..Len(s) /\ s[k] \in chars /\ \A j \in from..(k-1) : s[j] \notin chars
  BY <1>1
<1>3. /\ first \in from..Len(s) /\ s[first] \in chars
      /\ \A j \in from..(first - 1) : s[j] \notin chars
  BY <1>2 DEF First
<1> QED
  BY <1>3

(* A digit's value is found in either case.                                  *)
LEMMA DigitsRead ==
  /\ \A c \in 0..127 : AsciiHex[c] \in 0..15
  /\ \A n \in 0..15, u \in BOOLEAN : Digit(n, u) \in 0..127 /\ AsciiHex[Digit(n, u)] = n
<1>1. \A c \in 0..127 : AsciiHex[c] =
        CASE c \in 48..57 -> c - 48
          [] c \in 65..70 -> c - 55
          [] c \in 97..102 -> c - 87
          [] OTHER -> 0
  BY DEF AsciiHex
<1>2. \A c \in 0..127 : AsciiHex[c] \in 0..15
  BY <1>1
<1>3. ASSUME NEW n \in 0..15, NEW u \in BOOLEAN
      PROVE  Digit(n, u) \in 0..127 /\ AsciiHex[Digit(n, u)] = n
  BY <1>1 DEF Digit
<1> QED
  BY <1>2, <1>3

(* A key is converted pair by pair.                                          *)
KeyInv ==
  /\ number.b \in [1..4 -> 0..255]
  /\ number.key # <<>> =>
       /\ \A j \in 1..11 : number.key[j] \in 0..127
       /\ \A j \in 1..4 :
            number.b[j] = AsciiHex[number.key[3 * j - 2]] * 16 + AsciiHex[number.key[3 * j - 1]]

LEMMA KeyStep == KeyInv /\ [Next]_vars => KeyInv'
<1> SUFFICES ASSUME KeyInv, [Next]_vars PROVE KeyInv'
  OBVIOUS
<1>1. ASSUME NEW k \in Key, ByKey(k) PROVE KeyInv'
  <2>1. number' = [key |-> k, b |-> IP4_to_number(k)]
    BY <1>1 DEF ByKey
  <2>2. \A j \in 1..11 : k[j] \in 0..127
    <3> DEFINE Ascii == 0..127
    <3>1. k \in Seq(Ascii) /\ Len(k) >= 11
      BY KeyAssumption
    <3> HIDE DEF Ascii
    <3>2. Len(k) \in Nat
      BY <3>1, LenProperties
    <3>3. \A j \in 1..Len(k) : k[j] \in Ascii
      BY <3>1, ElementOfSeq
    <3>4. \A j \in 1..11 : k[j] \in Ascii
      BY <3>1, <3>2, <3>3
    <3> QED
      BY <3>4 DEF Ascii
  <2>3. ASSUME NEW j \in 1..4
        PROVE  /\ AsciiHex[k[3 * j - 2]] \in 0..15
               /\ AsciiHex[k[3 * j - 1]] \in 0..15
    <3>1. 3 * j - 2 \in 1..11 /\ 3 * j - 1 \in 1..11
      OBVIOUS
    <3>2. k[3 * j - 2] \in 0..127 /\ k[3 * j - 1] \in 0..127
      BY <2>2, <3>1
    <3> QED
      BY <3>2, DigitsRead
  <2>4. IP4_to_number(k) =
          [j \in 1..4 |-> AsciiHex[k[3 * j - 2]] * 16 + AsciiHex[k[3 * j - 1]]]
    BY DEF IP4_to_number, Hex2Byte
  <2>5. IP4_to_number(k) \in [1..4 -> 0..255]
    BY <2>3, <2>4
  <2> QED
    BY <2>1, <2>2, <2>4, <2>5 DEF KeyInv
<1>2. ASSUME UNCHANGED number PROVE KeyInv'
  BY <1>2 DEF KeyInv
<1> QED
  BY <1>1, <1>2 DEF Next, vars

(* GeoIP_by_key's number is the one that a key stands for, for every key     *)
(* with digits in either case (GeoAPI.cpp:21-46).                            *)
THEOREM KeysConverted == Spec => []ByKeyRight
<1>1. Init => KeyInv
  BY DEF Init, NoNumber, KeyInv
<1>2. KeyInv => ByKeyRight
  <2> SUFFICES ASSUME KeyInv, NEW j \in 1..4, number.key # <<>>, NEW n \in 0..255,
                      NEW u \in BOOLEAN, NEW v \in BOOLEAN,
                      number.key[3 * j - 2] = Digit(n \div 16, u),
                      number.key[3 * j - 1] = Digit(n % 16, v)
               PROVE  number.b[j] = n
    BY DEF ByKeyRight
  <2>1. n \div 16 \in 0..15 /\ n % 16 \in 0..15 /\ n = (n \div 16) * 16 + (n % 16)
    OBVIOUS
  <2>2. /\ AsciiHex[Digit(n \div 16, u)] = n \div 16
        /\ AsciiHex[Digit(n % 16, v)] = n % 16
    BY <2>1, DigitsRead
  <2>3. number.b[j] = AsciiHex[number.key[3 * j - 2]] * 16 + AsciiHex[number.key[3 * j - 1]]
    BY DEF KeyInv
  <2>4. number.b[j] = (n \div 16) * 16 + (n % 16)
    BY <2>2, <2>3
  <2> QED
    BY <2>1, <2>4
<1> QED
  BY <1>1, <1>2, KeyStep, PTL DEF Spec

-----------------------------------------------------------------------------
(* The tab that a search finds is the next one.                              *)
LEMMA NextTab ==
  ASSUME NEW s, Len(s) \in Nat, NEW from \in Nat
  PROVE  \/ TabFrom(s, from) = npos /\ \A p \in TabsOf(s) : p <= from
         \/ /\ TabFrom(s, from) \in from..(Len(s) - 1)
            /\ TabFrom(s, from) + 1 \in TabsOf(s)
            /\ \A p \in TabsOf(s) : p > from => p >= TabFrom(s, from) + 1
<1> DEFINE at == {p \in from..(Len(s) - 1) : s[p + 1] = Tab}
<1>1. CASE at = {}
  <2>1. TabFrom(s, from) = npos
    BY <1>1 DEF TabFrom
  <2>2. ASSUME NEW p \in TabsOf(s), p > from PROVE FALSE
    <3>1. p - 1 \in from..(Len(s) - 1) /\ s[(p - 1) + 1] = Tab
      BY <2>2 DEF TabsOf
    <3> QED
      BY <1>1, <3>1
  <2> QED
    BY <2>1, <2>2 DEF TabsOf
<1>2. CASE at # {}
  <2>1. at \in SUBSET Nat
    OBVIOUS
  <2>2. \E p \in at : \A q \in at : p <= q
    BY <1>2, <2>1, Least
  <2>3. TabFrom(s, from) = CHOOSE p \in at : \A q \in at : p <= q
    BY <1>2 DEF TabFrom
  <2>4. TabFrom(s, from) \in at /\ \A q \in at : TabFrom(s, from) <= q
    BY <2>2, <2>3
  <2>5. ASSUME NEW p \in TabsOf(s), p > from PROVE p >= TabFrom(s, from) + 1
    <3>1. p - 1 \in from..(Len(s) - 1) /\ s[(p - 1) + 1] = Tab /\ p \in Nat
      BY <2>5 DEF TabsOf
    <3>2. TabFrom(s, from) <= p - 1 /\ TabFrom(s, from) \in Nat
      BY <2>4, <3>1
    <3> QED
      BY <3>1, <3>2
  <2> QED
    BY <2>4, <2>5 DEF TabsOf
<1> QED
  BY <1>1, <1>2

(* Up to the next tab there is one more.                                     *)
LEMMA OneMore ==
  ASSUME NEW n \in Nat, NEW T \in SUBSET (1..n), NEW c \in Nat,
         NEW q \in T, q > c, \A p \in T : p > c => p >= q
  PROVE  Cardinality({p \in T : p <= q}) = Cardinality({p \in T : p <= c}) + 1
<1> DEFINE before == {p \in T : p <= c}
<1>1. {p \in T : p <= q} = before \cup {q} /\ q \notin before
  <2>1. \A p \in T : p \in Nat /\ (p > c => p >= q)
    OBVIOUS
  <2>2. q \in Nat
    OBVIOUS
  <2>3. \A p \in T : p <= q <=> p <= c \/ p = q
    BY <2>1, <2>2
  <2>4. ~(q <= c)
    BY <2>2
  <2> QED
    BY <2>3, <2>4
<1>2. IsFiniteSet(1..n) /\ before \in SUBSET (1..n)
  <2>1. IsFiniteSet(1..n)
    BY FS_Interval
  <2> QED
    BY <2>1
<1>3. IsFiniteSet(before)
  BY <1>2, FS_Subset
<1> HIDE DEF before
<1>4. Cardinality(before \cup {q}) = Cardinality(before) + 1
  BY <1>1, <1>3, FS_AddElement
<1> QED
  BY <1>1, <1>4 DEF before

CutBehind(t) == {p \in TabsOf(t.line) : p <= t.spos + 1}

(* After i turns the search is behind the i-th tab, if there are enough.     *)
TailOK(t) ==
  /\ t = [line |-> t.line, i |-> t.i, spos |-> t.spos]
  /\ t.line \in Seq(Char \cup {Tab})
  /\ t.i \in 0..3 /\ t.spos \in npos..Len(t.line)
  /\ IF t.i = 0 THEN t.spos = 0 ELSE t.spos = npos \/ t.spos + 1 \in TabsOf(t.line)
  /\ Cardinality(TabsOf(t.line)) >= 3 /\ 1 \notin TabsOf(t.line)
       => Cardinality(CutBehind(t)) = t.i

LEMMA NoTabs ==
  ASSUME NEW t, t.i = 0, t.spos = 0, 1 \notin TabsOf(t.line)
  PROVE  Cardinality(CutBehind(t)) = 0
<1>1. \A p \in TabsOf(t.line) : p \in Nat /\ p >= 1 /\ p # 1
  BY DEF TabsOf
<1>2. CutBehind(t) = {}
  BY <1>1 DEF CutBehind
<1> QED
  BY <1>2, FS_EmptySet

TailInv == TailOK(tail)

LEMMA TailInit == Init => TailInv
<1> SUFFICES ASSUME Init PROVE TailOK(tail)
  BY DEF TailInv
<1>1. tail = [line |-> <<>>, i |-> 3, spos |-> -1]
  BY DEF Init, npos
<1>2. Len(<<>>) = 0 /\ <<>> \in Seq(Char \cup {Tab})
  OBVIOUS
<1>3. TabsOf(<<>>) = {}
  BY <1>2 DEF TabsOf
<1>4. Cardinality(TabsOf(<<>>)) = 0
  BY <1>3, FS_EmptySet
<1> QED
  BY <1>1, <1>2, <1>4 DEF TailOK, npos

LEMMA TailTurns ==
  ASSUME TailOK(tail), TabTurn
  PROVE  TailOK(tail')
<1> DEFINE s == tail.line
           tabs == TabsOf(s)
           from == tail.spos + 1
           found == TabFrom(s, from)
<1>1. tail.i \in 0..2 /\ tail.spos \in npos..Len(s) /\ Len(s) \in Nat /\ from \in Nat
  BY DEF TailOK, TabTurn, npos
<1>2. tail' = [line |-> s, i |-> tail.i + 1, spos |-> found]
  BY DEF TailOK, TabTurn
<1>3. \/ found = npos /\ \A p \in tabs : p <= from
      \/ /\ found \in from..(Len(s) - 1) /\ found + 1 \in tabs
         /\ \A p \in tabs : p > from => p >= found + 1
  BY <1>1, NextTab
<1>4. found \in npos..Len(s)
  BY <1>1, <1>3 DEF npos
<1>5. ASSUME Cardinality(tabs) >= 3, 1 \notin tabs
      PROVE  Cardinality({p \in tabs : p <= found + 1}) = tail.i + 1
  <2>1. Cardinality({p \in tabs : p <= from}) = tail.i
    BY <1>5 DEF TailOK, CutBehind
  <2>2. \E p \in tabs : ~(p <= from)
    <3> SUFFICES ASSUME \A p \in tabs : p <= from PROVE FALSE
      OBVIOUS
    <3> DEFINE before == {p \in tabs : p <= from}
    <3>1. before = tabs
      OBVIOUS
    <3>2. Cardinality(before) = tail.i
      BY <2>1
    <3> HIDE DEF before, tabs, from
    <3> QED
      BY <1>1, <1>5, <3>1, <3>2
  <2>3. found \in from..(Len(s) - 1) /\ found + 1 \in tabs
        /\ \A p \in tabs : p > from => p >= found + 1
    BY <1>3, <2>2
  <2>4. tabs \in SUBSET (1..Len(s)) /\ found + 1 > from
    BY <1>1, <2>3 DEF TabsOf
  <2> DEFINE q == found + 1
             n == Len(s)
  <2>5. q \in tabs /\ q > from /\ (\A p \in tabs : p > from => p >= q)
    BY <2>3, <2>4
  <2>6. n \in Nat /\ from \in Nat /\ tabs \in SUBSET (1..n)
    BY <1>1, <2>4
  <2> HIDE DEF q, n, from, tabs
  <2>7. Cardinality({p \in tabs : p <= q}) = Cardinality({p \in tabs : p <= from}) + 1
    BY <2>5, <2>6, OneMore
  <2> QED
    BY <2>1, <2>7 DEF q
<1>6. CutBehind(tail') = {p \in tabs : p <= found + 1} /\ TabsOf(tail'.line) = tabs
  BY <1>2 DEF CutBehind
<1>7. found = npos \/ found + 1 \in tabs
  BY <1>3
<1>8. s \in Seq(Char \cup {Tab})
  BY DEF TailOK
<1> HIDE DEF found, from, tabs, s
<1>9. tail'.i = tail.i + 1 /\ tail'.spos = found /\ tail'.line = s
      /\ tail' = [line |-> tail'.line, i |-> tail'.i, spos |-> tail'.spos]
  BY <1>2
<1>10. Cardinality(tabs) >= 3 /\ 1 \notin tabs => Cardinality(CutBehind(tail')) = tail'.i
  BY <1>5, <1>6, <1>9
<1>11. tail'.i \in 0..3 /\ tail'.i # 0
  BY <1>1, <1>9
<1> QED
  BY <1>4, <1>6, <1>7, <1>8, <1>9, <1>10, <1>11 DEF TailOK

LEMMA TailStep == TailInv /\ [Next]_vars => TailInv'
<1> SUFFICES ASSUME TailOK(tail), [Next]_vars PROVE TailOK(tail')
  BY DEF TailInv
<1>1. ASSUME NEW s \in RouteLine, RouteLineRead(s) PROVE TailOK(tail')
  <2>1. tail' = [line |-> s, i |-> 0, spos |-> 0]
    BY <1>1 DEF RouteLineRead
  <2>2. s \in Seq(Char \cup {Tab}) /\ Len(s) \in Nat
    BY RouteLineAssumption
  <2>3. 1 \notin TabsOf(s) => Cardinality(CutBehind(tail')) = 0
    BY <2>1, NoTabs
  <2> QED
    BY <2>1, <2>2, <2>3 DEF TailOK, npos
<1>2. CASE UNCHANGED tail
  BY <1>2
<1> QED
  BY <1>1, <1>2, TailTurns DEF Next, vars

(* A line with three tabs, none of them its first character, is cut behind   *)
(* the third, and no other line behind its end (GeoAPI.cpp:277-282).         *)
THEOREM LinesCut == Spec => []TailRight
<1>1. TailInv => TailRight
  <2> SUFFICES ASSUME TailOK(tail), tail.i = 3
               PROVE  /\ tail.spos + 1 = 0 \/ tail.spos + 1 \in TabsOf(tail.line)
                      /\ Cardinality(TabsOf(tail.line)) >= 3 /\ 1 \notin TabsOf(tail.line)
                           => Cardinality({p \in TabsOf(tail.line) : p <= tail.spos + 1}) = 3
    BY DEF TailRight, TailInv
  <2> QED
    BY DEF TailOK, CutBehind, npos
<1> QED
  BY <1>1, TailInit, TailStep, PTL DEF Spec

-----------------------------------------------------------------------------
(* There is one first position.                                              *)
LEMMA FirstIs ==
  ASSUME NEW s, NEW chars, NEW from \in Nat, Len(s) \in Nat,
         NEW i \in from..Len(s), s[i] \in chars, \A j \in from..(i-1) : s[j] \notin chars
  PROVE  First(s, chars, from) = i
<1> DEFINE f == First(s, chars, from)
<1>1. f \in from..i /\ s[f] \in chars
  BY FirstFound
<1> HIDE DEF f
<1>2. ~(f \in from..(i-1))
  BY <1>1
<1> QED
  BY <1>1, <1>2 DEF f

Characters == Char \cup {NUL}

(* A string as it was copied, the NUL that ends it, where tokens begin in it  *)
(* and where a token that begins at p ends.                                  *)
Copied(src) == src \o <<NUL, NUL, NUL, NUL, NUL>>
EndOf(src) == First(Copied(src), {NUL}, 1)
Ends(src, p) == First(Copied(src), {Delim, NUL}, p)

Begins(src, mode) ==
  IF mode = "strtok"
  THEN {i \in 1..(EndOf(src) - 1) :
          Copied(src)[i] # Delim /\ (i > 1 => Copied(src)[i-1] = Delim)}
  ELSE {1} \cup {i \in 2..EndOf(src) : Copied(src)[i-1] = Delim}

LEMMA CopiedFacts ==
  ASSUME NEW src \in Seq(Characters)
  PROVE  /\ Copied(src) \in Seq(Characters) /\ Len(src) \in Nat
         /\ Len(Copied(src)) = Len(src) + 5
         /\ \A i \in 1..Len(src) : Copied(src)[i] = src[i]
         /\ \A i \in (Len(src) + 1)..(Len(src) + 5) : Copied(src)[i] = NUL
         /\ \A i \in 1..(Len(src) + 5) : Copied(src)[i] \in Characters
<1> DEFINE five == <<NUL, NUL, NUL, NUL, NUL>>
<1>1. five \in Seq(Characters) /\ Len(five) = 5 /\ \A i \in 1..5 : five[i] = NUL
  BY DEF Characters
<1>2. Len(src) \in Nat
  BY LenProperties
<1> HIDE DEF five
<1>3. /\ src \o five \in Seq(Characters) /\ Len(src \o five) = Len(src) + 5
      /\ \A i \in 1..(Len(src) + 5) :
           (src \o five)[i] = IF i <= Len(src) THEN src[i] ELSE five[i - Len(src)]
  <2>1. /\ src \o five \in Seq(Characters) /\ Len(src \o five) = Len(src) + Len(five)
        /\ \A i \in 1..(Len(src) + Len(five)) :
             (src \o five)[i] = IF i <= Len(src) THEN src[i] ELSE five[i - Len(src)]
    BY <1>1, ConcatProperties
  <2> QED
    BY <1>1, <2>1
<1>4. Copied(src) = src \o five
  BY DEF Copied, five
<1>5. \A i \in 1..Len(src) : Copied(src)[i] = src[i]
  BY <1>2, <1>3, <1>4
<1>6. \A i \in (Len(src) + 1)..(Len(src) + 5) : Copied(src)[i] = NUL
  <2> SUFFICES ASSUME NEW i \in (Len(src) + 1)..(Len(src) + 5) PROVE Copied(src)[i] = NUL
    OBVIOUS
  <2>1. i \in 1..(Len(src) + 5) /\ ~(i <= Len(src)) /\ i - Len(src) \in 1..5
    BY <1>2
  <2> QED
    BY <1>1, <1>3, <1>4, <2>1
<1>7. \A i \in 1..(Len(src) + 5) : Copied(src)[i] \in Characters
  BY <1>3, <1>4, ElementOfSeq
<1> QED
  BY <1>2, <1>3, <1>4, <1>5, <1>6, <1>7

LEMMA EndFacts ==
  ASSUME NEW src \in Seq(Characters)
  PROVE  /\ EndOf(src) \in 1..(Len(src) + 1)
         /\ Copied(src)[EndOf(src)] = NUL
         /\ \A i \in 1..(EndOf(src) - 1) : Copied(src)[i] \in Char
<1> DEFINE g == Copied(src)
           n == Len(src)
<1>1. n \in Nat /\ Len(g) = n + 5 /\ g[n + 1] = NUL
      /\ \A i \in 1..(n + 5) : g[i] \in Characters
  <2>1. n \in Nat /\ Len(g) = n + 5 /\ \A i \in 1..(n + 5) : g[i] \in Characters
    BY CopiedFacts
  <2>2. g[n + 1] = NUL
    <3>1. n + 1 \in (Len(src) + 1)..(Len(src) + 5)
      BY <2>1
    <3> QED
      BY <3>1, CopiedFacts
  <2> QED
    BY <2>1, <2>2
<1> HIDE DEF g, n
<1>2. /\ First(g, {NUL}, 1) \in 1..(n + 1)
      /\ g[First(g, {NUL}, 1)] \in {NUL}
      /\ \A j \in 1..(First(g, {NUL}, 1) - 1) : g[j] \notin {NUL}
  <2>1. n + 1 \in 1..Len(g) /\ g[n + 1] \in {NUL} /\ Len(g) \in Nat /\ 1 \in Nat
    BY <1>1
  <2> QED
    BY <2>1, FirstFound
<1>3. EndOf(src) = First(g, {NUL}, 1)
  BY DEF EndOf, g
<1>4. \A i \in 1..(EndOf(src) - 1) : g[i] \in Char
  <2> SUFFICES ASSUME NEW i \in 1..(EndOf(src) - 1) PROVE g[i] \in Char
    OBVIOUS
  <2>1. i \in 1..(n + 5)
    BY <1>1, <1>2, <1>3
  <2>2. g[i] \notin {NUL}
    BY <1>2, <1>3
  <2> QED
    BY <1>1, <2>1, <2>2 DEF Characters
<1> QED
  BY <1>2, <1>3, <1>4 DEF g, n

LEMMA EndsFacts ==
  ASSUME NEW src \in Seq(Characters), NEW p \in 1..EndOf(src)
  PROVE  /\ Ends(src, p) \in p..EndOf(src)
         /\ Copied(src)[Ends(src, p)] \in {Delim, NUL}
         /\ \A j \in p..(Ends(src, p) - 1) : Copied(src)[j] \notin {Delim, NUL}
<1> DEFINE g == Copied(src)
           e == EndOf(src)
<1>1. e \in 1..(Len(src) + 1) /\ Len(src) \in Nat /\ Len(g) = Len(src) + 5 /\ g[e] = NUL
  BY CopiedFacts, EndFacts
<1>2. p \in Nat /\ e \in p..Len(g) /\ g[e] \in {Delim, NUL} /\ Len(g) \in Nat
  BY <1>1
<1> HIDE DEF g, e
<1>3. /\ First(g, {Delim, NUL}, p) \in p..e
      /\ g[First(g, {Delim, NUL}, p)] \in {Delim, NUL}
      /\ \A j \in p..(First(g, {Delim, NUL}, p) - 1) : g[j] \notin {Delim, NUL}
  BY <1>2, FirstFound
<1> QED
  BY <1>3 DEF Ends, g, e

-----------------------------------------------------------------------------
Firsts(arr) == {arr[i] + 1 : i \in 1..Len(arr)}

Increasing(arr) == \A i, j \in 1..Len(arr) : i < j => arr[i] < arr[j]

Limit(mode, at) == IF mode = "strtok" THEN at ELSE at + 1

(* Half way through a string: before `at' delimiters may have become NULs,   *)
(* and those behind the tokens that were found have; the tokens found are    *)
(* those that begin before `at', and with strchr also the one that begins    *)
(* there. *)
Scan(src, mode, at, arr, s) ==
  /\ src \in Seq(Characters)
  /\ s \in Seq(Characters) /\ Len(s) = Len(src) + 5
  /\ \A i \in 1..Len(s) :
       \/ s[i] = Copied(src)[i]
       \/ i < at /\ Copied(src)[i] = Delim /\ s[i] = NUL
  /\ at \in 1..EndOf(src)
  /\ \/ at = 1
     \/ Copied(src)[at - 1] = Delim
     \/ mode = "strtok" /\ at = EndOf(src)
  /\ arr \in Seq(Nat) /\ Increasing(arr)
  /\ Firsts(arr) = {p \in Begins(src, mode) : p < Limit(mode, at)}
  /\ \A p \in Firsts(arr) : p < at => s[Ends(src, p)] = NUL

(* What is left once the loop has ended.                                     *)
Scanned(src, mode, at) ==
  \A i \in at..(EndOf(src) - 1) :
    IF mode = "strtok" THEN Copied(src)[i] = Delim ELSE Copied(src)[i] # Delim

LEMMA Appended ==
  ASSUME NEW arr \in Seq(Nat), Increasing(arr), NEW n \in Nat,
         \A i \in 1..Len(arr) : arr[i] < n
  PROVE  /\ Append(arr, n) \in Seq(Nat) /\ Increasing(Append(arr, n))
         /\ Firsts(Append(arr, n)) = Firsts(arr) \cup {n + 1}
<1> DEFINE new == Append(arr, n)
           k == Len(arr)
<1>1. /\ new \in Seq(Nat) /\ Len(new) = k + 1 /\ k \in Nat
      /\ \A i \in 1..k : new[i] = arr[i]
      /\ new[k + 1] = n
  <2>1. k \in Nat
    BY LenProperties
  <2> QED
    BY <2>1, AppendProperties
<1>2. \A i \in 1..(k + 1) : i \in 1..k \/ i = k + 1
  BY <1>1
<1> HIDE DEF new
<1>3. Increasing(new)
  <2> SUFFICES ASSUME NEW i \in 1..(k + 1), NEW j \in 1..(k + 1), i < j PROVE new[i] < new[j]
    BY <1>1 DEF Increasing
  <2>1. i \in 1..k
    BY <1>1
  <2>2. CASE j \in 1..k
    BY <1>1, <2>1, <2>2 DEF Increasing
  <2>3. CASE j = k + 1
    BY <1>1, <2>1, <2>3
  <2> QED
    BY <1>2, <2>2, <2>3
<1>4. Firsts(new) = Firsts(arr) \cup {n + 1}
  <2>1. \A x \in Firsts(new) : x \in Firsts(arr) \cup {n + 1}
    BY <1>1, <1>2 DEF Firsts
  <2>2. \A x \in Firsts(arr) : x \in Firsts(new)
    BY <1>1 DEF Firsts
  <2>3. n + 1 \in Firsts(new)
    <3>1. k + 1 \in 1..Len(new)
      BY <1>1
    <3> QED
      BY <1>1, <3>1 DEF Firsts
  <2> QED
    BY <2>1, <2>2, <2>3
<1> QED
  BY <1>1, <1>3, <1>4 DEF new

LEMMA ScanFacts ==
  ASSUME NEW src, NEW mode, NEW at, NEW arr, NEW s, Scan(src, mode, at, arr, s)
  PROVE  /\ EndOf(src) \in 1..(Len(src) + 1) /\ Len(src) \in Nat /\ Len(s) \in Nat
         /\ at \in Nat /\ at >= 1 /\ EndOf(src) \in at..Len(s)
         /\ \A i \in at..Len(s) : s[i] = Copied(src)[i]
         /\ s[EndOf(src)] = NUL
         /\ \A i \in 1..(EndOf(src) - 1) : Copied(src)[i] \in Char /\ Copied(src)[i] # NUL
<1>1. /\ EndOf(src) \in 1..(Len(src) + 1) /\ Len(src) \in Nat
      /\ Copied(src)[EndOf(src)] = NUL
      /\ \A i \in 1..(EndOf(src) - 1) : Copied(src)[i] \in Char
  BY CopiedFacts, EndFacts DEF Scan
<1>2. at \in 1..EndOf(src) /\ Len(s) = Len(src) + 5
  BY DEF Scan
<1>3. \A i \in at..Len(s) : s[i] = Copied(src)[i]
  <2> SUFFICES ASSUME NEW i \in at..Len(s) PROVE s[i] = Copied(src)[i]
    OBVIOUS
  <2>1. i \in 1..Len(s) /\ ~(i < at)
    BY <1>1, <1>2
  <2> QED
    BY <2>1 DEF Scan
<1>4. EndOf(src) \in at..Len(s)
  BY <1>1, <1>2
<1> QED
  BY <1>1, <1>2, <1>3, <1>4, CharAssumption

(* A turn of IntTokenize_Chr's loop.                                         *)
LEMMA ChrScans ==
  ASSUME NEW src, NEW at, NEW arr, NEW s, Scan(src, "strchr", at, arr, s),
         NEW end, end = First(s, {Delim, NUL}, at)
  PROVE  /\ end \in 1..Len(s)
         /\ s[end] = NUL => Scanned(src, "strchr", at)
         /\ s[end] # NUL => Scan(src, "strchr", end + 1, Append(arr, end), [s EXCEPT ![end] = NUL])
<1> DEFINE g == Copied(src)
           e == EndOf(src)
           seen == [s EXCEPT ![end] = NUL]
<1>1. /\ e \in 1..(Len(src) + 1) /\ Len(src) \in Nat /\ Len(s) \in Nat
      /\ at \in Nat /\ at >= 1 /\ e \in at..Len(s)
      /\ \A i \in at..Len(s) : s[i] = g[i]
      /\ s[e] = NUL
      /\ \A i \in 1..(e - 1) : g[i] \in Char /\ g[i] # NUL
  BY ScanFacts
<1>2. /\ src \in Seq(Characters) /\ s \in Seq(Characters) /\ Len(s) = Len(src) + 5
      /\ \A i \in 1..Len(s) : s[i] = g[i] \/ (i < at /\ g[i] = Delim /\ s[i] = NUL)
      /\ arr \in Seq(Nat) /\ Increasing(arr)
      /\ Firsts(arr) = {p \in Begins(src, "strchr") : p < at + 1}
      /\ \A p \in Firsts(arr) : p < at => s[Ends(src, p)] = NUL
  BY DEF Scan, Limit
<1>3. /\ end \in at..e /\ s[end] \in {Delim, NUL}
      /\ \A j \in at..(end - 1) : s[j] \notin {Delim, NUL}
  BY <1>1, FirstFound
<1> HIDE DEF g, e
<1>4. end \in 1..Len(s) /\ s[end] = g[end] /\ end \in Nat
  BY <1>1, <1>3
<1>5. \A j \in at..(end - 1) : g[j] # Delim
  <2> SUFFICES ASSUME NEW j \in at..(end - 1) PROVE g[j] # Delim
    OBVIOUS
  <2>1. j \in at..Len(s)
    BY <1>1, <1>3
  <2>2. s[j] \notin {Delim, NUL}
    BY <1>3
  <2> QED
    BY <1>1, <2>1, <2>2
<1>6. ASSUME s[end] = NUL PROVE Scanned(src, "strchr", at)
  <2>1. end = e
    <3>1. ~(end \in 1..(e - 1))
      BY <1>1, <1>4, <1>6
    <3> QED
      BY <1>1, <1>3, <3>1
  <2> QED
    BY <1>5, <2>1 DEF Scanned, g, e
<1>7. ASSUME s[end] # NUL
      PROVE  Scan(src, "strchr", end + 1, Append(arr, end), seen)
  <2>1. g[end] = Delim /\ end # e
    BY <1>1, <1>3, <1>4, <1>7
  <2>2. end + 1 \in 1..e
    BY <1>1, <1>3, <2>1
  <2>3. /\ seen \in Seq(Characters) /\ Len(seen) = Len(s)
        /\ \A i \in 1..Len(s) : seen[i] = IF i = end THEN NUL ELSE s[i]
    <3>1. NUL \in Characters
      BY DEF Characters
    <3> QED
      BY <1>2, <1>4, <3>1, ExceptSeq
  <2> HIDE DEF seen
  <2>4. \A i \in 1..Len(s) :
          seen[i] = g[i] \/ (i < end + 1 /\ g[i] = Delim /\ seen[i] = NUL)
    <3> SUFFICES ASSUME NEW i \in 1..Len(s)
                 PROVE  seen[i] = g[i] \/ (i < end + 1 /\ g[i] = Delim /\ seen[i] = NUL)
      OBVIOUS
    <3>1. CASE i = end
      BY <1>4, <2>1, <2>3, <3>1
    <3>2. CASE i # end
      <4>1. seen[i] = s[i]
        BY <2>3, <3>2
      <4>2. i < at => i < end + 1
        BY <1>1, <1>3
      <4> QED
        BY <1>2, <4>1, <4>2
    <3> QED
      BY <3>1, <3>2
  <2>5. \A i \in 1..Len(arr) : arr[i] < end
    <3> SUFFICES ASSUME NEW i \in 1..Len(arr) PROVE arr[i] < end
      OBVIOUS
    <3>1. arr[i] + 1 \in Firsts(arr) /\ arr[i] \in Nat
      BY <1>2, ElementOfSeq DEF Firsts
    <3>2. arr[i] + 1 < at + 1
      BY <1>2, <3>1
    <3> QED
      BY <1>1, <1>3, <3>1, <3>2
  <2>6. /\ Append(arr, end) \in Seq(Nat) /\ Increasing(Append(arr, end))
        /\ Firsts(Append(arr, end)) = Firsts(arr) \cup {end + 1}
    BY <1>2, <1>4, <2>5, Appended
  <2>7. Firsts(Append(arr, end)) = {p \in Begins(src, "strchr") : p < (end + 1) + 1}
    <3>1. Begins(src, "strchr") = {1} \cup {i \in 2..e : g[i-1] = Delim}
      BY DEF Begins, g, e
    <3>2. ASSUME NEW p \in Begins(src, "strchr"), p < (end + 1) + 1, ~(p < at + 1)
          PROVE  p = end + 1
      <4>1. p \in 2..e /\ g[p-1] = Delim
        BY <1>1, <3>1, <3>2
      <4>2. ~(p - 1 \in at..(end - 1))
        BY <1>5, <4>1
      <4> QED
        BY <1>1, <1>3, <3>2, <4>1, <4>2
    <3>3. end + 1 \in Begins(src, "strchr")
      <4>1. end + 1 \in 2..e /\ (end + 1) - 1 = end
        BY <1>4, <2>2
      <4> QED
        BY <2>1, <3>1, <4>1
    <3>4. \A p \in Begins(src, "strchr") : p < at + 1 => p < (end + 1) + 1
      <4>1. \A p \in Begins(src, "strchr") : p \in Nat
        BY <3>1
      <4> QED
        BY <1>1, <1>3, <4>1
    <3>5. end + 1 < (end + 1) + 1
      BY <1>4
    <3>6. ASSUME NEW p \in Begins(src, "strchr")
          PROVE  p < (end + 1) + 1 <=> p < at + 1 \/ p = end + 1
      BY <3>2, <3>4, <3>5
    <3> QED
      BY <1>2, <2>6, <3>3, <3>6
  <2>8. \A p \in Firsts(Append(arr, end)) : p < end + 1 => seen[Ends(src, p)] = NUL
    <3> SUFFICES ASSUME NEW p \in Firsts(arr) PROVE seen[Ends(src, p)] = NUL
      <4>1. ~(end + 1 < end + 1)
        BY <1>4
      <4>2. \A p \in Firsts(Append(arr, end)) : p < end + 1 => p \in Firsts(arr)
        BY <2>6, <4>1
      <4> QED
        BY <4>2
    <3>1. p \in 1..e /\ p <= at
      <4>1. p \in Begins(src, "strchr") /\ p < at + 1
        BY <1>2
      <4> QED
        BY <1>1, <4>1 DEF Begins, e
    <3>2. Ends(src, p) \in 1..Len(s)
      <4>1. Ends(src, p) \in p..e
        BY <1>2, <3>1, EndsFacts DEF e
      <4> QED
        BY <1>1, <3>1, <4>1
    <3>3. CASE p < at
      BY <1>2, <2>3, <3>2, <3>3
    <3>4. CASE p = at
      <4>1. Ends(src, p) = end
        <5>1. \A j \in at..(end - 1) : g[j] \notin {Delim, NUL}
          <6>1. \A j \in at..(end - 1) : j \in 1..(e - 1)
            BY <1>1, <1>3
          <6> QED
            BY <1>1, <1>5, <6>1
        <5>2. Len(g) = Len(s)
          BY <1>2, CopiedFacts DEF g
        <5>3. end \in at..Len(g) /\ g[end] \in {Delim, NUL} /\ Len(g) \in Nat
          BY <1>1, <1>3, <1>4, <5>2
        <5> QED
          BY <1>1, <3>4, <5>1, <5>3, FirstIs DEF Ends, g
      <4> QED
        BY <1>4, <2>3, <4>1
    <3> QED
      BY <1>1, <3>1, <3>3, <3>4
  <2>10. (end + 1) - 1 = end
    BY <1>4
  <2>11. Limit("strchr", end + 1) = (end + 1) + 1
    BY DEF Limit
  <2>12. Len(seen) = Len(src) + 5 /\ g[(end + 1) - 1] = Delim
    BY <1>2, <2>1, <2>3, <2>10
  <2> QED
    BY <1>2, <2>2, <2>3, <2>4, <2>6, <2>7, <2>8, <2>11, <2>12 DEF Scan, g, e
<1> QED
  BY <1>4, <1>6, <1>7

(* A turn of IntTokenize's loop.                                             *)
LEMMA TokScans ==
  ASSUME NEW src, NEW at, NEW arr, NEW s, Scan(src, "strtok", at, arr, s),
         NEW start, start = First(s, Characters \ {Delim}, at),
         NEW end, end = First(s, {Delim, NUL}, start)
  PROVE  /\ end \in 1..Len(s)
         /\ s[start] = NUL => Scanned(src, "strtok", at)
         /\ s[start] # NUL =>
              Scan(src, "strtok", IF s[end] = NUL THEN end ELSE end + 1,
                   Append(arr, start - 1), [s EXCEPT ![end] = NUL])
<1> DEFINE g == Copied(src)
           e == EndOf(src)
           seen == [s EXCEPT ![end] = NUL]
           next == IF s[end] = NUL THEN end ELSE end + 1
<1>1. /\ e \in 1..(Len(src) + 1) /\ Len(src) \in Nat /\ Len(s) \in Nat
      /\ at \in Nat /\ at >= 1 /\ e \in at..Len(s)
      /\ \A i \in at..Len(s) : s[i] = g[i]
      /\ s[e] = NUL
      /\ \A i \in 1..(e - 1) : g[i] \in Char /\ g[i] # NUL
  BY ScanFacts
<1>2. /\ src \in Seq(Characters) /\ s \in Seq(Characters) /\ Len(s) = Len(src) + 5
      /\ \A i \in 1..Len(s) : s[i] = g[i] \/ (i < at /\ g[i] = Delim /\ s[i] = NUL)
      /\ arr \in Seq(Nat) /\ Increasing(arr)
      /\ Firsts(arr) = {p \in Begins(src, "strtok") : p < at}
      /\ \A p \in Firsts(arr) : p < at => s[Ends(src, p)] = NUL
  BY DEF Scan, Limit
<1>3. /\ start \in at..e /\ s[start] \in Characters \ {Delim}
      /\ \A j \in at..(start - 1) : s[j] \notin Characters \ {Delim}
  <2>1. s[e] \in Characters \ {Delim}
    BY <1>1, CharAssumption DEF Characters
  <2> QED
    BY <1>1, <2>1, FirstFound
<1>4. /\ end \in start..e /\ s[end] \in {Delim, NUL}
      /\ \A j \in start..(end - 1) : s[j] \notin {Delim, NUL}
  <2>1. start \in Nat /\ e \in start..Len(s) /\ s[e] \in {Delim, NUL}
    BY <1>1, <1>3
  <2> QED
    BY <1>1, <2>1, FirstFound
<1> HIDE DEF g, e
<1>5. /\ start \in Nat /\ start >= at /\ end \in Nat /\ end >= start /\ end <= e /\ e <= Len(s)
      /\ e \in Nat /\ end \in 1..Len(s)
  BY <1>1, <1>3, <1>4
<1>6. s[start] = g[start] /\ s[end] = g[end]
  <2>1. start \in at..Len(s) /\ end \in at..Len(s)
    BY <1>1, <1>5
  <2> QED
    BY <1>1, <2>1
<1>7. \A j \in at..(start - 1) : g[j] = Delim
  <2> SUFFICES ASSUME NEW j \in at..(start - 1) PROVE g[j] = Delim
    OBVIOUS
  <2>1. j \in at..Len(s) /\ j \in 1..Len(s)
    BY <1>1, <1>5
  <2>2. s[j] \in Characters
    BY <1>2, <2>1, ElementOfSeq
  <2>3. s[j] = g[j]
    BY <1>1, <2>1
  <2> QED
    BY <1>3, <2>2, <2>3
<1>8. ASSUME s[start] = NUL PROVE Scanned(src, "strtok", at)
  <2>1. ~(start \in 1..(e - 1))
    BY <1>1, <1>6, <1>8
  <2>2. start = e
    BY <1>1, <1>5, <2>1
  <2> QED
    BY <1>7, <2>2 DEF Scanned, g, e
<1>9. ASSUME s[start] # NUL
      PROVE  Scan(src, "strtok", next, Append(arr, start - 1), seen)
  <2>1. start < e /\ g[start] # Delim /\ start < end
    <3>1. start # e
      BY <1>1, <1>9
    <3>2. g[start] # Delim
      BY <1>3, <1>6
    <3>3. start # end
      BY <1>4, <1>9, <1>6, <3>2
    <3> QED
      BY <1>5, <3>1, <3>2, <3>3
  <2>2. \A j \in start..(end - 1) : g[j] \notin {Delim, NUL}
    <3> SUFFICES ASSUME NEW j \in start..(end - 1) PROVE g[j] \notin {Delim, NUL}
      OBVIOUS
    <3>1. j \in at..Len(s)
      BY <1>1, <1>5
    <3>2. s[j] = g[j]
      BY <1>1, <3>1
    <3> QED
      BY <1>4, <3>2
  <2>3. /\ next \in 1..e /\ next > start /\ next >= end /\ next <= end + 1
        /\ g[next - 1] = Delim \/ next = e
    <3>1. CASE s[end] = NUL
      <4>1. ~(end \in 1..(e - 1))
        BY <1>1, <1>6, <3>1
      <4>2. end = e /\ next = end
        BY <1>5, <3>1, <4>1
      <4> QED
        BY <1>5, <2>1, <4>2
    <3>2. CASE s[end] # NUL
      <4>1. g[end] = Delim /\ end # e
        BY <1>1, <1>4, <1>6, <3>2
      <4>2. next = end + 1 /\ next - 1 = end
        BY <1>5, <3>2
      <4> QED
        BY <1>5, <2>1, <4>1, <4>2
    <3> QED
      BY <3>1, <3>2
  <2>4. s[end] # NUL => g[end] = Delim /\ end < next
    BY <1>4, <1>5, <1>6
  <2>5. s[end] = NUL => next = end /\ g[end] = NUL
    BY <1>6
  <2>6. /\ seen \in Seq(Characters) /\ Len(seen) = Len(s)
        /\ \A i \in 1..Len(s) : seen[i] = IF i = end THEN NUL ELSE s[i]
    <3>1. NUL \in Characters
      BY DEF Characters
    <3> QED
      BY <1>2, <1>5, <3>1, ExceptSeq
  <2> HIDE DEF seen, next
  <2>7. \A i \in 1..Len(s) : seen[i] = g[i] \/ (i < next /\ g[i] = Delim /\ seen[i] = NUL)
    <3> SUFFICES ASSUME NEW i \in 1..Len(s)
                 PROVE  seen[i] = g[i] \/ (i < next /\ g[i] = Delim /\ seen[i] = NUL)
      OBVIOUS
    <3>1. CASE i = end
      BY <2>4, <2>5, <2>6, <3>1
    <3>2. CASE i # end
      <4>1. seen[i] = s[i]
        BY <2>6, <3>2
      <4>2. i < at => i < next
        BY <1>1, <1>5, <2>3
      <4> QED
        BY <1>2, <4>1, <4>2
    <3> QED
      BY <3>1, <3>2
  <2>8. \A i \in 1..Len(arr) : arr[i] < start - 1
    <3> SUFFICES ASSUME NEW i \in 1..Len(arr) PROVE arr[i] < start - 1
      OBVIOUS
    <3>1. arr[i] + 1 \in Firsts(arr) /\ arr[i] \in Nat
      BY <1>2, ElementOfSeq DEF Firsts
    <3>2. arr[i] + 1 < at
      BY <1>2, <3>1
    <3> QED
      BY <1>1, <1>5, <3>1, <3>2
  <2>9. /\ Append(arr, start - 1) \in Seq(Nat) /\ Increasing(Append(arr, start - 1))
        /\ Firsts(Append(arr, start - 1)) = Firsts(arr) \cup {start}
    <3>1. start - 1 \in Nat /\ (start - 1) + 1 = start
      BY <1>1, <1>5
    <3> QED
      BY <1>2, <2>8, <3>1, Appended
  <2>10. Firsts(Append(arr, start - 1)) = {p \in Begins(src, "strtok") : p < next}
    <3>1. Begins(src, "strtok") =
            {i \in 1..(e - 1) : g[i] # Delim /\ (i > 1 => g[i-1] = Delim)}
      BY DEF Begins, g, e
    <3>2. start \in Begins(src, "strtok")
      <4>1. start \in 1..(e - 1)
        BY <1>1, <1>5, <2>1
      <4>2. CASE start = at
        <5>1. at = 1 \/ g[at - 1] = Delim \/ at = e
          BY DEF Scan, g, e
        <5> QED
          BY <2>1, <3>1, <4>1, <4>2, <5>1
      <4>3. CASE start # at
        <5>1. start - 1 \in at..(start - 1)
          BY <1>1, <1>5, <4>3
        <5> QED
          BY <1>7, <2>1, <3>1, <4>1, <5>1
      <4> QED
        BY <4>2, <4>3
    <3>3. ASSUME NEW p \in Begins(src, "strtok"), p < next, ~(p < at)
          PROVE  p = start
      <4>1. p \in 1..(e - 1) /\ g[p] # Delim /\ (p > 1 => g[p-1] = Delim)
        BY <3>1
      <4>2. ~(p \in at..(start - 1))
        BY <1>7, <4>1
      <4>3. p >= start
        BY <1>1, <1>5, <3>3, <4>1, <4>2
      <4>4. ~(p \in (start + 1)..end)
        <5> SUFFICES ASSUME p \in (start + 1)..end PROVE FALSE
          OBVIOUS
        <5>1. p - 1 \in start..(end - 1) /\ p > 1
          BY <1>1, <1>5
        <5> QED
          BY <2>2, <4>1, <5>1
      <4>5. p <= end
        BY <1>5, <2>3, <3>3, <4>1
      <4> QED
        BY <1>5, <4>1, <4>3, <4>4, <4>5
    <3>4. \A p \in Begins(src, "strtok") : p < at => p < next
      <4>1. \A p \in Begins(src, "strtok") : p \in Nat
        BY <3>1
      <4> QED
        BY <1>1, <1>5, <2>3, <4>1
    <3>5. start < next
      BY <2>3
    <3>6. ASSUME NEW p \in Begins(src, "strtok")
          PROVE  p < next <=> p < at \/ p = start
      BY <3>3, <3>4, <3>5
    <3> QED
      BY <1>2, <2>9, <3>2, <3>6
  <2>11. \A p \in Firsts(Append(arr, start - 1)) : seen[Ends(src, p)] = NUL
    <3>1. ASSUME NEW p \in Firsts(arr) PROVE seen[Ends(src, p)] = NUL
      <4>1. p \in 1..e /\ p < at
        <5>1. p \in Begins(src, "strtok") /\ p < at
          BY <1>2, <3>1
        <5> QED
          BY <1>1, <5>1 DEF Begins, e
      <4>2. Ends(src, p) \in p..e
        BY <1>2, <4>1, EndsFacts DEF e
      <4>3. Ends(src, p) \in 1..Len(s)
        BY <1>5, <4>1, <4>2
      <4> QED
        BY <1>2, <2>6, <3>1, <4>1, <4>3
    <3>2. Ends(src, start) = end
      <4>1. Len(g) = Len(s)
        BY <1>2, CopiedFacts DEF g
      <4>2. end \in start..Len(g) /\ g[end] \in {Delim, NUL} /\ Len(g) \in Nat
        BY <1>1, <1>4, <1>5, <1>6, <4>1
      <4> QED
        BY <1>5, <2>2, <4>2, FirstIs DEF Ends, g
    <3>3. seen[end] = NUL
      BY <1>5, <2>6
    <3> QED
      BY <2>9, <3>1, <3>2, <3>3
  <2>12. Limit("strtok", next) = next
    BY DEF Limit
  <2>13. Len(seen) = Len(src) + 5
    BY <1>2, <2>6
  <2> QED
    BY <1>2, <2>3, <2>6, <2>7, <2>9, <2>10, <2>11, <2>12, <2>13 DEF Scan, g, e
<1> QED
  BY <1>5, <1>8, <1>9

-----------------------------------------------------------------------------
(* A C string is what comes before the first NUL.                            *)
LEMMA WholeFacts ==
  ASSUME NEW src \in Seq(Characters)
  PROVE  /\ Whole(src) \in Seq(Characters) /\ Len(Whole(src)) = EndOf(src) - 1
         /\ \A i \in 1..(EndOf(src) - 1) : Whole(src)[i] = Copied(src)[i]
<1> DEFINE g == Copied(src)
           e == EndOf(src)
           a == Append(src, NUL)
           n == Len(src)
<1>1. /\ n \in Nat /\ e \in 1..(n + 1) /\ g[e] = NUL
      /\ \A i \in 1..n : g[i] = src[i]
      /\ \A i \in 1..(e - 1) : g[i] \in Char
  BY CopiedFacts, EndFacts
<1>2. g[n + 1] = NUL
  <2>1. n + 1 \in (Len(src) + 1)..(Len(src) + 5)
    BY <1>1
  <2> QED
    BY <2>1, CopiedFacts
<1>3. NUL \in Characters
  BY DEF Characters
<1> HIDE DEF g, e
<1>4. /\ a \in Seq(Characters) /\ Len(a) = n + 1
      /\ \A i \in 1..n : a[i] = src[i]
      /\ a[n + 1] = NUL
  BY <1>1, <1>3, AppendProperties
<1>5. \A i \in 1..(n + 1) : a[i] = g[i]
  <2> SUFFICES ASSUME NEW i \in 1..(n + 1) PROVE a[i] = g[i]
    OBVIOUS
  <2>1. i \in 1..n \/ i = n + 1
    BY <1>1
  <2> QED
    BY <1>1, <1>2, <1>4, <2>1
<1> HIDE DEF a, n
<1>6. First(a, {NUL}, 1) = e
  <2>1. e \in 1..Len(a) /\ a[e] \in {NUL} /\ Len(a) \in Nat /\ 1 \in Nat
    BY <1>1, <1>4, <1>5
  <2>2. \A j \in 1..(e - 1) : a[j] \notin {NUL}
    <3> SUFFICES ASSUME NEW j \in 1..(e - 1) PROVE a[j] # NUL
      OBVIOUS
    <3>1. j \in 1..(n + 1) /\ g[j] \in Char
      BY <1>1
    <3> QED
      BY <1>5, <3>1, CharAssumption
  <2> QED
    BY <2>1, <2>2, FirstIs
<1>7. Whole(src) = SubSeq(a, 1, e - 1)
  BY <1>6 DEF Whole, CString, a
<1>8. \A i \in 1..(e - 1) : a[i] \in Characters /\ a[i] = g[i]
  <2> SUFFICES ASSUME NEW i \in 1..(e - 1) PROVE a[i] \in Characters /\ a[i] = g[i]
    OBVIOUS
  <2>1. i \in 1..(n + 1) /\ i \in 1..Len(a)
    BY <1>1, <1>4
  <2> QED
    BY <1>4, <1>5, <2>1, ElementOfSeq
<1>9. /\ SubSeq(a, 1, e - 1) \in Seq(Characters)
      /\ Len(SubSeq(a, 1, e - 1)) = e - 1
      /\ \A i \in 1..(e - 1) : SubSeq(a, 1, e - 1)[i] = a[i]
  <2>1. 1 \in Int /\ e - 1 \in Int /\ e - 1 \in Nat
    BY <1>1
  <2>2. /\ SubSeq(a, 1, e - 1) \in Seq(Characters)
        /\ Len(SubSeq(a, 1, e - 1)) = IF 1 <= e - 1 THEN (e - 1) - 1 + 1 ELSE 0
        /\ \A i \in 1..((e - 1) - 1 + 1) : SubSeq(a, 1, e - 1)[i] = a[1 + i - 1]
    BY <1>8, <2>1, SubSeqProperties
  <2>3. (e - 1) - 1 + 1 = e - 1 /\ (~(1 <= e - 1) => e - 1 = 0)
    <3>1. \A k \in Nat : k - 1 + 1 = k /\ (~(1 <= k) => k = 0)
      OBVIOUS
    <3> QED
      BY <2>1, <3>1
  <2>4. \A i \in 1..(e - 1) : 1 + i - 1 = i
    OBVIOUS
  <2> QED
    BY <2>2, <2>3, <2>4
<1> QED
  BY <1>7, <1>8, <1>9 DEF g, e

(* A constructor has found nothing yet; strchr's first token begins at once. *)
LEMMA ConstructScans ==
  ASSUME NEW src \in Seq(Characters), NEW mode \in {"strtok", "strchr"}
  PROVE  Scan(src, mode, 1, IF mode = "strchr" THEN <<0>> ELSE <<>>, Copied(src))
<1> DEFINE arr == IF mode = "strchr" THEN <<0>> ELSE <<>>
<1>1. /\ Copied(src) \in Seq(Characters) /\ Len(Copied(src)) = Len(src) + 5
      /\ 1 \in 1..EndOf(src)
  BY CopiedFacts, EndFacts
<1>2. arr \in Seq(Nat) /\ Increasing(arr)
  BY DEF Increasing
<1>3. Firsts(arr) = {p \in Begins(src, mode) : p < Limit(mode, 1)}
  <2>1. CASE mode = "strtok"
    <3>1. Firsts(arr) = {}
      BY <2>1 DEF Firsts
    <3>2. \A p \in Begins(src, mode) : ~(p < Limit(mode, 1))
      BY <2>1, <1>1 DEF Begins, Limit
    <3> QED
      BY <3>1, <3>2
  <2>2. CASE mode = "strchr"
    <3>1. Firsts(arr) = {1}
      BY <2>2 DEF Firsts
    <3>2. \A p \in Begins(src, mode) : p < Limit(mode, 1) <=> p = 1
      BY <1>1, <2>2 DEF Begins, Limit
    <3>3. 1 \in Begins(src, mode)
      BY <2>2 DEF Begins
    <3> QED
      BY <3>1, <3>2, <3>3
  <2> QED
    BY <2>1, <2>2
<1>4. \A p \in Firsts(arr) : ~(p < 1)
  BY DEF Firsts
<1> QED
  BY <1>1, <1>2, <1>3, <1>4 DEF Scan

(* A copy has the same characters: behind the size there are only NULs.      *)
LEMMA CopyScans ==
  ASSUME NEW src, NEW mode, NEW at, NEW arr, NEW s, Scan(src, mode, at, arr, s)
  PROVE  SubSeq(s, 1, Len(src) + 1) \o <<NUL, NUL, NUL, NUL>> = s
<1> DEFINE n == Len(src) + 1
           four == <<NUL, NUL, NUL, NUL>>
           t == SubSeq(s, 1, n)
<1>1. /\ n \in Nat /\ n >= 1 /\ s \in Seq(Characters) /\ Len(s) = n + 4
      /\ src \in Seq(Characters)
  <2>1. Len(src) \in Nat
    BY ScanFacts
  <2>2. s \in Seq(Characters) /\ Len(s) = Len(src) + 5 /\ src \in Seq(Characters)
    BY DEF Scan
  <2> QED
    BY <2>1, <2>2
<1>2. \A i \in (n + 1)..(n + 4) : s[i] = NUL
  <2> SUFFICES ASSUME NEW i \in (n + 1)..(n + 4) PROVE s[i] = NUL
    OBVIOUS
  <2>1. i \in 1..Len(s) /\ i \in (Len(src) + 1)..(Len(src) + 5)
    BY <1>1, ScanFacts
  <2>2. Copied(src)[i] = NUL
    BY <1>1, <2>1, CopiedFacts
  <2> QED
    BY <2>1, <2>2 DEF Scan
<1>3. four \in Seq(Characters) /\ Len(four) = 4 /\ \A i \in 1..4 : four[i] = NUL
  BY DEF Characters
<1> HIDE DEF n, four
<1>4. t \in Seq(Characters) /\ Len(t) = n /\ \A i \in 1..n : t[i] = s[i]
  <2>1. \A i \in 1..n : s[i] \in Characters
    <3>1. \A i \in 1..n : i \in 1..Len(s)
      BY <1>1
    <3> QED
      BY <1>1, <3>1, ElementOfSeq
  <2>2. /\ SubSeq(s, 1, n) \in Seq(Characters)
        /\ Len(SubSeq(s, 1, n)) = IF 1 <= n THEN n - 1 + 1 ELSE 0
        /\ \A i \in 1..(n - 1 + 1) : SubSeq(s, 1, n)[i] = s[1 + i - 1]
    BY <1>1, <2>1, SubSeqProperties
  <2>3. n - 1 + 1 = n /\ 1 <= n /\ \A i \in 1..n : 1 + i - 1 = i
    BY <1>1
  <2> QED
    BY <2>2, <2>3
<1> HIDE DEF t
<1>5. /\ t \o four \in Seq(Characters) /\ Len(t \o four) = n + 4
      /\ \A i \in 1..(n + 4) : (t \o four)[i] = IF i <= n THEN t[i] ELSE four[i - n]
  <2>1. /\ t \o four \in Seq(Characters) /\ Len(t \o four) = Len(t) + Len(four)
        /\ \A i \in 1..(Len(t) + Len(four)) :
             (t \o four)[i] = IF i <= Len(t) THEN t[i] ELSE four[i - Len(t)]
    BY <1>3, <1>4, ConcatProperties
  <2> QED
    BY <1>3, <1>4, <2>1
<1>6. \A i \in 1..Len(t \o four) : (t \o four)[i] = s[i]
  <2> SUFFICES ASSUME NEW i \in 1..(n + 4) PROVE (t \o four)[i] = s[i]
    BY <1>5
  <2>1. CASE i <= n
    <3>1. i \in 1..n
      BY <1>1, <2>1
    <3> QED
      BY <1>4, <1>5, <2>1, <3>1
  <2>2. CASE ~(i <= n)
    <3>1. i - n \in 1..4 /\ i \in (n + 1)..(n + 4)
      BY <1>1, <2>2
    <3> QED
      BY <1>2, <1>3, <1>5, <2>2, <3>1
  <2> QED
    BY <2>1, <2>2
<1> QED
  BY <1>1, <1>5, <1>6, SeqEqual DEF n, four, t

-----------------------------------------------------------------------------
TokOK(t, s) ==
  /\ t.mode \in {"strtok", "strchr"}
  /\ t.m_CopySize = Len(t.src) + 1
  /\ Scan(t.src, t.mode, t.at, t.m_vTokenArr, s)
  /\ t.pc = "done" => Scanned(t.src, t.mode, t.at)

TokInv == BuffersInv /\ \A o \in Used : TokOK(tok[o], mem[tok[o].m_Copy])

(* A step that takes one tokenizer on leaves the others and their buffers.   *)
LEMMA OthersKept ==
  ASSUME TokInv, NEW o \in Object, NEW new, tok' = [tok EXCEPT ![o] = new],
         TokOK(new, mem'[new.m_Copy]),
         \A p \in Used \ {o} : mem'[tok[p].m_Copy] = mem[tok[p].m_Copy]
  PROVE  \A p \in Used' : TokOK(tok'[p], mem'[tok'[p].m_Copy])
<1>1. tok'[o] = new /\ \A p \in Object : p # o => tok'[p] = tok[p]
  BY DEF TokInv, BuffersInv
<1> SUFFICES ASSUME NEW p \in Used' PROVE TokOK(tok'[p], mem'[tok'[p].m_Copy])
  OBVIOUS
<1>2. CASE p = o
  BY <1>1, <1>2
<1>3. CASE p # o
  <2>1. p \in Used \ {o} /\ tok'[p] = tok[p]
    BY <1>1, <1>3 DEF Used
  <2> QED
    BY <2>1 DEF TokInv
<1> QED
  BY <1>2, <1>3

(* A turn that finds a token changes one buffer and one tokenizer.           *)
LEMMA FoundKept ==
  ASSUME TokInv, NEW o \in Object, tok[o].pc = "turn",
         NEW end \in 1..Len(mem[tok[o].m_Copy]), NEW at, NEW arr,
         mem' = [mem EXCEPT ![tok[o].m_Copy][end] = NUL],
         tok' = [tok EXCEPT ![o].m_vTokenArr = arr, ![o].at = at],
         Scan(tok[o].src, tok[o].mode, at, arr, [mem[tok[o].m_Copy] EXCEPT ![end] = NUL])
  PROVE  \A p \in Used' : TokOK(tok'[p], mem'[tok'[p].m_Copy])
<1> USE DEF Fields
<1> DEFINE t == tok[o]
           new == [t EXCEPT !.m_vTokenArr = arr, !.at = at]
           seen == [mem[t.m_Copy] EXCEPT ![end] = NUL]
<1>1. /\ \A p \in Used : tok[p].m_Copy \in DOMAIN mem
      /\ \A p, q \in Used : tok[p].m_Copy = tok[q].m_Copy => p = q
      /\ tok = [p \in Object |-> tok[p]]
  BY DEF TokInv, BuffersInv
<1>2. o \in Used
  BY DEF Used, NoTok
<1>3. DOMAIN t = Fields /\ t.m_Copy \in DOMAIN mem /\ TokOK(t, mem[t.m_Copy])
  BY <1>2 DEF TokInv, BuffersInv
<1>4. tok' = [tok EXCEPT ![o] = new]
  BY <1>1
<1>5. mem'[t.m_Copy] = seen
  BY <1>3
<1>6. \A p \in Used \ {o} : mem'[tok[p].m_Copy] = mem[tok[p].m_Copy]
  BY <1>1, <1>2
<1>7. /\ new.src = t.src /\ new.mode = t.mode /\ new.pc = t.pc /\ new.m_CopySize = t.m_CopySize
      /\ new.m_Copy = t.m_Copy /\ new.m_vTokenArr = arr /\ new.at = at
  BY <1>3
<1> HIDE DEF new, seen
<1>8. TokOK(new, mem'[new.m_Copy])
  <2>1. Scan(t.src, t.mode, at, arr, seen)
    BY DEF seen
  <2> QED
    BY <1>3, <1>5, <1>7, <2>1 DEF TokOK
<1> QED
  BY <1>4, <1>6, <1>8, OthersKept

LEMMA TokensStep == TokInv /\ [Next]_vars => TokInv'
<1> SUFFICES ASSUME TokInv, [Next]_vars PROVE \A p \in Used' : TokOK(tok'[p], mem'[tok'[p].m_Copy])
  BY BuffersStep DEF TokInv
<1> USE DEF Fields
<1>1. /\ \A o \in Used : /\ DOMAIN tok[o] = Fields /\ tok[o].m_Copy \in DOMAIN mem
                         /\ TokOK(tok[o], mem[tok[o].m_Copy])
      /\ tok = [o \in Object |-> tok[o]]
      /\ \A o, p \in Used : tok[o].m_Copy = tok[p].m_Copy => o = p
  BY DEF TokInv, BuffersInv
<1>2. ASSUME NEW o \in Object, NEW s \in Text, NEW mode \in {"strtok", "strchr"},
             NEW counted \in BOOLEAN, Construct(o, s, mode, counted)
      PROVE  \A p \in Used' : TokOK(tok'[p], mem'[tok'[p].m_Copy])
  <2> DEFINE src == IF counted THEN s ELSE CString(Append(s, NUL), 1)
  <2>1. src \in Seq(Characters)
    <3>1. s \in Seq(Characters)
      BY TextAssumption DEF Characters
    <3> QED
      BY <3>1, WholeFacts DEF Whole
  <2>2. PICK b \in Buffer \ DOMAIN mem :
          /\ mem' = [c \in DOMAIN mem \cup {b} |-> IF c = b THEN Copied(src) ELSE mem[c]]
          /\ tok' = [tok EXCEPT ![o] =
               [src |-> src, mode |-> mode, pc |-> "turn", at |-> 1, m_CopySize |-> Len(src) + 1,
                m_Copy |-> b, m_vTokenArr |-> IF mode = "strchr" THEN <<0>> ELSE <<>>]]
    BY <1>2 DEF Construct, Copied
  <2> DEFINE new == [src |-> src, mode |-> mode, pc |-> "turn", at |-> 1,
                     m_CopySize |-> Len(src) + 1, m_Copy |-> b,
                     m_vTokenArr |-> IF mode = "strchr" THEN <<0>> ELSE <<>>]
  <2> HIDE DEF src
  <2>3. mem'[b] = Copied(src) /\ \A p \in Used \ {o} : mem'[tok[p].m_Copy] = mem[tok[p].m_Copy]
    BY <1>1, <2>2
  <2>4. TokOK(new, mem'[new.m_Copy])
    <3>1. Scan(src, mode, 1, IF mode = "strchr" THEN <<0>> ELSE <<>>, Copied(src))
      BY <2>1, ConstructScans
    <3> QED
      BY <2>3, <3>1 DEF TokOK
  <2>5. tok' = [tok EXCEPT ![o] = new]
    BY <2>2
  <2> HIDE DEF new
  <2> QED
    BY <2>3, <2>4, <2>5, OthersKept
<1>3. ASSUME NEW o \in Object, tok[o].pc = "turn", UNCHANGED mem,
             tok' = [tok EXCEPT ![o].pc = "done"],
             Scanned(tok[o].src, tok[o].mode, tok[o].at)
      PROVE  \A p \in Used' : TokOK(tok'[p], mem'[tok'[p].m_Copy])
  <2>1. o \in Used
    BY <1>3 DEF Used, NoTok
  <2> DEFINE t == tok[o]
             new == [t EXCEPT !.pc = "done"]
  <2>2. DOMAIN t = Fields /\ TokOK(t, mem[t.m_Copy])
    BY <1>1, <2>1
  <2>3. tok' = [tok EXCEPT ![o] = new]
    BY <1>3
  <2>4. /\ new.src = t.src /\ new.mode = t.mode /\ new.m_CopySize = t.m_CopySize
        /\ new.m_Copy = t.m_Copy /\ new.m_vTokenArr = t.m_vTokenArr /\ new.at = t.at
    BY <2>2
  <2> HIDE DEF new
  <2>5. TokOK(new, mem'[new.m_Copy])
    BY <1>3, <2>2, <2>4 DEF TokOK
  <2> QED
    BY <1>3, <2>3, <2>5, OthersKept
<1>4. ASSUME NEW o \in Object, IntTokenize(o)
      PROVE  \A p \in Used' : TokOK(tok'[p], mem'[tok'[p].m_Copy])
  <2> DEFINE t == tok[o]
             s == mem[t.m_Copy]
             start == First(s, Characters \ {Delim}, t.at)
             end == First(s, {Delim, NUL}, start)
  <2>1. o \in Used /\ t.pc = "turn" /\ t.mode = "strtok"
    BY <1>4 DEF IntTokenize, Used, NoTok
  <2>2. Scan(t.src, "strtok", t.at, t.m_vTokenArr, s)
    BY <1>1, <2>1 DEF TokOK
  <2>3. /\ end \in 1..Len(s)
        /\ s[start] = NUL => Scanned(t.src, "strtok", t.at)
        /\ s[start] # NUL =>
             Scan(t.src, "strtok", IF s[end] = NUL THEN end ELSE end + 1,
                  Append(t.m_vTokenArr, start - 1), [s EXCEPT ![end] = NUL])
    BY <2>2, TokScans
  <2>4. IF s[start] = NUL
        THEN tok' = [tok EXCEPT ![o].pc = "done"] /\ UNCHANGED mem
        ELSE /\ mem' = [mem EXCEPT ![t.m_Copy][end] = NUL]
             /\ tok' = [tok EXCEPT ![o].m_vTokenArr = Append(t.m_vTokenArr, start - 1),
                                   ![o].at = IF s[end] = NUL THEN end ELSE end + 1]
    BY <1>4 DEF IntTokenize, Found, Characters
  <2> DEFINE next == IF s[end] = NUL THEN end ELSE end + 1
             arr == Append(t.m_vTokenArr, start - 1)
  <2> HIDE DEF start, end
  <2>5. CASE s[start] = NUL
    BY <1>3, <2>1, <2>3, <2>4, <2>5
  <2>6. CASE s[start] # NUL
    <3>1. /\ mem' = [mem EXCEPT ![t.m_Copy][end] = NUL]
          /\ tok' = [tok EXCEPT ![o].m_vTokenArr = arr, ![o].at = next]
      BY <2>4, <2>6
    <3>2. Scan(t.src, "strtok", next, arr, [s EXCEPT ![end] = NUL])
      BY <2>3, <2>6
    <3> HIDE DEF next, arr
    <3>3. Scan(t.src, t.mode, next, arr, [s EXCEPT ![end] = NUL])
      BY <2>1, <3>2
    <3> QED
      BY <2>1, <2>3, <3>1, <3>3, FoundKept
  <2> QED
    BY <2>5, <2>6
<1>5. ASSUME NEW o \in Object, IntTokenize_Chr(o)
      PROVE  \A p \in Used' : TokOK(tok'[p], mem'[tok'[p].m_Copy])
  <2> DEFINE t == tok[o]
             s == mem[t.m_Copy]
             end == First(s, {Delim, NUL}, t.at)
  <2>1. o \in Used /\ t.pc = "turn" /\ t.mode = "strchr"
    BY <1>5 DEF IntTokenize_Chr, Used, NoTok
  <2>2. Scan(t.src, "strchr", t.at, t.m_vTokenArr, s)
    BY <1>1, <2>1 DEF TokOK
  <2>3. /\ end \in 1..Len(s)
        /\ s[end] = NUL => Scanned(t.src, "strchr", t.at)
        /\ s[end] # NUL =>
             Scan(t.src, "strchr", end + 1, Append(t.m_vTokenArr, end), [s EXCEPT ![end] = NUL])
    BY <2>2, ChrScans
  <2>4. IF s[end] = NUL
        THEN tok' = [tok EXCEPT ![o].pc = "done"] /\ UNCHANGED mem
        ELSE /\ mem' = [mem EXCEPT ![t.m_Copy][end] = NUL]
             /\ tok' = [tok EXCEPT ![o].m_vTokenArr = Append(t.m_vTokenArr, (end + 1) - 1),
                                   ![o].at = end + 1]
    BY <1>5 DEF IntTokenize_Chr, Found
  <2> HIDE DEF end
  <2>5. CASE s[end] = NUL
    BY <1>3, <2>1, <2>3, <2>4, <2>5
  <2>6. CASE s[end] # NUL
    <3> DEFINE arr == Append(t.m_vTokenArr, end)
               next == end + 1
    <3>1. (end + 1) - 1 = end
      BY <2>3
    <3>2. /\ mem' = [mem EXCEPT ![t.m_Copy][end] = NUL]
          /\ tok' = [tok EXCEPT ![o].m_vTokenArr = arr, ![o].at = next]
      BY <2>4, <2>6, <3>1
    <3>3. Scan(t.src, "strchr", next, arr, [s EXCEPT ![end] = NUL])
      BY <2>3, <2>6
    <3> HIDE DEF next, arr
    <3>4. Scan(t.src, t.mode, next, arr, [s EXCEPT ![end] = NUL])
      BY <2>1, <3>3
    <3> QED
      BY <2>1, <2>3, <3>2, <3>4, FoundKept
  <2> QED
    BY <2>5, <2>6
<1>6. ASSUME NEW o \in Object, NEW p \in Object, CopyConstruct(o, p)
      PROVE  \A q \in Used' : TokOK(tok'[q], mem'[tok'[q].m_Copy])
  <2>1. tok[o].pc = "done" /\ o \in Used
    BY <1>6 DEF CopyConstruct, Used, NoTok
  <2> DEFINE t == tok[o]
             s == mem[t.m_Copy]
  <2>2. DOMAIN t = Fields /\ TokOK(t, s)
    BY <1>1, <2>1
  <2>3. SubSeq(s, 1, t.m_CopySize) \o <<NUL, NUL, NUL, NUL>> = s
    BY <2>2, CopyScans DEF TokOK
  <2>4. PICK b \in Buffer \ DOMAIN mem :
          /\ mem' = [c \in DOMAIN mem \cup {b} |-> IF c = b THEN s ELSE mem[c]]
          /\ tok' = [tok EXCEPT ![p] = [t EXCEPT !.m_Copy = b]]
    BY <1>6, <2>3 DEF CopyConstruct
  <2> DEFINE new == [t EXCEPT !.m_Copy = b]
  <2>5. /\ new.src = t.src /\ new.mode = t.mode /\ new.pc = t.pc /\ new.m_CopySize = t.m_CopySize
        /\ new.m_Copy = b /\ new.m_vTokenArr = t.m_vTokenArr /\ new.at = t.at
    BY <2>2
  <2>6. mem'[b] = s /\ \A q \in Used \ {p} : mem'[tok[q].m_Copy] = mem[tok[q].m_Copy]
    BY <1>1, <2>4
  <2>7. tok' = [tok EXCEPT ![p] = new]
    BY <2>4
  <2> HIDE DEF new
  <2>8. TokOK(new, mem'[new.m_Copy])
    BY <2>2, <2>5, <2>6 DEF TokOK
  <2> QED
    BY <2>6, <2>7, <2>8, OthersKept
<1>7. ASSUME NEW o \in Object, Destroy(o)
      PROVE  \A p \in Used' : TokOK(tok'[p], mem'[tok'[p].m_Copy])
  <2>1. tok[o].pc = "done" /\ mem' = [b \in DOMAIN mem \ {tok[o].m_Copy} |-> mem[b]]
        /\ tok' = [tok EXCEPT ![o] = NoTok] /\ o \in Used
    BY <1>7 DEF Destroy, Used, NoTok
  <2>2. tok'[o] = NoTok /\ \A p \in Object : p # o => tok'[p] = tok[p]
    BY <1>1, <2>1
  <2> SUFFICES ASSUME NEW p \in Used' PROVE TokOK(tok'[p], mem'[tok'[p].m_Copy])
    OBVIOUS
  <2>3. p \in Used /\ p # o /\ tok'[p] = tok[p]
    BY <2>2 DEF Used
  <2>4. tok[p].m_Copy \in DOMAIN mem /\ tok[p].m_Copy # tok[o].m_Copy
    BY <1>1, <2>1, <2>3
  <2> QED
    BY <1>1, <2>1, <2>3, <2>4
<1>8. ASSUME UNCHANGED tokVars
      PROVE  \A p \in Used' : TokOK(tok'[p], mem'[tok'[p].m_Copy])
  BY <1>1, <1>8 DEF tokVars, Used
<1> QED
  BY <1>2, <1>4, <1>5, <1>6, <1>7, <1>8 DEF Next, TokNext, vars
-----------------------------------------------------------------------------
(* At the end of the loop every token's beginning has been found.            *)
LEMMA AllBegun ==
  ASSUME NEW src, NEW mode \in {"strtok", "strchr"}, NEW at, NEW arr, NEW s,
         Scan(src, mode, at, arr, s), Scanned(src, mode, at)
  PROVE  Firsts(arr) = Begins(src, mode)
<1> DEFINE g == Copied(src)
           e == EndOf(src)
<1>1. at \in Nat /\ at >= 1 /\ e \in Nat /\ at <= e
  BY ScanFacts
<1>2. \A i \in at..(e - 1) : IF mode = "strtok" THEN g[i] = Delim ELSE g[i] # Delim
  BY DEF Scanned
<1>3. Firsts(arr) = {p \in Begins(src, mode) : p < Limit(mode, at)}
  BY DEF Scan
<1>4. ASSUME NEW p \in Begins(src, mode) PROVE p < Limit(mode, at)
  <2>1. CASE mode = "strtok"
    <3>1. p \in 1..(e - 1) /\ g[p] # Delim
      BY <1>4, <2>1 DEF Begins
    <3>2. ~(p \in at..(e - 1))
      BY <1>2, <2>1, <3>1
    <3> QED
      BY <1>1, <2>1, <3>1, <3>2 DEF Limit
  <2>2. CASE mode = "strchr"
    <3>1. p = 1 \/ (p \in 2..e /\ g[p-1] = Delim)
      BY <1>4, <2>2 DEF Begins
    <3>2. p - 1 \in at..(e - 1) => p = 1
      BY <1>2, <2>2, <3>1
    <3> QED
      BY <1>1, <2>2, <3>1, <3>2 DEF Limit
  <2> QED
    BY <2>1, <2>2
<1> QED
  BY <1>3, <1>4

(* Where tokens begin in a string is where they begin in its copy.           *)
LEMMA SameStarts ==
  ASSUME NEW src \in Seq(Characters), NEW mode \in {"strtok", "strchr"}
  PROVE  Starts(Whole(src), mode) = Begins(src, mode)
<1> DEFINE g == Copied(src)
           e == EndOf(src)
           w == Whole(src)
<1>1. Len(w) = e - 1 /\ \A i \in 1..(e - 1) : w[i] = g[i]
  BY WholeFacts
<1>2. e \in Nat /\ e >= 1 /\ Len(w) + 1 = e
  <2>1. e \in 1..(Len(src) + 1) /\ Len(src) \in Nat
    BY CopiedFacts, EndFacts
  <2> QED
    BY <1>1, <2>1
<1> HIDE DEF g, e, w
<1>3. CASE mode = "strtok"
  <2>1. \A i \in 1..(e - 1) : w[i] = g[i] /\ (i > 1 => w[i-1] = g[i-1])
    <3> SUFFICES ASSUME NEW i \in 1..(e - 1), i > 1 PROVE w[i-1] = g[i-1]
      BY <1>1
    <3>1. i - 1 \in 1..(e - 1)
      BY <1>2
    <3> QED
      BY <1>1, <3>1
  <2> QED
    BY <1>1, <1>3, <2>1 DEF Starts, Begins, g, e, w
<1>4. CASE mode = "strchr"
  <2>1. \A i \in 2..e : w[i-1] = g[i-1]
    <3> SUFFICES ASSUME NEW i \in 2..e PROVE w[i-1] = g[i-1]
      OBVIOUS
    <3>1. i - 1 \in 1..(e - 1)
      BY <1>2
    <3> QED
      BY <1>1, <3>1
  <2>2. Starts(w, mode) = {1} \cup {i \in 2..e : w[i-1] = Delim}
    BY <1>2, <1>4 DEF Starts
  <2>3. Begins(src, mode) = {1} \cup {i \in 2..e : g[i-1] = Delim}
    BY <1>4 DEF Begins, g, e
  <2> QED
    BY <2>1, <2>2, <2>3 DEF w
<1> QED
  BY <1>3, <1>4

LEMMA BeginsFacts ==
  ASSUME NEW src \in Seq(Characters), NEW mode \in {"strtok", "strchr"},
         NEW p \in Begins(src, mode)
  PROVE  p \in 1..EndOf(src) /\ (p > 1 => Copied(src)[p - 1] = Delim)
<1>1. EndOf(src) \in 1..(Len(src) + 1) /\ Len(src) \in Nat
  BY CopiedFacts, EndFacts
<1> QED
  BY <1>1 DEF Begins

(* One token ends before the next begins.                                    *)
LEMMA EndsBefore ==
  ASSUME NEW src \in Seq(Characters), NEW mode \in {"strtok", "strchr"},
         NEW p \in Begins(src, mode), NEW q \in Begins(src, mode), p < q
  PROVE  Ends(src, p) < q
<1>1. /\ p \in 1..EndOf(src) /\ q \in 1..EndOf(src)
      /\ EndOf(src) \in Nat /\ (q > 1 => Copied(src)[q - 1] = Delim)
  <2>1. EndOf(src) \in 1..(Len(src) + 1) /\ Len(src) \in Nat
    BY CopiedFacts, EndFacts
  <2> QED
    BY <2>1, BeginsFacts
<1>2. /\ Ends(src, p) \in p..EndOf(src)
      /\ \A j \in p..(Ends(src, p) - 1) : Copied(src)[j] \notin {Delim, NUL}
  BY <1>1, EndsFacts
<1>3. ~(q - 1 \in p..(Ends(src, p) - 1))
  BY <1>1, <1>2
<1> QED
  BY <1>1, <1>2, <1>3

(* A token that was found ends with a NUL, and not before it should.         *)
LEMMA TokenEnds ==
  ASSUME NEW src, NEW mode \in {"strtok", "strchr"}, NEW at, NEW arr, NEW s,
         Scan(src, mode, at, arr, s), Scanned(src, mode, at),
         NEW p \in Begins(src, mode)
  PROVE  First(s, {NUL}, p) = Ends(src, p)
<1> DEFINE g == Copied(src)
           e == EndOf(src)
           end == Ends(src, p)
<1>1. /\ at \in Nat /\ at >= 1 /\ e \in Nat /\ at <= e /\ Len(s) \in Nat /\ e <= Len(s)
      /\ s[e] = NUL /\ \A i \in 1..(e - 1) : g[i] \in Char /\ g[i] # NUL
  BY ScanFacts
<1>2. src \in Seq(Characters) /\ p \in 1..e
  BY BeginsFacts DEF Scan
<1>3. /\ end \in p..e /\ g[end] \in {Delim, NUL}
      /\ \A j \in p..(end - 1) : g[j] \notin {Delim, NUL}
  BY <1>2, EndsFacts
<1> HIDE DEF g, e, end
<1>4. s[end] = NUL
  <2>1. p \in Firsts(arr) /\ p < Limit(mode, at)
    <3>1. p \in Firsts(arr)
      BY AllBegun
    <3> QED
      BY <3>1 DEF Scan
  <2>2. CASE p < at
    BY <2>1, <2>2 DEF Scan, end
  <2>3. CASE ~(p < at)
    <3>1. mode = "strchr" /\ p = at
      BY <1>1, <1>2, <2>1, <2>3 DEF Limit
    <3>2. ~(end \in at..(e - 1))
      <4> SUFFICES ASSUME end \in at..(e - 1) PROVE FALSE
        OBVIOUS
      <4>1. g[end] # Delim
        BY <3>1 DEF Scanned, g, e
      <4>2. end \in 1..(e - 1)
        BY <1>1
      <4> QED
        BY <1>1, <1>3, <4>1, <4>2
    <3>3. end = e
      BY <1>1, <1>2, <1>3, <3>1, <3>2
    <3> QED
      BY <1>1, <3>3
  <2> QED
    BY <2>2, <2>3
<1>5. \A j \in p..(end - 1) : s[j] \notin {NUL}
  <2> SUFFICES ASSUME NEW j \in p..(end - 1) PROVE s[j] # NUL
    OBVIOUS
  <2>1. j \in 1..Len(s) /\ j \in 1..(e - 1)
    BY <1>1, <1>2, <1>3
  <2>2. s[j] = g[j]
    <3>1. g[j] # Delim
      BY <1>3
    <3>2. s[j] = g[j] \/ (j < at /\ g[j] = Delim /\ s[j] = NUL)
      BY <2>1 DEF Scan, g
    <3> QED
      BY <3>1, <3>2
  <2> QED
    BY <1>1, <2>1, <2>2
<1>6. p \in Nat /\ end \in p..Len(s)
  BY <1>1, <1>2, <1>3
<1> QED
  BY <1>1, <1>4, <1>5, <1>6, FirstIs DEF end

(* A part of a string, character by character.                               *)
LEMMA Part ==
  ASSUME NEW t \in Seq(Characters), NEW p \in 1..(Len(t) + 1), NEW q \in p..(Len(t) + 1)
  PROVE  /\ SubSeq(t, p, q - 1) \in Seq(Characters)
         /\ Len(SubSeq(t, p, q - 1)) = q - p
         /\ \A i \in 1..(q - p) : SubSeq(t, p, q - 1)[i] = t[p + i - 1]
<1>1. Len(t) \in Nat /\ p \in Int /\ q - 1 \in Int
  <2>1. Len(t) \in Nat
    BY LenProperties
  <2> QED
    BY <2>1
<1>2. \A i \in p..(q - 1) : t[i] \in Characters
  <2>1. \A i \in p..(q - 1) : i \in 1..Len(t)
    BY <1>1
  <2> QED
    BY <2>1, ElementOfSeq
<1>3. /\ SubSeq(t, p, q - 1) \in Seq(Characters)
      /\ Len(SubSeq(t, p, q - 1)) = IF p <= q - 1 THEN (q - 1) - p + 1 ELSE 0
      /\ \A i \in 1..((q - 1) - p + 1) : SubSeq(t, p, q - 1)[i] = t[p + i - 1]
  BY <1>1, <1>2, SubSeqProperties
<1>4. (q - 1) - p + 1 = q - p /\ (~(p <= q - 1) => q - p = 0)
  BY <1>1
<1> QED
  BY <1>3, <1>4

(* The characters of a token in the buffer are those in the string.          *)
LEMMA TokenText ==
  ASSUME NEW src, NEW mode \in {"strtok", "strchr"}, NEW at, NEW arr, NEW s,
         Scan(src, mode, at, arr, s), Scanned(src, mode, at),
         NEW p \in Begins(src, mode)
  PROVE  /\ CString(s, p) = TokenFrom(Whole(src), p)
         /\ Len(CString(s, p)) = Ends(src, p) - p
         /\ CString(s, p) \in Seq(Characters)
<1> DEFINE g == Copied(src)
           e == EndOf(src)
           w == Whole(src)
           a == Append(w, NUL)
           end == Ends(src, p)
<1>1. /\ e \in Nat /\ e >= 1 /\ Len(s) \in Nat /\ e <= Len(s)
      /\ g[e] = NUL
  <2>1. /\ e \in 1..(Len(src) + 1) /\ Len(src) \in Nat /\ Len(s) \in Nat
        /\ at \in Nat /\ at >= 1 /\ e \in at..Len(s)
    BY ScanFacts
  <2>2. g[e] = NUL
    BY EndFacts DEF Scan
  <2> QED
    BY <2>1, <2>2
<1>2. src \in Seq(Characters) /\ s \in Seq(Characters) /\ p \in 1..e
  BY BeginsFacts DEF Scan
<1>3. /\ end \in p..e /\ g[end] \in {Delim, NUL}
      /\ \A j \in p..(end - 1) : g[j] \notin {Delim, NUL}
  BY <1>2, EndsFacts
<1>4. w \in Seq(Characters) /\ Len(w) = e - 1 /\ \A i \in 1..(e - 1) : w[i] = g[i]
  BY <1>2, WholeFacts
<1>5. First(s, {NUL}, p) = end
  BY TokenEnds
<1> HIDE DEF g, e, w, end
<1>6. Len(a) = e /\ \A i \in 1..e : a[i] = g[i]
  <2>1. NUL \in Characters /\ (e - 1) + 1 = e
    BY <1>1 DEF Characters
  <2>2. /\ Len(a) = Len(w) + 1
        /\ \A i \in 1..Len(w) : a[i] = w[i]
        /\ a[Len(w) + 1] = NUL
    BY <1>4, <2>1, AppendProperties
  <2>3. \A i \in 1..e : i \in 1..(e - 1) \/ i = e
    BY <1>1
  <2> QED
    BY <1>1, <1>4, <2>1, <2>2, <2>3
<1> HIDE DEF a
<1>7. First(a, {Delim, NUL}, p) = end
  <2>1. p \in Nat /\ end \in p..Len(a) /\ Len(a) \in Nat /\ end \in 1..e
    BY <1>1, <1>2, <1>3, <1>6
  <2>2. a[end] \in {Delim, NUL}
    BY <1>3, <1>6, <2>1
  <2>3. \A j \in p..(end - 1) : a[j] \notin {Delim, NUL}
    <3>1. \A j \in p..(end - 1) : j \in 1..e
      BY <1>1, <1>2, <1>3
    <3> QED
      BY <1>3, <1>6, <3>1
  <2> QED
    BY <2>1, <2>2, <2>3, FirstIs
<1>8. CString(s, p) = SubSeq(s, p, end - 1) /\ TokenFrom(w, p) = SubSeq(w, p, end - 1)
  BY <1>5, <1>7 DEF CString, TokenFrom, a
<1>9. /\ SubSeq(s, p, end - 1) \in Seq(Characters) /\ Len(SubSeq(s, p, end - 1)) = end - p
      /\ \A i \in 1..(end - p) : SubSeq(s, p, end - 1)[i] = s[p + i - 1]
  <2>1. p \in 1..(Len(s) + 1) /\ end \in p..(Len(s) + 1)
    BY <1>1, <1>2, <1>3
  <2> QED
    BY <1>2, <2>1, Part
<1>10. /\ SubSeq(w, p, end - 1) \in Seq(Characters) /\ Len(SubSeq(w, p, end - 1)) = end - p
       /\ \A i \in 1..(end - p) : SubSeq(w, p, end - 1)[i] = w[p + i - 1]
  <2>1. p \in 1..(Len(w) + 1) /\ end \in p..(Len(w) + 1)
    BY <1>1, <1>2, <1>3, <1>4
  <2> QED
    BY <1>4, <2>1, Part
<1>11. \A i \in 1..(end - p) : s[p + i - 1] = w[p + i - 1]
  <2> SUFFICES ASSUME NEW i \in 1..(end - p) PROVE s[p + i - 1] = w[p + i - 1]
    OBVIOUS
  <2> DEFINE j == p + i - 1
  <2>1. j \in p..(end - 1) /\ j \in 1..(e - 1) /\ j \in 1..Len(s)
    BY <1>1, <1>2, <1>3
  <2> HIDE DEF j
  <2>2. s[j] = g[j]
    <3>1. g[j] # Delim
      BY <1>3, <2>1
    <3>2. s[j] = g[j] \/ (j < at /\ g[j] = Delim /\ s[j] = NUL)
      BY <2>1 DEF Scan, g
    <3> QED
      BY <3>1, <3>2
  <2> QED
    BY <1>4, <2>1, <2>2 DEF j
<1>12. SubSeq(s, p, end - 1) = SubSeq(w, p, end - 1)
  BY <1>9, <1>10, <1>11, SeqEqual
<1> QED
  BY <1>8, <1>9, <1>12 DEF w, end
LEMMA TokInvInit == Init => TokInv
<1> SUFFICES ASSUME Init PROVE TokInv
  OBVIOUS
<1>1. Used = {} /\ DOMAIN mem = {} /\ tok = [o \in Object |-> tok[o]]
  BY DEF Init, TokInit, Used, NoTok
<1> QED
  BY <1>1 DEF TokInv, BuffersInv

(* What the invariant says of one finished tokenizer.                        *)
LEMMA FinishedRight ==
  ASSUME TokInv, NEW o \in Done
  PROVE  LET s == Whole(tok[o].src)
             start == [i \in 1..GetCount(o) |-> tok[o].m_vTokenArr[i] + 1]
         IN /\ {start[i] : i \in DOMAIN start} = Starts(s, tok[o].mode)
            /\ \A i, j \in DOMAIN start : i < j => start[i] < start[j]
            /\ each_token(o) = [i \in DOMAIN start |-> TokenFrom(s, start[i])]
            /\ GetToken(o, GetCount(o)) = NUL
            /\ GetCount(o) > 0 => LastToken(o) = each_token(o)[GetCount(o)]
            /\ \A i \in DOMAIN start :
                 LET own == Len(each_token(o)[i])
                 IN IF start[i] + own = Len(tok[o].src) + 1
                    THEN GetTokenLen(o, i - 1) = own
                    ELSE GetTokenLen(o, i - 1) > own
<1> DEFINE t == tok[o]
           w == Whole(t.src)
           s == mem[t.m_Copy]
           arr == t.m_vTokenArr
           n == GetCount(o)
           start == [i \in 1..n |-> arr[i] + 1]
           end == [i \in 1..n |-> Ends(t.src, start[i])]
<1>1. o \in Used /\ o \in Object /\ t.pc = "done"
  BY DEF Done, Used, NoTok
<1>2. /\ t.mode \in {"strtok", "strchr"} /\ t.m_CopySize = Len(t.src) + 1
      /\ Scan(t.src, t.mode, t.at, arr, s) /\ Scanned(t.src, t.mode, t.at)
  BY <1>1 DEF TokInv, TokOK
<1>3. /\ t.src \in Seq(Characters) /\ arr \in Seq(Nat) /\ Increasing(arr)
      /\ n = Len(arr) /\ n \in Nat
      /\ EndOf(t.src) \in Nat /\ EndOf(t.src) <= Len(t.src) + 1 /\ Len(t.src) \in Nat
  <2>1. t.src \in Seq(Characters) /\ arr \in Seq(Nat) /\ Increasing(arr)
    BY <1>2 DEF Scan
  <2>2. n = Len(arr)
    BY DEF GetCount
  <2>3. n \in Nat
    BY <2>1, <2>2, LenProperties
  <2>4. EndOf(t.src) \in 1..(Len(t.src) + 1) /\ Len(t.src) \in Nat
    BY <1>2, ScanFacts
  <2> QED
    BY <2>1, <2>2, <2>3, <2>4
<1>4. Firsts(arr) = Begins(t.src, t.mode)
  BY <1>2, AllBegun
<1> HIDE DEF t, s, arr, n
<1>5. \A i \in 1..n : arr[i] \in Nat /\ start[i] = arr[i] + 1 /\ start[i] \in Begins(t.src, t.mode)
  BY <1>3, <1>4, ElementOfSeq DEF Firsts
<1>6. {start[i] : i \in 1..n} = Starts(w, t.mode)
  <2>1. {start[i] : i \in 1..n} = Firsts(arr)
    BY <1>3 DEF Firsts
  <2> QED
    BY <1>2, <1>3, <1>4, <2>1, SameStarts
<1>7. \A i, j \in 1..n : i < j => start[i] < start[j]
  BY <1>3, <1>5 DEF Increasing
<1>8. \A i \in 1..n : GetToken(o, i - 1) = CString(s, start[i])
  <2> SUFFICES ASSUME NEW i \in 1..n PROVE GetToken(o, i - 1) = CString(s, start[i])
    OBVIOUS
  <2>1. (i - 1) + 1 = i /\ ~(i - 1 >= n)
    BY <1>3
  <2> QED
    BY <2>1 DEF GetToken, n, arr, s, t
<1>9. \A i \in 1..n : /\ GetToken(o, i - 1) = TokenFrom(w, start[i])
                      /\ Len(GetToken(o, i - 1)) = end[i] - start[i]
  <2> SUFFICES ASSUME NEW i \in 1..n
               PROVE  /\ GetToken(o, i - 1) = TokenFrom(w, start[i])
                      /\ Len(GetToken(o, i - 1)) = end[i] - start[i]
    OBVIOUS
  <2>1. start[i] \in Begins(t.src, t.mode) /\ end[i] = Ends(t.src, start[i])
    BY <1>5
  <2> HIDE DEF start, end
  <2>2. /\ CString(s, start[i]) = TokenFrom(w, start[i])
        /\ Len(CString(s, start[i])) = Ends(t.src, start[i]) - start[i]
    BY <1>2, <2>1, TokenText
  <2> QED
    BY <1>8, <2>1, <2>2
<1>10. each_token(o) = [i \in 1..n |-> GetToken(o, i - 1)]
  BY DEF each_token, n
<1>11. GetToken(o, n) = NUL
  BY <1>3 DEF GetToken, n
<1>12. n > 0 => LastToken(o) = each_token(o)[n]
  <2>1. n > 0 => n \in 1..n
    BY <1>3
  <2>2. LastToken(o) = GetToken(o, n - 1)
    BY DEF LastToken, n
  <2> QED
    BY <1>10, <2>1, <2>2
<1>13. ASSUME NEW i \in 1..n
       PROVE  IF start[i] + Len(each_token(o)[i]) = Len(t.src) + 1
              THEN GetTokenLen(o, i - 1) = Len(each_token(o)[i])
              ELSE GetTokenLen(o, i - 1) > Len(each_token(o)[i])
  <2> DEFINE own == Len(each_token(o)[i])
             len == GetTokenLen(o, i - 1)
             p == start[i]
             e == end[i]
             k == Len(t.src)
  <2> SUFFICES IF p + own = k + 1 THEN len = own ELSE len > own
    OBVIOUS
  <2>1. own = end[i] - start[i]
    BY <1>9, <1>10
  <2>2. /\ start[i] \in Nat /\ start[i] = arr[i] + 1 /\ arr[i] \in Nat
        /\ end[i] \in Nat /\ start[i] <= end[i] /\ end[i] <= Len(t.src) + 1
    <3>1. start[i] \in 1..EndOf(t.src) /\ start[i] = arr[i] + 1 /\ arr[i] \in Nat
      BY <1>2, <1>3, <1>5, BeginsFacts
    <3>2. end[i] = Ends(t.src, start[i])
      OBVIOUS
    <3> HIDE DEF start, end
    <3>3. Ends(t.src, start[i]) \in start[i]..EndOf(t.src)
      BY <1>3, <3>1, EndsFacts
    <3> QED
      BY <1>3, <3>1, <3>2, <3>3
  <2>3. (i - 1) + 1 = i /\ (i - 1) + 2 = i + 1 /\ ~(i - 1 >= n)
    BY <1>3
  <2>4. CASE i = n
    <3>1. i - 1 = n - 1
      BY <2>4
    <3>2. len = t.m_CopySize - arr[(i - 1) + 1] - 1
      BY <2>3, <3>1 DEF GetTokenLen, n, arr, t
    <3>3. len = (k + 1) - arr[i] - 1
      BY <1>2, <2>3, <3>2
    <3>4. /\ own = e - p /\ p \in Nat /\ p = arr[i] + 1 /\ arr[i] \in Nat
          /\ e \in Nat /\ p <= e /\ e <= k + 1 /\ k \in Nat
      BY <1>3, <2>1, <2>2
    <3>5. p + own = e /\ len = (k + 1) - p
      <4> HIDE DEF own, len, p, e, k
      <4> QED
        BY <3>3, <3>4
    <3>6. p + own = k + 1 => len = own
      <4> HIDE DEF own, len, p, e, k
      <4> QED
        BY <3>4, <3>5
    <3>7. p + own # k + 1 => len > own
      <4>1. \A x, y, z \in Int : x < y => y - z > x - z
        OBVIOUS
      <4>2. e \in Int /\ k + 1 \in Int /\ p \in Int /\ own = e - p /\ len = (k + 1) - p
        <5> HIDE DEF own, len, p, e, k
        <5> QED
          BY <3>4, <3>5
      <4>3. p + own # k + 1 => e < k + 1
        <5> HIDE DEF own, len, p, e, k
        <5> QED
          BY <3>4, <3>5
      <4> HIDE DEF own, len, p, e, k
      <4> QED
        BY <4>1, <4>2, <4>3
    <3> QED
      BY <3>6, <3>7
  <2>5. CASE i # n
    <3>1. i - 1 # n - 1 /\ i + 1 \in 1..n
      BY <1>3, <2>5
    <3>2. GetTokenLen(o, i - 1) = arr[i + 1] - arr[i]
      BY <2>3, <3>1 DEF GetTokenLen, n, arr, t
    <3>3. /\ start[i + 1] = arr[i + 1] + 1 /\ arr[i + 1] \in Nat
          /\ start[i] < start[i + 1] /\ start[i + 1] \in 1..EndOf(t.src)
      <4>1. i < i + 1
        BY <1>3
      <4>2. start[i + 1] \in Begins(t.src, t.mode)
        BY <1>5, <3>1
      <4> QED
        BY <1>2, <1>3, <1>5, <1>7, <3>1, <4>1, <4>2, BeginsFacts
    <3>4. end[i] < start[i + 1]
      <4>1. start[i] \in Begins(t.src, t.mode) /\ start[i + 1] \in Begins(t.src, t.mode)
        BY <1>5, <3>1
      <4>2. end[i] = Ends(t.src, start[i])
        OBVIOUS
      <4>3. start[i] < start[i + 1]
        BY <3>3
      <4> HIDE DEF start, end
      <4> QED
        BY <1>2, <1>3, <4>1, <4>2, <4>3, EndsBefore
    <3>5. /\ own = e - p /\ p \in Nat /\ p = arr[i] + 1 /\ arr[i] \in Nat
          /\ e \in Nat /\ p <= e /\ e <= k + 1 /\ k \in Nat
      BY <1>3, <2>1, <2>2
    <3>6. /\ len = arr[i + 1] - arr[i] /\ arr[i + 1] \in Nat /\ e < arr[i + 1] + 1
          /\ arr[i + 1] + 1 <= k + 1
      <4>1. start[i + 1] <= EndOf(t.src)
        BY <1>3, <3>3
      <4>2. start[i + 1] = arr[i + 1] + 1 /\ arr[i + 1] \in Nat
        BY <3>3
      <4>3. len = arr[i + 1] - arr[i]
        BY <3>2
      <4> HIDE DEF start, end, len
      <4> QED
        BY <1>3, <3>4, <4>1, <4>2, <4>3
    <3> HIDE DEF own, len, p, e, k
    <3> QED
      BY <3>5, <3>6
  <2> QED
    BY <2>4, <2>5
<1>14. each_token(o) = [i \in 1..n |-> TokenFrom(w, start[i])]
  BY <1>9, <1>10
<1>15. DOMAIN start = 1..n
  OBVIOUS
<1> QED
  BY <1>6, <1>7, <1>11, <1>12, <1>13, <1>14, <1>15 DEF t, arr, n

(* Every tokenizer that is done answers with the tokens of its string, for   *)
(* any strings and delimiter, in both modes, and a copy of it still does     *)
(* when the original is gone (StrTokenizer.cpp:29-175).                      *)
THEOREM TokensAnswered == Spec => []TokensRight
<1>1. TokInv => TokensRight
  BY FinishedRight DEF TokensRight
<1> QED
  BY <1>1, TokInvInit, TokensStep, PTL DEF Spec
-----------------------------------------------------------------------------
Place == 0..extent

(* What was written of the buffer: the line, the NUL behind it, and a NUL at *)
(* the end; and a call of get_csv_field that has not gone further than one   *)
(* character behind that.                                                    *)
BufferOK ==
  /\ extent \in Nat /\ text \in [Place -> Letter \cup {EndOfString}]
  /\ text[extent] = EndOfString
  /\ line \in Seq(Letter) /\ Len(line) \in Nat /\ Len(line) <= extent
  /\ \A i \in 0..(Len(line) - 1) : text[i] = line[i + 1]
  /\ text[Len(line)] = EndOfString

CallOK ==
  /\ csv.pc \in {"none", "loop", "returned", "fault"}
  /\ csv.pc = "loop" =>
       /\ csv = [pc |-> "loop", tokenid |-> csv.tokenid, idx |-> csv.idx, pptr |-> csv.pptr]
       /\ csv.tokenid \in Nat /\ csv.idx \in 0..csv.tokenid
       /\ csv.pptr \in 0..(extent + 2)

CsvTypes == BufferOK /\ CallOK

LEMMA CsvTypesInit == Init => CsvTypes
<1> SUFFICES ASSUME Init PROVE CsvTypes
  OBVIOUS
<1>1. /\ text = [i \in Place |-> EndOfString] /\ line = <<>> /\ csv = [pc |-> "none"]
      /\ extent = 0
  BY DEF Init, CsvInit, NoField, Place
<1>2. Len(<<>>) = 0 /\ <<>> \in Seq(Letter)
  OBVIOUS
<1>3. BufferOK
  BY <1>1, <1>2 DEF BufferOK, Place
<1> QED
  BY <1>1, <1>3 DEF CsvTypes, CallOK

(* The character, or the NUL, is there, and this is the first place.         *)
LEMMA FoundInBuffer ==
  ASSUME BufferOK, NEW from \in Place, NEW c
  PROVE  LET i == Strchrnul(from, c)
         IN /\ i \in from..extent /\ i \in Place
            /\ text[i] \in {c, EndOfString}
            /\ \A j \in from..(i - 1) : text[j] \notin {c, EndOfString}
<1> DEFINE T == {i \in from..extent : text[i] \in {c, EndOfString}}
           P(i) == /\ text[i] \in {c, EndOfString}
                   /\ \A j \in from..(i - 1) : text[j] \notin {c, EndOfString}
<1>1. extent \in Nat /\ from \in Nat /\ from <= extent
  BY DEF Place, BufferOK
<1>2. T \in SUBSET Nat /\ T # {}
  <2>1. extent \in T
    BY <1>1 DEF BufferOK
  <2> QED
    BY <1>1, <2>1
<1>3. PICK k \in T : \A m \in T : k <= m
  BY <1>2, Least
<1>4. k \in from..extent /\ P(k)
  <2>1. \A j \in from..(k - 1) : j \in from..extent /\ ~(k <= j)
    BY <1>1
  <2> QED
    BY <1>3, <2>1
<1>5. Strchrnul(from, c) = CHOOSE i \in from..extent : P(i)
  BY DEF Strchrnul
<1> HIDE DEF P
<1>6. Strchrnul(from, c) \in from..extent /\ P(Strchrnul(from, c))
  BY <1>4, <1>5
<1> QED
  BY <1>1, <1>6 DEF P, Place

(* getline fills the beginning of the buffer.                                *)
LEMMA LineRead ==
  ASSUME BufferOK, NEW s \in Line, ReadLine(s)
  PROVE  BufferOK'
<1>1. /\ line' = s
      /\ extent' = IF Len(s) > extent THEN Len(s) ELSE extent
      /\ text' = [i \in Place' |-> IF i < Len(s) THEN s[i + 1]
                                   ELSE IF i = Len(s) THEN EndOfString ELSE text[i]]
  BY DEF ReadLine, Place
<1> DEFINE Any == Letter \cup {EndOfString}
           L == Letter
<1>2. s \in Seq(L) /\ Len(s) \in Nat /\ extent \in Nat
  BY LineAssumption DEF BufferOK
<1>3. /\ extent' \in Nat /\ Len(s) <= extent'
      /\ \/ extent' = Len(s)
         \/ extent' = extent /\ Len(s) < extent'
  <2> HIDE DEF L
  <2>1. CASE Len(s) > extent
    BY <1>1, <1>2, <2>1
  <2>2. CASE ~(Len(s) > extent)
    BY <1>1, <1>2, <2>2
  <2> QED
    BY <2>1, <2>2
<1> HIDE DEF L
<1>4. \A i \in Place' : i < Len(s) => s[i + 1] \in L
  <2> SUFFICES ASSUME NEW i \in Place', i < Len(s) PROVE s[i + 1] \in L
    OBVIOUS
  <2>1. i + 1 \in 1..Len(s)
    BY <1>2, <1>3 DEF Place
  <2> QED
    BY <1>2, <2>1, ElementOfSeq
<1>5. \A i \in Place' : ~(i < Len(s)) /\ i # Len(s) => text[i] \in Any
  <2> SUFFICES ASSUME NEW i \in Place', ~(i < Len(s)), i # Len(s) PROVE i \in Place
    BY DEF BufferOK
  <2> QED
    BY <1>2, <1>3 DEF Place
<1>6. \A i \in Place' : text'[i] \in Any
  BY <1>1, <1>4, <1>5 DEF L
<1>7. text' \in [Place' -> Any]
  BY <1>1, <1>6
<1>8. extent' \in Place' /\ Len(s) \in Place'
  BY <1>2, <1>3 DEF Place
<1>9. text'[Len(s)] = EndOfString
  BY <1>1, <1>2, <1>8
<1>10. text'[extent'] = EndOfString
  <2>1. CASE extent' = Len(s)
    BY <1>9, <2>1
  <2>2. CASE extent' = extent /\ Len(s) < extent'
    <3>1. ~(extent' < Len(s)) /\ extent' # Len(s) /\ text[extent'] = EndOfString
      BY <1>2, <2>2 DEF BufferOK
    <3> QED
      BY <1>1, <1>8, <3>1
  <2> QED
    BY <1>3, <2>1, <2>2
<1>11. \A i \in 0..(Len(s) - 1) : text'[i] = s[i + 1]
  <2>1. \A i \in 0..(Len(s) - 1) : i \in Place' /\ i < Len(s)
    BY <1>2, <1>3 DEF Place
  <2> QED
    BY <1>1, <2>1
<1> QED
  BY <1>1, <1>2, <1>3, <1>7, <1>9, <1>10, <1>11 DEF BufferOK, L

LEMMA CsvTypesStep == CsvTypes /\ [Next]_vars => CsvTypes'
<1> SUFFICES ASSUME BufferOK, CallOK, [Next]_vars PROVE CsvTypes'
  BY DEF CsvTypes
<1>1. ASSUME UNCHANGED <<text, extent, line>> PROVE BufferOK'
  BY <1>1 DEF BufferOK, Place
<1>2. ASSUME NEW s \in Line, ReadLine(s) PROVE CsvTypes'
  BY <1>2, LineRead DEF CsvTypes, CallOK, ReadLine, NoField
<1>3. ASSUME NEW n \in FieldNo, FieldCall(n) PROVE CsvTypes'
  <2>1. csv' = [pc |-> "loop", tokenid |-> n, idx |-> 0, pptr |-> 0]
    BY <1>3 DEF FieldCall
  <2>2. n \in Nat /\ extent' \in Nat
    BY <1>3, FieldNoAssumption DEF FieldCall, BufferOK
  <2>3. CallOK'
    BY <2>1, <2>2 DEF CallOK
  <2> QED
    BY <1>1, <1>3, <2>3 DEF FieldCall, CsvTypes
<1>4. ASSUME \/ \E result : Returns(result)
             \/ \E known : Undefined(known),
             UNCHANGED <<text, extent, line>>
      PROVE CsvTypes'
  <2>1. csv'.pc \in {"returned", "fault"}
    BY <1>4 DEF Returns, Undefined
  <2> QED
    BY <1>1, <1>4, <2>1 DEF CsvTypes, CallOK
<1>5. ASSUME FieldTurn PROVE CsvTypes'
  <2> DEFINE quoted == text[csv.pptr] = Quote
             start == IF quoted THEN csv.pptr + 1 ELSE csv.pptr
             end == Strchrnul(start, IF quoted THEN Quote ELSE Comma)
  <2>1. /\ csv.pc = "loop" /\ csv.pptr <= extent /\ text[csv.pptr] # EndOfString
        /\ csv.tokenid \in Nat /\ csv.idx \in 0..csv.tokenid /\ csv.pptr \in Nat
        /\ extent \in Nat
        /\ csv = [pc |-> "loop", tokenid |-> csv.tokenid, idx |-> csv.idx, pptr |-> csv.pptr]
    BY <1>5 DEF FieldTurn, CallOK, BufferOK
  <2>2. start \in Place
    <3>1. csv.pptr # extent
      BY <2>1 DEF BufferOK
    <3> QED
      BY <2>1, <3>1 DEF Place
  <2> HIDE DEF start
  <2>3. end \in 0..extent
    <3>1. end \in Place
      BY <2>2, FoundInBuffer
    <3> QED
      BY <3>1 DEF Place
  <2>4. CASE csv.idx = csv.tokenid
    <3>1. (Returns(Chars(start, end)) \/ Undefined({Chars(start, end)}))
          /\ UNCHANGED <<text, extent, line>>
      BY <1>5, <2>4 DEF FieldTurn, start
    <3> QED
      BY <1>4, <3>1
  <2>5. CASE csv.idx # csv.tokenid
    <3>1. csv' = [csv EXCEPT !.pptr = end + Inc(quoted), !.idx = @ + 1]
          /\ UNCHANGED <<text, extent, line>>
      BY <1>5, <2>5 DEF FieldTurn, start
    <3> HIDE DEF end
    <3>2. csv' = [pc |-> "loop", tokenid |-> csv.tokenid, idx |-> csv.idx + 1,
                  pptr |-> end + Inc(quoted)]
      BY <2>1, <3>1
    <3>3. Inc(quoted) \in 1..2
      BY DEF Inc
    <3>4. csv.idx + 1 \in 0..csv.tokenid /\ end + Inc(quoted) \in 0..(extent + 2)
      BY <2>1, <2>3, <2>5, <3>3
    <3>5. CallOK'
      BY <2>1, <3>1, <3>2, <3>4 DEF CallOK
    <3> QED
      BY <1>1, <3>1, <3>5 DEF CsvTypes
  <2> QED
    BY <2>4, <2>5
<1>6. ASSUME UNCHANGED csvVars PROVE CsvTypes'
  BY <1>6 DEF csvVars, CsvTypes, BufferOK, CallOK, Place
<1> QED
  BY <1>2, <1>3, <1>4, <1>5, <1>6 DEF Next, CsvNext, FieldMissing, FieldOutside, vars

(* Every value has its type; a tokenizer's offsets lie in its buffer, and a  *)
(* field's pointer in the line's or just behind it, for lines of any length  *)
(* (StrTokenizer.h:28-38, GeoAPI.cpp:51-55).                                 *)
THEOREM TextTypes == Spec => []TypeOK
<1>1. ASSUME TokInv, CsvTypes, TailInv, KeyInv PROVE TypeOK
  <2>1. ASSUME NEW o \in Object, tok[o] # NoTok
        PROVE  /\ tok[o].m_Copy \in DOMAIN mem
               /\ mem[tok[o].m_Copy] \in Seq(Char \cup {NUL})
               /\ Len(mem[tok[o].m_Copy]) = tok[o].m_CopySize + 4
               /\ \A i \in DOMAIN tok[o].m_vTokenArr :
                    tok[o].m_vTokenArr[i] \in 0..(tok[o].m_CopySize - 1)
    <3> DEFINE t == tok[o]
               s == mem[t.m_Copy]
               arr == t.m_vTokenArr
    <3>1. o \in Used
      BY <2>1 DEF Used
    <3>2. t.m_Copy \in DOMAIN mem
      BY <1>1, <3>1 DEF TokInv, BuffersInv
    <3>3. /\ t.m_CopySize = Len(t.src) + 1 /\ Scan(t.src, t.mode, t.at, arr, s)
          /\ t.mode \in {"strtok", "strchr"}
      BY <1>1, <3>1 DEF TokInv, TokOK
    <3>4. /\ s \in Seq(Characters) /\ Len(s) = Len(t.src) + 5 /\ arr \in Seq(Nat)
          /\ t.src \in Seq(Characters)
          /\ Firsts(arr) = {p \in Begins(t.src, t.mode) : p < Limit(t.mode, t.at)}
      BY <3>3 DEF Scan
    <3>5. EndOf(t.src) \in 1..(Len(t.src) + 1) /\ Len(t.src) \in Nat
      BY <3>3, ScanFacts
    <3>6. ASSUME NEW i \in DOMAIN arr PROVE arr[i] \in 0..(t.m_CopySize - 1)
      <4>1. i \in 1..Len(arr)
        BY <3>4
      <4>2. arr[i] + 1 \in Begins(t.src, t.mode) /\ arr[i] \in Nat
        BY <3>4, <4>1, ElementOfSeq DEF Firsts
      <4>3. arr[i] + 1 \in 1..EndOf(t.src)
        BY <3>3, <3>4, <4>2, BeginsFacts
      <4> QED
        BY <3>3, <3>5, <4>2, <4>3
    <3>7. Len(s) = t.m_CopySize + 4
      BY <3>3, <3>4, <3>5
    <3> QED
      BY <3>2, <3>4, <3>6, <3>7 DEF Characters
  <2>2. extent \in Nat /\ text \in [0..extent -> Letter \cup {EndOfString}]
    BY <1>1 DEF CsvTypes, BufferOK, Place
  <2>3. csv.pc = "loop" => csv.idx \in 0..csv.tokenid /\ csv.pptr \in 0..(extent + 2)
    BY <1>1 DEF CsvTypes, CallOK
  <2>4. tail.i \in 0..3 /\ tail.spos \in npos..Len(tail.line)
    BY <1>1 DEF TailInv, TailOK
  <2>5. number.b \in [1..4 -> 0..255]
    BY <1>1 DEF KeyInv
  <2> QED
    BY <2>1, <2>2, <2>3, <2>4, <2>5 DEF TypeOK
<1>2. Init => KeyInv
  BY DEF Init, NoNumber, KeyInv
<1> QED
  BY <1>1, <1>2, TokInvInit, TokensStep, CsvTypesInit, CsvTypesStep, TailInit, TailStep, KeyStep,
     PTL DEF Spec
=============================================================================
