---------------------------- MODULE CsvFieldProofs ----------------------------
(***************************************************************************)
(* TLAPS proofs about get_csv_field in TextInput, for lines and buffers of *)
(* any length.                                                             *)
(***************************************************************************)
EXTENDS TextInputProofs

(* The characters of a line before i, and those of them that are quotes.     *)
QuotesTo(s, i) == {j \in 1..(i-1) : s[j] = Quote}

LEMMA QuotesCounted ==
  ASSUME NEW s, NEW i \in Nat
  PROVE  IsFiniteSet(QuotesTo(s, i)) /\ QuotesBefore(s, i) \in Nat
<1>1. IsFiniteSet(1..(i-1)) /\ QuotesTo(s, i) \in SUBSET (1..(i-1))
  BY FS_Interval DEF QuotesTo
<1>2. IsFiniteSet(QuotesTo(s, i))
  BY <1>1, FS_Subset
<1>3. Cardinality(QuotesTo(s, i)) \in Nat
  BY <1>2, FS_CardinalityType
<1> QED
  BY <1>2, <1>3 DEF QuotesBefore, QuotesTo

LEMMA OneQuoteMore ==
  ASSUME NEW s, NEW i \in Nat, i >= 1, s[i] = Quote
  PROVE  QuotesBefore(s, i + 1) = QuotesBefore(s, i) + 1
<1>1. QuotesTo(s, i + 1) = QuotesTo(s, i) \cup {i} /\ i \notin QuotesTo(s, i)
  <2>1. \A j : j \in 1..((i + 1) - 1) <=> j \in 1..(i - 1) \/ j = i
    OBVIOUS
  <2>2. i \notin 1..(i - 1)
    OBVIOUS
  <2> QED
    BY <2>1, <2>2 DEF QuotesTo
<1>2. IsFiniteSet(QuotesTo(s, i))
  BY QuotesCounted
<1>3. Cardinality(QuotesTo(s, i) \cup {i}) = Cardinality(QuotesTo(s, i)) + 1
  BY <1>1, <1>2, FS_AddElement
<1> QED
  BY <1>1, <1>3 DEF QuotesBefore, QuotesTo

LEMMA NoQuoteMore ==
  ASSUME NEW s, NEW i \in Nat, i >= 1, NEW k \in Nat, i <= k,
         \A j \in i..(k - 1) : s[j] # Quote
  PROVE  QuotesBefore(s, k) = QuotesBefore(s, i)
<1>1. \A j : j \in 1..(k - 1) /\ s[j] = Quote <=> j \in 1..(i - 1) /\ s[j] = Quote
  OBVIOUS
<1>2. QuotesTo(s, k) = QuotesTo(s, i)
  BY <1>1 DEF QuotesTo
<1> QED
  BY <1>2 DEF QuotesBefore, QuotesTo

Even(s, i) == QuotesBefore(s, i) % 2 = 0

(* A quote turns even into odd and the reverse, other characters do not.     *)
LEMMA Parity ==
  ASSUME NEW s, NEW i \in Nat, i >= 1
  PROVE  /\ s[i] = Quote => (Even(s, i + 1) <=> ~Even(s, i))
         /\ ~Even(s, i) <=> QuotesBefore(s, i) % 2 = 1
         /\ \A k \in Nat : i <= k /\ (\A j \in i..(k - 1) : s[j] # Quote)
              => (Even(s, k) <=> Even(s, i))
<1>1. \A m \in Nat : /\ m % 2 = 0 \/ m % 2 = 1
                     /\ (m + 1) % 2 = 0 <=> m % 2 = 1
  OBVIOUS
<1>2. QuotesBefore(s, i) \in Nat
  BY QuotesCounted
<1>3. s[i] = Quote => QuotesBefore(s, i + 1) = QuotesBefore(s, i) + 1
  BY OneQuoteMore
<1>4. \A k \in Nat : i <= k /\ (\A j \in i..(k - 1) : s[j] # Quote)
                       => QuotesBefore(s, k) = QuotesBefore(s, i)
  BY NoQuoteMore
<1>5. ~Even(s, i) <=> QuotesBefore(s, i) % 2 = 1
  BY <1>1, <1>2 DEF Even
<1>6. s[i] = Quote => (Even(s, i + 1) <=> ~Even(s, i))
  BY <1>1, <1>2, <1>3 DEF Even
<1> QED
  BY <1>4, <1>5, <1>6 DEF Even

-----------------------------------------------------------------------------
(* What the definitions say of one place in a well-formed line.              *)
LEMMA CutFacts ==
  ASSUME NEW s, NEW i \in 1..Len(s), Len(s) \in Nat
  PROVE  /\ Cut(s, i) <=> \/ s[i] = Comma /\ Even(s, i)
                          \/ i > 1 /\ s[i-1] = Quote /\ ~Even(s, i - 1)
         /\ WellFormed(s) /\ s[i] = Quote /\ Even(s, i)
              => /\ i = 1 \/ Cut(s, i - 1)
                 /\ ~Cut(s, i)
                 /\ \E j \in (i+1)..Len(s) : s[j] = Quote
<1>1. i > 1 => (~Even(s, i - 1) <=> QuotesBefore(s, i - 1) % 2 = 1)
  <2>1. i > 1 => i - 1 \in Nat /\ i - 1 >= 1
    OBVIOUS
  <2> QED
    BY <2>1, Parity
<1>2. Cut(s, i) <=> \/ s[i] = Comma /\ Even(s, i)
                    \/ i > 1 /\ s[i-1] = Quote /\ ~Even(s, i - 1)
  BY <1>1 DEF Cut, Closing, Even
<1>3. ASSUME WellFormed(s), s[i] = Quote, Even(s, i)
      PROVE  /\ i = 1 \/ Cut(s, i - 1)
             /\ ~Cut(s, i)
             /\ \E j \in (i+1)..Len(s) : s[j] = Quote
  BY <1>3 DEF WellFormed, Even
<1> QED
  BY <1>2, <1>3

(* A field may begin here. *)
Opens(s) == {0} \cup Cuts(s)

(* A field begins outside quotes, and what it is cut off with is no quote.   *)
LEMMA OpensEven ==
  ASSUME NEW s, Len(s) \in Nat, WellFormed(s), NEW p \in Opens(s)
  PROVE  Even(s, p + 1) /\ p \in 0..Len(s) /\ (p >= 1 => s[p] # Quote)
<1>1. CASE p = 0
  <2>1. QuotesTo(s, 1) = {}
    BY DEF QuotesTo
  <2>2. QuotesBefore(s, 1) = 0
    BY <2>1, FS_EmptySet DEF QuotesBefore, QuotesTo
  <2>3. p + 1 = 1 /\ 0 % 2 = 0
    BY <1>1
  <2> QED
    BY <1>1, <2>2, <2>3 DEF Even
<1>2. CASE p # 0
  <2>1. p \in 1..Len(s) /\ Cut(s, p) /\ p \in Nat /\ p >= 1
    BY <1>2 DEF Opens, Cuts
  <2>2. \/ s[p] = Comma /\ Even(s, p)
        \/ p > 1 /\ s[p-1] = Quote /\ ~Even(s, p - 1)
    BY <2>1, CutFacts
  <2>3. Even(s, p)
    <3>1. CASE p > 1 /\ s[p-1] = Quote /\ ~Even(s, p - 1)
      <4>1. p - 1 \in Nat /\ p - 1 >= 1 /\ (p - 1) + 1 = p
        BY <2>1, <3>1
      <4>2. Even(s, (p - 1) + 1)
        BY <3>1, <4>1, Parity
      <4> QED
        BY <4>1, <4>2
    <3> QED
      BY <2>2, <3>1
  <2>4. s[p] # Quote
    BY <2>1, <2>3, CutFacts
  <2>5. Even(s, p + 1)
    <3>1. p + 1 \in Nat /\ p <= p + 1 /\ \A j \in p..((p + 1) - 1) : j = p
      BY <2>1
    <3> QED
      BY <2>1, <2>3, <2>4, <3>1, Parity
  <2> QED
    BY <2>1, <2>4, <2>5
<1> QED
  BY <1>1, <1>2

(* The part of a line from an opening to the next comma has no quotes unless *)
(* it begins with one, and that comma is the next cut.                       *)
LEMMA PlainPart ==
  ASSUME NEW s, Len(s) \in Nat, WellFormed(s), NEW p \in Opens(s),
         NEW q \in (p + 1)..(Len(s) + 1),
         \A k \in (p + 1)..(q - 1) : s[k] # Comma,
         p + 1 <= q - 1 => s[p + 1] # Quote
  PROVE  /\ \A k \in (p + 1)..(q - 1) : s[k] # Quote /\ ~Cut(s, k)
         /\ q <= Len(s) /\ s[q] = Comma => Cut(s, q)
<1>1. /\ p \in Nat /\ p <= Len(s) /\ q \in Nat /\ q >= p + 1 /\ q <= Len(s) + 1
      /\ Even(s, p + 1) /\ (p >= 1 => s[p] # Quote)
  <2>1. Even(s, p + 1) /\ p \in 0..Len(s) /\ (p >= 1 => s[p] # Quote)
    BY OpensEven
  <2> QED
    BY <2>1
<1>2. \A k \in (p + 1)..(q - 1) : s[k] # Quote
  <2> DEFINE T == {k \in (p + 1)..(q - 1) : s[k] = Quote}
  <2> SUFFICES ASSUME T # {} PROVE FALSE
    OBVIOUS
  <2>1. T \in SUBSET Nat
    BY <1>1
  <2>2. PICK k \in T : \A m \in T : k <= m
    BY <2>1, Least
  <2>3. k \in (p + 1)..(q - 1) /\ s[k] = Quote /\ k \in Nat /\ k # p + 1 /\ k >= p + 2
        /\ k \in 1..Len(s)
    BY <1>1, <2>2
  <2>4. \A j \in (p + 1)..(k - 1) : s[j] # Quote
    <3> SUFFICES ASSUME NEW j \in (p + 1)..(k - 1), s[j] = Quote PROVE FALSE
      OBVIOUS
    <3>1. j \in T /\ j < k
      BY <1>1, <2>3
    <3> QED
      BY <2>2, <2>3, <3>1
  <2>5. Even(s, k)
    <3>1. p + 1 \in Nat /\ p + 1 >= 1 /\ p + 1 <= k
      BY <1>1, <2>3
    <3> QED
      BY <1>1, <2>3, <2>4, <3>1, Parity
  <2>6. k # 1 /\ Cut(s, k - 1)
    BY <1>1, <2>3, <2>5, CutFacts
  <2>7. k - 1 \in 1..Len(s) /\ k - 1 \in (p + 1)..(q - 1)
    BY <1>1, <2>3
  <2>8. k - 1 > 1 /\ s[(k - 1) - 1] = Quote
    BY <2>6, <2>7, CutFacts
  <2>9. (k - 1) - 1 = k - 2 /\ (k - 2 \in (p + 1)..(k - 1) \/ (k - 2 = p /\ p >= 1))
    BY <1>1, <2>3, <2>8
  <2> QED
    BY <1>1, <2>4, <2>8, <2>9
<1>3. ASSUME NEW k \in (p + 1)..(q - 1) PROVE ~Cut(s, k)
  <2>1. k \in 1..Len(s) /\ k \in Nat
    BY <1>1
  <2>2. k > 1 => s[k-1] # Quote
    <3>1. k > 1 => k - 1 \in (p + 1)..(q - 1) \/ (k - 1 = p /\ p >= 1)
      BY <1>1, <2>1
    <3> QED
      BY <1>1, <1>2, <3>1
  <2> QED
    BY <2>1, <2>2, CutFacts
<1>4. ASSUME q <= Len(s), s[q] = Comma PROVE Cut(s, q)
  <2>1. q \in 1..Len(s)
    BY <1>1, <1>4
  <2>2. Even(s, q)
    <3>1. p + 1 \in Nat /\ p + 1 >= 1 /\ p + 1 <= q
      BY <1>1
    <3> QED
      BY <1>1, <1>2, <3>1, Parity
  <2> QED
    BY <1>4, <2>1, <2>2, CutFacts
<1> QED
  BY <1>2, <1>3, <1>4

(* A quoted part is cut off behind its closing quote.                        *)
LEMMA QuotedPart ==
  ASSUME NEW s, Len(s) \in Nat, WellFormed(s), NEW p \in Opens(s),
         NEW q \in (p + 2)..Len(s), s[p + 1] = Quote, s[q] = Quote,
         \A k \in (p + 2)..(q - 1) : s[k] # Quote
  PROVE  /\ \A k \in (p + 1)..q : ~Cut(s, k)
         /\ q + 1 <= Len(s) => Cut(s, q + 1)
<1>1. /\ p \in Nat /\ q \in Nat /\ q >= p + 2 /\ q <= Len(s)
      /\ Even(s, p + 1) /\ p + 1 \in 1..Len(s)
  <2>1. Even(s, p + 1) /\ p \in 0..Len(s)
    BY OpensEven
  <2> QED
    BY <2>1
<1>2. ~Even(s, p + 2)
  <2>1. p + 1 \in Nat /\ p + 1 >= 1 /\ (p + 1) + 1 = p + 2
    BY <1>1
  <2>2. ~Even(s, (p + 1) + 1)
    BY <1>1, <2>1, Parity
  <2> QED
    BY <2>1, <2>2
<1>3. ASSUME NEW k \in (p + 2)..q PROVE ~Even(s, k)
  <2>1. p + 2 \in Nat /\ p + 2 >= 1 /\ p + 2 <= k /\ k \in Nat
    BY <1>1
  <2>2. \A j \in (p + 2)..(k - 1) : s[j] # Quote
    <3>1. \A j \in (p + 2)..(k - 1) : j \in (p + 2)..(q - 1)
      BY <1>1
    <3> QED
      BY <3>1
  <2> QED
    BY <1>2, <2>1, <2>2, Parity
<1>4. ASSUME NEW k \in (p + 1)..q PROVE ~Cut(s, k)
  <2>1. CASE k = p + 1
    BY <1>1, <2>1, CutFacts
  <2>2. CASE k # p + 1
    <3>1. k \in (p + 2)..q /\ k \in 1..Len(s)
      BY <1>1, <2>2
    <3>2. ~Even(s, k)
      BY <1>3, <3>1
    <3>3. k - 1 = p + 1 \/ k - 1 \in (p + 2)..(q - 1)
      BY <1>1, <3>1
    <3>4. ~(s[k-1] = Quote /\ ~Even(s, k - 1))
      BY <1>1, <3>3
    <3> QED
      BY <3>1, <3>2, <3>4, CutFacts
  <2> QED
    BY <2>1, <2>2
<1>5. ASSUME q + 1 <= Len(s) PROVE Cut(s, q + 1)
  <2>1. q + 1 \in 1..Len(s) /\ q + 1 > 1 /\ (q + 1) - 1 = q /\ q \in (p + 2)..q
    BY <1>1, <1>5
  <2>2. ~Even(s, q)
    BY <1>3, <2>1
  <2> QED
    BY <2>1, <2>2, CutFacts
<1> QED
  BY <1>4, <1>5
-----------------------------------------------------------------------------
(* The number of the field that an opening opens, and where it is cut off.   *)
CutsTo(s, p) == {c \in Cuts(s) : c <= p}
Rank(s, p) == Cardinality(CutsTo(s, p))

CutOff(s, p, q) ==
  /\ q \in (p + 1)..(Len(s) + 1)
  /\ q = Len(s) + 1 \/ q \in Cuts(s)
  /\ \A k \in (p + 1)..(q - 1) : k \notin Cuts(s)

LEMMA RankFacts ==
  ASSUME NEW s, Len(s) \in Nat, NEW p \in Nat
  PROVE  /\ Cuts(s) \in SUBSET (1..Len(s)) /\ IsFiniteSet(Cuts(s)) /\ IsFiniteSet(CutsTo(s, p))
         /\ Rank(s, p) \in Nat /\ Cardinality(Cuts(s)) \in Nat
         /\ Rank(s, p) <= Cardinality(Cuts(s))
         /\ Rank(s, p) = Cardinality(Cuts(s)) => \A c \in Cuts(s) : c <= p
         /\ (\A c \in Cuts(s) : c <= p) => Rank(s, p) = Cardinality(Cuts(s))
<1>1. Cuts(s) \in SUBSET (1..Len(s)) /\ IsFiniteSet(1..Len(s))
  BY FS_Interval DEF Cuts
<1>2. IsFiniteSet(Cuts(s)) /\ CutsTo(s, p) \in SUBSET Cuts(s)
  BY <1>1, FS_Subset DEF CutsTo
<1>3. /\ IsFiniteSet(CutsTo(s, p)) /\ Rank(s, p) <= Cardinality(Cuts(s))
      /\ Cardinality(Cuts(s)) = Rank(s, p) => Cuts(s) = CutsTo(s, p)
  BY <1>2, FS_Subset DEF Rank
<1>4. Rank(s, p) \in Nat /\ Cardinality(Cuts(s)) \in Nat
  BY <1>2, <1>3, FS_CardinalityType DEF Rank
<1>5. Rank(s, p) = Cardinality(Cuts(s)) => \A c \in Cuts(s) : c <= p
  BY <1>3 DEF CutsTo
<1>6. (\A c \in Cuts(s) : c <= p) => Rank(s, p) = Cardinality(Cuts(s))
  <2>1. (\A c \in Cuts(s) : c <= p) => CutsTo(s, p) = Cuts(s)
    BY DEF CutsTo
  <2> QED
    BY <2>1 DEF Rank
<1> QED
  BY <1>1, <1>2, <1>3, <1>4, <1>5, <1>6

(* Ranks count up, so that a number has one opening.                         *)
LEMMA RankGrows ==
  ASSUME NEW s, Len(s) \in Nat, NEW p \in Nat, NEW q \in Cuts(s), p < q
  PROVE  Rank(s, p) < Rank(s, q)
<1>1. q \in Nat /\ Cuts(s) \in SUBSET (1..Len(s))
  <2>1. Cuts(s) \in SUBSET (1..Len(s))
    BY RankFacts
  <2> QED
    BY <2>1
<1>2. IsFiniteSet(CutsTo(s, p)) /\ IsFiniteSet(CutsTo(s, q))
      /\ Rank(s, p) \in Nat /\ Rank(s, q) \in Nat
  BY <1>1, RankFacts
<1>3. CutsTo(s, p) \cup {q} \in SUBSET CutsTo(s, q) /\ q \notin CutsTo(s, p)
  <2>1. \A c \in Cuts(s) : c \in Nat /\ (c <= p => c <= q)
    BY <1>1
  <2>2. ~(q <= p) /\ q <= q
    BY <1>1
  <2> QED
    BY <2>1, <2>2 DEF CutsTo
<1>4. Cardinality(CutsTo(s, p) \cup {q}) = Rank(s, p) + 1
  BY <1>2, <1>3, FS_AddElement DEF Rank
<1>5. Cardinality(CutsTo(s, p) \cup {q}) <= Rank(s, q)
  BY <1>2, <1>3, FS_Subset DEF Rank
<1> QED
  BY <1>2, <1>4, <1>5

LEMMA OneOpening ==
  ASSUME NEW s, Len(s) \in Nat, NEW p \in Opens(s), NEW q \in Opens(s),
         Rank(s, p) = Rank(s, q)
  PROVE  p = q
<1>1. p \in Nat /\ q \in Nat
  BY RankFacts DEF Opens
<1>2. Rank(s, p) \in Nat /\ Rank(s, q) \in Nat
  BY <1>1, RankFacts
<1>3. ~(p < q)
  <2> SUFFICES ASSUME p < q PROVE FALSE
    OBVIOUS
  <2>1. q \in Cuts(s)
    BY <1>1 DEF Opens
  <2> QED
    BY <1>1, <1>2, <2>1, RankGrows
<1>4. ~(q < p)
  <2> SUFFICES ASSUME q < p PROVE FALSE
    OBVIOUS
  <2>1. p \in Cuts(s)
    BY <1>1 DEF Opens
  <2> QED
    BY <1>1, <1>2, <2>1, RankGrows
<1> QED
  BY <1>1, <1>3, <1>4

(* The cut that ends a field opens the next.                                 *)
LEMMA NextRank ==
  ASSUME NEW s, Len(s) \in Nat, NEW p \in Nat, NEW q, CutOff(s, p, q)
  PROVE  /\ q \in Cuts(s) => Rank(s, q) = Rank(s, p) + 1
         /\ q = Len(s) + 1 => Rank(s, p) = Cardinality(Cuts(s))
         /\ q \in Cuts(s) => Rank(s, p) < Cardinality(Cuts(s))
<1>1. Cuts(s) \in SUBSET (1..Len(s)) /\ q \in Nat /\ q > p
  BY RankFacts DEF CutOff
<1>2. ASSUME q \in Cuts(s) PROVE Rank(s, q) = Rank(s, p) + 1
  <2> DEFINE T == Cuts(s)
             n == Len(s)
  <2>1. \A c \in T : c > p => c >= q
    <3>1. \A c \in T : c \in Nat /\ c \notin (p + 1)..(q - 1)
      BY <1>1 DEF CutOff
    <3> QED
      BY <1>1, <3>1
  <2>2. n \in Nat /\ T \in SUBSET (1..n) /\ q \in T /\ q > p /\ p \in Nat
    BY <1>1, <1>2
  <2> HIDE DEF T, n
  <2>3. Cardinality({c \in T : c <= q}) = Cardinality({c \in T : c <= p}) + 1
    BY <2>1, <2>2, OneMore, ZenonT(60)
  <2> QED
    BY <2>3 DEF Rank, CutsTo, T
<1>3. ASSUME q = Len(s) + 1 PROVE Rank(s, p) = Cardinality(Cuts(s))
  <2>1. \A c \in Cuts(s) : c <= p
    <3>1. \A c \in Cuts(s) : c \in Nat /\ c < q /\ c \notin (p + 1)..(q - 1)
      BY <1>1, <1>3 DEF CutOff
    <3> QED
      BY <1>1, <3>1
  <2> QED
    BY <2>1, RankFacts
<1>4. ASSUME q \in Cuts(s) PROVE Rank(s, p) < Cardinality(Cuts(s))
  <2>1. Rank(s, p) \in Nat /\ Rank(s, q) \in Nat /\ Cardinality(Cuts(s)) \in Nat
        /\ Rank(s, q) <= Cardinality(Cuts(s))
    BY <1>1, RankFacts
  <2> QED
    BY <1>2, <1>4, <2>1
<1> QED
  BY <1>2, <1>3, <1>4

(* A field is what lies between its opening and its cut, without quotes.     *)
LEMMA FieldBetween ==
  ASSUME NEW s, Len(s) \in Nat, NEW p \in Opens(s), NEW q, CutOff(s, p, q)
  PROVE  LET piece == SubSeq(s, p + 1, q - 1)
         IN Field(s, Rank(s, p)) =
              IF piece # <<>> /\ piece[1] = Quote THEN SubSeq(piece, 2, Len(piece) - 1) ELSE piece
<1> DEFINE n == Rank(s, p)
           start == CHOOSE i \in {0} \cup Cuts(s) : Cardinality({c \in Cuts(s) : c <= i}) = n
           next == CHOOSE i \in Cuts(s) : Cardinality({c \in Cuts(s) : c <= i}) = n + 1
           end == IF n = Cardinality(Cuts(s)) THEN Len(s) + 1 ELSE next
<1>1. /\ Cuts(s) \in SUBSET (1..Len(s)) /\ p \in Nat /\ n \in Nat /\ Cardinality(Cuts(s)) \in Nat
      /\ n <= Cardinality(Cuts(s))
  <2>1. Cuts(s) \in SUBSET (1..Len(s)) /\ 0 \in Nat
    BY RankFacts
  <2>2. p \in Nat
    BY <2>1 DEF Opens
  <2> QED
    BY <2>1, <2>2, RankFacts
<1>2. start = p
  <2>1. \E i \in Opens(s) : Rank(s, i) = n
    OBVIOUS
  <2>2. start = CHOOSE i \in Opens(s) : Rank(s, i) = n
    BY DEF Opens, Rank, CutsTo
  <2>3. start \in Opens(s) /\ Rank(s, start) = n
    BY <2>1, <2>2
  <2> HIDE DEF start
  <2> QED
    BY <2>3, OneOpening
<1>3. end = q
  <2>1. CASE q = Len(s) + 1
    BY <2>1, <1>1, NextRank
  <2>2. CASE q \in Cuts(s)
    <3>1. Rank(s, q) = n + 1 /\ n < Cardinality(Cuts(s))
      BY <1>1, <2>2, NextRank
    <3>2. next = CHOOSE i \in Cuts(s) : Rank(s, i) = n + 1
      BY DEF Rank, CutsTo
    <3>3. next \in Cuts(s) /\ Rank(s, next) = n + 1
      BY <2>2, <3>1, <3>2
    <3>4. end = next
      <4>1. n # Cardinality(Cuts(s))
        BY <1>1, <3>1
      <4> HIDE DEF n, next
      <4> QED
        BY <4>1
    <3> HIDE DEF next
    <3>5. next = q
      BY <2>2, <3>1, <3>3, OneOpening DEF Opens
    <3> QED
      BY <3>4, <3>5
  <2> QED
    BY <2>1, <2>2 DEF CutOff
<1> HIDE DEF n
<1>4. Field(s, n) = LET piece == SubSeq(s, start + 1, end - 1)
                    IN IF piece # <<>> /\ piece[1] = Quote
                       THEN SubSeq(piece, 2, Len(piece) - 1) ELSE piece
  BY DEF Field
<1> HIDE DEF start, end
<1> QED
  BY <1>2, <1>3, <1>4 DEF n
-----------------------------------------------------------------------------
(* A part of the line that is copied from its buffer.                        *)
LEMMA CharsCopied ==
  ASSUME BufferOK, NEW from \in 0..Len(line), NEW to \in from..Len(line)
  PROVE  /\ Chars(from, to) = SubSeq(line, from + 1, to)
         /\ Len(Chars(from, to)) = to - from
         /\ Chars(from, to) \in Seq(Letter)
         /\ \A i \in 1..(to - from) : Chars(from, to)[i] = line[from + i]
<1> DEFINE m == to - from
           L == Letter
<1>1. /\ from \in Nat /\ to \in Nat /\ m \in Nat /\ Len(line) \in Nat /\ to <= Len(line)
      /\ line \in Seq(L)
  BY DEF BufferOK
<1> HIDE DEF L
<1>2. \A i \in 1..m : /\ text[from + i - 1] = line[from + i]
                      /\ line[from + i] \in L
                      /\ from + 1 + i - 1 = from + i
  <2> SUFFICES ASSUME NEW i \in 1..m
               PROVE  /\ text[from + i - 1] = line[from + i]
                      /\ line[from + i] \in L
                      /\ from + 1 + i - 1 = from + i
    OBVIOUS
  <2>1. /\ from + i - 1 \in 0..(Len(line) - 1) /\ (from + i - 1) + 1 = from + i
        /\ from + i \in 1..Len(line) /\ from + 1 + i - 1 = from + i
    BY <1>1
  <2>2. text[from + i - 1] = line[(from + i - 1) + 1]
    BY <2>1 DEF BufferOK
  <2> QED
    BY <1>1, <2>1, <2>2, ElementOfSeq
<1>3. Chars(from, to) = [i \in 1..m |-> line[from + i]]
  BY <1>2 DEF Chars
<1>4. Chars(from, to) \in Seq(L)
  BY <1>1, <1>2, <1>3, IsASeq
<1>5. Len(Chars(from, to)) = m /\ \A i \in 1..m : Chars(from, to)[i] = line[from + i]
  BY <1>1, <1>3
<1>6. /\ SubSeq(line, from + 1, to) \in Seq(L)
      /\ Len(SubSeq(line, from + 1, to)) = m
      /\ \A i \in 1..m : SubSeq(line, from + 1, to)[i] = line[from + i]
  <2>1. \A i \in (from + 1)..to : line[i] \in L
    <3>1. \A i \in (from + 1)..to : i \in 1..Len(line)
      BY <1>1
    <3> QED
      BY <1>1, <3>1, ElementOfSeq
  <2>2. from + 1 \in Int /\ to \in Int
    BY <1>1
  <2>3. /\ SubSeq(line, from + 1, to) \in Seq(L)
        /\ Len(SubSeq(line, from + 1, to)) = IF from + 1 <= to THEN to - (from + 1) + 1 ELSE 0
        /\ \A i \in 1..(to - (from + 1) + 1) :
             SubSeq(line, from + 1, to)[i] = line[from + 1 + i - 1]
    BY <2>1, <2>2, SubSeqProperties
  <2>4. to - (from + 1) + 1 = m /\ (~(from + 1 <= to) => m = 0)
    BY <1>1
  <2> HIDE DEF m
  <2> QED
    BY <1>2, <2>3, <2>4
<1>7. Chars(from, to) = SubSeq(line, from + 1, to)
  BY <1>4, <1>5, <1>6, SeqEqual
<1> QED
  BY <1>4, <1>5, <1>7 DEF L

(* strchrnul over the line finds the character or the line's end.            *)
LEMMA FoundInLine ==
  ASSUME BufferOK, NEW from \in 0..Len(line), NEW c
  PROVE  LET i == Strchrnul(from, c)
         IN /\ i \in from..Len(line)
            /\ i < Len(line) => line[i + 1] = c
            /\ \A j \in (from + 1)..i : line[j] # c
<1> DEFINE i == Strchrnul(from, c)
<1>1. /\ from \in Nat /\ Len(line) \in Nat /\ Len(line) <= extent /\ extent \in Nat
      /\ text[Len(line)] = EndOfString
      /\ \A j \in 0..(Len(line) - 1) : text[j] = line[j + 1]
  BY DEF BufferOK
<1>2. from \in Place
  BY <1>1 DEF Place
<1>3. /\ i \in from..extent /\ text[i] \in {c, EndOfString}
      /\ \A j \in from..(i - 1) : text[j] \notin {c, EndOfString}
  BY <1>2, FoundInBuffer
<1> HIDE DEF i
<1>4. i \in from..Len(line)
  <2>1. ~(Len(line) \in from..(i - 1))
    BY <1>1, <1>3
  <2> QED
    BY <1>1, <1>3, <2>1
<1>5. i < Len(line) => line[i + 1] = c
  <2> SUFFICES ASSUME i < Len(line) PROVE line[i + 1] = c
    OBVIOUS
  <2>1. i + 1 \in 1..Len(line) /\ i \in 0..(Len(line) - 1)
    BY <1>1, <1>4
  <2> DEFINE L == Letter
  <2>2. line \in Seq(L) /\ EndOfString \notin L
    BY LetterAssumption DEF BufferOK
  <2> HIDE DEF L
  <2>3. line[i + 1] \in L
    BY <2>1, <2>2, ElementOfSeq
  <2> QED
    BY <1>1, <1>3, <2>1, <2>2, <2>3
<1>6. ASSUME NEW j \in (from + 1)..i PROVE line[j] # c
  <2>1. j - 1 \in from..(i - 1) /\ j - 1 \in 0..(Len(line) - 1) /\ (j - 1) + 1 = j
    BY <1>1, <1>4
  <2>2. text[j - 1] # c /\ text[j - 1] = line[(j - 1) + 1]
    BY <1>1, <1>3, <2>1
  <2> QED
    BY <2>1, <2>2
<1> QED
  BY <1>4, <1>5, <1>6 DEF i

(* A NUL in the line's part of the buffer is the line's end.                 *)
LEMMA NulAtEnd ==
  ASSUME BufferOK, NEW p \in 0..Len(line)
  PROVE  /\ text[p] = EndOfString <=> p = Len(line)
         /\ p < Len(line) => text[p] = line[p + 1]
<1>1. /\ Len(line) \in Nat /\ text[Len(line)] = EndOfString
      /\ \A j \in 0..(Len(line) - 1) : text[j] = line[j + 1]
  BY DEF BufferOK
<1>2. ASSUME p # Len(line) PROVE text[p] # EndOfString
  <2> DEFINE L == Letter
  <2>1. line \in Seq(L) /\ EndOfString \notin L
    BY LetterAssumption DEF BufferOK
  <2>2. p \in 0..(Len(line) - 1) /\ p + 1 \in 1..Len(line)
    BY <1>1, <1>2
  <2> HIDE DEF L
  <2>3. line[p + 1] \in L
    BY <2>1, <2>2, ElementOfSeq
  <2> QED
    BY <1>1, <2>1, <2>2, <2>3
<1> QED
  BY <1>1, <1>2

(* A turn goes from an opening to the next, or to behind the line.           *)
Opened(p, n) == p \in Opens(line) /\ Rank(line, p) = n

Turned(p, n, field, next) ==
  /\ n < FieldCount(line)
  /\ Field(line, n) = field
  /\ \/ Opened(next, n + 1)
     \/ next = Len(line) + 1 /\ n + 1 = FieldCount(line) /\ LastShows

(* What there is to show of either kind of turn.                             *)
LEMMA TurnEnds ==
  ASSUME BufferOK, NEW p \in Opens(line), NEW q, CutOff(line, p, q)
  PROVE  /\ Rank(line, p) < FieldCount(line)
         /\ \/ Opened(q, Rank(line, p) + 1)
            \/ q = Len(line) + 1 /\ Rank(line, p) + 1 = FieldCount(line)
<1>1. Len(line) \in Nat
  BY DEF BufferOK
<1>2. p \in Nat
  <2>1. Cuts(line) \in SUBSET (1..Len(line)) /\ 0 \in Nat
    BY <1>1, RankFacts
  <2> QED
    BY <2>1 DEF Opens
<1>3. /\ Rank(line, p) \in Nat /\ Rank(line, p) <= Cardinality(Cuts(line))
      /\ Cardinality(Cuts(line)) \in Nat
  BY <1>1, <1>2, RankFacts
<1>4. /\ q \in Cuts(line) => Rank(line, q) = Rank(line, p) + 1
      /\ q = Len(line) + 1 => Rank(line, p) = Cardinality(Cuts(line))
  BY <1>1, <1>2, NextRank
<1>5. q = Len(line) + 1 \/ q \in Cuts(line)
  BY DEF CutOff
<1> QED
  BY <1>3, <1>4, <1>5 DEF FieldCount, Opened, Opens

LEMMA PlainTurn ==
  ASSUME BufferOK, WellFormed(line), NEW p \in Opens(line), p < Len(line),
         text[p] # Quote, NEW end, end = Strchrnul(p, Comma)
  PROVE  /\ Turned(p, Rank(line, p), Chars(p, end), end + 1)
         /\ end \in p..Len(line)
<1> DEFINE q == end + 1
           n == Rank(line, p)
<1>1. /\ Len(line) \in Nat /\ p \in Nat /\ p \in 0..Len(line)
      /\ end \in p..Len(line) /\ (end < Len(line) => line[end + 1] = Comma)
      /\ \A j \in (p + 1)..end : line[j] # Comma
  <2>1. Len(line) \in Nat
    BY DEF BufferOK
  <2>2. p \in 0..Len(line)
    BY <2>1, OpensEven
  <2>3. /\ end \in p..Len(line) /\ (end < Len(line) => line[end + 1] = Comma)
        /\ \A j \in (p + 1)..end : line[j] # Comma
    BY <2>2, FoundInLine
  <2> QED
    BY <2>1, <2>2, <2>3
<1>2. line[p + 1] # Quote
  BY <1>1, NulAtEnd
<1>3. /\ q \in (p + 1)..(Len(line) + 1) /\ q - 1 = end
      /\ \A k \in (p + 1)..(q - 1) : line[k] # Comma
      /\ q <= Len(line) => line[q] = Comma
  BY <1>1
<1>4. /\ \A k \in (p + 1)..(q - 1) : ~Cut(line, k)
      /\ q <= Len(line) /\ line[q] = Comma => Cut(line, q)
  BY <1>1, <1>2, <1>3, PlainPart
<1>5. CutOff(line, p, q)
  <2>1. q = Len(line) + 1 \/ q \in 1..Len(line)
    BY <1>1, <1>3
  <2>2. q = Len(line) + 1 \/ q \in Cuts(line)
    BY <1>1, <1>3, <1>4, <2>1 DEF Cuts
  <2> QED
    BY <1>3, <1>4, <2>2 DEF CutOff, Cuts
<1>6. /\ n < FieldCount(line)
      /\ \/ Opened(q, n + 1)
         \/ q = Len(line) + 1 /\ n + 1 = FieldCount(line)
  BY <1>5, TurnEnds
<1> DEFINE piece == SubSeq(line, p + 1, q - 1)
<1>7. /\ piece = Chars(p, end) /\ Len(piece) = end - p
      /\ \A i \in 1..(end - p) : piece[i] = line[p + i]
  <2>1. /\ Chars(p, end) = SubSeq(line, p + 1, end) /\ Len(Chars(p, end)) = end - p
        /\ \A i \in 1..(end - p) : Chars(p, end)[i] = line[p + i]
    BY <1>1, CharsCopied
  <2>2. piece = SubSeq(line, p + 1, end)
    BY <1>3
  <2> HIDE DEF piece
  <2> QED
    BY <2>1, <2>2
<1>8. Field(line, n) = IF piece # <<>> /\ piece[1] = Quote
                       THEN SubSeq(piece, 2, Len(piece) - 1) ELSE piece
  BY <1>1, <1>5, FieldBetween
<1> HIDE DEF piece, q
<1>9. piece # <<>> => piece[1] # Quote
  <2> SUFFICES ASSUME piece # <<>> PROVE piece[1] # Quote
    OBVIOUS
  <2>1. piece \in Seq(Letter)
    BY <1>1, <1>7, CharsCopied
  <2>2. Len(piece) # 0
    BY <2>1, EmptySeq
  <2>3. 1 \in 1..(end - p)
    BY <1>1, <1>7, <2>2
  <2> QED
    BY <1>2, <1>7, <2>3
<1>10. Field(line, n) = Chars(p, end)
  BY <1>7, <1>8, <1>9
<1>11. q = Len(line) + 1 => Field(line, n) # <<>>
  <2> SUFFICES ASSUME q = Len(line) + 1 PROVE Chars(p, end) # <<>>
    BY <1>10
  <2>1. end - p > 0 /\ Len(Chars(p, end)) = end - p
    BY <1>1, <1>3, <1>7
  <2>2. Len(<<>>) = 0
    OBVIOUS
  <2> QED
    BY <1>1, <2>1, <2>2
<1>12. n + 1 = FieldCount(line) => n = FieldCount(line) - 1
  <2>1. n \in Nat /\ Cardinality(Cuts(line)) \in Nat
    BY <1>1, RankFacts
  <2> QED
    BY <2>1 DEF FieldCount
<1> HIDE DEF n
<1>13. Turned(p, n, Chars(p, end), q)
  BY <1>6, <1>10, <1>11, <1>12 DEF Turned, LastShows
<1> QED
  BY <1>1, <1>13 DEF n, q

LEMMA QuotedTurn ==
  ASSUME BufferOK, WellFormed(line), NEW p \in Opens(line), p < Len(line),
         text[p] = Quote, NEW end, end = Strchrnul(p + 1, Quote)
  PROVE  /\ Turned(p, Rank(line, p), Chars(p + 1, end), end + 2)
         /\ end \in (p + 1)..Len(line)
<1> DEFINE e == end + 1
           q == end + 2
           n == Rank(line, p)
<1>1. /\ Len(line) \in Nat /\ p \in Nat /\ p + 1 \in 0..Len(line) /\ p + 1 \in 1..Len(line)
      /\ Even(line, p + 1) /\ p \in 0..Len(line)
  <2>1. Len(line) \in Nat
    BY DEF BufferOK
  <2>2. p \in 0..Len(line) /\ Even(line, p + 1)
    BY <2>1, OpensEven
  <2> QED
    BY <2>1, <2>2
<1>2. /\ end \in (p + 1)..Len(line) /\ (end < Len(line) => line[end + 1] = Quote)
      /\ \A j \in ((p + 1) + 1)..end : line[j] # Quote
  BY <1>1, FoundInLine
<1>3. line[p + 1] = Quote
  BY <1>1, NulAtEnd
<1>4. end < Len(line)
  <2>1. PICK j \in ((p + 1) + 1)..Len(line) : line[j] = Quote
    BY <1>1, <1>3, CutFacts
  <2>2. ~(j \in ((p + 1) + 1)..end)
    BY <1>2, <2>1
  <2> QED
    BY <1>1, <1>2, <2>1, <2>2
<1>5. /\ e \in (p + 2)..Len(line) /\ line[e] = Quote /\ e + 1 = q /\ q - 1 = e /\ e - 1 = end
      /\ \A k \in (p + 2)..(e - 1) : line[k] # Quote
  <2>1. (p + 1) + 1 = p + 2 /\ e - 1 = end
    BY <1>1, <1>2
  <2> QED
    BY <1>1, <1>2, <1>4, <2>1
<1> HIDE DEF e, q
<1>6. /\ \A k \in (p + 1)..e : ~Cut(line, k)
      /\ e + 1 <= Len(line) => Cut(line, e + 1)
  BY <1>1, <1>3, <1>5, QuotedPart
<1>7. CutOff(line, p, q)
  <2>1. q \in (p + 1)..(Len(line) + 1) /\ (q = Len(line) + 1 \/ q \in 1..Len(line))
    BY <1>1, <1>5
  <2>2. q = Len(line) + 1 \/ q \in Cuts(line)
    BY <1>1, <1>5, <1>6, <2>1 DEF Cuts
  <2> QED
    BY <1>5, <1>6, <2>1, <2>2 DEF CutOff, Cuts
<1>8. /\ n < FieldCount(line)
      /\ \/ Opened(q, n + 1)
         \/ q = Len(line) + 1 /\ n + 1 = FieldCount(line)
  BY <1>7, TurnEnds
<1> DEFINE piece == SubSeq(line, p + 1, q - 1)
           inner == SubSeq(piece, 2, Len(piece) - 1)
           L == Letter
<1> HIDE DEF L
<1>9. /\ piece \in Seq(L) /\ Len(piece) = e - p /\ e - p \in Nat /\ e - p >= 2
      /\ \A i \in 1..(e - p) : piece[i] = line[p + i]
  <2>1. e \in p..Len(line)
    BY <1>1, <1>5
  <2>2. /\ Chars(p, e) = SubSeq(line, p + 1, e) /\ Len(Chars(p, e)) = e - p
        /\ Chars(p, e) \in Seq(L)
        /\ \A i \in 1..(e - p) : Chars(p, e)[i] = line[p + i]
    BY <1>1, <2>1, CharsCopied DEF L
  <2>3. piece = SubSeq(line, p + 1, e)
    BY <1>5
  <2>4. e - p \in Nat /\ e - p >= 2
    BY <1>1, <1>5
  <2> HIDE DEF piece
  <2> QED
    BY <2>2, <2>3, <2>4
<1>10. Field(line, n) = IF piece # <<>> /\ piece[1] = Quote THEN inner ELSE piece
  BY <1>1, <1>7, FieldBetween
<1> HIDE DEF piece
<1>11. piece # <<>> /\ piece[1] = Quote
  <2>1. 1 \in 1..(e - p)
    BY <1>9
  <2>2. Len(piece) # 0 /\ Len(<<>>) = 0
    BY <1>9
  <2> QED
    BY <1>3, <1>9, <2>1, <2>2
<1>12. /\ inner \in Seq(L) /\ Len(inner) = e - p - 2
       /\ \A i \in 1..(e - p - 2) : inner[i] = line[p + 1 + i]
  <2> DEFINE m == Len(piece) - 1
  <2>1. m \in Int /\ m = e - p - 1 /\ m >= 1
    BY <1>9
  <2>2. \A i \in 2..m : piece[i] \in L
    <3>1. \A i \in 2..m : i \in 1..Len(piece)
      BY <1>9, <2>1
    <3> QED
      BY <1>9, <3>1, ElementOfSeq
  <2> HIDE DEF m
  <2>3. /\ SubSeq(piece, 2, m) \in Seq(L)
        /\ Len(SubSeq(piece, 2, m)) = IF 2 <= m THEN m - 2 + 1 ELSE 0
        /\ \A i \in 1..(m - 2 + 1) : SubSeq(piece, 2, m)[i] = piece[2 + i - 1]
    BY <2>1, <2>2, SubSeqProperties
  <2>4. m - 2 + 1 = e - p - 2 /\ (~(2 <= m) => e - p - 2 = 0)
    BY <1>1, <1>5, <2>1
  <2>5. \A i \in 1..(e - p - 2) : piece[2 + i - 1] = line[p + 1 + i]
    <3> SUFFICES ASSUME NEW i \in 1..(e - p - 2) PROVE piece[2 + i - 1] = line[p + 1 + i]
      OBVIOUS
    <3>1. 2 + i - 1 \in 1..(e - p) /\ p + (2 + i - 1) = p + 1 + i
      BY <1>1, <1>5
    <3> QED
      BY <1>9, <3>1
  <2>6. inner = SubSeq(piece, 2, m)
    BY DEF m
  <2> HIDE DEF inner
  <2> QED
    BY <2>3, <2>4, <2>5, <2>6
<1> HIDE DEF inner
<1>13. Field(line, n) = Chars(p + 1, end)
  <2>1. /\ Len(Chars(p + 1, end)) = end - (p + 1) /\ Chars(p + 1, end) \in Seq(L)
        /\ \A i \in 1..(end - (p + 1)) : Chars(p + 1, end)[i] = line[p + 1 + i]
    BY <1>1, <1>2, CharsCopied DEF L
  <2>2. end - (p + 1) = e - p - 2
    BY <1>1, <1>2, <1>5
  <2>3. inner = Chars(p + 1, end)
    BY <1>12, <2>1, <2>2, SeqEqual
  <2> QED
    BY <1>10, <1>11, <2>3
<1>14. q = Len(line) + 1 => line # <<>> /\ line[Len(line)] = Quote
  <2>1. q = Len(line) + 1 => Len(line) = e
    BY <1>1, <1>5
  <2>2. Len(line) # 0 /\ Len(<<>>) = 0
    BY <1>1
  <2> QED
    BY <1>5, <2>1, <2>2
<1> HIDE DEF n
<1>15. Turned(p, n, Chars(p + 1, end), q)
  BY <1>8, <1>13, <1>14 DEF Turned, LastShows
<1> QED
  BY <1>2, <1>15 DEF n, q
-----------------------------------------------------------------------------
(* The loop is at a field that the line has, and has not left the line; or   *)
(* it has had all of them.                                                   *)
Within == Opened(csv.pptr, csv.idx) /\ past = FALSE
Behind == csv.pptr > Len(line) /\ csv.idx >= FieldCount(line) /\ LastShows

LoopInv == csv.pc = "loop" /\ WellFormed(line) => Within \/ Behind

CsvInv == CsvTypes /\ LoopInv /\ FieldRight /\ StaysInLine

LEMMA CsvInvInit == Init => CsvInv
<1> SUFFICES ASSUME Init PROVE CsvInv
  OBVIOUS
<1>1. csv.pc = "none"
  BY DEF Init, CsvInit, NoField
<1> QED
  BY <1>1, CsvTypesInit DEF CsvInv, LoopInv, FieldRight, StaysInLine, Stopped, Present

(* At the last field there is nothing behind, and there it is empty.         *)
LEMMA AtLineEnd ==
  ASSUME BufferOK, NEW n, Opened(Len(line), n), WellFormed(line)
  PROVE  n + 1 = FieldCount(line) /\ n \in Nat /\ Field(line, n) = <<>>
<1> DEFINE p == Len(line)
           q == p + 1
<1>1. p \in Nat /\ p \in Opens(line) /\ Rank(line, p) = n /\ Len(line) \in Nat
  BY DEF BufferOK, Opened
<1>2. n \in Nat /\ Cardinality(Cuts(line)) \in Nat
  BY <1>1, RankFacts
<1>3. q \in (p + 1)..(Len(line) + 1) /\ \A k : k \notin (p + 1)..(q - 1)
  BY <1>1
<1>4. CutOff(line, p, q)
  BY <1>3 DEF CutOff
<1>5. n = Cardinality(Cuts(line))
  BY <1>1, <1>4, NextRank
<1>6. SubSeq(line, p + 1, q - 1) = <<>>
  <2>1. p + 1 \in Int /\ q - 1 \in Int /\ q - 1 < p + 1
    BY <1>1
  <2> QED
    BY <2>1, SubSeqEmpty
<1>7. Field(line, n) = <<>>
  BY <1>1, <1>4, <1>6, FieldBetween
<1> QED
  BY <1>2, <1>5, <1>7 DEF FieldCount

(* A call that ends at a NUL answers with nothing.                           *)
LEMMA NothingThere ==
  ASSUME CsvInv, FieldMissing
  PROVE  FieldRight' /\ StaysInLine'
<1>1. /\ csv.pc = "loop" /\ line' = line /\ text' = text
      /\ csv' = [pc |-> "returned", tokenid |-> csv.tokenid, field |-> <<>>]
      /\ past' = (past \/ csv.pptr > Len(line))
      /\ text[csv.pptr] = EndOfString
  BY DEF FieldMissing, Returns
<1>2. /\ csv.idx \in Nat /\ csv.tokenid \in Nat /\ csv.idx <= csv.tokenid /\ csv.pptr \in Nat
      /\ BufferOK /\ Len(line) \in Nat
  <2>1. csv.idx \in 0..csv.tokenid /\ csv.tokenid \in Nat /\ csv.pptr \in 0..(extent + 2)
    BY <1>1 DEF CsvInv, CsvTypes, CallOK
  <2> QED
    BY <2>1 DEF CsvInv, CsvTypes, BufferOK
<1>3. csv'.pc = "returned" /\ csv'.tokenid = csv.tokenid /\ csv'.field = <<>>
  BY <1>1
<1> SUFFICES ASSUME WellFormed(line)
             PROVE  /\ csv.tokenid < FieldCount(line) => Field(line, csv.tokenid) = <<>>
                    /\ past' => ~(csv.tokenid < FieldCount(line)) /\ LastShows
  BY <1>1, <1>3 DEF FieldRight, StaysInLine, Stopped, Present, LastShows
<1>4. FieldCount(line) \in Nat
  <2>1. Cardinality(Cuts(line)) \in Nat
    BY <1>2, RankFacts
  <2> QED
    BY <2>1 DEF FieldCount
<1>5. CASE Within
  <2>1. csv.pptr \in 0..Len(line) /\ past = FALSE /\ Opened(csv.pptr, csv.idx)
    <3>1. csv.pptr \in Opens(line)
      BY <1>5 DEF Within, Opened
    <3> QED
      BY <1>2, <1>5, <3>1, OpensEven DEF Within
  <2>2. csv.pptr = Len(line)
    BY <1>1, <1>2, <2>1, NulAtEnd
  <2>3. csv.idx + 1 = FieldCount(line) /\ Field(line, csv.idx) = <<>>
    BY <1>2, <2>1, <2>2, AtLineEnd
  <2>4. csv.tokenid < FieldCount(line) => csv.tokenid = csv.idx
    BY <1>2, <2>3
  <2>5. past' = FALSE
    <3>1. ~(csv.pptr > Len(line))
      BY <1>2, <2>2
    <3> QED
      BY <1>1, <2>1, <3>1, Zenon
  <2> QED
    BY <2>3, <2>4, <2>5
<1>6. CASE Behind
  <2>1. ~(csv.tokenid < FieldCount(line))
    BY <1>2, <1>4, <1>6 DEF Behind
  <2> QED
    BY <1>6, <2>1 DEF Behind
<1> QED
  BY <1>1, <1>5, <1>6 DEF CsvInv, LoopInv

(* One that leaves what was written of the buffer has had all the fields of  *)
(* the line, so that it may return anything.                                 *)
LEMMA NothingKnown ==
  ASSUME CsvInv, FieldOutside
  PROVE  LoopInv' /\ FieldRight' /\ StaysInLine'
<1>1. /\ csv.pc = "loop" /\ line' = line /\ text' = text /\ csv.pptr > extent
      /\ csv'.pc \in {"returned", "fault"} /\ csv'.tokenid = csv.tokenid
  BY DEF FieldOutside, Undefined, Returns
<1>2. /\ BufferOK /\ Len(line) \in Nat /\ Len(line) <= extent /\ extent \in Nat
      /\ csv.tokenid \in Nat /\ csv.idx \in Nat /\ csv.idx <= csv.tokenid /\ csv.pptr \in Nat
  <2>1. csv.idx \in 0..csv.tokenid /\ csv.tokenid \in Nat /\ csv.pptr \in 0..(extent + 2)
    BY <1>1 DEF CsvInv, CsvTypes, CallOK
  <2> QED
    BY <2>1 DEF CsvInv, CsvTypes, BufferOK
<1> SUFFICES ASSUME WellFormed(line)
             PROVE  ~(csv.tokenid < FieldCount(line)) /\ LastShows
  BY <1>1 DEF LoopInv, FieldRight, StaysInLine, Stopped, Present, LastShows
<1>3. ~Within
  <2> SUFFICES ASSUME Within PROVE FALSE
    OBVIOUS
  <2>1. csv.pptr \in 0..Len(line)
    <3>1. csv.pptr \in Opens(line)
      BY DEF Within, Opened
    <3> QED
      BY <1>2, <3>1, OpensEven
  <2> QED
    BY <1>1, <1>2, <2>1
<1>4. csv.idx >= FieldCount(line) /\ LastShows
  BY <1>1, <1>3 DEF CsvInv, LoopInv, Behind
<1>5. Cardinality(Cuts(line)) \in Nat
  BY <1>2, RankFacts
<1> QED
  BY <1>2, <1>4, <1>5 DEF FieldCount

(* A turn at a field of the line.                                            *)
LEMMA TurnWithin ==
  ASSUME CsvInv, FieldTurn, WellFormed(line), Within
  PROVE  LoopInv' /\ FieldRight' /\ StaysInLine'
<1> DEFINE p == csv.pptr
           n == csv.idx
           quoted == text[p] = Quote
           start == IF quoted THEN p + 1 ELSE p
           end == Strchrnul(start, IF quoted THEN Quote ELSE Comma)
           next == end + Inc(quoted)
<1>1. /\ BufferOK /\ Len(line) \in Nat /\ p \in Opens(line) /\ Rank(line, p) = n
      /\ past = FALSE /\ csv.pc = "loop" /\ text[p] # EndOfString
      /\ csv = [pc |-> "loop", tokenid |-> csv.tokenid, idx |-> csv.idx, pptr |-> csv.pptr]
  BY DEF CsvInv, CsvTypes, BufferOK, CallOK, Within, Opened, FieldTurn
<1>2. p \in 0..Len(line) /\ p < Len(line)
  <2>1. p \in 0..Len(line)
    BY <1>1, OpensEven
  <2>2. p # Len(line)
    BY <1>1, <2>1, NulAtEnd
  <2> QED
    BY <1>1, <2>1, <2>2
<1>3. past' = FALSE /\ line' = line /\ text' = text
  <2>1. ~(csv.pptr > Len(line))
    BY <1>1, <1>2
  <2>2. past' = (past \/ csv.pptr > Len(line)) /\ line' = line /\ text' = text
    BY DEF FieldTurn
  <2> QED
    BY <1>1, <2>1, <2>2, Zenon
<1>4. IF csv.idx = csv.tokenid
      THEN IF end - start < BufSize THEN Returns(Chars(start, end))
           ELSE Undefined({Chars(start, end)})
      ELSE csv' = [csv EXCEPT !.pptr = end + Inc(quoted), !.idx = @ + 1]
  BY DEF FieldTurn
<1>5. /\ Turned(p, n, Chars(start, end), next)
      /\ start \in 0..Len(line) /\ end \in start..Len(line)
  <2>1. CASE quoted
    <3>1. start = p + 1 /\ next = end + 2 /\ end = Strchrnul(p + 1, Quote)
      BY <2>1 DEF Inc
    <3> HIDE DEF start, end, next
    <3>2. /\ Turned(p, Rank(line, p), Chars(p + 1, end), end + 2)
          /\ end \in (p + 1)..Len(line)
      BY <1>1, <1>2, <2>1, <3>1, QuotedTurn
    <3> QED
      BY <1>1, <1>2, <3>1, <3>2
  <2>2. CASE ~quoted
    <3>1. start = p /\ next = end + 1 /\ end = Strchrnul(p, Comma)
      BY <2>2 DEF Inc
    <3> HIDE DEF start, end, next
    <3>2. /\ Turned(p, Rank(line, p), Chars(p, end), end + 1)
          /\ end \in p..Len(line)
      BY <1>1, <1>2, <2>2, <3>1, PlainTurn
    <3> QED
      BY <1>1, <1>2, <3>1, <3>2
  <2> QED
    BY <2>1, <2>2
<1> HIDE DEF start, end, quoted
<1>6. CASE csv.idx = csv.tokenid
  <2>1. /\ csv'.pc \in {"returned", "fault"} /\ csv'.tokenid = n
        /\ end - start < BufSize => csv'.pc = "returned" /\ csv'.field = Chars(start, end)
    BY <1>4, <1>6 DEF Returns, Undefined
  <2>2. n < FieldCount(line) /\ Field(line, n) = Chars(start, end)
    BY <1>5 DEF Turned
  <2>3. Len(Chars(start, end)) = end - start
    BY <1>1, <1>5, CharsCopied
  <2>4. Len(Field(line, n)) < BufSize => csv'.pc = "returned" /\ csv'.field = Field(line, n)
    BY <2>1, <2>2, <2>3
  <2> HIDE DEF n
  <2> QED
    BY <1>3, <2>1, <2>2, <2>4 DEF LoopInv, FieldRight, StaysInLine, Stopped, Present
<1>7. CASE csv.idx # csv.tokenid
  <2>1. csv' = [pc |-> "loop", tokenid |-> csv.tokenid, idx |-> n + 1, pptr |-> next]
    BY <1>1, <1>4, <1>7
  <2> HIDE DEF next
  <2>2. csv'.pc = "loop" /\ csv'.idx = n + 1 /\ csv'.pptr = next
    BY <2>1
  <2>3. \/ Opened(next, n + 1)
        \/ next = Len(line) + 1 /\ n + 1 = FieldCount(line) /\ LastShows
    BY <1>5 DEF Turned
  <2>4. Within' \/ Behind'
    <3>1. CASE Opened(next, n + 1)
      BY <1>3, <2>2, <3>1 DEF Within, Opened
    <3>2. CASE next = Len(line) + 1 /\ n + 1 = FieldCount(line) /\ LastShows
      <4>1. next > Len(line)
        BY <1>1, <3>2
      <4>2. n + 1 >= FieldCount(line)
        <5>1. Cardinality(Cuts(line)) \in Nat
          BY <1>1, <1>2, RankFacts
        <5> QED
          BY <3>2, <5>1 DEF FieldCount
      <4>3. LastShows'
        BY <1>3, <3>2 DEF LastShows
      <4> QED
        BY <1>3, <2>2, <4>1, <4>2, <4>3 DEF Behind
    <3> QED
      BY <2>3, <3>1, <3>2
  <2> QED
    BY <2>2, <2>4 DEF LoopInv, FieldRight, StaysInLine, Stopped, Present
<1> QED
  BY <1>6, <1>7

(* A turn behind the line reads what earlier lines have left.                *)
LEMMA TurnBehind ==
  ASSUME CsvInv, FieldTurn, WellFormed(line), Behind
  PROVE  LoopInv' /\ FieldRight' /\ StaysInLine'
<1> DEFINE p == csv.pptr
           quoted == text[p] = Quote
           start == IF quoted THEN p + 1 ELSE p
           end == Strchrnul(start, IF quoted THEN Quote ELSE Comma)
           next == end + Inc(quoted)
<1>1. /\ BufferOK /\ Len(line) \in Nat /\ csv.pc = "loop" /\ text[p] # EndOfString
      /\ csv = [pc |-> "loop", tokenid |-> csv.tokenid, idx |-> csv.idx, pptr |-> csv.pptr]
      /\ csv.tokenid \in Nat /\ csv.idx \in Nat /\ csv.idx <= csv.tokenid
      /\ p \in Nat /\ p <= extent /\ extent \in Nat
      /\ p > Len(line) /\ csv.idx >= FieldCount(line) /\ LastShows
  <2>1. /\ csv.tokenid \in Nat /\ csv.idx \in 0..csv.tokenid /\ p \in 0..(extent + 2)
        /\ csv = [pc |-> "loop", tokenid |-> csv.tokenid, idx |-> csv.idx, pptr |-> csv.pptr]
    BY DEF CsvInv, CsvTypes, CallOK, FieldTurn
  <2>2. BufferOK /\ Len(line) \in Nat /\ csv.pc = "loop" /\ p <= extent /\ text[p] # EndOfString
    BY DEF CsvInv, CsvTypes, BufferOK, FieldTurn
  <2>3. p > Len(line) /\ csv.idx >= FieldCount(line) /\ LastShows
    BY DEF Behind
  <2> QED
    BY <2>1, <2>2, <2>3 DEF BufferOK
<1>2. line' = line /\ text' = text
  BY DEF FieldTurn
<1>3. FieldCount(line) \in Nat
  <2>1. Cardinality(Cuts(line)) \in Nat
    BY <1>1, RankFacts
  <2> QED
    BY <2>1 DEF FieldCount
<1>4. IF csv.idx = csv.tokenid
      THEN IF end - start < BufSize THEN Returns(Chars(start, end))
           ELSE Undefined({Chars(start, end)})
      ELSE csv' = [csv EXCEPT !.pptr = end + Inc(quoted), !.idx = @ + 1]
  BY DEF FieldTurn
<1>5. LastShows'
  BY <1>1, <1>2 DEF LastShows
<1>6. CASE csv.idx = csv.tokenid
  <2>1. csv'.pc \in {"returned", "fault"} /\ csv'.tokenid = csv.tokenid
    BY <1>4, <1>6 DEF Returns, Undefined
  <2>2. ~(csv.tokenid < FieldCount(line))
    BY <1>1, <1>3, <1>6
  <2> QED
    BY <1>2, <1>5, <2>1, <2>2 DEF LoopInv, FieldRight, StaysInLine, Stopped, Present
<1>7. CASE csv.idx # csv.tokenid
  <2>1. end \in p..extent
    <3>1. start \in Place /\ start >= p
      <4>1. p # extent
        BY <1>1 DEF BufferOK
      <4> QED
        BY <1>1, <4>1 DEF Place
    <3> HIDE DEF start
    <3>2. end \in start..extent
      BY <1>1, <3>1, FoundInBuffer
    <3> QED
      BY <1>1, <3>1, <3>2 DEF Place
  <2> HIDE DEF end
  <2>2. next > Len(line)
    <3>1. Inc(quoted) \in 1..2
      BY DEF Inc
    <3> QED
      BY <1>1, <2>1, <3>1
  <2>3. csv' = [pc |-> "loop", tokenid |-> csv.tokenid, idx |-> csv.idx + 1, pptr |-> next]
    BY <1>1, <1>4, <1>7
  <2> HIDE DEF next
  <2>4. csv'.pc = "loop" /\ csv'.idx = csv.idx + 1 /\ csv'.pptr = next
    BY <2>3
  <2>5. csv.idx + 1 >= FieldCount(line)
    BY <1>1, <1>3
  <2>6. Behind'
    BY <1>2, <1>5, <2>2, <2>4, <2>5 DEF Behind
  <2> QED
    BY <2>4, <2>6 DEF LoopInv, FieldRight, StaysInLine, Stopped, Present
<1> QED
  BY <1>6, <1>7

LEMMA CsvInvStep == CsvInv /\ [Next]_vars => CsvInv'
<1> SUFFICES ASSUME CsvInv, [Next]_vars PROVE LoopInv' /\ FieldRight' /\ StaysInLine'
  BY CsvTypesStep DEF CsvInv
<1>1. ASSUME NEW s \in Line, ReadLine(s) PROVE LoopInv' /\ FieldRight' /\ StaysInLine'
  <2>1. csv'.pc = "none"
    BY <1>1 DEF ReadLine, NoField
  <2> QED
    BY <2>1 DEF LoopInv, FieldRight, StaysInLine, Stopped, Present
<1>2. ASSUME NEW n \in FieldNo, FieldCall(n) PROVE LoopInv' /\ FieldRight' /\ StaysInLine'
  <2>1. csv'.pc = "loop" /\ csv'.idx = 0 /\ csv'.pptr = 0 /\ past' = FALSE /\ line' = line
    BY <1>2 DEF FieldCall
  <2>2. Opened(0, 0)
    <3>1. Len(line) \in Nat
      BY DEF CsvInv, CsvTypes, BufferOK
    <3>2. Cuts(line) \in SUBSET (1..Len(line))
      BY <3>1, RankFacts
    <3>3. CutsTo(line, 0) = {}
      BY <3>2 DEF CutsTo
    <3> QED
      BY <3>3, FS_EmptySet DEF Opened, Opens, Rank
  <2>3. Within'
    BY <2>1, <2>2 DEF Within, Opened
  <2> QED
    BY <2>1, <2>3 DEF LoopInv, FieldRight, StaysInLine, Stopped, Present
<1>3. ASSUME FieldMissing PROVE LoopInv' /\ FieldRight' /\ StaysInLine'
  <2>1. csv'.pc = "returned"
    BY <1>3 DEF FieldMissing, Returns
  <2> QED
    BY <1>3, <2>1, NothingThere DEF LoopInv
<1>4. ASSUME FieldOutside PROVE LoopInv' /\ FieldRight' /\ StaysInLine'
  BY <1>4, NothingKnown
<1>5. ASSUME FieldTurn PROVE LoopInv' /\ FieldRight' /\ StaysInLine'
  <2>1. CASE WellFormed(line)
    BY <1>5, <2>1, TurnWithin, TurnBehind DEF CsvInv, LoopInv, FieldTurn
  <2>2. CASE ~WellFormed(line)
    BY <1>5, <2>2 DEF FieldTurn, LoopInv, FieldRight, StaysInLine, Stopped, Present
  <2> QED
    BY <2>1, <2>2
<1>6. ASSUME UNCHANGED csvVars PROVE LoopInv' /\ FieldRight' /\ StaysInLine'
  BY <1>6 DEF csvVars, CsvInv, LoopInv, Within, Behind, Opened, LastShows, FieldRight, StaysInLine,
              Stopped, Present
<1> QED
  BY <1>1, <1>2, <1>3, <1>4, <1>5, <1>6 DEF Next, CsvNext, vars

(* get_csv_field returns a field that the line has and bufout holds,         *)
(* whatever the lengths of the line and of the lines before it, and whatever *)
(* memory holds behind them; the quotes of the line come in pairs around its *)
(* fields, none of them doubled (GeoAPI.cpp:48-75).                          *)
THEOREM FieldsFound == Spec => []FieldRight
<1>1. CsvInv => FieldRight
  BY DEF CsvInv
<1> QED
  BY <1>1, CsvInvInit, CsvInvStep, PTL DEF Spec

(* It reads no further than such a line, unless it is asked for a field that *)
(* the line does not have and the last one is not empty (GeoAPI.cpp:71).     *)
THEOREM ReadsTheLine == Spec => []StaysInLine
<1>1. CsvInv => StaysInLine
  BY DEF CsvInv
<1> QED
  BY <1>1, CsvInvInit, CsvInvStep, PTL DEF Spec
=============================================================================
