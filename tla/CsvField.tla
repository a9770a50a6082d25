------------------------------ MODULE CsvField -------------------------------
(***************************************************************************)
(* get_csv_field (GeoAPI.cpp:48-75) over the buffer of the string `line'   *)
(* that LoadBlocks and LoadNames read line by line with getline.  A line   *)
(* that is shorter than an earlier one leaves the tail of that one behind  *)
(* its own NUL; what is behind the longest line nobody has written, and a  *)
(* string that grows moves to memory that nobody has written either.  One  *)
(* action is one turn of the loop.                                         *)
(***************************************************************************)
EXTENDS Integers, Sequences, FiniteSets

CONSTANTS
  Plain,         \* characters that mean nothing to get_csv_field
  Comma, Quote,
  EndOfString,   \* NUL
  BufSize,       \* 256, the size of bufout
  Wild,          \* strings that unwritten or foreign memory may hold
  Line,          \* the lines of the file
  FieldNo        \* the fields asked for

Letter == Plain \cup {Comma, Quote}

ASSUME LetterAssumption == EndOfString \notin Letter /\ Comma # Quote /\ {Comma, Quote} \cap Plain = {}
ASSUME LineAssumption == Line \subseteq Seq(Letter)
ASSUME FieldNoAssumption == FieldNo \subseteq Nat /\ BufSize \in Nat

VARIABLES
  text,          \* the part of the buffer that was written: 0..extent -> character
  extent,        \* where the NUL of the longest line so far is
  line,          \* history: the line in it
  csv,           \* get_csv_field's pc, tokenid, idx and pptr
  past           \* history: has it read behind the line's NUL?

csvVars == <<text, extent, line, csv, past>>

NoField == [pc |-> "none"]

CsvInit ==
  /\ text = [i \in {0} |-> EndOfString]
  /\ extent = 0
  /\ line = <<>>
  /\ csv = NoField
  /\ past = FALSE

-----------------------------------------------------------------------------
(* getline.  A line longer than all before moves the string, or overwrites   *)
(* all of what was written. *)
ReadLine(s) ==
  /\ csv.pc \in {"none", "returned"}
  /\ line' = s
  /\ extent' = IF Len(s) > extent THEN Len(s) ELSE extent
  /\ text' = [i \in 0..extent' |-> IF i < Len(s) THEN s[i + 1]
                                   ELSE IF i = Len(s) THEN EndOfString ELSE text[i]]
  /\ csv' = NoField
  /\ past' = FALSE

(* get_csv_field(line.c_str(), buf, 256, tokenid) *)
FieldCall(n) ==
  /\ csv.pc \in {"none", "returned"}
  /\ csv' = [pc |-> "loop", tokenid |-> n, idx |-> 0, pptr |-> 0]
  /\ past' = FALSE
  /\ UNCHANGED <<text, extent, line>>

(* strchrnul: the next c, or the next NUL. *)
Strchrnul(from, c) ==
  CHOOSE i \in from..extent :
    /\ text[i] \in {c, EndOfString}
    /\ \A j \in from..(i-1) : text[j] \notin {c, EndOfString}

Chars(from, to) == [i \in 1..(to - from) |-> text[from + i - 1]]

Returns(result) == csv' = [pc |-> "returned", tokenid |-> csv.tokenid, field |-> result]

(* What the code leaves undefined: it returns something, or faults. *)
Undefined(known) ==
  \/ \E s \in known \cup Wild : Returns(s)
  \/ csv' = [pc |-> "fault", tokenid |-> csv.tokenid]

(* The loop ends at a NUL: the end of the string, or what passes for it. *)
FieldMissing ==
  /\ csv.pc = "loop" /\ csv.pptr <= extent
  /\ text[csv.pptr] = EndOfString
  /\ Returns(<<>>)
  /\ past' = (past \/ csv.pptr > Len(line))
  /\ UNCHANGED <<text, extent, line>>

(* The loop reads what was never written, or is not the string's. *)
FieldOutside ==
  /\ csv.pc = "loop" /\ csv.pptr > extent
  /\ Undefined({})
  /\ past' = TRUE
  /\ UNCHANGED <<text, extent, line>>

(* Mutants: a quoted field is skipped like another, and the reverse. *)
IncOne(quoted) == 1
IncTwo(quoted) == 2

(* Behind a field there is a comma, and before it a quote if there was one.  *)
Inc(quoted) == IF quoted THEN 2 ELSE 1

(* A turn: a field up to its closing quote or the next comma.  A field of    *)
(* BufSize characters or more is copied over what is behind bufout. *)
FieldTurn ==
  /\ csv.pc = "loop" /\ csv.pptr <= extent
  /\ text[csv.pptr] # EndOfString
  /\ LET quoted == text[csv.pptr] = Quote
         start == IF quoted THEN csv.pptr + 1 ELSE csv.pptr
         end == Strchrnul(start, IF quoted THEN Quote ELSE Comma)
     IN IF csv.idx = csv.tokenid
        THEN IF end - start < BufSize THEN Returns(Chars(start, end))
             ELSE Undefined({Chars(start, end)})
        ELSE csv' = [csv EXCEPT !.pptr = end + Inc(quoted), !.idx = @ + 1]
  /\ past' = (past \/ csv.pptr > Len(line))
  /\ UNCHANGED <<text, extent, line>>

CsvNext ==
  \/ \E s \in Line : ReadLine(s)
  \/ \E n \in FieldNo : FieldCall(n)
  \/ FieldMissing
  \/ FieldOutside
  \/ FieldTurn

-----------------------------------------------------------------------------
(* The fields of a line, without a loop: they lie between the cuts, which    *)
(* are the commas outside quotes and whatever character follows a closing    *)
(* quote. *)
QuotesBefore(s, i) == Cardinality({j \in 1..(i-1) : s[j] = Quote})
Closing(s, i) == s[i] = Quote /\ QuotesBefore(s, i) % 2 = 1
Cut(s, i) == \/ s[i] = Comma /\ QuotesBefore(s, i) % 2 = 0
             \/ i > 1 /\ Closing(s, i - 1)

(* Quotes come in pairs around a field. *)
WellFormed(s) ==
  \A i \in 1..Len(s) :
    s[i] = Quote =>
      IF QuotesBefore(s, i) % 2 = 0
      THEN /\ i = 1 \/ Cut(s, i - 1)
           /\ ~Cut(s, i)
           /\ \E j \in (i+1)..Len(s) : s[j] = Quote
      ELSE TRUE

Cuts(s) == {i \in 1..Len(s) : Cut(s, i)}
FieldCount(s) == Cardinality(Cuts(s)) + 1

Field(s, n) ==
  LET start == CHOOSE i \in {0} \cup Cuts(s) : Cardinality({c \in Cuts(s) : c <= i}) = n
      end == IF n = Cardinality(Cuts(s)) THEN Len(s) + 1
             ELSE CHOOSE i \in Cuts(s) : Cardinality({c \in Cuts(s) : c <= i}) = n + 1
      piece == SubSeq(s, start + 1, end - 1)
  IN IF piece # <<>> /\ piece[1] = Quote THEN SubSeq(piece, 2, Len(piece) - 1) ELSE piece

(* get_csv_field is done with a line whose quotes come in pairs. *)
Stopped == csv.pc \in {"returned", "fault"} /\ WellFormed(line)

Present == csv.tokenid < FieldCount(line)

(* Only an empty last field ends the loop at the line's own NUL: behind any  *)
(* other it steps over it (GeoAPI.cpp:71).                                   *)
LastShows ==
  \/ Field(line, FieldCount(line) - 1) # <<>>
  \/ line # <<>> /\ line[Len(line)] = Quote

(* A field that is in the line, and fits the buffer, is what get_csv_field   *)
(* returns, be it quoted, empty or the last, whatever earlier lines left in  *)
(* the string and whatever is in memory (GeoAPI.cpp:48-75).  One that is not *)
(* there is empty if the last field of the line is.  Quotes within a quoted  *)
(* field, which CSV writes twice, are not understood: such a line is not     *)
(* well-formed here.                                                         *)
FieldRight ==
  Stopped =>
    /\ Present /\ Len(Field(line, csv.tokenid)) < BufSize
         => csv.pc = "returned" /\ csv.field = Field(line, csv.tokenid)
    /\ ~Present /\ ~LastShows => csv.pc = "returned" /\ csv.field = <<>>

(* The loop steps over the NUL at the end of a line only when asked for a    *)
(* field that the line does not have, and not if its last field is empty     *)
(* (GeoAPI.cpp:71).                                                          *)
StaysInLine == Stopped /\ past => ~Present /\ LastShows
=============================================================================
