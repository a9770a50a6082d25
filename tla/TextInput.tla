------------------------------ MODULE TextInput ------------------------------
(***************************************************************************)
(* How the C interface takes its text apart (GeoAPI.cpp): the lines of a   *)
(* CSV file with get_csv_field, those of a piranha file with a tokenizer,  *)
(* those of a routeviews file by a search for tabs and then as CSV, and    *)
(* the keys of GeoIP_by_key digit by digit.  A handle reads one kind of    *)
(* text at a time.                                                         *)
(***************************************************************************)
EXTENDS StrTokenizer, CsvField

CONSTANTS
  Tab,           \* a character
  RouteLine,     \* the lines of a routeviews file
  Key            \* keys: sequences of ASCII codes

ASSUME RouteLineAssumption == RouteLine \subseteq Seq(Char \cup {Tab})
ASSUME KeyAssumption == \A k \in Key : k \in Seq(0..127) /\ Len(k) >= 11

VARIABLES
  kind,          \* what is read: "csv", "piranha", "routeviews" or "keys"
  tail,          \* the search for the third tab: [line, i, spos]
  number         \* GeoIP_by_key's argument and IP4_to_number's result

vars == <<tokVars, csvVars, kind, tail, number>>

npos == -1                       \* string::npos as the int it is assigned to
NoNumber == [key |-> <<>>, b |-> <<0, 0, 0, 0>>]

Init ==
  /\ TokInit
  /\ CsvInit
  /\ kind \in {"csv", "piranha", "routeviews", "keys"}
  /\ tail = [line |-> <<>>, i |-> 3, spos |-> npos]
  /\ number = NoNumber

-----------------------------------------------------------------------------
(* line.find('\t', from), from counting from 0. *)
TabFrom(s, from) ==
  LET at == {p \in from..(Len(s) - 1) : s[p + 1] = Tab}
  IN IF at = {} THEN npos ELSE CHOOSE p \in at : \A q \in at : p <= q

RouteLineRead(s) ==
  /\ tail.i = 3
  /\ tail' = [line |-> s, i |-> 0, spos |-> 0]

(* Mutant: the search leaves out the character behind a tab. *)
TabTurnSkips ==
  /\ tail.i < 3
  /\ tail' = [tail EXCEPT !.i = @ + 1, !.spos = TabFrom(tail.line, tail.spos + 2)]

(* A turn of the loop.  After a search that failed spos + 1 is 0, so that    *)
(* the next one is from the start of the line. *)
TabTurn ==
  /\ tail.i < 3
  /\ tail' = [tail EXCEPT !.i = @ + 1, !.spos = TabFrom(tail.line, tail.spos + 1)]

(* AsciiHex: 0 for what is no digit. *)
AsciiHex[c \in 0..127] ==
  CASE c \in 48..57 -> c - 48
    [] c \in 65..70 -> c - 55
    [] c \in 97..102 -> c - 87
    [] OTHER -> 0

Hex2Byte(n1, n2) == AsciiHex[n1] * 16 + AsciiHex[n2]

(* Mutant: digits without the separator between them. *)
IP4_to_numberPacked(k) ==
  [j \in 1..4 |-> Hex2Byte(k[2 * j - 1], k[2 * j])]

(* The bytes of the number, the most significant first: htonl undoes the     *)
(* order of the union's bytes on either kind of machine. *)
IP4_to_number(k) ==
  [j \in 1..4 |-> Hex2Byte(k[3 * j - 2], k[3 * j - 1])]

ByKey(k) == number' = [key |-> k, b |-> IP4_to_number(k)]

Next ==
  \/ /\ kind = "csv" /\ CsvNext
     /\ UNCHANGED <<tokVars, kind, tail, number>>
  \/ /\ kind = "piranha" /\ TokNext
     /\ UNCHANGED <<csvVars, kind, tail, number>>
  \/ /\ kind = "routeviews"
     /\ TabTurn \/ \E s \in RouteLine : RouteLineRead(s)
     /\ UNCHANGED <<tokVars, csvVars, kind, number>>
  \/ /\ kind = "keys"
     /\ \E k \in Key : ByKey(k)
     /\ UNCHANGED <<tokVars, csvVars, kind, tail>>

Spec == Init /\ [][Next]_vars

-----------------------------------------------------------------------------
(* Every variable holds values of its type; the offsets of a tokenizer lie   *)
(* in its buffer, and the field of a CSV line in the line's buffer or just   *)
(* behind it (StrTokenizer.h:28-38, GeoAPI.cpp:51-55).                       *)
TypeOK ==
  /\ \A o \in Object :
       tok[o] # NoTok =>
         /\ tok[o].m_Copy \in DOMAIN mem
         /\ mem[tok[o].m_Copy] \in Seq(Char \cup {NUL})
         /\ Len(mem[tok[o].m_Copy]) = tok[o].m_CopySize + 4
         /\ \A i \in DOMAIN tok[o].m_vTokenArr : tok[o].m_vTokenArr[i] \in 0..(tok[o].m_CopySize - 1)
  /\ extent \in Nat /\ text \in [0..extent -> Letter \cup {EndOfString}]
  /\ csv.pc = "loop" => csv.idx \in 0..csv.tokenid /\ csv.pptr \in 0..(extent + 2)
  /\ tail.i \in 0..3 /\ tail.spos \in npos..Len(tail.line)
  /\ number.b \in [1..4 -> 0..255]

TabsOf(s) == {p \in 1..Len(s) : s[p] = Tab}

(* A routeviews line with three tabs, none of them its first character, is   *)
(* cut behind the third.  A line with fewer is cut at its start or behind    *)
(* some tab, and never behind its end, where substr would throw              *)
(* (GeoAPI.cpp:277-282).                                                     *)
TailRight ==
  tail.i = 3 /\ tail.line # <<>> =>
    LET tabs == TabsOf(tail.line)
        cut == tail.spos + 1
    IN /\ cut = 0 \/ cut \in tabs
       /\ Cardinality(tabs) >= 3 /\ 1 \notin tabs =>
            Cardinality({p \in tabs : p <= cut}) = 3

(* The digits of a number in the notation of a key, in either case. *)
Digit(n, lower) == IF n < 10 THEN 48 + n ELSE IF lower THEN 87 + n ELSE 55 + n

(* A Trisul key (C0.A8.01.02) is the address whose bytes are its four pairs  *)
(* of hexadecimal digits, in either case (GeoAPI.cpp:31-46).                 *)
ByKeyRight ==
  \A j \in 1..4 :
    number.key # <<>> =>
      \A n \in 0..255 :
        (\E u, v \in BOOLEAN :
           /\ number.key[3 * j - 2] = Digit(n \div 16, u)
           /\ number.key[3 * j - 1] = Digit(n % 16, v))
          => number.b[j] = n
=============================================================================
