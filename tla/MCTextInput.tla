----------------------------- MODULE MCTextInput -----------------------------
(* Instances of TextInput: all short lines, and a few keys.                  *)
EXTENDS TextInput

CONSTANTS x                  \* a character that means nothing

UpTo(S, n) == UNION {[1..k -> S] : k \in 0..n}

ShortTexts == UpTo(Char \cup {NUL}, 5)
ShortLines == UpTo(Letter, 5)
ShortStrings == UpTo(Letter, 1)
ShortRoutes == UpTo({x, Tab}, 6)

(* 0..9, A..F and a..f in each of the eight places. *)
Digits == (48..57) \cup (65..70) \cup (97..102)
SomeKeys == {[i \in 1..11 |-> IF i \in {3, 6, 9} THEN 46 ELSE IF i = p THEN d ELSE 48 + (i % 10)] :
               p \in {1, 2, 4, 5, 7, 8, 10, 11}, d \in Digits}
=============================================================================
