---------------------------- MODULE StrTokenizer -----------------------------
(***************************************************************************)
(* StrTokenizer (StrTokenizer.h, StrTokenizer.cpp): a string is copied     *)
(* into a buffer, the delimiters in it are overwritten with NULs one after *)
(* the other, and the offsets where tokens begin are kept in m_vTokenArr.  *)
(* A tokenizer can be copied and destroyed.  Offsets count from 0, TLA+'s  *)
(* sequences from 1.                                                       *)
(***************************************************************************)
EXTENDS Integers, Sequences

CONSTANTS
  Object,        \* places for tokenizers
  Buffer,        \* addresses that `new char[]' may return
  Char,          \* characters other than NUL
  Delim,         \* the delimiter
  NUL,
  Text           \* the strings that are tokenized, NULs in them included

ASSUME CharAssumption == Delim \in Char /\ NUL \notin Char
ASSUME TextAssumption == Text \subseteq Seq(Char \cup {NUL})

VARIABLES
  tok,           \* the tokenizers: object -> [src, mode, pc, at, m_CopySize, m_Copy, m_vTokenArr]
  mem            \* the allocated buffers: address -> characters

tokVars == <<tok, mem>>

NoTok == [pc |-> "none"]

TokInit ==
  /\ tok = [o \in Object |-> NoTok]
  /\ mem = [b \in {} |-> <<>>]

-----------------------------------------------------------------------------
(* The first position of a buffer, from `from' on, that holds one of chars.  *)
First(s, chars, from) ==
  CHOOSE i \in from..Len(s) : s[i] \in chars /\ \A j \in from..(i-1) : s[j] \notin chars

CString(s, from) == SubSeq(s, from, First(s, {NUL}, from) - 1)

(* Mutant: the NUL is not counted. *)
ConstructShort(o, s, mode, counted) ==
  /\ tok[o] = NoTok
  /\ LET src == IF counted THEN s ELSE CString(Append(s, NUL), 1) IN
     \E b \in Buffer \ DOMAIN mem :
       /\ mem' = [c \in DOMAIN mem \cup {b} |->
                    IF c = b THEN src \o <<NUL, NUL, NUL, NUL>> ELSE mem[c]]
       /\ tok' = [tok EXCEPT ![o] =
            [src |-> src, mode |-> mode, pc |-> "turn", at |-> 1, m_CopySize |-> Len(src),
             m_Copy |-> b, m_vTokenArr |-> IF mode = "strchr" THEN <<0>> ELSE <<>>]]

(* The constructors: the string and five NULs, two modes.  The one that      *)
(* takes a length copies NULs as well; the others stop at the first.         *)
Construct(o, s, mode, counted) ==
  /\ tok[o] = NoTok
  /\ LET src == IF counted THEN s ELSE CString(Append(s, NUL), 1) IN
     \E b \in Buffer \ DOMAIN mem :
       /\ mem' = [c \in DOMAIN mem \cup {b} |->
                    IF c = b THEN src \o <<NUL, NUL, NUL, NUL, NUL>> ELSE mem[c]]
       /\ tok' = [tok EXCEPT ![o] =
            [src |-> src, mode |-> mode, pc |-> "turn", at |-> 1, m_CopySize |-> Len(src) + 1,
             m_Copy |-> b, m_vTokenArr |-> IF mode = "strchr" THEN <<0>> ELSE <<>>]]

Found(o, start) == Append(tok[o].m_vTokenArr, start - 1)

(* A turn of IntTokenize's loop, with the work of strtok_r in it: `at' is    *)
(* its saveptr. *)
IntTokenize(o) ==
  /\ tok[o].pc = "turn" /\ tok[o].mode = "strtok"
  /\ LET s == mem[tok[o].m_Copy]
         start == First(s, (Char \cup {NUL}) \ {Delim}, tok[o].at)
         end == First(s, {Delim, NUL}, start)
     IN IF s[start] = NUL
        THEN tok' = [tok EXCEPT ![o].pc = "done"] /\ UNCHANGED mem
        ELSE /\ mem' = [mem EXCEPT ![tok[o].m_Copy][end] = NUL]
             /\ tok' = [tok EXCEPT ![o].m_vTokenArr = Found(o, start),
                                   ![o].at = IF s[end] = NUL THEN end ELSE end + 1]

(* Mutant: the delimiter is not overwritten. *)
IntTokenize_ChrKeeps(o) ==
  /\ tok[o].pc = "turn" /\ tok[o].mode = "strchr"
  /\ LET s == mem[tok[o].m_Copy]
         end == First(s, {Delim, NUL}, tok[o].at)
     IN IF s[end] = NUL
        THEN tok' = [tok EXCEPT ![o].pc = "done"]
        ELSE tok' = [tok EXCEPT ![o].m_vTokenArr = Found(o, end + 1), ![o].at = end + 1]
  /\ UNCHANGED mem

(* A turn of IntTokenize_Chr's loop. *)
IntTokenize_Chr(o) ==
  /\ tok[o].pc = "turn" /\ tok[o].mode = "strchr"
  /\ LET s == mem[tok[o].m_Copy]
         end == First(s, {Delim, NUL}, tok[o].at)
     IN IF s[end] = NUL
        THEN tok' = [tok EXCEPT ![o].pc = "done"] /\ UNCHANGED mem
        ELSE /\ mem' = [mem EXCEPT ![tok[o].m_Copy][end] = NUL]
             /\ tok' = [tok EXCEPT ![o].m_vTokenArr = Found(o, end + 1), ![o].at = end + 1]

(* Mutant: the pointer is copied, not the characters. *)
CopyConstructShares(o, p) ==
  /\ tok[o].pc = "done" /\ tok[p] = NoTok
  /\ tok' = [tok EXCEPT ![p] = tok[o]]
  /\ UNCHANGED mem

(* The copy constructor: offsets mean the same in the new buffer. *)
CopyConstruct(o, p) ==
  /\ tok[o].pc = "done" /\ tok[p] = NoTok
  /\ \E b \in Buffer \ DOMAIN mem :
       /\ mem' = [c \in DOMAIN mem \cup {b} |->
                    IF c = b THEN SubSeq(mem[tok[o].m_Copy], 1, tok[o].m_CopySize)
                                  \o <<NUL, NUL, NUL, NUL>>
                    ELSE mem[c]]
       /\ tok' = [tok EXCEPT ![p] = [tok[o] EXCEPT !.m_Copy = b]]

Destroy(o) ==
  /\ tok[o].pc = "done"
  /\ mem' = [b \in DOMAIN mem \ {tok[o].m_Copy} |-> mem[b]]
  /\ tok' = [tok EXCEPT ![o] = NoTok]

(* A line is tokenized at a time (GeoAPI.cpp:334,349). *)
TokNext ==
  \E o \in Object :
    \/ /\ \A p \in Object : tok[p] = NoTok
       /\ \E s \in Text, mode \in {"strtok", "strchr"}, counted \in BOOLEAN :
            (mode = "strchr" => ~counted) /\ Construct(o, s, mode, counted)
    \/ IntTokenize(o)
    \/ IntTokenize_Chr(o)
    \/ \E p \in Object : CopyConstruct(o, p)
    \/ Destroy(o)

-----------------------------------------------------------------------------
(* What a finished tokenizer answers; idx counts from 0. *)
GetCount(o) == Len(tok[o].m_vTokenArr)

GetToken(o, idx) ==
  IF idx >= GetCount(o) THEN NUL
  ELSE CString(mem[tok[o].m_Copy], tok[o].m_vTokenArr[idx + 1] + 1)

LastToken(o) == GetToken(o, GetCount(o) - 1)     \* throws when there is none

GetTokenLen(o, idx) ==
  IF idx >= GetCount(o) THEN 0
  ELSE IF idx = GetCount(o) - 1 THEN tok[o].m_CopySize - tok[o].m_vTokenArr[idx + 1] - 1
  ELSE tok[o].m_vTokenArr[idx + 2] - tok[o].m_vTokenArr[idx + 1]

each_token(o) == [i \in 1..GetCount(o) |-> GetToken(o, i - 1)]

(* The tokens of a string, from their first characters: strtok's are the     *)
(* runs of other characters than the delimiter, strchr's lie between         *)
(* delimiters and may be empty.  A NUL ends the string.                      *)
Whole(s) == CString(Append(s, NUL), 1)

Starts(s, mode) ==
  IF mode = "strtok"
  THEN {i \in 1..Len(s) : s[i] # Delim /\ (i > 1 => s[i-1] = Delim)}
  ELSE {1} \cup {i \in 2..(Len(s) + 1) : s[i-1] = Delim}

TokenFrom(s, i) == SubSeq(s, i, First(Append(s, NUL), {Delim, NUL}, i) - 1)

-----------------------------------------------------------------------------
Done == {o \in Object : tok[o].pc = "done"}

(* The tokens of a finished tokenizer are those of its string, whatever has  *)
(* become of the tokenizer it was copied from.  GetToken is NULL past the    *)
(* last.  GetTokenLen counts from one token to the next, so that it is the   *)
(* token's own length only for a last token that ends the string, and more   *)
(* for any other (StrTokenizer.cpp:151-175).                                 *)
TokensRight ==
  \A o \in Done :
    LET s == Whole(tok[o].src)
        start == [i \in 1..GetCount(o) |-> tok[o].m_vTokenArr[i] + 1]
    IN /\ {start[i] : i \in DOMAIN start} = Starts(s, tok[o].mode)
       /\ \A i, j \in DOMAIN start : i < j => start[i] < start[j]
       /\ each_token(o) = [i \in DOMAIN start |-> TokenFrom(s, start[i])]
       /\ GetToken(o, GetCount(o)) = NUL
       /\ GetCount(o) > 0 => LastToken(o) = each_token(o)[GetCount(o)]
       /\ \A i \in DOMAIN start :
            LET own == Len(each_token(o)[i])
            IN IF start[i] + own = Len(tok[o].src) + 1
               THEN GetTokenLen(o, i - 1) = own
               ELSE GetTokenLen(o, i - 1) > own

(* Each tokenizer has a buffer of its own, and no buffer is left without one *)
(* (StrTokenizer.cpp:109-113).                                               *)
OwnBuffers ==
  LET used == {o \in Object : tok[o] # NoTok}
  IN /\ DOMAIN mem = {tok[o].m_Copy : o \in used}
     /\ \A o, p \in used : tok[o].m_Copy = tok[p].m_Copy => o = p
=============================================================================
