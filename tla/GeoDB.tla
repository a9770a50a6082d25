-------------------------------- MODULE GeoDB --------------------------------
(***************************************************************************)
(* CGeoDB (GeoDB.h, GeoDB.cpp): the trie sproot, the names of the ids that *)
(* it stores, and the id that stands in for what is not found.  Storing a  *)
(* row is an insert into the trie followed by an insert into the map of    *)
(* names; a full lookup is a longest_match followed by a find in that map. *)
(* The trie's steps are those of FTrie.  A key and its label are one Key.  *)
(***************************************************************************)
EXTENDS FTrieProps

CONSTANTS
  Key,           \* the keys (with their labels) that name networks
  NoKey          \* not found; a row without a name

ASSUME NoKeyAssumption == NoKey \notin Key

VARIABLES
  mpGeonames,    \* id -> key
  nprefixes,
  zero_dot_zero, \* an id, NoValue for the code's -1
  row,           \* the row being stored, from its insert to its name
  answer         \* the answer of the last LookupFull, NoKey for false

dbVars == <<mpGeonames, nprefixes, zero_dot_zero, row, answer>>

NoRow == [id |-> NoValue, key |-> NoKey]

(* A net that bits32_t::iszero() keeps out of the trie. *)
IsZero(n) == n.len = 0 /\ \A i \in 1..AddrBits : n.val[i] = 0

GeoDBInit ==
  /\ Init
  /\ mpGeonames = [id \in {} |-> NoKey]
  /\ nprefixes = 0
  /\ zero_dot_zero = NoValue
  /\ row = NoRow
  /\ answer = NoKey

(* Mutant: operator[], which overwrites. *)
WithNameOverwritten(id, key) ==
  IF key = NoKey THEN mpGeonames
  ELSE [i \in DOMAIN mpGeonames \cup {id} |-> IF i = id THEN key ELSE mpGeonames[i]]

(* mpGeonames.insert: an id keeps its first name. *)
WithName(id, key) ==
  IF key = NoKey \/ id \in DOMAIN mpGeonames THEN mpGeonames
  ELSE [i \in DOMAIN mpGeonames \cup {id} |-> IF i = id THEN key ELSE mpGeonames[i]]

-----------------------------------------------------------------------------
(* The rest of Push, or of a line of LoadBlocks, begins: the trie's insert. *)
StoreBegin(n, id, key) ==
  /\ ~IsZero(n)
  /\ InsertCall(n, id)
  /\ row' = [id |-> id, key |-> key]
  /\ UNCHANGED <<mpGeonames, nprefixes, zero_dot_zero, answer>>

(* Mutant: only what goes into the trie is counted. *)
StoreZeroUncounted(n, id, key) ==
  /\ call = Idle
  /\ IsZero(n)
  /\ zero_dot_zero' = id
  /\ mpGeonames' = WithName(id, key)
  /\ UNCHANGED <<vars, nprefixes, row, answer>>

(* 0.0.0.0/0: Push and LoadBlocks keep it out of the trie. *)
StoreZero(n, id, key) ==
  /\ call = Idle
  /\ IsZero(n)
  /\ zero_dot_zero' = id
  /\ nprefixes' = nprefixes + 1
  /\ mpGeonames' = WithName(id, key)
  /\ UNCHANGED <<vars, row, answer>>

Store(n, id, key) == StoreBegin(n, id, key) \/ StoreZero(n, id, key)

(* The insert returns and the row is named. *)
StoreEnd ==
  /\ InsertHere
  /\ nprefixes' = nprefixes + 1
  /\ mpGeonames' = WithName(row.id, row.key)
  /\ row' = NoRow
  /\ UNCHANGED <<zero_dot_zero, answer>>

StoreRuns ==
  /\ InsertAbort \/ InsertBelow \/ InsertIntoData
  /\ UNCHANGED dbVars

(* A line of LoadNames, or of LoadBlocks that has a name and no network. *)
StoreName(id, key) ==
  /\ call = Idle
  /\ mpGeonames' = WithName(id, key)
  /\ UNCHANGED <<vars, nprefixes, zero_dot_zero, row, answer>>

-----------------------------------------------------------------------------
NameOf(id) == IF id \in DOMAIN mpGeonames THEN mpGeonames[id] ELSE NoKey

(* Mutant: the default answers for any id that has no name. *)
FullAnswerNamed(val) ==
  IF NameOf(val) # NoKey THEN NameOf(val)
  ELSE IF zero_dot_zero # NoValue THEN NameOf(zero_dot_zero)
  ELSE NoKey

(* LookupFull, from what longest_match returned.  An id without a name does  *)
(* not fall back to the default. *)
FullAnswer(val) ==
  IF val # NoValue THEN NameOf(val)
  ELSE IF zero_dot_zero # NoValue THEN NameOf(zero_dot_zero)
  ELSE NoKey

LookupBegin(a) ==
  /\ LookupIpnum(a) \/ LookupDotted(a)
  /\ UNCHANGED dbVars

LookupRuns == LookupBelow /\ UNCHANGED dbVars

LookupEnd ==
  /\ LookupHere \/ LookupData
  /\ answer' = FullAnswer(ret')
  /\ UNCHANGED <<mpGeonames, nprefixes, zero_dot_zero, row>>

(* A dotted string that sscanf cannot parse: NO_VALUE, so the default's key. *)
LookupUnparsed ==
  /\ call = Idle
  /\ answer' = FullAnswer(NoValue)
  /\ UNCHANGED <<vars, mpGeonames, nprefixes, zero_dot_zero, row>>

LookupFull == (\E a \in Addr : LookupBegin(a)) \/ LookupRuns \/ LookupEnd
              \/ LookupUnparsed

(* What LookupFull answers, by number and by dotted string. *)
ByIpnum(a) == FullAnswer(Answer(a, NoValue))
ByIpaddr(a) == FullAnswer(Answer(a, node_value[Root]))
=============================================================================
