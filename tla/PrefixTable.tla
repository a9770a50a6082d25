----------------------------- MODULE PrefixTable -----------------------------
(***************************************************************************)
(* What a longest-prefix-match table promises its caller: the abstract     *)
(* specification that the trie of ftrie.cpp is compared with.              *)
(*                                                                         *)
(* A caller makes one request at a time.  An "insert" binds a prefix to a  *)
(* value, or takes its value away when that is NoValue; a "lookup" returns *)
(* the value bound to the longest prefix that covers the address.  MayMiss *)
(* weakens the promise: a lookup may overlook every prefix that covers the *)
(* address, so that it answers NoValue or what the empty prefix has.       *)
(***************************************************************************)
EXTENDS Integers

CONSTANTS
  Value,      \* the values that are bound to prefixes
  NoValue,    \* the answer of a lookup that finds nothing
  Net,        \* the networks callers insert: [val |-> bits, len |-> length]
  Addr,       \* the addresses callers look up
  MayMiss     \* may a lookup overlook the prefixes that match?

VARIABLES
  table,      \* prefix -> value bound to it, NoValue for none
  req,        \* the request being served, or Idle
  ret         \* the answer to the last lookup

tableVars == <<table, req, ret>>

Idle == [op |-> "idle"]

(* The prefix a network stands for: host bits beyond the length are dropped. *)
PrefixOf(n) == [len |-> n.len, bits |-> [i \in 1..n.len |-> n.val[i]]]

Prefix == {PrefixOf(n) : n \in Net}

Covers(p, a) == \A i \in 1..p.len : p.bits[i] = a[i]

Bound(p, a) == table[p] # NoValue /\ Covers(p, a)

IsLongest(p, a) ==
  /\ Bound(p, a)
  /\ \A q \in Prefix : Bound(q, a) => q.len <= p.len

(* v is the value of the longest prefix that covers a, or NoValue if none does. *)
IsMatch(a, v) ==
  \/ \E p \in Prefix : IsLongest(p, a) /\ v = table[p]
  \/ v = NoValue /\ \A p \in Prefix : ~Bound(p, a)

-----------------------------------------------------------------------------
Init ==
  /\ table = [p \in Prefix |-> NoValue]
  /\ req = Idle
  /\ ret = NoValue

RequestInsert ==
  /\ req = Idle
  /\ \E n \in Net, v \in Value \cup {NoValue} : req' = [op |-> "insert", net |-> n, id |-> v]
  /\ UNCHANGED <<table, ret>>

RequestLookup ==
  /\ req = Idle
  /\ \E a \in Addr : req' = [op |-> "lookup", addr |-> a]
  /\ UNCHANGED <<table, ret>>

Insert ==
  /\ req.op = "insert"
  /\ table' = [table EXCEPT ![PrefixOf(req.net)] = req.id]
  /\ req' = Idle
  /\ UNCHANGED ret

(* The answers of a lookup that overlooks every longer prefix. *)
Default == {NoValue} \cup {table[p] : p \in {q \in Prefix : q.len = 0}}

Lookup ==
  /\ req.op = "lookup"
  /\ ret' \in Value \cup {NoValue}
  /\ IsMatch(req.addr, ret') \/ (MayMiss /\ ret' \in Default)
  /\ req' = Idle
  /\ UNCHANGED table

Next == RequestInsert \/ RequestLookup \/ Insert \/ Lookup

Spec == Init /\ [][Next]_tableVars
=============================================================================
