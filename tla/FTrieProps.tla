----------------------------- MODULE FTrieProps -----------------------------
(***************************************************************************)
(* What the trie of FTrie.tla is meant to guarantee: its type and shape,   *)
(* how its answers relate to the prefixes that were inserted, and how it   *)
(* implements PrefixTable.                                                 *)
(***************************************************************************)
EXTENDS FTrie

(* The slots a prefix of val of the given length leads to: one slot of four  *)
(* bits for every full window, and one of two or three bits for what is      *)
(* left.  One bit left over leads nowhere further (see HasMore).             *)
PathOf(val, len) ==
  LET full == len \div Stride
      rest == len % Stride
  IN [i \in 1..(IF rest > 1 THEN full + 1 ELSE full) |->
        [j \in 1..(IF i <= full THEN Stride ELSE rest) |-> val[Stride * (i-1) + j]]]

FirstSlots(p, k) == [i \in 1..k |-> p[i]]

Content(p) == IF p \in DOMAIN data_leaf THEN data_leaf[p] ELSE node_value[p]

(* What the slot or node of a prefix holds. *)
BindingOf(p) ==
  LET path == PathOf(p.bits, p.len) IN IF IsTaken(path) THEN Content(path) ELSE NoValue

(* The network whose prefix an insert really binds: one of length 4k+1 loses *)
(* its last bit (see HasMore). *)
LosesBit(n) == n.len % Stride = 1
Effective(n) == [val |-> n.val, len |-> IF LosesBit(n) THEN n.len - 1 ELSE n.len]
EffectiveNets == {Effective(n) : n \in Net}

PrefixesOf(nets) == {[len |-> n.len, bits |-> [i \in 1..n.len |-> n.val[i]]] : n \in nets}

(* The running call seen as a request, with the network as the caller gave   *)
(* it.  One that aborted or crashed is never answered. *)
CallView ==
  CASE call.op \in {"insert", "aborted", "crashed"} ->
         [op |-> "insert", net |-> [val |-> call.val, len |-> call.width], id |-> call.arg]
    [] call.op = "lookup" -> [op |-> "lookup", addr |-> call.val]
    [] OTHER -> Idle

(* The trie seen as a table of the prefixes that callers insert. *)
NetTable == [p \in PrefixesOf(Net) |-> BindingOf(p)]

Exact == INSTANCE PrefixTable WITH table <- NetTable, req <- CallView, MayMiss <- FALSE

(* The trie seen as a table of the prefixes that inserts really bind.        *)
Prefix == PrefixesOf(EffectiveNets)
TableView == [p \in Prefix |-> BindingOf(p)]
ReqView == IF CallView.op = "insert" THEN [CallView EXCEPT !.net = Effective(@)] ELSE CallView

Loose == INSTANCE PrefixTable
           WITH Net <- EffectiveNets, table <- TableView, req <- ReqView, MayMiss <- TRUE

-----------------------------------------------------------------------------
(* What a lookup of a that starts with the given parentval returns, in one   *)
(* step: the deepest node on the four-bit path of a, then its levels.  The   *)
(* trie is given by its two functions, so that two tries can be compared.    *)
Deepest(taken, a) ==
  CHOOSE k \in 0..(AddrBits \div Stride) :
    /\ PathOf(a, Stride * k) \in taken
    /\ \A m \in (k+1)..(AddrBits \div Stride) : PathOf(a, Stride * m) \notin taken

LevelSlot(a, k, r) == Append(PathOf(a, Stride * k), [j \in 1..r |-> a[Stride * k + j]])

Levels(taken, a) ==
  LET k == Deepest(taken, a)
  IN {r \in 1..(Stride - 1) : Stride * k + r <= AddrBits /\ LevelSlot(a, k, r) \in taken}

Found(taken, a) ==
  LET k == Deepest(taken, a)
      levels == Levels(taken, a)
  IN IF levels = {} THEN PathOf(a, Stride * k)
     ELSE LevelSlot(a, k, CHOOSE r \in levels : \A s \in levels : s <= r)

AnswerIn(nodes, data, a, parentval) ==
  LET found == Found(DOMAIN nodes \cup DOMAIN data, a)
  IN IF found \in DOMAIN data THEN data[found]
     ELSE IF nodes[found] = NoValue THEN parentval
     ELSE nodes[found]

Answer(a, parentval) == AnswerIn(node_value, data_leaf, a, parentval)

(* Both forms of lookup of a, by number and by dotted string. *)
Answers(nodes, data, a) ==
  <<AnswerIn(nodes, data, a, NoValue), AnswerIn(nodes, data, a, nodes[Root])>>

Quiet == call = Idle

-----------------------------------------------------------------------------
(* Types of the variables. *)
TypeOK ==
  /\ DOMAIN node_value \subseteq Path
  /\ \A p \in DOMAIN node_value : node_value[p] \in ValueOrNone
  /\ DOMAIN data_leaf \subseteq Path
  /\ \A p \in DOMAIN data_leaf : data_leaf[p] \in ValueOrNone
  /\ call \in Call \cup {Idle}
  /\ ret \in ValueOrNone
  /\ frozen \in BOOLEAN

(* The pointers form a tree: a taken slot is reached from the root through   *)
(* live nodes, by slots of level 4 only, whatever inserts and collapses came *)
(* before; no slot hangs below a collapsed datum (longest_match and insert   *)
(* would follow an integer as a pointer, bitlevel.h:72,93), and no slot is   *)
(* both a node and a datum.                                                  *)
WellLinked ==
  /\ Root \in DOMAIN node_value
  /\ DOMAIN node_value \cap DOMAIN data_leaf = {}
  /\ \A p \in Occupied : \A k \in 0..(Len(p) - 1) :
       /\ FirstSlots(p, k) \in DOMAIN node_value
       /\ k > 0 => DOMAIN p[k] = 1..Stride

(* No insert runs into the assert(false) of ftrie.cpp:71 or follows a datum  *)
(* as a pointer (bitlevel.h:72).                                             *)
NoCrash == call.op \notin {"aborted", "crashed"}

(* The address is not near a network that loses its last bit: it differs     *)
(* from it in one of the other bits.  A network of mask 1 has no others, and *)
(* is left to the property. *)
Spared(a) ==
  \A n \in Net : LosesBit(n) /\ n.len > 1 => \E i \in 1..(n.len - 1) : n.val[i] # a[i]

(* Away from networks that lose a bit, the trie answers with the value of    *)
(* the longest prefix covering the address, with NO_VALUE, or with what a    *)
(* network of mask 1 left at the root: it may miss a prefix, but it takes no *)
(* other prefix for it (ftrie.cpp:90-110). *)
LongestOrMiss ==
  Quiet => \A a \in Addr : Spared(a) =>
    \/ Answer(a, NoValue) \in {NoValue, node_value[Root]}
    \/ Exact!IsMatch(a, Answer(a, NoValue))

(* longest_match finds the longest match (ftrie.h:60-61). *)
LongestMatch ==
  Quiet => \A a \in Addr : Exact!IsMatch(a, Answer(a, NoValue))

(* An address outside every network that callers insert is not found: the    *)
(* trie keeps all bits of a prefix, the last one in a 1-bit level if need be *)
(* (ftrie.h:4-5).                                                            *)
OnlyCovered ==
  Quiet => \A a \in Addr :
    (\A n \in Net : \E i \in 1..n.len : n.val[i] # a[i]) => Answer(a, NoValue) = NoValue

(* A lookup by number and one by dotted string agree. *)
FormsAgree ==
  Quiet => \A a \in Addr : Answer(a, NoValue) = Answer(a, node_value[Root])

(* The recursion of longest_match returns what the closed form Answer says.  *)
(* It pins down what happens at the last window of the address, where the    *)
(* iterator has no bits left but next(4) is still called (ftrie.cpp:92).     *)
LookupReturns ==
  [][call.op = "lookup" /\ call'.op = "idle" => ret' = Answer(call.val, call.arg)]_vars

(* Turning childless nodes into data, as collapse_leaves does, changes no    *)
(* answer of either form of lookup, but for an address whose own slot holds  *)
(* NO_VALUE: by dotted string it no longer falls back to the root's value    *)
(* (bitlevel.h:91). *)
CollapseTransparent ==
  [][data_leaf' # data_leaf =>
       \A a \in Addr :
         \/ Answers(node_value', data_leaf', a) = Answers(node_value, data_leaf, a)
         \/ /\ Content(Found(Occupied, a)) = NoValue
            /\ Answers(node_value', data_leaf', a) = <<NoValue, NoValue>>
    ]_vars

(* An insert changes the answer only of addresses inside its network. *)
InsertLocal ==
  [][call.op = "insert" /\ node_value' # node_value =>
       \A a \in Addr :
         (\E i \in 1..call.width : call.val[i] # a[i])
            => AnswerIn(node_value', data_leaf', a, NoValue) = Answer(a, NoValue)]_vars

(* The trie implements the table of the prefixes that callers insert, with   *)
(* exact answers, or that of the prefixes it really binds, whose lookups may *)
(* miss. *)
ImplementsExact == Exact!Spec
ImplementsLoose == Loose!Spec

(* Every insert and every lookup that starts returns (FairSpec). *)
CallsReturn == (call # Idle) ~> (call = Idle)
=============================================================================
