# Verification of ftrie

TLA+ models of [ftrie](../src/README.md), a C++ library that finds the longest IPv4
prefix covering an address, with TLC configurations that check them on small
instances and TLAPS proofs that hold for every instance. Paths such as
`ftrie.cpp:94` are files of `src/`.

To check a model: `tlc -workers 2 -config nested.cfg MCFTrie`; to check the
proofs of a module: `tlapm FTrieProofs.tla`.

## 1. The system

| component | state | operations | works with |
|---|---|---|---|
| bit string and iterator (`bitstring.h`) | `val`, `kbitlength`, `currentpos` | `new_iterator`, `has_more`, `next(win)`, `iszero` | read by `insert` and `longest_match`, passed down by reference |
| trie node (`ftrie.h`, `ftrie.cpp`) | `node_value`, pointers `bl4`..`bl1` | `insert`, both `longest_match`, `isemptynode`, `collapse_leaves` | owns up to four levels; recursion node → level → node |
| level (`bitlevel.h`) | `pos[]` (a byte per slot), `vb` (vector), `data_leaves` (bitset) | constructor, `insert`, `can_match`, `longest_match`, `collapse_leaves`, destructor | owns child nodes, or holds their values |
| database (`GeoDB.h`, `GeoDB.cpp`) | `sproot` (the root node), `mpGeonames`, `nprefixes`, `zero_dot_zero` | `Push`, `LoadBlocks`, `LoadNames`, `LookupGeoname`, `LookupFull`, `collapse_leaves`, `size` | calls back into the two lambdas that parse a line |
| C interface (`GeoAPI.h`, `GeoAPI.cpp`) | none of its own; a handle is a `CGeoDB*` | `GeoIP_new/open/load/delete`, `GeoIP_push_v4[_str]`, three lookups, `GeoIP_size` | the file name decides the kind of file, where ids and names come from, and whether leaves are collapsed |
| text of the C interface (`GeoAPI.cpp:13-75`, the lambdas of `GeoIP_load`) | the string that `getline` fills again and again; pointers into it | `get_csv_field`, the search for tabs, `IP4_to_number` | called back by `LoadBlocks` and `LoadNames` for each line |
| string tokenizer (`StrTokenizer.*`) | a copy of the line (`m_Copy`), offsets of tokens | three constructors, copy, destructor, `GetCount`, `GetToken`, `LastToken`, `GetTokenLen`, `each_token` | splits lines of piranha logs |
| LuaJIT wrapper (`ftrie.lua`) | `_db` of each table, two result cells | `new`, `open`, `lookup_key`, `lookup_dotted`, `close` | C interface, whose pointers it holds |
| test programs, vendored SQLite headers, `Makefile` | – | – | – |

**How it runs.** There is one thread and no lock. The program is a sequence of calls
on a handle; each walks a recursive structure whose depth and branching are decided
by bits of an address. Nothing is persisted and nothing is sent. So the hard
behaviours are not races. They are:

- *histories*: what an answer becomes after a particular order of inserts, loads and
  collapses. A test that loads one file and asks 25 addresses (`testapi.cpp`) sees one
  history;
- *numeric edges*: windows of four bits over lengths that are not multiples of four, an
  unsigned `kbitlength-1`, shifts by the width of the word;
- *a representation that changes meaning*: `collapse_leaves` stores an integer where
  a pointer was and marks it in a bitset that is indexed by vector position, while the
  loop runs over slots;
- *half-done work*: a load that throws between blocks and names, or in the middle of a
  dump, leaves what it had done, in the handle and in SQLite;
- *pointers that outlive*: `close` keeps the pointer it has deleted, a failed open returns
  one that Lua takes for a database, a tokenizer's offsets go with a copy of its buffer, a line's end
  is followed by the rest of an earlier line;
- *ids from four sources* (the line, the line number, the row id, the count of prefixes)
  in one map where the first name for an id stays.

`PROJECT.json` lists each of these as a hazard, at the line where it bites.

**What makes each component correct.**

- iterator: the windows it returns tile the prefix; it stops at the prefix's length;
  a slot selected by a short window on insert is the one selected by the top
  of a whole window on lookup.
- level: a map from slots to children; one vector entry per taken slot; no index becomes
  `EMPTY_SLOT`; the bitset tells data from pointers; each child is freed once.
- trie: the pointers form a tree; no step follows a datum; every answer is the value of the
  longest inserted prefix covering the address, and is found; an insert changes no
  answer outside its network, a collapse changes none; calls return. (Not all of this holds of the code: section 3.)
- database and interface: the key found is the one last stored for the longest
  prefix, whichever way it was stored, and no failure makes an address answer with another network's
  key; strings handed out stay valid; pushes never give two keys one id.
- handles: a database is used and deleted only while it exists, and closing what was opened gives
  everything back but what failed loads lost.
- text: a field that is there, a token, the tail of a line and the bytes of a key are those that the text has, whatever is in memory
  behind them, and no pointer leaves the line unless a field is asked for that is not there.

## 2. Modules

| module | models | kind |
|---|---|---|
| `PrefixTable` | what a longest-prefix table promises (a table from prefixes to values, one request at a time) | abstract specification |
| `FTrie` | `ftrie.cpp`, `ftrie.h`, and the levels' part in them | detailed specification |
| `FTrieProps` | properties of `FTrie`, refinement of `PrefixTable` | |
| `FTrieProofs`, `FTrieRefinement` | proofs about `FTrie`: its shape and what it answers; its steps and the refinement | proofs |
| `BitString` | `bitstring.h`: shifts and masks | detailed specification |
| `BitStringProofs` | proofs about `BitString` | proofs |
| `SlotMap` | what a level promises: a map from slots to children | abstract specification |
| `BitLevel` | `bitlevel.h`, refinement of `SlotMap` | detailed specification |
| `BitLevelProofs` | proofs about `BitLevel`, refinement included | proofs |
| `GeoDB` | `GeoDB.cpp` over `FTrie` | composition |
| `GeoAPI` | what one handle of `GeoAPI.cpp` contains, over `GeoDB`, and its properties | composition |
| `GeoAPIProofs` | proofs about `GeoAPI`, over those about the trie | proofs |
| `Handles` | the life of handles and of SQLite connections (`GeoAPI.cpp`) under scripts (`ftrie.lua`) | composition |
| `HandlesProofs` | proofs about `Handles` | proofs |
| `StrTokenizer` | `StrTokenizer.cpp` | component of `TextInput` |
| `CsvField` | `get_csv_field` over the buffer of the line | component of `TextInput` |
| `TextInput` | both, with the search for tabs and the keys of `GeoAPI.cpp` | composition |
| `TextInputProofs` | proofs about `TextInput`: tokenizers, tabs, keys, types | proofs |
| `CsvFieldProofs` | proofs about `get_csv_field` in `TextInput`, over those types | proofs |
| `MCFTrie`, `MCTestData`, `MCBitLevel`, `MCGeoAPI`, `MCHandles`, `MCTextInput` | constants for TLC (`BitString` needs none) | |

### FTrie

The trie is two functions on *access paths*. An access path is the sequence of bit
strings that select a slot, from the root; a string of length *r* is a slot of level
`bl`*r*. `node_value` maps the paths of live nodes to their value, `data_leaf` the
paths of collapsed slots to the datum stored there. A child pointer is written once,
when the child is allocated, so paths name nodes uniquely and "`pos[]` is not
`EMPTY_SLOT`" is "the path is in one of the two domains".

`call` is the running activation of `insert` or `longest_match`: the word and its length, the
iterator's position, the node (`this`), and the value or `parentval`. One action is one
activation together with the level method it calls:

| action | code |
|---|---|
| `InsertCall` | `sproot.insert(iter, id)` |
| `InsertHere` | `has_more()` is false: `node_value=value` |
| `InsertBelow` | a level's `insert`, into a free or a taken slot, and down |
| `InsertAbort` | the `default:` of the switch, `assert(false)` |
| `InsertIntoData` | a level's `insert` calls through a slot that holds a datum |
| `LookupIpnum`, `LookupDotted` | the two entries, which differ in `parentval` |
| `LookupBelow`, `LookupData`, `LookupHere` | the three ways an activation of `longest_match` goes on |
| `CollapseLeaves` | the whole pass of `collapse_leaves` |

The pass is one step because it neither calls out nor can be interrupted. It is a
set expression because a node is childless exactly if no taken slot lies below it, and collapsing
one node makes no other node childless (its slot stays taken). `HasMore` has the unsigned
subtraction: true for length 0, and `currentpos < width-1` otherwise. `TopBits(r)` are the
bits `bitval >> (4-r)`, for a short last window as well; a lookup reads a ninth, empty
window at the last level of nodes, as the code does.

A value that is inserted may be `NO_VALUE` (0xffffffff): `LoadBlocks` inserts whatever id it gets (`GeoDB.cpp:109`), and an id of -1
is that number. An insert of it overwrites what the prefix had, and `collapse_leaves` makes a datum of it like of any other.

`FTrieProps` shows the trie as a `PrefixTable` in two ways. In both a prefix is bound to what is at the end of its path, the running
call is a request, and a call that has aborted or crashed is a request that is never answered.

- `Exact` is the table of the prefixes that *callers insert* (`NetTable`, `CallView`). `LongestMatch`, `LongestOrMiss`, `OnlyCovered` and
  `ImplementsExact` are judged by it.
- `Loose` is the table of the prefixes that *inserts bind* (`TableView`, `ReqView`): those of `Effective` networks, a length
  of 4k+1 having lost its last bit (section 3, point 2). Only `ImplementsLoose` is judged by it. It says what the code computes, with the loss, and is no claim that
  the answers are right.

A lookup by dotted string that `sscanf` rejects never enters the trie; it is
`GeoDB!LookupUnparsed`.

### BitString

`next` and `has_more` with integers of `WordBits` bits: `>>` is division by a power of
two, `&` a remainder, and a shift by the width of the word or more, which is undefined in
C++, may return anything. Two readers drive it: an insert, which asks `has_more()` first,
and a lookup, which does not. `Lengths` says which lengths a request for a mask leads to: what passes through a
`uint8_t` is taken modulo 256 (`MaskRange`), a row of a database stays an `int`, and none is compared with 32.
`FTrie` names bits by their position; this module shows that
this is what shifting and masking select.

### BitLevel and SlotMap

`BitLevel` is the representation: `pos` (bytes), `vb` (a sequence of pointers
or data), `data_leaves` (a set of vector indexes), and the heap of the level's children, of which
only the value, which may be `NO_VALUE`, and whether they have levels matter. `Wild` is what reading a pointer as a
datum, or the reverse, gives. `SlotMap` is what the level is for. In `SlotMap` a slot is
free, a child or a datum; `SlotView` maps the representation to it.

`FTrie` uses levels as `SlotMap` describes them: its `InsertBelow` is `InsertNew` or
`InsertOld`, `InsertIntoData` is `InsertDatum`, and so on. The proof that `BitLevel` implements
`SlotMap` is thus what allows `FTrie` to leave `pos` and `vb` out.

### GeoDB and GeoAPI

`GeoDB` adds to the trie the map of names, the count and the default id. A key
and its label travel together and are one `Key`. Storing a row is `StoreBegin` (or `StoreZero` for
0.0.0.0/0), the trie's steps, and `StoreEnd`, which counts and names it; `Push` and a line of
`LoadBlocks` are the same sequence. A lookup is the trie's steps and then `FullAnswer`.

`GeoAPI` is one handle. A file is its kind and what its lines parse to; its kind decides
whether ids are read or are line numbers, whether lines are named at once or by a second file, and whether
leaves are collapsed in the end (Country alone does not). A load goes line by line. It can fail at
either `open`; reading a line can throw half way, `stoi` of a dump's mask or a string made of a NULL
column (`LoadThrows`); and an error of `sqlite3_step` ends the rows early and the load well (`LoadCut`). An id is narrowed to
an `int` of `IdRange` values, the last of which is -1, the trie's `NO_VALUE` (`StoredId`). `given` and `means` are history
variables: the key that was last stored for each prefix, with all of its bits, from which `Meant` derives what a lookup should say, and
the keys that each id was to stand for (`NoClash`). A row whose id is -1 takes its prefix out of `given`.

### Handles

Databases are addresses, and `live` are those allocated; an address may come back after a delete. `Open` is
`GeoIP_open` up to the load; the load rejects the file's name, or reads text and returns or throws, or goes through SQLite: open,
prepare, rows. `OpenReturns` is the end of the wrapper's `open`, where `IsTrue` is Lua's truth. Between a load's steps nothing else
runs, as there is one thread. The script is the environment: it goes by what `open` reported, looks up in a table and closes
it only while it is open, and opens it again only after closing it. A `fault` is a use of a pointer to
nothing, after which nothing is modelled.

### StrTokenizer, CsvField and TextInput

Characters are model values; what matters is whether one is a delimiter, a quote, a comma, a tab or NUL.
`StrTokenizer` has tokenizers at places (`Object`), their buffers at addresses, and a turn of either loop as an
action, with `strtok_r`'s `saveptr` as `at`. `CsvField` has what lines have written to the buffer of the string `line`: the characters up to the
NUL of the longest so far (`text`, `extent`). `ReadLine` overwrites its beginning and leaves the rest, as `getline` does; a line longer than all
before writes all of it, be it moved or not. `FieldTurn` is a turn of
`get_csv_field`'s loop, `FieldMissing` its end at a NUL, be it the line's or one that an earlier line left. `FieldOutside` is a read of what was never
written or is not the string's: it may return anything (`Wild`) or fault. So may a turn that copies a field of `BufSize` characters or more over what
is behind `bufout` (`Undefined`). `TextInput` lets a handle read one of four kinds of text. `TabTurn` is a turn of the search for the third tab, where `npos`
is -1. What is right is stated without loops: `Starts` and `TokenFrom` by the places where tokens start, `Field` by counting quotes and cuts,
the tail by counting tabs, a key by its digits.

## 3. Runs

Addresses of eight bits have the two kinds of position that matter: a window followed by another,
and the last one; every remainder of a length by four occurs. What eight bits cannot show is checked at 32 bits by
`exact`.

| run | instance | shows | states |
|---|---|---|---|
| `nested` | 10/2 and, below it, 1010 0101/8 and 101011/6; a /1 and a /5, which lose their last bit, the /1 to the root; an address with mask 0; inserts after a collapse too; two values or `NO_VALUE`, five addresses, one of which (1000 0000) differs from the /5 (1000 1) only in the lost bit | the tree keeps its shape, also when a call has aborted or crashed (`WellLinked`); away from the /5, an answer is the longest match of the callers' prefixes, a miss, or the root's value (`LongestOrMiss`); what is bound is what `Loose` says, for both forms of lookup (`ImplementsLoose`); the recursion computes the closed form (`LookupReturns`); a collapse changes only answers by dotted string at slots that hold `NO_VALUE` (`CollapseTransparent`) | 634k |
| `exact` | 32 bits, four blocks of the repository's test file that keep all their bits, which share levels of two, three and four bits, each with a value or `NO_VALUE`; eight addresses at and beside their ends; fairness | `LongestMatch`; `ImplementsExact`, for both forms of lookup; no crash; an insert changes only its network's answers; `CallsReturn` | 124k |
| `bits` | every word of eight bits, masks 0..17 of which those from 16 on are beyond their type, both readers | shifts and masks select the right bits, inserts stop where they should | 70k |
| `level` | four slots, four node addresses (symmetric), one value or `NO_VALUE` | the representation's invariants and `ImplementsSlotMap`, up to destruction | 138k |
| `api` | six files, one of each kind but the prefix list (whose ids are line numbers, as the log's), of which any two are loaded: a default network, a missing name, shared ids, ids of -1 and of more bits than an int, skipped lines, an unparsable mask, a NULL column; pushes of three networks (0.0.0.0/0 and another address with mask 0 among them) with two keys while fewer than three rows are stored; an address in each network, that of the row whose id is -1 included | `FindsKey`, `OwnKey`, `OnlyGiven`, `PushesNeverClash`, `KeysStay` | 802k |
| `parse` | all texts of up to five characters, tokenized in three ways and copied; all lines of up to five characters one after another, fields 0 to 3, up to one character of any kind where nothing is defined; all routeviews lines of up to six; every digit in every place of a key | tokens, fields that are there, tails and bytes are those of the text, and buffers are owned | 27k |
| `handles` | two tables, four addresses (both symmetric), each of which a failed open uses up for good | `NeverFreed`, `OneHolder`, `LostByFailure`, `LeftByFailure` | 4.9k |
| `missed` | the nested prefixes | *violation* of `LongestMatch` | |
| `testdata_odd` | 32 bits, the /21 of the test file | *violation* of `OnlyCovered` | |
| `zero` | an address with mask 0 | *violation* of `NoCrash` | |
| `api_overload` | load an ASN file, push one of its networks | *violation* of `PushIsSafe` | |
| `lua_open` | as `handles` | *violation* of `OpenTellsTruth` | |

Two values are enough to tell an overwritten value from a kept one. The trie's own runs
have no bound on how often prefixes are inserted: a trie over finitely many prefixes has
finitely many states. `level` needs four slots and no more, since slots interact only
through the vector index; the proofs cover 2, 4, 8 and 16. In `api`, `MaxPrefixes` (3) bounds pushes, because
every push takes a new id: three are enough for pushes before, between and after two loads, and for ids of
pushes to meet the line numbers of a file. `IdRange` is 32, five bits for an `int`. The trie's values are the ids below it but the last (`Value <- Ids`). In `handles` every failed open loses an address for good, so that
there are finitely many opens; four addresses let two tables hold a database each while two are lost. In `parse` five characters are enough for a quoted
field with a neighbour, for empty fields at either end and for adjacent delimiters; the buffer's `BufSize` is 4, so that fields that do not
fit occur. `Wild` is the strings of up to one character: `FieldRight` only asks whether the field is the one of the line.

`CHECK_DEADLOCK FALSE` is set where the system does stop: after an abort or a crash
(`nested`, `zero`, the `GeoAPI` runs), after the destructor (`level`), when a reader is done (`bits`), after a use of a
null pointer (`handles`, `lua_open`), and when a tokenizer is left without a free buffer (`parse`).

Fairness is used by `exact` alone (`FairSpec`): weak fairness of `InsertStep` and of `LookupStep`.
There is one thread, and a recursion that has begun is what that thread executes, so a call's next
activation is always run. Nothing is assumed about callers: they may never call.

### What the violations say about the code

1. **A shorter prefix is missed** (`missed`). `longest_match` enters the first level
   that matches, hands `parentval` down unchanged and never comes back. After 10.0.0.0/8
   and 10.1.1.0/24, 10.1.2.3 is not found. What does hold is `LongestOrMiss`: for an address that differs from each network of length 4k+1 in one of
   the bits that it keeps (`Spared`), an answer is not that of another prefix. It is right, missing, or what a network of mask 1 left at the root. For other
   addresses it may be wrong, by point 2. With prefixes that do not overlap and keep their bits, nothing is missed (`exact`).
2. **A length of 4k+1 loses its last bit** (`testdata_odd`): `has_more()` compares with
   `kbitlength-1`. Of the /21 142.169.240.0 only the first 20 bits are kept, so that
   neighbours outside are found, and the /21 beside it is stored in the same place. `bl1` is never used.
3. **Mask 0 with another address than 0.0.0.0** (`zero`) gets past `iszero()` and ends in
   `assert(false)`.
4. **Insert after collapse** (`api_overload`): a push (or a second load) whose path
   reaches a collapsed slot calls `insert` through an integer.
5. **`open` reports success for a null pointer** (`lua_open`): a file of unknown kind, or one that SQLite cannot
   open. The next lookup passes the null pointer on.

More follows from the models and has no run.

- With a /1, whose value goes to the root by point 2, lookups by number and by dotted string differ, since only the latter starts with the root's
  value; `BothFormsAgree` therefore assumes that there is none.
- A row whose id is -1 is stored as `NO_VALUE` (`GeoDB.cpp:43,109`): its network cannot be found and hides the one it was stored over. If the root has a value, a
  lookup by dotted string falls back to it until the leaves are collapsed, and finds nothing afterwards, as `bitlevel.h:91` returns the datum as it is.
- After loading a file numbered by line that has a skipped line, the id `size()+1` of a push is one the file has used (`GeoAPI.cpp:460`), and row ids of a
  database that differ by a multiple of 2^32 become one (`GeoAPI.cpp:398`). Such handles answer with another network's key. `FindsKey` and `OwnKey`
  are stated for handles in which ids do not clash; they say nothing of the others.
- An error of `sqlite3_step` ends a load like the last row does (`GeoAPI.cpp:389`). The properties expect the rows that were read.
- Each open that fails loses a database (`GeoAPI.cpp:86`). One that fails in `sqlite3_open_v2` or at a NULL column (`GeoAPI.cpp:376-378`, `392`) also leaves a
  connection open, although `sqlite3.h:3188-3190` says that "whether or not an error occurs when it is opened" its resources should be released by `sqlite3_close()`. `LeftByFailure`
  does not say that nothing is left. It bounds what is, by one connection and one statement for each lost database.
- A field of 256 characters or more runs over `bufout` (`GeoAPI.cpp:67`), and a field that a line does not have may be read from anywhere (`GeoAPI.cpp:71`); after
  either, nothing is claimed. Quotes within quoted fields, which CSV doubles, are not understood; `FieldRight` is about lines without them.

## 4. Proofs

All proofs are checked by TLAPS for every value of the constants, under the modules' named
assumptions: the width of an address is a multiple of four (`AddrBitsAssumption`), `Value` is the numbers other than
`NO_VALUE` (`NoValueAssumption`; `NO_VALUE` is inserted as well), networks are words of that width with a mask no longer than it, and addresses are such words
(`NetAssumption`, `AddrAssumption`; the code does not check a mask, `GeoAPI.cpp:457`, and what an insert does with a longer one is in `BitString` alone), 1..4 bits for a level (`NbitsAssumption`), files have the form that their
kinds have (`FileAssumption`), every id but `NO_VALUE` is a value (`IdAssumption`), texts, lines and keys are sequences of
characters (`TextAssumption`, `LineAssumption`, `RouteLineAssumption`, `KeyAssumption`). TLC evaluates each of them in the runs of
its module; where a theorem needs more, its statement says so.

Every invariant and every action property that a passing run checks has a theorem; so do the three refinements. Only
liveness has none.

**Trie** (`FTrieProofs`). Each theorem is `Spec => []...`; each invariant is proved inductive
relative to the ones before it.

| theorem | argument |
|---|---|
| `TypeCorrect` | `TypeInv` adds to `TypeOK` that the root lives and that a running call stands at a live node with its position within its width (`CallShape`); without these an insert could write outside `node_value` |
| `TreeShape` | `WellLinked` is inductive given `TypeInv`: an insert appends one slot to a live node, and only from a window of four bits does the recursion go on, because a shorter window is the last; a collapse removes childless nodes, and a node inside another's path is not childless (`InnerIsNotEmpty`) |
| `InsertsNeverCrash` | if no mask is 0 and nothing is inserted after a collapse: before the first collapse there are no data, and an insert of nonzero length that has more bits reads at least one (`CrashInv`) |

`InsertsNeverCrash` states the precondition under which the library is safe, and the runs
`zero` and `api_overload` show that each half of it is needed.

**Level** (`BitLevelProofs`). `LevelInv` is `TypeOK`, `Indexed`,
`FreesAll`, and, until the level has ended, `DataMarked`, `DataInside`, `OneOwner` and
`Reachable` (the parts of `Owned`). The step that needs thought is `InsertNew`: that
`vb.size()` fits a byte and is not `EMPTY_SLOT`. Taken slots and entries correspond one to one, and the slot being filled is
free, so there are fewer entries than slots; lemma `Room` derives this pigeonhole
argument from the library's facts about finite sets. From `LevelInv` follow `LevelTypes`, `SlotsIndexed`, `ChildrenOwned` and
`ChildrenFreed`.

`LevelIsAMap` is `Spec => ImplementsSlotMap`: initial states map to initial states (`MapInit`)
and each step maps to one step (`MapInsertNew`, `MapInsertOld`, `MapLookup`, `MapCollapse`, `MapDestroy`),
using `ViewAt`, which says what `SlotView` shows of a slot when `LevelInv` holds.

**Answers** (`FTrieProofs`). `TreeInv` is `TypeInv` and `WellLinked`. `WayInv` adds what relates the trie to the
inserted networks: a running insert stands on the path of its own prefix (`InsertPath`), every taken slot lies on the
path of some network (`Rooted`), and a value at a slot belongs to a network whose effective prefix ends there (`Contents`).
`TreeInv /\ WayInv` is inductive, and everything about answers follows from it:

| theorem | hypotheses | argument |
|---|---|---|
| `NeverAWrongValue` | | the slot that a lookup ends at lies on the address's own path, so that its value is of a covering effective prefix, and a longer one with a value would have been further down (`ValueIsLongest`). If the address is `Spared`, an effective prefix that covers it is a caller's with all its bits (`SparedMatch`), but for the empty one, which is a mask of 1 |
| `LongestMatchFound` | `KeepsAllBits`, `NoNesting` | the callers' table is then the one that inserts bind (`OneTable`), and a slot with no value at the end of the walk means that nothing covers the address (`NothingCovers`) |
| `BothFormsAgree` | no mask of 1 | then no insert ends at the root (`RootIsFree`) |
| `CollapseKeepsAnswers` | | the step moves values from `node_value` to `data_leaf` and leaves `Occupied` alone; the slot found is the same. Where it holds `NO_VALUE`, a datum is returned and a node falls back to `parentval`: this is the exception that the property makes |

`KeepsAllBits` says that no length is 4k+1. `NoNesting` says that two networks which agree on all bits of the shorter have one length; it leaves networks of length 0
aside, since an insert of such a one aborts, and 0.0.0.0/0 never enters the trie. Both are about the networks as callers give them. Neither holds of every file:
the repository's test file has a /21. What the trie answers then is in `NeverAWrongValue` and `TrieMayMiss`, and the runs `missed` and `testdata_odd`
show that the stronger statements fail.

**Steps** (`FTrieRefinement`). `LookupInv` adds `LookupPath`: a running lookup stands at the path of the windows it has read
(`OnWindow`), or below a slot of two or three bits (`OnLevel`). `RecursionReturns` follows, then the refinements: the initial
state maps to the initial state (`InitIsInit`), and each step to a request, an insert, a lookup or a stutter (`StepIsAStep`). `TrieMayMiss` has no hypothesis: the trie is `Loose`,
the table of what inserts bind, lost bits and all. `TrieIsTheTable` is about `Exact`, the callers' table, and assumes `KeepsAllBits` and `NoNesting`; so does
`InsertsAreLocal`, since without either an insert does change answers outside its network. The blocks
of `exact` satisfy both.

**Iterator** (`BitStringProofs`). For windows of four bits, and words and masks of any size: the position is a multiple of four until it
is the length (`PositionInv`), and a length with a single bit left over is never read to its end by an insert
(`NoSingleBit`). With these, `InsertStopsAtLength` and `InsertNeverAborts` are inductive.

For windows of any size and words of at most 32 bits, the invariant `BitsInv` says that what has been read is the word
shifted right by what is left, and the last whole window is the remainder of that. From it follow `ReaderTypes`, `WindowsTileWord` and
`SlotsOfWindows`. The bound on `WordBits` stands for an induction: that powers of two are positive and multiply as their exponents
add is proved for exponents up to 32 by cases. It is the width of the code's words; the run has eight bits.

**Handles** (`HandlesProofs`). `HandleInv` is the invariants of the run with `OpenLive` (an open table holds a
live database or a null pointer) and `Counted` (besides those of the running call there are no more connections open than databases were lost, and no more
statements than connections). `NoUseAfterDelete`, `HandlesHaveOneOwner`, `OnlyFailuresLose`, `OnlyFailuresLeak` and `HandleTypes` follow, for any
number of tables and addresses.

**Database and interface** (`GeoAPIProofs`, over the trie's theorems: each step of a handle is a step of the trie or leaves it
alone, `StepOfTrie`).

| theorem | hypotheses | argument |
|---|---|---|
| `HandleTypes` | | `GeoInv`: `GeoTypeOK`, the trie's `LookupInv`, and `LoadShape`, where in its file a load stands |
| `NamesStay` | | no invariant: each action either inserts into the map of names, where an id keeps its first name (`NamesKept`), or leaves it alone |
| `PushesHaveOwnIds` | `MaxPrefixes < IdRange` | `PushesCount`: before the first load every id is at most the count of what was stored, and below it once the running insert is done |
| `NothingOutOfNothing` | `KeepsAllBits` | `HeldIsGiven`: the prefixes that were given are those held in the trie, beside it (0.0.0.0/0) or by the running insert, each under an id that was to stand for its key |
| `NoForeignKey` | `KeepsAllBits`, `NoNesting` | `HeldIsGiven` and `NamesAreMeant` (a name in the map was meant for its id): the trie's answer is the id of the longest given prefix (`MatchIsGiven`), and while ids do not clash an id means one key |
| `LookupFindsKey` | the same | also `MeantIsNamed`: a key that was meant is named, or will be by the running insert or by the file of names that the load has still to read, unless a load has failed |

`HandleInv` is `GeoInv`, `NamesAreMeant` and, until a crash, `HeldIsGiven` and `MeantIsNamed`; after a crash the history no
longer says anything, and neither do the properties. The hypotheses restrict the networks, as above: a file with
a /21 is outside the last three theorems, and two /21s that differ in their last bit do answer with each other's key. `MaxPrefixes < IdRange` says that an `int` has more values than a table prefixes.
That ids do not clash is a premise of the properties themselves (`NoClash`), since mixing files and pushes does make them clash; only
`NothingOutOfNothing` needs no such premise. The networks of the run `api` satisfy both hypotheses.

**Text** (`TextInputProofs`, `CsvFieldProofs`), for texts, lines and buffers of any length. The loops are inductive invariants over the place
that the loop has reached, so that no induction over data is needed; sets of positions are counted with the library's facts about finite sets.

| theorem | argument |
|---|---|
| `BuffersOwned` | `BuffersInv` adds to `OwnBuffers` that a place holds no tokenizer or one with all its fields |
| `TokensAnswered` | `Scan`: half way, delimiters before the place reached may have become NULs and those behind the tokens found have; the offsets found are, in order, the places before it where tokens begin. When the loop has ended (`Scanned`) no token begins behind it. A token is then what lies between its beginning and the first NUL, which is where the next delimiter was |
| `LinesCut` | `TailInv`: after *i* turns there are *i* tabs up to the cut, provided the line has three and does not begin with one. Without that proviso the search does go wrong, since `npos` starts it again at the beginning |
| `KeysConverted` | `KeyInv`: each byte is what the table of digits gives for its two characters; the table is right for every digit in either case |
| `TextTypes` | `BuffersInv`, `Scan`, `TailInv`, `KeyInv`, and `CsvTypes`: the line is in what was written of the buffer and a NUL behind it, the field's pointer there or at most two characters behind |
| `FieldsFound`, `ReadsTheLine` | `LoopInv`, for lines whose quotes are well-formed (`WellFormed`): the loop stands at the beginning of field `idx` of the line (`Within`), or behind the line, which has no more than `idx` fields and whose last one shows why the pointer went over the end (`Behind`); of what is read there nothing is assumed (`NothingKnown`), and nothing is claimed. That each turn goes from one beginning to the next is `TurnEnds`, on the number of cuts up to a place (`Rank`) |

**Model-checked only.** Liveness (`CallsReturn` under `FairSpec`), which with fairness and `ENABLED` is out of the prover's reach. The five violations
are TLC's counterexamples. No module has a `RECURSIVE` operator.

## 5. Not modelled

- *SQLite*: the headers `sqlite3.h` and `sqlite3ext.h` are declarations of a library whose source is not in the repository. Of it
  the models have what `GeoIP_load` sees: connections, statements and rows. These two headers are 12,387 of the 13,902 lines of C and
  C++ in the repository, so that the share of lines that the models stand for is small however much of the remaining 1,500 they cover.
- *`sscanf` and `stoi`*: which text they take for an address or a number is the C library's; `GeoAPI` takes
  what a line yields as an input. Of a mask below 0 in a database only its length as a `size_t` would matter, at which an insert
  does not stop within the word.
- *Labels* apart from keys, and the text of names that are put together from fields.
- *Allocation failure*: `new` and `push_back` succeed. After a failure inside `bitlevel_t::insert` a slot names an entry past the end of the
  vector, whose use is undefined.
- *Misuse of handles*: scripts that look up after `close` or close twice, and callers of the C interface other than the wrapper, whose
  handles live as `GeoAPI` says only while they are not deleted.
- *Output*: debug dumps, the test programs (they call the interface in a straight line, print, and check nothing), the Makefile.

## 6. Plan

The order was: the trie (its answers are the library's purpose), its iterator and levels (what the
trie's model takes for granted), then the database and the interface (how the trie is driven), the life of handles, and the text
that comes in. What could still be added:

1. *Labels* as a second component of a name, and the fallbacks of the country and city files from one field to another.
2. *The readers together, proved*: that the slots `BitString` selects with shifts are the bits by position that `FTrie` names, as a refinement of
   one by the other; today `WindowsTile` and `TopBitsAgree` say so of `BitString` alone.
3. *The history of ids*: which mixtures of files and pushes keep `NoClash`, as a theorem about `GeoAPI`.
