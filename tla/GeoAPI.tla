-------------------------------- MODULE GeoAPI -------------------------------
(***************************************************************************)
(* One handle of the C interface (GeoAPI.h, GeoAPI.cpp): GeoIP_new, then   *)
(* any sequence of GeoIP_load, GeoIP_push_v4 and lookups.  A file is its   *)
(* kind and what its lines parse to; the kind decides where ids come from, *)
(* which lines are named, whether a second file has the names and whether  *)
(* the leaves are collapsed in the end.  Loading goes line by line.        *)
(***************************************************************************)
EXTENDS GeoDB, FiniteSets

CONSTANTS
  File,          \* files that are loaded, each at most once
  PushNet,       \* networks that are pushed
  PushKey,       \* keys they are pushed with
  IdRange,       \* 2^32, the number of ids of an int
  MaxPrefixes,   \* bound on nprefixes: no push begins at it
  MaxLoads       \* bound on the number of loads

(* A file is [kind, lines, names].  A line, or a row, is [net, id, key]; net *)
(* is NoNet when it has no network and BadMask when reading it throws (stoi  *)
(* of an empty mask, a string made of a NULL column); id is the number in    *)
(* it, which for a ROWID has more bits than an int.                          *)
NoNet == [len |-> -1]
BadMask == [len |-> -2]

NumberedKind == {"ASN", "Country", "City", "sqlite3"}    \* the id is in the line
LineNoKind == {"Prefix", "routeviews", "piranha"}        \* the id is the line number
NamesKind == {"Country", "City"}                         \* names are in a second file
ThrowingKind == {"routeviews", "sqlite3"}                \* a line can throw

ASSUME FileAssumption ==
  \A f \in File :
    /\ f.kind \in NumberedKind \cup LineNoKind
    /\ f.lines \in Seq([net : Net \cup {NoNet, BadMask}, id : Int, key : Key \cup {NoKey}])
    /\ f.names \in Seq([id : Int, key : Key])
    /\ \A i \in DOMAIN f.lines :
         /\ f.lines[i].net = BadMask => f.kind \in ThrowingKind
         /\ f.kind = "sqlite3" /\ f.lines[i].net = NoNet => f.lines[i].key = NoKey
ASSUME PushAssumption == PushNet \subseteq Net /\ PushKey \subseteq Key
ASSUME BoundAssumption == IdRange \in Nat /\ IdRange > 1 /\ MaxPrefixes \in Nat /\ MaxLoads \in Nat
ASSUME IdAssumption == 0..(IdRange - 2) \subseteq Value

VARIABLES
  load,          \* where the running GeoIP_load is, or NoLoad
  loaded,        \* files loaded so far, also in part
  failed,        \* has a load failed?
  given,         \* history: the key last stored for each prefix
  means          \* history: the keys that each id was to stand for

apiVars == <<load, loaded, failed, given, means>>

NoLoad == [part |-> "none"]

ApiQuiet == call = Idle /\ load = NoLoad

(* Mutant: a wider type, that keeps what does not fit an int. *)
StoredIdWide(id) == id

(* An id as the trie stores it: an int, whose -1 is the trie's NO_VALUE. *)
StoredId(id) == IF id % IdRange = IdRange - 1 THEN NoValue ELSE id % IdRange

(* f_geoid's id for line i of a file, and the key f_geodesc gives the line. *)
IdOf(f, i) == StoredId(IF f.kind \in NumberedKind THEN f.lines[i].id ELSE i)
KeyOf(f, i) == IF f.kind \in NamesKind THEN NoKey ELSE f.lines[i].key

(* What a user of the file takes line i to say. *)
MeantKey(f, i) ==
  IF f.kind \in NamesKind
  THEN LET at == {j \in DOMAIN f.names : f.names[j].id = f.lines[i].id}
       IN IF at = {} THEN NoKey ELSE f.names[CHOOSE j \in at : TRUE].key
  ELSE f.lines[i].key

PrefixGiven(n) == [len |-> n.len, bits |-> [i \in 1..n.len |-> n.val[i]]]

Mean(id, key) ==
  means' = IF id = NoValue THEN means
           ELSE [i \in DOMAIN means \cup {id} |->
                   (IF i \in DOMAIN means THEN means[i] ELSE {})
                     \cup (IF i = id THEN {key} ELSE {})]

(* A row is stored.  One whose id is -1 takes its prefix away. *)
Give(n, id, key) ==
  /\ given' = IF id = NoValue
              THEN [p \in DOMAIN given \ {PrefixGiven(n)} |-> given[p]]
              ELSE [p \in DOMAIN given \cup {PrefixGiven(n)} |->
                      IF p = PrefixGiven(n) THEN key ELSE given[p]]
  /\ Mean(id, key)

GeoAPIInit ==
  /\ GeoDBInit
  /\ load = NoLoad
  /\ loaded = {}
  /\ failed = FALSE
  /\ given = [p \in {} |-> NoKey]
  /\ means = [id \in {} |-> {}]

-----------------------------------------------------------------------------
(* An id that no earlier push used. *)
PushId == StoredId(nprefixes + 1)

(* GeoIP_push_v4, and GeoIP_push_v4_str of a string that parses. *)
PushV4(n, key) ==
  /\ load = NoLoad
  /\ nprefixes < MaxPrefixes
  /\ Store(n, PushId, key)
  /\ Give(n, PushId, key)
  /\ UNCHANGED <<load, loaded, failed>>

(* GeoIP_load, up to the open of the file, which can fail. *)
LoadBegin(f) ==
  /\ ApiQuiet
  /\ f \notin loaded
  /\ Cardinality(loaded) < MaxLoads
  /\ frozen => ExtendFrozen
  /\ \/ load' = [part |-> "lines", file |-> f, next |-> 1] /\ UNCHANGED failed
     \/ failed' = TRUE /\ UNCHANGED load
  /\ loaded' = loaded \cup {f}
  /\ UNCHANGED <<vars, dbVars, given, means>>

(* One turn of LoadBlocks' loop, or of sqlite3_step's, up to the insert. *)
LoadLine ==
  /\ load.part = "lines"
  /\ load.next <= Len(load.file.lines)
  /\ LET f == load.file
         line == f.lines[load.next]
         id == IdOf(f, load.next)
     IN /\ line.net # BadMask
        /\ IF line.net = NoNet
           THEN /\ StoreName(id, KeyOf(f, load.next))
                /\ IF KeyOf(f, load.next) = NoKey THEN UNCHANGED means
                   ELSE Mean(id, KeyOf(f, load.next))
                /\ UNCHANGED given
           ELSE /\ Store(line.net, id, KeyOf(f, load.next))
                /\ Give(line.net, id, MeantKey(f, load.next))
  /\ load' = [load EXCEPT !.next = @ + 1]
  /\ UNCHANGED <<loaded, failed>>

(* sqlite3_step returns an error: the loop ends as if there were no more     *)
(* rows, and the load succeeds.                                              *)
LoadCut ==
  /\ load.part = "lines"
  /\ load.file.kind = "sqlite3"
  /\ load.next <= Len(load.file.lines)
  /\ call = Idle
  /\ load' = [load EXCEPT !.next = Len(load.file.lines) + 1]
  /\ UNCHANGED <<vars, dbVars, loaded, failed, given, means>>

(* Reading a line throws out of GeoIP_load: the lines before stay,           *)
(* uncollapsed.                                                              *)
LoadThrows ==
  /\ load.part = "lines"
  /\ load.next <= Len(load.file.lines)
  /\ load.file.lines[load.next].net = BadMask
  /\ call = Idle
  /\ load' = NoLoad
  /\ failed' = TRUE
  /\ UNCHANGED <<vars, dbVars, loaded, given, means>>

LinesDone == load.part = "lines" /\ load.next > Len(load.file.lines) /\ call = Idle

(* The names file is opened, or LoadNames throws. *)
LoadNamesBegin ==
  /\ LinesDone
  /\ load.file.kind \in NamesKind
  /\ \/ load' = [load EXCEPT !.part = "names", !.next = 1] /\ UNCHANGED failed
     \/ load' = NoLoad /\ failed' = TRUE
  /\ UNCHANGED <<vars, dbVars, loaded, given, means>>

(* Mutant: the names are numbered by line. *)
LoadNameByLine ==
  /\ load.part = "names"
  /\ load.next <= Len(load.file.names)
  /\ StoreName(load.next, load.file.names[load.next].key)
  /\ load' = [load EXCEPT !.next = @ + 1]
  /\ UNCHANGED <<loaded, failed, given, means>>

LoadName ==
  /\ load.part = "names"
  /\ load.next <= Len(load.file.names)
  /\ LET entry == load.file.names[load.next]
     IN StoreName(StoredId(entry.id), entry.key) /\ Mean(StoredId(entry.id), entry.key)
  /\ load' = [load EXCEPT !.next = @ + 1]
  /\ UNCHANGED <<loaded, failed, given>>

NamesDone == load.part = "names" /\ load.next > Len(load.file.names)

(* The end of GeoIP_load.  Country alone does not collapse the leaves. *)
LoadEnd ==
  /\ NamesDone \/ (LinesDone /\ load.file.kind \notin NamesKind)
  /\ IF load.file.kind = "Country" THEN UNCHANGED vars ELSE CollapseLeaves
  /\ load' = NoLoad
  /\ UNCHANGED <<dbVars, loaded, failed, given, means>>

Push == \E n \in PushNet, key \in PushKey : PushV4(n, key)

Load == (\E f \in File : LoadBegin(f)) \/ LoadLine \/ LoadCut \/ LoadThrows \/ LoadNamesBegin \/ LoadName \/ LoadEnd

StoreStep == (StoreEnd \/ StoreRuns) /\ UNCHANGED apiVars

(* Lookups run between the calls that change the handle. *)
Lookup == /\ load = NoLoad
          /\ LookupFull
          /\ UNCHANGED apiVars

GeoAPINext == Push \/ Load \/ StoreStep \/ Lookup

allVars == <<vars, dbVars, apiVars>>

GeoAPISpec == GeoAPIInit /\ [][GeoAPINext]_allVars

-----------------------------------------------------------------------------
(* The key of the longest prefix that was stored and covers the address. *)
Covering(a) == {p \in DOMAIN given : \A i \in 1..p.len : p.bits[i] = a[i]}

Meant(a) ==
  IF Covering(a) = {} THEN NoKey
  ELSE given[CHOOSE p \in Covering(a) : \A q \in Covering(a) : q.len <= p.len]

(* No id was to stand for two keys: pushes, line numbers, row ids and the    *)
(* numbers of two files draw from one range.                                 *)
NoClash == \A id \in DOMAIN means : \A k, l \in means[id] : k = l

(* Ids of pushes are a count of what was stored, so that pushes alone never  *)
(* give two keys one id, also around 0.0.0.0/0, which has no place in the    *)
(* trie (GeoAPI.cpp:460, GeoDB.cpp:158,163). *)
PushesNeverClash == loaded = {} => NoClash

(* Types of the variables that GeoDB and GeoAPI add. *)
GeoTypeOK ==
  /\ TypeOK
  /\ DOMAIN mpGeonames \subseteq ValueOrNone /\ \A id \in DOMAIN mpGeonames : mpGeonames[id] \in Key
  /\ nprefixes \in Nat /\ zero_dot_zero \in ValueOrNone
  /\ row \in [id : ValueOrNone, key : Key \cup {NoKey}]
  /\ answer \in Key \cup {NoKey}
  /\ load.part \in {"none", "lines", "names"}
  /\ loaded \subseteq File /\ failed \in BOOLEAN
  /\ \A p \in DOMAIN given : given[p] \in Key \cup {NoKey}
  /\ DOMAIN means \subseteq Value /\ \A id \in DOMAIN means : means[id] \subseteq Key \cup {NoKey}

(* A lookup, run step by step through the trie and the names, answers the    *)
(* key that was stored last for the longest prefix covering the address,     *)
(* 0.0.0.0/0 included, whichever mixture of loads and pushes stored it; both *)
(* forms of lookup do (README.md:40, GeoAPI.h:10-12).  A row whose id is -1  *)
(* takes its prefix out again (GeoDB.cpp:43,51).  It takes no clash of ids   *)
(* and no failed load, and, like OwnKey, networks that do not nest and that  *)
(* lose no bit (FTrieProps!LosesBit): with others the trie's answers differ. *)
FindsKey ==
  [][call.op = "lookup" /\ call'.op = "idle" /\ ~failed /\ NoClash
       => answer' = Meant(call.val)]_allVars

(* At no point, in the middle of a load and after one that failed included,  *)
(* does the handle give an address another network's key, as long as no ids  *)
(* clash.                                                                    *)
OwnKey ==
  call = Idle /\ NoClash
    => \A a \in Addr : {ByIpnum(a), ByIpaddr(a)} \subseteq {NoKey, Meant(a)}

(* A key is found only for an address that some stored prefix covers, even   *)
(* where ids clash, while no network loses its last bit.                     *)
OnlyGiven ==
  call = Idle => \A a \in Addr : ByIpnum(a) # NoKey => Covering(a) # {}

(* The strings that a lookup returns by pointer (GeoDB.cpp:71-73) stay as    *)
(* they are through later loads and pushes.                                  *)
KeysStay ==
  [][\A id \in DOMAIN mpGeonames :
       id \in DOMAIN mpGeonames' /\ mpGeonames'[id] = mpGeonames[id]]_allVars

(* Pushing onto a handle that was loaded is part of the interface            *)
(* (GeoAPI.h:14-17): it never takes a datum for a pointer.                   *)
PushIsSafe == call.op # "crashed"
=============================================================================
