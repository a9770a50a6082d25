---------------------------- MODULE GeoAPIProofs -----------------------------
(***************************************************************************)
(* TLAPS proofs about a handle of the C interface, for all files, all      *)
(* networks and keys that are pushed, and any bounds.                      *)
(***************************************************************************)
EXTENDS GeoAPI, FTrieRefinement

(* The id under which a prefix is held: by the running insert, in the trie,  *)
(* or beside it for 0.0.0.0/0. *)
BeingStored(p) == call.op = "insert" /\ p = PrefixGiven([val |-> call.val, len |-> call.width])

HeldId(p) ==
  IF BeingStored(p) THEN call.arg
  ELSE IF p.len = 0 THEN zero_dot_zero
  ELSE TableView[p]

(* The prefixes that were given are those that are held, each under an id    *)
(* that was to stand for its key. *)
HeldIsGiven ==
  /\ DOMAIN given \subseteq Prefix
  /\ \A p \in Prefix : p \in DOMAIN given <=> HeldId(p) # NoValue
  /\ \A p \in DOMAIN given : HeldId(p) \in DOMAIN means /\ given[p] \in means[HeldId(p)]
  /\ zero_dot_zero # NoValue => \E p \in Prefix : p.len = 0

(* Names, and the one that the running insert brings, were meant. *)
NamesAreMeant ==
  /\ \A id \in DOMAIN mpGeonames :
       id # NoValue => id \in DOMAIN means /\ mpGeonames[id] \in means[id]
  /\ call.op = "insert" /\ row.id # NoValue /\ row.key # NoKey =>
       row.id \in DOMAIN means /\ row.key \in means[row.id]

(* A file of names that the load at ld has still to read names id. *)
NamesAhead(ld, id) ==
  /\ ld # NoLoad
  /\ ld.file.kind \in NamesKind
  /\ \E j \in DOMAIN ld.file.names :
       /\ ld.part = "names" => j >= ld.next
       /\ StoredId(ld.file.names[j].id) = id

(* A key that was meant is named, unless a load failed or will name it. *)
MeantIsNamed ==
  \A id \in DOMAIN means : \A k \in means[id] :
    \/ k = NoKey \/ failed
    \/ id \in DOMAIN mpGeonames
    \/ call.op = "insert" /\ row.id = id /\ row.key # NoKey
    \/ NamesAhead(load, id)

(* Before the first load, ids are the numbers up to the count of pushes. *)
PushesCount ==
  loaded = {} =>
    \A id \in DOMAIN means :
      /\ id \in 0..(nprefixes + 1)
      /\ call.op \notin {"insert", "aborted", "crashed"} => id <= nprefixes
      /\ \A k, l \in means[id] : k = l

(* Where a load stands. *)
LoadShape ==
  \/ load = NoLoad
  \/ /\ load = [part |-> load.part, file |-> load.file, next |-> load.next]
     /\ load.part \in {"lines", "names"} /\ load.next \in Nat \ {0}
     /\ load.file \in File /\ load.file \in loaded

-----------------------------------------------------------------------------
(* What a step of the interface does to rows and names. *)
StoresRow(n, id, key, meant) ==
  /\ Store(n, id, key) /\ Give(n, id, meant)
  /\ key = meant \/ (key = NoKey /\ NamesAhead(load', id))

NamesRow(id, key) ==
  /\ StoreName(id, key) /\ given' = given
  /\ IF key = NoKey THEN means' = means ELSE Mean(id, key)

LEMMA StoredIdType ==
  ASSUME NEW id \in Int
  PROVE  StoredId(id) \in ValueOrNone /\ (StoredId(id) # NoValue => StoredId(id) \in 0..(IdRange - 2))
<1>1. IdRange \in Nat /\ IdRange > 1
  BY BoundAssumption
<1>2. id % IdRange \in 0..(IdRange - 1)
  BY <1>1
<1>3. id % IdRange # IdRange - 1 => id % IdRange \in 0..(IdRange - 2)
  BY <1>1, <1>2
<1> QED
  BY <1>3, IdAssumption DEF StoredId, ValueOrNone

LEMMA ElementOf ==
  ASSUME NEW S, NEW s \in Seq(S)
  PROVE  DOMAIN s = 1..Len(s) /\ Len(s) \in Nat /\ \A i \in 1..Len(s) : s[i] \in S
OBVIOUS

LEMMA LineFacts ==
  ASSUME NEW f \in File, NEW i \in Nat \ {0}, i <= Len(f.lines)
  PROVE  /\ f.lines[i].net \in Net \cup {NoNet, BadMask}
         /\ IdOf(f, i) \in ValueOrNone
         /\ KeyOf(f, i) \in Key \cup {NoKey} /\ MeantKey(f, i) \in Key \cup {NoKey}
         /\ \/ KeyOf(f, i) = MeantKey(f, i)
            \/ /\ KeyOf(f, i) = NoKey /\ f.kind \in NamesKind
               /\ \E j \in DOMAIN f.names : StoredId(f.names[j].id) = IdOf(f, i)
<1> DEFINE at == {j \in DOMAIN f.names : f.names[j].id = f.lines[i].id}
           LineOf == [net : Net \cup {NoNet, BadMask}, id : Int, key : Key \cup {NoKey}]
           NameRow == [id : Int, key : Key]
<1>1. f.lines \in Seq(LineOf) /\ f.names \in Seq(NameRow)
  BY FileAssumption
<1>2. f.lines[i] \in LineOf
  <2> HIDE DEF LineOf
  <2>1. i \in 1..Len(f.lines)
    BY <1>1, ElementOf
  <2> QED
    BY <1>1, <2>1, ElementOf
<1>3. \A j \in DOMAIN f.names : f.names[j] \in NameRow
  <2> HIDE DEF NameRow
  <2> QED
    BY <1>1, ElementOf
<1>4. IdOf(f, i) \in ValueOrNone
  BY <1>2, StoredIdType DEF IdOf
<1>5. KeyOf(f, i) \in Key \cup {NoKey}
  BY <1>2 DEF KeyOf
<1>6. CASE f.kind \notin NamesKind
  BY <1>2, <1>4, <1>5, <1>6 DEF KeyOf, MeantKey
<1>7. CASE f.kind \in NamesKind /\ at = {}
  BY <1>2, <1>4, <1>5, <1>7 DEF KeyOf, MeantKey
<1>8. CASE f.kind \in NamesKind /\ at # {}
  <2>1. f.kind \in NumberedKind
    BY <1>8 DEF NamesKind, NumberedKind
  <2>2. PICK j \in DOMAIN f.names : f.names[j].id = f.lines[i].id /\ MeantKey(f, i) = f.names[j].key
    <3>1. (CHOOSE j \in at : TRUE) \in at
      BY <1>8
    <3> QED
      BY <1>8, <3>1 DEF MeantKey
  <2>3. StoredId(f.names[j].id) = IdOf(f, i)
    BY <2>1, <2>2 DEF IdOf
  <2>4. MeantKey(f, i) \in Key /\ KeyOf(f, i) = NoKey
    BY <1>3, <1>8, <2>2 DEF KeyOf
  <2> QED
    BY <1>2, <1>4, <1>8, <2>3, <2>4
<1> QED
  BY <1>6, <1>7, <1>8

LEMMA NameFacts ==
  ASSUME NEW f \in File, NEW i \in Nat \ {0}, i <= Len(f.names)
  PROVE  f.names[i].id \in Int /\ f.names[i].key \in Key
<1> DEFINE NameRow == [id : Int, key : Key]
<1>1. f.names \in Seq(NameRow)
  BY FileAssumption
<1>2. f.names[i] \in NameRow
  <2> HIDE DEF NameRow
  <2>1. i \in 1..Len(f.names)
    BY <1>1, ElementOf
  <2> QED
    BY <1>1, <2>1, ElementOf
<1> QED
  BY <1>2

(* The steps of the interface, by what they do to the database. *)
LEMMA StepKinds ==
  ASSUME LoadShape, nprefixes \in Nat, GeoAPINext
  PROVE  \/ \E n \in Net, id \in ValueOrNone, key, meant \in Key \cup {NoKey} :
              StoresRow(n, id, key, meant)
         \/ \E id \in ValueOrNone, key \in Key \cup {NoKey} : NamesRow(id, key)
         \/ (StoreEnd \/ StoreRuns) /\ UNCHANGED apiVars
         \/ load = NoLoad /\ LookupFull /\ UNCHANGED apiVars
         \/ (CollapseLeaves \/ UNCHANGED vars) /\ UNCHANGED <<dbVars, given, means>>
<1>1. CASE Push
  <2>1. PICK n \in PushNet, key \in PushKey : PushV4(n, key)
    BY <1>1 DEF Push
  <2>2. n \in Net /\ key \in Key /\ PushId \in ValueOrNone
    BY PushAssumption, StoredIdType DEF PushId
  <2>3. StoresRow(n, PushId, key, key)
    BY <2>1 DEF PushV4, StoresRow
  <2> QED
    BY <2>2, <2>3
<1>2. CASE LoadLine
  <2> DEFINE f == load.file
             i == load.next
             id == IdOf(f, i)
  <2>1. /\ load.part = "lines" /\ f \in File /\ i \in Nat \ {0} /\ i <= Len(f.lines)
        /\ load # NoLoad
    BY <1>2 DEF LoadLine, LoadShape, NoLoad
  <2>2. /\ f.lines[i].net \in Net \cup {NoNet, BadMask} /\ id \in ValueOrNone
        /\ KeyOf(f, i) \in Key \cup {NoKey} /\ MeantKey(f, i) \in Key \cup {NoKey}
        /\ \/ KeyOf(f, i) = MeantKey(f, i)
           \/ /\ KeyOf(f, i) = NoKey /\ f.kind \in NamesKind
              /\ \E j \in DOMAIN f.names : StoredId(f.names[j].id) = id
    BY <2>1, LineFacts
  <2>3. CASE f.lines[i].net = NoNet
    <3>1. NamesRow(id, KeyOf(f, i))
      BY <1>2, <2>3 DEF LoadLine, NamesRow
    <3> QED
      BY <2>2, <3>1
  <2>4. CASE f.lines[i].net # NoNet
    <3>1. /\ f.lines[i].net \in Net
          /\ Store(f.lines[i].net, id, KeyOf(f, i)) /\ Give(f.lines[i].net, id, MeantKey(f, i))
          /\ load' = [load EXCEPT !.next = @ + 1]
      BY <1>2, <2>2, <2>4 DEF LoadLine
    <3>2. load'.part = "lines" /\ load'.file = f /\ load' # NoLoad
      BY <2>1, <3>1 DEF LoadShape, NoLoad
    <3>3. StoresRow(f.lines[i].net, id, KeyOf(f, i), MeantKey(f, i))
      BY <2>2, <3>1, <3>2 DEF StoresRow, NamesAhead
    <3> QED
      BY <2>2, <3>1, <3>3
  <2> QED
    BY <2>3, <2>4
<1>3. CASE LoadName
  <2> DEFINE f == load.file
             entry == f.names[load.next]
  <2>1. f \in File /\ load.next \in Nat \ {0} /\ load.next <= Len(f.names)
    BY <1>3 DEF LoadName, LoadShape, NoLoad
  <2>2. entry.id \in Int /\ entry.key \in Key
    BY <2>1, NameFacts
  <2>3. NamesRow(StoredId(entry.id), entry.key)
    BY <1>3, <2>2, NoKeyAssumption DEF LoadName, NamesRow, apiVars
  <2> QED
    BY <2>2, <2>3, StoredIdType
<1>4. CASE (\E f \in File : LoadBegin(f)) \/ LoadCut \/ LoadThrows \/ LoadNamesBegin \/ LoadEnd
  BY <1>4 DEF LoadBegin, LoadCut, LoadThrows, LoadNamesBegin, LoadEnd, vars, dbVars
<1>5. CASE StoreStep \/ Lookup
  BY <1>5 DEF StoreStep, Lookup
<1> QED
  BY <1>1, <1>2, <1>3, <1>4, <1>5 DEF GeoAPINext, Load

(* The trie takes a step of its own in each. *)
LEMMA StepOfTrie ==
  ASSUME LoadShape, nprefixes \in Nat, [GeoAPINext]_allVars
  PROVE  [Next]_vars
<1>1. CASE UNCHANGED allVars
  BY <1>1 DEF allVars
<1>2. ASSUME NEW n \in Net, NEW id \in ValueOrNone, NEW key, NEW meant, StoresRow(n, id, key, meant)
      PROVE  [Next]_vars
  <2>1. InsertCall(n, id) \/ UNCHANGED vars
    BY <1>2 DEF StoresRow, Store, StoreBegin, StoreZero
  <2> QED
    BY <2>1 DEF Next
<1>3. ASSUME NEW id, NEW key, NamesRow(id, key) PROVE [Next]_vars
  BY <1>3 DEF NamesRow, StoreName
<1>4. CASE StoreEnd \/ StoreRuns
  BY <1>4 DEF StoreEnd, StoreRuns, Next, InsertStep
<1>5. CASE LookupFull
  BY <1>5 DEF LookupFull, LookupBegin, LookupRuns, LookupEnd, LookupUnparsed, Next, LookupStep
<1>6. CASE CollapseLeaves \/ UNCHANGED vars
  BY <1>6 DEF Next
<1>7. CASE GeoAPINext
  BY <1>2, <1>3, <1>4, <1>5, <1>6, <1>7, StepKinds
<1> QED
  BY <1>1, <1>7

LEMMA LoadShapeStep ==
  ASSUME LoadShape, [GeoAPINext]_allVars
  PROVE  LoadShape'
<1>1. CASE load' = load /\ loaded' = loaded
  BY <1>1 DEF LoadShape
<1>2. ASSUME NEW f \in File, LoadBegin(f) PROVE LoadShape'
  BY <1>2 DEF LoadShape, LoadBegin, ApiQuiet
<1>3. CASE LoadLine
  BY <1>3 DEF LoadShape, LoadLine, NoLoad
<1>4. CASE LoadCut
  <2>1. load.file \in File /\ load.next \in Nat \ {0} /\ load.part = "lines" /\ load.file \in loaded
        /\ load = [part |-> load.part, file |-> load.file, next |-> load.next]
    BY <1>4 DEF LoadShape, LoadCut, NoLoad
  <2>2. Len(load.file.lines) \in Nat
    <3>1. load.file.lines \in Seq([net : Net \cup {NoNet, BadMask}, id : Int, key : Key \cup {NoKey}])
      BY <2>1, FileAssumption
    <3> QED
      BY <3>1, ElementOf
  <2> QED
    BY <1>4, <2>1, <2>2 DEF LoadShape, LoadCut, NoLoad
<1>5. CASE LoadThrows \/ LoadEnd
  BY <1>5 DEF LoadShape, LoadThrows, LoadEnd
<1>6. CASE LoadNamesBegin
  <2>1. load.file \in File /\ load.file \in loaded
        /\ load = [part |-> load.part, file |-> load.file, next |-> load.next]
    BY <1>6 DEF LoadShape, LoadNamesBegin, LinesDone, NoLoad
  <2>2. loaded' = loaded
        /\ (load' = [load EXCEPT !.part = "names", !.next = 1] \/ load' = NoLoad)
    BY <1>6 DEF LoadNamesBegin
  <2>3. CASE load' = [load EXCEPT !.part = "names", !.next = 1]
    <3>1. load' = [part |-> "names", file |-> load.file, next |-> 1]
      BY <2>1, <2>3
    <3> QED
      BY <2>1, <2>2, <3>1 DEF LoadShape
  <2> QED
    BY <2>2, <2>3 DEF LoadShape
<1>7. CASE LoadName
  BY <1>7 DEF LoadShape, LoadName, NoLoad
<1>8. CASE Push \/ StoreStep \/ Lookup \/ UNCHANGED allVars
  BY <1>1, <1>8 DEF Push, PushV4, StoreStep, Lookup, allVars, apiVars
<1> QED
  BY <1>2, <1>3, <1>4, <1>5, <1>6, <1>7, <1>8 DEF GeoAPINext, Load

LEMMA NameType ==
  ASSUME GeoTypeOK, NEW id \in ValueOrNone, NEW key \in Key \cup {NoKey},
         mpGeonames' = WithName(id, key)
  PROVE  DOMAIN mpGeonames' \subseteq ValueOrNone /\ \A i \in DOMAIN mpGeonames' : mpGeonames'[i] \in Key
BY DEF GeoTypeOK, WithName

LEMMA AnswerType ==
  ASSUME GeoTypeOK, NEW v
  PROVE  FullAnswer(v) \in Key \cup {NoKey}
BY DEF GeoTypeOK, FullAnswer, NameOf

LEMMA MeanFacts ==
  ASSUME GeoTypeOK, NEW id \in ValueOrNone, NEW key \in Key \cup {NoKey}, Mean(id, key)
  PROVE  /\ DOMAIN means' \subseteq Value /\ \A i \in DOMAIN means' : means'[i] \subseteq Key \cup {NoKey}
         /\ \A i \in DOMAIN means : i \in DOMAIN means' /\ means[i] \subseteq means'[i]
         /\ id # NoValue => id \in DOMAIN means' /\ key \in means'[id]
         /\ \A i \in DOMAIN means' : \A k \in means'[i] :
              \/ i \in DOMAIN means /\ k \in means[i]
              \/ id # NoValue /\ i = id /\ k = key
BY DEF GeoTypeOK, Mean, ValueOrNone

LEMMA GiveFacts ==
  ASSUME GeoTypeOK, NEW n, NEW id \in ValueOrNone, NEW key \in Key \cup {NoKey}, Give(n, id, key)
  PROVE  /\ id = NoValue => DOMAIN given' = DOMAIN given \ {PrefixGiven(n)}
         /\ id # NoValue => DOMAIN given' = DOMAIN given \cup {PrefixGiven(n)}
                            /\ given'[PrefixGiven(n)] = key
         /\ \A p \in DOMAIN given' : p # PrefixGiven(n) => given'[p] = given[p]
         /\ \A p \in DOMAIN given' : given'[p] \in Key \cup {NoKey}
         /\ Mean(id, key)
BY DEF GeoTypeOK, Give

(* Files are only added to those loaded, and a failure is not forgotten. *)
LEMMA LoadedStep ==
  ASSUME LoadShape, loaded \subseteq File, failed \in BOOLEAN, [GeoAPINext]_allVars
  PROVE  /\ loaded' \subseteq File /\ failed' \in BOOLEAN
         /\ loaded \subseteq loaded' /\ (failed => failed')
         /\ loaded' = {} => Push \/ StoreStep \/ Lookup \/ UNCHANGED allVars
<1>1. ASSUME NEW f \in File, LoadBegin(f)
      PROVE  loaded' = loaded \cup {f} /\ (failed' = failed \/ failed' = TRUE)
  BY <1>1 DEF LoadBegin
<1>2. CASE LoadLine \/ LoadCut \/ LoadThrows \/ LoadNamesBegin \/ LoadName \/ LoadEnd
  <2>1. loaded' = loaded /\ (failed' = failed \/ failed' = TRUE)
    BY <1>2 DEF LoadLine, LoadCut, LoadThrows, LoadNamesBegin, LoadName, LoadEnd
  <2>2. load.part # "none"
    BY <1>2 DEF LoadLine, LoadCut, LoadThrows, LoadNamesBegin, LinesDone, LoadName, LoadEnd, NamesDone
  <2>3. loaded # {}
    BY <2>2 DEF LoadShape, NoLoad
  <2> QED
    BY <2>1, <2>3
<1>3. CASE Push \/ StoreStep \/ Lookup \/ UNCHANGED allVars
  <2>1. loaded' = loaded /\ failed' = failed
    BY <1>3 DEF Push, PushV4, StoreStep, Lookup, allVars, apiVars
  <2> QED
    BY <1>3, <2>1
<1> QED
  BY <1>1, <1>2, <1>3 DEF GeoAPINext, Load

DBTypes ==
  /\ DOMAIN mpGeonames \subseteq ValueOrNone /\ \A id \in DOMAIN mpGeonames : mpGeonames[id] \in Key
  /\ nprefixes \in Nat /\ zero_dot_zero \in ValueOrNone
  /\ row \in [id : ValueOrNone, key : Key \cup {NoKey}]
  /\ answer \in Key \cup {NoKey}

HistoryTypes ==
  /\ \A p \in DOMAIN given : given[p] \in Key \cup {NoKey}
  /\ DOMAIN means \subseteq Value /\ \A id \in DOMAIN means : means[id] \subseteq Key \cup {NoKey}

LEMMA DBTypesStep ==
  ASSUME GeoTypeOK, LoadShape, [GeoAPINext]_allVars
  PROVE  DBTypes'
<1>1. DBTypes /\ row.id \in ValueOrNone /\ row.key \in Key \cup {NoKey}
  BY DEF GeoTypeOK, DBTypes
<1>2. ASSUME NEW id \in ValueOrNone, NEW key \in Key \cup {NoKey}, mpGeonames' = WithName(id, key),
             answer' = answer, zero_dot_zero' \in {zero_dot_zero, id},
             nprefixes' \in {nprefixes, nprefixes + 1}, row' \in {row, NoRow}
      PROVE  DBTypes'
  <2>1. DOMAIN mpGeonames' \subseteq ValueOrNone /\ \A i \in DOMAIN mpGeonames' : mpGeonames'[i] \in Key
    BY <1>2, NameType
  <2>2. NoRow \in [id : ValueOrNone, key : Key \cup {NoKey}]
    BY DEF NoRow, ValueOrNone
  <2> QED
    BY <1>1, <1>2, <2>1, <2>2 DEF DBTypes
<1>3. CASE UNCHANGED dbVars
  BY <1>1, <1>3 DEF DBTypes, dbVars
<1>4. ASSUME NEW n \in Net, NEW id \in ValueOrNone, NEW key \in Key \cup {NoKey}, Store(n, id, key)
      PROVE  DBTypes'
  <2>1. CASE StoreBegin(n, id, key)
    BY <1>1, <1>4, <2>1 DEF StoreBegin, DBTypes
  <2>2. CASE StoreZero(n, id, key)
    BY <1>2, <1>4, <2>2 DEF StoreZero
  <2> QED
    BY <1>4, <2>1, <2>2 DEF Store
<1>5. ASSUME NEW id \in ValueOrNone, NEW key \in Key \cup {NoKey}, NamesRow(id, key)
      PROVE  DBTypes'
  BY <1>2, <1>5 DEF NamesRow, StoreName
<1>6. CASE StoreEnd \/ StoreRuns
  BY <1>1, <1>2, <1>3, <1>6 DEF StoreEnd, StoreRuns
<1>7. CASE LookupFull
  <2>1. answer' = answer \/ \E v : answer' = FullAnswer(v)
    BY <1>7 DEF LookupFull, LookupBegin, LookupRuns, LookupEnd, LookupUnparsed, dbVars
  <2>2. answer' \in Key \cup {NoKey}
    BY <1>1, <2>1, AnswerType DEF DBTypes
  <2>3. /\ mpGeonames' = mpGeonames /\ nprefixes' = nprefixes
        /\ zero_dot_zero' = zero_dot_zero /\ row' = row
    BY <1>7 DEF LookupFull, LookupBegin, LookupRuns, LookupEnd, LookupUnparsed, dbVars
  <2> QED
    BY <1>1, <2>2, <2>3 DEF DBTypes
<1>8. CASE UNCHANGED allVars
  BY <1>3, <1>8 DEF allVars
<1>9. CASE GeoAPINext
  <2>1. ASSUME NEW n \in Net, NEW id \in ValueOrNone, NEW key \in Key \cup {NoKey}, NEW meant,
               StoresRow(n, id, key, meant)
        PROVE  DBTypes'
    BY <1>4, <2>1 DEF StoresRow
  <2> QED
    BY <1>1, <1>3, <1>5, <1>6, <1>7, <1>9, <2>1, StepKinds DEF DBTypes
<1> QED
  BY <1>8, <1>9

LEMMA HistoryTypesStep ==
  ASSUME GeoTypeOK, LoadShape, [GeoAPINext]_allVars
  PROVE  HistoryTypes'
<1>1. HistoryTypes /\ nprefixes \in Nat
  BY DEF GeoTypeOK, HistoryTypes
<1>2. CASE UNCHANGED <<given, means>>
  BY <1>1, <1>2 DEF HistoryTypes
<1>3. ASSUME NEW n \in Net, NEW id \in ValueOrNone, NEW meant \in Key \cup {NoKey},
             Give(n, id, meant)
      PROVE  HistoryTypes'
  BY <1>3, GiveFacts, MeanFacts DEF HistoryTypes
<1>4. ASSUME NEW id \in ValueOrNone, NEW key \in Key \cup {NoKey}, NamesRow(id, key)
      PROVE  HistoryTypes'
  <2>1. CASE means' = means
    BY <1>2, <1>4, <2>1 DEF NamesRow
  <2>2. CASE Mean(id, key)
    <3>1. DOMAIN means' \subseteq Value /\ \A i \in DOMAIN means' : means'[i] \subseteq Key \cup {NoKey}
      BY <2>2, MeanFacts
    <3> QED
      BY <1>1, <1>4, <3>1 DEF NamesRow, HistoryTypes
  <2> QED
    BY <1>4, <2>1, <2>2 DEF NamesRow
<1>5. CASE UNCHANGED allVars
  BY <1>2, <1>5 DEF allVars, apiVars
<1>6. CASE GeoAPINext
  <2>1. ASSUME NEW n \in Net, NEW id \in ValueOrNone, NEW key, NEW meant \in Key \cup {NoKey},
               StoresRow(n, id, key, meant)
        PROVE  HistoryTypes'
    BY <1>3, <2>1 DEF StoresRow
  <2>2. CASE UNCHANGED apiVars
    BY <1>2, <2>2 DEF apiVars
  <2> QED
    BY <1>1, <1>2, <1>4, <1>6, <2>1, <2>2, StepKinds
<1> QED
  BY <1>5, <1>6

LEMMA GeoTypeStep ==
  ASSUME GeoTypeOK, LoadShape, TypeOK', LoadShape', [GeoAPINext]_allVars
  PROVE  GeoTypeOK'
<1>1. DBTypes' /\ HistoryTypes'
  BY DBTypesStep, HistoryTypesStep
<1>2. load'.part \in {"none", "lines", "names"}
  BY DEF LoadShape, NoLoad
<1>3. loaded' \subseteq File /\ failed' \in BOOLEAN
  BY LoadedStep DEF GeoTypeOK
<1> QED
  BY <1>1, <1>2, <1>3 DEF GeoTypeOK, DBTypes, HistoryTypes

(* What every state satisfies. *)
GeoInv == GeoTypeOK /\ LoadShape /\ LookupInv

LEMMA GeoInvInit == GeoAPIInit => GeoInv
<1> SUFFICES ASSUME GeoAPIInit PROVE GeoInv
  OBVIOUS
<1>1. LookupInv
  BY LookupInit DEF GeoAPIInit, GeoDBInit
<1>2. TypeOK
  BY <1>1 DEF LookupInv, TreeInv, TypeInv
<1>3. NoRow \in [id : ValueOrNone, key : Key \cup {NoKey}]
  BY DEF NoRow, ValueOrNone
<1> QED
  BY <1>1, <1>2, <1>3 DEF GeoAPIInit, GeoDBInit, GeoInv, GeoTypeOK, LoadShape, NoLoad, ValueOrNone

LEMMA GeoInvStep == GeoInv /\ [GeoAPINext]_allVars => GeoInv'
<1> SUFFICES ASSUME GeoInv, [GeoAPINext]_allVars PROVE GeoInv'
  OBVIOUS
<1>1. LookupInv'
  <2>1. [Next]_vars
    BY StepOfTrie DEF GeoInv, GeoTypeOK
  <2> QED
    BY <2>1, LookupStepInv DEF GeoInv
<1>2. TypeOK'
  BY <1>1 DEF LookupInv, TreeInv, TypeInv
<1>3. LoadShape'
  BY LoadShapeStep DEF GeoInv
<1> QED
  BY <1>1, <1>2, <1>3, GeoTypeStep DEF GeoInv

(* The variables of a handle keep their types, through loads that fail at    *)
(* any line and inserts that abort. *)
THEOREM HandleTypes == GeoAPISpec => []GeoTypeOK
<1>1. GeoInv => GeoTypeOK
  BY DEF GeoInv
<1> QED
  BY <1>1, GeoInvInit, GeoInvStep, PTL DEF GeoAPISpec

-----------------------------------------------------------------------------
LEMMA NameAdded ==
  ASSUME NEW id, NEW key, mpGeonames' = WithName(id, key)
  PROVE  /\ DOMAIN mpGeonames \subseteq DOMAIN mpGeonames'
         /\ key # NoKey => id \in DOMAIN mpGeonames'
         /\ \A i \in DOMAIN mpGeonames' :
              \/ i \in DOMAIN mpGeonames /\ mpGeonames'[i] = mpGeonames[i]
              \/ i = id /\ mpGeonames'[i] = key /\ key # NoKey
BY DEF WithName

(* map::insert adds a name or does nothing. *)
LEMMA NamesKept ==
  ASSUME NEW id, NEW key, NEW k \in DOMAIN mpGeonames
  PROVE  k \in DOMAIN WithName(id, key) /\ WithName(id, key)[k] = mpGeonames[k]
BY DEF WithName

LEMMA NamesKeptStep ==
  ASSUME [GeoAPINext]_allVars
  PROVE  \A id \in DOMAIN mpGeonames :
           id \in DOMAIN mpGeonames' /\ mpGeonames'[id] = mpGeonames[id]
<1> DEFINE Step == \A id \in DOMAIN mpGeonames :
                     id \in DOMAIN mpGeonames' /\ mpGeonames'[id] = mpGeonames[id]
<1>1. ASSUME NEW id, NEW key, mpGeonames' = WithName(id, key) PROVE Step
  BY <1>1, NamesKept
<1>2. ASSUME mpGeonames' = mpGeonames PROVE Step
  BY <1>2
<1>3. ASSUME NEW n, NEW id, NEW key, Store(n, id, key) PROVE Step
  BY <1>1, <1>2, <1>3 DEF Store, StoreBegin, StoreZero
<1>4. ASSUME NEW id, NEW key, StoreName(id, key) PROVE Step
  BY <1>1, <1>4 DEF StoreName
<1>5. CASE Push
  BY <1>3, <1>5 DEF Push, PushV4
<1>6. CASE Load
  <2>1. CASE LoadLine
    BY <1>3, <1>4, <2>1 DEF LoadLine
  <2>2. CASE LoadName
    BY <1>4, <2>2 DEF LoadName
  <2>3. ASSUME ~LoadLine, ~LoadName PROVE mpGeonames' = mpGeonames
    BY <1>6, <2>3 DEF Load, LoadBegin, LoadCut, LoadThrows, LoadNamesBegin, LoadEnd, dbVars
  <2> QED
    BY <1>2, <2>1, <2>2, <2>3
<1>7. CASE StoreStep
  BY <1>1, <1>2, <1>7 DEF StoreStep, StoreEnd, StoreRuns, dbVars
<1>8. CASE Lookup
  BY <1>2, <1>8 DEF Lookup, LookupFull, LookupBegin, LookupRuns, LookupEnd, LookupUnparsed, dbVars
<1>9. CASE UNCHANGED allVars
  BY <1>2, <1>9 DEF allVars, dbVars
<1> QED
  BY <1>5, <1>6, <1>7, <1>8, <1>9 DEF GeoAPINext

(* Whatever is loaded and pushed after a lookup, in whatever order, the      *)
(* string that it returned by pointer stays as it is (GeoDB.cpp:71-73,       *)
(* 116-119). *)
THEOREM NamesStay == GeoAPISpec => KeysStay
<1>1. [GeoAPINext]_allVars
        => [\A id \in DOMAIN mpGeonames :
              id \in DOMAIN mpGeonames' /\ mpGeonames'[id] = mpGeonames[id]]_allVars
  BY NamesKeptStep
<1> QED
  BY <1>1, PTL DEF GeoAPISpec, KeysStay

MeantIn(ms, id, key) == id \in DOMAIN ms /\ key \in ms[id]

LEMMA MeansGrow ==
  ASSUME GeoTypeOK, LoadShape, [GeoAPINext]_allVars
  PROVE  \A id : \A key : MeantIn(means, id, key) => MeantIn(means', id, key)
<1>1. CASE means' = means
  BY <1>1 DEF MeantIn
<1>2. ASSUME NEW id \in ValueOrNone, NEW key \in Key \cup {NoKey}, Mean(id, key)
      PROVE  \A i : \A k : MeantIn(means, i, k) => MeantIn(means', i, k)
  BY <1>2, MeanFacts DEF MeantIn
<1>3. CASE UNCHANGED allVars
  BY <1>1, <1>3 DEF allVars, apiVars
<1>4. CASE GeoAPINext
  <2>1. ASSUME NEW n \in Net, NEW id \in ValueOrNone, NEW key, NEW meant \in Key \cup {NoKey},
               StoresRow(n, id, key, meant)
        PROVE  Mean(id, meant)
    BY <2>1 DEF StoresRow, Give
  <2>2. ASSUME NEW id, NEW key, NamesRow(id, key)
        PROVE  means' = means \/ Mean(id, key)
    BY <2>2 DEF NamesRow
  <2>3. CASE UNCHANGED apiVars
    BY <1>1, <2>3 DEF apiVars
  <2>4. nprefixes \in Nat
    BY DEF GeoTypeOK
  <2> QED
    BY <1>1, <1>2, <1>4, <2>1, <2>2, <2>3, <2>4, StepKinds
<1> QED
  BY <1>3, <1>4

(* A lookup does not become an insert. *)
LEMMA LookupMoves ==
  ASSUME TypeOK, LookupFull
  PROVE  /\ call'.op = "lookup" \/ call' = Idle
         /\ call.op = "lookup" \/ call = Idle
         /\ node_value' = node_value /\ data_leaf' = data_leaf
<1>1. CASE LookupRuns
  <2>1. call \in Call /\ call.op = "lookup" /\ node_value' = node_value /\ data_leaf' = data_leaf
        /\ call' = [call EXCEPT !.this = ChosenSlot, !.currentpos = @ + WindowSize]
    BY <1>1 DEF LookupRuns, LookupBelow, TypeOK, Idle
  <2> QED
    BY <2>1 DEF Call
<1>2. CASE LookupEnd
  BY <1>2 DEF LookupEnd, LookupHere, LookupData, Return
<1>3. CASE (\E a \in Addr : LookupBegin(a)) \/ LookupUnparsed
  BY <1>3 DEF LookupBegin, LookupIpnum, LookupDotted, LookupCall, LookupUnparsed, vars
<1> QED
  BY <1>1, <1>2, <1>3 DEF LookupFull

LEMMA NamesAreMeantStep ==
  ASSUME GeoInv, NamesAreMeant, [GeoAPINext]_allVars
  PROVE  NamesAreMeant'
<1>1. /\ \A id \in DOMAIN mpGeonames : id # NoValue => MeantIn(means, id, mpGeonames[id])
      /\ call.op = "insert" /\ row.id # NoValue /\ row.key # NoKey => MeantIn(means, row.id, row.key)
  BY DEF NamesAreMeant, MeantIn
<1>2. GeoTypeOK /\ LoadShape /\ nprefixes \in Nat /\ TypeOK
  BY DEF GeoInv, GeoTypeOK
<1>3. \A id : \A key : MeantIn(means, id, key) => MeantIn(means', id, key)
  BY <1>2, MeansGrow
<1>4. ASSUME \A id \in DOMAIN mpGeonames' : id # NoValue => MeantIn(means', id, mpGeonames'[id]),
             call'.op = "insert" /\ row'.id # NoValue /\ row'.key # NoKey
               => MeantIn(means', row'.id, row'.key)
      PROVE  NamesAreMeant'
  BY <1>4 DEF NamesAreMeant, MeantIn
<1>5. ASSUME NEW id, NEW key, mpGeonames' = WithName(id, key),
             id # NoValue /\ key # NoKey => MeantIn(means', id, key)
      PROVE  \A i \in DOMAIN mpGeonames' : i # NoValue => MeantIn(means', i, mpGeonames'[i])
  <2> SUFFICES ASSUME NEW i \in DOMAIN mpGeonames', i # NoValue PROVE MeantIn(means', i, mpGeonames'[i])
    OBVIOUS
  <2>1. \/ i \in DOMAIN mpGeonames /\ mpGeonames'[i] = mpGeonames[i]
        \/ i = id /\ mpGeonames'[i] = key /\ key # NoKey
    BY <1>5, NameAdded
  <2> QED
    BY <1>1, <1>3, <1>5, <2>1
<1>6. ASSUME mpGeonames' = mpGeonames
      PROVE  \A i \in DOMAIN mpGeonames' : i # NoValue => MeantIn(means', i, mpGeonames'[i])
  BY <1>1, <1>3, <1>6
<1>7. ASSUME NEW n \in Net, NEW id \in ValueOrNone, NEW key \in Key \cup {NoKey},
             NEW meant \in Key \cup {NoKey}, StoresRow(n, id, key, meant)
      PROVE  NamesAreMeant'
  <2>1. id # NoValue /\ key # NoKey => MeantIn(means', id, key)
    <3>1. Mean(id, meant)
      BY <1>7 DEF StoresRow, Give
    <3>2. id # NoValue => MeantIn(means', id, meant)
      BY <1>2, <3>1, MeanFacts DEF MeantIn
    <3> QED
      BY <1>7, <3>2 DEF StoresRow
  <2>2. CASE StoreBegin(n, id, key)
    BY <1>4, <1>6, <2>1, <2>2 DEF StoreBegin
  <2>3. CASE StoreZero(n, id, key)
    <3>1. call'.op # "insert"
      BY <2>3 DEF StoreZero, vars, Idle
    <3> QED
      BY <1>4, <1>5, <2>1, <2>3, <3>1 DEF StoreZero
  <2> QED
    BY <1>7, <2>2, <2>3 DEF StoresRow, Store
<1>8. ASSUME NEW id \in ValueOrNone, NEW key \in Key \cup {NoKey}, NamesRow(id, key)
      PROVE  NamesAreMeant'
  <2>1. id # NoValue /\ key # NoKey => MeantIn(means', id, key)
    BY <1>2, <1>8, MeanFacts DEF NamesRow, MeantIn
  <2>2. call'.op # "insert"
    BY <1>8 DEF NamesRow, StoreName, vars, Idle
  <2> QED
    BY <1>4, <1>5, <1>8, <2>1, <2>2 DEF NamesRow, StoreName
<1>9. CASE StoreEnd
  <2>1. call.op = "insert" /\ call'.op # "insert" /\ mpGeonames' = WithName(row.id, row.key)
    BY <1>9 DEF StoreEnd, InsertHere, Idle
  <2>2. row.id # NoValue /\ row.key # NoKey => MeantIn(means', row.id, row.key)
    BY <1>1, <1>3, <2>1
  <2> QED
    BY <1>4, <1>5, <2>1, <2>2
<1>10. CASE StoreRuns
  <2>1. call.op = "insert" /\ row' = row /\ mpGeonames' = mpGeonames
    BY <1>10 DEF StoreRuns, InsertAbort, InsertBelow, InsertIntoData, dbVars
  <2>2. row'.id # NoValue /\ row'.key # NoKey => MeantIn(means', row'.id, row'.key)
    BY <1>1, <1>3, <2>1
  <2> QED
    BY <1>4, <1>6, <2>1, <2>2
<1>11. CASE LookupFull
  <2>1. mpGeonames' = mpGeonames /\ (call'.op = "lookup" \/ call' = Idle \/ UNCHANGED <<call, row>>)
    BY <1>2, <1>11, LookupMoves DEF LookupFull, LookupBegin, LookupRuns, LookupEnd, LookupUnparsed, dbVars
  <2> QED
    BY <1>1, <1>3, <1>4, <1>6, <2>1 DEF Idle
<1>12. CASE UNCHANGED <<call, mpGeonames, row>>
  BY <1>1, <1>3, <1>4, <1>6, <1>12
<1>13. CASE UNCHANGED allVars
  BY <1>12, <1>13 DEF allVars, vars, dbVars
<1>14. CASE GeoAPINext
  <2>1. ASSUME CollapseLeaves \/ UNCHANGED vars, UNCHANGED dbVars
        PROVE  UNCHANGED <<call, mpGeonames, row>>
    BY <2>1 DEF CollapseLeaves, vars, dbVars
  <2> QED
    BY <1>2, <1>7, <1>8, <1>9, <1>10, <1>11, <1>12, <1>14, <2>1, StepKinds
<1> QED
  BY <1>13, <1>14

(* What an insert that is under way will name is named when it returns. *)
LEMMA RowStays ==
  ASSUME GeoInv, [GeoAPINext]_allVars, call.op = "insert", row.key # NoKey, NoCrash'
  PROVE  \/ row.id \in DOMAIN mpGeonames'
         \/ call'.op = "insert" /\ row' = row
<1>1. call # Idle /\ call.op # "lookup" /\ call \in Call /\ TypeOK /\ LoadShape /\ nprefixes \in Nat
  BY DEF Idle, GeoInv, GeoTypeOK, TypeOK
<1>2. CASE StoreEnd
  BY <1>2, NameAdded DEF StoreEnd
<1>3. CASE StoreRuns
  <2>1. row' = row /\ (InsertAbort \/ InsertBelow \/ InsertIntoData)
    BY <1>3 DEF StoreRuns, dbVars
  <2>2. CASE InsertBelow
    BY <1>1, <2>1, <2>2 DEF InsertBelow, Call
  <2>3. CASE InsertAbort \/ InsertIntoData
    BY <1>1, <2>3 DEF InsertAbort, InsertIntoData, Call, NoCrash
  <2> QED
    BY <2>1, <2>2, <2>3
<1>4. CASE UNCHANGED <<vars, dbVars>>
  BY <1>4 DEF vars, dbVars
<1>5. ASSUME NEW n \in Net, NEW id, NEW key, NEW meant, StoresRow(n, id, key, meant) PROVE FALSE
  BY <1>1, <1>5 DEF StoresRow, Store, StoreBegin, StoreZero, InsertCall
<1>6. ASSUME NEW id, NEW key, NamesRow(id, key) PROVE FALSE
  BY <1>1, <1>6 DEF NamesRow, StoreName
<1>7. CASE LookupFull
  BY <1>1, <1>7, LookupMoves
<1>8. CASE CollapseLeaves
  BY <1>1, <1>8 DEF CollapseLeaves
<1>9. CASE UNCHANGED allVars
  BY <1>4, <1>9 DEF allVars
<1>10. CASE GeoAPINext
  BY <1>1, <1>2, <1>3, <1>4, <1>5, <1>6, <1>7, <1>8, <1>10, StepKinds
<1> QED
  BY <1>9, <1>10

LEMMA NamesLength ==
  ASSUME NEW f \in File
  PROVE  DOMAIN f.names = 1..Len(f.names) /\ Len(f.names) \in Nat
BY FileAssumption, ElementOf

(* A names file that is ahead is read, unless the load fails. *)
LEMMA NamesCome ==
  ASSUME LoadShape, [GeoAPINext]_allVars, NEW id, NamesAhead(load, id)
  PROVE  \/ NamesAhead(load', id) \/ failed' \/ id \in DOMAIN mpGeonames'
<1> DEFINE f == load.file
<1>1. /\ load # NoLoad /\ f \in File /\ f.kind \in NamesKind
      /\ load.part \in {"lines", "names"} /\ load.next \in Nat \ {0}
      /\ load = [part |-> load.part, file |-> f, next |-> load.next]
  BY DEF NamesAhead, LoadShape
<1>2. PICK j \in DOMAIN f.names : /\ load.part = "names" => j >= load.next
                                  /\ StoredId(f.names[j].id) = id
  BY DEF NamesAhead
<1>3. DOMAIN f.names = 1..Len(f.names) /\ Len(f.names) \in Nat
  BY <1>1, NamesLength
<1>4. CASE load' = load
  BY <1>4
<1>5. CASE LoadLine
  <2>1. load.part = "lines" /\ load' = [load EXCEPT !.next = @ + 1]
    BY <1>5 DEF LoadLine
  <2>2. load' # NoLoad /\ load'.part = "lines" /\ load'.file = f
    BY <1>1, <2>1 DEF NoLoad
  <2> QED
    BY <1>1, <1>2, <2>2 DEF NamesAhead
<1>6. CASE LoadThrows
  BY <1>6 DEF LoadThrows
<1>7. CASE LoadNamesBegin
  <2>1. failed' \/ load' = [load EXCEPT !.part = "names", !.next = 1]
    BY <1>7 DEF LoadNamesBegin
  <2>2. CASE load' = [load EXCEPT !.part = "names", !.next = 1]
    <3>1. load' # NoLoad /\ load'.part = "names" /\ load'.file = f /\ load'.next = 1
      BY <1>1, <2>2 DEF NoLoad
    <3>2. j >= 1
      BY <1>3
    <3> QED
      BY <1>1, <1>2, <3>1, <3>2 DEF NamesAhead
  <2> QED
    BY <2>1, <2>2
<1>8. CASE LoadName
  <2> DEFINE entry == f.names[load.next]
  <2>1. /\ load.part = "names" /\ load.next <= Len(f.names)
        /\ mpGeonames' = WithName(StoredId(entry.id), entry.key)
        /\ load' = [load EXCEPT !.next = @ + 1]
    BY <1>8 DEF LoadName, StoreName
  <2>2. entry.key # NoKey
    BY <1>1, <2>1, NameFacts, NoKeyAssumption
  <2>3. CASE j = load.next
    BY <1>2, <2>1, <2>2, <2>3, NameAdded
  <2>4. CASE j # load.next
    <3>1. load' # NoLoad /\ load'.part = "names" /\ load'.file = f /\ load'.next = load.next + 1
      BY <1>1, <2>1 DEF NoLoad
    <3>2. j >= load.next + 1
      BY <1>1, <1>2, <1>3, <2>1, <2>4
    <3> QED
      BY <1>1, <1>2, <3>1, <3>2 DEF NamesAhead
  <2> QED
    BY <2>3, <2>4
<1>9. ~LoadCut
  BY <1>1 DEF LoadCut, NamesKind
<1>10. ~LoadEnd
  BY <1>1, <1>2, <1>3 DEF LoadEnd, NamesDone, LinesDone
<1>11. ASSUME NEW g \in File PROVE ~LoadBegin(g)
  BY <1>1 DEF LoadBegin, ApiQuiet
<1>12. CASE Push \/ StoreStep \/ Lookup \/ UNCHANGED allVars
  BY <1>4, <1>12 DEF Push, PushV4, StoreStep, Lookup, allVars, apiVars
<1> QED
  BY <1>5, <1>6, <1>7, <1>8, <1>9, <1>10, <1>11, <1>12 DEF GeoAPINext, Load

LEMMA MeantIsNamedStep ==
  ASSUME GeoInv, NoCrash', MeantIsNamed, [GeoAPINext]_allVars
  PROVE  MeantIsNamed'
<1> SUFFICES ASSUME NEW id \in DOMAIN means', NEW k \in means'[id], k # NoKey, ~failed'
             PROVE  \/ id \in DOMAIN mpGeonames'
                    \/ call'.op = "insert" /\ row'.id = id /\ row'.key # NoKey
                    \/ NamesAhead(load', id)
  BY DEF MeantIsNamed, NamesAhead
<1>1. GeoTypeOK /\ LoadShape /\ nprefixes \in Nat /\ failed \in BOOLEAN /\ loaded \subseteq File
  BY DEF GeoInv, GeoTypeOK
<1>2. ~failed
  BY <1>1, LoadedStep
<1>3. CASE MeantIn(means, id, k)
  <2>1. \/ id \in DOMAIN mpGeonames
        \/ call.op = "insert" /\ row.id = id /\ row.key # NoKey
        \/ NamesAhead(load, id)
    BY <1>2, <1>3 DEF MeantIsNamed, MeantIn
  <2> QED
    BY <1>1, <2>1, NamesKeptStep, RowStays, NamesCome
<1>4. CASE ~MeantIn(means, id, k)
  <2>1. means' # means
    BY <1>4 DEF MeantIn
  <2>2. ASSUME NEW n \in Net, NEW i \in ValueOrNone, NEW key \in Key \cup {NoKey},
               NEW meant \in Key \cup {NoKey}, StoresRow(n, i, key, meant)
        PROVE  \/ id \in DOMAIN mpGeonames'
               \/ call'.op = "insert" /\ row'.id = id /\ row'.key # NoKey
               \/ NamesAhead(load', id)
    <3>1. Mean(i, meant)
      BY <2>2 DEF StoresRow, Give
    <3>2. id = i /\ k = meant
      BY <1>1, <1>4, <3>1, MeanFacts DEF MeantIn
    <3>3. key = k \/ NamesAhead(load', id)
      BY <2>2, <3>2 DEF StoresRow
    <3>4. CASE StoreBegin(n, i, key)
      BY <3>2, <3>3, <3>4 DEF StoreBegin, InsertCall
    <3>5. CASE StoreZero(n, i, key)
      BY <3>2, <3>3, <3>5, NameAdded DEF StoreZero
    <3> QED
      BY <2>2, <3>4, <3>5 DEF StoresRow, Store
  <2>3. ASSUME NEW i \in ValueOrNone, NEW key \in Key \cup {NoKey}, NamesRow(i, key)
        PROVE  id \in DOMAIN mpGeonames'
    <3>1. Mean(i, key)
      BY <2>1, <2>3 DEF NamesRow
    <3>2. id = i /\ k = key
      BY <1>1, <1>4, <3>1, MeanFacts DEF MeantIn
    <3> QED
      BY <2>3, <3>2, NameAdded DEF NamesRow, StoreName
  <2>4. ~UNCHANGED apiVars /\ ~UNCHANGED allVars
    BY <2>1 DEF apiVars, allVars
  <2> QED
    BY <1>1, <2>1, <2>2, <2>3, <2>4, StepKinds
<1> QED
  BY <1>3, <1>4

-----------------------------------------------------------------------------
LEMMA SmallMod ==
  ASSUME NEW d \in Nat, NEW x \in Nat, x < d
  PROVE  x % d = x
OBVIOUS

LEMMA PushIdIs ==
  ASSUME MaxPrefixes < IdRange, nprefixes \in Nat, nprefixes < MaxPrefixes
  PROVE  PushId = NoValue \/ PushId = nprefixes + 1
<1>1. (nprefixes + 1) % IdRange = nprefixes + 1
  BY BoundAssumption, SmallMod
<1> QED
  BY <1>1 DEF PushId, StoredId

(* An id that a push takes is above those of all pushes before it. *)
LEMMA PushesCountStep ==
  ASSUME MaxPrefixes < IdRange, GeoInv, PushesCount, [GeoAPINext]_allVars
  PROVE  PushesCount'
<1> SUFFICES ASSUME loaded' = {}
             PROVE  \A id \in DOMAIN means' :
                      /\ id \in 0..(nprefixes' + 1)
                      /\ call'.op \notin {"insert", "aborted", "crashed"} => id <= nprefixes'
                      /\ \A k, l \in means'[id] : k = l
  BY DEF PushesCount
<1>1. GeoTypeOK /\ LoadShape /\ nprefixes \in Nat /\ failed \in BOOLEAN /\ loaded \subseteq File /\ TypeOK
  BY DEF GeoInv, GeoTypeOK
<1>2. loaded = {} /\ (Push \/ StoreStep \/ Lookup \/ UNCHANGED allVars)
  BY <1>1, LoadedStep
<1>3. \A id \in DOMAIN means :
        /\ id \in 0..(nprefixes + 1)
        /\ call.op \notin {"insert", "aborted", "crashed"} => id <= nprefixes
        /\ \A k, l \in means[id] : k = l
  BY <1>2 DEF PushesCount
<1>4. CASE Push
  <2>1. PICK n \in PushNet, key \in PushKey : PushV4(n, key)
    BY <1>4 DEF Push
  <2>2. call = Idle /\ nprefixes < MaxPrefixes
        /\ ((call'.op = "insert" /\ nprefixes' = nprefixes) \/ nprefixes' = nprefixes + 1)
    BY <2>1 DEF PushV4, Store, StoreBegin, StoreZero, InsertCall
  <2>3. \A id \in DOMAIN means : id \in 0..nprefixes
    BY <1>3, <2>2 DEF Idle
  <2>4. Mean(PushId, key) /\ PushId \in ValueOrNone /\ key \in Key \cup {NoKey}
    BY <1>1, <2>1, PushAssumption, StoredIdType DEF PushV4, Give, PushId
  <2>5. PushId = NoValue \/ PushId = nprefixes + 1
    BY <1>1, <2>2, PushIdIs
  <2>6. CASE PushId = NoValue
    <3>1. means' = means
      BY <2>4, <2>6 DEF Mean
    <3> QED
      BY <1>1, <1>3, <2>2, <2>3, <3>1
  <2>7. CASE PushId = nprefixes + 1 /\ PushId # NoValue
    <3>1. nprefixes + 1 \notin DOMAIN means
      BY <1>1, <2>3
    <3>2. \A id \in DOMAIN means' : \A k \in means'[id] :
            \/ id \in DOMAIN means /\ k \in means[id]
            \/ id = nprefixes + 1 /\ k = key
      BY <1>1, <2>4, <2>7, MeanFacts
    <3>3. \A id \in DOMAIN means' : \A k, l \in means'[id] : k = l
      BY <1>3, <3>1, <3>2
    <3>4. DOMAIN means' = DOMAIN means \cup {nprefixes + 1}
      BY <2>4, <2>7 DEF Mean
    <3>5. \A id \in DOMAIN means' : id \in 0..(nprefixes + 1)
      BY <1>1, <2>3, <3>4
    <3> QED
      BY <1>1, <2>2, <3>3, <3>5
  <2> QED
    BY <2>5, <2>6, <2>7
<1>5. CASE StoreStep
  <2>1. means' = means
    BY <1>5 DEF StoreStep, apiVars
  <2>2. CASE StoreEnd
    <3>1. nprefixes' = nprefixes + 1
      BY <2>2 DEF StoreEnd
    <3> QED
      BY <1>1, <1>3, <2>1, <3>1
  <2>3. CASE StoreRuns
    <3>1. nprefixes' = nprefixes /\ call \in Call /\ (InsertAbort \/ InsertBelow \/ InsertIntoData)
      BY <1>1, <2>3 DEF StoreRuns, dbVars, InsertAbort, InsertBelow, InsertIntoData, TypeOK, Idle
    <3>2. call'.op \in {"insert", "aborted", "crashed"}
      <4>1. CASE InsertAbort
        BY <3>1, <4>1 DEF InsertAbort, Call
      <4>2. CASE InsertBelow
        BY <3>1, <4>2 DEF InsertBelow, Call
      <4>3. CASE InsertIntoData
        BY <3>1, <4>3 DEF InsertIntoData, Call
      <4> QED
        BY <3>1, <4>1, <4>2, <4>3
    <3> QED
      BY <1>3, <2>1, <3>1, <3>2
  <2> QED
    BY <1>5, <2>2, <2>3 DEF StoreStep
<1>6. CASE Lookup
  <2>1. call.op \in {"lookup", "idle"} /\ means' = means /\ nprefixes' = nprefixes
    BY <1>1, <1>6, LookupMoves DEF Lookup, LookupFull, LookupBegin, LookupRuns, LookupEnd,
                                   LookupUnparsed, dbVars, apiVars, Idle
  <2> QED
    BY <1>3, <2>1
<1>7. CASE UNCHANGED allVars
  <2>1. call' = call /\ means' = means /\ nprefixes' = nprefixes
    BY <1>7 DEF allVars, vars, dbVars, apiVars
  <2> QED
    BY <1>3, <2>1
<1> QED
  BY <1>2, <1>4, <1>5, <1>6, <1>7

(* However pushes and lookups alternate, 0.0.0.0/0 among them, no two pushes *)
(* share an id while the count of what was stored is below the range of an   *)
(* id (GeoAPI.cpp:460, GeoDB.cpp:158,163). *)
THEOREM PushesHaveOwnIds ==
  ASSUME MaxPrefixes < IdRange
  PROVE  GeoAPISpec => []PushesNeverClash
<1>1. GeoAPIInit => PushesCount
  BY DEF GeoAPIInit, PushesCount
<1>2. GeoInv /\ PushesCount => PushesNeverClash
  BY DEF PushesCount, PushesNeverClash, NoClash
<1>3. GeoInv /\ PushesCount /\ [GeoAPINext]_allVars => PushesCount'
  BY PushesCountStep
<1> QED
  BY <1>1, <1>2, <1>3, GeoInvInit, GeoInvStep, PTL DEF GeoAPISpec

-----------------------------------------------------------------------------
(* A process that aborted or crashed does nothing more. *)
LEMMA CrashStays ==
  ASSUME GeoInv, [GeoAPINext]_allVars, NoCrash'
  PROVE  NoCrash
<1> SUFFICES ASSUME ~NoCrash PROVE FALSE
  OBVIOUS
<1>1. /\ call # Idle /\ call.op # "insert" /\ call.op # "lookup"
      /\ TypeOK /\ LoadShape /\ nprefixes \in Nat
  BY DEF NoCrash, Idle, GeoInv, GeoTypeOK
<1>2. call' # call
  BY DEF NoCrash
<1>3. ASSUME NEW n, NEW id, NEW key, NEW meant, StoresRow(n, id, key, meant) PROVE FALSE
  BY <1>1, <1>3 DEF StoresRow, Store, StoreBegin, StoreZero, InsertCall
<1>4. ASSUME NEW id, NEW key, NamesRow(id, key) PROVE FALSE
  BY <1>1, <1>4 DEF NamesRow, StoreName
<1>5. CASE StoreEnd \/ StoreRuns
  BY <1>1, <1>5 DEF StoreEnd, StoreRuns, InsertHere, InsertAbort, InsertBelow, InsertIntoData
<1>6. CASE LookupFull
  BY <1>1, <1>6, LookupMoves DEF Idle
<1>7. CASE CollapseLeaves \/ UNCHANGED vars
  BY <1>1, <1>2, <1>7 DEF CollapseLeaves, vars
<1>8. CASE UNCHANGED allVars
  BY <1>2, <1>8 DEF allVars, vars
<1>9. CASE GeoAPINext
  BY <1>1, <1>3, <1>4, <1>5, <1>6, <1>7, <1>9, StepKinds
<1> QED
  BY <1>8, <1>9

LEMMA PrefixGivenFacts ==
  ASSUME KeepsAllBits, NEW n \in Net
  PROVE  /\ PrefixGiven(n) \in Prefix
         /\ PrefixGiven(n).len = Effective(n).len
         /\ PrefixGiven(n) = Loose!PrefixOf(Effective(n))
         /\ n = [val |-> n.val, len |-> n.len]
<1>1. Effective(n) = n
  BY AllBitsKept
<1>2. PrefixGiven(n) \in Prefix
  BY AllBitsKept DEF PrefixGiven, Prefix, PrefixesOf
<1>3. PrefixGiven(n) = Loose!PrefixOf(Effective(n))
  BY <1>1 DEF PrefixGiven, Loose!PrefixOf
<1>4. PrefixGiven(n).len = Effective(n).len
  BY <1>1 DEF PrefixGiven
<1> QED
  BY <1>2, <1>3, <1>4, EffectiveFacts

(* There is one prefix of length 0. *)
LEMMA ZeroPrefixUnique ==
  ASSUME NEW p \in Prefix, NEW q \in Prefix, p.len = 0, q.len = 0
  PROVE  p = q
<1>1. p = [len |-> 0, bits |-> [i \in 1..0 |-> p.bits[i]]] /\ q = [len |-> 0, bits |-> [i \in 1..0 |-> q.bits[i]]]
  BY PrefixShape
<1>2. [i \in 1..0 |-> p.bits[i]] = [i \in 1..0 |-> q.bits[i]]
  OBVIOUS
<1> QED
  BY <1>1, <1>2

(* A row that is given is held. *)
LEMMA RowIsHeld ==
  ASSUME KeepsAllBits, GeoTypeOK, HeldIsGiven, NEW n \in Net, NEW id \in ValueOrNone,
         NEW key \in Key \cup {NoKey}, Give(n, id, key),
         \A p \in Prefix : HeldId(p)' = IF p = PrefixGiven(n) THEN id ELSE HeldId(p),
         zero_dot_zero' # NoValue => \E p \in Prefix : p.len = 0
  PROVE  HeldIsGiven'
<1> DEFINE g == PrefixGiven(n)
<1>1. g \in Prefix
  BY PrefixGivenFacts
<1>2. /\ DOMAIN given \subseteq Prefix
      /\ \A p \in Prefix : p \in DOMAIN given <=> HeldId(p) # NoValue
      /\ \A p \in DOMAIN given : HeldId(p) \in DOMAIN means /\ given[p] \in means[HeldId(p)]
  BY DEF HeldIsGiven
<1>3. /\ id = NoValue => DOMAIN given' = DOMAIN given \ {g}
      /\ id # NoValue => DOMAIN given' = DOMAIN given \cup {g} /\ given'[g] = key
      /\ \A p \in DOMAIN given' : p # g => given'[p] = given[p]
      /\ \A i \in DOMAIN means : i \in DOMAIN means' /\ means[i] \subseteq means'[i]
      /\ id # NoValue => id \in DOMAIN means' /\ key \in means'[id]
  BY GiveFacts, MeanFacts
<1>4. DOMAIN given' \subseteq Prefix
  BY <1>1, <1>2, <1>3
<1>5. \A p \in Prefix : p \in DOMAIN given' <=> HeldId(p)' # NoValue
  BY <1>2, <1>3
<1>6. ASSUME NEW p \in DOMAIN given' PROVE HeldId(p)' \in DOMAIN means' /\ given'[p] \in means'[HeldId(p)']
  <2>1. p \in Prefix /\ (p = g => id # NoValue)
    BY <1>3, <1>4
  <2>2. CASE p = g
    BY <1>3, <2>1, <2>2
  <2>3. CASE p # g
    BY <1>2, <1>3, <2>1, <2>3
  <2> QED
    BY <2>2, <2>3
<1> QED
  BY <1>4, <1>5, <1>6 DEF HeldIsGiven

(* A step that gives no row and holds what it held. *)
LEMMA StillHeld ==
  ASSUME HeldIsGiven, \A p \in Prefix : HeldId(p)' = HeldId(p), given' = given,
         zero_dot_zero' = zero_dot_zero,
         \A id : \A key : MeantIn(means, id, key) => MeantIn(means', id, key)
  PROVE  HeldIsGiven'
<1>1. /\ DOMAIN given \subseteq Prefix
      /\ \A p \in Prefix : p \in DOMAIN given <=> HeldId(p) # NoValue
      /\ \A p \in DOMAIN given : HeldId(p) \in DOMAIN means /\ given[p] \in means[HeldId(p)]
      /\ zero_dot_zero # NoValue => \E p \in Prefix : p.len = 0
  BY DEF HeldIsGiven
<1>2. ASSUME NEW p \in DOMAIN given' PROVE HeldId(p)' \in DOMAIN means' /\ given'[p] \in means'[HeldId(p)']
  BY <1>1, <1>2 DEF MeantIn
<1> QED
  BY <1>1, <1>2 DEF HeldIsGiven

LEMMA SameNodesSameTable ==
  ASSUME node_value' = node_value, data_leaf' = data_leaf
  PROVE  TableView' = TableView
BY DEF TableView, BindingOf, IsTaken, Content

LEMMA HeldIsGivenStep ==
  ASSUME KeepsAllBits, GeoInv, HeldIsGiven, NoCrash', [GeoAPINext]_allVars
  PROVE  HeldIsGiven'
<1>1. /\ GeoTypeOK /\ LoadShape /\ nprefixes \in Nat /\ TypeOK
      /\ TreeInv /\ InsertPath /\ LookupInv
  BY DEF GeoInv, GeoTypeOK, LookupInv, WayInv
<1>2. \A id : \A key : MeantIn(means, id, key) => MeantIn(means', id, key)
  BY <1>1, MeansGrow
<1>3. zero_dot_zero # NoValue => \E p \in Prefix : p.len = 0
  BY DEF HeldIsGiven
<1>4. ASSUME NEW n \in Net, NEW id \in ValueOrNone, NEW key, NEW meant \in Key \cup {NoKey},
             StoresRow(n, id, key, meant)
      PROVE  HeldIsGiven'
  <2>1. call = Idle /\ Give(n, id, meant) /\ TableView' = TableView
    BY <1>4, SameNodesSameTable DEF StoresRow, Store, StoreBegin, StoreZero, InsertCall, vars
  <2>2. PrefixGiven(n) \in Prefix /\ n = [val |-> n.val, len |-> n.len]
        /\ PrefixGiven(n).len = Effective(n).len
    BY PrefixGivenFacts
  <2>3. \A p : ~BeingStored(p)
    BY <2>1 DEF BeingStored, Idle
  <2>4. CASE StoreBegin(n, id, key)
    <3>1. zero_dot_zero' = zero_dot_zero /\ call'.op = "insert" /\ call'.val = n.val
          /\ call'.width = n.len /\ call'.arg = id
      BY <2>4 DEF StoreBegin, InsertCall
    <3>2. \A p : BeingStored(p)' <=> p = PrefixGiven(n)
      BY <2>2, <3>1 DEF BeingStored
    <3>3. \A p \in Prefix : HeldId(p)' = IF p = PrefixGiven(n) THEN id ELSE HeldId(p)
      BY <2>1, <2>3, <3>1, <3>2 DEF HeldId
    <3> QED
      BY <1>1, <1>3, <2>1, <3>1, <3>3, RowIsHeld
  <2>5. CASE StoreZero(n, id, key)
    <3>1. zero_dot_zero' = id /\ call' = Idle /\ n.len = 0
      BY <2>1, <2>5 DEF StoreZero, IsZero, vars
    <3>2. PrefixGiven(n).len = 0
      BY <2>2, <3>1, EffectiveFacts
    <3>3. \A p \in Prefix : p.len = 0 <=> p = PrefixGiven(n)
      BY <2>2, <3>2, ZeroPrefixUnique
    <3>4. \A p : ~BeingStored(p)'
      BY <3>1 DEF BeingStored, Idle
    <3>5. \A p \in Prefix : HeldId(p)' = IF p = PrefixGiven(n) THEN id ELSE HeldId(p)
      BY <2>1, <2>3, <3>1, <3>3, <3>4 DEF HeldId
    <3> QED
      BY <1>1, <2>1, <2>2, <3>2, <3>5, RowIsHeld
  <2> QED
    BY <1>4, <2>4, <2>5 DEF StoresRow, Store
<1>5. ASSUME TableView' = TableView, zero_dot_zero' = zero_dot_zero, given' = given,
             \/ call'.op # "insert" /\ call.op # "insert"
             \/ /\ call'.op = call.op /\ call'.val = call.val
                /\ call'.width = call.width /\ call'.arg = call.arg
      PROVE  HeldIsGiven'
  <2>1. \A p : BeingStored(p)' <=> BeingStored(p)
    BY <1>5 DEF BeingStored
  <2>2. \A p : BeingStored(p) => call'.arg = call.arg
    BY <1>5 DEF BeingStored
  <2>3. \A p \in Prefix : HeldId(p)' = HeldId(p)
    BY <1>5, <2>1, <2>2 DEF HeldId
  <2> QED
    BY <1>2, <1>5, <2>3, StillHeld
<1>6. CASE UNCHANGED vars /\ zero_dot_zero' = zero_dot_zero /\ given' = given
  BY <1>5, <1>6, SameNodesSameTable DEF vars
<1>7. CASE StoreEnd /\ UNCHANGED apiVars
  <2> DEFINE n == [val |-> call.val, len |-> call.width]
             g == PrefixGiven(n)
  <2>1. InsertHere /\ zero_dot_zero' = zero_dot_zero /\ given' = given /\ call.op = "insert"
    BY <1>7 DEF StoreEnd, InsertHere, apiVars
  <2>2. n \in Net /\ call.width # 0 /\ call' = Idle
    BY <1>1, <2>1, HereView
  <2>3. g \in Prefix /\ g.len = Effective(n).len /\ g = Loose!PrefixOf(Effective(n))
    BY <2>2, PrefixGivenFacts
  <2>4. TableView' = [TableView EXCEPT ![g] = call.arg]
    BY <1>1, <2>1, <2>3, InsertBinds
  <2>5. g.len # 0
    <3>1. n.len # 0 /\ Effective(n) = n
      BY <2>2, AllBitsKept
    <3> QED
      BY <2>3, <3>1
  <2>6. \A p \in Prefix : TableView'[p] = IF p = g THEN call.arg ELSE TableView[p]
    BY <2>4 DEF TableView
  <2>7. \A p : BeingStored(p) <=> p = g
    BY <2>1 DEF BeingStored
  <2>8. \A p : ~BeingStored(p)'
    BY <2>2 DEF BeingStored, Idle
  <2>9. \A p \in Prefix : HeldId(p)' = HeldId(p)
    BY <2>1, <2>5, <2>6, <2>7, <2>8 DEF HeldId
  <2> QED
    BY <1>2, <2>1, <2>9, StillHeld
<1>8. CASE StoreRuns /\ UNCHANGED apiVars
  <2>1. /\ zero_dot_zero' = zero_dot_zero /\ given' = given
        /\ InsertAbort \/ InsertBelow \/ InsertIntoData
    BY <1>8 DEF StoreRuns, dbVars, apiVars
  <2>2. call \in Call
    BY <1>1, <2>1 DEF TypeOK, InsertAbort, InsertBelow, InsertIntoData, Idle
  <2>3. InsertBelow
    BY <2>1, <2>2 DEF InsertAbort, InsertIntoData, Call, NoCrash
  <2>4. TableView' = TableView
    BY <1>1, <2>3, BelowView, SameTable
  <2>5. /\ call'.op = call.op /\ call'.val = call.val
        /\ call'.width = call.width /\ call'.arg = call.arg
    BY <2>2, <2>3 DEF InsertBelow, Call
  <2> QED
    BY <1>5, <2>1, <2>4, <2>5
<1>9. CASE LookupFull /\ UNCHANGED apiVars
  <2>1. /\ call'.op # "insert" /\ call.op # "insert"
        /\ node_value' = node_value /\ data_leaf' = data_leaf
    BY <1>1, <1>9, LookupMoves DEF Idle
  <2>2. zero_dot_zero' = zero_dot_zero /\ given' = given
    BY <1>9 DEF LookupFull, LookupBegin, LookupRuns, LookupEnd, LookupUnparsed, dbVars, apiVars
  <2> QED
    BY <1>5, <2>1, <2>2, SameNodesSameTable
<1>10. CASE CollapseLeaves /\ zero_dot_zero' = zero_dot_zero /\ given' = given
  <2>1. /\ Occupied' = Occupied /\ \A p \in Occupied : Content(p)' = Content(p)
        /\ call' = call
    BY <1>1, <1>10, CollapseView
  <2>2. TableView' = TableView
    BY <2>1, SameTable
  <2> QED
    BY <1>5, <1>10, <2>1, <2>2
<1>11. ASSUME NEW id, NEW key, NamesRow(id, key) PROVE HeldIsGiven'
  BY <1>6, <1>11 DEF NamesRow, StoreName
<1>12. CASE UNCHANGED allVars
  BY <1>6, <1>12 DEF allVars, dbVars, apiVars
<1>13. CASE GeoAPINext
  <2>1. ASSUME CollapseLeaves \/ UNCHANGED vars, UNCHANGED <<dbVars, given, means>>
        PROVE  HeldIsGiven'
    BY <1>6, <1>10, <2>1 DEF dbVars
  <2> QED
    BY <1>1, <1>4, <1>7, <1>8, <1>9, <1>11, <1>13, <2>1, StepKinds
<1> QED
  BY <1>12, <1>13

(* What every state of a process that runs satisfies as well. *)
HeldInv == NoCrash => HeldIsGiven /\ MeantIsNamed

LEMMA HeldInvStep ==
  ASSUME KeepsAllBits, GeoInv, HeldInv, [GeoAPINext]_allVars
  PROVE  HeldInv'
<1> SUFFICES ASSUME NoCrash' PROVE HeldIsGiven' /\ MeantIsNamed'
  BY DEF HeldInv
<1>1. HeldIsGiven /\ MeantIsNamed
  BY CrashStays DEF HeldInv
<1> QED
  BY <1>1, HeldIsGivenStep, MeantIsNamedStep

LEMMA HeldInvInit ==
  ASSUME GeoAPIInit
  PROVE  HeldInv /\ NamesAreMeant
<1>1. /\ TableView = [p \in Prefix |-> NoValue] /\ call = Idle
      /\ zero_dot_zero = NoValue /\ DOMAIN given = {} /\ DOMAIN means = {} /\ DOMAIN mpGeonames = {}
  BY InitIsInit DEF GeoAPIInit, GeoDBInit, Init
<1>2. \A p \in Prefix : HeldId(p) = NoValue
  BY <1>1 DEF HeldId, BeingStored, Idle
<1> QED
  BY <1>1, <1>2 DEF HeldInv, HeldIsGiven, MeantIsNamed, NamesAreMeant, Idle

-----------------------------------------------------------------------------
(* Between inserts: what the trie binds was given, and what was given is     *)
(* bound or has length 0. *)
LEMMA BoundIsGiven ==
  ASSUME KeepsAllBits, GeoInv, HeldIsGiven, call.op # "insert", NEW p \in Prefix
  PROVE  /\ TableView[p] # NoValue =>
              p \in DOMAIN given /\ p.len # 0 /\ HeldId(p) = TableView[p]
         /\ p \in DOMAIN given => p.len = 0 \/ TableView[p] # NoValue
<1>1. HeldId(p) = IF p.len = 0 THEN zero_dot_zero ELSE TableView[p]
  BY DEF HeldId, BeingStored
<1>2. p.len = 0 => TableView[p] = NoValue
  <2> SUFFICES ASSUME p.len = 0 PROVE TableView[p] = NoValue
    OBVIOUS
  <2>1. PathOf(p.bits, 0) = Root
    BY DEF PathOf, Root, Stride
  <2>2. node_value[Root] = NoValue /\ Root \in DOMAIN node_value /\ Root \notin DOMAIN data_leaf
    BY AllBitsKept, RootIsFree DEF GeoInv, LookupInv, TreeInv, TypeInv, WellLinked
  <2> QED
    BY <2>1, <2>2, PrefixFacts DEF Content, Occupied
<1> QED
  BY <1>1, <1>2 DEF HeldIsGiven

LEMMA CoveringFacts ==
  ASSUME GeoInv, HeldIsGiven, NEW a
  PROVE  /\ Covering(a) = {p \in DOMAIN given : Loose!Covers(p, a)}
         /\ Covering(a) \subseteq Prefix
         /\ \A p, q \in Covering(a) : p.len = q.len => p = q
<1>1. Covering(a) = {p \in DOMAIN given : \A i \in 1..p.len : p.bits[i] = a[i]}
  BY DEF Covering
<1>2. Covering(a) \subseteq Prefix
  BY <1>1 DEF HeldIsGiven
<1>3. ASSUME NEW p \in Covering(a), NEW q \in Covering(a), p.len = q.len PROVE p = q
  <2>1. /\ p = [len |-> p.len, bits |-> [i \in 1..p.len |-> p.bits[i]]]
        /\ q = [len |-> p.len, bits |-> [i \in 1..p.len |-> q.bits[i]]]
    BY <1>2, <1>3, PrefixShape
  <2>2. \A i \in 1..p.len : p.bits[i] = q.bits[i]
    BY <1>1, <1>3
  <2>3. [i \in 1..p.len |-> p.bits[i]] = [i \in 1..p.len |-> q.bits[i]]
    BY <2>2
  <2> QED
    BY <2>1, <2>3
<1> QED
  BY <1>1, <1>2, <1>3 DEF Loose!Covers

LEMMA LongestIsMeant ==
  ASSUME GeoInv, HeldIsGiven, NEW a, NEW p \in Covering(a),
         \A q \in Covering(a) : q.len <= p.len
  PROVE  Meant(a) = given[p]
<1> DEFINE c == CHOOSE q \in Covering(a) : \A r \in Covering(a) : r.len <= q.len
<1>1. c \in Covering(a) /\ \A r \in Covering(a) : r.len <= c.len
  OBVIOUS
<1>2. c.len \in Int /\ p.len \in Int
  BY <1>1, CoveringFacts, PrefixFacts, AddrBitsAssumption
<1>3. c.len = p.len
  BY <1>1, <1>2
<1>4. c = p
  BY <1>1, <1>3, CoveringFacts
<1> QED
  BY <1>4 DEF Meant

(* The id that a full lookup asks the names for. *)
IdFor(v) == IF v # NoValue THEN v ELSE zero_dot_zero

LEMMA ZeroIsGiven ==
  ASSUME HeldIsGiven, call.op # "insert", zero_dot_zero # NoValue, NEW a
  PROVE  \E p \in Covering(a) : p.len = 0 /\ HeldId(p) = zero_dot_zero
<1>1. PICK p \in Prefix : p.len = 0
  BY DEF HeldIsGiven
<1>2. HeldId(p) = zero_dot_zero
  BY <1>1 DEF HeldId, BeingStored
<1>3. p \in DOMAIN given
  BY <1>2 DEF HeldIsGiven
<1> QED
  BY <1>1, <1>2, <1>3 DEF Covering

LEMMA MatchIsGiven ==
  ASSUME KeepsAllBits, GeoInv, HeldIsGiven, call.op # "insert",
         NEW a, NEW v, v # NoValue, Loose!IsMatch(a, v)
  PROVE  \E p \in Covering(a) : HeldId(p) = v /\ Meant(a) = given[p]
<1>1. PICK p \in Prefix : /\ TableView[p] # NoValue /\ Loose!Covers(p, a) /\ v = TableView[p]
                          /\ \A q \in Prefix : Loose!Bound(q, a) => q.len <= p.len
  BY DEF Loose!IsMatch, Loose!IsLongest, Loose!Bound, Loose!Prefix, Loose!PrefixOf, Prefix, PrefixesOf
<1>2. p \in DOMAIN given /\ HeldId(p) = v
  BY <1>1, BoundIsGiven
<1>3. p \in Covering(a)
  BY <1>1, <1>2, CoveringFacts
<1>4. ASSUME NEW q \in Covering(a) PROVE q.len <= p.len
  <2>1. q \in Prefix /\ q \in DOMAIN given /\ Loose!Covers(q, a)
    BY <1>4, CoveringFacts
  <2>2. p.len \in Nat
    BY PrefixFacts, AddrBitsAssumption
  <2>3. CASE q.len = 0
    BY <2>2, <2>3
  <2>4. CASE TableView[q] # NoValue
    BY <1>1, <2>1, <2>4 DEF Loose!Bound
  <2> QED
    BY <2>1, <2>3, <2>4, BoundIsGiven
<1> QED
  BY <1>2, <1>3, <1>4, LongestIsMeant

LEMMA NoMatchIsDefault ==
  ASSUME KeepsAllBits, GeoInv, HeldIsGiven, call.op # "insert",
         NEW a, Loose!IsMatch(a, NoValue)
  PROVE  /\ zero_dot_zero = NoValue => Covering(a) = {}
         /\ zero_dot_zero # NoValue =>
              \E p \in Covering(a) : HeldId(p) = zero_dot_zero /\ Meant(a) = given[p]
<1>1. \A q \in Prefix : ~Loose!Bound(q, a)
  BY DEF Loose!IsMatch, Loose!IsLongest, Loose!Bound, Loose!Prefix, Loose!PrefixOf, Prefix, PrefixesOf
<1>2. ASSUME NEW q \in Covering(a) PROVE q \in Prefix /\ q \in DOMAIN given /\ q.len = 0
  <2>1. q \in Prefix /\ q \in DOMAIN given /\ Loose!Covers(q, a)
    BY <1>2, CoveringFacts
  <2>2. TableView[q] = NoValue
    BY <1>1, <2>1 DEF Loose!Bound
  <2> QED
    BY <2>1, <2>2, BoundIsGiven
<1>3. ASSUME NEW q \in Covering(a) PROVE zero_dot_zero # NoValue
  <2>1. q \in Prefix /\ q \in DOMAIN given /\ q.len = 0
    BY <1>2, <1>3
  <2>2. HeldId(q) = zero_dot_zero
    BY <2>1 DEF HeldId, BeingStored
  <2> QED
    BY <2>1, <2>2 DEF HeldIsGiven
<1>4. ASSUME zero_dot_zero # NoValue
      PROVE  \E p \in Covering(a) : HeldId(p) = zero_dot_zero /\ Meant(a) = given[p]
  <2>1. PICK p \in Covering(a) : p.len = 0 /\ HeldId(p) = zero_dot_zero
    BY <1>4, ZeroIsGiven
  <2>2. \A q \in Covering(a) : q.len <= p.len
    BY <1>2, <2>1
  <2> QED
    BY <2>1, <2>2, LongestIsMeant
<1> QED
  BY <1>3, <1>4

(* The id that answers an address stands for the key that it should answer. *)
LEMMA IdMeansKey ==
  ASSUME KeepsAllBits, GeoInv, HeldIsGiven, call.op # "insert",
         NEW a, NEW v, Loose!IsMatch(a, v)
  PROVE  /\ IdFor(v) # NoValue => MeantIn(means, IdFor(v), Meant(a))
         /\ IdFor(v) = NoValue => Meant(a) = NoKey
<1>1. ASSUME NEW id, NEW p \in Covering(a), HeldId(p) = id, Meant(a) = given[p]
      PROVE  MeantIn(means, id, Meant(a))
  <2>1. p \in DOMAIN given
    BY <1>1 DEF Covering
  <2> QED
    BY <1>1, <2>1 DEF HeldIsGiven, MeantIn
<1>2. CASE v # NoValue
  <2>1. PICK p \in Covering(a) : HeldId(p) = v /\ Meant(a) = given[p]
    BY <1>2, MatchIsGiven
  <2> QED
    BY <1>1, <1>2, <2>1 DEF IdFor
<1>3. CASE v = NoValue /\ zero_dot_zero # NoValue
  <2>1. PICK p \in Covering(a) : HeldId(p) = zero_dot_zero /\ Meant(a) = given[p]
    BY <1>3, NoMatchIsDefault
  <2> QED
    BY <1>1, <1>3, <2>1 DEF IdFor
<1>4. CASE v = NoValue /\ zero_dot_zero = NoValue
  <2>1. Covering(a) = {}
    BY <1>4, NoMatchIsDefault
  <2> QED
    BY <1>4, <2>1 DEF IdFor, Meant
<1> QED
  BY <1>2, <1>3, <1>4

LEMMA AnswerIsNameOf ==
  ASSUME NEW v
  PROVE  FullAnswer(v) = IF IdFor(v) = NoValue THEN NoKey ELSE NameOf(IdFor(v))
BY DEF FullAnswer, IdFor

LEMMA NameIsMeant ==
  ASSUME NamesAreMeant, NoClash, NEW id, id # NoValue, NEW key, MeantIn(means, id, key)
  PROVE  id \in DOMAIN mpGeonames => mpGeonames[id] = key
BY DEF NamesAreMeant, NoClash, MeantIn

LEMMA OwnKeyHolds ==
  ASSUME KeepsAllBits, NoNesting, GeoInv, HeldIsGiven, NamesAreMeant
  PROVE  OwnKey
<1> SUFFICES ASSUME call = Idle, NoClash, NEW a \in Addr
             PROVE  ByIpnum(a) \in {NoKey, Meant(a)} /\ ByIpaddr(a) \in {NoKey, Meant(a)}
  BY DEF OwnKey
<1> DEFINE v == Answer(a, NoValue)
<1>1. TreeInv /\ WayInv /\ a \in Word /\ call.op # "insert"
  BY AddrAssumption DEF GeoInv, LookupInv, Idle
<1>2. Loose!IsMatch(a, v)
  BY <1>1, MatchIsExact
<1>3. ByIpnum(a) = FullAnswer(v) /\ ByIpaddr(a) = FullAnswer(v)
  BY <1>1, AllBitsKept, RootIsFree DEF ByIpnum, ByIpaddr
<1>4. FullAnswer(v) \in {NoKey, Meant(a)}
  <2> HIDE DEF v
  <2>1. CASE IdFor(v) = NoValue
    BY <2>1, AnswerIsNameOf
  <2>2. CASE IdFor(v) # NoValue
    <3>1. MeantIn(means, IdFor(v), Meant(a))
      BY <1>1, <1>2, <2>2, IdMeansKey
    <3>2. NameOf(IdFor(v)) \in {NoKey, Meant(a)}
      BY <2>2, <3>1, NameIsMeant DEF NameOf
    <3> QED
      BY <2>2, <3>2, AnswerIsNameOf
  <2> QED
    BY <2>1, <2>2
<1> QED
  BY <1>3, <1>4

LEMMA OnlyGivenHolds ==
  ASSUME KeepsAllBits, GeoInv, HeldIsGiven
  PROVE  OnlyGiven
<1> SUFFICES ASSUME call = Idle, NEW a \in Addr, ByIpnum(a) # NoKey PROVE Covering(a) # {}
  BY DEF OnlyGiven
<1> DEFINE v == Answer(a, NoValue)
<1>1. TreeInv /\ WayInv /\ Rooted /\ Contents /\ a \in Word /\ call.op # "insert"
  BY AddrAssumption DEF GeoInv, LookupInv, WayInv, Idle
<1>2. v = Content(Found(Occupied, a)) /\ ByIpnum(a) = FullAnswer(v)
  BY <1>1, AnswerByNumber DEF ByIpnum
<1>3. CASE v # NoValue
  <2>1. Loose!IsMatch(a, v)
    BY <1>1, <1>2, <1>3, ValueIsLongest
  <2> HIDE DEF v
  <2> QED
    BY <1>1, <1>3, <2>1, MatchIsGiven
<1>4. CASE v = NoValue
  <2> HIDE DEF v
  <2>1. zero_dot_zero # NoValue
    BY <1>2, <1>4 DEF FullAnswer
  <2> QED
    BY <1>1, <2>1, ZeroIsGiven
<1> QED
  BY <1>3, <1>4

(* A handle of which everything above holds. *)
HandleInv == GeoInv /\ HeldInv /\ NamesAreMeant

LEMMA HandleInvInit == GeoAPIInit => HandleInv
BY GeoInvInit, HeldInvInit DEF HandleInv

LEMMA HandleInvStep ==
  ASSUME KeepsAllBits, HandleInv, [GeoAPINext]_allVars
  PROVE  HandleInv'
BY GeoInvStep, HeldInvStep, NamesAreMeantStep DEF HandleInv

(* The step that answers a lookup. *)
LEMMA LookupReturnsKey ==
  ASSUME KeepsAllBits, GeoInv, [GeoAPINext]_allVars,
         call.op = "lookup", call'.op = "idle"
  PROVE  /\ load = NoLoad /\ call.val \in Addr
         /\ answer' = FullAnswer(Answer(call.val, NoValue))
<1>1. /\ call # Idle /\ call' # call /\ call \in Call
      /\ TypeOK /\ LoadShape /\ nprefixes \in Nat /\ LookupInv /\ LookupPath /\ TreeInv /\ WayInv
  BY DEF Idle, GeoInv, GeoTypeOK, TypeOK, LookupInv
<1>2. ASSUME NEW n, NEW id, NEW key, NEW meant, StoresRow(n, id, key, meant) PROVE FALSE
  BY <1>1, <1>2 DEF StoresRow, Store, StoreBegin, StoreZero, InsertCall
<1>3. ASSUME NEW id, NEW key, NamesRow(id, key) PROVE FALSE
  BY <1>1, <1>3 DEF NamesRow, StoreName
<1>4. ~StoreEnd /\ ~StoreRuns
  BY DEF StoreEnd, StoreRuns, InsertHere, InsertAbort, InsertBelow, InsertIntoData
<1>5. ~CollapseLeaves /\ ~UNCHANGED vars /\ ~UNCHANGED allVars
  BY <1>1 DEF CollapseLeaves, vars, allVars
<1>6. LookupFull /\ load = NoLoad
  BY <1>1, <1>2, <1>3, <1>4, <1>5, StepKinds
<1>7. LookupEnd
  <2>1. ASSUME NEW a, LookupBegin(a) PROVE FALSE
    BY <1>1, <2>1 DEF LookupBegin, LookupIpnum, LookupDotted, LookupCall
  <2>2. ~LookupRuns
    BY <1>1 DEF LookupRuns, LookupBelow, Call
  <2>3. ~LookupUnparsed
    BY <1>1 DEF LookupUnparsed
  <2> QED
    BY <1>6, <2>1, <2>2, <2>3 DEF LookupFull
<1>8. (LookupHere \/ LookupData) /\ answer' = FullAnswer(ret')
  BY <1>7 DEF LookupEnd
<1>9. ret' = Answer(call.val, call.arg)
  BY <1>1, <1>8, ReturnsAnswer
<1>10. call.val \in Addr /\ call.arg = NoValue
  BY <1>1, AllBitsKept, RootIsFree DEF LookupPath
<1> QED
  BY <1>6, <1>8, <1>9, <1>10

LEMMA FindsKeyStep ==
  ASSUME KeepsAllBits, NoNesting, HandleInv, [GeoAPINext]_allVars,
         call.op = "lookup", call'.op = "idle", ~failed, NoClash
  PROVE  answer' = Meant(call.val)
<1> DEFINE a == call.val
           v == Answer(a, NoValue)
<1>1. /\ GeoInv /\ HeldIsGiven /\ MeantIsNamed /\ NamesAreMeant /\ GeoTypeOK
      /\ TreeInv /\ WayInv
  BY DEF HandleInv, HeldInv, NoCrash, GeoInv, LookupInv
<1>2. load = NoLoad /\ a \in Addr /\ answer' = FullAnswer(v)
  BY <1>1, LookupReturnsKey
<1>3. Loose!IsMatch(a, v)
  BY <1>1, <1>2, MatchIsExact, AddrAssumption
<1> HIDE DEF v
<1>4. CASE IdFor(v) = NoValue
  BY <1>1, <1>2, <1>3, <1>4, IdMeansKey, AnswerIsNameOf
<1>5. CASE IdFor(v) # NoValue
  <2>1. MeantIn(means, IdFor(v), Meant(a)) /\ answer' = NameOf(IdFor(v))
    BY <1>1, <1>2, <1>3, <1>5, IdMeansKey, AnswerIsNameOf
  <2>2. IdFor(v) \in DOMAIN mpGeonames => mpGeonames[IdFor(v)] = Meant(a)
    BY <1>1, <1>5, <2>1, NameIsMeant
  <2>3. CASE Meant(a) = NoKey
    <3>1. IdFor(v) \notin DOMAIN mpGeonames
      BY <1>1, <2>2, <2>3, NoKeyAssumption DEF GeoTypeOK
    <3> QED
      BY <2>1, <2>3, <3>1 DEF NameOf
  <2>4. CASE Meant(a) # NoKey
    <3>1. IdFor(v) \in DOMAIN mpGeonames
      BY <1>1, <1>2, <2>1, <2>4 DEF MeantIsNamed, MeantIn, NamesAhead
    <3> QED
      BY <2>1, <2>2, <3>1 DEF NameOf
  <2> QED
    BY <2>3, <2>4
<1> QED
  BY <1>4, <1>5

(* At every moment of a load, and after one that failed, an address is       *)
(* answered with the key that was stored last for the longest prefix over    *)
(* it, or not found: whichever files and pushes were mixed, while no id      *)
(* stands for two keys (GeoDB.cpp:60-78, 86-130).  It takes prefixes none of *)
(* which lies in another or has a length one above a multiple of four: of    *)
(* those the trie drops a bit, and they answer for their neighbours.         *)
THEOREM NoForeignKey ==
  ASSUME KeepsAllBits, NoNesting
  PROVE  GeoAPISpec => []OwnKey
<1>1. HandleInv => OwnKey
  <2> SUFFICES ASSUME HandleInv, call = Idle PROVE OwnKey
    BY DEF OwnKey
  <2>1. GeoInv /\ HeldIsGiven /\ NamesAreMeant
    BY DEF HandleInv, HeldInv, NoCrash, Idle
  <2> QED
    BY <2>1, OwnKeyHolds
<1>2. HandleInv /\ [GeoAPINext]_allVars => HandleInv'
  BY HandleInvStep
<1> QED
  BY <1>1, <1>2, HandleInvInit, PTL DEF GeoAPISpec

(* An address is found only inside a prefix that was stored and not taken    *)
(* out again, even where ids stand for several keys and networks lie in one  *)
(* another (GeoDB.cpp:60-78), while no length loses its last bit.            *)
THEOREM NothingOutOfNothing ==
  ASSUME KeepsAllBits
  PROVE  GeoAPISpec => []OnlyGiven
<1>1. HandleInv => OnlyGiven
  <2> SUFFICES ASSUME HandleInv, call = Idle PROVE OnlyGiven
    BY DEF OnlyGiven
  <2>1. GeoInv /\ HeldIsGiven
    BY DEF HandleInv, HeldInv, NoCrash, Idle
  <2> QED
    BY <2>1, OnlyGivenHolds
<1>2. HandleInv /\ [GeoAPINext]_allVars => HandleInv'
  BY HandleInvStep
<1> QED
  BY <1>1, <1>2, HandleInvInit, PTL DEF GeoAPISpec

(* A lookup of a handle that loaded without a failure answers exactly the    *)
(* key stored last for the longest prefix over the address, by number and by *)
(* dotted string (README.md:40, GeoAPI.h:10-12), while no id stands for two  *)
(* keys, no prefix lies in another, and no length loses its last bit.        *)
THEOREM LookupFindsKey ==
  ASSUME KeepsAllBits, NoNesting
  PROVE  GeoAPISpec => FindsKey
<1>1. HandleInv /\ [GeoAPINext]_allVars =>
        [call.op = "lookup" /\ call'.op = "idle" /\ ~failed /\ NoClash
           => answer' = Meant(call.val)]_allVars
  BY FindsKeyStep
<1>2. HandleInv /\ [GeoAPINext]_allVars => HandleInv'
  BY HandleInvStep
<1> QED
  BY <1>1, <1>2, HandleInvInit, PTL DEF GeoAPISpec, FindsKey

=============================================================================
