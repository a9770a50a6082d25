---------------------------- MODULE HandlesProofs ----------------------------
(***************************************************************************)
(* Proofs about Handles: who owns a database and a connection, for any     *)
(* number of handles and tables.                                           *)
(***************************************************************************)
EXTENDS Handles, FiniteSetTheorems, TLAPS

(* A table that is open refers to a live database or to none, and a table    *)
(* that is being opened is not open. *)
OpenLive ==
  /\ \A t \in Tbl : told[t] = "open" => _db[t] \in live \cup {NULL}
  /\ call # NoCall => told[call.tbl] # "open"

(* What is open in SQLite belongs to the running call, or was left behind    *)
(* with a database. *)
Counted ==
  /\ IsFiniteSet(lost)
  /\ stmts - (IF call.pc = "rows" THEN 1 ELSE 0)
       <= conns - (IF call.pc \in {"prepare", "rows"} THEN 1 ELSE 0)
  /\ call.pc = "rows" => stmts >= 1
  /\ conns - (IF call.pc \in {"prepare", "rows"} THEN 1 ELSE 0) \in 0..Cardinality(lost)

HandleInv == /\ TypeOK /\ NeverFreed /\ OneHolder /\ LostByFailure
             /\ OpenLive /\ Counted

LEMMA HandleInit == Init => HandleInv
<1> SUFFICES ASSUME Init PROVE HandleInv
  OBVIOUS
<1>1. Held = {} /\ InCall = {}
  BY DEF Init, Held, InCall
<1> QED
  BY <1>1, FS_EmptySet
  DEF Init, HandleInv, TypeOK, NeverFreed, OneHolder, LostByFailure, OpenLive, Counted, NoCall

-----------------------------------------------------------------------------
(* A failed or a successful return of a load: the table holds what it was    *)
(* given, and nobody else does. *)
LEMMA ReturnHeld ==
  ASSUME HandleInv, call # NoCall, NEW result \in {NULL, call.db}, OpenReturns(result)
  PROVE  /\ told' = [told EXCEPT ![call.tbl] = "open"]
         /\ _db' = [_db EXCEPT ![call.tbl] = result]
         /\ call.tbl \in Tbl /\ call.db \in live /\ call.db # NULL /\ call.db # nil
         /\ Held' = Held \cup ({result} \ {NULL})
         /\ InCall' = {} /\ InCall = {call.db}
         /\ call' = NoCall /\ fault' = fault
<1>1. call.tbl \in Tbl /\ call.db \in Handle
  BY DEF HandleInv, TypeOK
<1>2. InCall = {call.db} /\ call.db \in live
  BY DEF HandleInv, LostByFailure, InCall
<1>3. IsTrue(result) /\ call.db # NULL /\ call.db # nil
  BY <1>1, HandleAssumption DEF IsTrue
<1>4. /\ told' = [told EXCEPT ![call.tbl] = "open"]
      /\ _db' = [_db EXCEPT ![call.tbl] = result]
      /\ call' = NoCall /\ fault' = fault
  BY <1>3 DEF OpenReturns
<1>5. Held' = Held \cup ({result} \ {NULL})
  <2>1. told[call.tbl] # "open" /\ told \in [Tbl -> {"new", "open", "failed", "closed"}]
        /\ _db \in [Tbl -> Handle \cup {NULL, nil}]
    BY DEF HandleInv, OpenLive, TypeOK
  <2>2. {u \in Tbl : told'[u] = "open"} = {u \in Tbl : told[u] = "open"} \cup {call.tbl}
    BY <1>1, <1>4, <2>1
  <2>3. \A t \in Tbl : t # call.tbl => _db'[t] = _db[t]
    BY <1>4, <2>1
  <2>4. _db'[call.tbl] = result
    BY <1>1, <1>4, <2>1
  <2> QED
    BY <2>1, <2>2, <2>3, <2>4 DEF Held
<1>6. InCall' = {}
  BY <1>4 DEF InCall
<1> QED
  BY <1>1, <1>2, <1>3, <1>4, <1>5, <1>6

(* So a return of NULL that loses the database, and one of the database,     *)
(* keep the ownership. *)
LEMMA ReturnOwner ==
  ASSUME HandleInv, call # NoCall, NEW result \in {NULL, call.db}, OpenReturns(result),
         live' = live, lost' = IF result = NULL THEN lost \cup {call.db} ELSE lost
  PROVE  /\ NeverFreed' /\ OneHolder' /\ LostByFailure' /\ OpenLive'
         /\ told' \in [Tbl -> {"new", "open", "failed", "closed"}]
         /\ _db' \in [Tbl -> Handle \cup {NULL, nil}] /\ fault' \in {"none", "null", "freed"}
         /\ call' \in {NoCall} /\ lost' \subseteq Handle
<1>1. /\ told' = [told EXCEPT ![call.tbl] = "open"]
      /\ _db' = [_db EXCEPT ![call.tbl] = result]
      /\ call.tbl \in Tbl /\ call.db \in live /\ call.db # NULL /\ call.db # nil
      /\ Held' = Held \cup ({result} \ {NULL})
      /\ InCall' = {} /\ InCall = {call.db}
      /\ call' = NoCall /\ fault' = fault
  BY ReturnHeld
<1>2. /\ told \in [Tbl -> {"new", "open", "failed", "closed"}]
      /\ _db \in [Tbl -> Handle \cup {NULL, nil}] /\ fault \in {"none", "null", "freed"}
      /\ live \subseteq Handle /\ lost \subseteq Handle
  BY DEF HandleInv, TypeOK
<1>3. \A t \in Tbl : told[t] = "open" /\ _db[t] # NULL => _db[t] \in Held
  BY DEF Held
<1>4. call.db \notin Held /\ call.db \notin lost /\ lost \cap Held = {}
  BY <1>1 DEF HandleInv, OneHolder
<1>5. LostByFailure'
  BY <1>1 DEF HandleInv, LostByFailure
<1>6. OneHolder'
  <2>1. ASSUME NEW t \in Tbl, NEW u \in Tbl, told'[t] = "open", told'[u] = "open",
               _db'[t] = _db'[u], _db'[t] # NULL
        PROVE  t = u
    <3>1. CASE t # call.tbl /\ u # call.tbl
      BY <1>1, <1>2, <2>1, <3>1 DEF HandleInv, OneHolder
    <3>2. CASE t = call.tbl /\ u # call.tbl
      BY <1>1, <1>2, <1>3, <1>4, <2>1, <3>2
    <3>3. CASE t # call.tbl /\ u = call.tbl
      BY <1>1, <1>2, <1>3, <1>4, <2>1, <3>3
    <3> QED
      BY <3>1, <3>2, <3>3
  <2>2. Held' \cap InCall' = {} /\ lost' \cap (Held' \cup InCall') = {}
    BY <1>1, <1>4
  <2> QED
    BY <2>1, <2>2 DEF OneHolder
<1>7. OpenLive'
  BY <1>1, <1>2 DEF HandleInv, OpenLive
<1> QED
  BY <1>1, <1>2, <1>5, <1>6, <1>7 DEF HandleInv, NeverFreed

(* An exception loses the database and opens nothing. *)
LEMMA ThrowOwner ==
  ASSUME HandleInv, call # NoCall, OpenThrows, live' = live, lost' = lost \cup {call.db}
  PROVE  /\ NeverFreed' /\ OneHolder' /\ LostByFailure' /\ OpenLive'
         /\ told' \in [Tbl -> {"new", "open", "failed", "closed"}]
         /\ _db' \in [Tbl -> Handle \cup {NULL, nil}] /\ fault' \in {"none", "null", "freed"}
         /\ call' \in {NoCall} /\ lost' \subseteq Handle
<1>1. /\ told' = [told EXCEPT ![call.tbl] = "failed"] /\ _db' = _db
      /\ call' = NoCall /\ fault' = fault
  BY DEF OpenThrows
<1>2. /\ told \in [Tbl -> {"new", "open", "failed", "closed"}]
      /\ _db \in [Tbl -> Handle \cup {NULL, nil}] /\ fault \in {"none", "null", "freed"}
      /\ live \subseteq Handle /\ lost \subseteq Handle /\ call.tbl \in Tbl /\ call.db \in Handle
  BY DEF HandleInv, TypeOK
<1>3. \A t \in Tbl : told'[t] = "open" <=> told[t] = "open"
  BY <1>1, <1>2 DEF HandleInv, OpenLive
<1>4. Held' = Held
  BY <1>1, <1>3 DEF Held
<1>5. InCall = {call.db} /\ InCall' = {}
  BY <1>1 DEF InCall
<1>6. OneHolder' /\ LostByFailure'
  BY <1>1, <1>3, <1>4, <1>5 DEF HandleInv, OneHolder, LostByFailure
<1>7. OpenLive' /\ NeverFreed'
  BY <1>1, <1>3 DEF HandleInv, OpenLive, NeverFreed
<1> QED
  BY <1>1, <1>2, <1>6, <1>7

-----------------------------------------------------------------------------
LEMMA KeepsOpen == ASSUME HandleInv, NEW t \in Tbl, Open(t) PROVE HandleInv'
<1>1. PICK h \in Handle \ live :
        live' = live \cup {h} /\ call' = [pc |-> "load", tbl |-> t, db |-> h]
  BY DEF Open
<1>2. /\ call = NoCall /\ told[t] # "open"
      /\ UNCHANGED <<conns, stmts, _db, told, fault, lost>>
  BY DEF Open, script
<1>3. call' # NoCall /\ call'.pc = "load" /\ call'.tbl = t /\ call'.db = h
  BY <1>1 DEF NoCall
<1>4. Held' = Held /\ InCall = {} /\ InCall' = {h}
  BY <1>2, <1>3 DEF Held, InCall
<1>5. TypeOK'
  BY <1>1, <1>2 DEF HandleInv, TypeOK
<1>6. OneHolder' /\ LostByFailure'
  BY <1>1, <1>2, <1>4 DEF HandleInv, OneHolder, LostByFailure
<1>7. OpenLive' /\ NeverFreed'
  BY <1>1, <1>2, <1>3 DEF HandleInv, OpenLive, NeverFreed
<1>8. Counted'
  BY <1>2, <1>3 DEF HandleInv, Counted, NoCall
<1> QED
  BY <1>5, <1>6, <1>7, <1>8 DEF HandleInv

(* The counters are numbers, and a load that fails loses one database more.  *)
LEMMA Numbers ==
  ASSUME HandleInv
  PROVE  /\ conns \in Nat /\ stmts \in Nat /\ Cardinality(lost) \in Nat
         /\ call # NoCall =>
              /\ IsFiniteSet(lost \cup {call.db})
              /\ Cardinality(lost \cup {call.db}) = Cardinality(lost) + 1
<1>1. conns \in Nat /\ stmts \in Nat /\ IsFiniteSet(lost)
  BY DEF HandleInv, TypeOK, Counted
<1>2. call # NoCall => call.db \notin lost
  BY DEF HandleInv, OneHolder, InCall
<1> QED
  BY <1>1, <1>2, FS_CardinalityType, FS_AddElement

LEMMA KeepsLoad == ASSUME HandleInv, Load PROVE HandleInv'
<1>0. live \subseteq Handle /\ lost \subseteq Handle
  BY DEF HandleInv, TypeOK
<1>1. CASE LoadRejects
  <2>1. call # NoCall /\ call.pc = "load" /\ OpenReturns(NULL) /\ lost' = lost \cup {call.db}
        /\ UNCHANGED <<live, conns, stmts>>
    BY <1>1 DEF LoadRejects, NoCall, Lose
  <2>2. Counted' /\ TypeOK'
    BY <1>0, <2>1, ReturnOwner, Numbers DEF HandleInv, Counted, TypeOK, NoCall
  <2> QED
    BY <2>1, <2>2, ReturnOwner DEF HandleInv
<1>2. CASE LoadText
  <2>1. call # NoCall /\ call.pc = "load" /\ UNCHANGED <<live, conns, stmts>>
    BY <1>2 DEF LoadText, NoCall
  <2>2. CASE OpenReturns(call.db) /\ UNCHANGED lost
    <3>1. call.db # NULL
      BY <2>1, HandleAssumption DEF HandleInv, TypeOK
    <3>2. Counted' /\ TypeOK'
      BY <1>0, <2>1, <2>2, <3>1, ReturnOwner, Numbers DEF HandleInv, Counted, TypeOK, NoCall
    <3> QED
      BY <2>1, <2>2, <3>1, <3>2, ReturnOwner DEF HandleInv
  <2>3. CASE OpenThrows /\ Lose
    <3>1. Counted' /\ TypeOK'
      BY <1>0, <2>1, <2>3, ThrowOwner, Numbers DEF HandleInv, Counted, TypeOK, NoCall, Lose
    <3> QED
      BY <2>1, <2>3, <3>1, ThrowOwner DEF HandleInv, Lose
  <2> QED
    BY <1>2, <2>2, <2>3 DEF LoadText
<1>3. CASE SqlOpen
  <2>1. call # NoCall /\ call.pc = "load" /\ conns' = conns + 1 /\ UNCHANGED <<live, stmts>>
    BY <1>3 DEF SqlOpen, NoCall
  <2>2. CASE call' = [call EXCEPT !.pc = "prepare"] /\ UNCHANGED <<_db, told, fault, lost>>
    <3>1. call \in [pc : {"load", "prepare", "rows"}, tbl : Tbl, db : Handle]
      BY <2>1 DEF HandleInv, TypeOK
    <3>2. call' # NoCall /\ call'.pc = "prepare" /\ call'.tbl = call.tbl /\ call'.db = call.db
          /\ call' \in [pc : {"load", "prepare", "rows"}, tbl : Tbl, db : Handle]
      BY <2>2, <3>1 DEF NoCall
    <3>3. Held' = Held /\ InCall' = InCall
      BY <2>1, <2>2, <3>2 DEF Held, InCall
    <3>4. Counted' /\ TypeOK'
      BY <2>1, <2>2, <3>2, Numbers DEF HandleInv, Counted, TypeOK
    <3>5. OneHolder' /\ LostByFailure' /\ OpenLive' /\ NeverFreed'
      BY <2>1, <2>2, <3>2, <3>3
      DEF HandleInv, OneHolder, LostByFailure, OpenLive, NeverFreed
    <3> QED
      BY <3>4, <3>5 DEF HandleInv
  <2>3. CASE OpenReturns(NULL) /\ Lose
    <3>1. Counted' /\ TypeOK'
      BY <1>0, <2>1, <2>3, ReturnOwner, Numbers
      DEF HandleInv, Counted, TypeOK, NoCall, Lose
    <3> QED
      BY <2>1, <2>3, <3>1, ReturnOwner DEF HandleInv, Lose
  <2> QED
    BY <1>3, <2>2, <2>3 DEF SqlOpen, script
<1>4. CASE SqlPrepare
  <2>1. call # NoCall /\ call.pc = "prepare" /\ UNCHANGED live
    BY <1>4 DEF SqlPrepare, NoCall
  <2>2. CASE /\ stmts' = stmts + 1 /\ call' = [call EXCEPT !.pc = "rows"]
             /\ UNCHANGED <<conns, _db, told, fault, lost>>
    <3>1. call \in [pc : {"load", "prepare", "rows"}, tbl : Tbl, db : Handle]
      BY <2>1 DEF HandleInv, TypeOK
    <3>2. call' # NoCall /\ call'.pc = "rows" /\ call'.tbl = call.tbl /\ call'.db = call.db
          /\ call' \in [pc : {"load", "prepare", "rows"}, tbl : Tbl, db : Handle]
      BY <2>2, <3>1 DEF NoCall
    <3>3. Held' = Held /\ InCall' = InCall
      BY <2>1, <2>2, <3>2 DEF Held, InCall
    <3>4. Counted' /\ TypeOK'
      BY <2>1, <2>2, <3>2, Numbers DEF HandleInv, Counted, TypeOK
    <3>5. OneHolder' /\ LostByFailure' /\ OpenLive' /\ NeverFreed'
      BY <2>1, <2>2, <3>2, <3>3
      DEF HandleInv, OneHolder, LostByFailure, OpenLive, NeverFreed
    <3> QED
      BY <3>4, <3>5 DEF HandleInv
  <2>3. CASE conns' = conns - 1 /\ OpenReturns(NULL) /\ Lose /\ UNCHANGED stmts
    <3>1. Counted' /\ TypeOK'
      BY <1>0, <2>1, <2>3, ReturnOwner, Numbers DEF HandleInv, Counted, TypeOK, NoCall, Lose
    <3> QED
      BY <2>1, <2>3, <3>1, ReturnOwner DEF HandleInv, Lose
  <2> QED
    BY <1>4, <2>2, <2>3 DEF SqlPrepare, script
<1>5. CASE SqlRowThrows
  <2>1. /\ call # NoCall /\ call.pc = "rows" /\ OpenThrows /\ lost' = lost \cup {call.db}
        /\ UNCHANGED <<live, conns, stmts>>
    BY <1>5 DEF SqlRowThrows, NoCall, Lose
  <2>2. Counted' /\ TypeOK'
    BY <1>0, <2>1, ThrowOwner, Numbers DEF HandleInv, Counted, TypeOK, NoCall
  <2> QED
    BY <2>1, <2>2, ThrowOwner DEF HandleInv
<1>6. CASE SqlDone
  <2>1. /\ call # NoCall /\ call.pc = "rows" /\ OpenReturns(call.db)
        /\ stmts' = stmts - 1 /\ conns' = conns - 1 /\ UNCHANGED <<live, lost>>
    BY <1>6 DEF SqlDone, NoCall
  <2>2. call.db # NULL
    BY <2>1, HandleAssumption DEF HandleInv, TypeOK
  <2>3. Counted' /\ TypeOK'
    BY <1>0, <2>1, <2>2, ReturnOwner, Numbers DEF HandleInv, Counted, TypeOK, NoCall
  <2> QED
    BY <2>1, <2>2, <2>3, ReturnOwner DEF HandleInv
<1> QED
  BY <1>1, <1>2, <1>3, <1>4, <1>5, <1>6 DEF Load

LEMMA KeepsLookup ==
  ASSUME HandleInv, NEW t \in Tbl, fault = "none", Lookup(t) PROVE HandleInv'
<1>1. /\ call = NoCall /\ told[t] = "open" /\ fault' = Used(_db[t])
      /\ UNCHANGED <<live, conns, stmts, call, _db, told, lost>>
  BY DEF Lookup
<1>2. _db[t] \in live \cup {NULL}
  BY <1>1 DEF HandleInv, OpenLive
<1>3. fault' \in {"none", "null"}
  BY <1>1, <1>2 DEF Used
<1>4. Held' = Held /\ InCall' = InCall
  BY <1>1 DEF Held, InCall
<1> QED
  BY <1>1, <1>3, <1>4
  DEF HandleInv, TypeOK, NeverFreed, OneHolder, LostByFailure, OpenLive, Counted

(* A close takes the table's database, which no other table holds. *)
LEMMA KeepsClose ==
  ASSUME HandleInv, NEW t \in Tbl, fault = "none", Close(t) PROVE HandleInv'
<1>1. /\ call = NoCall /\ told[t] = "open" /\ live' = live \ {_db[t]}
      /\ fault' = IF _db[t] = NULL THEN "none" ELSE Used(_db[t])
      /\ told' = [told EXCEPT ![t] = "closed"]
      /\ UNCHANGED <<conns, stmts, call, _db, lost>>
  BY DEF Close
<1>2. /\ told \in [Tbl -> {"new", "open", "failed", "closed"}]
      /\ _db \in [Tbl -> Handle \cup {NULL, nil}] /\ live \subseteq Handle /\ NULL \notin live
  BY HandleAssumption DEF HandleInv, TypeOK
<1>3. _db[t] \in live \cup {NULL}
  BY <1>1 DEF HandleInv, OpenLive
<1>4. fault' = "none"
  BY <1>1, <1>3 DEF Used
<1>5. \A u \in Tbl : told'[u] = "open" <=> told[u] = "open" /\ u # t
  BY <1>1, <1>2
<1>6. \A u \in Tbl : told'[u] = "open" /\ _db[u] # NULL => _db[u] # _db[t]
  BY <1>1, <1>5 DEF HandleInv, OneHolder
<1>7. Held' = Held \ {_db[t]}
  <2>1. Held' \subseteq Held \ {_db[t]}
    BY <1>1, <1>5, <1>6 DEF Held
  <2>2. Held \ {_db[t]} \subseteq Held'
    BY <1>1, <1>5 DEF Held
  <2> QED
    BY <2>1, <2>2
<1>8. InCall' = {} /\ InCall = {}
  BY <1>1 DEF InCall
<1>9. _db[t] # NULL => _db[t] \in Held
  BY <1>1 DEF Held
<1>10. TypeOK' /\ NeverFreed'
  BY <1>1, <1>2, <1>4 DEF HandleInv, TypeOK, NeverFreed
<1>11. OneHolder'
  BY <1>1, <1>5, <1>7, <1>8 DEF HandleInv, OneHolder
<1>12. LostByFailure'
  <2>1. _db[t] \notin lost
    BY <1>2, <1>9 DEF HandleInv, OneHolder, LostByFailure
  <2> QED
    BY <1>1, <1>7, <1>8, <2>1 DEF HandleInv, LostByFailure
<1>13. OpenLive'
  <2>1. \A u \in Tbl : told'[u] = "open" => _db[u] \in (live \ {_db[t]}) \cup {NULL}
    BY <1>5, <1>6 DEF HandleInv, OpenLive
  <2> QED
    BY <1>1, <2>1 DEF OpenLive
<1>14. Counted'
  BY <1>1 DEF HandleInv, Counted
<1> QED
  BY <1>10, <1>11, <1>12, <1>13, <1>14 DEF HandleInv

LEMMA HandleStep == HandleInv /\ [Next]_vars => HandleInv'
<1> SUFFICES ASSUME HandleInv, [Next]_vars PROVE HandleInv'
  OBVIOUS
<1>1. CASE Next
  BY <1>1, KeepsOpen, KeepsLoad, KeepsLookup, KeepsClose DEF Next
<1>2. CASE UNCHANGED vars
  BY <1>2 DEF vars, script, HandleInv, TypeOK, NeverFreed, OneHolder, LostByFailure,
              OpenLive, Counted, Held, InCall
<1> QED
  BY <1>1, <1>2

LEMMA HandleCorrect == Spec => []HandleInv
BY HandleInit, HandleStep, PTL DEF Spec

-----------------------------------------------------------------------------
(* Every variable keeps its type: no close of a connection or a statement    *)
(* goes without its open (GeoAPI.cpp:375-403).                               *)
THEOREM HandleTypes == Spec => []TypeOK
<1>1. HandleInv => TypeOK
  BY DEF HandleInv
<1> QED
  BY <1>1, HandleCorrect, PTL

(* A script that goes by what open reports never uses a database that is     *)
(* gone, although close leaves _db dangling and addresses are used again     *)
(* (ftrie.lua:62-64).                                                        *)
THEOREM NoUseAfterDelete == Spec => []NeverFreed
<1>1. HandleInv => NeverFreed
  BY DEF HandleInv
<1> QED
  BY <1>1, HandleCorrect, PTL

(* No database has two owners (GeoAPI.cpp:84-87, ftrie.lua:28-38).           *)
THEOREM HandlesHaveOneOwner == Spec => []OneHolder
<1>1. HandleInv => OneHolder
  BY DEF HandleInv
<1> QED
  BY <1>1, HandleCorrect, PTL

(* Only a load that fails leaves a database behind (GeoAPI.cpp:86).          *)
THEOREM OnlyFailuresLose == Spec => []LostByFailure
<1>1. HandleInv => LostByFailure
  BY DEF HandleInv
<1> QED
  BY <1>1, HandleCorrect, PTL

(* Between calls nothing of SQLite is open but what failed loads left, for   *)
(* each at most a connection and its statement (GeoAPI.cpp:375-403).         *)
THEOREM OnlyFailuresLeak == Spec => []LeftByFailure
<1>1. HandleInv => LeftByFailure
  <2> SUFFICES ASSUME HandleInv, call = NoCall
               PROVE  stmts <= conns /\ conns <= Cardinality(lost)
    BY DEF LeftByFailure
  <2>1. call.pc = "none"
    BY DEF NoCall
  <2> QED
    BY <2>1, Numbers DEF HandleInv, Counted
<1> QED
  BY <1>1, HandleCorrect, PTL
=============================================================================
