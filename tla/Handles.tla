------------------------------- MODULE Handles -------------------------------
(***************************************************************************)
(* The life of a handle of the C interface (GeoAPI.cpp: GeoIP_new,         *)
(* GeoIP_open, GeoIP_load, GeoIP_delete), of the SQLite connection inside  *)
(* GeoIP_load, and the LuaJIT wrapper that holds handles (ftrie.lua).  A   *)
(* load goes step by step, since it can fail at each.  What a handle       *)
(* contains is module GeoAPI.                                              *)
(*                                                                         *)
(* The caller is a script with some FTrie tables.  It goes by what open    *)
(* tells it: it looks up in a table and closes it only after an open that  *)
(* reported success, and opens a table again only after closing it.        *)
(***************************************************************************)
EXTENDS Integers, FiniteSets

CONSTANTS
  Handle,        \* addresses that `new CGeoDB' may return
  Tbl,           \* tables made by FTrie.new()
  NULL,          \* the null pointer
  nil            \* Lua's nil

ASSUME HandleAssumption == NULL \notin Handle /\ nil \notin Handle /\ NULL # nil

VARIABLES
  live,          \* allocated databases
  conns, stmts,  \* open SQLite connections and statements
  call,          \* the running GeoIP_open, or NoCall
  _db,           \* the field _db of each table
  told,          \* what the script knows of each table
  fault,         \* a use of a pointer that refers to no database
  lost           \* history: databases that failed loads left behind

vars == <<live, conns, stmts, call, _db, told, fault, lost>>
script == <<_db, told, fault>>

NoCall == [pc |-> "none"]

Init ==
  /\ live = {}
  /\ conns = 0 /\ stmts = 0
  /\ call = NoCall
  /\ _db = [t \in Tbl |-> nil]
  /\ told = [t \in Tbl |-> "new"]
  /\ fault = "none"
  /\ lost = {}

-----------------------------------------------------------------------------
(* GeoIP_open: GeoIP_new, and into GeoIP_load. *)
Open(t) ==
  /\ call = NoCall
  /\ told[t] # "open"
  /\ \E h \in Handle \ live :
       /\ live' = live \cup {h}
       /\ call' = [pc |-> "load", tbl |-> t, db |-> h]
  /\ UNCHANGED <<conns, stmts, script, lost>>

(* Lua's truth: nil is false, a null pointer is not. *)
IsTrue(v) == v # nil

(* The end of `open' in ftrie.lua, with what GeoIP_open returned.  Its       *)
(* failure branch sets another field, tbl.db.                                *)
OpenReturns(result) ==
  /\ _db' = [_db EXCEPT ![call.tbl] = IF IsTrue(result) THEN result ELSE @]
  /\ told' = [told EXCEPT ![call.tbl] = IF IsTrue(result) THEN "open" ELSE "failed"]
  /\ call' = NoCall
  /\ UNCHANGED fault

(* An exception passes through GeoIP_load and open to the script. *)
OpenThrows ==
  /\ told' = [told EXCEPT ![call.tbl] = "failed"]
  /\ call' = NoCall
  /\ UNCHANGED <<_db, fault>>

(* The database that GeoIP_open made is out of reach. *)
Lose == lost' = lost \cup {call.db}

(* Mutant: the database is deleted, and returned all the same. *)
LoadRejectsDeletes ==
  /\ call.pc = "load"
  /\ OpenReturns(call.db)
  /\ live' = live \ {call.db}
  /\ UNCHANGED <<conns, stmts, lost>>

(* No kind of file has this name: GeoIP_load returns nullptr. *)
LoadRejects ==
  /\ call.pc = "load"
  /\ OpenReturns(NULL)
  /\ Lose
  /\ UNCHANGED <<live, conns, stmts>>

(* A text file: LoadBlocks and LoadNames return, or throw where a file is    *)
(* missing or a number cannot be parsed.                                     *)
LoadText ==
  /\ call.pc = "load"
  /\ \/ OpenReturns(call.db) /\ UNCHANGED lost
     \/ OpenThrows /\ Lose
  /\ UNCHANGED <<live, conns, stmts>>

(* sqlite3_open_v2 hands out a connection also when it fails. *)
SqlOpen ==
  /\ call.pc = "load"
  /\ conns' = conns + 1
  /\ \/ call' = [call EXCEPT !.pc = "prepare"] /\ UNCHANGED <<script, lost>>
     \/ OpenReturns(NULL) /\ Lose
  /\ UNCHANGED <<live, stmts>>

SqlPrepare ==
  /\ call.pc = "prepare"
  /\ \/ /\ stmts' = stmts + 1
        /\ call' = [call EXCEPT !.pc = "rows"]
        /\ UNCHANGED <<conns, script, lost>>
     \/ /\ conns' = conns - 1
        /\ OpenReturns(NULL) /\ Lose
        /\ UNCHANGED stmts
  /\ UNCHANGED live

(* A row is stored (nothing changes here), or its text is NULL and           *)
(* std::string throws past sqlite3_finalize and sqlite3_close.               *)
SqlRowThrows ==
  /\ call.pc = "rows"
  /\ OpenThrows /\ Lose
  /\ UNCHANGED <<live, conns, stmts>>

(* Mutant: sqlite3_close is called twice. *)
SqlDoneTwice ==
  /\ call.pc = "rows"
  /\ stmts' = stmts - 1 /\ conns' = conns - 2
  /\ OpenReturns(call.db)
  /\ UNCHANGED <<live, lost>>

(* Mutant: sqlite3_close is forgotten. *)
SqlDoneOpen ==
  /\ call.pc = "rows"
  /\ stmts' = stmts - 1
  /\ OpenReturns(call.db)
  /\ UNCHANGED <<live, conns, lost>>

(* sqlite3_step returned something else than a row. *)
SqlDone ==
  /\ call.pc = "rows"
  /\ stmts' = stmts - 1 /\ conns' = conns - 1
  /\ OpenReturns(call.db)
  /\ UNCHANGED <<live, lost>>

-----------------------------------------------------------------------------
Used(pointer) ==
  IF pointer \in live THEN "none" ELSE IF pointer \in {NULL, nil} THEN "null" ELSE "freed"

(* lookup_key, lookup_dotted: the strings are copied before they return. *)
Lookup(t) ==
  /\ call = NoCall
  /\ told[t] = "open"
  /\ fault' = Used(_db[t])
  /\ UNCHANGED <<live, conns, stmts, call, _db, told, lost>>

(* Mutant: GeoIP_delete deletes a void pointer. *)
CloseVoid(t) ==
  /\ call = NoCall
  /\ told[t] = "open"
  /\ told' = [told EXCEPT ![t] = "closed"]
  /\ UNCHANGED <<live, conns, stmts, call, _db, fault, lost>>

(* close: GeoIP_delete, which takes a null pointer.  _db stays as it is. *)
Close(t) ==
  /\ call = NoCall
  /\ told[t] = "open"
  /\ live' = live \ {_db[t]}
  /\ fault' = IF _db[t] = NULL THEN "none" ELSE Used(_db[t])
  /\ told' = [told EXCEPT ![t] = "closed"]
  /\ UNCHANGED <<conns, stmts, call, _db, lost>>

Load == LoadRejects \/ LoadText \/ SqlOpen \/ SqlPrepare \/ SqlRowThrows \/ SqlDone

Next ==
  /\ fault = "none"
  /\ (\E t \in Tbl : Open(t) \/ Lookup(t) \/ Close(t)) \/ Load

Spec == Init /\ [][Next]_vars

-----------------------------------------------------------------------------
(* The databases that an open table, or the running call, refers to. *)
Held == {_db[t] : t \in {u \in Tbl : told[u] = "open"}} \ {NULL}
InCall == IF call = NoCall THEN {} ELSE {call.db}

(* Types of the variables. *)
TypeOK ==
  /\ live \subseteq Handle
  /\ conns \in Nat /\ stmts \in Nat
  /\ call \in {NoCall} \cup [pc : {"load", "prepare", "rows"}, tbl : Tbl, db : Handle]
  /\ _db \in [Tbl -> Handle \cup {NULL, nil}]
  /\ told \in [Tbl -> {"new", "open", "failed", "closed"}]
  /\ fault \in {"none", "null", "freed"}
  /\ lost \subseteq Handle

(* Although close leaves _db as it was (ftrie.lua:62-64), and addresses are  *)
(* used again, a script that goes by what open reports never looks up in a   *)
(* database that is gone and never deletes one twice.                        *)
NeverFreed == fault # "freed"

(* Each database has one owner: two open tables never share one, and one     *)
(* that is lost is not held.                                                 *)
OneHolder ==
  /\ \A t, u \in Tbl : told[t] = "open" /\ told[u] = "open" /\ _db[t] = _db[u] /\ _db[t] # NULL
                         => t = u
  /\ Held \cap InCall = {} /\ lost \cap (Held \cup InCall) = {}

(* Every database is held, or was lost by a GeoIP_open whose load failed     *)
(* (GeoAPI.cpp:86): closing what one has opened gives all the rest back.     *)
LostByFailure == live = Held \cup InCall \cup lost

(* A load that returns its database has closed what it opened in SQLite.     *)
(* One that fails leaves at most a connection and a statement open, with the *)
(* database that it loses, through any number of opens (GeoAPI.cpp:375-403). *)
(* It does leave them where the file cannot be opened or a column is NULL,   *)
(* although sqlite3.h:3188-3190 wants a connection closed in either case.    *)
LeftByFailure == call = NoCall => stmts <= conns /\ conns <= Cardinality(lost)

(* open reports success only for a database that is there: "return true or   *)
(* false,errmsg" (ftrie.lua:27).                                             *)
OpenTellsTruth == \A t \in Tbl : told[t] = "open" => _db[t] \in live
=============================================================================
