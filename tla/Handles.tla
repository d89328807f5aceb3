------------------------------- MODULE Handles -------------------------------
(***************************************************************************)
(* The locks of DatabaseDaemon (src/daemon.rs): the mutex of the catalog,   *)
(* the read-write lock of the handle map and one mutex per ManagedDatabase, *)
(* as the worker threads take and release them, and the engine objects that *)
(* are open on each live file.  Agents are the threads; each serves one     *)
(* request after another.                                                   *)
(*                                                                          *)
(* Names are left out: a lookup finds some identifier of the catalog.       *)
(* Listing, selecting and renaming only read or relabel entries while they  *)
(* hold the catalog's mutex and are left out too.  Files and journals are   *)
(* those of CatalogStore and SnapshotRestore; here each call that may fail  *)
(* simply may fail.                                                         *)
(***************************************************************************)
EXTENDS Naturals

CONSTANTS
    Agents, Ids,  \* threads, and identifiers; an identifier is a fresh UUID
    Nobody,       \* no agent
    Slot,         \* the Option of a ManagedDatabase, as an owner of an engine object
    MaxRequests   \* requests over a run

ASSUME HandleMarkers == Nobody \notin Agents /\ Slot \notin Agents /\ MaxRequests \in Nat

VARIABLES
    catalog,     \* the identifiers in the catalog
    map,         \* the keys of the handle map
    holders,     \* who owns an engine object that has the live file of each Database open
    given,       \* identifiers given out
    trashed,     \* Databases whose directory was moved to the trash
    lost,        \* Databases whose drop failed and could not reopen them
    catalogLock, \* the agent that holds the mutex of the catalog
    mapLock,     \* the agent that holds the write lock of the map
    handleLock,  \* the agent that holds the mutex of each handle
    pc, db, op,  \* the next step of each agent, its Database and what it does with it
    requests     \* requests so far

data == <<catalog, map, holders, given, trashed, lost>>
locks == <<catalogLock, mapLock, handleLock>>
vars == <<data, locks, pc, db, op, requests>>

Steps == {"idle", "fetch", "lock", "use", "checkpoint", "reopen", "create", "register",
          "insert", "drop_map", "drop_handle", "drop_checkpoint", "drop_commit", "drop_move",
          "drop_reopen", "drop_put", "drop_insert"}

Init ==
    \E ids \in SUBSET Ids :
       /\ catalog = ids /\ map = ids /\ given = ids
       /\ holders = [i \in Ids |-> IF i \in ids THEN {Slot} ELSE {}]
       /\ trashed = {} /\ lost = {}
       /\ catalogLock = Nobody /\ mapLock = Nobody
       /\ handleLock = [i \in Ids |-> Nobody]
       /\ pc = [a \in Agents |-> "idle"]
       /\ db = [a \in Agents |-> Nobody]
       /\ op = [a \in Agents |-> "use"]
       /\ requests = 0

-----------------------------------------------------------------------------
At(a, here) == pc[a] = here /\ UNCHANGED <<given, requests>>
Go(a, there) == pc' = [pc EXCEPT ![a] = there] /\ UNCHANGED <<db, op>>
Owned(i, set) == holders' = [holders EXCEPT ![i] = set]
Lock(i, a) == handleLock' = [handleLock EXCEPT ![i] = a]

Request(a) ==
    /\ pc[a] = "idle"
    /\ requests < MaxRequests /\ requests' = requests + 1

\* entry and handle_for_selected_id hold the mutex of the catalog for the lookup only;
\* an identifier that is not in the catalog is refused.
Lookup(a, i, kind) ==
    /\ Request(a) /\ catalogLock = Nobody
    /\ i \in catalog
    /\ pc' = [pc EXCEPT ![a] = "fetch"]
    /\ db' = [db EXCEPT ![a] = i] /\ op' = [op EXCEPT ![a] = kind]
    /\ UNCHANGED <<data, locks>>

\* handle: the Arc is cloned under the read lock; without one, database_busy.
Fetch(a) ==
    /\ At(a, "fetch") /\ mapLock = Nobody
    /\ Go(a, IF db[a] \in map THEN "lock" ELSE "idle")
    /\ UNCHANGED <<catalog, map, holders, trashed, lost, locks>>

\* The mutex of the handle; an empty slot is answered database_busy.  A restore takes
\* the engine object out of the slot.
LockHandle(a) ==
    LET i == db[a] IN
    /\ At(a, "lock") /\ handleLock[i] = Nobody
    /\ \/ Slot \notin holders[i] /\ Go(a, "idle") /\ UNCHANGED <<holders, handleLock>>
       \/ /\ Slot \in holders[i] /\ op[a] = "use"
          /\ Lock(i, a) /\ Go(a, "use") /\ UNCHANGED holders
       \/ /\ Slot \in holders[i] /\ op[a] = "restore"
          /\ Lock(i, a) /\ Go(a, "checkpoint")
          /\ Owned(i, (holders[i] \ {Slot}) \cup {a})
    /\ UNCHANGED <<catalog, map, trashed, lost, catalogLock, mapLock>>

\* Mutant: the entry is read again while the handle is locked.
UseAndLookup(a) ==
    /\ At(a, "use") /\ catalogLock = Nobody
    /\ Lock(db[a], Nobody) /\ Go(a, "idle")
    /\ UNCHANGED <<catalog, map, holders, trashed, lost, catalogLock, mapLock>>

\* The rest of a query, an inspection or an export.
Use(a) ==
    /\ At(a, "use")
    /\ Lock(db[a], Nobody) /\ Go(a, "idle")
    /\ UNCHANGED <<catalog, map, holders, trashed, lost, catalogLock, mapLock>>

\* A restore checkpoints the current Database: put back on failure, closed otherwise.
RestoreCheckpoint(a) ==
    LET i == db[a] IN
    /\ At(a, "checkpoint")
    /\ \/ Owned(i, (holders[i] \ {a}) \cup {Slot}) /\ Lock(i, Nobody) /\ Go(a, "idle")
       \/ Owned(i, holders[i] \ {a}) /\ Go(a, "reopen") /\ UNCHANGED handleLock
    /\ UNCHANGED <<catalog, map, trashed, lost, catalogLock, mapLock>>

\* After the renames the file is opened, or the slot stays empty until a restart.
RestoreReopen(a) ==
    LET i == db[a] IN
    /\ At(a, "reopen")
    /\ Owned(i, holders[i] \cup {Slot}) \/ UNCHANGED holders
    /\ Lock(i, Nobody) /\ Go(a, "idle")
    /\ UNCHANGED <<catalog, map, trashed, lost, catalogLock, mapLock>>

-----------------------------------------------------------------------------
\* create_database holds the mutex of the catalog throughout.
Create(a, i) ==
    /\ Request(a) /\ catalogLock = Nobody
    /\ i \notin given /\ given' = given \cup {i}
    /\ catalogLock' = a
    /\ pc' = [pc EXCEPT ![a] = "create"] /\ db' = [db EXCEPT ![a] = i]
    /\ UNCHANGED <<catalog, map, holders, trashed, lost, mapLock, handleLock, op>>

CreateEngine(a) ==
    /\ At(a, "create")
    /\ \/ Owned(db[a], {a}) /\ Go(a, "register") /\ UNCHANGED catalogLock
       \/ catalogLock' = Nobody /\ Go(a, "idle") /\ UNCHANGED holders
    /\ UNCHANGED <<catalog, map, trashed, lost, mapLock, handleLock>>

CreateTransition(a) ==
    /\ At(a, "register")
    /\ \/ /\ catalog' = catalog \cup {db[a]}
          /\ Go(a, "insert") /\ UNCHANGED <<holders, catalogLock>>
       \/ /\ Owned(db[a], holders[db[a]] \ {a})
          /\ catalogLock' = Nobody /\ Go(a, "idle") /\ UNCHANGED catalog
    /\ UNCHANGED <<map, trashed, lost, mapLock, handleLock>>

CreateInsert(a) ==
    LET i == db[a] IN
    /\ At(a, "insert") /\ mapLock = Nobody
    /\ map' = map \cup {i} /\ Owned(i, (holders[i] \ {a}) \cup {Slot})
    /\ catalogLock' = Nobody /\ Go(a, "idle")
    /\ UNCHANGED <<catalog, trashed, lost, mapLock, handleLock>>

-----------------------------------------------------------------------------
\* drop_database takes the catalog, the map and the handle, in this order.
Drop(a, i) ==
    /\ Request(a) /\ catalogLock = Nobody
    /\ i \in catalog /\ i \notin trashed
    /\ catalogLock' = a
    /\ pc' = [pc EXCEPT ![a] = "drop_map"] /\ db' = [db EXCEPT ![a] = i]
    /\ UNCHANGED <<data, mapLock, handleLock, op>>

DropMap(a) ==
    /\ At(a, "drop_map") /\ mapLock = Nobody
    /\ \/ db[a] \in map /\ mapLock' = a /\ Go(a, "drop_handle") /\ UNCHANGED catalogLock
       \/ db[a] \notin map /\ catalogLock' = Nobody /\ Go(a, "idle") /\ UNCHANGED mapLock
    /\ UNCHANGED <<catalog, map, holders, trashed, lost, handleLock>>

\* Mutant: the Database is borrowed from the slot, not taken.
DropHandleBorrows(a) ==
    LET i == db[a] IN
    /\ At(a, "drop_handle") /\ handleLock[i] = Nobody
    /\ Slot \in holders[i] /\ Lock(i, a) /\ Go(a, "drop_checkpoint")
    /\ UNCHANGED <<catalog, map, holders, trashed, lost, catalogLock, mapLock>>

DropHandle(a) ==
    LET i == db[a] IN
    /\ At(a, "drop_handle") /\ handleLock[i] = Nobody
    /\ \/ /\ Slot \in holders[i] /\ Lock(i, a) /\ Go(a, "drop_checkpoint")
          /\ Owned(i, (holders[i] \ {Slot}) \cup {a}) /\ UNCHANGED <<catalogLock, mapLock>>
       \/ /\ Slot \notin holders[i] /\ Go(a, "idle") /\ UNCHANGED <<holders, handleLock>>
          /\ catalogLock' = Nobody /\ mapLock' = Nobody
    /\ UNCHANGED <<catalog, map, trashed, lost>>

\* A failed checkpoint puts the Database back.  Otherwise it is closed, its handle
\* leaves the map, and the two inner locks are released.
DropCheckpoint(a) ==
    LET i == db[a] IN
    /\ At(a, "drop_checkpoint")
    /\ \/ /\ Owned(i, (holders[i] \ {a}) \cup {Slot}) /\ Go(a, "idle")
          /\ catalogLock' = Nobody /\ UNCHANGED map
       \/ /\ Owned(i, holders[i] \ {a}) /\ Go(a, "drop_commit")
          /\ map' = map \ {i} /\ UNCHANGED catalogLock
    /\ mapLock' = Nobody /\ Lock(i, Nobody)
    /\ UNCHANGED <<catalog, trashed, lost>>

DropTransition(a) ==
    /\ At(a, "drop_commit")
    /\ \/ catalog' = catalog \ {db[a]} /\ Go(a, "drop_move")
       \/ UNCHANGED catalog /\ Go(a, "drop_reopen")
    /\ UNCHANGED <<map, holders, trashed, lost, locks>>

\* rename(directory, trash); an error is only reported.
DropMove(a) ==
    /\ At(a, "drop_move")
    /\ trashed' = trashed \cup {db[a]} \/ UNCHANGED trashed
    /\ catalogLock' = Nobody /\ Go(a, "idle")
    /\ UNCHANGED <<catalog, map, holders, lost, mapLock, handleLock>>

\* The transition failed: the file is opened again, with no lock but the catalog's.
DropReopen(a) ==
    LET i == db[a] IN
    /\ At(a, "drop_reopen")
    /\ \/ Owned(i, holders[i] \cup {a}) /\ Go(a, "drop_put") /\ UNCHANGED <<lost, catalogLock>>
       \/ /\ lost' = lost \cup {i} /\ UNCHANGED holders
          /\ catalogLock' = Nobody /\ Go(a, "idle")
    /\ UNCHANGED <<catalog, map, trashed, mapLock, handleLock>>

\* The handle is locked for one assignment; others may still have its Arc.
DropPut(a) ==
    LET i == db[a] IN
    /\ At(a, "drop_put") /\ handleLock[i] = Nobody
    /\ Owned(i, (holders[i] \ {a}) \cup {Slot}) /\ Go(a, "drop_insert")
    /\ UNCHANGED <<catalog, map, trashed, lost, locks>>

\* Mutant: the handle is not put back into the map.
DropForgets(a) ==
    /\ At(a, "drop_insert") /\ mapLock = Nobody
    /\ catalogLock' = Nobody /\ Go(a, "idle")
    /\ UNCHANGED <<catalog, map, holders, trashed, lost, mapLock, handleLock>>

DropInsert(a) ==
    /\ At(a, "drop_insert") /\ mapLock = Nobody
    /\ map' = map \cup {db[a]}
    /\ catalogLock' = Nobody /\ Go(a, "idle")
    /\ UNCHANGED <<catalog, holders, trashed, lost, mapLock, handleLock>>

-----------------------------------------------------------------------------
Step(a) ==
    \/ Fetch(a) \/ LockHandle(a) \/ Use(a) \/ RestoreCheckpoint(a) \/ RestoreReopen(a)
    \/ CreateEngine(a) \/ CreateTransition(a) \/ CreateInsert(a)
    \/ DropMap(a) \/ DropHandle(a) \/ DropCheckpoint(a) \/ DropTransition(a)
    \/ DropMove(a) \/ DropReopen(a) \/ DropPut(a) \/ DropInsert(a)

Start(a, i) == Lookup(a, i, "use") \/ Lookup(a, i, "restore") \/ Create(a, i) \/ Drop(a, i)

Next == \E a \in Agents : Step(a) \/ \E i \in Ids : Start(a, i)

Spec == Init /\ [][Next]_vars

\* A thread that can go on does; a lock is only taken for sure once nobody competes
\* for it, which the bound on requests brings about.
FairSpec == Spec /\ \A a \in Agents : WF_vars(Step(a))

-----------------------------------------------------------------------------
(* Properties.                                                              *)

\* The engine never has the live file of a Database open twice, although a failed
\* drop opens it without the mutex of the handle (daemon.rs:387) while others still
\* have the Arc; and a directory is in the trash only when nothing is open in it.
OpenedOnce ==
    \A i \in Ids : /\ \A x, y \in holders[i] : x = y
                   /\ i \in trashed => holders[i] = {}

\* Whenever the mutex of the catalog is free, the handle map has exactly the entries
\* of the catalog, but for Databases a failed drop could not reopen.
CatalogMapAgree ==
    catalogLock = Nobody => map \subseteq catalog /\ catalog \ lost \subseteq map

\* Every request ends: no two of create, drop, restore and queries wait for each other,
\* although a drop waits for a handle while it holds the catalog and the map
\* (daemon.rs:364).
RequestsEnd == \A a \in Agents : pc[a] # "idle" ~> pc[a] = "idle"

=============================================================================
