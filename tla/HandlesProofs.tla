--------------------------- MODULE HandlesProofs ---------------------------
(***************************************************************************)
(* The engine objects of the daemon (module Handles), for any number of    *)
(* threads and Databases: a Database file is open at most once, the        *)
(* catalog and the handle map agree, and threads never wait in a circle.   *)
(*                                                                         *)
(* None of these is inductive: Inv says which agent holds which lock at    *)
(* which step, and who owns the engine object of a Database meanwhile.     *)
(***************************************************************************)
EXTENDS Handles, TLAPS

CatalogSteps == {"create", "register", "insert", "drop_map", "drop_handle", "drop_checkpoint",
                 "drop_commit", "drop_move", "drop_reopen", "drop_put", "drop_insert"}
MapSteps == {"drop_handle", "drop_checkpoint"}
HandleSteps == {"use", "checkpoint", "reopen", "drop_checkpoint"}

\* The agent has the engine object in a local variable; the file is closed; the
\* handle is out of reach of the others.
Holding == {"checkpoint", "register", "insert", "drop_checkpoint", "drop_put"}
Closed == {"reopen", "create", "drop_commit", "drop_move", "drop_reopen"}
Private == {"create", "register", "insert", "drop_commit", "drop_move", "drop_reopen",
            "drop_put"}
Unmapped == {"insert", "drop_commit", "drop_reopen", "drop_put", "drop_insert"}

Types ==
    /\ catalog \subseteq Ids /\ map \subseteq Ids /\ given \subseteq Ids
    /\ trashed \subseteq Ids /\ lost \subseteq Ids
    /\ holders \in [Ids -> SUBSET (Agents \cup {Slot})]
    /\ catalogLock \in Agents \cup {Nobody} /\ mapLock \in Agents \cup {Nobody}
    /\ handleLock \in [Ids -> Agents \cup {Nobody}]
    /\ pc \in [Agents -> Steps]
    /\ db \in [Agents -> Ids \cup {Nobody}]
    /\ op \in [Agents -> {"use", "restore"}]
    /\ \A a \in Agents : pc[a] # "idle" => db[a] \in Ids

\* Who holds a lock is at a step that holds it, and the other way round.
LocksHeld ==
    /\ \A a \in Agents : catalogLock = a <=> pc[a] \in CatalogSteps
    /\ \A a \in Agents : mapLock = a <=> pc[a] \in MapSteps
    /\ \A a \in Agents, i \in Ids : handleLock[i] = a <=> pc[a] \in HandleSteps /\ db[a] = i

\* One owner of each engine object, and none while the file is closed.
Owners ==
    /\ \A i \in Ids : \A x, y \in holders[i] : x = y
    /\ \A a \in Agents : pc[a] \in Holding => holders[db[a]] = {a}
    /\ \A a \in Agents : pc[a] \in Closed => holders[db[a]] = {}
    /\ \A a \in Agents : pc[a] \in Private => handleLock[db[a]] = Nobody

\* What is not given out yet, or is in the trash, is untouched.
Untouched ==
    /\ \A i \in Ids \ given : /\ holders[i] = {} /\ handleLock[i] = Nobody
                              /\ i \notin catalog \cup trashed
    /\ \A i \in trashed : holders[i] = {} /\ handleLock[i] = Nobody /\ i \notin catalog
    /\ \A a \in Agents : pc[a] \in CatalogSteps => db[a] \in given
    /\ \A a \in Agents : pc[a] \in {"create", "register"} => db[a] \notin trashed \cup catalog
    /\ \A a \in Agents : pc[a] = "drop_move" => db[a] \notin catalog

\* The map lags behind the catalog only for the Database of the lock's holder.
MapFollows ==
    /\ map \subseteq catalog
    /\ \A a \in Agents : pc[a] \in Unmapped => db[a] \notin map
    /\ \A a \in Agents : pc[a] \in CatalogSteps \ {"create", "register", "drop_move"} =>
          db[a] \in catalog
    /\ \A i \in catalog \ lost : i \notin map =>
          /\ catalogLock \in Agents
          /\ pc[catalogLock] \in Unmapped /\ db[catalogLock] = i

Inv == Types /\ LocksHeld /\ Owners /\ Untouched /\ MapFollows

-----------------------------------------------------------------------------
\* Every step keeps the types.
LEMMA TypesKept == Inv /\ Next => Types'
<1> SUFFICES ASSUME Inv, NEW a \in Agents, Step(a) \/ \E i \in Ids : Start(a, i)
             PROVE  Types'
  BY Zenon DEF Next
<1> USE HandleMarkers DEF Inv, At, Go, Owned, Lock, Request, data, locks
<1>1. CASE Fetch(a)
  BY <1>1, Zenon DEF Fetch, Types, Steps
<1>2. CASE LockHandle(a)
  BY <1>2 DEF LockHandle, Types, Steps
<1>3. CASE Use(a)
  BY <1>3, Zenon DEF Use, Types, Steps
<1>4. CASE RestoreCheckpoint(a)
  BY <1>4 DEF RestoreCheckpoint, Types, Steps
<1>5. CASE RestoreReopen(a)
  BY <1>5 DEF RestoreReopen, Types, Steps
<1>6. CASE CreateEngine(a)
  BY <1>6 DEF CreateEngine, Types, Steps
<1>7. CASE CreateTransition(a)
  BY <1>7 DEF CreateTransition, Types, Steps
<1>8. CASE CreateInsert(a)
  BY <1>8, Zenon DEF CreateInsert, Types, Steps
<1>9. CASE DropMap(a)
  BY <1>9 DEF DropMap, Types, Steps
<1>10. CASE DropHandle(a)
  BY <1>10 DEF DropHandle, Types, Steps
<1>11. CASE DropCheckpoint(a)
  BY <1>11 DEF DropCheckpoint, Types, Steps
<1>12. CASE DropTransition(a)
  BY <1>12 DEF DropTransition, Types, Steps
<1>13. CASE DropMove(a)
  BY <1>13, Zenon DEF DropMove, Types, Steps
<1>14. CASE DropReopen(a)
  BY <1>14 DEF DropReopen, Types, Steps
<1>15. CASE DropPut(a)
  BY <1>15, Zenon DEF DropPut, Types, Steps
<1>16. CASE DropInsert(a)
  BY <1>16, Zenon DEF DropInsert, Types, Steps
<1>17. ASSUME NEW i \in Ids, NEW kind \in {"use", "restore"}, Lookup(a, i, kind) PROVE Types'
  BY <1>17, Zenon DEF Lookup, Types, Steps
<1>18. ASSUME NEW i \in Ids, Create(a, i) PROVE Types'
  BY <1>18, Zenon DEF Create, Types, Steps
<1>19. ASSUME NEW i \in Ids, Drop(a, i) PROVE Types'
  BY <1>19, Zenon DEF Drop, Types, Steps
<1> QED
  BY <1>1, <1>2, <1>3, <1>4, <1>5, <1>6, <1>7, <1>8, <1>9, <1>10, <1>11, <1>12, <1>13, <1>14, <1>15, <1>16, <1>17, <1>18, <1>19, Zenon
  DEF Step, Start

\* Every step keeps the account of the locks: a lock is taken when free, and released at the
\* step that leaves its section.
LEMMA LocksHeldKept == Inv /\ Next => LocksHeld'
<1> SUFFICES ASSUME Inv, NEW a \in Agents, Step(a) \/ \E i \in Ids : Start(a, i)
             PROVE  LocksHeld'
  BY Zenon DEF Next
<1> USE HandleMarkers DEF Inv, At, Go, Owned, Lock, Request, data, locks
<1>1. CASE Fetch(a)
  BY <1>1 DEF Fetch, Types, LocksHeld, CatalogSteps, MapSteps, HandleSteps
<1>2. CASE LockHandle(a)
  BY <1>2 DEF LockHandle, Types, LocksHeld, CatalogSteps, MapSteps, HandleSteps
<1>3. CASE Use(a)
  BY <1>3 DEF Use, Types, LocksHeld, CatalogSteps, MapSteps, HandleSteps
<1>4. CASE RestoreCheckpoint(a)
  BY <1>4 DEF RestoreCheckpoint, Types, LocksHeld, CatalogSteps, MapSteps, HandleSteps
<1>5. CASE RestoreReopen(a)
  BY <1>5 DEF RestoreReopen, Types, LocksHeld, CatalogSteps, MapSteps, HandleSteps
<1>6. CASE CreateEngine(a)
  BY <1>6 DEF CreateEngine, Types, LocksHeld, CatalogSteps, MapSteps, HandleSteps
<1>7. CASE CreateTransition(a)
  BY <1>7 DEF CreateTransition, Types, LocksHeld, CatalogSteps, MapSteps, HandleSteps
<1>8. CASE CreateInsert(a)
  BY <1>8 DEF CreateInsert, Types, LocksHeld, CatalogSteps, MapSteps, HandleSteps
<1>9. CASE DropMap(a)
  BY <1>9 DEF DropMap, Types, LocksHeld, CatalogSteps, MapSteps, HandleSteps
<1>10. CASE DropHandle(a)
  BY <1>10 DEF DropHandle, Types, LocksHeld, CatalogSteps, MapSteps, HandleSteps
<1>11. CASE DropCheckpoint(a)
  BY <1>11 DEF DropCheckpoint, Types, LocksHeld, CatalogSteps, MapSteps, HandleSteps
<1>12. CASE DropTransition(a)
  BY <1>12 DEF DropTransition, Types, LocksHeld, CatalogSteps, MapSteps, HandleSteps
<1>13. CASE DropMove(a)
  BY <1>13 DEF DropMove, Types, LocksHeld, CatalogSteps, MapSteps, HandleSteps
<1>14. CASE DropReopen(a)
  BY <1>14 DEF DropReopen, Types, LocksHeld, CatalogSteps, MapSteps, HandleSteps
<1>15. CASE DropPut(a)
  BY <1>15 DEF DropPut, Types, LocksHeld, CatalogSteps, MapSteps, HandleSteps
<1>16. CASE DropInsert(a)
  BY <1>16 DEF DropInsert, Types, LocksHeld, CatalogSteps, MapSteps, HandleSteps
<1>17. ASSUME NEW i \in Ids, NEW kind \in {"use", "restore"}, Lookup(a, i, kind) PROVE LocksHeld'
  BY <1>17 DEF Lookup, Types, LocksHeld, CatalogSteps, MapSteps, HandleSteps
<1>18. ASSUME NEW i \in Ids, Create(a, i) PROVE LocksHeld'
  BY <1>18 DEF Create, Types, LocksHeld, CatalogSteps, MapSteps, HandleSteps
<1>19. ASSUME NEW i \in Ids, Drop(a, i) PROVE LocksHeld'
  BY <1>19 DEF Drop, Types, LocksHeld, CatalogSteps, MapSteps, HandleSteps
<1> QED
  BY <1>1, <1>2, <1>3, <1>4, <1>5, <1>6, <1>7, <1>8, <1>9, <1>10, <1>11, <1>12, <1>13, <1>14, <1>15, <1>16, <1>17, <1>18, <1>19, Zenon
  DEF Step, Start

\* Every step keeps one owner for each engine object: an object is opened only by an agent
\* at a step of Closed, and no two agents are there for the same Database.
LEMMA OwnersKept == Inv /\ Next => Owners'
<1> SUFFICES ASSUME Inv, NEW a \in Agents, Step(a) \/ \E i \in Ids : Start(a, i)
             PROVE  Owners'
  BY Zenon DEF Next
<1> USE HandleMarkers DEF Inv, At, Go, Owned, Lock, Request, data, locks
<1>1. CASE Fetch(a)
  BY <1>1
  DEF Fetch, Types, LocksHeld, Owners, Untouched, CatalogSteps, MapSteps, HandleSteps, Holding,
      Closed, Private
<1>2. CASE LockHandle(a)
  BY <1>2
  DEF LockHandle, Types, LocksHeld, Owners, Untouched, CatalogSteps, MapSteps, HandleSteps,
      Holding, Closed, Private
<1>3. CASE Use(a)
  BY <1>3
  DEF Use, Types, LocksHeld, Owners, Untouched, CatalogSteps, MapSteps, HandleSteps, Holding,
      Closed, Private
<1>4. CASE RestoreCheckpoint(a)
  BY <1>4
  DEF RestoreCheckpoint, Types, LocksHeld, Owners, Untouched, CatalogSteps, MapSteps,
      HandleSteps, Holding, Closed, Private
<1>5. CASE RestoreReopen(a)
  BY <1>5
  DEF RestoreReopen, Types, LocksHeld, Owners, Untouched, CatalogSteps, MapSteps, HandleSteps,
      Holding, Closed, Private
<1>6. CASE CreateEngine(a)
  BY <1>6
  DEF CreateEngine, Types, LocksHeld, Owners, Untouched, CatalogSteps, MapSteps, HandleSteps,
      Holding, Closed, Private
<1>7. CASE CreateTransition(a)
  BY <1>7
  DEF CreateTransition, Types, LocksHeld, Owners, Untouched, CatalogSteps, MapSteps,
      HandleSteps, Holding, Closed, Private
<1>8. CASE CreateInsert(a)
  BY <1>8
  DEF CreateInsert, Types, LocksHeld, Owners, Untouched, CatalogSteps, MapSteps, HandleSteps,
      Holding, Closed, Private
<1>9. CASE DropMap(a)
  BY <1>9
  DEF DropMap, Types, LocksHeld, Owners, Untouched, CatalogSteps, MapSteps, HandleSteps,
      Holding, Closed, Private
<1>10. CASE DropHandle(a)
  BY <1>10
  DEF DropHandle, Types, LocksHeld, Owners, Untouched, CatalogSteps, MapSteps, HandleSteps,
      Holding, Closed, Private
<1>11. CASE DropCheckpoint(a)
  BY <1>11
  DEF DropCheckpoint, Types, LocksHeld, Owners, Untouched, CatalogSteps, MapSteps, HandleSteps,
      Holding, Closed, Private
<1>12. CASE DropTransition(a)
  BY <1>12
  DEF DropTransition, Types, LocksHeld, Owners, Untouched, CatalogSteps, MapSteps, HandleSteps,
      Holding, Closed, Private
<1>13. CASE DropMove(a)
  BY <1>13
  DEF DropMove, Types, LocksHeld, Owners, Untouched, CatalogSteps, MapSteps, HandleSteps,
      Holding, Closed, Private
<1>14. CASE DropReopen(a)
  BY <1>14
  DEF DropReopen, Types, LocksHeld, Owners, Untouched, CatalogSteps, MapSteps, HandleSteps,
      Holding, Closed, Private
<1>15. CASE DropPut(a)
  BY <1>15
  DEF DropPut, Types, LocksHeld, Owners, Untouched, CatalogSteps, MapSteps, HandleSteps,
      Holding, Closed, Private
<1>16. CASE DropInsert(a)
  BY <1>16
  DEF DropInsert, Types, LocksHeld, Owners, Untouched, CatalogSteps, MapSteps, HandleSteps,
      Holding, Closed, Private
<1>17. ASSUME NEW i \in Ids, NEW kind \in {"use", "restore"}, Lookup(a, i, kind) PROVE Owners'
  BY <1>17
  DEF Lookup, Types, LocksHeld, Owners, Untouched, CatalogSteps, MapSteps, HandleSteps,
      Holding, Closed, Private
<1>18. ASSUME NEW i \in Ids, Create(a, i) PROVE Owners'
  BY <1>18
  DEF Create, Types, LocksHeld, Owners, Untouched, CatalogSteps, MapSteps, HandleSteps,
      Holding, Closed, Private
<1>19. ASSUME NEW i \in Ids, Drop(a, i) PROVE Owners'
  BY <1>19
  DEF Drop, Types, LocksHeld, Owners, Untouched, CatalogSteps, MapSteps, HandleSteps, Holding,
      Closed, Private
<1> QED
  BY <1>1, <1>2, <1>3, <1>4, <1>5, <1>6, <1>7, <1>8, <1>9, <1>10, <1>11, <1>12, <1>13, <1>14, <1>15, <1>16, <1>17, <1>18, <1>19, Zenon
  DEF Step, Start

\* Every step leaves alone what is not given out, or in the trash.
LEMMA UntouchedKept == Inv /\ Next => Untouched'
<1> SUFFICES ASSUME Inv, NEW a \in Agents, Step(a) \/ \E i \in Ids : Start(a, i)
             PROVE  Untouched'
  BY Zenon DEF Next
<1> USE HandleMarkers DEF Inv, At, Go, Owned, Lock, Request, data, locks
<1>1. CASE Fetch(a)
  BY <1>1
  DEF Fetch, Types, LocksHeld, Owners, Untouched, MapFollows, CatalogSteps, MapSteps,
      HandleSteps, Holding, Closed, Private
<1>2. CASE LockHandle(a)
  BY <1>2
  DEF LockHandle, Types, LocksHeld, Owners, Untouched, MapFollows, CatalogSteps, MapSteps,
      HandleSteps, Holding, Closed, Private
<1>3. CASE Use(a)
  BY <1>3
  DEF Use, Types, LocksHeld, Owners, Untouched, MapFollows, CatalogSteps, MapSteps,
      HandleSteps, Holding, Closed, Private
<1>4. CASE RestoreCheckpoint(a)
  BY <1>4
  DEF RestoreCheckpoint, Types, LocksHeld, Owners, Untouched, MapFollows, CatalogSteps,
      MapSteps, HandleSteps, Holding, Closed, Private
<1>5. CASE RestoreReopen(a)
  BY <1>5
  DEF RestoreReopen, Types, LocksHeld, Owners, Untouched, MapFollows, CatalogSteps, MapSteps,
      HandleSteps, Holding, Closed, Private
<1>6. CASE CreateEngine(a)
  BY <1>6
  DEF CreateEngine, Types, LocksHeld, Owners, Untouched, MapFollows, CatalogSteps, MapSteps,
      HandleSteps, Holding, Closed, Private
<1>7. CASE CreateTransition(a)
  BY <1>7
  DEF CreateTransition, Types, LocksHeld, Owners, Untouched, MapFollows, CatalogSteps,
      MapSteps, HandleSteps, Holding, Closed, Private
<1>8. CASE CreateInsert(a)
  BY <1>8
  DEF CreateInsert, Types, LocksHeld, Owners, Untouched, MapFollows, CatalogSteps, MapSteps,
      HandleSteps, Holding, Closed, Private
<1>9. CASE DropMap(a)
  BY <1>9
  DEF DropMap, Types, LocksHeld, Owners, Untouched, MapFollows, CatalogSteps, MapSteps,
      HandleSteps, Holding, Closed, Private
<1>10. CASE DropHandle(a)
  BY <1>10
  DEF DropHandle, Types, LocksHeld, Owners, Untouched, MapFollows, CatalogSteps, MapSteps,
      HandleSteps, Holding, Closed, Private
<1>11. CASE DropCheckpoint(a)
  BY <1>11
  DEF DropCheckpoint, Types, LocksHeld, Owners, Untouched, MapFollows, CatalogSteps, MapSteps,
      HandleSteps, Holding, Closed, Private
<1>12. CASE DropTransition(a)
  BY <1>12
  DEF DropTransition, Types, LocksHeld, Owners, Untouched, MapFollows, CatalogSteps, MapSteps,
      HandleSteps, Holding, Closed, Private
<1>13. CASE DropMove(a)
  BY <1>13
  DEF DropMove, Types, LocksHeld, Owners, Untouched, MapFollows, CatalogSteps, MapSteps,
      HandleSteps, Holding, Closed, Private
<1>14. CASE DropReopen(a)
  BY <1>14
  DEF DropReopen, Types, LocksHeld, Owners, Untouched, MapFollows, CatalogSteps, MapSteps,
      HandleSteps, Holding, Closed, Private
<1>15. CASE DropPut(a)
  BY <1>15
  DEF DropPut, Types, LocksHeld, Owners, Untouched, MapFollows, CatalogSteps, MapSteps,
      HandleSteps, Holding, Closed, Private
<1>16. CASE DropInsert(a)
  BY <1>16
  DEF DropInsert, Types, LocksHeld, Owners, Untouched, MapFollows, CatalogSteps, MapSteps,
      HandleSteps, Holding, Closed, Private
<1>17. ASSUME NEW i \in Ids, NEW kind \in {"use", "restore"}, Lookup(a, i, kind) PROVE Untouched'
  BY <1>17
  DEF Lookup, Types, LocksHeld, Owners, Untouched, MapFollows, CatalogSteps, MapSteps,
      HandleSteps, Holding, Closed, Private
<1>18. ASSUME NEW i \in Ids, Create(a, i) PROVE Untouched'
  BY <1>18
  DEF Create, Types, LocksHeld, Owners, Untouched, MapFollows, CatalogSteps, MapSteps,
      HandleSteps, Holding, Closed, Private
<1>19. ASSUME NEW i \in Ids, Drop(a, i) PROVE Untouched'
  BY <1>19
  DEF Drop, Types, LocksHeld, Owners, Untouched, MapFollows, CatalogSteps, MapSteps,
      HandleSteps, Holding, Closed, Private
<1> QED
  BY <1>1, <1>2, <1>3, <1>4, <1>5, <1>6, <1>7, <1>8, <1>9, <1>10, <1>11, <1>12, <1>13, <1>14, <1>15, <1>16, <1>17, <1>18, <1>19, Zenon
  DEF Step, Start

\* Every step keeps the map in line with the catalog.
LEMMA MapFollowsKept == Inv /\ Next => MapFollows'
<1> SUFFICES ASSUME Inv, NEW a \in Agents, Step(a) \/ \E i \in Ids : Start(a, i)
             PROVE  MapFollows'
  BY Zenon DEF Next
<1> USE HandleMarkers DEF Inv, At, Go, Owned, Lock, Request, data, locks
<1>1. CASE Fetch(a)
  BY <1>1
  DEF Fetch, Types, LocksHeld, Untouched, MapFollows, CatalogSteps, MapSteps, HandleSteps,
      Unmapped
<1>2. CASE LockHandle(a)
  BY <1>2
  DEF LockHandle, Types, LocksHeld, Untouched, MapFollows, CatalogSteps, MapSteps, HandleSteps,
      Unmapped
<1>3. CASE Use(a)
  BY <1>3
  DEF Use, Types, LocksHeld, Untouched, MapFollows, CatalogSteps, MapSteps, HandleSteps,
      Unmapped
<1>4. CASE RestoreCheckpoint(a)
  BY <1>4
  DEF RestoreCheckpoint, Types, LocksHeld, Untouched, MapFollows, CatalogSteps, MapSteps,
      HandleSteps, Unmapped
<1>5. CASE RestoreReopen(a)
  BY <1>5
  DEF RestoreReopen, Types, LocksHeld, Untouched, MapFollows, CatalogSteps, MapSteps,
      HandleSteps, Unmapped
<1>6. CASE CreateEngine(a)
  BY <1>6
  DEF CreateEngine, Types, LocksHeld, Untouched, MapFollows, CatalogSteps, MapSteps,
      HandleSteps, Unmapped
<1>7. CASE CreateTransition(a)
  BY <1>7
  DEF CreateTransition, Types, LocksHeld, Untouched, MapFollows, CatalogSteps, MapSteps,
      HandleSteps, Unmapped
<1>8. CASE CreateInsert(a)
  BY <1>8
  DEF CreateInsert, Types, LocksHeld, Untouched, MapFollows, CatalogSteps, MapSteps,
      HandleSteps, Unmapped
<1>9. CASE DropMap(a)
  BY <1>9
  DEF DropMap, Types, LocksHeld, Untouched, MapFollows, CatalogSteps, MapSteps, HandleSteps,
      Unmapped
<1>10. CASE DropHandle(a)
  BY <1>10
  DEF DropHandle, Types, LocksHeld, Untouched, MapFollows, CatalogSteps, MapSteps, HandleSteps,
      Unmapped
<1>11. CASE DropCheckpoint(a)
  BY <1>11
  DEF DropCheckpoint, Types, LocksHeld, Untouched, MapFollows, CatalogSteps, MapSteps,
      HandleSteps, Unmapped
<1>12. CASE DropTransition(a)
  BY <1>12
  DEF DropTransition, Types, LocksHeld, Untouched, MapFollows, CatalogSteps, MapSteps,
      HandleSteps, Unmapped
<1>13. CASE DropMove(a)
  BY <1>13
  DEF DropMove, Types, LocksHeld, Untouched, MapFollows, CatalogSteps, MapSteps, HandleSteps,
      Unmapped
<1>14. CASE DropReopen(a)
  BY <1>14
  DEF DropReopen, Types, LocksHeld, Untouched, MapFollows, CatalogSteps, MapSteps, HandleSteps,
      Unmapped
<1>15. CASE DropPut(a)
  BY <1>15
  DEF DropPut, Types, LocksHeld, Untouched, MapFollows, CatalogSteps, MapSteps, HandleSteps,
      Unmapped
<1>16. CASE DropInsert(a)
  BY <1>16
  DEF DropInsert, Types, LocksHeld, Untouched, MapFollows, CatalogSteps, MapSteps, HandleSteps,
      Unmapped
<1>17. ASSUME NEW i \in Ids, NEW kind \in {"use", "restore"}, Lookup(a, i, kind) PROVE MapFollows'
  BY <1>17
  DEF Lookup, Types, LocksHeld, Untouched, MapFollows, CatalogSteps, MapSteps, HandleSteps,
      Unmapped
<1>18. ASSUME NEW i \in Ids, Create(a, i) PROVE MapFollows'
  BY <1>18
  DEF Create, Types, LocksHeld, Untouched, MapFollows, CatalogSteps, MapSteps, HandleSteps,
      Unmapped
<1>19. ASSUME NEW i \in Ids, Drop(a, i) PROVE MapFollows'
  BY <1>19
  DEF Drop, Types, LocksHeld, Untouched, MapFollows, CatalogSteps, MapSteps, HandleSteps,
      Unmapped
<1> QED
  BY <1>1, <1>2, <1>3, <1>4, <1>5, <1>6, <1>7, <1>8, <1>9, <1>10, <1>11, <1>12, <1>13, <1>14, <1>15, <1>16, <1>17, <1>18, <1>19, Zenon
  DEF Step, Start

\* Inv holds initially and is kept by every step, and by none at all.
LEMMA Invariance == Spec => []Inv
<1>1. Init => Inv
  BY HandleMarkers DEF Init, Inv, Types, LocksHeld, Owners, Untouched, MapFollows, Steps,
     CatalogSteps, MapSteps, HandleSteps, Holding, Closed, Private, Unmapped
<1>2. Inv /\ [Next]_vars => Inv'
  <2>1. CASE Next
    BY <2>1, TypesKept, LocksHeldKept, OwnersKept, UntouchedKept, MapFollowsKept, Zenon DEF Inv
  <2>2. CASE UNCHANGED vars
    BY <2>2 DEF vars, data, locks, Inv, Types, LocksHeld, Owners, Untouched, MapFollows
  <2> QED
    BY <2>1, <2>2, Zenon
<1> QED
  BY <1>1, <1>2, PTL DEF Spec

\* The live file of a Database is never open twice, and never once it is in the trash,
\* however many threads query, restore, create and drop.
THEOREM SingleOpen == Spec => []OpenedOnce
<1>1. Inv => OpenedOnce
  BY Zenon DEF Inv, Owners, Untouched, OpenedOnce, Types
<1> QED
  BY <1>1, Invariance, PTL

\* Whenever the mutex of the catalog is free, the handle map has the entries of the
\* catalog, but for those a failed drop lost.
THEOREM Agreement == Spec => []CatalogMapAgree
<1>1. Inv => CatalogMapAgree
  BY HandleMarkers, Zenon DEF Inv, MapFollows, CatalogMapAgree
<1> QED
  BY <1>1, Invariance, PTL

-----------------------------------------------------------------------------
\* Agent a waits for a lock that b holds: the guard of Start for an idle agent, of Fetch,
\* CreateInsert, DropMap and DropInsert, and of LockHandle, DropHandle and DropPut.
WaitsFor(a, b) ==
    \/ pc[a] = "idle" /\ catalogLock = b
    \/ pc[a] \in {"fetch", "insert", "drop_map", "drop_insert"} /\ mapLock = b
    \/ pc[a] \in {"lock", "drop_handle", "drop_put"} /\ handleLock[db[a]] = b

\* Threads never wait in a circle, and a chain of waits has at most two links: the one a
\* thread waits for waits, if at all, for one that waits for nobody.
ShortWaits ==
    \A a, b, c, d \in Agents : ~(WaitsFor(a, b) /\ WaitsFor(b, c) /\ WaitsFor(c, d))

\* The order in which the locks are taken: who holds a handle waits for nothing, and who
\* holds the catalog or the map waits only for a handle or, with the catalog alone, for
\* the map, which nobody else then holds.
LEMMA LockOrder ==
    ASSUME Inv, NEW a \in Agents, NEW b \in Agents, WaitsFor(a, b)
    PROVE  pc[b] \in HandleSteps \/ (b = catalogLock /\ pc[a] \notin CatalogSteps)
<1>1. CASE pc[a] = "idle" /\ catalogLock = b
  BY <1>1 DEF CatalogSteps
<1>2. CASE pc[a] \in {"fetch", "insert", "drop_map", "drop_insert"} /\ mapLock = b
  <2>1. pc[b] \in MapSteps
    BY <1>2, Zenon DEF Inv, LocksHeld
  <2>2. catalogLock = b
    BY <2>1 DEF Inv, LocksHeld, MapSteps, CatalogSteps
  <2>3. pc[a] \notin MapSteps
    BY <1>2 DEF MapSteps
  <2>4. a # b
    BY <2>1, <2>3, Zenon
  <2>5. catalogLock # a
    BY <2>2, <2>4, Zenon
  <2>6. pc[a] \notin CatalogSteps
    BY <2>5, Zenon DEF Inv, LocksHeld
  <2> QED
    BY <2>2, <2>6, Zenon
<1>3. CASE pc[a] \in {"lock", "drop_handle", "drop_put"} /\ handleLock[db[a]] = b
  <2>1. db[a] \in Ids
    BY <1>3 DEF Inv, Types
  <2> QED
    BY <1>3, <2>1, Zenon DEF Inv, LocksHeld
<1> QED
  BY <1>1, <1>2, <1>3, Zenon DEF WaitsFor

\* No deadlock: however many threads create, drop, restore and query, no thread waits,
\* through whatever chain of catalog, map and handle locks, for itself, although a drop
\* waits for a handle while it holds the catalog and the map.
THEOREM NoCircularWait == Spec => []ShortWaits
<1>1. ASSUME Inv, NEW a \in Agents, NEW b \in Agents, pc[a] \in HandleSteps
      PROVE  ~WaitsFor(a, b)
  BY <1>1 DEF WaitsFor, HandleSteps
<1>2. ASSUME Inv, NEW a \in Agents, NEW b \in Agents, NEW c \in Agents, NEW d \in Agents,
             WaitsFor(a, b), WaitsFor(b, c), WaitsFor(c, d)
      PROVE  FALSE
  <2>1. pc[b] \notin HandleSteps /\ pc[c] \notin HandleSteps
    BY <1>1, <1>2, Zenon
  <2>2. b = catalogLock /\ c = catalogLock
    BY <1>2, <2>1, LockOrder, Zenon
  <2>3. pc[b] \in CatalogSteps
    BY <1>2, <2>2, Zenon DEF Inv, LocksHeld
  <2>4. pc[b] \notin CatalogSteps
    BY <1>2, <2>1, LockOrder, Zenon
  <2> QED
    BY <2>3, <2>4, Zenon
<1>3. Inv => ShortWaits
  BY <1>2, Zenon DEF ShortWaits
<1> QED
  BY <1>3, Invariance, PTL
=============================================================================
