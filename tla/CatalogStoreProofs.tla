------------------------- MODULE CatalogStoreProofs -------------------------
(***************************************************************************)
(* What CatalogStore keeps, for any IDs, names and set of failing calls,   *)
(* any number of operations, faults, crashes and restarts: the types and   *)
(* the inductive invariant, the theorems that follow from it, and that     *)
(* CatalogStore implements AtomicCatalog.                                  *)
(*                                                                         *)
(* The steps of a transition and of startup have one lemma for each        *)
(* conjunct of the invariant, with one case for each step.  The one        *)
(* assumption, for all but the types, is Reliable: the rename which puts   *)
(* server-state.previous back does not fail (catalog.rs:443, 450).         *)
(***************************************************************************)
EXTENDS CatalogStore, TLAPS

Ops == [kind : Kinds, id : Ids, next : Catalogs]

\* TypeOK is not inductive alone: a file is created in a directory that is there
\* and empty, and what is renamed or read as a catalog is one.
Typed ==
    /\ TypeOK
    /\ pc = "create_storage" => op.id \in directory \ storage
    /\ pc \in {"remove_previous", "preserve", "install"} => pending = op.next
    /\ pc = "load_state" => state # Absent

\* Catalogs and journals are whole values, never a missing or a torn file.
LEMMA Distinct ==
    /\ Absent # Torn /\ Absent \notin Catalogs /\ Torn \notin Catalogs
    /\ Absent \notin Journals /\ Torn \notin Journals /\ NoOp \notin Ops
    /\ NoName \notin Names
BY NameAssumption, FileAssumption, OpAssumption DEF Ops

\* Changing one entry of a catalog gives a catalog and changes what is known by at
\* most that entry (the closures that create, rename and drop pass to transition).
LEMMA Changed ==
    ASSUME NEW c \in Catalogs, NEW id \in Ids, NEW n \in Names \cup {NoName}
    PROVE  /\ [c EXCEPT ![id] = n] \in Catalogs
           /\ Known([c EXCEPT ![id] = n]) \subseteq Known(c) \cup {id}
           /\ Known(c) \ {id} \subseteq Known([c EXCEPT ![id] = n])
           /\ id \in Known([c EXCEPT ![id] = n]) <=> n # NoName
BY DEF Catalogs, Known

\* initialize writes a catalog without entries.
LEMMA EmptyIsCatalog ==
    EmptyCatalog \in Catalogs /\ Known(EmptyCatalog) = {} /\ ValidCatalog(EmptyCatalog)
BY DEF EmptyCatalog, Catalogs, Known, ValidCatalog

\* A data directory that initialize has made is well typed.
LEMMA InitTypes == Init => Typed
BY EmptyIsCatalog, Distinct, Zenon
   DEF Init, Typed, TypeOK, Working, Committing, Loading, Resting, Refusals

\* Accepting or rejecting a lifecycle request keeps the types.
LEMMA RequestTypes ==
    ASSUME Typed, Request PROVE Typed'
<1> USE DEF Working, Committing, Loading, Resting, Typed, TypeOK, Rejected, disk
<1>1. ASSUME NEW n \in Names, CreateDatabase(n) PROVE Typed'
  <2>1. CASE Rejected
    BY <2>1, <1>1 DEF CreateDatabase
  <2>2. CASE ~Rejected
    <3>1. PICK id \in Fresh :
             /\ directory' = directory \cup {id}
             /\ op' = [kind |-> "create", id |-> id, next |-> [catalog EXCEPT ![id] = n]]
             /\ pc' = "create_storage" /\ reply' = "none"
             /\ UNCHANGED <<state, pending, previous, journal, interrupted,
                            storage, trash, failed, orphans, catalog, handles, refusal>>
      BY <1>1, <2>2 DEF CreateDatabase
    <3>2. id \in Ids /\ id \notin directory BY DEF Fresh
    <3>3. op' \in Ops BY <3>1, <3>2, Changed, Zenon DEF Ops, Kinds
    <3>4. op' # NoOp BY <3>3, Distinct, Zenon
    <3>5. op'.id = id BY <3>1
    <3> QED BY <3>1, <3>2, <3>3, <3>4, <3>5, Zenon DEF Ops
  <2> QED BY <2>1, <2>2
<1>2. ASSUME NEW n \in Names, DropDatabase(n) PROVE Typed'
  <2>1. CASE Rejected
    BY <2>1, <1>2 DEF DropDatabase
  <2>2. CASE ~Rejected
    <3>1. PICK id \in Known(catalog) :
             /\ handles' = handles \ {id}
             /\ op' = [kind |-> "drop", id |-> id, next |-> [catalog EXCEPT ![id] = NoName]]
             /\ pc' = "write_journal" /\ reply' = "none"
             /\ UNCHANGED <<disk, catalog, refusal>>
      BY <1>2, <2>2 DEF DropDatabase
    <3>2. id \in Ids BY DEF Known
    <3>3. op' \in Ops BY <3>1, <3>2, Changed, Zenon DEF Ops, Kinds
    <3> QED BY <1>2, <3>1, <3>3, Distinct, Zenon DEF Ops
  <2> QED BY <2>1, <2>2
<1>3. ASSUME NEW n \in Names, NEW m \in Names, RenameDatabase(n, m) PROVE Typed'
  <2>1. CASE Rejected
    BY <2>1, <1>3 DEF RenameDatabase
  <2>2. CASE ~Rejected
    <3>1. /\ \E id \in Known(catalog) :
               op' = [kind |-> "rename", id |-> id, next |-> [catalog EXCEPT ![id] = m]]
          /\ pc' = "write_journal" /\ reply' = "none"
          /\ UNCHANGED <<disk, catalog, handles, refusal>>
      BY <1>3, <2>2 DEF RenameDatabase
    <3>2. PICK id \in Known(catalog) :
             op' = [kind |-> "rename", id |-> id, next |-> [catalog EXCEPT ![id] = m]]
      BY <3>1, Zenon
    <3>3. id \in Ids BY DEF Known
    <3>4. op' \in Ops BY <3>2, <3>3, Changed, Zenon DEF Ops, Kinds
    <3>5. op' # NoOp BY <3>4, Distinct, Zenon
    <3> QED BY <3>1, <3>4, <3>5, Zenon DEF Ops
  <2> QED BY <2>1, <2>2
<1> QED BY <1>1, <1>2, <1>3 DEF Request

\* Every step of a transition and of startup keeps the types.
LEMMA StepTypes ==
    ASSUME Typed, Step PROVE Typed'
<1> USE Distinct DEF Working, Committing, Loading, Resting, Typed, TypeOK, Ops, Untouched, disk
<1>1. CASE CreateStorage BY <1>1 DEF CreateStorage
<1>2. CASE CreateJournal BY <1>2 DEF CreateJournal
<1>3. CASE FillJournal BY <1>3 DEF FillJournal, Journals
<1>4. CASE CreatePending BY <1>4 DEF CreatePending
<1>5. CASE FillPending BY <1>5 DEF FillPending
<1>6. CASE RemovePrevious BY <1>6 DEF RemovePrevious
<1>7. CASE Preserve BY <1>7 DEF Preserve
<1>8. CASE Install BY <1>8 DEF Install
<1>9. CASE RollbackPending BY <1>9 DEF RollbackPending
<1>10. CASE Sync BY <1>10 DEF Sync
<1>11. CASE RollbackSync BY <1>11 DEF RollbackSync
<1>12. CASE RollbackState BY <1>12 DEF RollbackState
<1>13. CASE Forget BY <1>13 DEF Forget, Kinds
<1>14. CASE Unjournal BY <1>14, Zenon DEF Unjournal
<1>15. CASE Undo BY <1>15 DEF Undo, Answer
<1>16. CASE Commit BY <1>16 DEF Commit, Answer
<1>17. CASE Finish BY <1>17 DEF Finish, Answer
<1>18. CASE LoadPrevious BY <1>18 DEF LoadPrevious
<1>19. CASE LoadPending
  <2>1. interrupted' \in BOOLEAN BY <1>19, Zenon DEF LoadPending
  <2>2. CASE pc' = "load_stale" /\ UNCHANGED refusal
    BY <1>19, <2>1, <2>2 DEF LoadPending
  <2>3. CASE Refuse("interrupted")
    BY <1>19, <2>1, <2>3 DEF LoadPending, Refuse, Refusals
  <2> QED BY <1>19, <2>2, <2>3 DEF LoadPending
<1>20. CASE LoadStale BY <1>20 DEF LoadStale, Refuse, Refusals
<1>21. CASE LoadState BY <1>21 DEF LoadState, Refuse, Refusals
<1>22. CASE LoadJournal BY <1>22 DEF LoadJournal, Refuse, Refusals, JournalProblem
<1>23. CASE LoadUnjournal BY <1>23 DEF LoadUnjournal
<1>24. CASE LoadOrphans
  <2>1. /\ directory' \subseteq directory /\ storage' \subseteq directory'
        /\ orphans' \subseteq Ids /\ pc = "load_orphans"
        /\ UNCHANGED <<state, pending, previous, journal, interrupted, trash, failed, catalog,
                       handles, op, reply>>
    BY <1>24, Zenon DEF LoadOrphans, Strays
  <2>2. pc' \in {"load_orphans", "open", "refused"} /\ refusal' \in Refusals
    BY <1>24, Zenon DEF LoadOrphans, Refuse, Refusals
  <2>3. /\ op = NoOp /\ pc' \notin Working \cup Committing
        /\ pc' \in Loading \cup Resting /\ pc' # "load_state"
    BY <2>1, <2>2
  <2> HIDE DEF Working, Committing, Loading, Resting
  <2>4. TypeOK' BY <2>1, <2>2, <2>3, Zenon
  <2> QED BY <2>2, <2>4, Zenon
<1>25. CASE Open BY <1>25 DEF Open, Known
<1>26. CASE StartupFault BY <1>26 DEF StartupFault, Refuse, Refusals
<1> QED
  BY Zenon, <1>1, <1>2, <1>3, <1>4, <1>5, <1>6, <1>7, <1>8, <1>9, <1>10, <1>11, <1>12, <1>13,
    <1>14, <1>15, <1>16, <1>17, <1>18, <1>19, <1>20, <1>21, <1>22, <1>23, <1>24, <1>25,
    <1>26 DEF Step, Transition, Load

\* Starting, dying and doing nothing keep the types.
LEMMA RestTypes ==
    ASSUME Typed, Start \/ Crash \/ UNCHANGED vars PROVE Typed'
<1>1. CASE Start
  BY <1>1 DEF Start, Typed, TypeOK, disk, Working, Committing, Loading, Resting, Refusals
<1>2. CASE Crash
  BY <1>2, EmptyIsCatalog
  DEF Crash, Typed, TypeOK, disk, Working, Committing, Loading, Resting
<1>3. CASE UNCHANGED vars
  BY <1>3 DEF Typed, TypeOK, vars, disk, memory
<1> QED BY <1>1, <1>2, <1>3

\* Types, whatever calls fail: TypeOK holds in every reachable state.
THEOREM Types == Spec => []TypeOK
<1>1. Typed /\ [Next]_vars => Typed'
  <2> SUFFICES ASSUME Typed, [Next]_vars PROVE Typed'
    OBVIOUS
  <2>1. CASE Request BY <2>1, RequestTypes
  <2>2. CASE Step BY <2>2, StepTypes
  <2>3. CASE Start \/ Crash \/ UNCHANGED vars BY <2>3, RestTypes
  <2> QED BY <2>1, <2>2, <2>3 DEF Next
<1>2. Typed => TypeOK BY DEF Typed
<1> QED BY <1>1, <1>2, InitTypes, PTL DEF Spec

\* The rename that puts server-state.previous back does not fail.
Reliable == "rollback_state" \notin FailingCalls

Good(c) == c \in Catalogs /\ ValidCatalog(c) /\ Known(c) \subseteq storage

\* A directory that was moved away is not in the active tree as well.
Apart == directory \cap (trash \cup orphans) = {}

\* server-state is missing only inside write_atomic, or after a crash there.
StatePresent ==
    state = Absent => pc \in {"install", "rollback_pending", "rollback_state",
                              "down", "refused", "load_previous"}

\* What the files hold while the process is at each step.
FilesMatch ==
    /\ pc \in {"idle", "create_storage", "write_journal", "fill_journal",
               "write_pending", "fill_pending", "remove_previous", "preserve",
               "unjournal", "undo", "commit", "finish", "load_journal",
               "load_unjournal", "load_orphans", "open"} => catalog = state
    /\ pc \in {"install", "rollback_pending"} => state = Absent
    /\ pc \in {"install", "rollback_pending", "sync", "rollback_sync",
               "rollback_state"} => previous = catalog
    /\ pc = "rollback_state" => state \in {Absent, op.next}
    /\ pc \in {"sync", "rollback_sync"} \cup Committing => state = op.next

\* The catalog in memory during an operation could be put back, and the one the
\* operation asks for could be installed.
OperationGood ==
    /\ pc \in Working => Good(catalog)
    /\ pc \in Working \cup {"forget"} =>
         /\ Known(op.next) \subseteq Known(catalog) \cup {op.id}
         /\ Known(catalog) \ {op.id} \subseteq Known(op.next)
         /\ op.kind = "create" => op.id \notin Known(catalog)
         /\ op.kind = "drop" => op.id \in Known(catalog)
    /\ pc \in Working \cup Committing =>
         /\ op.kind = "create" => op.id \in directory
         /\ op.kind \in {"create", "rename"} => op.id \in Known(op.next)
         /\ op.kind = "drop" => op.id \notin Known(op.next) \cup handles
    /\ pc \in (Working \ {"create_storage"}) \cup Committing =>
         Known(op.next) \subseteq storage
    /\ pc \in (Working \ {"create_storage", "write_journal", "undo"})
              \cup Committing => ValidCatalog(op.next)
    /\ pc = "create_storage" => op.kind = "create"

\* A journal that parses names the durable catalog as one of its two sides.
JournalGood ==
    /\ journal \in Journals =>
         /\ Durable \in {journal.before, journal.after}
         /\ journal.kind = "drop" => journal.id \notin Known(journal.after)
         /\ journal.kind = "create" => journal.id \in Known(journal.after)
    /\ pc \in {"write_pending", "fill_pending", "remove_previous", "preserve",
               "install", "rollback_pending", "sync", "rollback_sync",
               "rollback_state", "unjournal", "forget"} =>
         journal = [kind |-> op.kind, id |-> op.id,
                    before |-> catalog, after |-> op.next]
    /\ pc = "fill_journal" => journal = Torn

HandlesGood ==
    /\ handles \subseteq Known(catalog)
    /\ pc \in Loading \cup {"down", "refused"} => handles = {}

\* The inductive invariant.
IInv == /\ Typed
        /\ Good(Durable)
        /\ Apart
        /\ StatePresent
        /\ FilesMatch
        /\ OperationGood
        /\ JournalGood
        /\ HandlesGood
        /\ RefusesOnlyUnreadable

\* The durable catalog stays good: renames only move good catalogs, and storage
\* goes only where no durable entry needs it.
LEMMA GoodStep ==
    ASSUME Reliable, IInv, Step PROVE Good(Durable)'
<1> USE Distinct DEF IInv, Working, Committing, Loading, Untouched, disk, Good,
    Durable, StatePresent, FilesMatch, OperationGood
<1>1. CASE UNCHANGED <<state, previous, storage>> BY <1>1
<1>2. CASE CreateStorage BY <1>2 DEF CreateStorage
<1>3. CASE RemovePrevious BY <1>3 DEF RemovePrevious
<1>4. CASE Preserve BY <1>4, Zenon DEF Preserve
<1>5. CASE Install BY <1>5, Zenon DEF Install, Typed, TypeOK
<1>6. CASE RollbackSync BY <1>6, Zenon DEF RollbackSync
<1>7. CASE RollbackState BY <1>7, Zenon DEF RollbackState, Reliable, MayFail
<1>8. CASE Forget BY <1>8, Zenon DEF Forget, Kinds
<1>9. CASE Undo BY <1>9, Zenon DEF Undo, Answer
<1>10. CASE Commit BY <1>10, Zenon DEF Commit, Answer
<1>11. CASE LoadPrevious BY <1>11, Zenon DEF LoadPrevious
<1>12. CASE LoadStale BY <1>12, Zenon DEF LoadStale, Refuse
<1>13. CASE LoadJournal
  <2>1. Durable' = Durable /\ catalog = Durable
    BY <1>13, Zenon DEF LoadJournal
  <2>2. CASE storage' = storage
    BY <2>1, <2>2, Zenon
  <2>3. CASE storage' # storage
    <3>1. /\ journal # Torn /\ journal # Absent /\ catalog = journal.after
          /\ journal.kind = "drop" /\ storage' = storage \ {journal.id}
      BY <1>13, <2>3, Zenon DEF LoadJournal, JournalProblem
    <3>2. journal.id \notin Known(Durable)
      BY <2>1, <3>1, Zenon DEF JournalGood, Typed, TypeOK
    <3> QED BY <2>1, <3>1, <3>2, Zenon
  <2> QED BY <2>2, <2>3, Zenon
<1>14. CASE LoadOrphans BY <1>14, Zenon DEF LoadOrphans, Strays, Refuse
<1> QED BY Zenon, <1>1, <1>2, <1>3, <1>4, <1>5, <1>6, <1>7, <1>8, <1>9, <1>10, <1>11,
    <1>12, <1>13, <1>14
    DEF Step, Transition, Load, CreateJournal, FillJournal, CreatePending,
        FillPending, RollbackPending, Sync, Unjournal, Finish, LoadPending,
        LoadState, LoadUnjournal, Open, StartupFault, Answer, Refuse

\* Every move to the trash or aside takes the directory out of the active tree.
LEMMA ApartStep ==
    ASSUME Reliable, IInv, Step PROVE Apart'
<1> USE Distinct DEF IInv, Working, Committing, Loading, Untouched, disk, Apart
<1>1. CASE UNCHANGED <<directory, trash, orphans>> BY <1>1, Zenon
<1>2. CASE CreateStorage BY <1>2, Zenon DEF CreateStorage
<1>3. CASE Undo BY <1>3, Zenon DEF Undo, Answer
<1>4. CASE Commit BY <1>4, Zenon DEF Commit, Answer
<1>5. CASE LoadJournal BY <1>5, Zenon DEF LoadJournal, Refuse, JournalProblem
<1>6. CASE LoadOrphans BY <1>6, Zenon DEF LoadOrphans, Strays, Refuse
<1> QED BY Zenon, <1>1, <1>2, <1>3, <1>4, <1>5, <1>6
    DEF Step, Transition, Load, CreateJournal, FillJournal, CreatePending,
        FillPending, RemovePrevious, Preserve, Install, RollbackPending, Sync,
        RollbackSync, RollbackState, Forget, Unjournal, Finish, LoadPrevious,
        LoadPending, LoadStale, LoadState, LoadUnjournal, Open, StartupFault,
        Answer, Refuse

\* Whoever renames server-state away puts it back or a new one in its place.
LEMMA StatePresentStep ==
    ASSUME Reliable, IInv, Step PROVE StatePresent'
<1> USE Distinct DEF IInv, Working, Committing, Loading, Untouched, disk,
    StatePresent, FilesMatch
<1>1. CASE CreateStorage BY <1>1, Zenon DEF CreateStorage
<1>2. CASE CreateJournal BY <1>2, Zenon DEF CreateJournal
<1>3. CASE FillJournal BY <1>3, Zenon DEF FillJournal
<1>4. CASE CreatePending BY <1>4, Zenon DEF CreatePending
<1>5. CASE FillPending BY <1>5, Zenon DEF FillPending
<1>6. CASE RemovePrevious BY <1>6, Zenon DEF RemovePrevious
<1>7. CASE Preserve BY <1>7, Zenon DEF Preserve
<1>8. CASE Install BY <1>8, Zenon DEF Install, Typed, TypeOK
<1>9. CASE RollbackPending BY <1>9, Zenon DEF RollbackPending
<1>10. CASE Sync BY <1>10, Zenon DEF Sync
<1>11. CASE RollbackSync BY <1>11, Zenon DEF RollbackSync
<1>12. CASE RollbackState BY <1>12, Zenon DEF RollbackState, Reliable, MayFail, Typed, TypeOK
<1>13. CASE Forget BY <1>13, Zenon DEF Forget, Kinds
<1>14. CASE Unjournal BY <1>14, Zenon DEF Unjournal
<1>15. CASE Undo BY <1>15, Zenon DEF Undo, Answer
<1>16. CASE Commit BY <1>16, Zenon DEF Commit, Answer
<1>17. CASE Finish BY <1>17, Zenon DEF Finish, Answer
<1>18. CASE LoadPrevious BY <1>18, Zenon DEF LoadPrevious, Good, Durable
<1>19. CASE LoadPending BY <1>19, Zenon DEF LoadPending, Refuse
<1>20. CASE LoadStale BY <1>20, Zenon DEF LoadStale, Refuse
<1>21. CASE LoadState BY <1>21, Zenon DEF LoadState, Refuse
<1>22. CASE LoadJournal BY <1>22, Zenon DEF LoadJournal, Refuse, JournalProblem
<1>23. CASE LoadUnjournal BY <1>23, Zenon DEF LoadUnjournal
<1>24. CASE LoadOrphans BY <1>24, Zenon DEF LoadOrphans, Strays, Refuse
<1>25. CASE Open BY <1>25, Zenon DEF Open
<1>26. CASE StartupFault BY <1>26, Zenon DEF StartupFault, Refuse
<1> QED BY Zenon, <1>1, <1>2, <1>3, <1>4, <1>5, <1>6, <1>7, <1>8, <1>9, <1>10, <1>11,
    <1>12, <1>13, <1>14, <1>15, <1>16, <1>17, <1>18, <1>19, <1>20, <1>21, <1>22,
    <1>23, <1>24, <1>25, <1>26
    DEF Step, Transition, Load

\* The two catalog files follow the steps of write_atomic and of load.
LEMMA FilesMatchStep ==
    ASSUME Reliable, IInv, Step PROVE FilesMatch'
<1> USE Distinct DEF IInv, Working, Committing, Loading, Untouched, disk,
    FilesMatch, StatePresent
<1>1. CASE CreateStorage BY <1>1, Zenon DEF CreateStorage
<1>2. CASE CreateJournal BY <1>2, Zenon DEF CreateJournal
<1>3. CASE FillJournal BY <1>3, Zenon DEF FillJournal
<1>4. CASE CreatePending BY <1>4, Zenon DEF CreatePending
<1>5. CASE FillPending BY <1>5, Zenon DEF FillPending
<1>6. CASE RemovePrevious BY <1>6, Zenon DEF RemovePrevious
<1>7. CASE Preserve BY <1>7, Zenon DEF Preserve
<1>8. CASE Install BY <1>8, Zenon DEF Install, Typed, TypeOK
<1>9. CASE RollbackPending BY <1>9, Zenon DEF RollbackPending
<1>10. CASE Sync BY <1>10, Zenon DEF Sync
<1>11. CASE RollbackSync BY <1>11, Zenon DEF RollbackSync
<1>12. CASE RollbackState BY <1>12, Zenon DEF RollbackState, Reliable, MayFail
<1>13. CASE Forget BY <1>13, Zenon DEF Forget, Kinds
<1>14. CASE Unjournal BY <1>14, Zenon DEF Unjournal
<1>15. CASE Undo BY <1>15, Zenon DEF Undo, Answer
<1>16. CASE Commit BY <1>16, Zenon DEF Commit, Answer
<1>17. CASE Finish BY <1>17, Zenon DEF Finish, Answer
<1>18. CASE LoadPrevious BY <1>18, Zenon DEF LoadPrevious
<1>19. CASE LoadPending BY <1>19, Zenon DEF LoadPending, Refuse
<1>20. CASE LoadStale BY <1>20, Zenon DEF LoadStale, Refuse
<1>21. CASE LoadState BY <1>21, Zenon DEF LoadState, Refuse
<1>22. CASE LoadJournal BY <1>22, Zenon DEF LoadJournal, Refuse, JournalProblem
<1>23. CASE LoadUnjournal BY <1>23, Zenon DEF LoadUnjournal
<1>24. CASE LoadOrphans BY <1>24, Zenon DEF LoadOrphans, Strays, Refuse
<1>25. CASE Open BY <1>25, Zenon DEF Open
<1>26. CASE StartupFault BY <1>26, Zenon DEF StartupFault, Refuse
<1> QED BY Zenon, <1>1, <1>2, <1>3, <1>4, <1>5, <1>6, <1>7, <1>8, <1>9, <1>10, <1>11,
    <1>12, <1>13, <1>14, <1>15, <1>16, <1>17, <1>18, <1>19, <1>20, <1>21, <1>22,
    <1>23, <1>24, <1>25, <1>26
    DEF Step, Transition, Load

-----------------------------------------------------------------------------
(* The operation in progress, its journal, the handles, and the theorems.   *)

\* Old and new catalog of the operation under way both stay fit to be the durable
\* one.
LEMMA OperationStep ==
    ASSUME Reliable, IInv, Step PROVE OperationGood'
<1> USE Distinct DEF IInv, Working, Committing, Loading, Untouched, disk,
    OperationGood, FilesMatch, Good, Durable, StatePresent
<1>1. CASE CreateStorage BY <1>1, Zenon DEF CreateStorage
<1>2. CASE CreateJournal BY <1>2, Zenon DEF CreateJournal
<1>3. CASE FillJournal BY <1>3, Zenon DEF FillJournal
<1>4. CASE CreatePending BY <1>4, Zenon DEF CreatePending
<1>5. CASE FillPending BY <1>5, Zenon DEF FillPending
<1>6. CASE RemovePrevious BY <1>6, Zenon DEF RemovePrevious
<1>7. CASE Preserve BY <1>7, Zenon DEF Preserve
<1>8. CASE Install BY <1>8, Zenon DEF Install
<1>9. CASE RollbackPending BY <1>9, Zenon DEF RollbackPending
<1>10. CASE Sync BY <1>10, Zenon DEF Sync
<1>11. CASE RollbackSync BY <1>11, Zenon DEF RollbackSync
<1>12. CASE RollbackState BY <1>12, Zenon DEF RollbackState, Reliable, MayFail
<1>13. CASE Forget BY <1>13, Zenon DEF Forget, Kinds
<1>14. CASE Unjournal BY <1>14, Zenon DEF Unjournal
<1>15. CASE Undo BY <1>15, Zenon DEF Undo, Answer
<1>16. CASE Commit BY <1>16, Zenon DEF Commit, Answer
<1>17. CASE Finish BY <1>17, Zenon DEF Finish, Answer
<1>18. CASE LoadPrevious BY <1>18, Zenon DEF LoadPrevious
<1>19. CASE LoadPending BY <1>19, Zenon DEF LoadPending, Refuse
<1>20. CASE LoadStale BY <1>20, Zenon DEF LoadStale, Refuse
<1>21. CASE LoadState BY <1>21, Zenon DEF LoadState, Refuse
<1>22. CASE LoadJournal BY <1>22, Zenon DEF LoadJournal, Refuse, JournalProblem
<1>23. CASE LoadUnjournal BY <1>23, Zenon DEF LoadUnjournal
<1>24. CASE LoadOrphans BY <1>24, Zenon DEF LoadOrphans, Strays, Refuse
<1>25. CASE Open BY <1>25, Zenon DEF Open
<1>26. CASE StartupFault BY <1>26, Zenon DEF StartupFault, Refuse
<1> QED BY Zenon, <1>1, <1>2, <1>3, <1>4, <1>5, <1>6, <1>7, <1>8, <1>9, <1>10, <1>11,
    <1>12, <1>13, <1>14, <1>15, <1>16, <1>17, <1>18, <1>19, <1>20, <1>21, <1>22,
    <1>23, <1>24, <1>25, <1>26
    DEF Step, Transition, Load

\* A journal keeps naming the durable catalog, also one that could not be
\* removed.
LEMMA JournalStep ==
    ASSUME Reliable, IInv, Step PROVE JournalGood'
<1> USE Distinct DEF IInv, Working, Committing, Loading, Untouched, disk,
    JournalGood, FilesMatch, Durable, StatePresent
<1>0. ASSUME pc \in {"install", "rollback_sync", "rollback_state"}
      PROVE  journal.before = catalog /\ journal.after = op.next /\ catalog # Absent
  <2>1. journal = [kind |-> op.kind, id |-> op.id, before |-> catalog, after |-> op.next]
    BY <1>0, Zenon
  <2>2. catalog # Absent BY Zenon DEF Typed, TypeOK
  <2> QED BY <2>1, <2>2
<1>1. CASE CreateStorage BY <1>1, Zenon DEF CreateStorage
<1>2. CASE CreateJournal BY <1>2, Zenon DEF CreateJournal
<1>3. CASE FillJournal
  <2>1. CASE journal' = [kind |-> op.kind, id |-> op.id, before |-> catalog, after |-> op.next]
    <3>1. /\ journal'.kind = op.kind /\ journal'.id = op.id
          /\ journal'.before = catalog /\ journal'.after = op.next
      BY <2>1, Zenon
    <3> QED BY <1>3, <3>1, Zenon DEF FillJournal, OperationGood
  <2>2. CASE journal' = Absent \/ UNCHANGED journal BY <1>3, <2>2, Zenon DEF FillJournal
  <2> QED BY <1>3, <2>1, <2>2, Zenon DEF FillJournal
<1>4. CASE CreatePending BY <1>4, Zenon DEF CreatePending
<1>5. CASE FillPending BY <1>5, Zenon DEF FillPending
<1>6. CASE RemovePrevious BY <1>6, Zenon DEF RemovePrevious
<1>7. CASE Preserve BY <1>7, Zenon DEF Preserve
<1>8. CASE Install
  <2>1. pending = op.next /\ op.next # Absent /\ catalog # Absent
    BY <1>8, Zenon DEF Install, Typed, TypeOK
  <2>2. Durable' \in {catalog, op.next} /\ UNCHANGED <<op, journal, catalog>>
    BY <1>8, <2>1, Zenon DEF Install
  <2>3. journal.before = catalog /\ journal.after = op.next BY <1>0, <1>8, Zenon DEF Install
  <2> QED BY <1>8, <2>2, <2>3, Zenon DEF Install
<1>9. CASE RollbackPending BY <1>9, Zenon DEF RollbackPending
<1>10. CASE Sync BY <1>10, Zenon DEF Sync
<1>11. CASE RollbackSync
  <2>1. journal.before = catalog /\ journal.after = op.next BY <1>0, <1>11, Zenon DEF RollbackSync
  <2>2. Durable' \in {catalog, op.next} BY <1>11, Zenon DEF RollbackSync
  <2> QED BY <1>11, <2>1, <2>2, Zenon DEF RollbackSync
<1>12. CASE RollbackState
  <2>1. journal.before = catalog /\ catalog # Absent BY <1>0, <1>12, Zenon DEF RollbackState
  <2>2. Durable' = catalog BY <1>12, <2>1, Zenon DEF RollbackState, Reliable, MayFail
  <2> QED BY <1>12, <2>1, <2>2, Zenon DEF RollbackState
<1>13. CASE Forget BY <1>13, Zenon DEF Forget, Kinds
<1>14. CASE Unjournal BY <1>14, Zenon DEF Unjournal
<1>15. CASE Undo BY <1>15, Zenon DEF Undo, Answer
<1>16. CASE Commit BY <1>16, Zenon DEF Commit, Answer
<1>17. CASE Finish BY <1>17, Zenon DEF Finish, Answer
<1>18. CASE LoadPrevious BY <1>18, Zenon DEF LoadPrevious
<1>19. CASE LoadPending BY <1>19, Zenon DEF LoadPending, Refuse
<1>20. CASE LoadStale BY <1>20, Zenon DEF LoadStale, Refuse
<1>21. CASE LoadState BY <1>21, Zenon DEF LoadState, Refuse
<1>22. CASE LoadJournal BY <1>22, Zenon DEF LoadJournal, Refuse, JournalProblem
<1>23. CASE LoadUnjournal BY <1>23, Zenon DEF LoadUnjournal
<1>24. CASE LoadOrphans BY <1>24, Zenon DEF LoadOrphans, Strays, Refuse
<1>25. CASE Open BY <1>25, Zenon DEF Open
<1>26. CASE StartupFault BY <1>26, Zenon DEF StartupFault, Refuse
<1> QED BY Zenon, <1>1, <1>2, <1>3, <1>4, <1>5, <1>6, <1>7, <1>8, <1>9, <1>10, <1>11,
    <1>12, <1>13, <1>14, <1>15, <1>16, <1>17, <1>18, <1>19, <1>20, <1>21, <1>22,
    <1>23, <1>24, <1>25, <1>26
    DEF Step, Transition, Load

\* Handles are published after their entry and closed before it goes.
LEMMA HandlesStep ==
    ASSUME Reliable, IInv, Step PROVE HandlesGood'
<1> USE Distinct DEF IInv, Working, Committing, Loading, Untouched, disk,
    HandlesGood, OperationGood, FilesMatch
<1>1. CASE CreateStorage BY <1>1, Zenon DEF CreateStorage
<1>2. CASE CreateJournal BY <1>2, Zenon DEF CreateJournal
<1>3. CASE FillJournal BY <1>3, Zenon DEF FillJournal
<1>4. CASE CreatePending BY <1>4, Zenon DEF CreatePending
<1>5. CASE FillPending BY <1>5, Zenon DEF FillPending
<1>6. CASE RemovePrevious BY <1>6, Zenon DEF RemovePrevious
<1>7. CASE Preserve BY <1>7, Zenon DEF Preserve
<1>8. CASE Install BY <1>8, Zenon DEF Install
<1>9. CASE RollbackPending BY <1>9, Zenon DEF RollbackPending
<1>10. CASE Sync BY <1>10, Zenon DEF Sync
<1>11. CASE RollbackSync BY <1>11, Zenon DEF RollbackSync
<1>12. CASE RollbackState BY <1>12, Zenon DEF RollbackState, Reliable, MayFail
<1>13. CASE Forget BY <1>13, Zenon DEF Forget, Kinds, Typed, TypeOK
<1>14. CASE Unjournal BY <1>14, Zenon DEF Unjournal
<1>15. CASE Undo BY <1>15, Zenon DEF Undo, Answer
<1>16. CASE Commit BY <1>16, Zenon DEF Commit, Answer
<1>17. CASE Finish BY <1>17, Zenon DEF Finish, Answer
<1>18. CASE LoadPrevious BY <1>18, Zenon DEF LoadPrevious
<1>19. CASE LoadPending BY <1>19, Zenon DEF LoadPending, Refuse
<1>20. CASE LoadStale BY <1>20, Zenon DEF LoadStale, Refuse
<1>21. CASE LoadState BY <1>21, Zenon DEF LoadState, Refuse
<1>22. CASE LoadJournal BY <1>22, Zenon DEF LoadJournal, Refuse, JournalProblem
<1>23. CASE LoadUnjournal BY <1>23, Zenon DEF LoadUnjournal
<1>24. CASE LoadOrphans BY <1>24, Zenon DEF LoadOrphans, Strays, Refuse
<1>25. CASE Open BY <1>25, Zenon DEF Open
<1>26. CASE StartupFault BY <1>26, Zenon DEF StartupFault, Refuse
<1> QED BY Zenon, <1>1, <1>2, <1>3, <1>4, <1>5, <1>6, <1>7, <1>8, <1>9, <1>10, <1>11,
    <1>12, <1>13, <1>14, <1>15, <1>16, <1>17, <1>18, <1>19, <1>20, <1>21, <1>22,
    <1>23, <1>24, <1>25, <1>26
    DEF Step, Transition, Load

\* No check of load fails on a data directory that satisfies the invariant.
LEMMA RefusalStep ==
    ASSUME Reliable, IInv, Step PROVE RefusesOnlyUnreadable'
<1> USE Distinct DEF IInv, Working, Committing, Loading, Untouched, disk,
    RefusesOnlyUnreadable, Good, Durable, Apart, JournalGood, FilesMatch,
    StatePresent
<1>1. CASE UNCHANGED refusal BY <1>1, Zenon
<1>2. CASE LoadPending BY <1>2, Zenon DEF LoadPending, Refuse
<1>3. CASE LoadStale BY <1>3, Zenon DEF LoadStale, Refuse
<1>4. CASE LoadState BY <1>4, Zenon DEF LoadState, Refuse
<1>5. CASE LoadJournal BY <1>5, Zenon DEF LoadJournal, Refuse, JournalProblem, Typed, TypeOK
<1>6. CASE LoadOrphans BY <1>6, Zenon DEF LoadOrphans, Strays, Refuse
<1>7. CASE StartupFault BY <1>7, Zenon DEF StartupFault, Refuse
<1> QED BY Zenon, <1>1, <1>2, <1>3, <1>4, <1>5, <1>6, <1>7
    DEF Step, Transition, Load, CreateStorage, CreateJournal, FillJournal,
        CreatePending, FillPending, RemovePrevious, Preserve, Install,
        RollbackPending, Sync, RollbackSync, RollbackState, Forget, Unjournal, Undo,
        Commit, Finish, LoadPrevious, LoadUnjournal, Open, Answer, Refuse

\* A step of an operation or of startup preserves the invariant.
LEMMA StepInductive ==
    ASSUME Reliable, IInv, Step PROVE IInv'
BY StepTypes, GoodStep, ApartStep, StatePresentStep, FilesMatchStep, OperationStep,
   JournalStep, HandlesStep, RefusalStep, Zenon DEF IInv

\* Steps that only answer change nothing the invariant speaks of.
LEMMA Quiet ==
    ASSUME IInv, Typed', UNCHANGED <<disk, catalog, handles, op, pc, refusal>>
    PROVE  IInv'
<1> USE DEF Working, Committing, Loading, disk
<1>1. Good(Durable)' BY Zenon DEF IInv, Good, Durable
<1>2. Apart' BY Zenon DEF IInv, Apart
<1>3. StatePresent' BY Zenon DEF IInv, StatePresent
<1>4. FilesMatch' BY Zenon DEF IInv, FilesMatch
<1>5. OperationGood'
  BY Zenon DEF IInv, Good, Durable, StatePresent, FilesMatch, OperationGood, HandlesGood
<1>6. JournalGood' BY Zenon DEF IInv, JournalGood, Durable
<1>7. HandlesGood' BY Zenon DEF IInv, HandlesGood
<1>8. RefusesOnlyUnreadable' BY Zenon DEF IInv, RefusesOnlyUnreadable
<1> QED BY Zenon, <1>1, <1>2, <1>3, <1>4, <1>5, <1>6, <1>7, <1>8 DEF IInv

\* The part of a request before its transition preserves the invariant.
LEMMA RequestInductive ==
    ASSUME Reliable, IInv, Request PROVE IInv'
<1> Typed' BY RequestTypes, Zenon DEF IInv
<1> catalog \in Catalogs BY Zenon DEF IInv, Typed, TypeOK
<1>1. ASSUME NEW n \in Names, CreateDatabase(n) PROVE IInv'
  <2>1. CASE Rejected
    BY <2>1, Quiet, Zenon DEF Rejected
  <2>2. CASE ~Rejected
    <3>1. PICK id \in Fresh :
             /\ directory' = directory \cup {id}
             /\ op' = [kind |-> "create", id |-> id, next |-> [catalog EXCEPT ![id] = n]]
             /\ pc' = "create_storage" /\ reply' = "none"
             /\ UNCHANGED <<state, pending, previous, journal, interrupted,
                            storage, trash, failed, orphans, catalog, handles, refusal>>
      BY <1>1, <2>2, Zenon DEF CreateDatabase
    <3>2. id \in Ids \ (directory \cup trash \cup failed \cup orphans) BY Zenon DEF Fresh
    <3>3. pc = "idle" /\ storage \subseteq directory
      BY <1>1, Zenon DEF CreateDatabase, IInv, Typed, TypeOK
    <3>4. /\ Known(op'.next) \subseteq Known(catalog) \cup {id}
          /\ Known(catalog) \ {id} \subseteq Known(op'.next)
          /\ id \in Known(op'.next)
      BY <3>1, <3>2, Changed, Distinct, Zenon
    <3>5. /\ op'.kind = "create" /\ op'.id = id
          /\ directory' = directory \cup {id} /\ pc' = "create_storage"
          /\ UNCHANGED <<state, pending, previous, journal, storage, trash,
                         orphans, catalog, handles, refusal>>
      BY <3>1, Zenon
    <3>6. Good(Durable)' BY <3>2, <3>3, <3>4, <3>5, Zenon DEF IInv, Good, Durable, disk
    <3>7. Apart' BY <3>2, <3>3, <3>4, <3>5, Zenon DEF IInv, Apart, disk
    <3>8. StatePresent' BY <3>2, <3>3, <3>4, <3>5, Zenon DEF IInv, StatePresent, disk
    <3>9. FilesMatch'
      BY <3>2, <3>3, <3>4, <3>5, Zenon DEF IInv, FilesMatch, disk, Working, Committing, Loading
    <3>10. OperationGood'
      BY <3>2, <3>3, <3>4, <3>5, Zenon
      DEF IInv, Good, Durable, StatePresent, FilesMatch, OperationGood, HandlesGood, disk,
        Working, Committing, Loading
    <3>11. JournalGood' BY <3>2, <3>3, <3>4, <3>5, Zenon DEF IInv, JournalGood, Durable, disk
    <3>12. HandlesGood'
      BY <3>2, <3>3, <3>4, <3>5, Zenon DEF IInv, HandlesGood, Working, Committing, Loading
    <3>13. RefusesOnlyUnreadable'
      BY <3>2, <3>3, <3>4, <3>5, Zenon DEF IInv, RefusesOnlyUnreadable
    <3> QED BY Zenon, <3>6, <3>7, <3>8, <3>9, <3>10, <3>11, <3>12, <3>13 DEF IInv
  <2> QED BY Zenon, <2>1, <2>2
<1>2. ASSUME NEW n \in Names, DropDatabase(n) PROVE IInv'
  <2>1. CASE Rejected
    BY <2>1, Quiet, Zenon DEF Rejected
  <2>2. CASE ~Rejected
    <3>1. PICK id \in Known(catalog) :
             /\ handles' = handles \ {id}
             /\ op' = [kind |-> "drop", id |-> id, next |-> [catalog EXCEPT ![id] = NoName]]
             /\ pc' = "write_journal" /\ reply' = "none"
             /\ UNCHANGED <<disk, catalog, refusal>>
      BY <1>2, <2>2, Zenon DEF DropDatabase
    <3>2. id \in Ids /\ id \in Known(catalog) /\ pc = "idle"
      BY <1>2, Zenon DEF Known, DropDatabase
    <3>3. /\ Known(op'.next) \subseteq Known(catalog) \cup {id}
          /\ Known(catalog) \ {id} \subseteq Known(op'.next)
          /\ id \notin Known(op'.next)
      BY <3>1, <3>2, Changed, Zenon
    <3>4. /\ op'.kind = "drop" /\ op'.id = id /\ handles' = handles \ {id}
          /\ pc' = "write_journal" /\ UNCHANGED <<disk, catalog, refusal>>
      BY <3>1, Zenon
    <3>5. Good(Durable)' BY <3>2, <3>3, <3>4, Zenon DEF IInv, Good, Durable, disk
    <3>6. Apart' BY <3>2, <3>3, <3>4, Zenon DEF IInv, Apart, disk
    <3>7. StatePresent' BY <3>2, <3>3, <3>4, Zenon DEF IInv, StatePresent, disk
    <3>8. FilesMatch'
      BY <3>2, <3>3, <3>4, Zenon DEF IInv, FilesMatch, disk, Working, Committing, Loading
    <3>9. OperationGood'
      BY <3>2, <3>3, <3>4, Zenon
      DEF IInv, Good, Durable, StatePresent, FilesMatch, OperationGood, HandlesGood, disk,
        Working, Committing, Loading
    <3>10. JournalGood' BY <3>2, <3>3, <3>4, Zenon DEF IInv, JournalGood, Durable, disk
    <3>11. HandlesGood'
      BY <3>2, <3>3, <3>4, Zenon DEF IInv, HandlesGood, Working, Committing, Loading
    <3>12. RefusesOnlyUnreadable' BY <3>2, <3>3, <3>4, Zenon DEF IInv, RefusesOnlyUnreadable
    <3> QED BY Zenon, <3>5, <3>6, <3>7, <3>8, <3>9, <3>10, <3>11, <3>12 DEF IInv
  <2> QED BY Zenon, <2>1, <2>2
<1>3. ASSUME NEW n \in Names, NEW m \in Names, RenameDatabase(n, m) PROVE IInv'
  <2>1. CASE Rejected
    BY <2>1, Quiet, Zenon DEF Rejected
  <2>2. CASE ~Rejected
    <3>1. /\ \E id \in Known(catalog) :
               op' = [kind |-> "rename", id |-> id, next |-> [catalog EXCEPT ![id] = m]]
          /\ pc' = "write_journal" /\ reply' = "none"
          /\ UNCHANGED <<disk, catalog, handles, refusal>>
      BY <1>3, <2>2, Zenon DEF RenameDatabase
    <3>2. PICK id \in Known(catalog) :
             op' = [kind |-> "rename", id |-> id, next |-> [catalog EXCEPT ![id] = m]]
      BY <3>1, Zenon
    <3>3. id \in Ids /\ id \in Known(catalog) /\ pc = "idle"
      BY <1>3, Zenon DEF Known, RenameDatabase
    <3>4. /\ Known(op'.next) \subseteq Known(catalog) \cup {id}
          /\ Known(catalog) \ {id} \subseteq Known(op'.next)
          /\ id \in Known(op'.next)
      BY <3>2, <3>3, Changed, Distinct, Zenon
    <3>5. op'.kind = "rename" /\ op'.id = id BY <3>2, Zenon
    <3>6. pc' = "write_journal" /\ UNCHANGED <<disk, catalog, handles, refusal>> BY <3>1, Zenon
    <3>7. Good(Durable)' BY <3>3, <3>4, <3>5, <3>6, Zenon DEF IInv, Good, Durable, disk
    <3>8. Apart' BY <3>3, <3>4, <3>5, <3>6, Zenon DEF IInv, Apart, disk
    <3>9. StatePresent' BY <3>3, <3>4, <3>5, <3>6, Zenon DEF IInv, StatePresent, disk
    <3>10. FilesMatch'
      BY <3>3, <3>4, <3>5, <3>6, Zenon DEF IInv, FilesMatch, disk, Working, Committing, Loading
    <3>11. OperationGood'
      BY <3>3, <3>4, <3>5, <3>6, Zenon
      DEF IInv, Good, Durable, StatePresent, FilesMatch, OperationGood, HandlesGood, disk,
        Working, Committing, Loading
    <3>12. JournalGood' BY <3>3, <3>4, <3>5, <3>6, Zenon DEF IInv, JournalGood, Durable, disk
    <3>13. HandlesGood'
      BY <3>3, <3>4, <3>5, <3>6, Zenon DEF IInv, HandlesGood, Working, Committing, Loading
    <3>14. RefusesOnlyUnreadable'
      BY <3>3, <3>4, <3>5, <3>6, Zenon DEF IInv, RefusesOnlyUnreadable
    <3> QED BY Zenon, <3>7, <3>8, <3>9, <3>10, <3>11, <3>12, <3>13, <3>14 DEF IInv
  <2> QED BY Zenon, <2>1, <2>2
<1> QED BY Zenon, <1>1, <1>2, <1>3 DEF Request

\* IInv is inductive when the rename that puts the previous catalog back works.
THEOREM Inductive ==
    ASSUME Reliable PROVE Spec => []IInv
<1>1. Init => IInv
  <2> SUFFICES ASSUME Init PROVE IInv
    BY Zenon
  <2>1. Typed BY InitTypes, Zenon
  <2> QED
    BY <2>1, EmptyIsCatalog, Distinct, Zenon
    DEF Init, IInv, Good, Apart, StatePresent, FilesMatch, OperationGood, JournalGood,
        HandlesGood, RefusesOnlyUnreadable, Durable, Working, Committing, Loading
<1>2. IInv /\ [Next]_vars => IInv'
  <2> SUFFICES ASSUME IInv, [Next]_vars PROVE IInv'
    BY Zenon
  <2>1. CASE Request BY <2>1, RequestInductive, Zenon
  <2>2. CASE Step BY <2>2, StepInductive, Zenon
  <2> USE DEF Working, Committing, Loading, disk
  <2>3. CASE Start
    <3>1. Typed' BY <2>3, RestTypes, Zenon DEF IInv
    <3>2. Good(Durable)' BY <2>3, EmptyIsCatalog, Distinct, Zenon DEF IInv, Good, Durable, Start
    <3>3. Apart' BY <2>3, EmptyIsCatalog, Distinct, Zenon DEF IInv, Apart, Start
    <3>4. StatePresent' BY <2>3, EmptyIsCatalog, Distinct, Zenon DEF IInv, StatePresent, Start
    <3>5. FilesMatch' BY <2>3, EmptyIsCatalog, Distinct, Zenon DEF IInv, FilesMatch, Start
    <3>6. OperationGood'
      BY <2>3, EmptyIsCatalog, Distinct, Zenon
      DEF IInv, Good, Durable, StatePresent, FilesMatch, OperationGood, HandlesGood, Start
    <3>7. JournalGood'
      BY <2>3, EmptyIsCatalog, Distinct, Zenon DEF IInv, JournalGood, Durable, Start
    <3>8. HandlesGood' BY <2>3, EmptyIsCatalog, Distinct, Zenon DEF IInv, HandlesGood, Start
    <3>9. RefusesOnlyUnreadable'
      BY <2>3, EmptyIsCatalog, Distinct, Zenon DEF IInv, RefusesOnlyUnreadable, Start
    <3> QED BY Zenon, <3>1, <3>2, <3>3, <3>4, <3>5, <3>6, <3>7, <3>8, <3>9 DEF IInv
  <2>4. CASE Crash
    <3>1. Typed' BY <2>4, RestTypes, Zenon DEF IInv
    <3>2. Good(Durable)' BY <2>4, EmptyIsCatalog, Distinct, Zenon DEF IInv, Good, Durable, Crash
    <3>3. Apart' BY <2>4, EmptyIsCatalog, Distinct, Zenon DEF IInv, Apart, Crash
    <3>4. StatePresent' BY <2>4, EmptyIsCatalog, Distinct, Zenon DEF IInv, StatePresent, Crash
    <3>5. FilesMatch' BY <2>4, EmptyIsCatalog, Distinct, Zenon DEF IInv, FilesMatch, Crash
    <3>6. OperationGood'
      BY <2>4, EmptyIsCatalog, Distinct, Zenon
      DEF IInv, Good, Durable, StatePresent, FilesMatch, OperationGood, HandlesGood, Crash
    <3>7. JournalGood'
      BY <2>4, EmptyIsCatalog, Distinct, Zenon DEF IInv, JournalGood, Durable, Crash
    <3>8. HandlesGood' BY <2>4, EmptyIsCatalog, Distinct, Zenon DEF IInv, HandlesGood, Crash
    <3>9. RefusesOnlyUnreadable'
      BY <2>4, EmptyIsCatalog, Distinct, Zenon DEF IInv, RefusesOnlyUnreadable, Crash
    <3> QED BY Zenon, <3>1, <3>2, <3>3, <3>4, <3>5, <3>6, <3>7, <3>8, <3>9 DEF IInv
  <2>5. CASE UNCHANGED vars
    <3>1. Typed' BY <2>5, RestTypes, Zenon DEF IInv
    <3> QED BY <2>5, <3>1, Quiet, Zenon DEF vars, memory
  <2> QED BY Zenon, <2>1, <2>2, <2>3, <2>4, <2>5 DEF Next
<1> QED BY <1>1, <1>2, PTL DEF Spec

\* A complete and valid catalog is on disk in every reachable state: a crash at any
\* call of write_atomic, and any failing calls but that rename, lose nothing.
THEOREM Survival == ASSUME Reliable PROVE Spec => []CatalogSurvives
<1>1. IInv => CatalogSurvives BY Zenon DEF IInv, Good, CatalogSurvives
<1> QED BY <1>1, Inductive, PTL

\* Every entry of the durable catalog has its Database file, in the middle of every
\* lifecycle operation and of recovery too.
THEOREM Backing == ASSUME Reliable PROVE Spec => []EntriesBacked
<1>1. IInv => EntriesBacked BY Zenon DEF IInv, Good, EntriesBacked
<1> QED BY <1>1, Inductive, PTL

\* Startup refuses for an I/O error, an unreadable journal or a taken quarantine
\* file, and never because catalog, journal and directories contradict each other.
THEOREM Consistency == ASSUME Reliable PROVE Spec => []RefusesOnlyUnreadable
<1>1. IInv => RefusesOnlyUnreadable BY Zenon DEF IInv
<1> QED BY <1>1, Inductive, PTL

\* Storage leaves the active tree only when it is closed and has no durable entry.
THEOREM ClosedMoves == ASSUME Reliable PROVE Spec => MovesOnlyClosedUncatalogued
<1>1. IInv /\ [Next]_vars =>
        [\A i \in storage \ storage' : i \notin Known(Durable) \cup handles]_vars
  <2> SUFFICES ASSUME IInv, Next
               PROVE  \A i \in storage \ storage' : i \notin Known(Durable) \cup handles
    BY Zenon
  <2>1. CASE storage \subseteq storage' BY <2>1, Zenon
  <2>2. CASE Undo
    BY <2>2, Distinct, Zenon
    DEF Undo, IInv, Typed, TypeOK, FilesMatch, OperationGood, HandlesGood,
       Durable, Working, Committing, StatePresent
  <2>3. CASE Commit
    BY <2>3, Distinct, Zenon
    DEF Commit, IInv, Typed, TypeOK, FilesMatch, OperationGood, HandlesGood,
       Durable, Working, Committing, StatePresent
  <2>4. CASE LoadJournal
    BY <2>4, Distinct, Zenon
    DEF LoadJournal, JournalProblem, Refuse, IInv, Typed, TypeOK, FilesMatch,
       JournalGood, HandlesGood, Durable, Loading, StatePresent
  <2>5. CASE LoadOrphans
    BY <2>5, Zenon
    DEF LoadOrphans, Strays, Refuse, IInv, FilesMatch, HandlesGood, Durable, Loading,
       StatePresent
  <2>6. ASSUME Request PROVE storage \subseteq storage'
    BY <2>6, Zenon DEF Request, CreateDatabase, RenameDatabase, DropDatabase, Rejected, disk
  <2>7. ASSUME Transition PROVE storage \subseteq storage'
    BY <2>7, Zenon DEF Transition, CreateJournal, FillJournal, CreatePending, FillPending,
       RemovePrevious, Preserve, Install, RollbackPending, Sync, RollbackSync, RollbackState,
       Forget, Unjournal, Untouched, disk
  <2>8. ASSUME Load PROVE LoadJournal \/ LoadOrphans \/ storage \subseteq storage'
    BY <2>8, Zenon
    DEF Load, LoadPrevious, LoadPending, LoadStale, LoadState, LoadUnjournal, Open,
       StartupFault, Untouched, disk
  <2>9. ASSUME CreateStorage \/ Finish \/ Start \/ Crash PROVE storage \subseteq storage'
    BY <2>9, Zenon DEF CreateStorage, Finish, Start, Crash, Untouched, disk
  <2> QED BY Zenon, <2>1, <2>2, <2>3, <2>4, <2>5, <2>6, <2>7, <2>8, <2>9 DEF Next, Step
<1> QED BY <1>1, Inductive, PTL DEF MovesOnlyClosedUncatalogued, Spec

-----------------------------------------------------------------------------
(* The refinement of AtomicCatalog, and what is served between operations.  *)

\* What the abstract catalog is in each phase: the catalog in memory up to the commit
\* point, and the one that was asked for after it.
LEMMA CommittedIs ==
    ASSUME IInv
    PROVE  /\ pc = "idle" \/ pc \in Working => Committed = catalog
           /\ pc \in Committing => Committed = op.next
           /\ pc \notin {"sync", "rollback_sync", "rollback_state"} => Committed = Durable
<1> USE DEF IInv, Committed, Durable, FilesMatch, StatePresent, Working, Committing
<1>1. pc = "idle" \/ pc \in Working => Committed = catalog BY Zenon
<1>2. pc \in Committing => Committed = op.next BY Zenon
<1> QED BY <1>1, <1>2, Zenon

\* A request that is accepted begins the abstract operation; one that is not is rejected.
LEMMA RequestRefines ==
    ASSUME IInv, IInv', Request PROVE Abstract!Next
<1> USE DEF Working, Committing
<1> catalog \in Catalogs BY Zenon DEF IInv, Typed, TypeOK
<1>0. pc = "idle" /\ Committed = catalog /\ Phase = "idle" /\ op = NoOp
  BY CommittedIs, Zenon
  DEF Request, CreateDatabase, DropDatabase, RenameDatabase, Phase, IInv, Typed,
     TypeOK
<1>1. ASSUME Rejected PROVE Abstract!Next
  <2>1. Committed' = Committed /\ Phase' = Phase /\ reply' = "error" /\ op' = NoOp
    BY <1>0, <1>1, Zenon DEF Rejected, disk, Committed, Durable, Phase
  <2> QED BY <1>0, <2>1, Zenon DEF Abstract!Next, Abstract!Reject, Abstract!Done
<1>2. ASSUME pc' \in {"create_storage", "write_journal"}, reply' = "none",
             UNCHANGED catalog
      PROVE  Committed' = Committed /\ Phase' = "working" /\ reply' = "none"
  BY <1>0, <1>2, CommittedIs, Zenon
  DEF Phase, IInv, Committed, Durable, FilesMatch, StatePresent
<1>3. ASSUME NEW n \in Names, CreateDatabase(n), ~Rejected PROVE Abstract!Next
  <2>1. PICK id \in Fresh :
           /\ op' = [kind |-> "create", id |-> id, next |-> [catalog EXCEPT ![id] = n]]
           /\ pc' = "create_storage" /\ reply' = "none" /\ UNCHANGED catalog
    BY <1>3, Zenon DEF CreateDatabase
  <2>2. id \in Ids \ Known(catalog)
    BY <1>0, Zenon DEF Fresh, IInv, Good, Durable, FilesMatch, StatePresent, Typed, TypeOK
  <2>3. \A i \in Known(catalog) : catalog[i] # n BY <1>3, Zenon DEF CreateDatabase
  <2> QED
    BY <1>0, <1>2, <2>1, <2>2, <2>3, Zenon
    DEF Abstract!Next, Abstract!Begin, Abstract!Create, Abstract!Free, Abstract!Entries, Known
<1>4. ASSUME NEW n \in Names, DropDatabase(n), ~Rejected PROVE Abstract!Next
  <2>1. PICK id \in Known(catalog) :
           /\ op' = [kind |-> "drop", id |-> id, next |-> [catalog EXCEPT ![id] = NoName]]
           /\ pc' = "write_journal" /\ reply' = "none" /\ UNCHANGED catalog
    BY <1>4, Zenon DEF DropDatabase
  <2>2. id \in Abstract!Entries(Committed) BY <1>0, Zenon DEF Abstract!Entries, Known
  <2>3. op' = Abstract!Drop(id) BY <1>0, <2>1, Zenon DEF Abstract!Drop
  <2>4. Committed' = Committed /\ Phase' = "working" /\ reply' = "none" BY <1>2, <2>1, Zenon
  <2>5. Abstract!Begin BY <1>0, <2>2, <2>3, <2>4, Zenon DEF Abstract!Begin
  <2> QED BY <2>5, Zenon DEF Abstract!Next
<1>5. ASSUME NEW n \in Names, NEW m \in Names, RenameDatabase(n, m), ~Rejected
      PROVE  Abstract!Next
  <2>1. /\ \E id \in Known(catalog) :
             op' = [kind |-> "rename", id |-> id, next |-> [catalog EXCEPT ![id] = m]]
        /\ pc' = "write_journal" /\ reply' = "none" /\ UNCHANGED catalog
        /\ \A i \in Known(catalog) : catalog[i] # m
    BY <1>5, Zenon DEF RenameDatabase
  <2> QED
    BY <1>0, <1>2, <2>1, Zenon
    DEF Abstract!Next, Abstract!Begin, Abstract!Rename, Abstract!Free, Abstract!Entries, Known
<1> QED BY <1>1, <1>3, <1>4, <1>5, Zenon DEF Request

\* A step that keeps the operation, the phase, the answer and the abstract catalog.
Hidden == UNCHANGED <<Committed, op, Phase, reply>>

\* The steps of a transition are hidden, but for the return of sync_parent, which is
\* the commit point.
LEMMA TransitionRefines ==
    ASSUME Reliable, IInv, IInv', Transition PROVE Abstract!Commit \/ Hidden
<1> USE DEF Working, Committing, Untouched
<1>1. CASE Sync /\ pc' = "forget"
  <2>1. Committed' = op'.next /\ Phase = "working" /\ Phase' = "committed"
    BY <1>1, CommittedIs, Zenon
    DEF Sync, Phase, IInv, Committed, Durable, FilesMatch, StatePresent
  <2> QED BY <1>1, <2>1, Zenon DEF Abstract!Commit, Sync
<1>2. CASE ~(Sync /\ pc' = "forget")
  <2>1. UNCHANGED <<op, reply>> /\ Phase' = Phase
    BY <1>2, Zenon DEF Transition, CreateJournal, FillJournal, CreatePending, FillPending,
       RemovePrevious, Preserve, Install, RollbackPending, Sync, RollbackSync, RollbackState,
       Forget, Unjournal, Phase
  <2>2. CASE Forget
    BY <2>1, <2>2, Zenon DEF Forget, Hidden, IInv, Committed, Durable, FilesMatch, StatePresent
  <2>3. CASE ~Forget
    <3>1. pc \in Working /\ pc' \in Working /\ UNCHANGED catalog
      <4>1. CASE Sync BY <1>2, <4>1, Zenon DEF Sync
      <4>2. CASE CreateJournal \/ FillJournal \/ CreatePending \/ FillPending
        BY <4>2, Zenon DEF CreateJournal, FillJournal, CreatePending, FillPending
      <4>3. CASE RemovePrevious \/ Preserve \/ Install \/ RollbackPending
        BY <4>3, Zenon DEF RemovePrevious, Preserve, Install, RollbackPending
      <4>4. CASE RollbackSync \/ RollbackState \/ Unjournal
        BY <4>4, Zenon DEF RollbackSync, RollbackState, Unjournal
      <4> QED BY <2>3, <4>1, <4>2, <4>3, <4>4, Zenon DEF Transition
    <3>2. Committed = catalog /\ Committed' = catalog'
      BY <3>1, Zenon DEF IInv, Committed, Durable, FilesMatch, StatePresent
    <3> QED BY <2>1, <3>1, <3>2, Zenon DEF Hidden
  <2> QED BY <2>2, <2>3, Zenon
<1> QED BY <1>1, <1>2, Zenon

\* The end of an operation answers it, with an error before the commit point, with
\* success or, for a drop, a late error after it.
LEMMA EndRefines ==
    ASSUME IInv, IInv', CreateStorage \/ Undo \/ Commit \/ Finish
    PROVE  Abstract!Next \/ Hidden
<1> USE DEF Working, Committing
<1>1. UNCHANGED <<state, previous, catalog>>
  BY Zenon DEF CreateStorage, Undo, Commit, Finish
<1>2. Committed' = Committed
  BY <1>1, Zenon DEF Committed, Durable, CreateStorage, Undo, Commit, Finish, Answer
<1>3. CASE CreateStorage \/ Undo
  <2>1. Phase = "working" BY <1>3, Zenon DEF Phase, CreateStorage, Undo
  <2>2. \/ Phase' = "working" /\ UNCHANGED <<op, reply>>
        \/ Phase' = "idle" /\ op' = NoOp /\ reply' = "error"
    BY <1>3, Zenon DEF Phase, CreateStorage, Undo, Answer
  <2> QED BY <1>2, <2>1, <2>2, Zenon DEF Hidden, Abstract!Next, Abstract!Reject, Abstract!Done
<1>4. CASE Commit \/ Finish
  <2>1. Phase = "committed" BY <1>4, Zenon DEF Phase, Commit, Finish
  <2>2. \/ Phase' = "committed" /\ UNCHANGED <<op, reply>>
        \/ Phase' = "idle" /\ op' = NoOp /\ reply' = "ok"
        \/ Phase' = "idle" /\ op' = NoOp /\ reply' = "error" /\ op.kind = "drop"
    BY <1>4, Zenon DEF Phase, Commit, Finish, Answer
  <2> QED
    BY <1>2, <2>1, <2>2, Zenon
    DEF Hidden, Abstract!Next, Abstract!Acknowledge, Abstract!LateError, Abstract!Done
<1> QED BY <1>3, <1>4, Zenon

\* Startup is hidden: it may move the catalog from one file to another and no more.
LEMMA LoadRefines ==
    ASSUME IInv, IInv', Load \/ Start PROVE Hidden
<1> USE DEF Working, Committing
<1>1. UNCHANGED <<op, reply>> /\ Phase = "idle" /\ Phase' = "idle"
  BY Zenon DEF Load, Start, LoadPrevious, LoadPending, LoadStale, LoadState, LoadJournal,
     LoadUnjournal, LoadOrphans, Open, StartupFault, Refuse, Phase
<1>2. Durable' = Durable
  <2>1. CASE LoadPrevious BY <2>1, Zenon DEF LoadPrevious, Durable
  <2>2. CASE LoadStale BY <2>2, Distinct, Zenon DEF LoadStale, Durable
  <2>3. CASE ~(LoadPrevious \/ LoadStale)
    BY <2>3, Zenon
    DEF Load, Start, LoadPending, LoadState, LoadJournal, LoadUnjournal, LoadOrphans,
       Open, StartupFault, Durable, disk
  <2> QED BY <2>1, <2>2, <2>3, Zenon
<1>3. Committed = Durable /\ Committed' = Durable'
  BY Zenon DEF Load, Start, LoadPrevious, LoadPending, LoadStale, LoadState, LoadJournal,
     LoadUnjournal, LoadOrphans, Open, StartupFault, Refuse, Committed
<1> QED BY <1>1, <1>2, <1>3, Zenon DEF Hidden

\* A crash forgets the operation; if the new file was in place it has been made.
LEMMA CrashRefines ==
    ASSUME IInv, Crash PROVE Abstract!Next
<1> USE DEF Working, Committing
<1>1. op' = NoOp /\ reply' = "none" /\ Phase' = "idle" /\ Committed' = Durable
  BY Zenon DEF Crash, Phase, Committed, Durable, disk
<1>2. Durable = Committed \/ (Phase = "working" /\ Durable = op.next)
  BY Zenon DEF Phase, IInv, Committed, Durable, FilesMatch, StatePresent
<1> QED BY <1>1, <1>2, Zenon DEF Abstract!Next, Abstract!Crash, Abstract!Done

\* Create, rename and drop are atomic and durable: every behaviour of CatalogStore is one
\* of AtomicCatalog, through crashes, restarts and failing calls.
THEOREM Refinement == ASSUME Reliable PROVE Spec => AtomicLifecycle
<1>1. Init => Abstract!Init
  BY Zenon
  DEF Init, Abstract!Init, Committed, Durable, Phase, EmptyCatalog, Working, Committing,
     disk
<1>2. IInv /\ IInv' /\ [Next]_vars => [Abstract!Next]_(Abstract!vars)
  <2> SUFFICES ASSUME IInv, IInv', [Next]_vars
               PROVE  Abstract!Next \/ Hidden
    BY Zenon DEF Hidden, Abstract!vars
  <2>1. CASE Request BY <2>1, RequestRefines, Zenon
  <2>2. CASE Transition BY <2>2, TransitionRefines, Zenon DEF Abstract!Next
  <2>3. CASE CreateStorage \/ Undo \/ Commit \/ Finish BY <2>3, EndRefines, Zenon
  <2>4. CASE Load \/ Start BY <2>4, LoadRefines, Zenon
  <2>5. CASE Crash BY <2>5, CrashRefines, Zenon
  <2>6. CASE UNCHANGED vars
    BY <2>6, Zenon DEF vars, disk, memory, Hidden, Committed, Durable, Phase
  <2> QED BY <2>1, <2>2, <2>3, <2>4, <2>5, <2>6, Zenon DEF Next, Step
<1> QED BY <1>1, <1>2, Inductive, PTL DEF Spec, AtomicLifecycle, Abstract!Spec

-----------------------------------------------------------------------------
\* The handles at each step when a reopen does not fail: those of the catalog, without
\* the Database a drop has closed or a create has not published yet.
HandlesComplete ==
    /\ pc \in {"idle", "finish"} => handles = Known(catalog)
    /\ pc \in Working \cup {"forget"} =>
         /\ handles = IF op.kind = "drop" THEN Known(catalog) \ {op.id} ELSE Known(catalog)
         /\ op.kind \in {"rename", "drop"} => op.id \in Known(catalog)
    /\ pc = "commit" =>
         handles = IF op.kind = "create" THEN Known(catalog) \ {op.id} ELSE Known(catalog)

\* Every step keeps the handles complete: Forget changes the catalog under them, Undo and
\* Commit make up for what the operation took or has to add, Open fills an empty map.
LEMMA HandlesStepComplete ==
    ASSUME "reopen" \notin FailingCalls, IInv, IInv', HandlesComplete, [Next]_vars
    PROVE  HandlesComplete'
<1> USE DEF HandlesComplete, Working, Committing, Loading, Resting
<1>1. CASE Request
  <2>1. CASE Rejected BY <2>1, Zenon DEF Rejected
  <2>2. ASSUME NEW n \in Names, CreateDatabase(n), ~Rejected PROVE HandlesComplete'
    BY <2>2 DEF CreateDatabase
  <2>3. ASSUME NEW n \in Names, DropDatabase(n), ~Rejected PROVE HandlesComplete'
    BY <2>3 DEF DropDatabase
  <2>4. ASSUME NEW n \in Names, NEW m \in Names, RenameDatabase(n, m), ~Rejected
        PROVE  HandlesComplete'
    BY <2>4 DEF RenameDatabase
  <2> QED BY <1>1, <2>1, <2>2, <2>3, <2>4, Zenon DEF Request
<1>2. CASE Transition
  <2>1. CASE Forget
    <3>1. /\ pc = "forget" /\ pc' = "commit" /\ catalog' = op.next
          /\ op' = op /\ handles' = handles
      BY <2>1, Zenon DEF Forget, Untouched
    <3>2. PICK A : A = Known(catalog) BY Zenon
    <3>3. PICK B : B = Known(op.next) BY Zenon
    <3>4. PICK k : k = op.kind BY Zenon
    <3>5. PICK i : i = op.id BY Zenon
    <3>6. handles = IF k = "drop" THEN A \ {i} ELSE A BY <3>1, <3>2, <3>4, <3>5, Zenon
    <3>7. B \subseteq A \cup {i} /\ A \ {i} \subseteq B /\ (k = "create" => i \notin A)
      BY <3>1, <3>2, <3>3, <3>4, <3>5, Zenon DEF IInv, OperationGood
    <3>8. /\ k \in {"create", "rename"} => i \in B
          /\ k = "drop" => i \notin B
      BY <3>1, <3>3, <3>4, <3>5, Zenon DEF IInv, OperationGood
    <3>9. k = "rename" => i \in A BY <3>1, <3>2, <3>4, <3>5, Zenon
    <3>10. k \in {"create", "rename", "drop"}
      <4>1. op \in Ops BY <3>1, Zenon DEF IInv, Typed, TypeOK, Ops
      <4> QED BY <3>4, <4>1, Zenon DEF Ops, Kinds
    <3>11. handles = IF k = "create" THEN B \ {i} ELSE B
      BY <3>6, <3>7, <3>8, <3>9, <3>10
    <3>12. handles' = IF op'.kind = "create" THEN Known(catalog') \ {op'.id} ELSE Known(catalog')
      BY <3>1, <3>3, <3>4, <3>5, <3>11, Zenon
    <3> QED BY <3>1, <3>12, Zenon
  <2>2. CASE ~Forget
    BY <1>2, <2>2, Zenon DEF Transition, CreateJournal, FillJournal, CreatePending, FillPending,
       RemovePrevious, Preserve, Install, RollbackPending, Sync, RollbackSync, RollbackState,
       Unjournal, Untouched
  <2> QED BY <2>1, <2>2, Zenon
<1>3. CASE CreateStorage
  BY <1>3, Zenon DEF CreateStorage, IInv, OperationGood
<1>4. CASE Undo
  <2>1. /\ pc = "undo" /\ pc' = "idle" /\ catalog' = catalog
        /\ op.kind \in {"create", "rename", "drop"}
    BY <1>4, Zenon DEF Undo, Answer
  <2>2. /\ handles = IF op.kind = "drop" THEN Known(catalog) \ {op.id} ELSE Known(catalog)
        /\ op.kind = "drop" => op.id \in Known(catalog)
    BY <2>1, Zenon
  <2>3. Known(catalog) \subseteq storage BY <2>1, Zenon DEF IInv, OperationGood, Good
  <2>4. IF op.kind = "drop" THEN handles' = handles \cup {op.id} ELSE handles' = handles
    BY <1>4, <2>2, <2>3, Zenon DEF Undo, MayFail
  <2>5. handles' = Known(catalog) BY <2>2, <2>4
  <2>6. Known(catalog') = Known(catalog) BY <2>1, Zenon
  <2> QED BY <2>1, <2>5, <2>6, Zenon
<1>5. CASE Commit
  BY <1>5, Zenon DEF Commit, Answer, IInv, OperationGood, FilesMatch
<1>6. CASE Finish BY <1>6, Zenon DEF Finish, Answer
<1>7. CASE Load \/ Start
  BY <1>7, Zenon DEF Load, Start, LoadPrevious, LoadPending, LoadStale, LoadState, LoadJournal,
     LoadUnjournal, LoadOrphans, Open, StartupFault, Refuse
<1>8. CASE Crash BY <1>8, Zenon DEF Crash
<1>9. CASE UNCHANGED vars BY <1>9, Zenon DEF vars, disk, memory
<1> QED BY <1>1, <1>2, <1>3, <1>4, <1>5, <1>6, <1>7, <1>8, <1>9, Zenon DEF Next, Step

\* Between operations the daemon serves the catalog a restart would find, with a handle
\* for every entry unless a reopen may fail, after any operations, faults and crashes.
THEOREM Serving == ASSUME Reliable PROVE Spec => []ServesDurable
<1>1. CASE "reopen" \notin FailingCalls
  <2>1. Init => HandlesComplete
    BY Zenon DEF Init, HandlesComplete, Working
  <2>2. IInv /\ IInv' /\ HandlesComplete /\ [Next]_vars => HandlesComplete'
    BY <1>1, HandlesStepComplete, Zenon
  <2>3. IInv /\ HandlesComplete => ServesDurable
    BY <1>1, Zenon
    DEF ServesDurable, MayFail, HandlesComplete, IInv, FilesMatch, StatePresent, Durable
  <2> QED BY <2>1, <2>2, <2>3, Inductive, PTL DEF Spec
<1>2. CASE "reopen" \in FailingCalls
  <2>1. IInv => ServesDurable
    BY <1>2, Zenon
    DEF ServesDurable, MayFail, IInv, FilesMatch, StatePresent, HandlesGood, Durable
  <2> QED BY <2>1, Inductive, PTL
<1> QED BY <1>1, <1>2, Zenon
=============================================================================
