---------------------------- MODULE CatalogStore ----------------------------
(***************************************************************************)
(* The durable catalog of nostd (src/catalog.rs) and the three lifecycle   *)
(* operations that change it (create, rename and drop in src/daemon.rs).   *)
(*                                                                         *)
(* Every file-system call is a step of its own.  The process may crash     *)
(* between any two of them, and every call named in FailingCalls may       *)
(* return an error.  The catalog mutex is held for a whole operation       *)
(* (daemon.rs:224, 288, 351), so one operation at a time is under way;     *)
(* startup (CatalogStore::load) runs alone.                                *)
(*                                                                         *)
(* A catalog is a function from stable IDs to names, NoName for an ID that *)
(* has no entry.  The code keeps a vector sorted by name; every vector it  *)
(* writes is sorted (daemon.rs:254, 315), so two vectors are equal exactly *)
(* when the functions are.  A file is Absent, Torn (created, contents not  *)
(* complete) or has the value that was written to it.                      *)
(***************************************************************************)
EXTENDS Naturals, FiniteSets

CONSTANTS
    Ids,          \* stable Database IDs the generator may return
    Names,        \* valid Database names
    NoName,       \* "no entry for this ID"
    Absent,       \* the file does not exist
    Torn,         \* the file exists and does not parse
    NoOp,         \* no lifecycle operation under way
    FailingCalls  \* the calls that may return an I/O error

Catalogs == [Ids -> Names \cup {NoName}]

Kinds == {"create", "rename", "drop"}

Journals == [kind : Kinds, id : Ids, before : Catalogs, after : Catalogs]

\* The calls of the forward path, of the cleanup after an error, and of startup.
Calls == {"create_dir", "create_storage", "checkpoint", "write_journal",
          "write_pending", "remove_previous", "preserve", "install", "sync",
          "forget", "trash", "finish",
          "remove_partial", "remove_dir", "rollback_pending", "rollback_sync",
          "rollback_state", "unjournal", "quarantine", "reopen", "startup"}

ASSUME NameAssumption == NoName \notin Names
ASSUME FileAssumption == /\ Absent # Torn
                         /\ Absent \notin Catalogs /\ Torn \notin Catalogs
                         /\ Absent \notin Journals /\ Torn \notin Journals
ASSUME OpAssumption == NoOp \notin [kind : Kinds, id : Ids, next : Catalogs]
ASSUME CallAssumption == FailingCalls \subseteq Calls

VARIABLES
    \* The data directory.
    state,        \* server-state
    pending,      \* server-state.pending
    previous,     \* server-state.previous
    journal,      \* server-operation
    interrupted,  \* recovery/interrupted-catalog.pending exists
    directory,    \* IDs with a directory databases/<id>
    storage,      \* IDs whose databases/<id>/database.nostdb exists
    trash,        \* IDs with a directory trash/<id>
    failed,       \* IDs with a directory recovery/failed-create-<id>
    orphans,      \* IDs with a directory recovery/orphan-<id>
    \* The process.
    catalog,      \* CatalogStore.catalog
    handles,      \* IDs with an open Database in DatabaseDaemon.databases
    op,           \* the operation that holds the catalog mutex
    pc,           \* the next call
    reply,        \* what the last operation answered
    refusal       \* why startup failed, "none" if it did not

disk == <<state, pending, previous, journal, interrupted,
          directory, storage, trash, failed, orphans>>
memory == <<catalog, handles, op, pc, reply, refusal>>
vars == <<disk, memory>>

-----------------------------------------------------------------------------
Known(c) == {i \in Ids : c[i] # NoName}

EmptyCatalog == [i \in Ids |-> NoName]

\* validate_catalog: names are unique.  IDs are unique and the order is right
\* in this representation; version, ID syntax and the "ready" state are fixed.
ValidCatalog(c) == \A i, j \in Known(c) : c[i] = c[j] => i = j

\* What a reader finds: recover_atomic_state falls back to the previous file.
Durable == IF state # Absent THEN state ELSE previous

MayFail(call) == call \in FailingCalls

\* An uuid that was never handed out.
Fresh == Ids \ (directory \cup trash \cup failed \cup orphans)

Init ==
    /\ state = EmptyCatalog
    /\ pending = Absent /\ previous = Absent /\ journal = Absent
    /\ interrupted = FALSE
    /\ directory = {} /\ storage = {} /\ trash = {}
    /\ failed = {} /\ orphans = {}
    /\ catalog = EmptyCatalog /\ handles = {} /\ op = NoOp
    /\ pc = "down" /\ reply = "none" /\ refusal = "none"

-----------------------------------------------------------------------------
(* Lifecycle operations: the part before the catalog transition.            *)

\* An early return with an error: nothing on disk changed.
Rejected == reply' = "error" /\ UNCHANGED <<disk, catalog, handles, op, pc, refusal>>

\* create_database up to create_dir.
CreateDatabase(name) ==
    /\ pc = "idle"
    /\ \/ /\ \E i \in Known(catalog) : catalog[i] = name
          /\ Rejected
       \/ /\ \A i \in Known(catalog) : catalog[i] # name
          /\ \/ MayFail("create_dir") /\ Rejected
             \/ \E id \in Fresh :
                   /\ directory' = directory \cup {id}
                   /\ op' = [kind |-> "create", id |-> id,
                             next |-> [catalog EXCEPT ![id] = name]]
                   /\ pc' = "create_storage"
                   /\ reply' = "none"
                   /\ UNCHANGED <<state, pending, previous, journal, interrupted,
                                  storage, trash, failed, orphans, catalog, handles, refusal>>

\* EmbeddedDatabase::create; a failure removes the directory if it is still empty.
CreateStorage ==
    /\ pc = "create_storage"
    /\ \/ /\ storage' = storage \cup {op.id}
          /\ pc' = "write_journal"
          /\ UNCHANGED <<directory, op, reply>>
       \/ /\ MayFail("create_storage")
          /\ \/ directory' = directory \ {op.id}
             \/ MayFail("remove_dir") /\ UNCHANGED directory
          /\ pc' = "idle" /\ op' = NoOp /\ reply' = "error"
          /\ UNCHANGED storage
    /\ UNCHANGED <<state, pending, previous, journal, interrupted, trash,
                   failed, orphans, catalog, handles, refusal>>

\* rename_database: the entry keeps its ID.
RenameDatabase(name, newName) ==
    /\ pc = "idle"
    /\ \/ /\ \/ \E i \in Known(catalog) : catalog[i] = newName
             \/ \A i \in Known(catalog) : catalog[i] # name
          /\ Rejected
       \/ /\ \A i \in Known(catalog) : catalog[i] # newName
          /\ \E id \in Known(catalog) :
                /\ catalog[id] = name
                /\ op' = [kind |-> "rename", id |-> id,
                          next |-> [catalog EXCEPT ![id] = newName]]
          /\ pc' = "write_journal"
          /\ reply' = "none"
          /\ UNCHANGED <<disk, catalog, handles, refusal>>

\* drop_database up to the transition: the handle is taken, checkpointed, closed
\* and leaves the map.
DropDatabase(name) ==
    /\ pc = "idle"
    /\ \/ /\ \A i \in Known(catalog) : catalog[i] # name
          /\ Rejected
       \/ \E id \in Known(catalog) :
             /\ catalog[id] = name
             /\ \/ /\ \/ id \in trash
                      \/ id \notin handles
                      \/ MayFail("checkpoint")
                   /\ Rejected
                \/ /\ id \notin trash
                   /\ id \in handles
                   /\ handles' = handles \ {id}
                   /\ op' = [kind |-> "drop", id |-> id,
                             next |-> [catalog EXCEPT ![id] = NoName]]
                   /\ pc' = "write_journal"
                   /\ reply' = "none"
                   /\ UNCHANGED <<disk, catalog, refusal>>

-----------------------------------------------------------------------------
(* CatalogStore::transition and write_atomic.                               *)

\* The files and the process state that no step of a transition changes.
Untouched == UNCHANGED <<interrupted, directory, storage, trash, failed, orphans,
                         handles, op, reply, refusal>>

\* write_json_new(server-operation): create_new refuses an existing file.
CreateJournal ==
    /\ pc = "write_journal"
    /\ \/ /\ ValidCatalog(op.next) /\ journal = Absent
          /\ journal' = Torn
          /\ pc' = "fill_journal"
       \/ /\ ~ValidCatalog(op.next) \/ journal # Absent \/ MayFail("write_journal")
          /\ pc' = "undo"
          /\ UNCHANGED journal
    /\ UNCHANGED <<state, pending, previous, catalog>> /\ Untouched

\* write_all and sync_all; a failure removes the partial file.
FillJournal ==
    /\ pc = "fill_journal"
    /\ \/ /\ journal' = [kind |-> op.kind, id |-> op.id,
                         before |-> catalog, after |-> op.next]
          /\ pc' = "write_pending"
       \/ /\ MayFail("write_journal")
          /\ pc' = "undo"
          /\ journal' = Absent \/ (MayFail("remove_partial") /\ UNCHANGED journal)
    /\ UNCHANGED <<state, pending, previous, catalog>> /\ Untouched

\* Mutant: waits for an existing server-state.pending to go away.
CreatePendingWaits ==
    /\ pc = "write_pending" /\ pending = Absent
    /\ pending' = Torn /\ pc' = "fill_pending"
    /\ UNCHANGED <<state, previous, journal, catalog>> /\ Untouched

\* write_json_new(server-state.pending).
CreatePending ==
    /\ pc = "write_pending"
    /\ \/ /\ pending = Absent
          /\ pending' = Torn
          /\ pc' = "fill_pending"
       \/ /\ pending # Absent \/ MayFail("write_pending")
          /\ pc' = "unjournal"
          /\ UNCHANGED pending
    /\ UNCHANGED <<state, previous, journal, catalog>> /\ Untouched

FillPending ==
    /\ pc = "fill_pending"
    /\ \/ pending' = op.next /\ pc' = "remove_previous"
       \/ /\ MayFail("write_pending")
          /\ pc' = "unjournal"
          /\ pending' = Absent \/ (MayFail("remove_partial") /\ UNCHANGED pending)
    /\ UNCHANGED <<state, previous, journal, catalog>> /\ Untouched

\* remove_if_exists(server-state.previous).
RemovePrevious ==
    /\ pc = "remove_previous"
    /\ \/ previous' = Absent /\ pc' = "preserve"
       \/ MayFail("remove_previous") /\ pc' = "unjournal" /\ UNCHANGED previous
    /\ UNCHANGED <<state, pending, journal, catalog>> /\ Untouched

\* Mutant: server-state is removed before its replacement is in place.
PreserveRemoves ==
    /\ pc = "preserve" /\ state' = Absent /\ pc' = "install"
    /\ UNCHANGED <<pending, previous, journal, catalog>> /\ Untouched

\* rename(server-state, server-state.previous).
Preserve ==
    /\ pc = "preserve"
    /\ \/ /\ state # Absent
          /\ previous' = state /\ state' = Absent
          /\ pc' = "install"
       \/ /\ state = Absent \/ MayFail("preserve")
          /\ pc' = "unjournal"
          /\ UNCHANGED <<state, previous>>
    /\ UNCHANGED <<pending, journal, catalog>> /\ Untouched

\* rename(server-state.pending, server-state).
Install ==
    /\ pc = "install"
    /\ \/ state' = pending /\ pending' = Absent /\ pc' = "sync"
       \/ MayFail("install") /\ pc' = "rollback_pending" /\ UNCHANGED <<state, pending>>
    /\ UNCHANGED <<previous, journal, catalog>> /\ Untouched

\* The install failed: the error of remove_file is ignored.
RollbackPending ==
    /\ pc = "rollback_pending"
    /\ pending' = Absent \/ (MayFail("rollback_pending") /\ UNCHANGED pending)
    /\ pc' = "rollback_state"
    /\ UNCHANGED <<state, previous, journal, catalog>> /\ Untouched

\* Mutant: a failed sync is reported without rolling the rename back.
SyncNoRollback ==
    /\ pc = "sync"
    /\ pc' = "forget" \/ (MayFail("sync") /\ pc' = "unjournal")
    /\ UNCHANGED <<state, pending, previous, journal, catalog>> /\ Untouched

\* sync_parent.
Sync ==
    /\ pc = "sync"
    /\ pc' = "forget" \/ (MayFail("sync") /\ pc' = "rollback_sync")
    /\ UNCHANGED <<state, pending, previous, journal, catalog>> /\ Untouched

\* The sync failed: remove_file(server-state), error ignored.
RollbackSync ==
    /\ pc = "rollback_sync"
    /\ state' = Absent \/ (MayFail("rollback_sync") /\ UNCHANGED state)
    /\ pc' = "rollback_state"
    /\ UNCHANGED <<pending, previous, journal, catalog>> /\ Untouched

\* Mutant: the rollback trusts that removing the new server-state worked.
RollbackStateSkipped ==
    /\ pc = "rollback_state" /\ pc' = "unjournal"
    /\ UNCHANGED <<state, pending, previous, journal, catalog>> /\ Untouched

\* rename(server-state.previous, server-state), error ignored.
RollbackState ==
    /\ pc = "rollback_state"
    /\ \/ state' = previous /\ previous' = Absent
       \/ MayFail("rollback_state") /\ UNCHANGED <<state, previous>>
    /\ pc' = "unjournal"
    /\ UNCHANGED <<pending, journal, catalog>> /\ Untouched

\* Mutant: the catalog in memory is not replaced.
ForgetKeepsCatalog ==
    /\ pc = "forget" /\ previous' = Absent /\ pc' = "commit"
    /\ UNCHANGED <<state, pending, journal, catalog>> /\ Untouched

\* remove_if_exists(server-state.previous), error ignored; then transition makes
\* the new catalog the one in memory.
Forget ==
    /\ pc = "forget"
    /\ previous' = Absent \/ (MayFail("forget") /\ UNCHANGED previous)
    /\ catalog' = op.next
    /\ pc' = "commit"
    /\ UNCHANGED <<state, pending, journal>> /\ Untouched

\* transition failed after the journal was written: remove_file, error ignored.
Unjournal ==
    /\ pc = "unjournal"
    /\ journal' = Absent \/ (MayFail("unjournal") /\ UNCHANGED journal)
    /\ pc' = "undo"
    /\ UNCHANGED <<state, pending, previous, catalog>> /\ Untouched

-----------------------------------------------------------------------------
(* Lifecycle operations: what follows the transition.                       *)

\* Mutant: the operation is not over when its answer is sent.
AnswerKeepsOp(r) == reply' = r /\ pc' = "idle" /\ UNCHANGED op

Answer(r) == reply' = r /\ op' = NoOp /\ pc' = "idle"

\* transition returned an error.  create moves its directory aside, drop reopens
\* the Database; a reopen that fails loses the handle.
Undo ==
    /\ pc = "undo"
    /\ \/ /\ op.kind = "create"
          /\ \/ /\ directory' = directory \ {op.id}
                /\ storage' = storage \ {op.id}
                /\ failed' = failed \cup {op.id}
             \/ MayFail("quarantine") /\ UNCHANGED <<directory, storage, failed>>
          /\ UNCHANGED handles
       \/ op.kind = "rename" /\ UNCHANGED <<directory, storage, failed, handles>>
       \/ /\ op.kind = "drop"
          /\ \/ op.id \in storage /\ handles' = handles \cup {op.id}
             \/ (op.id \notin storage \/ MayFail("reopen")) /\ UNCHANGED handles
          /\ UNCHANGED <<directory, storage, failed>>
    /\ Answer("error")
    /\ UNCHANGED <<state, pending, previous, journal, interrupted, trash,
                   orphans, catalog, refusal>>

\* transition succeeded.  create publishes the handle; drop moves the storage to
\* the trash, and a failure of that rename is returned to the client.
Commit ==
    /\ pc = "commit"
    /\ \/ /\ op.kind \in {"create", "rename"}
          /\ handles' = IF op.kind = "create" THEN handles \cup {op.id} ELSE handles
          /\ pc' = "finish"
          /\ UNCHANGED <<directory, storage, trash, op, reply>>
       \/ /\ op.kind = "drop"
          /\ \/ /\ directory' = directory \ {op.id}
                /\ storage' = storage \ {op.id}
                /\ trash' = trash \cup {op.id}
                /\ pc' = "finish"
                /\ UNCHANGED <<op, reply>>
             \/ /\ MayFail("trash")
                /\ Answer("error")
                /\ UNCHANGED <<directory, storage, trash>>
          /\ UNCHANGED handles
    /\ UNCHANGED <<state, pending, previous, journal, interrupted, failed, orphans,
                   catalog, refusal>>

\* finish_transition; its error is only logged.
Finish ==
    /\ pc = "finish"
    /\ journal' = Absent \/ (MayFail("finish") /\ UNCHANGED journal)
    /\ Answer("ok")
    /\ UNCHANGED <<state, pending, previous, interrupted, directory, storage,
                   trash, failed, orphans, catalog, handles, refusal>>

-----------------------------------------------------------------------------
(* Startup: CatalogStore::load, then the open of every Database.            *)

Refuse(why) == pc' = "refused" /\ refusal' = why

\* A daemon process starts, or an operator starts it again after a refusal.
Start ==
    /\ pc \in {"down", "refused"}
    /\ pc' = "load_previous" /\ refusal' = "none"
    /\ UNCHANGED <<disk, catalog, handles, op, reply>>

\* A call of startup fails: load and open return its error.
StartupFault ==
    /\ MayFail("startup")
    /\ pc \in {"load_previous", "load_pending", "load_stale", "load_state",
               "load_journal", "load_unjournal", "load_orphans", "open"}
    /\ Refuse("io")
    /\ UNCHANGED <<disk, catalog, handles, op, reply>>

\* recover_atomic_state: without a catalog the previous one is put back.
LoadPrevious ==
    /\ pc = "load_previous"
    /\ IF state = Absent /\ previous # Absent
       THEN state' = previous /\ previous' = Absent
       ELSE UNCHANGED <<state, previous>>
    /\ pc' = "load_pending"
    /\ UNCHANGED <<pending, journal, interrupted, directory, storage, trash,
                   failed, orphans, catalog, handles, op, reply, refusal>>

\* recover_atomic_state: a pending catalog is set aside, if the one place is free.
LoadPending ==
    /\ pc = "load_pending"
    /\ \/ /\ pending = Absent
          /\ pc' = "load_stale"
          /\ UNCHANGED <<pending, interrupted, refusal>>
       \/ /\ pending # Absent /\ ~interrupted
          /\ pending' = Absent /\ interrupted' = TRUE
          /\ pc' = "load_stale"
          /\ UNCHANGED refusal
       \/ /\ pending # Absent /\ interrupted
          /\ Refuse("interrupted")
          /\ UNCHANGED <<pending, interrupted>>
    /\ UNCHANGED <<state, previous, journal, directory, storage, trash, failed, orphans,
                   catalog, handles, op, reply>>

\* recover_atomic_state: the previous catalog goes once the new one parses.
LoadStale ==
    LET problem == IF state = Absent THEN "no_state"
                   ELSE IF state = Torn /\ previous # Absent THEN "bad_state"
                   ELSE "none"
    IN /\ pc = "load_stale"
       /\ \/ problem = "none" /\ previous' = Absent
             /\ pc' = "load_state" /\ UNCHANGED refusal
          \/ problem # "none" /\ Refuse(problem) /\ UNCHANGED previous
       /\ UNCHANGED <<state, pending, journal, interrupted, directory, storage,
                      trash, failed, orphans, catalog, handles, op, reply>>

\* read_catalog and validate_catalog.
LoadState ==
    LET valid == state # Torn /\ ValidCatalog(state)
    IN /\ pc = "load_state"
       /\ IF valid THEN catalog' = state /\ pc' = "load_journal" /\ UNCHANGED refusal
                   ELSE Refuse("bad_state") /\ UNCHANGED catalog
       /\ UNCHANGED <<disk, handles, op, reply>>

\* Mutant: a journal whose operation never reached the catalog is not accepted.
JournalProblemCommittedOnly ==
    IF journal = Torn THEN "bad_journal"
    ELSE IF catalog # journal.after THEN "neither" ELSE "none"

\* recover_operation: the journal must parse and name the catalog that was found
\* as one of its two sides; a committed create must have its storage, and a
\* committed drop must be able to move its directory.
JournalProblem ==
    IF journal = Torn THEN "bad_journal"
    ELSE IF catalog = journal.before THEN "none"
    ELSE IF catalog # journal.after THEN "neither"
    ELSE IF journal.kind = "create" /\ journal.id \notin storage THEN "no_storage"
    ELSE IF journal.kind = "drop" /\ journal.id \in directory \cap trash
         THEN "trash_exists"
    ELSE "none"

\* recover_operation up to the removal of the journal: a committed drop is
\* finished by moving the directory that is still in place.
LoadJournal ==
    /\ pc = "load_journal"
    /\ \/ /\ journal = Absent
          /\ pc' = "load_orphans"
          /\ UNCHANGED <<directory, storage, trash, refusal>>
       \/ /\ journal # Absent /\ JournalProblem # "none"
          /\ Refuse(JournalProblem)
          /\ UNCHANGED <<directory, storage, trash>>
       \/ /\ journal # Absent /\ JournalProblem = "none"
          /\ IF catalog # journal.before /\ journal.kind = "drop"
                /\ journal.id \in directory
             THEN /\ directory' = directory \ {journal.id}
                  /\ storage' = storage \ {journal.id}
                  /\ trash' = trash \cup {journal.id}
             ELSE UNCHANGED <<directory, storage, trash>>
          /\ pc' = "load_unjournal"
          /\ UNCHANGED refusal
    /\ UNCHANGED <<state, pending, previous, journal, interrupted, failed,
                   orphans, catalog, handles, op, reply>>

\* recover_operation: remove_if_exists(server-operation).
LoadUnjournal ==
    /\ pc = "load_unjournal"
    /\ journal' = Absent
    /\ pc' = "load_orphans"
    /\ UNCHANGED <<state, pending, previous, interrupted, directory, storage,
                   trash, failed, orphans, catalog, handles, op, reply, refusal>>

\* Mutant: every directory is taken for an orphan.
StraysAll == directory

\* recover_orphans: the directories without an entry.
Strays == directory \ Known(catalog)

\* validate_storage, then recover_orphans one directory at a time.
LoadOrphans ==
    LET problem == IF ~(Known(catalog) \subseteq storage) THEN "no_storage"
                   ELSE IF Strays \cap orphans # {} THEN "orphan_exists"
                   ELSE "none"
    IN /\ pc = "load_orphans"
       /\ \/ /\ problem # "none" /\ Refuse(problem)
             /\ UNCHANGED <<directory, storage, orphans>>
          \/ /\ problem = "none" /\ Strays = {}
             /\ pc' = "open"
             /\ UNCHANGED <<directory, storage, orphans, refusal>>
          \/ /\ problem = "none"
             /\ \E i \in Strays : /\ directory' = directory \ {i}
                                  /\ storage' = storage \ {i}
                                  /\ orphans' = orphans \cup {i}
             /\ UNCHANGED <<pc, refusal>>
       /\ UNCHANGED <<state, pending, previous, journal, interrupted, trash,
                      failed, catalog, handles, op, reply>>

\* DatabaseDaemon::open: every Database is opened and gets a handle.
Open ==
    /\ pc = "open"
    /\ handles' = Known(catalog)
    /\ pc' = "idle"
    /\ UNCHANGED <<disk, catalog, op, reply, refusal>>

\* The process dies; what it wrote stays.
Crash ==
    /\ pc \notin {"down", "refused"}
    /\ pc' = "down"
    /\ catalog' = EmptyCatalog /\ handles' = {} /\ op' = NoOp
    /\ reply' = "none"
    /\ UNCHANGED <<disk, refusal>>

-----------------------------------------------------------------------------
Transition == \/ CreateJournal \/ FillJournal \/ CreatePending \/ FillPending
              \/ RemovePrevious \/ Preserve \/ Install \/ RollbackPending
              \/ Sync \/ RollbackSync \/ RollbackState \/ Forget \/ Unjournal

Load == \/ LoadPrevious \/ LoadPending \/ LoadStale \/ LoadState \/ LoadJournal
        \/ LoadUnjournal \/ LoadOrphans \/ Open \/ StartupFault

Step == CreateStorage \/ Transition \/ Undo \/ Commit \/ Finish \/ Load

Request == \E n \in Names : \/ CreateDatabase(n)
                            \/ DropDatabase(n)
                            \/ \E m \in Names : RenameDatabase(n, m)

Next == Request \/ Step \/ Start \/ Crash

Spec == Init /\ [][Next]_vars

\* The process keeps executing the operation or the startup it is in.
FairSpec == Spec /\ WF_vars(Step)

-----------------------------------------------------------------------------
(* Properties.                                                              *)

\* The steps of an operation before its commit point, and after it.
Working == {"create_storage", "write_journal", "fill_journal", "write_pending",
            "fill_pending", "remove_previous", "preserve", "install",
            "rollback_pending", "sync", "rollback_sync", "rollback_state",
            "unjournal", "undo"}
Committing == {"forget", "commit", "finish"}
Loading == {"load_previous", "load_pending", "load_stale", "load_state",
            "load_journal", "load_unjournal", "load_orphans", "open"}
Resting == {"idle", "down", "refused"}

Refusals == {"none", "io", "interrupted", "no_state", "bad_state", "bad_journal",
             "neither", "no_storage", "trash_exists", "orphan_exists"}

\* Types.  The catalog mutex is held (op is set) exactly during an operation, a
\* Database file lies in a directory, and only whole catalogs are ever renamed to
\* server-state.previous or server-state.
TypeOK ==
    /\ state \in Catalogs \cup {Absent}
    /\ pending \in Catalogs \cup {Absent, Torn}
    /\ previous \in Catalogs \cup {Absent}
    /\ journal \in Journals \cup {Absent, Torn}
    /\ interrupted \in BOOLEAN
    /\ storage \subseteq directory /\ directory \subseteq Ids
    /\ trash \subseteq Ids /\ failed \subseteq Ids /\ orphans \subseteq Ids
    /\ catalog \in Catalogs
    /\ handles \subseteq Ids
    /\ op \in [kind : Kinds, id : Ids, next : Catalogs] \cup {NoOp}
    /\ pc \in Working \cup Committing \cup Loading \cup Resting
    /\ (op # NoOp) <=> (pc \in Working \cup Committing)
    /\ reply \in {"none", "ok", "error"}
    /\ refusal \in Refusals

\* No crash, and no failing call, loses the catalog: server-state or, while it is
\* being replaced, server-state.previous holds a complete and valid catalog.
CatalogSurvives == Durable \in Catalogs /\ ValidCatalog(Durable)

\* "The daemon must never leave a catalog entry pointing to an absent or partially
\* replaced database" (docs/DATABASE_SERVER.md:76): in every state, also in the
\* middle of an operation or of recovery, each entry of the durable catalog has
\* its file in the active tree.
EntriesBacked == Durable \in Catalogs => Known(Durable) \subseteq storage

\* Startup may give up because a call failed, because a journal is not readable or
\* because a second interrupted catalog write finds the one quarantine file taken;
\* it never finds the data directory contradicting itself.
RefusesOnlyUnreadable == refusal \in {"none", "io", "interrupted", "bad_journal"}

\* Between operations the daemon serves the catalog that a restart would find, and
\* has an open handle for every entry, unless a reopen may fail.
ServesDurable ==
    pc = "idle" => /\ catalog = Durable
                   /\ IF MayFail("reopen") THEN handles \subseteq Known(catalog)
                                           ELSE handles = Known(catalog)

\* "A drop moves closed storage out of the active tree only after the catalog
\* transition" (docs/DATABASE_PROTOCOL.md:133); the same holds for the directories
\* that failed creates and startup move aside.
MovesOnlyClosedUncatalogued ==
    [][\A i \in storage \ storage' : i \notin Known(Durable) \cup handles]_vars

\* Create, rename and drop are atomic and durable: the specification implements
\* AtomicCatalog.  A change counts as made when sync_parent returned or, if the
\* process dies first, when the new file is in place.
Committed == IF pc \in {"sync", "rollback_sync", "rollback_state"}
             THEN catalog ELSE Durable
Phase == IF pc \in Working THEN "working"
         ELSE IF pc \in Committing THEN "committed" ELSE "idle"
Abstract == INSTANCE AtomicCatalog WITH cat <- Committed, want <- op,
                                        phase <- Phase, answer <- reply
AtomicLifecycle == Abstract!Spec

\* Every operation and every startup comes to an end, whatever fails.
Progress == (pc \notin Resting) ~> (pc \in Resting)

\* "Startup completes or rolls back a journal before accepting connections"
\* (docs/DATABASE_PROTOCOL.md:133): startup does not give up on a journal.
JournalAlwaysReadable == refusal # "bad_journal"

=============================================================================
