------------------------------- MODULE Session -------------------------------
(***************************************************************************)
(* The connection state of the database protocol (ConnectionState and the  *)
(* arms of dispatch in src/protocol.rs) over the shared catalog and        *)
(* Database handles of the daemon (src/daemon.rs): selection by stable     *)
(* identifier, the queued transaction, the snapshot upload, and the        *)
(* workers that execute statements after dispatch has moved on.            *)
(*                                                                         *)
(* A frame whose guard fails is answered with an error and changes         *)
(* nothing, so it is not a step. Catalog transitions are atomic here       *)
(* (module CatalogStore shows it), replacement of a Database file too      *)
(* (module SnapshotRestore), and responses are delivered in order (module  *)
(* Requests). The role of a connection limits what it is offered to send.  *)
(***************************************************************************)
EXTENDS Naturals, Sequences

CONSTANTS Conns,            \* connections
          Names,            \* Database names
          MaxDatabases,     \* Databases created over a run; identifiers are fresh
          MaxFrames,        \* frames that take effect over a run
          MaxStatements,    \* limits.max_transaction_statements
          MaxSnapshotBytes, \* limits.max_snapshot_bytes
          MaxChunk,         \* SNAPSHOT_CHUNK_BYTES
          Scripts,          \* what the connections may send: a set of [Conns -> SUBSET Kinds]
          None

Kinds == {"select", "query", "begin", "commit", "rollback", "create", "rename",
          "drop", "restore_begin", "restore_chunk", "restore_commit",
          "restore_abort", "logical_import"}

ASSUME SessionAssumption ==
  /\ {MaxDatabases, MaxFrames, MaxStatements, MaxSnapshotBytes, MaxChunk} \subseteq Nat \ {0}
  /\ Scripts \subseteq [Conns -> SUBSET Kinds]
  /\ None \notin 1..MaxDatabases

VARIABLES
  script,      \* what each connection sends in this behaviour
  frames,      \* frames so far; a frame's number identifies its statement
  catalog,     \* name -> identifier, or None
  created,     \* identifiers ever given out
  registered,  \* keys of the daemon's handle map
  open,        \* handles that hold Some(database)
  selected,    \* state.selected_database_id
  transaction, \* state.transaction
  upload,      \* state.restore
  jobs,        \* execute_selected and execute_selected_transaction calls under way
  effects,     \* what has been applied to Databases
  seen,        \* what the responses tell each client of its own session
  expected     \* what the client of each executing frame expects it to execute

shared == <<catalog, created, registered, open>>
session == <<selected, transaction, upload>>
vars == <<script, frames, shared, session, jobs, effects, seen, expected>>

Ids == 1..MaxDatabases
Numbers == 1..MaxFrames

\* A statement is permitted, or is a mutating one marked read_only.
Statements == [n : Numbers, does : {"permitted", "guarded"}]

\* A byte is known by the chunk it came in, its place there, and the chunk's size.
Bytes == [chunk : Nat, at : Nat, of : Nat]
Uploads == [database : Names, total : 1..MaxSnapshotBytes, next : Nat, bytes : Seq(Bytes)]
Jobs == [n : Numbers, db : Ids, batch : Seq(Statements), step : {"lookup", "handle", "run"}]
Effects(kind) == [n : Numbers, db : Ids, kind : {"run", "restore", "import"},
                  data : CASE kind = "run"     -> Seq(Statements)
                           [] kind = "restore" -> Uploads
                           [] OTHER            -> {None}]
Views == [database : Ids \cup {None}, queue : Seq(Statements)]
Expectations == [db : Ids \cup {None}, batch : Seq(Statements)]
Known == {catalog[name] : name \in Names} \ {None}
HasStatement(batch, does) == \E i \in DOMAIN batch : batch[i].does = does

\* is_admin_request aside, what dispatch refuses while a transaction is queued.
ContextKinds == {"select", "rename", "drop", "restore_begin", "restore_chunk",
                 "restore_commit", "logical_import"}

\* Types; a queue keeps to max_transaction_statements and an upload to its declared
\* size, and every open handle is registered for an entry of the catalog.
TypeOK ==
  /\ script \in [Conns -> SUBSET Kinds]
  /\ frames \in 0..MaxFrames
  /\ catalog \in [Names -> Ids \cup {None}]
  /\ created \in 0..MaxDatabases
  /\ open \subseteq registered /\ registered \subseteq Known /\ Known \subseteq 1..created
  /\ selected \in [Conns -> 1..created \cup {None}]
  /\ transaction \in [Conns -> Seq(Statements) \cup {None}]
  /\ \A c \in Conns : transaction[c] # None => Len(transaction[c]) <= MaxStatements
  /\ upload \in [Conns -> Uploads \cup {None}]
  /\ \A c \in Conns : upload[c] # None => Len(upload[c].bytes) <= upload[c].total
  /\ jobs \subseteq Jobs
  /\ \A effect \in effects : effect \in Effects(effect.kind)
  /\ seen \in [Conns -> Views]
  /\ expected \in [Numbers -> Expectations \cup {None}]

Init ==
  /\ script \in Scripts
  /\ frames = 0
  /\ \E name \in Names : catalog = [other \in Names |-> IF other = name THEN 1 ELSE None]
  /\ created = 1
  /\ registered = {1}
  /\ open = {1}
  /\ selected = [c \in Conns |-> None]
  /\ transaction = [c \in Conns |-> None]
  /\ upload = [c \in Conns |-> None]
  /\ jobs = {}
  /\ effects = {}
  /\ seen = [c \in Conns |-> [database |-> None, queue |-> <<>>]]
  /\ expected = [n \in Numbers |-> None]

-----------------------------------------------------------------------------
(* Frames: Frame counts one that takes effect.                             *)

Number == frames + 1

Frame(c, kind) ==
  /\ kind \in script[c]
  /\ frames < MaxFrames
  /\ transaction[c] # None => kind \notin ContextKinds
  /\ frames' = Number
  /\ UNCHANGED script

\* What the client concludes from the response.
Sees(c, field, value) ==
  seen' = IF field = "database" THEN [seen EXCEPT ![c].database = value]
                                ELSE [seen EXCEPT ![c].queue = value]

SelectDatabase(c, name) ==
  /\ Frame(c, "select")
  /\ catalog[name] # None
  /\ selected' = [selected EXCEPT ![c] = catalog[name]]
  /\ Sees(c, "database", catalog[name])
  /\ UNCHANGED <<shared, transaction, upload, jobs, effects, expected>>

\* Mutant: the selection is not checked.
BeginUnselected(c) ==
  /\ Frame(c, "begin")
  /\ transaction[c] = None
  /\ transaction' = [transaction EXCEPT ![c] = <<>>]
  /\ Sees(c, "queue", <<>>)
  /\ UNCHANGED <<shared, selected, upload, jobs, effects, expected>>

Begin(c) ==
  /\ Frame(c, "begin")
  /\ transaction[c] = None
  /\ selected[c] # None
  /\ transaction' = [transaction EXCEPT ![c] = <<>>]
  /\ Sees(c, "queue", <<>>)
  /\ UNCHANGED <<shared, selected, upload, jobs, effects, expected>>

\* A worker is spawned with the identifier and the statements of this moment.
Spawn(c, batch) ==
  jobs' = jobs \cup {[n |-> Number, db |-> selected[c], batch |-> batch, step |-> "lookup"]}

Expects(batch, c) ==
  expected' = [expected EXCEPT ![Number] = [db |-> seen[c].database, batch |-> batch]]

\* Mutant: one statement more than the limit.
HasCapacityInclusive(c) == Len(transaction[c]) <= MaxStatements

HasCapacity(c) == Len(transaction[c]) < MaxStatements

\* A query inside a transaction is queued, unless it asks for a stream, for
\* limits, or for one statement too many.
QueueStatement(c, does) ==
  LET statement == [n |-> Number, does |-> does] IN
  /\ Frame(c, "query")
  /\ selected[c] # None
  /\ transaction[c] # None
  /\ HasCapacity(c)
  /\ transaction' = [transaction EXCEPT ![c] = Append(@, statement)]
  /\ Sees(c, "queue", Append(seen[c].queue, statement))
  /\ UNCHANGED <<shared, selected, upload, jobs, effects, expected>>

\* Outside one it is executed. execute_selected refuses a guarded statement
\* before it touches the Database.
ExecuteStatement(c, does) ==
  LET statement == [n |-> Number, does |-> does] IN
  /\ Frame(c, "query")
  /\ selected[c] # None
  /\ transaction[c] = None
  /\ does # "guarded"
  /\ Spawn(c, <<statement>>)
  /\ Expects(<<statement>>, c)
  /\ UNCHANGED <<shared, session, effects, seen>>

\* Mutant: read_only is not enforced on a transaction.
ExecutesGuarded(batch) == TRUE

PassesReadOnly(batch) == ~HasStatement(batch, "guarded")

\* Mutant: the queue is copied, not taken.
CommitKeepsQueue(c) ==
  /\ Frame(c, "commit")
  /\ transaction[c] # None
  /\ Sees(c, "queue", <<>>)
  /\ selected[c] # None /\ PassesReadOnly(transaction[c])
  /\ Spawn(c, transaction[c])
  /\ Expects(seen[c].queue, c)
  /\ UNCHANGED <<shared, session, effects>>

\* The queue is taken whatever follows: a batch with a guarded statement is
\* refused as a whole and the transaction is over.
Commit(c) ==
  /\ Frame(c, "commit")
  /\ transaction[c] # None
  /\ transaction' = [transaction EXCEPT ![c] = None]
  /\ Sees(c, "queue", <<>>)
  /\ IF selected[c] # None /\ PassesReadOnly(transaction[c])
       THEN Spawn(c, transaction[c]) /\ Expects(seen[c].queue, c)
       ELSE UNCHANGED <<jobs, expected>>
  /\ UNCHANGED <<shared, selected, upload, effects>>

Rollback(c) ==
  /\ Frame(c, "rollback")
  /\ transaction[c] # None
  /\ transaction' = [transaction EXCEPT ![c] = None]
  /\ Sees(c, "queue", <<>>)
  /\ UNCHANGED <<shared, selected, upload, jobs, effects, expected>>

-----------------------------------------------------------------------------
(* Lifecycle requests.                                                     *)

CreateDatabase(c, name) ==
  /\ Frame(c, "create")
  /\ catalog[name] = None
  /\ created < MaxDatabases
  /\ created' = created + 1
  /\ catalog' = [catalog EXCEPT ![name] = created + 1]
  /\ registered' = registered \cup {created + 1}
  /\ open' = open \cup {created + 1}
  /\ UNCHANGED <<session, jobs, effects, seen, expected>>

RenameDatabase(c, name, newName) ==
  /\ Frame(c, "rename")
  /\ catalog[newName] = None
  /\ catalog[name] # None
  /\ catalog' = [catalog EXCEPT ![newName] = catalog[name], ![name] = None]
  /\ UNCHANGED <<created, registered, open, session, jobs, effects, seen, expected>>

\* Mutant: the handle leaves the map but keeps its Database.
LeavesOpen(db) == open

\* The handle is emptied under its own lock before it leaves the map, so a
\* worker that already holds it finds no Database.
Closes(db) == open \ {db}

\* Two failures leave a mark: the catalog transition fails and the Database
\* does not reopen, or it succeeds and the storage cannot be moved to the trash.
\* Both are answered with an error and leave the selection alone.
DropDatabase(c, name) ==
  LET db == catalog[name] IN
  /\ Frame(c, "drop")
  /\ db \in open
  /\ registered' = registered \ {db}
  /\ open' = Closes(db)
  /\ \/ /\ UNCHANGED <<catalog, selected, transaction, seen>>
     \/ /\ catalog' = [catalog EXCEPT ![name] = None]
        /\ UNCHANGED <<selected, transaction, seen>>
     \/ /\ catalog' = [catalog EXCEPT ![name] = None]
        /\ selected[c] = db
        /\ selected' = [selected EXCEPT ![c] = None]
        /\ transaction' = [transaction EXCEPT ![c] = None]
        /\ seen' = [seen EXCEPT ![c] = [database |-> None, queue |-> <<>>]]
  /\ UNCHANGED <<created, upload, jobs, effects, expected>>

-----------------------------------------------------------------------------
(* Snapshot uploads.                                                       *)

SnapshotUpload(name, total, next, bytes) ==
  [database |-> name, total |-> total, next |-> next, bytes |-> bytes]

RestoreBegin(c, name, total) ==
  /\ Frame(c, "restore_begin")
  /\ upload[c] = None
  /\ total # 0 /\ total <= MaxSnapshotBytes
  /\ catalog[name] # None
  /\ upload' = [upload EXCEPT ![c] = SnapshotUpload(name, total, 0, <<>>)]
  /\ UNCHANGED <<shared, selected, transaction, jobs, effects, seen, expected>>

\* Mutant: chunks are accepted in any order.
AnySequence(c, sequence) == TRUE

IsNext(c, sequence) == sequence = upload[c].next

Chunk(sequence, size) == [i \in 1..size |-> [chunk |-> sequence, at |-> i, of |-> size]]

RestoreChunk(c, sequence, size) ==
  LET bytes == upload[c].bytes \o Chunk(sequence, size) IN
  /\ Frame(c, "restore_chunk")
  /\ upload[c] # None
  /\ IsNext(c, sequence)
  /\ size # 0 /\ size <= MaxChunk
  /\ Len(bytes) <= upload[c].total
  /\ upload' = [upload EXCEPT ![c] = SnapshotUpload(@.database, @.total, @.next + 1, bytes)]
  /\ UNCHANGED <<shared, selected, transaction, jobs, effects, seen, expected>>

\* Replacing a Database by name fails without effect, fails and leaves its
\* handle empty, or succeeds.
Replace(name, kind, data) ==
  LET db == catalog[name] IN
  \/ UNCHANGED <<open, effects>>
  \/ db \in open /\ open' = open \ {db} /\ UNCHANGED effects
  \/ /\ db \in open
     /\ effects' = effects \cup {[n |-> Number, db |-> db, kind |-> kind, data |-> data]}
     /\ UNCHANGED open

\* An upload that is not complete stays; a complete one is taken whatever the
\* replacement does.
RestoreCommit(c) ==
  /\ Frame(c, "restore_commit")
  /\ upload[c] # None
  /\ Len(upload[c].bytes) = upload[c].total
  /\ upload' = [upload EXCEPT ![c] = None]
  /\ Replace(upload[c].database, "restore", upload[c])
  /\ UNCHANGED <<catalog, created, registered, selected, transaction, jobs, seen, expected>>

RestoreAbort(c) ==
  /\ Frame(c, "restore_abort")
  /\ upload[c] # None
  /\ upload' = [upload EXCEPT ![c] = None]
  /\ UNCHANGED <<shared, selected, transaction, jobs, effects, seen, expected>>

LogicalImport(c, name) ==
  /\ Frame(c, "logical_import")
  /\ Replace(name, "import", None)
  /\ UNCHANGED <<catalog, created, registered, session, jobs, seen, expected>>

-----------------------------------------------------------------------------
(* Workers: the catalog, then the map, then the handle, each lock released *)
(* before the next is taken.                                               *)

Advance(job, step) == jobs' = (jobs \ {job}) \cup {[job EXCEPT !.step = step]}

\* A failed lookup answers database_not_found or database_busy.
Lookup(job) ==
  /\ job.step = "lookup"
  /\ IF job.db \in Known THEN Advance(job, "handle") ELSE jobs' = jobs \ {job}
  /\ UNCHANGED <<script, frames, shared, session, effects, seen, expected>>

Handle(job) ==
  /\ job.step = "handle"
  /\ IF job.db \in registered THEN Advance(job, "run") ELSE jobs' = jobs \ {job}
  /\ UNCHANGED <<script, frames, shared, session, effects, seen, expected>>

\* The engine executes the batch atomically, or fails and changes nothing.
Run(job) ==
  /\ job.step = "run"
  /\ jobs' = jobs \ {job}
  /\ \/ UNCHANGED effects
     \/ /\ job.db \in open
        /\ effects' = effects \cup
             {[n |-> job.n, db |-> job.db, kind |-> "run", data |-> job.batch]}
  /\ UNCHANGED <<script, frames, shared, session, seen, expected>>

\* Closing a connection discards its session; jobs it spawned run on.
Close(c) ==
  /\ script[c] # {}
  /\ script' = [script EXCEPT ![c] = {}]
  /\ selected' = [selected EXCEPT ![c] = None]
  /\ transaction' = [transaction EXCEPT ![c] = None]
  /\ upload' = [upload EXCEPT ![c] = None]
  /\ seen' = [seen EXCEPT ![c] = [database |-> None, queue |-> <<>>]]
  /\ UNCHANGED <<frames, shared, jobs, effects, expected>>

-----------------------------------------------------------------------------
Dispatch(c) ==
  \/ \E name \in Names : SelectDatabase(c, name) \/ CreateDatabase(c, name)
                         \/ DropDatabase(c, name) \/ LogicalImport(c, name)
  \/ \E name, newName \in Names : RenameDatabase(c, name, newName)
  \/ \E does \in {"permitted", "guarded"} :
       QueueStatement(c, does) \/ ExecuteStatement(c, does)
  \/ Begin(c) \/ Commit(c) \/ Rollback(c)
  \/ \E name \in Names, total \in 0..MaxSnapshotBytes + 1 : RestoreBegin(c, name, total)
  \/ \E sequence \in 0..MaxSnapshotBytes, size \in 0..MaxChunk + 1 :
       RestoreChunk(c, sequence, size)
  \/ RestoreCommit(c) \/ RestoreAbort(c)

Next ==
  \/ \E c \in Conns : Dispatch(c) \/ Close(c)
  \/ \E job \in jobs : Lookup(job) \/ Handle(job) \/ Run(job)

Spec == Init /\ [][Next]_vars

-----------------------------------------------------------------------------
(* What holds.                                                             *)

\* A queued transaction always has a Database to be committed to, so the
\* "selected Database was cleared" arm of Commit is never taken, whatever the
\* connection selects or drops and whatever other connections do.
TransactionHasDatabase ==
  \A c \in Conns : transaction[c] # None => selected[c] # None

\* What a frame executes is exactly what its client was told: the statements
\* acknowledged as queued since the begin, all of them, in order, once, and on
\* the Database named by the last database_selected response, even if that
\* Database has been renamed, or dropped and its name reused, in the meantime.
ExecutesWhatWasAcknowledged ==
  \A effect \in effects :
    effect.kind = "run" =>
      expected[effect.n] = [db |-> effect.db, batch |-> effect.data]

\* A mutating statement sent with read_only is never executed, neither alone
\* nor as part of a transaction it was queued in.
ReadOnlyNeverMutates ==
  \A effect \in effects : effect.kind = "run" => ~HasStatement(effect.data, "guarded")

\* Once a Database has left the catalog nothing is applied to it, even by a
\* worker that looked it up, or fetched its handle, before the drop.
DroppedStaysUntouched ==
  [][\A effect \in effects' \ effects : effect.db \in Known]_vars

\* The byte after b: the next of its chunk, or the first of the next chunk.
Follows(b, next) ==
  IF b.at < b.of THEN next = [b EXCEPT !.at = @ + 1]
                 ELSE next.chunk = b.chunk + 1 /\ next.at = 1

\* Chunk zero, one, two and so on, each of them complete and once.
Contiguous(bytes) ==
  \A i \in DOMAIN bytes :
    /\ IF i = 1 THEN bytes[i].chunk = 0 /\ bytes[i].at = 1
                ELSE Follows(bytes[i - 1], bytes[i])
    /\ i = Len(bytes) => bytes[i].at = bytes[i].of

\* An upload that is complete and within the limits.
Whole(u) ==
  /\ Contiguous(u.bytes)
  /\ Len(u.bytes) = u.total /\ u.total \in 1..MaxSnapshotBytes
  /\ \A i \in DOMAIN u.bytes : u.bytes[i].of <= MaxChunk

\* A snapshot that replaces a Database is a whole upload: chunks zero, one, two and
\* so on, each of them complete and once, whatever the client skips, sends again or
\* cuts short, as many bytes as restore_begin declared, and within
\* max_snapshot_bytes and the chunk bound (protocol.rs:664, 706, 731, 743, 778).
UploadsContiguous ==
  \A effect \in effects : effect.kind = "restore" => Whole(effect.data)
=============================================================================
