# Verification of nostd

TLA+ models, model-checking runs and machine-checked proofs for the database
daemon `nostd` of this repository and for its single-Database HTTP server. Paths below are relative to the repository;
`catalog.rs:214` means `src/catalog.rs`, line 214.

## The system

`nostd` owns a data directory with a catalog of named Databases and serves a
framed TCP protocol. `nostdb-server` is the older server: one Database over HTTP.

| Part | Where | State | Operations |
|---|---|---|---|
| Catalog | `catalog.rs` | `server-state`, its `.pending` and `.previous`, the journal `server-operation`, `recovery/`, `trash/` | `transition`, `finish_transition`, `load` |
| Lifecycle | `daemon.rs:217-406` | catalog mutex, map of handles, `databases/<id>/` | create, rename, drop |
| Restore | `daemon.rs:832-1433` | live file, candidate, backup, `restore-operation`, handle mutex | restore, logical import, recovery |
| Connection tasks | `protocol.rs:103-248`, spawning arms of `dispatch` | tasks, workers, tokens, active map, response channel | read, cancel, time out, join, answer, close |
| Connection state | `protocol.rs:23-42`, `dispatch` | selection, queued transaction, upload | select, begin, query, commit, rollback, upload, lifecycle |
| Accept loop | `protocol.rs:45-101` | semaphore, set of connections | accept, hello, shutdown |
| Initialization | `daemon.rs:89-138`, `738-785`, `catalog.rs:69-177`, `config.rs:234`, `280` | the tree of the data directory, credentials, configuration | `nostd init` and its two rollbacks |
| HTTP server | `api.rs`, `lib.rs` | slot with one Database, its file and backups, sessions | query, session, transaction, restore, import |
| Wire values, CLI, client | `wire.rs`, `main.rs`, `bin/nostd.rs`, `client/` | none that changes | not modelled |

How they interact: a connection reads frames one by one and answers most of them
itself; queries, commits and exports become a task with a blocking worker. Workers
and lifecycle requests meet at three locks: the catalog mutex, the map of handles
and the mutex of each handle (`Handles`). Lifecycle operations and restores change the data
directory in several file-system calls, and startup has to make sense of whatever
a crash left.

What is hard here, with the line and the properties for each, is the `hazards`
list of `PROJECT.json`. In short: crashes and failing calls between two file-system
calls, leftovers met by a later operation, two restores of one Database, a drop
beside a worker or a restore, a timeout beside a commit, a bounded channel between
three kinds of tasks, shutdown, two initializations of one directory, and a restore
without a journal.

## Modules

| Module | Models | Properties |
|---|---|---|
| `CatalogStore` | catalog and lifecycle operations, call by call | type, survival, backing, consistency, atomicity, progress |
| `AtomicCatalog` | what the catalog promises: one atomic change per request | abstract specification of `CatalogStore` |
| `CatalogStoreProofs` | the theorems about `CatalogStore`, its refinement of `AtomicCatalog` included | |
| `SnapshotRestore`, `SnapshotRestoreProofs` | replacement of one Database, its recovery, a drop beside it | never lost, only validated files, recovery decides, restores end |
| `Requests`, `RequestsProofs` | one connection as concurrent tasks | truthful, well-formed and eventual answers, orderly close |
| `Session`, `SessionProofs` | connection state of several connections over shared Databases | transactions, uploads, drops |
| `Serve`, `ServeProofs` | accept loop, permits, shutdown, the lock on the data directory | permits, deadline, one daemon at a time |
| `Handles`, `HandlesProofs` | the three levels of locks of the daemon, and who has which file open | single open, catalog and map agree, requests end |
| `DataDirectory`, `DataDirectoryProofs` | several initializations of one data directory | complete, clean failure, own removals |
| `HttpServer`, `HttpServerProofs` | the HTTP server: sessions, workers, restore, restart | truthful answers, atomic commits, nothing destroyed |
| `MC*` | values for TLC | |

The modules split the system by the granularity at which its parts interact.
`Session` takes a catalog transition and a replacement as one step, which is what
`CatalogStore` (refinement of `AtomicCatalog`) and `SnapshotRestore` justify;
`SnapshotRestore` takes the catalog transition of a drop as one step; `Serve` takes
a connection as something that starts jobs, stays, closes or stalls. In each module the comment
of a definition names the function it stands for.

### CatalogStore

A file is `Absent`, `Torn` (created, not yet complete) or holds a value. `pc` names
the next file-system call and `op` the operation that holds the catalog mutex; the
mutex makes operations exclusive, so one program counter is enough. Each call of
`FailingCalls` may return an error, with the error path the code takes. `Crash`
drops the process at any point; what it wrote stays. Writes are durable in the
order in which they are made: loss of unsynced data at a power failure is not
modelled. The vector of entries is a function from IDs to names, since the code
keeps it sorted by name. New IDs are random UUIDs, so an ID is never reused.

### SnapshotRestore

A Database file carries its contents and whether it passed open, check, adoption and
checkpoint. Preparation of the candidate needs no lock, the swap holds the mutex of
the handle. The history variable `may` holds the contents clients may find: one
value normally, two while an interrupted or failed replacement is undecided.

### Requests

Identifiers are counted from 1; a frame with a stale one is refused. The engine is
cooperative: a cancelled token allows the failure `cancelled` and forces nothing.
A worker that commits does so when it returns its success. `wire` has what the client
has read of each answer, and `refused` the stale identifiers whose refusal was written. Not modelled: panics of
workers, the queueing of workers on the handle mutex (an unbounded delay of `Work`),
and an aborted task's last poll.

### Session

Each connection has a selection (a stable ID), a queue and an upload. Workers take
three steps (catalog, map, handle), each under its own lock. `seen` and `expected`
record what the responses told a client and what it may expect of a commit. A frame
that is only answered with an error is no step. `Scripts` says what each connection
may send, which stands for the role check. Closing a connection discards its state
and leaves its workers running. A byte of an upload records its chunk, its place in it
and the length of the chunk, so that `UploadsContiguous` tells a chunk that is missing,
repeated, swapped or cut from a longer one; a restore records the upload with its declared
total, an import records none.

### Serve

The wait for the first frame does not watch the shutdown channel, so shutdown has to
cut it off. Both `select!` of the accept loop are unbiased: an accept may win
against a shutdown that has been signalled.

The lock on the data directory is a file in `DatabaseDaemon` (`daemon.rs:84`), so it is
held as long as one `Arc` of the daemon is. `references` counts them: one of
`serve_database_protocol`, one of each handler, one of each job, which is the task of a
query, commit or export together with its blocking worker. A handler that closes in order
joins its tasks; one that fails, or is aborted at the deadline or by an accept error, leaves
workers behind, also after `serve_database_protocol` has returned. `Reopen` is the next
`nostd serve` on the directory, which gets the lock when no reference is left. It is assumed
that the end of the process does not release the lock earlier: `#[tokio::main]` drops the
runtime on the way out of `main`, and that waits for blocking workers under way. A kill ends
the workers with the lock and is left to the modules with crashes.

### Handles

The threads of the daemon, each with a request of its own: a lookup in the catalog, in
the map and in the handle, each under its lock; create and drop with the catalog locked
throughout. `holders` records which engine objects have a live file open: the slot of
the handle or a thread that took the object out. Names, files and journals are left to
`Session`, `CatalogStore` and `SnapshotRestore`; list, select and rename only hold the
catalog's mutex for a moment.

### DataDirectory

Every call of `nostd init` that changes the file system is a step, for several processes
and no lock, as in the code. `owner` records who created each name; the directories that
`create_dir_all` adds above the root and for the configuration are one name each, `above`
and `parent`. A kill also strikes in the middle of a call that creates several names
(`Halfway`). The configurations are outside the data directory. A rollback is a set
of names removed in the order of `Rank`. What it found: `create_dir("databases")` is the
only thing that keeps two initializations apart, and it is enough, because the rollbacks
remove that directory last. Three small gaps remain and are excluded in
`FailedInitLeavesNothing`: an empty root stays behind when the two looks at it disagree
(`daemon.rs:99`, `catalog.rs:70`); `write_atomic` discards the errors of two removals; and
directories made above the root (`catalog.rs:94`) or for the configuration
(`config.rs:127`, `281`) are neither removed nor reported by any rollback, also when the
call that made them then fails.

### HttpServer

The contents of the Database are the sequence of statements applied to it. A request
that reaches a worker has a number, and answering is a step of its own, so that a
handler dropped by a client that went away is a request never answered. Session
requests are one step because they hold the asynchronous mutex from check to change.
In a restore, every change of the live file, a backup or the slot is a step; the
preparation of the upload and of a logical package, which only touch names of their
own, is one. A leftover temporary file is read by nobody. `refused` stands for the
errors `incompatible_snapshot` and `invalid_logical_package`. Reads and exports are left
out, and sessions have no expiry in the code.

## Runs

| Run | Instance | Result |
|---|---|---|
| `catalog_faults` | 3 IDs, 2 names, crashes, every call may fail but `rollback_state` | 8 properties hold |
| `catalog_torn_journal` | no failing call | `JournalAlwaysReadable` violated |
| `catalog_double_fault` | `install` and `rollback_state` fail | `CatalogSurvives` violated |
| `restore_faults` | 1 worker, 1 write, 3 snapshots (1 bad), every call may fail | 6 properties hold |
| `restore_concurrent` | 2 workers, no failing call | `ServesOnlyValidated` violated |
| `requests` | 2 requests, channel of 1, rows up to 1 | 6 properties hold |
| `requests_close` | same | `CloseCancels` violated |
| `session` | 2 connections, 2 names, 2 Databases, 6 frames | 6 properties hold |
| `serve` | 3 clients, 2 permits, 2 jobs | 4 properties hold |
| `http` | 3 numbered requests, 1 session with up to 2 statements, 2 failing calls, 1 crash | 4 properties hold |
| `directory` | 2 processes, 2 configuration paths, 2 failing calls, 1 kill | 3 properties hold |
| `handles` | 3 threads, 2 Databases, 4 requests | 3 properties hold |

Why the bounds are enough to meet the interesting cases. Three IDs allow a live
Database, one being created and one in the trash or set aside, and the catalog runs
have no bound on the number of operations, crashes and restarts. Two names give a
rename a free and a taken target. Three snapshots (two good, one bad) let a restore
follow another one. Two requests and a channel of one frame make every pair of kinds
concurrent and the channel full as soon as one frame is in it. Six frames are
select, begin, two statements and commit with one lifecycle operation of the other
connection in between, or begin, three chunks and commit of an upload with one;
three clients for two permits make one wait, and two jobs let one end in order while
another is left behind. Three HTTP requests are two queued
statements and their commit, or a write beside two restores; two failing calls are what
it takes to fail and to fail in undoing it, and one crash falls into any of that. Three
threads put a drop between a restore and a query of one Database; four requests let one
of them come back. Processes and configuration paths of `directory` are interchangeable, so
that run, which has safety properties only, uses symmetry. `catalog_faults`, which has
liveness, instead lets a create try only one of the identifiers that nothing in the state
names (`OneOfTheUnnamed`); they are interchangeable, and no fairness is about requests. `restore_faults` has one restore
worker, so its `RestoreEnds` is about failing calls and drops and not about waiting for the
handle mutex, which is in `handles`. As a reopen may fail in `catalog_faults`, TLC checks
there that open handles are catalogued; that every catalogued Database has one when no
reopen can fail is in the theorem `Serving`. What is proved (below) holds for every size.

Deadlock is checked except in `session`, `http` and `handles`, where the requests run
out, `serve`, where serving is over at the end, and `directory`, where every process
ends. That requests of `handles` do not block each other is `RequestsEnd`.

One call is kept from failing in `catalog_faults`: `rollback_state`, the last rename of
a failed catalog write; if it fails too, `catalog_double_fault` shows the consequence.
In `restore_faults` every call may fail. An error of the validation startup makes of an
installed snapshot undoes a restore that was acknowledged (`daemon.rs:1190`); the history
variable `may` allows the backup from that step on, and only from there.

### Fairness

`CatalogStore` and `SnapshotRestore`: the thread that executes an operation, a
restore or startup keeps running; requests, crashes and restarts are not fair.
`Requests`: Tokio polls ready tasks, the cooperative budget of the engine ends every
worker, and the client reads; nothing makes a client send, a timeout fire or a
connection fail. `Serve`: the accept loop and the timer run, and an aborted future
is dropped because every synchronous call of a handler ends; a job whose handler is gone
ends with its worker, since it has nobody to send to. Clients owe nothing, so a job whose
handler is there may wait for ever for its client to read.
`Handles`: a thread that can take its next step does, weakly fair for each thread. A
lock that is contested for ever could starve a waiter; the bound on requests excludes
that, so `RequestsEnd` is about waiting in a circle and locks never released.

### What the violations show

1. A crash inside `write_json_new` of the lifecycle journal makes every start fail,
   although the catalog is intact (`catalog.rs:380`).
2. Two failing renames and one more operation delete the last copy of the catalog
   (`catalog.rs:435`).
3. Two concurrent restores of one Database can make a file live that was never
   checked (`daemon.rs:866`).
4. A connection that ends by an error does not cancel its queries
   (`protocol.rs:209`, `233`).

## Proofs

All theorems are checked by TLAPS and hold for every value of the constants: any number
of IDs, names, threads, connections, requests, statements, chunks, processes, failing calls
and crashes. The assumptions are in each module the named `ASSUME`s that keep markers
(`Absent`, `Torn`, `Nobody`, ...) apart from real values and make limits positive, and the
hypotheses below.

| Module | Theorems | Hypothesis |
|---|---|---|
| `CatalogStoreProofs` | `Types` | |
| | `Survival`, `Backing`, `Consistency`, `ClosedMoves`, `Refinement`, `Serving` | `Reliable` |
| `SnapshotRestoreProofs` | `RestoreTypes`, `DatabaseNeverLost`, `OpensWhatClientsExpect`, `OnlyValidatedIsInstalled`, `StartupDecides` | `OneRestorer` |
| `RequestsProofs` | `RequestTypes`, `TruthfulFailures`, `OrderlyClose`, `OrderlyAnswers` | |
| `SessionProofs` | `SessionTypes`, `CommitFindsDatabase`, `AcknowledgedIsExecuted`, `ReadOnlyHolds`, `WholeSnapshots`, `DroppedIsLeftAlone` | |
| `HandlesProofs` | `SingleOpen`, `Agreement`, `NoCircularWait` | |
| `ServeProofs` | `ServeTypes`, `Permits`, `LockOutlivesWork` | |
| `DataDirectoryProofs` | `Complete`, `NothingLeft`, `OwnRemovals` | |
| `HttpServerProofs` | `ErrorsAreTruthful`, `CommitsAreWhole`, `AcknowledgedIsKept`, `UploadsAreHarmless` | |

Every theorem but `NoCircularWait` states a property of the same component's run; the
list `theorems` of `PROJECT.json` has the pairs. The invariants behind them, with what they
add to the properties, are as follows.

### CatalogStore

`Reliable` says that the call `rollback_state` does not fail; `catalog_double_fault` shows
what happens when it does. The invariant `IInv` adds to the types:

- `Good(Durable)`: the catalog a reader would find is complete, valid and backed by storage;
- `StatePresent`: `server-state` is missing only inside `write_atomic` or after a crash there;
- `FilesMatch`: for each step, how `server-state` and `server-state.previous` relate to the
  catalog in memory and to the one asked for (between the two renames, `previous` is the
  catalog in memory);
- `OperationGood`: both the old and the new catalog of an operation could be the durable
  one, so either outcome of a crash is right;
- `JournalGood`: a journal that parses names the durable catalog as one of its sides, also
  when it is a leftover of an operation that could not remove it;
- `HandlesGood`, `Apart`: open handles are catalogued, and a directory that was moved away
  is not in the active tree as well;
- `RefusesOnlyUnreadable` itself.

It is preserved action by action: the steps of a transition and of startup, with one lemma
for each conjunct and one case for each step (`StepInductive` collects them), then the
requests, start and crash (`RequestInductive`, `Inductive`). `Reliable` is needed in one
place, `RollbackState`: without it the operation would go on with a `server-state` that is
missing or that nobody acknowledged.

The refinement maps the abstract catalog to the durable one, except between the install of
the new file and the end of its sync or rollback, where it is still the old one: a change
counts as made when the sync returned or, if the process dies first, when the new file is
in place. `CommittedIs` says what the mapping is in each phase, and one lemma per group of
steps (`RequestRefines`, `TransitionRefines`, `EndRefines`, `LoadRefines`, `CrashRefines`)
finds the abstract step.

### SnapshotRestore

`OneRestorer` says that restores of one Database do not overlap; any number of them may
follow each other, beside queries, a drop, failing calls and crashes. Nothing in the code
enforces it, and `restore_concurrent` shows what two at the same time can do. `RestInv` has

- `FilesReady`: live file and backup are checked and nobody writes to them;
- `WorkerFiles`: which of live file, candidate, backup and journal exist at each step of
  the worker, and whose contents they have; in the swap, that no drop is under way;
- `BootFiles`: the same for each step of startup;
- `Recoverable`: without a complete journal the live file is there and no backup; without
  a live file there is a backup; never all three files. These are the combinations that
  `recover_snapshot_operations` decides, so it never reports an inconsistent one;
- `Expected`: where the contents are that clients may find: in the live file; from the
  first rename to the commit in the backup; and when a crash or a failure left no live
  file, in both files recovery may install.

One lemma per step shows that it is preserved; `Local`, `EndStep`, `SwapStep`, `BootStep`
and `KeepLive` have what steps of one kind share.

### Requests

`ReqInv` follows a request through its tasks. A task sends only after its worker has ended
(`Started`). An error that is left to send, in the channel or on the wire is the end of a
worker that did not commit (`Told`). `Closing` says which tasks can still run, by how far the
handler and the writer are: when the writer is done nobody holds a sender and the channel is
empty. Unless the connection failed, the end of the answer to every accepted request is
still to be computed, on its way or at the client (`Pending`).

`OrderlyAnswers` needs a second invariant, `AnswerFlow`, proved with `ReqInv` as a
hypothesis. What was sent of an answer is what its client has read followed by its frames
in the shared channel. `Joins` says so by naming the places of those frames in increasing
order, so that no recursion over the channel is needed; one lemma for each operation on the
channel (`JoinsSend`, `JoinsOther`, `JoinsWrite`, `JoinsPass`, `JoinsDrop`) says how it
changes. While a task sends, what it holds completes what was sent to a legal answer
(`Completing`), what was sent of every request is legal (`Fitting`), and an answer that has
not begun has no frame anywhere (`Waiting`). A prefix of legal frames is legal
(`FitsPrefix`), so what the client has read is.

### Session

`SessInv` relates each connection to what its client was told: the selection and the queue
are the ones `seen` has (`SeenIsActual`), a worker carries the batch and the Database that
`expected` has for its frame and no guarded statement (`JobsAgreed`), and so does every
effect (`EffectsAgreed`). An upload consists of whole chunks, once and in order, is no longer
than its declared total, and its next sequence number follows its last byte
(`UploadsFollow`); the comparison of lengths at commit makes it whole. For `DroppedIsLeftAlone` it is enough that open handles belong
to Databases of the catalog, which is part of the types.

### Handles and Serve

For `Handles`: the locks are held exactly at the steps that hold them (`LocksHeld`); a
thread owns an engine object exactly at the steps between taking and giving it back, and
then nobody else owns one of that Database (`Owners`); an identifier not given out, or in
the trash, is untouched (`Untouched`); map and catalog differ only at the steps of the
thread that holds the catalog (`MapFollows`). `NoCircularWait` follows from `LocksHeld`:
who holds a handle waits for nothing, and any other lock holder that is waited for holds
the catalog, which only threads without it wait behind (`LockOrder`). So a chain of waits
has at most two links. It is the part of `RequestsEnd` that is a safety property, for any
number of threads. For `Serve` the invariant counts: permits in
the semaphore, with the accept loop and with handlers add up to the smaller limit, with
the set of handlers finite (`PermitInv`); and references are one for serving until it has
returned or failed, one for each handler and one for each job, and a successor has found
none (`LockInv`). That no job starts after the last reference is gone follows, because only
a handler starts one.

### DataDirectory

The invariant follows who holds the directory: the process that made `databases`
(`Building`, `Holding`), through its rollback until that directory is removed
(`Removing`); so nothing on the list of a rollback can be made by another process
meanwhile. `Written` ties a configuration to a finished process, and `Accounted` says that
what a process owns, apart from the root and the directories outside of it, is what its
rollback would remove. `RootCreates`, `ConfigCreates` and `KillCreates` say which names the
calls that create several can change.

### HttpServer

`HttpInv` adds to the types:

- `Control`: the step of each worker, what it returned and what was answered; the mutex
  is held exactly at the steps of a restore after `take`;
- `Placed`: which of the live file, the upload and the backup exist at each of those steps,
  and that every stored file was checked;
- `Owned`: a statement is in one batch, in one queue, or discarded;
- `Applied`: a statement in a file belongs to a worker that has ended without an error, and
  to no queue that is pending or discarded. A crash may take the answer, never contradict it;
- `Unbroken`: every queue is one transaction in order, and every batch and every file has
  each transaction complete, in order and in one piece. It is carried from the queue through
  the batch to the file by lemmas on appending and concatenating sequences
  (`WholeAppend`, `WholeConcat`), which need that the parts share no statement (`Owned`,
  `Applied`);
- `Kept`: what a worker that reported success has written is in some file or superseded;
- `Harmless`: before the first fault, the same for the one file that is served next
  (`Live`): the live file or, from the first rename until the snapshot is open, the backup.

Steps fall into three groups (`RestoreStep`, writes, `OtherStep`), with one lemma for each
conjunct and group.

### Only model-checked

`Progress`, `RestoreEnds`, `RequestsAnswered`, `CloseEnds`, `ShutdownEnds` and
`RequestsEnd`: liveness is out of the prover's reach. Every invariant and action property
of a passing run, and the refinement, is proved.

## Not modelled

- `nostdb-engine` is a dependency. What the models assume of it (a batch commits atomically
  or not at all, `open` and `check` tell a sound file) is marked external.
- The metadata in the lock file of the data directory (the lock itself is in `Serve`), and
  a daemon started with a hand-written configuration during an initialization.
- A configuration path inside the data directory.
- HTTP reads and exports, metrics and authentication: no state a property is about.
- Conversions and limits without state: wire values, `lower_limits`, names, frame bounds,
  parsing of configuration and command lines.
- The client library: one request at a time over a blocking socket; `Requests` and
  `Session` allow clients more.
- Power failures that lose unsynced writes, panics of workers and poisoned locks.
- The packaging under `npm/` and `distribution/`.
