----------------------------- MODULE HttpServer -----------------------------
(***************************************************************************)
(* The single-Database HTTP server (src/api.rs and AppState of src/lib.rs): *)
(* sessions with queued transactions, statements executed by blocking       *)
(* workers under a wall-clock timeout, and the replacement of the Database  *)
(* by a snapshot or a logical package.                                      *)
(*                                                                          *)
(* Requests that reach a worker are numbered.  A request is a handler and a *)
(* worker.  A handler that is dropped because its client went away answers  *)
(* nothing while its worker runs on: a request whose Answer is never taken. *)
(* Reads (catalog, schema, exports) change no state and are left out.       *)
(* Session requests are one step: they hold the asynchronous mutex of the   *)
(* session map from their check to their change.                            *)
(* In a restore every change of the live file, its backup or the slot is a  *)
(* step; each call may return an error, and the process may crash between   *)
(* any two steps.                                                           *)
(*                                                                          *)
(* The contents of a Database are the sequence of what was applied to it:   *)
(* the number of each statement, after that of the restore it started from. *)
(***************************************************************************)
EXTENDS Naturals, Sequences, FiniteSets, Functions

CONSTANTS
    MaxRequests,    \* requests with a number over a run
    SessionIds,     \* session identifiers; they are fresh UUIDs
    MaxSessions,    \* config.max_sessions
    MaxStatements,  \* config.max_transaction_statements
    MaxFaults,      \* calls that return an error over a run
    MaxCrashes,     \* crashes over a run
    Absent, None, Nobody

Requests == 1..MaxRequests

ASSUME HttpBounds ==
    /\ MaxRequests \in Nat /\ MaxSessions \in Nat \ {0} /\ MaxStatements \in Nat \ {0}
    /\ MaxFaults \in Nat /\ MaxCrashes \in Nat

Files == [data : Seq(Requests), checked : BOOLEAN]
File(d, c) == [data |-> d, checked |-> c]

ASSUME HttpMarkers ==
    Nobody \notin Requests /\ Absent \notin Files /\ None \notin Seq(Requests)

VARIABLES
    target,      \* the file at database_path
    temporary,   \* the uploaded file of each restore, under a name of its own
    backup,      \* the file each restore set aside, under a name of its own
    opened,      \* the slot state.database is Some
    lock,        \* the request whose worker holds its mutex across steps
    up,          \* the process serves
    sessions,    \* the keys of the session map
    unused,      \* the identifiers never given out
    transaction, \* the queue of each session, or None
    last,        \* the number of requests so far
    kind,        \* what each request is: "write", "queued", "restore"
    batch,       \* the statements a write executes
    pc,          \* the next step of each worker, or "done"
    late,        \* the requests whose CancellationToken is cancelled
    outcome,     \* what each worker returned
    answer,      \* what each client was answered
    tx,          \* history: the first statement of the transaction of each statement
    discarded,   \* history: the statements of transactions that were discarded
    superseded,  \* history: what a restore replaced
    faults,      \* the calls that failed so far
    crashes,     \* the crashes so far
    cut          \* history: a crash fell between the two renames of a restore

files == <<target, temporary, backup>>
slot == <<opened, lock, up>>
store == <<sessions, unused, transaction>>
work == <<kind, batch>>
history == <<tx, discarded, superseded, faults, crashes, cut>>
vars == <<files, slot, store, last, work, pc, late, outcome, answer, history>>


Init ==
    /\ target = File(<<>>, TRUE)
    /\ temporary = [n \in Requests |-> Absent] /\ backup = [n \in Requests |-> Absent]
    /\ opened = TRUE /\ lock = Nobody /\ up = TRUE
    /\ sessions = {} /\ unused = SessionIds
    /\ transaction = [s \in SessionIds |-> None]
    /\ last = 0
    /\ kind = [n \in Requests |-> "none"]
    /\ batch = [n \in Requests |-> <<>>]
    /\ pc = [n \in Requests |-> "done"]
    /\ late = {}
    /\ outcome = [n \in Requests |-> "none"]
    /\ answer = [n \in Requests |-> "none"]
    /\ tx = [n \in Requests |-> 0]
    /\ discarded = {} /\ superseded = {}
    /\ faults = 0 /\ crashes = 0 /\ cut = FALSE

-----------------------------------------------------------------------------
(* Requests and their workers.                                              *)

Number == last + 1

\* A request takes the next number; a worker is spawned at the step `here`.
Arrive(k, b, here) ==
    /\ up /\ last < MaxRequests
    /\ last' = Number
    /\ kind' = [kind EXCEPT ![Number] = k]
    /\ batch' = [batch EXCEPT ![Number] = b]
    /\ pc' = [pc EXCEPT ![Number] = here]

\* query, and session_query when the session has no transaction: there the mutex of
\* the session map is released before the statement is executed.
Query ==
    /\ Arrive("write", <<Number>>, "execute")
    /\ UNCHANGED <<files, slot, store, late, outcome, answer, history>>

\* The worker returns: its guard, if it holds one, is dropped.
Return(n, result) ==
    /\ pc' = [pc EXCEPT ![n] = "done"]
    /\ outcome' = [outcome EXCEPT ![n] = result]
    /\ lock' = IF lock = n THEN Nobody ELSE lock

\* What no step of a worker changes.
Handlers == UNCHANGED <<up, store, last, work, late, answer, tx, discarded, crashes, cut>>

\* execute_one and execute_batch check their deadline before they take the mutex.
\* The clock is past it some time after the request was made.
DeadlinePassed(n) ==
    /\ pc[n] = "execute"
    /\ Return(n, "cancelled")
    /\ UNCHANGED <<files, opened, superseded, faults>> /\ Handlers

\* Under the mutex the engine applies the whole batch or nothing; a cancelled token
\* permits the failure "cancelled" and forces nothing.
Execute(n) ==
    /\ pc[n] = "execute" /\ lock = Nobody
    /\ \/ ~opened /\ Return(n, "internal_error") /\ UNCHANGED target
       \/ /\ opened /\ Return(n, "ok")
          /\ target' = [target EXCEPT !.data = @ \o batch[n]]
       \/ /\ opened /\ UNCHANGED target
          /\ \E error \in {"failed"} \cup (IF n \in late THEN {"cancelled"} ELSE {}) :
                Return(n, error)
    /\ UNCHANGED <<temporary, backup, opened, superseded, faults>> /\ Handlers

\* The timer of a statement fires before its worker is ready: the token is cancelled
\* and finish_timeout goes on waiting.
Timer(n) ==
    /\ kind[n] = "write" /\ n \notin late
    /\ pc[n] # "done"
    /\ late' = late \cup {n}
    /\ UNCHANGED <<files, slot, store, last, work, pc, outcome, answer, history>>

\* Mutant: a timeout is answered without waiting for the worker.
WorkerReadyOrLate(n) == (pc[n] = "done" /\ outcome[n] # "none") \/ n \in late

WorkerReady(n) == pc[n] = "done" /\ outcome[n] # "none"

\* The handler answers what the worker returned, whether or not the timer fired;
\* only the engine's "cancelled" becomes query_timeout.
Answer(n) ==
    /\ up /\ answer[n] = "none" /\ n \in 1..last
    /\ WorkerReady(n)
    /\ answer' = [answer EXCEPT ![n] =
                    IF outcome[n] \in {"cancelled", "none"} THEN "query_timeout" ELSE outcome[n]]
    /\ outcome' = [outcome EXCEPT ![n] = "none"]
    /\ late' = late \ {n}
    /\ UNCHANGED <<files, slot, store, last, work, pc, history>>

-----------------------------------------------------------------------------
(* Sessions.                                                                *)

\* What no session request changes.
Elsewhere == UNCHANGED <<files, slot, late, outcome, superseded, faults, crashes, cut>>

CreateSession(s) ==
    /\ up /\ s \in unused
    /\ Cardinality(sessions) < MaxSessions
    /\ sessions' = sessions \cup {s} /\ unused' = unused \ {s}
    /\ UNCHANGED <<transaction, last, work, pc, answer, tx, discarded>> /\ Elsewhere

Queued(s) == IF transaction[s] = None THEN {} ELSE Range(transaction[s])

DeleteSession(s) ==
    /\ up /\ s \in sessions
    /\ sessions' = sessions \ {s}
    /\ transaction' = [transaction EXCEPT ![s] = None]
    /\ discarded' = discarded \cup Queued(s)
    /\ UNCHANGED <<unused, last, work, pc, answer, tx>> /\ Elsewhere

Begin(s) ==
    /\ up /\ s \in sessions
    /\ transaction[s] = None
    /\ transaction' = [transaction EXCEPT ![s] = <<>>]
    /\ UNCHANGED <<sessions, unused, last, work, pc, answer, tx, discarded>> /\ Elsewhere

\* session_query during a transaction: validated, pushed and answered "queued".
Queue(s) ==
    LET queue == transaction[s] IN
    /\ s \in sessions /\ queue # None
    /\ Len(queue) < MaxStatements
    /\ Arrive("queued", <<>>, "done")
    /\ transaction' = [transaction EXCEPT ![s] = Append(queue, Number)]
    /\ tx' = [tx EXCEPT ![Number] = IF queue = <<>> THEN Number ELSE Head(queue)]
    /\ answer' = [answer EXCEPT ![Number] = "queued"]
    /\ UNCHANGED <<sessions, unused, discarded>> /\ Elsewhere

\* Mutant: the queue is copied, not taken.
CommitCopies(s) ==
    /\ s \in sessions /\ transaction[s] # None
    /\ Arrive("write", transaction[s], "execute")
    /\ UNCHANGED <<store, answer, tx, discarded>> /\ Elsewhere

\* The queue is taken, whatever becomes of the batch, and executed after the mutex
\* of the session map is released.
Commit(s) ==
    /\ s \in sessions /\ transaction[s] # None
    /\ Arrive("write", transaction[s], "execute")
    /\ transaction' = [transaction EXCEPT ![s] = None]
    /\ UNCHANGED <<sessions, unused, answer, tx, discarded>> /\ Elsewhere

Rollback(s) ==
    /\ up /\ s \in sessions
    /\ transaction[s] # None
    /\ transaction' = [transaction EXCEPT ![s] = None]
    /\ discarded' = discarded \cup Queued(s)
    /\ UNCHANGED <<sessions, unused, last, work, pc, answer, tx>> /\ Elsewhere

-----------------------------------------------------------------------------
(* restore_snapshot, for import_snapshot and import_logical.                *)

Fails == faults < MaxFaults /\ faults' = faults + 1
Works == UNCHANGED faults

ImportSnapshot ==
    /\ Arrive("restore", <<>>, "prepare")
    /\ UNCHANGED <<files, slot, store, late, outcome, answer, history>>

\* import_logical: the worker first builds a Database from the package, in a directory
\* of its own that nobody else sees and that it removes; a package that is no good, or
\* a call that fails, ends the request before anything is restored.
ImportLogical ==
    /\ \/ Works /\ Arrive("restore", <<>>, "prepare") /\ UNCHANGED outcome
       \/ /\ Arrive("restore", <<>>, "done")
          /\ \/ Works /\ outcome' = [outcome EXCEPT ![Number] = "refused"]
             \/ Fails /\ outcome' = [outcome EXCEPT ![Number] = "internal_error"]
    /\ UNCHANGED <<files, slot, store, late, answer, tx, discarded, superseded, crashes, cut>>

At(n, here) == up /\ pc[n] = here
Go(n, there) == pc' = [pc EXCEPT ![n] = there] /\ UNCHANGED <<lock, outcome>>

Put(place, n, f) == [place EXCEPT ![n] = f]

\* The closure returns, its guard is dropped and the temporary file removed, if it is
\* there.  A file that could not be removed is read by nobody: its name is unique.
Leave(n, result) == Return(n, result) /\ temporary' = Put(temporary, n, Absent)

\* Mutant: an upload is installed before it is known to be sound.
PrepareUnchecked(n) ==
    /\ At(n, "prepare") /\ Works /\ Go(n, "take")
    /\ \E sound \in BOOLEAN : temporary' = Put(temporary, n, File(<<n>>, sound))
    /\ UNCHANGED <<target, backup, opened, superseded>> /\ Handlers

\* The upload goes to a file of its own (create_new, write_all, sync_all), which is
\* opened, checked, adopted and checkpointed, without the mutex.  Refused stands for
\* the errors incompatible_snapshot and invalid_logical_package.
Prepare(n) ==
    /\ At(n, "prepare")
    /\ \/ Works /\ Go(n, "take") /\ temporary' = Put(temporary, n, File(<<n>>, TRUE))
       \/ Works /\ Leave(n, "refused")
       \/ Fails /\ \E error \in {"internal_error", "refused"} : Leave(n, error)
    /\ UNCHANGED <<target, backup, opened, superseded>> /\ Handlers

\* lock, take and the checkpoint of the current Database.  The slot is empty when an
\* earlier restore could not fill it, and stays empty when the checkpoint fails.
Take(n) ==
    /\ At(n, "take") /\ lock = Nobody
    /\ \/ ~opened /\ Works /\ Leave(n, "internal_error")
       \/ /\ opened /\ Works /\ lock' = n
          /\ pc' = [pc EXCEPT ![n] = "preserve"] /\ UNCHANGED <<outcome, temporary>>
       \/ opened /\ Fails /\ Leave(n, "refused")
    /\ opened' = FALSE
    /\ UNCHANGED <<target, backup, superseded>> /\ Handlers

\* rename(target, backup).
Preserve(n) ==
    /\ At(n, "preserve")
    /\ \/ /\ Works /\ Go(n, "install")
          /\ backup' = Put(backup, n, target) /\ target' = Absent
       \/ Fails /\ Go(n, "reopen") /\ UNCHANGED <<target, backup>>
    /\ UNCHANGED <<temporary, opened, superseded>> /\ Handlers

\* rename(temporary, target).
Install(n) ==
    /\ At(n, "install")
    /\ \/ /\ Works /\ Go(n, "open")
          /\ target' = temporary[n] /\ temporary' = Put(temporary, n, Absent)
       \/ Fails /\ Go(n, "undo") /\ UNCHANGED <<target, temporary>>
    /\ UNCHANGED <<backup, opened, superseded>> /\ Handlers

\* The installed file is opened: the restore has taken effect.
OpenTarget(n) ==
    /\ At(n, "open")
    /\ \/ /\ Works /\ opened' = TRUE /\ Go(n, "cleanup")
          /\ superseded' = superseded \cup Range(backup[n].data)
       \/ Fails /\ Go(n, "remove_target") /\ UNCHANGED <<opened, superseded>>
    /\ UNCHANGED files /\ Handlers

\* Removal of the backup; its failure is reported for a restore that took effect.
Cleanup(n) ==
    /\ At(n, "cleanup")
    /\ \/ Works /\ Leave(n, "ok") /\ backup' = Put(backup, n, Absent)
       \/ Fails /\ Leave(n, "internal_error") /\ UNCHANGED backup
    /\ UNCHANGED <<target, opened, superseded>> /\ Handlers

\* Errors of the next two calls are ignored.
RemoveTarget(n) ==
    /\ At(n, "remove_target") /\ Go(n, "undo")
    /\ \/ Works /\ target' = Absent
       \/ Fails /\ UNCHANGED target
    /\ UNCHANGED <<temporary, backup, opened, superseded>> /\ Handlers

\* Mutant: the backup is removed, not renamed.
UndoRemoves(n) ==
    /\ At(n, "undo") /\ Go(n, "reopen") /\ Works
    /\ backup' = Put(backup, n, Absent)
    /\ UNCHANGED <<target, temporary, opened, superseded>> /\ Handlers

\* rename(backup, target).
Undo(n) ==
    /\ At(n, "undo") /\ Go(n, "reopen")
    /\ \/ Works /\ target' = backup[n] /\ backup' = Put(backup, n, Absent)
       \/ Fails /\ UNCHANGED <<target, backup>>
    /\ UNCHANGED <<temporary, opened, superseded>> /\ Handlers

\* *guard = EmbeddedDatabase::open(target).ok().
Reopen(n) ==
    /\ At(n, "reopen") /\ Leave(n, "internal_error")
    /\ \/ Works /\ opened' = (target # Absent)
       \/ Fails /\ UNCHANGED opened
    /\ UNCHANGED <<target, backup, superseded>> /\ Handlers

-----------------------------------------------------------------------------
(* The process.                                                             *)

\* Handlers, workers, sessions and locks are lost, files stay.  A crash after the
\* second rename leaves the snapshot in place, one between the two no target.
Crash ==
    /\ up /\ up' = FALSE /\ opened' = FALSE /\ lock' = Nobody
    /\ sessions' = {}
    /\ transaction' = [s \in SessionIds |-> None]
    /\ pc' = [n \in Requests |-> "done"]
    /\ discarded' = discarded \cup UNION {Queued(s) : s \in SessionIds}
    /\ superseded' = superseded \cup
          UNION {Range(backup[n].data) : n \in {m \in Requests : pc[m] = "open"}}
    /\ cut' = (cut \/ \E n \in Requests : pc[n] = "install")
    /\ crashes < MaxCrashes /\ crashes' = crashes + 1
    /\ outcome' = [n \in Requests |-> "none"] /\ late' = {}
    /\ UNCHANGED <<files, unused, last, work, answer, tx, faults>>

\* AppState::new opens the file at the path, or creates an empty Database there.
Start ==
    /\ ~up /\ up' = TRUE /\ opened' = TRUE
    /\ target' = IF target = Absent THEN File(<<>>, TRUE) ELSE target
    /\ UNCHANGED <<temporary, backup, lock, store, last, work, pc, late, outcome,
                   answer, history>>

Work(n) == \/ DeadlinePassed(n) \/ Execute(n)
           \/ Prepare(n) \/ Take(n)
           \/ Preserve(n) \/ Install(n) \/ OpenTarget(n) \/ Cleanup(n) \/ RemoveTarget(n)
           \/ Undo(n) \/ Reopen(n)

Next ==
    \/ Query \/ ImportSnapshot \/ ImportLogical
    \/ \E s \in SessionIds : \/ CreateSession(s) \/ DeleteSession(s) \/ Begin(s)
                             \/ Queue(s) \/ Commit(s) \/ Rollback(s)
    \/ \E n \in Requests : Work(n) \/ Timer(n) \/ Answer(n)
    \/ Crash \/ Start

Spec == Init /\ [][Next]_vars

-----------------------------------------------------------------------------
(* Properties.                                                              *)

Stored == {f \in {target} \cup Range(backup) : f # Absent}
Written == UNION {Range(f.data) : f \in Stored}

Acknowledged ==
    UNION {IF kind[n] = "restore" THEN {n} ELSE Range(batch[n]) :
             n \in {m \in Requests : answer[m] = "ok"}}

\* "A write that reaches a limit or timeout is rolled back before the error response
\* is returned" (docs/HTTP_API.md:56) and "never claim a committed write timed out"
\* (api.rs:436): a statement or transaction that was answered with an error is in no
\* file, and no worker is left that could still write it; an upload refused as
\* incompatible is not served.
TruthfulAnswers ==
    \A n \in Requests :
       /\ kind[n] = "write" /\ answer[n] \notin {"none", "ok"} =>
             pc[n] = "done" /\ Range(batch[n]) \cap Written = {}
       /\ answer[n] = "refused" /\ target # Absent => n \notin Range(target.data)

\* "Commit is all-or-nothing" (docs/HTTP_API.md:83), for any mix of requests for the
\* same session: a file that holds one statement of a transaction holds all that were
\* acknowledged as queued in it, in order, next to each other and once; a queue that
\* is pending or was discarded has left no trace.
AllOrNothing ==
    /\ \A f \in Stored : \A i \in DOMAIN f.data :
          LET n == f.data[i]
              mates == {m \in Requests : tx[n] # 0 /\ tx[m] = tx[n]}
          IN /\ \A j \in DOMAIN f.data : f.data[j] = n => j = i
             /\ mates \subseteq Range(f.data)
             /\ i > 1 /\ n \in mates /\ n # tx[n] =>
                   f.data[i - 1] \in mates /\ f.data[i - 1] < n
    /\ Written \cap (discarded \cup UNION {Queued(s) : s \in SessionIds}) = {}

\* Whatever fails or crashes, no acknowledged write or restore is destroyed: unless a
\* later restore took effect it is in the live file or in a backup beside it, also
\* when the next start serves an empty Database (lib.rs:179).
NothingDestroyed ==
    \A n \in Acknowledged : n \in superseded \cup Written

\* "An incompatible or corrupt upload leaves the live database untouched"
\* (docs/HTTP_API.md:110).  Until a call of the file system or of the engine fails, or
\* the process dies between the two renames, no bad upload, timeout, disconnect,
\* concurrent restore or restart makes the Database unavailable or loses a write: it
\* is open whenever its mutex is free, was checked, and holds what was acknowledged.
HarmlessWithoutFault ==
    up /\ faults = 0 /\ ~cut /\ lock = Nobody =>
       /\ opened /\ target # Absent /\ target.checked
       /\ Acknowledged \subseteq superseded \cup Range(target.data)

=============================================================================
