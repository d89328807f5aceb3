--------------------------- MODULE SnapshotRestore --------------------------
(***************************************************************************)
(* Replacing one managed Database by a snapshot, and the recovery of an    *)
(* interrupted replacement at startup (src/daemon.rs, functions            *)
(* restore_snapshot_with_operations and recover_snapshot_operations).      *)
(*                                                                         *)
(* Restorers are the blocking workers that serve snapshot_restore_commit   *)
(* and logical import requests.  Each call that changes the Database       *)
(* directory is a step of its own.  The preparation of a candidate runs    *)
(* without a lock; the swap runs under the mutex of the Database handle.   *)
(* The process may crash between any two steps, and each call named in     *)
(* FailingCalls may return an error.  A drop of the same Database runs     *)
(* beside them; CatalogStore has the steps of its catalog transition, here *)
(* the transition is one step.                                             *)
(*                                                                         *)
(* A Database file is [data, ready, by]: data is its contents, or Torn     *)
(* while it is being written, by is the worker that is writing it, and     *)
(* ready says that the file was opened, passed the integrity check, was    *)
(* adopted for the Server and checkpointed.                                *)
(***************************************************************************)
EXTENDS Naturals, FiniteSets

CONSTANTS
    Restorers,    \* concurrent restore workers of this Database
    Original,     \* the contents before anything happens
    Writes,       \* contents that committed queries produce
    Snapshots,    \* uploaded contents
    Bad,          \* the uploads that fail the integrity check
    Absent, Torn, Nobody,
    FailingCalls  \* the calls that may return an error

Contents == {Original} \cup Writes \cup Snapshots

Files == [data : Contents \cup {Torn}, ready : BOOLEAN, by : Restorers \cup {Nobody}]

Calls == {"clean", "write_candidate", "validate", "write_journal", "remove_partial",
          "checkpoint", "sync", "preserve", "install", "rollback", "open", "remove_live",
          "remove", "transition", "revalidate", "startup"}

ASSUME ContentAssumption == Torn \notin Contents /\ Bad \subseteq Snapshots
                            /\ Original \notin Bad /\ Writes \cap Bad = {}
ASSUME FileAssumption == Absent \notin Files
ASSUME JournalAssumption == Absent # Torn /\ Absent # "prepared" /\ Torn # "prepared"
ASSUME WorkerAssumption == Nobody \notin Restorers
ASSUME CallAssumption == FailingCalls \subseteq Calls

VARIABLES
    live,      \* database.nostdb
    candidate, \* database.nostdb.restore-candidate
    backup,    \* database.nostdb.restore-backup
    journal,   \* restore-operation: Absent, Torn or "prepared"
    opened,    \* ManagedDatabase.database is Some
    lock,      \* the worker that holds its mutex
    drop,      \* a drop: "no", "taken", "committed" to the catalog, storage "gone";
               \* "lost" when it failed and the handle is not in the map any more
    mode,      \* the process: "down", a step of startup, "serving", "refused"
    refusal,   \* why startup failed
    pc,        \* the next step of each worker
    snapshot,  \* what each worker installs
    result,    \* what each worker answered
    may        \* history: the contents clients may find

files == <<live, candidate, backup, journal>>
workers == <<pc, snapshot, result>>
vars == <<files, opened, lock, drop, mode, refusal, workers, may>>

MayFail(call) == call \in FailingCalls

File(d, r) == [data |-> d, ready |-> r, by |-> Nobody]

Init ==
    /\ live = File(Original, TRUE)
    /\ candidate = Absent /\ backup = Absent /\ journal = Absent
    /\ opened = FALSE /\ lock = Nobody /\ drop = "no" /\ mode = "down" /\ refusal = "none"
    /\ pc = [r \in Restorers |-> "idle"]
    /\ snapshot = [r \in Restorers |-> Original]
    /\ result = [r \in Restorers |-> "none"]
    /\ may = {Original}

-----------------------------------------------------------------------------
(* Reading Database files (the Engine).                                     *)

\* Open succeeds on a complete file; it does not check the integrity.
Opens(f) == f # Absent /\ f.data # Torn
OpenMayFail(f) == ~Opens(f) \/ f.data \in Bad \/ MayFail("open")

\* Open and check.
Sound(f) == Opens(f) /\ f.data \notin Bad

-----------------------------------------------------------------------------
(* Clients of the Database.                                                 *)

\* A query or transaction commits (execute_selected, under the mutex).
Write(w) ==
    /\ mode = "serving" /\ opened /\ lock = Nobody
    /\ live' = File(w, TRUE) /\ may' = {w}
    /\ UNCHANGED <<candidate, backup, journal, opened, lock, drop, mode, refusal, workers>>

At(r, here) == mode = "serving" /\ pc[r] = here
Go(r, there) == pc' = [pc EXCEPT ![r] = there] /\ UNCHANGED <<lock, result, may>>

\* The closure of the restore returns an error and drops its guard.  When it leaves
\* the Database closed, the client cannot know yet which contents a restart finds.
Fail(r, why) ==
    /\ pc' = [pc EXCEPT ![r] = "tail"]
    /\ result' = [result EXCEPT ![r] = why]
    /\ lock' = IF lock = r THEN Nobody ELSE lock
    /\ may' = IF lock = r /\ ~opened THEN may \cup {snapshot[r]} ELSE may

\* An early return, before the closure.
Refused(r, why) ==
    /\ pc' = [pc EXCEPT ![r] = "idle"]
    /\ result' = [result EXCEPT ![r] = why]
    /\ UNCHANGED <<lock, may>>

\* What no step of a worker changes.
Same == UNCHANGED <<drop, mode, refusal, snapshot>>

\* restore_snapshot, and import_logical with the file it built: an empty snapshot
\* or a package that does not build is rejected at once.
Begin(r, s) ==
    /\ At(r, "idle") /\ drop = "no"
    /\ \/ /\ snapshot' = [snapshot EXCEPT ![r] = s]
          /\ result' = [result EXCEPT ![r] = "none"]
          /\ pc' = [pc EXCEPT ![r] = "clean"]
          /\ UNCHANGED <<lock, may>>
       \/ Refused(r, "incompatible") /\ UNCHANGED snapshot
    /\ UNCHANGED <<files, opened, drop, mode, refusal>>

-----------------------------------------------------------------------------
(* Preparation, without a lock.                                             *)

\* cleanup_unjournaled_restore_candidate, for a restore and for startup.
Unjournaled == journal = Absent /\ (candidate # Absent \/ backup # Absent)
Cleanable == live # Absent /\ candidate # Absent /\ backup = Absent
RemoveCandidate == candidate' = Absent

Clean(r) ==
    /\ At(r, "clean")
    /\ \/ ~Unjournaled /\ Go(r, "check") /\ UNCHANGED candidate
       \/ Unjournaled /\ Cleanable /\ RemoveCandidate /\ Go(r, "check")
       \/ Unjournaled /\ ~Cleanable /\ Refused(r, "internal") /\ UNCHANGED candidate
       \/ /\ Unjournaled /\ Cleanable /\ MayFail("clean") /\ Refused(r, "internal")
          /\ RemoveCandidate \/ UNCHANGED candidate
    /\ UNCHANGED <<live, backup, journal, opened>> /\ Same

Check(r) ==
    /\ At(r, "check")
    /\ IF candidate = Absent /\ backup = Absent /\ journal = Absent
       THEN Go(r, "write_candidate")
       ELSE Refused(r, "recovery_required")
    /\ UNCHANGED <<files, opened>> /\ Same

\* write_new_synced(candidate): create_new refuses an existing file.
CreateCandidate(r) ==
    /\ At(r, "write_candidate")
    /\ \/ /\ candidate = Absent /\ drop # "gone"
          /\ candidate' = [data |-> Torn, ready |-> FALSE, by |-> r]
          /\ Go(r, "fill_candidate")
       \/ /\ candidate # Absent \/ drop = "gone" \/ MayFail("write_candidate")
          /\ Fail(r, "internal") /\ UNCHANGED candidate
    /\ UNCHANGED <<live, backup, journal, opened>> /\ Same

\* write_all and sync_all: the bytes go to the file this worker created, whatever
\* its name is by now.  A failure removes what is named candidate.
Written(f, r, d) == IF f # Absent /\ f.by = r THEN File(d, FALSE) ELSE f

FillCandidate(r) ==
    /\ At(r, "fill_candidate")
    /\ \E d \in {snapshot[r], Torn} :
          /\ live' = Written(live, r, d) /\ backup' = Written(backup, r, d)
          /\ \/ /\ d # Torn /\ Go(r, "validate")
                /\ candidate' = Written(candidate, r, d)
             \/ /\ d = Torn /\ MayFail("write_candidate") /\ Fail(r, "internal")
                /\ \/ RemoveCandidate
                   \/ MayFail("remove_partial") /\ candidate' = Written(candidate, r, d)
    /\ UNCHANGED <<journal, opened>> /\ Same

\* Mutant: the candidate is not adopted for the Server.
ValidateOnly(r) ==
    /\ At(r, "validate")
    /\ IF Sound(candidate) THEN Go(r, "write_journal") ELSE Fail(r, "incompatible")
    /\ UNCHANGED <<files, opened>> /\ Same

\* open, check, adopt_server_authority, checkpoint of the file named candidate.
Validate(r) ==
    /\ At(r, "validate")
    /\ \/ /\ Sound(candidate)
          /\ candidate' = File(candidate.data, TRUE)
          /\ Go(r, "write_journal")
       \/ /\ ~Sound(candidate) \/ MayFail("validate")
          /\ Fail(r, "incompatible") /\ UNCHANGED candidate
    /\ UNCHANGED <<live, backup, journal, opened>> /\ Same

\* write_restore_journal.
CreateJournal(r) ==
    /\ At(r, "write_journal")
    /\ \/ /\ journal = Absent /\ drop # "gone"
          /\ journal' = Torn /\ Go(r, "fill_journal")
       \/ /\ journal # Absent \/ drop = "gone" \/ MayFail("write_journal")
          /\ Fail(r, "internal") /\ UNCHANGED journal
    /\ UNCHANGED <<live, candidate, backup, opened>> /\ Same

\* The rest of it, and sync_restore_directory.
FillJournal(r) ==
    /\ At(r, "fill_journal")
    /\ \/ journal = Torn /\ journal' = "prepared" /\ Go(r, "lock")
       \/ journal = Torn /\ MayFail("sync") /\ journal' = "prepared" /\ Fail(r, "internal")
       \/ drop = "gone" /\ Fail(r, "internal") /\ UNCHANGED journal
       \/ /\ MayFail("write_journal") /\ Fail(r, "internal")
          /\ journal' = Absent \/ (MayFail("remove_partial") /\ UNCHANGED journal)
    /\ UNCHANGED <<live, candidate, backup, opened>> /\ Same

-----------------------------------------------------------------------------
(* The swap, under the mutex of the handle.                                 *)

\* Mutant: waits until somebody opens the Database.
TakeWaits(r) ==
    /\ At(r, "lock") /\ lock = Nobody
    /\ opened /\ opened' = FALSE /\ lock' = r
    /\ pc' = [pc EXCEPT ![r] = "checkpoint"]
    /\ UNCHANGED <<files, result, may>> /\ Same

\* lock and take: a handle that an earlier restore left empty is busy.
Take(r) ==
    /\ At(r, "lock") /\ lock = Nobody
    /\ \/ /\ opened /\ opened' = FALSE /\ lock' = r
          /\ pc' = [pc EXCEPT ![r] = "checkpoint"]
          /\ UNCHANGED <<result, may>>
       \/ ~opened /\ Fail(r, "busy") /\ UNCHANGED opened
    /\ UNCHANGED files /\ Same

Checkpoint(r) ==
    /\ At(r, "checkpoint")
    /\ \/ Go(r, "preserve") /\ UNCHANGED opened
       \/ MayFail("checkpoint") /\ opened' = TRUE /\ Go(r, "uncommit_candidate")
    /\ UNCHANGED files /\ Same

\* Mutant: the live file is removed, not kept.
PreserveRemoves(r) ==
    /\ At(r, "preserve") /\ live' = Absent /\ Go(r, "sync_preserved")
    /\ UNCHANGED <<candidate, backup, journal, opened>> /\ Same

\* rename(live, backup).
Preserve(r) ==
    /\ At(r, "preserve")
    /\ \/ /\ live # Absent
          /\ backup' = live /\ live' = Absent
          /\ Go(r, "sync_preserved")
       \/ /\ live = Absent \/ MayFail("preserve")
          /\ Go(r, "reopen") /\ UNCHANGED <<live, backup>>
    /\ UNCHANGED <<candidate, journal, opened>> /\ Same

\* rename(candidate, live).
Install(r) ==
    /\ At(r, "install")
    /\ \/ /\ candidate # Absent
          /\ live' = candidate /\ RemoveCandidate
          /\ Go(r, "sync_installed")
       \/ /\ candidate = Absent \/ MayFail("install")
          /\ Go(r, "rollback") /\ UNCHANGED <<live, candidate>>
    /\ UNCHANGED <<backup, journal, opened>> /\ Same

\* rename(backup, live), after a failed install or a removed installation.
Rollback(r) ==
    /\ At(r, "rollback")
    /\ \/ /\ backup # Absent
          /\ live' = backup /\ backup' = Absent
          /\ Go(r, "sync_rolled_back")
       \/ /\ backup = Absent \/ MayFail("rollback")
          /\ Fail(r, "recovery_required") /\ UNCHANGED <<live, backup>>
    /\ UNCHANGED <<candidate, journal, opened>> /\ Same

\* sync_restore_directory after each rename and removal of the swap; the error
\* leaves the Database closed.
AfterSync == [sync_preserved |-> "install", sync_installed |-> "open_installed",
              sync_removed |-> "rollback", sync_rolled_back |-> "reopen"]

Sync(r) ==
    /\ mode = "serving" /\ pc[r] \in DOMAIN AfterSync
    /\ Go(r, AfterSync[pc[r]]) \/ (MayFail("sync") /\ Fail(r, "internal"))
    /\ UNCHANGED <<files, opened>> /\ Same

\* The live Database is opened again after a failed or undone rename.
Reopen(r) ==
    /\ At(r, "reopen")
    /\ \/ Opens(live) /\ opened' = TRUE /\ Go(r, "uncommit_candidate")
       \/ OpenMayFail(live) /\ Fail(r, "recovery_required") /\ UNCHANGED opened
    /\ UNCHANGED files /\ Same

\* The installed snapshot is opened: the restore is committed.
OpenInstalled(r) ==
    /\ At(r, "open_installed")
    /\ \/ /\ Opens(live) /\ opened' = TRUE
          /\ pc' = [pc EXCEPT ![r] = "commit_backup"]
          /\ may' = {snapshot[r]}
          /\ UNCHANGED <<lock, result>>
       \/ OpenMayFail(live) /\ Go(r, "remove_installed") /\ UNCHANGED opened
    /\ UNCHANGED files /\ Same

RemoveInstalled(r) ==
    /\ At(r, "remove_installed")
    /\ \/ live # Absent /\ live' = Absent /\ Go(r, "sync_removed")
       \/ /\ live = Absent \/ MayFail("remove_live")
          /\ Fail(r, "recovery_required") /\ UNCHANGED live
    /\ UNCHANGED <<candidate, backup, journal, opened>> /\ Same

\* cleanup_uncommitted_restore: the candidate, a sync, the journal, a sync.
UncommitCandidate(r) ==
    /\ At(r, "uncommit_candidate")
    /\ \/ RemoveCandidate /\ Go(r, "uncommit_journal")
       \/ MayFail("sync") /\ RemoveCandidate /\ Fail(r, "recovery_required")
       \/ /\ MayFail("remove") /\ Fail(r, "recovery_required")
          /\ UNCHANGED candidate
    /\ UNCHANGED <<live, backup, journal, opened>> /\ Same

UncommitJournal(r) ==
    /\ At(r, "uncommit_journal")
    /\ \/ journal' = Absent /\ Fail(r, "internal")
       \/ MayFail("sync") /\ journal' = Absent /\ Fail(r, "recovery_required")
       \/ MayFail("remove") /\ Fail(r, "recovery_required") /\ UNCHANGED journal
    /\ UNCHANGED <<live, candidate, backup, opened>> /\ Same

\* Mutant: the guard outlives the request.
SucceedLocked(r) ==
    /\ pc' = [pc EXCEPT ![r] = "idle"]
    /\ result' = [result EXCEPT ![r] = "ok"]
    /\ UNCHANGED <<lock, may>>

\* The client is told that the restore succeeded.
Succeed(r) ==
    /\ pc' = [pc EXCEPT ![r] = "idle"]
    /\ result' = [result EXCEPT ![r] = "ok"]
    /\ lock' = Nobody
    /\ UNCHANGED may

\* Mutant: the journal goes although the backup is still there.
CommitBackupKept(r) ==
    /\ At(r, "commit_backup") /\ Go(r, "commit_journal")
    /\ UNCHANGED <<files, opened>> /\ Same

\* cleanup_committed_restore: an error keeps the journal and is only logged.
CommitBackup(r) ==
    /\ At(r, "commit_backup")
    /\ \/ backup' = Absent /\ Go(r, "commit_journal")
       \/ MayFail("sync") /\ backup' = Absent /\ Succeed(r)
       \/ MayFail("remove") /\ Succeed(r) /\ UNCHANGED backup
    /\ UNCHANGED <<live, candidate, journal, opened>> /\ Same

CommitJournal(r) ==
    /\ At(r, "commit_journal")
    /\ journal' = Absent \/ (MayFail("remove") /\ UNCHANGED journal)
    /\ Succeed(r)
    /\ UNCHANGED <<live, candidate, backup, opened>> /\ Same

\* The tail of the function: a candidate that no journal protects goes.
Tail(r) ==
    /\ At(r, "tail")
    /\ \/ candidate # Absent /\ journal = Absent /\ RemoveCandidate
       \/ /\ candidate = Absent \/ journal # Absent \/ MayFail("remove")
          /\ UNCHANGED candidate
    /\ Go(r, "idle")
    /\ UNCHANGED <<live, backup, journal, opened>> /\ Same

-----------------------------------------------------------------------------
(* drop_database of the same Database.                                      *)

\* The handle is taken, checkpointed and closed under its mutex.
DropTake ==
    /\ mode = "serving" /\ drop = "no" /\ opened /\ lock = Nobody
    /\ drop' = "taken" /\ opened' = FALSE
    /\ UNCHANGED <<files, lock, mode, refusal, workers, may>>

\* The catalog transition; its failure reopens the Database.
DropTransition ==
    /\ drop = "taken"
    /\ \/ drop' = "committed" /\ UNCHANGED opened
       \/ MayFail("transition") /\ Opens(live) /\ drop' = "no" /\ opened' = TRUE
       \/ MayFail("transition") /\ OpenMayFail(live) /\ drop' = "lost" /\ UNCHANGED opened
    /\ UNCHANGED <<files, lock, mode, refusal, workers, may>>

\* The directory moves to the trash, now or when startup finishes the drop.
DropMove ==
    /\ drop = "committed" /\ mode \in {"serving", "boot_open"}
    /\ drop' = "gone" /\ mode' = "serving"
    /\ live' = Absent /\ candidate' = Absent /\ backup' = Absent /\ journal' = Absent
    /\ UNCHANGED <<opened, lock, refusal, workers, may>>

-----------------------------------------------------------------------------
(* Startup: recover_snapshot_operations, then the open of the Database.     *)

Boot(there) == mode' = there /\ UNCHANGED refusal
Refuse(why) == mode' = "refused" /\ refusal' = why

\* What no step of startup changes.
Offline == UNCHANGED <<opened, lock, drop, workers, may>>

Start ==
    /\ mode \in {"down", "refused"}
    /\ mode' = IF drop = "gone" THEN "serving" ELSE "boot_clean"
    /\ refusal' = "none"
    /\ UNCHANGED files /\ Offline

\* cleanup_unjournaled_restore_candidate.
BootClean ==
    LET problem == IF Unjournaled /\ ~Cleanable THEN "unjournaled" ELSE "none"
    IN /\ mode = "boot_clean"
       /\ \/ Unjournaled /\ problem = "none" /\ RemoveCandidate /\ Boot("boot_open")
          \/ ~Unjournaled /\ Boot(IF journal = Absent THEN "boot_open" ELSE "boot_match")
             /\ UNCHANGED candidate
          \/ problem # "none" /\ Refuse(problem) /\ UNCHANGED candidate
       /\ UNCHANGED <<live, backup, journal>> /\ Offline

\* The files that exist decide whether the replacement is finished or rolled back.
BootMatch ==
    LET found == <<live # Absent, candidate # Absent, backup # Absent>>
        problem == IF journal = Torn THEN "bad_journal"
                   ELSE IF found \in {<<TRUE, TRUE, TRUE>>, <<FALSE, TRUE, FALSE>>,
                                      <<FALSE, FALSE, FALSE>>} THEN "inconsistent"
                   ELSE "none"
    IN /\ mode = "boot_match"
       /\ \/ /\ problem # "none" /\ Refuse(problem)
             /\ UNCHANGED <<live, candidate, backup>>
          \/ /\ problem = "none" /\ found \in {<<TRUE, TRUE, FALSE>>, <<TRUE, FALSE, FALSE>>}
             /\ Boot("boot_candidate")
             /\ UNCHANGED <<live, candidate, backup>>
          \/ /\ problem = "none" /\ found = <<FALSE, TRUE, TRUE>>
             /\ live' = candidate /\ RemoveCandidate
             /\ Boot("boot_accept") /\ UNCHANGED backup
          \/ /\ problem = "none" /\ found = <<TRUE, FALSE, TRUE>>
             /\ Boot("boot_accept") /\ UNCHANGED <<live, candidate, backup>>
          \/ /\ problem = "none" /\ found = <<FALSE, FALSE, TRUE>>
             /\ live' = backup /\ backup' = Absent
             /\ Boot("boot_candidate") /\ UNCHANGED candidate
       /\ UNCHANGED journal /\ Offline

\* Mutant: an installed snapshot is always rolled back.
BootAcceptNever ==
    /\ mode = "boot_accept" /\ live' = Absent /\ Boot("boot_rollback")
    /\ UNCHANGED <<candidate, backup, journal>> /\ Offline

\* recover_or_accept_installed_snapshot: an installation that does not validate is
\* removed, acknowledged or not; clients may then find the backup.
BootAccept ==
    /\ mode = "boot_accept"
    /\ \/ Sound(live) /\ Boot("boot_candidate") /\ UNCHANGED <<live, may>>
       \/ /\ ~Sound(live) \/ MayFail("revalidate")
          /\ live' = Absent /\ Boot("boot_rollback") /\ may' = may \cup {backup.data}
    /\ UNCHANGED <<candidate, backup, journal, opened, lock, drop, workers>>

\* ... and the backup put back, which must be valid.
BootRollback ==
    LET problem == IF Sound(backup) THEN "none" ELSE "both_invalid"
    IN /\ mode = "boot_rollback"
       /\ live' = backup /\ backup' = Absent
       /\ IF problem = "none" THEN Boot("boot_candidate") ELSE Refuse(problem)
       /\ UNCHANGED <<candidate, journal>> /\ Offline

\* remove_file_and_sidecar of the candidate and of the backup, then the journal.
BootCandidate ==
    /\ mode = "boot_candidate" /\ RemoveCandidate /\ Boot("boot_backup")
    /\ UNCHANGED <<live, backup, journal>> /\ Offline

BootBackup ==
    /\ mode = "boot_backup" /\ backup' = Absent /\ Boot("boot_journal")
    /\ UNCHANGED <<live, candidate, journal>> /\ Offline

BootJournal ==
    /\ mode = "boot_journal" /\ journal' = Absent /\ Boot("boot_open")
    /\ UNCHANGED <<live, candidate, backup>> /\ Offline

\* validate_storage and the open of the Database; clients see what is there.
BootOpen ==
    LET problem == IF live = Absent THEN "no_storage"
                   ELSE IF ~Opens(live) THEN "not_openable" ELSE "none"
    IN /\ mode = "boot_open" /\ drop = "no"
       /\ \/ /\ problem = "none"
             /\ opened' = TRUE /\ may' = {live.data} \cap may /\ Boot("serving")
          \/ /\ problem # "none" /\ Refuse(problem) /\ UNCHANGED <<opened, may>>
       /\ UNCHANGED <<files, lock, drop, workers>>

\* A call of startup fails.
BootFault ==
    /\ MayFail("startup") /\ mode \notin {"down", "refused", "serving"}
    /\ Refuse("io")
    /\ UNCHANGED files /\ Offline

\* The steps between the first rename of the swap and the commit or the rollback:
\* a crash here may leave either contents.
Swapping == {"sync_preserved", "install", "rollback", "sync_installed", "open_installed",
             "remove_installed", "sync_removed"}

\* The process dies; what it wrote stays.
Closed(f) == IF f = Absent THEN Absent ELSE [f EXCEPT !.by = Nobody]

Crash ==
    /\ mode \notin {"down", "refused"}
    /\ mode' = "down" /\ opened' = FALSE /\ lock' = Nobody
    /\ drop' = IF drop \in {"taken", "lost"} THEN "no" ELSE drop
    /\ live' = Closed(live) /\ candidate' = Closed(candidate) /\ backup' = Closed(backup)
    /\ pc' = [r \in Restorers |-> "idle"]
    /\ snapshot' = [r \in Restorers |-> Original]
    /\ result' = [r \in Restorers |-> "none"]
    /\ may' = may \cup {snapshot[r] : r \in {q \in Restorers : pc[q] \in Swapping}}
    /\ UNCHANGED <<journal, refusal>>

-----------------------------------------------------------------------------
Work(r) == \/ Clean(r) \/ Check(r) \/ CreateCandidate(r) \/ FillCandidate(r) \/ Validate(r)
           \/ CreateJournal(r) \/ FillJournal(r) \/ Take(r) \/ Checkpoint(r)
           \/ Preserve(r) \/ Install(r) \/ Rollback(r) \/ Sync(r) \/ Reopen(r)
           \/ OpenInstalled(r) \/ RemoveInstalled(r)
           \/ UncommitCandidate(r) \/ UncommitJournal(r)
           \/ CommitBackup(r) \/ CommitJournal(r) \/ Tail(r)

Recover == \/ BootClean \/ BootMatch \/ BootAccept \/ BootRollback \/ BootCandidate
           \/ BootBackup \/ BootJournal \/ BootOpen \/ BootFault

Next == \/ \E w \in Writes : Write(w)
        \/ \E r \in Restorers : Work(r) \/ \E s \in Snapshots : Begin(r, s)
        \/ DropTake \/ DropTransition \/ DropMove \/ Recover \/ Start \/ Crash

Spec == Init /\ [][Next]_vars

\* Every worker keeps running, and so does startup.
FairSpec == Spec /\ WF_vars(Recover) /\ \A r \in Restorers : WF_vars(Work(r))

-----------------------------------------------------------------------------
(* Properties.                                                              *)

Steps == {"idle", "clean", "check", "write_candidate", "fill_candidate", "validate",
          "write_journal", "fill_journal", "lock", "checkpoint", "preserve", "reopen",
          "uncommit_candidate", "uncommit_journal", "commit_backup", "commit_journal",
          "sync_rolled_back", "tail"} \cup Swapping

Locked == Steps \ {"idle", "clean", "check", "write_candidate", "fill_candidate", "validate",
                   "write_journal", "fill_journal", "lock", "tail"}

Booting == {"boot_clean", "boot_match", "boot_accept", "boot_rollback", "boot_candidate",
            "boot_backup", "boot_journal", "boot_open"}

\* Types; the mutex is held exactly by the worker that is in the swap, and nothing
\* of the process outlives it.
TypeOK ==
    /\ live \in Files \cup {Absent} /\ backup \in Files \cup {Absent}
    /\ candidate \in Files \cup {Absent}
    /\ journal \in {Absent, Torn, "prepared"}
    /\ opened \in BOOLEAN /\ drop \in {"no", "taken", "lost", "committed", "gone"}
    /\ lock \in Restorers \cup {Nobody}
    /\ mode \in {"down", "refused", "serving"} \cup Booting
    /\ pc \in [Restorers -> Steps] /\ snapshot \in [Restorers -> Contents]
    /\ \A r \in Restorers : pc[r] \in Locked <=> lock = r
    /\ mode # "serving" => ~opened /\ \A r \in Restorers : pc[r] = "idle"
    /\ may \subseteq Contents

\* "The daemon must never leave a catalog entry pointing to an absent or partially
\* replaced database" (docs/DATABASE_SERVER.md:76): in every state, whatever step
\* of the swap or of recovery was interrupted, the live file or the backup is a
\* checked Database with contents that clients may find.
NeverLost ==
    drop \notin {"committed", "gone"} =>
       \E f \in {live, backup} : f # Absent /\ f.ready /\ f.data \in may

\* Acknowledged writes and restores stay, and a restore that failed leaves the old
\* contents: an open Database holds what clients may find, also after a restart.
\* The one exception: a startup whose validation of the installed snapshot fails
\* puts the backup back, and nothing but that backup.
ServesExpected == opened => live # Absent /\ live.data \in may

\* Only a file that was opened, checked, adopted and checkpointed becomes the live
\* Database (docs/DATABASE_PROTOCOL.md:155).
InstallsOnlyValidated == live # Absent => live.ready

\* The same, for the Database that clients read and write.
ServesOnlyValidated == opened => live # Absent /\ live.ready

\* Startup decides every interrupted replacement: apart from a failing call, only a
\* journal that was being written makes it give up.
RecoversUnlessTorn == refusal \in {"none", "io", "bad_journal"}

\* Every restore ends, whichever of its calls fail and wherever a drop or a crash cuts
\* in: no error path leads to a step that cannot be taken.  (Waiting for the mutex of
\* the handle behind others is in module Handles.)
RestoreEnds == \A r \in Restorers : pc[r] # "idle" ~> pc[r] = "idle"

=============================================================================
