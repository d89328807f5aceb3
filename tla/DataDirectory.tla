--------------------------- MODULE DataDirectory ---------------------------
(***************************************************************************)
(* DatabaseDaemon::initialize with CatalogStore::initialize and the two     *)
(* rollbacks (src/daemon.rs, src/catalog.rs, src/config.rs): several `nostd *)
(* init` processes on one data directory, each with a configuration path of *)
(* its choice outside of it.  Every call that changes the file system is a  *)
(* step, the directories that create_dir_all adds on the way to the data    *)
(* directory and to the configuration included.  No lock is held: what      *)
(* keeps two processes apart is that create_dir("databases") fails when the *)
(* directory exists.  Calls may fail, also those of a rollback, and a       *)
(* process may be killed at any step and in the middle of one.              *)
(***************************************************************************)
EXTENDS Naturals

CONSTANTS
    Processes, Configs,  \* processes, and paths of configuration files
    Nobody, Outsider,    \* no process; whoever made a directory beforehand
    MaxFaults,           \* failing calls over a run
    MaxCrashes           \* killed processes over a run

Layout == {"databases", "snapshots", "locks", "recovery", "trash"}
Inner == Layout \cup {"pending", "state", "credentials"}
Credentials == {"query", "admin"}

\* The data directory, the directories above it, and that of the configurations.
Outer == {"root", "above", "parent"}
Names == Outer \cup Inner \cup Credentials \cup Configs

\* The place of a name in the rollbacks.  The layout is created in the opposite order:
\* "databases" is the first directory made and the last removed.
Rank == [admin |-> 1, query |-> 2, credentials |-> 3, pending |-> 4, state |-> 5,
         trash |-> 6, recovery |-> 7, locks |-> 8, snapshots |-> 9, databases |-> 10,
         root |-> 11]

ASSUME DirectoryMarkers ==
    /\ Nobody \notin Processes \cup {Outsider} /\ Outsider \notin Processes
    /\ Configs \cap (Outer \cup Inner \cup Credentials) = {}
    /\ MaxFaults \in Nat /\ MaxCrashes \in Nat

VARIABLES
    owner,       \* who created each file or directory, Nobody when it is absent
    torn,        \* the configuration files a killed or failed write left behind
    pc,          \* the next step of each process
    path,        \* its configuration path
    existed,     \* data_directory_existed of initialize
    root_existed,\* the same of CatalogStore::initialize
    made,        \* created_directories: what it created of the layout
    written,     \* query_credential_created and admin_credential_created
    todo,        \* what its rollback has yet to remove, in the order of Rank
    incomplete,  \* the processes that report what they could not remove
    ignored,     \* those whose removal failed where the error is discarded
    faults, crashes

local == <<path, existed, root_existed, made, written>>
vars == <<owner, torn, pc, local, todo, incomplete, ignored, faults, crashes>>

Init ==
    /\ \E there \in SUBSET Outer :
          /\ "root" \in there => "above" \in there
          /\ owner = [x \in Names |-> IF x \in there THEN Outsider ELSE Nobody]
    /\ torn = {}
    /\ pc = [p \in Processes |-> "idle"]
    /\ path \in [Processes -> Configs]
    /\ existed = [p \in Processes |-> FALSE] /\ root_existed = [p \in Processes |-> FALSE]
    /\ made = [p \in Processes |-> {}] /\ written = [p \in Processes |-> {}]
    /\ todo = [p \in Processes |-> {}]
    /\ incomplete = {} /\ ignored = {}
    /\ faults = 0 /\ crashes = 0

-----------------------------------------------------------------------------
Present(x) == owner[x] # Nobody
Empty(x) ==
    CASE x = "root" -> \A y \in Inner : ~Present(y)
      [] x = "credentials" -> \A y \in Credentials : ~Present(y)
      [] OTHER -> TRUE

Works == UNCHANGED faults
Fails(k) == faults + k <= MaxFaults /\ faults' = faults + k

Go(p, there) == pc' = [pc EXCEPT ![p] = there] /\ UNCHANGED todo
Create(p, xs) == owner' = [x \in Names |-> IF x \in xs /\ ~Present(x) THEN p ELSE owner[x]]
Delete(x) == owner' = [owner EXCEPT ![x] = Nobody]
Reported == UNCHANGED <<incomplete, ignored>>

Unless(there, x) == IF there THEN {} ELSE {x}

\* Mutant: the whole layout is removed, whoever created it.
CatalogRollbackAll(p) == Layout \cup Unless(root_existed[p], "root")

\* rollback_created_directories.
CatalogRollback(p) == made[p] \cup Unless(root_existed[p], "root")

\* Mutant: the directory of the credentials is forgotten.
DaemonRollbackKeeps(p) ==
    written[p] \cup {"pending", "state"} \cup Layout \cup Unless(existed[p], "root")

\* rollback_initialization of the daemon, with that of the catalog: everything the
\* data directory may hold goes, except credentials this process did not create.
DaemonRollback(p) ==
    written[p] \cup {"credentials", "pending", "state"} \cup Layout
    \cup Unless(existed[p], "root")

Undo(p, names) ==
    /\ pc' = [pc EXCEPT ![p] = "undo"]
    /\ todo' = [todo EXCEPT ![p] = names]

-----------------------------------------------------------------------------
\* ensure_new_path and the first look at the data directory.
Begin(p) ==
    /\ pc[p] = "idle"
    /\ Go(p, IF Present(path[p]) THEN "failed" ELSE "inspect")
    /\ existed' = [existed EXCEPT ![p] = Present("root")]
    /\ UNCHANGED <<owner, torn, path, root_existed, made, written, faults, crashes>> /\ Reported

\* CatalogStore::initialize never adopts a directory that is not empty.
Inspect(p) ==
    /\ pc[p] = "inspect"
    /\ Go(p, IF ~Present("root") THEN "root" ELSE IF Empty("root") THEN "layout" ELSE "failed")
    /\ root_existed' = [root_existed EXCEPT ![p] = Present("root")]
    /\ UNCHANGED <<owner, torn, path, existed, made, written, faults, crashes>> /\ Reported

\* create_dir_all(root): also succeeds when another process was faster, and makes what
\* is missing above the root, also before it fails.  Only the root is ever removed.
CreateRoot(p) ==
    /\ pc[p] = "root"
    /\ \/ Works /\ Create(p, {"above", "root"}) /\ Go(p, "layout")
       \/ Fails(1) /\ Undo(p, {"root"}) /\ (Create(p, {"above"}) \/ UNCHANGED owner)
    /\ UNCHANGED <<torn, local, crashes>> /\ Reported

\* The next directory of the layout.
NextDirectory(p) ==
    CHOOSE x \in Layout \ made[p] : \A y \in Layout \ made[p] : Rank[y] <= Rank[x]

Made(p, x) ==
    /\ Create(p, {x}) /\ made' = [made EXCEPT ![p] = @ \cup {x}]
    /\ Go(p, IF made[p] \cup {x} = Layout THEN "pending" ELSE "layout")

\* Mutant: a directory that exists is taken for its own.
CreateDirectoryAny(p) ==
    /\ pc[p] = "layout" /\ Works
    /\ Made(p, NextDirectory(p))
    /\ UNCHANGED <<torn, path, existed, root_existed, written, crashes>> /\ Reported

\* create_dir fails when the directory exists or its parent does not.
CreateDirectory(p) ==
    LET next == NextDirectory(p) IN
    /\ pc[p] = "layout"
    /\ \/ Present("root") /\ ~Present(next) /\ Works /\ Made(p, next)
       \/ /\ (Present(next) \/ ~Present("root")) /\ Works
          /\ Undo(p, CatalogRollback(p)) /\ UNCHANGED <<owner, made>>
       \/ Fails(1) /\ Undo(p, CatalogRollback(p)) /\ UNCHANGED <<owner, made>>
    /\ UNCHANGED <<torn, path, existed, root_existed, written, crashes>> /\ Reported

\* write_json_new: create_new, and a file whose write fails is removed; a file that
\* cannot be removed is named in the error.
WritePending(p) ==
    /\ pc[p] = "pending"
    /\ \/ /\ ~Present("pending") /\ Works /\ Reported
          /\ Create(p, {"pending"}) /\ Go(p, "install")
       \/ /\ (Present("pending") /\ Works) \/ Fails(1)
          /\ Undo(p, CatalogRollback(p)) /\ UNCHANGED owner /\ Reported
       \/ /\ ~Present("pending") /\ Fails(2)
          /\ Create(p, {"pending"}) /\ Undo(p, CatalogRollback(p))
          /\ incomplete' = incomplete \cup {p} /\ UNCHANGED ignored
    /\ UNCHANGED <<torn, local, crashes>>

\* write_atomic refuses an existing server-state and renames the pending file.  When
\* that fails it removes the pending file and discards the error of the removal.
InstallState(p) ==
    /\ pc[p] = "install"
    /\ \/ /\ ~Present("state") /\ Works /\ Go(p, "sync") /\ Reported
          /\ owner' = [owner EXCEPT !["pending"] = Nobody, !["state"] = p]
       \/ /\ (Present("state") /\ Works) \/ Fails(1)
          /\ Delete("pending") /\ Undo(p, CatalogRollback(p)) /\ Reported
       \/ /\ Fails(2) /\ ignored' = ignored \cup {p} /\ UNCHANGED <<owner, incomplete>>
          /\ Undo(p, CatalogRollback(p))
    /\ UNCHANGED <<torn, local, crashes>>

\* sync_parent; its failure removes server-state and discards the error of that.
SyncState(p) ==
    /\ pc[p] = "sync"
    /\ \/ Works /\ Go(p, "query") /\ UNCHANGED owner /\ Reported
       \/ Fails(1) /\ Delete("state") /\ Undo(p, CatalogRollback(p)) /\ Reported
       \/ /\ Fails(2) /\ ignored' = ignored \cup {p} /\ UNCHANGED <<owner, incomplete>>
          /\ Undo(p, CatalogRollback(p))
    /\ UNCHANGED <<torn, local, crashes>>

\* write_credential: the directory is created if need be, the file must be new.
WriteCredential(p, c, there) ==
    /\ pc[p] = c
    /\ \/ /\ ~Present(c) /\ Works /\ Create(p, {"credentials", c}) /\ Go(p, there)
          /\ written' = [written EXCEPT ![p] = @ \cup {c}] /\ Reported
       \/ /\ (Present(c) /\ Works) \/ Fails(1)
          /\ Create(p, {"credentials"}) \/ UNCHANGED owner
          /\ Undo(p, DaemonRollback(p)) /\ UNCHANGED written /\ Reported
       \/ /\ ~Present(c) /\ Fails(2) /\ Create(p, {"credentials", c})
          /\ Undo(p, DaemonRollback(p)) /\ UNCHANGED written
          /\ incomplete' = incomplete \cup {p} /\ UNCHANGED ignored
    /\ UNCHANGED <<torn, path, existed, root_existed, made, crashes>>

\* write_new: the configuration comes last and is the only file outside the data
\* directory.  Its directory is created if need be, and stays when the file fails.
WriteConfig(p) ==
    /\ pc[p] = "config"
    /\ \/ /\ ~Present(path[p]) /\ Works /\ Create(p, {"parent", path[p]}) /\ Go(p, "done")
          /\ UNCHANGED torn /\ Reported
       \/ /\ (Present(path[p]) /\ Works) \/ Fails(1)
          /\ Create(p, {"parent"}) \/ UNCHANGED owner
          /\ Undo(p, DaemonRollback(p)) /\ UNCHANGED torn /\ Reported
       \/ /\ ~Present(path[p]) /\ Fails(2) /\ Create(p, {"parent", path[p]})
          /\ torn' = torn \cup {path[p]} /\ Undo(p, DaemonRollback(p))
          /\ incomplete' = incomplete \cup {p} /\ UNCHANGED ignored
    /\ UNCHANGED <<local, crashes>>

\* One removal of a rollback: an absent file is fine, a directory must be empty.
RemoveNext(p) ==
    \E x \in todo[p] :
    /\ pc[p] = "undo" /\ \A y \in todo[p] : Rank[x] <= Rank[y]
    /\ todo' = [todo EXCEPT ![p] = @ \ {x}]
    /\ \/ Empty(x) /\ Works /\ Delete(x) /\ UNCHANGED incomplete
       \/ /\ (~Empty(x) /\ Works) \/ Fails(1)
          /\ incomplete' = incomplete \cup {p} /\ UNCHANGED owner
    /\ UNCHANGED <<torn, pc, local, ignored, crashes>>

EndRollback(p) ==
    /\ pc[p] = "undo" /\ todo[p] = {}
    /\ Go(p, "failed")
    /\ UNCHANGED <<owner, torn, local, faults, crashes>> /\ Reported

\* What a call that is cut off in the middle may have created.
Halfway(p) ==
    CASE pc[p] = "root" -> {{"above"}}
      [] pc[p] = "pending" -> {{"pending"}}
      [] pc[p] \in Credentials -> {{"credentials"}, {"credentials", pc[p]}}
      [] pc[p] = "config" -> {{"parent"}, {"parent", path[p]}}
      [] OTHER -> {}

\* The process is killed between two calls or in the middle of one.
Kill(p) ==
    /\ pc[p] \notin {"idle", "done", "failed", "dead"}
    /\ crashes < MaxCrashes /\ crashes' = crashes + 1
    /\ Go(p, "dead")
    /\ \/ UNCHANGED <<owner, torn>>
       \/ \E xs \in Halfway(p) :
             Create(p, xs) /\ torn' = torn \cup {c \in Configs \cap xs : ~Present(c)}
    /\ UNCHANGED <<local, faults>> /\ Reported

Step(p) ==
    \/ Begin(p) \/ Inspect(p) \/ CreateRoot(p) \/ CreateDirectory(p)
    \/ WritePending(p) \/ InstallState(p) \/ SyncState(p)
    \/ WriteCredential(p, "query", "admin") \/ WriteCredential(p, "admin", "config")
    \/ WriteConfig(p) \/ RemoveNext(p) \/ EndRollback(p) \/ Kill(p)

Next == \E p \in Processes : Step(p)
Spec == Init /\ [][Next]_vars

-----------------------------------------------------------------------------
(* Properties.                                                              *)

\* A configuration that was written stands for a complete data directory: the layout,
\* the catalog and both credentials are there, all of them made by the process that
\* wrote it, whatever other processes do, fail at or leave behind
\* (DatabaseDaemon::open relies on it).
ConfigMeansComplete ==
    \A c \in Configs : Present(c) /\ c \notin torn =>
       /\ Present("root") /\ Present("credentials")
       /\ \A x \in Layout \cup Credentials \cup {"state"} : owner[x] = owner[c]

\* "Initialization never adopts existing data" (nostd.rs:36): a rollback removes a
\* file or directory only in the process that created it, although that of the
\* daemon does not look who did (daemon.rs:738).  The two directories made with
\* create_dir_all are shared; they go only when empty.
RemovesOnlyItsOwn ==
    [][\A p \in Processes, x \in Names \ {"root", "credentials"} :
          owner[x] = p /\ owner'[x] = Nobody => pc'[p] # pc[p] \/ todo'[p] # todo[p]]_vars

\* An initialization that fails without reporting what it could not remove has left no
\* configuration and nothing inside the data directory, so that it can be tried again.
\* Three things are excepted.  The two removals of write_atomic discard their errors.
\* The root stays, empty, when the two looks at it (daemon.rs:99, catalog.rs:70)
\* disagree.  The directories that create_dir_all made above the root (catalog.rs:94)
\* and for the configuration (config.rs:127) stay and are not reported.
FailedInitLeavesNothing ==
    \A p \in Processes :
       pc[p] = "failed" /\ p \notin incomplete \cup ignored =>
          \A x \in Names \ Outer : owner[x] # p

=============================================================================
