------------------------ MODULE SnapshotRestoreProofs -----------------------
(***************************************************************************)
(* Proofs about SnapshotRestore for restores of a Database that come one   *)
(* after another (OneRestorer): every number of them, of queries, of       *)
(* failing calls and of crashes, beside a drop.  With two restores at the  *)
(* same time the statements do not hold: the run restore_concurrent has    *)
(* a counterexample.                                                       *)
(*                                                                         *)
(* The invariant RestInv says which of the live file, the candidate, the   *)
(* backup and the journal exist at each step of a worker (WorkerFiles) and *)
(* of startup (BootFiles), that recovery can decide every combination      *)
(* (Recoverable), and where the contents are that clients may find         *)
(* (Expected).                                                             *)
(***************************************************************************)
EXTENDS SnapshotRestore, TLAPS

\* Restores of one Database that run one after another.
OneRestorer == \A q, r \in Restorers : q = r

\* A file that counts as ready was checked, and nobody writes to it.
Checked(f) == f.ready => f.by = Nobody /\ f.data \in Contents \ Bad

\* The live file and the backup are ready.
FilesReady ==
    /\ live # Absent => live.ready /\ Checked(live)
    /\ backup # Absent => backup.ready /\ Checked(backup)
    /\ candidate # Absent => Checked(candidate)

\* The files and the journal are a combination that recovery can decide.
Recoverable ==
    IF drop = "gone"
    THEN live = Absent /\ candidate = Absent /\ backup = Absent /\ journal = Absent
    ELSE /\ journal # "prepared" => live # Absent /\ backup = Absent
         /\ live = Absent => backup # Absent
         /\ live # Absent /\ candidate # Absent => backup = Absent
         /\ journal # Absent /\ candidate # Absent => candidate.ready

\* Which of them exist at each step of a worker.
Prepared == {"write_journal", "fill_journal", "lock", "checkpoint", "preserve"}
Unswapped == {"lock", "checkpoint", "preserve", "reopen", "sync_rolled_back",
              "uncommit_candidate", "uncommit_journal", "commit_journal"}
Missing == {"sync_preserved", "install", "sync_removed", "rollback"}
Installed == {"sync_installed", "open_installed", "remove_installed"}
Reopened == {"uncommit_candidate", "uncommit_journal", "commit_backup", "commit_journal"}

WorkerFiles(r) ==
    /\ pc[r] \in {"write_candidate", "fill_candidate", "validate", "write_journal"} =>
          journal = Absent
    /\ pc[r] = "fill_candidate" /\ candidate # Absent => candidate.by = r
    /\ pc[r] = "validate" /\ candidate # Absent => candidate.data = snapshot[r]
    /\ pc[r] \in Prepared \cup Missing /\ candidate # Absent =>
          candidate.ready /\ candidate.data = snapshot[r]
    /\ pc[r] = "fill_journal" /\ drop # "gone" => journal = Torn
    /\ pc[r] \in Locked \cup {"lock"} /\ drop # "gone" => journal = "prepared"
    /\ pc[r] \in Unswapped /\ drop # "gone" => live # Absent /\ backup = Absent
    /\ pc[r] \in Missing => live = Absent
    /\ pc[r] \in Installed => live # Absent /\ candidate = Absent /\ live.data = snapshot[r]
    /\ pc[r] = "commit_backup" => live # Absent
    /\ pc[r] \in Locked => drop = "no"
    /\ pc[r] \in Locked \ Reopened => ~opened

\* ... and at each step of startup.
BootFiles ==
    /\ mode # "serving" => drop \notin {"taken", "lost"}
    /\ mode \in Booting => drop # "gone"
    /\ mode = "boot_match" => journal # Absent
    /\ mode \in {"boot_accept", "boot_rollback", "boot_candidate", "boot_backup",
                 "boot_journal"} => journal = "prepared"
    /\ mode \in Booting \ {"boot_clean", "boot_match", "boot_rollback"} => live # Absent
    /\ mode \in {"boot_accept", "boot_rollback", "boot_backup", "boot_journal", "boot_open"} =>
          candidate = Absent
    /\ mode \in {"boot_accept", "boot_rollback"} => backup # Absent
    /\ mode = "boot_rollback" => live = Absent
    /\ mode \in {"boot_journal", "boot_open"} => backup = Absent
    /\ mode = "boot_open" => journal = Absent

\* What clients may find is where recovery looks for it.
Swaps == \E r \in Restorers : pc[r] \in Swapping

Expected ==
    drop # "gone" =>
      /\ ~Swaps /\ live # Absent => live.data \in may
      /\ ~Swaps /\ live = Absent =>
            backup.data \in may /\ (candidate # Absent => candidate.data \in may)
      /\ Swaps => backup # Absent /\ backup.data \in may

\* A drop has closed the Database before it goes on.
Served ==
    /\ opened => live # Absent /\ drop = "no"
    /\ drop = "taken" => live # Absent

RestInv ==
    /\ TypeOK /\ FilesReady /\ Recoverable /\ BootFiles /\ Expected /\ Served
    /\ \A r \in Restorers : WorkerFiles(r)
    /\ RecoversUnlessTorn

-----------------------------------------------------------------------------
(* What the steps have in common.                                           *)

FileTypes ==
    /\ live \in Files \cup {Absent} /\ candidate \in Files \cup {Absent}
    /\ backup \in Files \cup {Absent} /\ journal \in {Absent, Torn, "prepared"}
    /\ opened \in BOOLEAN /\ may \subseteq Contents

\* A file written whole is a file.
LEMMA FileType ==
    ASSUME NEW d \in Contents \cup {Torn}, NEW b \in BOOLEAN
    PROVE  /\ File(d, b) \in Files /\ File(d, b) # Absent
           /\ File(d, b).data = d /\ File(d, b).ready = b /\ File(d, b).by = Nobody
<1>1. File(d, b) \in Files BY DEF File, Files
<1>2. File(d, b) # Absent BY <1>1, FileAssumption, Zenon
<1> QED BY <1>1, <1>2 DEF File

\* The one worker holds the mutex or nobody does.
LEMMA Alone ==
    ASSUME RestInv, OneRestorer, NEW r \in Restorers
    PROVE  /\ FileTypes /\ WorkerFiles(r) /\ snapshot[r] \in Contents
           /\ lock \in {r, Nobody} /\ (lock = r <=> pc[r] \in Locked)
           /\ Swaps <=> pc[r] \in Swapping
<1>1. \A q \in Restorers : q = r BY Zenon DEF OneRestorer
<1>2. lock \in {r, Nobody} /\ (lock = r <=> pc[r] \in Locked) /\ FileTypes
  BY <1>1, Zenon DEF RestInv, TypeOK, FileTypes
<1>3. snapshot[r] \in Contents BY DEF RestInv, TypeOK
<1> QED BY <1>1, <1>2, <1>3, Zenon DEF RestInv, Swaps

\* A worker moves to another step: the other parts of the invariant follow from
\* what it does to the files, the handle and what clients may find.
LEMMA Local ==
    ASSUME RestInv, OneRestorer, NEW r \in Restorers, NEW there \in Steps,
           mode = "serving", UNCHANGED <<drop, mode, refusal>>,
           pc' = [pc EXCEPT ![r] = there], snapshot' \in [Restorers -> Contents],
           lock' \in {r, Nobody}, lock' = r <=> there \in Locked, FileTypes'
    PROVE  /\ pc'[r] = there
           /\ Swaps' <=> there \in Swapping
           /\ FilesReady' /\ Recoverable' /\ Expected' /\ Served' /\ WorkerFiles(r)' => RestInv'
<1>1. pc'[r] = there /\ pc' \in [Restorers -> Steps] BY DEF RestInv, TypeOK
<1>2. \A q \in Restorers : q = r BY Zenon DEF OneRestorer
<1>3. \A q \in Restorers : pc'[q] \in Locked <=> lock' = q
  BY <1>1, <1>2, WorkerAssumption, Zenon
<1>4. TypeOK' BY <1>1, <1>3, Zenon DEF RestInv, TypeOK, FileTypes
<1>5. BootFiles' BY Zenon DEF BootFiles, Booting
<1>6. RecoversUnlessTorn' BY Zenon DEF RestInv, RecoversUnlessTorn
<1>7. Swaps' <=> there \in Swapping BY <1>1, <1>2, Zenon DEF Swaps
<1>8. ASSUME WorkerFiles(r)' PROVE \A q \in Restorers : WorkerFiles(q)'
  BY <1>2, <1>8, Zenon
<1> QED BY <1>1, <1>4, <1>5, <1>6, <1>7, <1>8, Zenon DEF RestInv

\* A worker that stays outside the swap, or at the same side of it.
LEMMA GoStep ==
    ASSUME RestInv, OneRestorer, NEW r \in Restorers, NEW there \in Steps, mode = "serving",
           Go(r, there), Same, pc[r] \in Locked <=> there \in Locked, FileTypes'
    PROVE  /\ pc'[r] = there
           /\ Swaps' <=> there \in Swapping
           /\ FilesReady' /\ Recoverable' /\ Expected' /\ Served' /\ WorkerFiles(r)' => RestInv'
<1>1. /\ UNCHANGED <<drop, mode, refusal, snapshot, lock>>
      /\ pc' = [pc EXCEPT ![r] = there] /\ snapshot \in [Restorers -> Contents]
  BY Zenon DEF Go, Same, RestInv, TypeOK
<1>2. lock' \in {r, Nobody} /\ (lock' = r <=> there \in Locked) BY <1>1, Alone, Zenon
<1> QED BY <1>1, <1>2, Local, Zenon

\* Nothing clients may find is lost while the live file stays where it is.
LEMMA StaysExpected ==
    ASSUME RestInv, ~Swaps, ~Swaps', UNCHANGED <<live, drop>>, may \subseteq may',
           live # Absent \/ UNCHANGED <<candidate, backup>>
    PROVE  Expected'
BY Zenon DEF RestInv, Expected

\* A worker that ends, with an error or not, leaves what recovery needs.
LEMMA EndStep ==
    ASSUME RestInv, OneRestorer, NEW r \in Restorers, NEW there \in {"idle", "tail"},
           mode = "serving", UNCHANGED <<live, opened>>, Same,
           pc' = [pc EXCEPT ![r] = there], lock' = Nobody,
           may \subseteq may', may' \subseteq Contents,
           pc[r] \in Swapping => snapshot[r] \in may' /\ UNCHANGED <<candidate, backup>>,
           live # Absent \/ UNCHANGED <<candidate, backup>>,
           candidate' \in Files \cup {Absent}, backup' \in {backup, Absent},
           journal' \in {Absent, Torn, "prepared"},
           candidate' # Absent => Checked(candidate'), Recoverable'
    PROVE  RestInv'
<1>1. /\ there \in Steps /\ there \notin Locked /\ there \notin Swapping
      /\ there \notin Prepared \cup Missing \cup Unswapped \cup Installed
  BY Zenon DEF Steps, Locked, Swapping, Prepared, Missing, Unswapped, Installed
<1>2. FileTypes' BY Alone, Zenon DEF FileTypes
<1>3. UNCHANGED <<drop, mode, refusal, snapshot>> BY Zenon DEF Same
<1>4. snapshot \in [Restorers -> Contents] BY Zenon DEF RestInv, TypeOK
<1>5. /\ pc'[r] = there /\ ~Swaps'
      /\ FilesReady' /\ Recoverable' /\ Expected' /\ Served' /\ WorkerFiles(r)' => RestInv'
  BY <1>1, <1>2, <1>3, <1>4, Local, WorkerAssumption, Zenon
<1>6. FilesReady' BY Zenon DEF RestInv, FilesReady
<1>7. Served' BY <1>3, Zenon DEF RestInv, Served
<1>8. Expected'
  <2>1. CASE pc[r] \notin Swapping BY <1>3, <1>5, <2>1, Alone, StaysExpected, Zenon
  <2>2. CASE pc[r] \in Swapping
    <3>1. pc[r] \in Missing \cup Installed BY <2>2, Zenon DEF Swapping, Missing, Installed
    <3>2. /\ live # Absent => live.data = snapshot[r]
          /\ candidate # Absent => candidate.data = snapshot[r]
      BY <3>1, Alone, Zenon DEF WorkerFiles
    <3>3. drop # "gone" => backup.data \in may BY <2>2, Alone, Zenon DEF RestInv, Expected
    <3> QED BY <1>3, <1>5, <2>2, <3>2, <3>3, Zenon DEF Expected
  <2> QED BY <2>1, <2>2, Zenon
<1>9. WorkerFiles(r)'
  BY <1>1, <1>5, Zenon DEF WorkerFiles
<1> QED BY <1>5, <1>6, <1>7, <1>8, <1>9, Zenon

\* In particular one that fails.
LEMMA FailStep ==
    ASSUME RestInv, OneRestorer, NEW r \in Restorers, NEW why, Fail(r, why),
           mode = "serving", UNCHANGED <<live, backup, opened>>, Same,
           candidate' = candidate \/ (live # Absent /\ pc[r] \notin Swapping),
           candidate' \in Files \cup {Absent}, journal' \in {Absent, Torn, "prepared"},
           candidate' # Absent => Checked(candidate'), Recoverable'
    PROVE  RestInv'
<1>1. pc' = [pc EXCEPT ![r] = "tail"] /\ lock' = Nobody BY Alone, Zenon DEF Fail
<1>2. may \subseteq may' /\ may' \subseteq Contents BY Alone DEF Fail, FileTypes
<1>3. ASSUME pc[r] \in Swapping PROVE snapshot[r] \in may'
  <2>1. pc[r] \in Locked \ Reopened BY <1>3, Zenon DEF Swapping, Locked, Steps, Reopened
  <2>2. lock = r /\ ~opened BY <2>1, Alone, Zenon DEF WorkerFiles
  <2> QED BY <2>2 DEF Fail
<1> QED BY <1>1, <1>2, <1>3, EndStep, Zenon

-----------------------------------------------------------------------------
(* Preparation.                                                             *)

\* A worker starts from a snapshot of its own, or is refused at once.
LEMMA BeginStep ==
    ASSUME RestInv, OneRestorer, NEW r \in Restorers, NEW s \in Snapshots, Begin(r, s)
    PROVE  RestInv'
<1>1. PICK there \in {"clean", "idle"} :
         /\ pc' = [pc EXCEPT ![r] = there] /\ pc[r] = "idle" /\ mode = "serving"
         /\ snapshot' = [snapshot EXCEPT ![r] = s] \/ snapshot' = snapshot
         /\ UNCHANGED <<live, candidate, backup, journal, lock, may, opened, drop, mode, refusal>>
  BY DEF Begin, Refused, At, files
<1>2. snapshot' \in [Restorers -> Contents] BY <1>1 DEF RestInv, TypeOK, Contents
<1>3. /\ there \in Steps /\ there \notin Locked /\ there \notin Swapping
      /\ there \notin Prepared \cup Missing \cup Unswapped \cup Installed
      /\ pc[r] \notin Swapping /\ pc[r] \notin Locked
  BY <1>1, Zenon DEF Steps, Locked, Swapping, Prepared, Missing, Unswapped, Installed
<1>4. FileTypes' BY <1>1, Alone, Zenon DEF FileTypes
<1>5. lock' = Nobody /\ ~Swaps BY <1>1, <1>3, Alone, Zenon
<1>6. /\ pc'[r] = there /\ ~Swaps'
      /\ FilesReady' /\ Recoverable' /\ Expected' /\ Served' /\ WorkerFiles(r)' => RestInv'
  BY <1>1, <1>2, <1>3, <1>4, <1>5, Local, WorkerAssumption, Zenon
<1>7. FilesReady' /\ Recoverable' /\ Served'
  BY <1>1, Zenon DEF RestInv, FilesReady, Recoverable, Served
<1>8. Expected' BY <1>1, <1>5, <1>6, StaysExpected, Zenon
<1>9. WorkerFiles(r)' BY <1>1, <1>3, <1>6, Zenon DEF WorkerFiles
<1> QED BY <1>6, <1>7, <1>8, <1>9, Zenon

\* A worker that goes on with the preparation.
LEMMA PrepareStep ==
    ASSUME RestInv, OneRestorer, NEW r \in Restorers, mode = "serving", Same,
           NEW there \in {"idle", "check", "write_candidate", "fill_candidate", "validate",
                          "write_journal", "fill_journal", "lock"},
           Go(r, there), pc[r] \notin Locked, UNCHANGED <<live, backup, opened>>,
           live # Absent \/ candidate' = candidate,
           candidate' \in Files \cup {Absent}, journal' \in {Absent, Torn, "prepared"},
           candidate' # Absent => Checked(candidate'), Recoverable', WorkerFiles(r)'
    PROVE  RestInv'
<1>1. there \in Steps /\ there \notin Locked BY Zenon DEF Steps, Locked
<1>2. there \notin Swapping BY Zenon DEF Swapping
<1>3. pc[r] \notin Swapping BY Zenon DEF Swapping, Locked, Steps
<1>4. UNCHANGED <<drop, mode, may>> BY Zenon DEF Same, Go
<1>5. FileTypes' BY <1>4, Alone, Zenon DEF FileTypes
<1>6. /\ ~Swaps'
      /\ FilesReady' /\ Recoverable' /\ Expected' /\ Served' /\ WorkerFiles(r)' => RestInv'
  BY <1>1, <1>2, <1>5, GoStep, Zenon
<1>7. Expected' BY <1>3, <1>4, <1>6, Alone, StaysExpected, Zenon
<1>8. FilesReady' /\ Served' BY <1>4, Zenon DEF RestInv, FilesReady, Served
<1> QED BY <1>6, <1>7, <1>8, Zenon

\* A candidate that no journal protects is removed.
LEMMA CleanStep ==
    ASSUME RestInv, OneRestorer, NEW r \in Restorers, Clean(r) PROVE RestInv'
<1>1. /\ pc[r] = "clean" /\ mode = "serving" /\ Same /\ UNCHANGED <<live, backup, journal, opened>>
      /\ candidate' = candidate \/ (candidate' = Absent /\ live # Absent)
      /\ Go(r, "check") \/ Refused(r, "internal")
  BY Zenon DEF Clean, At, RemoveCandidate, Cleanable
<1>2. pc[r] \notin Locked /\ pc[r] \notin Swapping BY <1>1, Zenon DEF Steps, Locked, Swapping
<1>3. /\ candidate' \in Files \cup {Absent} /\ journal' \in {Absent, Torn, "prepared"}
      /\ candidate' # Absent => Checked(candidate')
  BY <1>1, Alone, Zenon DEF FileTypes, RestInv, FilesReady
<1>4. Recoverable' BY <1>1, Zenon DEF Same, RestInv, Recoverable
<1>5. CASE Go(r, "check")
  <2>1. pc'[r] = "check" BY <1>5 DEF Go, RestInv, TypeOK
  <2>2. WorkerFiles(r)'
    BY <2>1, Zenon DEF WorkerFiles, Prepared, Missing, Unswapped, Installed, Locked, Steps, Swapping
  <2> QED BY <1>1, <1>2, <1>3, <1>4, <1>5, <2>2, PrepareStep, Zenon
<1>6. CASE Refused(r, "internal")
  <2>1. /\ pc' = [pc EXCEPT ![r] = "idle"] /\ lock' = Nobody /\ may \subseteq may'
        /\ may' \subseteq Contents
    BY <1>2, <1>6, Alone, Zenon DEF Refused, FileTypes
  <2> QED BY <1>1, <1>2, <1>3, <1>4, <2>1, EndStep, Zenon
<1> QED BY <1>1, <1>5, <1>6, Zenon

\* A restore starts only beside no remains of another one.
LEMMA CheckStep ==
    ASSUME RestInv, OneRestorer, NEW r \in Restorers, Check(r) PROVE RestInv'
<1>1. /\ pc[r] = "check" /\ mode = "serving" /\ Same
      /\ UNCHANGED <<live, candidate, backup, journal, opened>>
      /\ \/ Go(r, "write_candidate") /\ journal = Absent /\ candidate = Absent
         \/ Refused(r, "recovery_required")
  BY Zenon DEF Check, At, files
<1>2. pc[r] \notin Locked /\ pc[r] \notin Swapping BY <1>1, Zenon DEF Steps, Locked, Swapping
<1>3. /\ candidate' \in Files \cup {Absent} /\ journal' \in {Absent, Torn, "prepared"}
      /\ candidate' # Absent => Checked(candidate')
  BY <1>1, Alone, Zenon DEF FileTypes, RestInv, FilesReady
<1>4. Recoverable' BY <1>1, Zenon DEF Same, RestInv, Recoverable
<1>5. CASE Go(r, "write_candidate") /\ journal = Absent /\ candidate = Absent
  <2>1. pc'[r] = "write_candidate" BY <1>5 DEF Go, RestInv, TypeOK
  <2>2. WorkerFiles(r)'
    BY <1>1, <1>5, <2>1, Zenon
    DEF WorkerFiles, Prepared, Missing, Unswapped, Installed, Locked, Steps, Swapping
  <2> QED BY <1>1, <1>2, <1>3, <1>4, <1>5, <2>2, PrepareStep, Zenon
<1>6. CASE Refused(r, "recovery_required")
  <2>1. /\ pc' = [pc EXCEPT ![r] = "idle"] /\ lock' = Nobody /\ may \subseteq may'
        /\ may' \subseteq Contents
    BY <1>2, <1>6, Alone, Zenon DEF Refused, FileTypes
  <2> QED BY <1>1, <1>2, <1>3, <1>4, <2>1, EndStep, Zenon
<1> QED BY <1>1, <1>5, <1>6, Zenon

\* The candidate is a file of this worker, and unchecked.
LEMMA CreateCandidateStep ==
    ASSUME RestInv, OneRestorer, NEW r \in Restorers, CreateCandidate(r) PROVE RestInv'
<1>0. PICK f : f = [data |-> Torn, ready |-> FALSE, by |-> r] BY Zenon
<1>1. /\ pc[r] = "write_candidate" /\ mode = "serving" /\ Same
      /\ UNCHANGED <<live, backup, journal, opened>>
      /\ \/ Go(r, "fill_candidate") /\ candidate' = f /\ drop # "gone"
         \/ Fail(r, "internal") /\ candidate' = candidate
  BY <1>0, Zenon DEF CreateCandidate, At
<1>2. pc[r] \notin Locked /\ pc[r] \notin Swapping /\ journal = Absent
  BY <1>1, Alone, Zenon DEF Steps, Locked, Swapping, WorkerFiles
<1>3. f \in Files /\ f.by = r /\ Checked(f) BY <1>0 DEF Files, Checked
<1>4. journal' \in {Absent, Torn, "prepared"} /\ candidate \in Files \cup {Absent}
      /\ (candidate # Absent => Checked(candidate))
  BY <1>1, Alone, Zenon DEF FileTypes, RestInv, FilesReady
<1>5. CASE Go(r, "fill_candidate") /\ candidate' = f /\ drop # "gone"
  <2>1. pc'[r] = "fill_candidate" BY <1>5 DEF Go, RestInv, TypeOK
  <2>2. WorkerFiles(r)'
    BY <1>1, <1>2, <1>3, <1>5, <2>1, Zenon
    DEF WorkerFiles, Prepared, Missing, Unswapped, Installed, Locked, Steps, Swapping
  <2>3. live # Absent /\ backup = Absent
    BY <1>2, <1>5, JournalAssumption, Zenon DEF RestInv, Recoverable
  <2>4. Recoverable' BY <1>1, <1>2, <1>5, <2>3, Zenon DEF Recoverable, Same
  <2> QED BY <1>1, <1>2, <1>3, <1>4, <1>5, <2>2, <2>3, <2>4, PrepareStep, Zenon
<1>6. CASE Fail(r, "internal") /\ candidate' = candidate
  <2>1. Recoverable' BY <1>1, <1>6, Zenon DEF Same, RestInv, Recoverable
  <2> QED BY <1>1, <1>4, <1>6, <2>1, FailStep, Zenon
<1> QED BY <1>1, <1>5, <1>6, Zenon

\* Only the candidate is written to, as nobody else has a file of this worker.
LEMMA FillCandidateStep ==
    ASSUME RestInv, OneRestorer, NEW r \in Restorers, FillCandidate(r) PROVE RestInv'
<1>1. PICK d \in {snapshot[r], Torn} :
        /\ pc[r] = "fill_candidate" /\ mode = "serving" /\ Same /\ UNCHANGED <<journal, opened>>
        /\ live' = Written(live, r, d) /\ backup' = Written(backup, r, d)
        /\ candidate' = Written(candidate, r, d) \/ candidate' = Absent
        /\ (Go(r, "validate") /\ d # Torn /\ candidate' = Written(candidate, r, d))
           \/ Fail(r, "internal")
  BY Zenon DEF FillCandidate, At, RemoveCandidate
<1>2. pc[r] \notin Locked /\ pc[r] \notin Swapping /\ journal = Absent
  BY <1>1, Alone, Zenon DEF Steps, Locked, Swapping, WorkerFiles
<1>3. UNCHANGED <<live, backup>>
  BY <1>1, WorkerAssumption, Zenon DEF Written, RestInv, FilesReady, Checked
<1>4. d \in Contents \cup {Torn} BY <1>1, Alone, Zenon
<1>5. /\ File(d, FALSE) \in Files /\ File(d, FALSE).data = d /\ Checked(File(d, FALSE))
  BY <1>4, FileType, Zenon DEF Checked
<1>6. candidate' \in {Absent, File(d, FALSE)} /\ (candidate = Absent => candidate' = Absent)
  BY <1>1, Alone, Zenon DEF Written, WorkerFiles
<1>7. drop # "gone" => live # Absent /\ backup = Absent
  BY <1>2, JournalAssumption, Zenon DEF RestInv, Recoverable
<1>8. candidate' = candidate \/ live # Absent
  BY <1>6, <1>7, Zenon DEF RestInv, Recoverable
<1>9. Recoverable'
  BY <1>1, <1>2, <1>3, <1>6, <1>7, Zenon DEF RestInv, Recoverable, Same
<1>10. /\ candidate' \in Files \cup {Absent} /\ journal' \in {Absent, Torn, "prepared"}
       /\ candidate' # Absent => Checked(candidate')
  BY <1>1, <1>2, <1>5, <1>6, Zenon
<1>11. CASE Go(r, "validate") /\ d # Torn
  <2>1. pc'[r] = "validate" /\ d = snapshot[r] /\ snapshot' = snapshot
    BY <1>1, <1>11 DEF Go, RestInv, TypeOK, Same
  <2>2. WorkerFiles(r)'
    BY <1>1, <1>2, <1>5, <1>6, <2>1, Zenon
    DEF WorkerFiles, Prepared, Missing, Unswapped, Installed, Locked, Steps, Swapping
  <2> QED BY <1>1, <1>2, <1>3, <1>8, <1>9, <1>10, <1>11, <2>2, PrepareStep, Zenon
<1>12. CASE Fail(r, "internal")
  BY <1>1, <1>2, <1>3, <1>8, <1>9, <1>10, <1>12, FailStep, Zenon
<1> QED BY <1>1, <1>11, <1>12, Zenon

\* Only a sound candidate becomes ready.
LEMMA ValidateStep ==
    ASSUME RestInv, OneRestorer, NEW r \in Restorers, Validate(r) PROVE RestInv'
<1>1. /\ pc[r] = "validate" /\ mode = "serving" /\ Same
      /\ UNCHANGED <<live, backup, journal, opened>>
      /\ \/ Go(r, "write_journal") /\ Sound(candidate) /\ candidate' = File(candidate.data, TRUE)
         \/ Fail(r, "incompatible") /\ candidate' = candidate
  BY Zenon DEF Validate, At
<1>2. pc[r] \notin Locked /\ pc[r] \notin Swapping /\ journal = Absent
  BY <1>1, Alone, Zenon DEF Steps, Locked, Swapping, WorkerFiles
<1>3. journal' \in {Absent, Torn, "prepared"} /\ candidate \in Files \cup {Absent}
      /\ (candidate # Absent => Checked(candidate))
  BY <1>1, Alone, Zenon DEF FileTypes, RestInv, FilesReady
<1>4. CASE Go(r, "write_journal") /\ Sound(candidate) /\ candidate' = File(candidate.data, TRUE)
  <2>1. /\ candidate # Absent /\ candidate.data = snapshot[r]
        /\ candidate.data \in Contents \ Bad
    <3>1. candidate # Absent /\ candidate.data \notin Bad BY <1>4, Zenon DEF Sound, Opens
    <3>2. candidate.data = snapshot[r] BY <1>1, <3>1, Alone, Zenon DEF WorkerFiles
    <3> QED BY <3>1, <3>2, Alone, Zenon
  <2>2. /\ candidate' \in Files /\ candidate'.data = snapshot[r] /\ candidate'.ready
        /\ candidate'.by = Nobody
    BY <1>4, <2>1, FileType, Zenon
  <2>3. Checked(candidate') BY <2>1, <2>2, Zenon DEF Checked
  <2>4. drop # "gone" /\ live # Absent /\ backup = Absent
    BY <1>2, <2>1, JournalAssumption, Zenon DEF RestInv, Recoverable
  <2>5. Recoverable' BY <1>1, <1>2, <2>4, Zenon DEF Recoverable, Same
  <2>6. pc'[r] = "write_journal" /\ snapshot' = snapshot BY <1>1, <1>4 DEF Go, RestInv, TypeOK, Same
  <2>7. WorkerFiles(r)'
    BY <1>1, <1>2, <2>2, <2>6, Zenon
    DEF WorkerFiles, Prepared, Missing, Unswapped, Installed, Locked, Steps, Swapping
  <2> QED BY <1>1, <1>2, <1>3, <1>4, <2>2, <2>3, <2>4, <2>5, <2>7, PrepareStep, Zenon
<1>5. CASE Fail(r, "incompatible") /\ candidate' = candidate
  <2>1. Recoverable' BY <1>1, <1>5, Zenon DEF Same, RestInv, Recoverable
  <2> QED BY <1>1, <1>3, <1>5, <2>1, FailStep, Zenon
<1> QED BY <1>1, <1>4, <1>5, Zenon

\* The journal is written beside a ready candidate.
LEMMA CreateJournalStep ==
    ASSUME RestInv, OneRestorer, NEW r \in Restorers, CreateJournal(r) PROVE RestInv'
<1>1. /\ pc[r] = "write_journal" /\ mode = "serving" /\ Same
      /\ UNCHANGED <<live, candidate, backup, opened>>
      /\ \/ Go(r, "fill_journal") /\ journal' = Torn /\ drop # "gone"
         \/ Fail(r, "internal") /\ journal' = journal
  BY Zenon DEF CreateJournal, At
<1>2. pc[r] \notin Locked /\ pc[r] \notin Swapping /\ journal = Absent
  BY <1>1, Alone, Zenon DEF Steps, Locked, Swapping, WorkerFiles
<1>3. /\ journal' \in {Absent, Torn, "prepared"} /\ candidate \in Files \cup {Absent}
      /\ candidate # Absent => Checked(candidate)
  BY <1>1, Alone, Zenon DEF FileTypes, RestInv, FilesReady
<1>4. candidate # Absent => candidate.ready /\ candidate.data = snapshot[r]
  BY <1>1, Alone, Zenon DEF WorkerFiles, Prepared
<1>5. CASE Go(r, "fill_journal") /\ journal' = Torn /\ drop # "gone"
  <2>1. live # Absent /\ backup = Absent
    BY <1>2, <1>5, JournalAssumption, Zenon DEF RestInv, Recoverable
  <2>2. Recoverable' BY <1>1, <1>4, <1>5, <2>1, Zenon DEF Recoverable, Same
  <2>3. pc'[r] = "fill_journal" /\ snapshot' = snapshot BY <1>1, <1>5 DEF Go, RestInv, TypeOK, Same
  <2>4. WorkerFiles(r)'
    BY <1>1, <1>4, <1>5, <2>3, Zenon
    DEF WorkerFiles, Prepared, Missing, Unswapped, Installed, Locked, Steps, Swapping
  <2> QED BY <1>1, <1>2, <1>3, <1>5, <2>1, <2>2, <2>4, PrepareStep, Zenon
<1>6. CASE Fail(r, "internal") /\ journal' = journal
  <2>1. Recoverable' BY <1>1, <1>6, Zenon DEF Same, RestInv, Recoverable
  <2> QED BY <1>1, <1>3, <1>6, <2>1, FailStep, Zenon
<1> QED BY <1>1, <1>5, <1>6, Zenon

\* A complete journal, a torn one or none: the swap has not begun.
LEMMA FillJournalStep ==
    ASSUME RestInv, OneRestorer, NEW r \in Restorers, FillJournal(r) PROVE RestInv'
<1>1. /\ pc[r] = "fill_journal" /\ mode = "serving" /\ Same
      /\ UNCHANGED <<live, candidate, backup, opened>>
      /\ \/ Go(r, "lock") /\ journal = Torn /\ journal' = "prepared"
         \/ Fail(r, "internal") /\ journal = Torn /\ journal' = "prepared"
         \/ Fail(r, "internal") /\ journal' \in {journal, Absent}
  BY Zenon DEF FillJournal, At
<1>2. pc[r] \notin Locked /\ pc[r] \notin Swapping
  BY <1>1, Zenon DEF Steps, Locked, Swapping
<1>3. /\ journal' \in {Absent, Torn, "prepared"} /\ candidate \in Files \cup {Absent}
      /\ candidate # Absent => Checked(candidate)
  BY <1>1, Alone, Zenon DEF FileTypes, RestInv, FilesReady
<1>4. candidate # Absent => candidate.ready /\ candidate.data = snapshot[r]
  BY <1>1, Alone, Zenon DEF WorkerFiles, Prepared
<1>5. IF drop = "gone" THEN journal = Absent
                       ELSE journal = Torn /\ live # Absent /\ backup = Absent
  BY <1>1, Alone, JournalAssumption, Zenon DEF WorkerFiles, RestInv, Recoverable
<1>6. Recoverable'
  <2>1. CASE drop = "gone"
    <3>1. journal' = Absent BY <1>1, <1>5, <2>1, JournalAssumption, Zenon
    <3> QED BY <1>1, <2>1, <3>1, Zenon DEF RestInv, Recoverable, Same
  <2>2. CASE drop # "gone" BY <1>1, <1>4, <1>5, <2>2, Zenon DEF Recoverable, Same
  <2> QED BY <2>1, <2>2, Zenon
<1>7. CASE Go(r, "lock") /\ journal = Torn /\ journal' = "prepared"
  <2>1. pc'[r] = "lock" /\ snapshot' = snapshot /\ drop' = drop
    BY <1>1, <1>7 DEF Go, RestInv, TypeOK, Same
  <2>2. WorkerFiles(r)'
    BY <1>1, <1>4, <1>5, <1>7, <2>1, Zenon
    DEF WorkerFiles, Prepared, Missing, Unswapped, Installed, Locked, Steps, Swapping
  <2> QED BY <1>1, <1>2, <1>3, <1>6, <1>7, <2>2, PrepareStep, Zenon
<1>8. CASE Fail(r, "internal") BY <1>1, <1>3, <1>6, <1>8, FailStep, Zenon
<1> QED BY <1>1, <1>7, <1>8, Zenon

-----------------------------------------------------------------------------
(* The swap.                                                                *)

\* The worker that holds the mutex has a complete journal, and no drop interferes.
LEMMA Holding ==
    ASSUME RestInv, OneRestorer, NEW r \in Restorers, pc[r] \in Locked
    PROVE  drop = "no" /\ journal = "prepared" /\ lock = r
BY Alone, Zenon DEF WorkerFiles

\* A step of the swap.
LEMMA SwapStep ==
    ASSUME RestInv, OneRestorer, NEW r \in Restorers, NEW there \in Locked, mode = "serving",
           Same, pc' = [pc EXCEPT ![r] = there], lock' = r, drop = "no", journal' = "prepared",
           live' \in Files \cup {Absent}, backup' \in Files \cup {Absent},
           candidate' \in {candidate, Absent}, opened' \in BOOLEAN, may' \subseteq Contents,
           live' # Absent => live'.ready /\ Checked(live'),
           backup' # Absent => backup'.ready /\ Checked(backup'),
           live' = Absent => backup' # Absent,
           live' # Absent /\ candidate' # Absent => backup' = Absent,
           candidate # Absent => candidate.ready,
           opened' => live' # Absent
    PROVE  /\ pc'[r] = there /\ drop' = "no" /\ snapshot' = snapshot
           /\ Swaps' <=> there \in Swapping
           /\ Expected' /\ WorkerFiles(r)' => RestInv'
<1>1. there \in Steps /\ UNCHANGED <<drop, mode, refusal, snapshot>> BY Zenon DEF Locked, Same
<1>2. FileTypes' BY Alone, Zenon DEF FileTypes
<1>3. snapshot' \in [Restorers -> Contents] BY <1>1, Zenon DEF RestInv, TypeOK
<1>4. /\ pc'[r] = there
      /\ Swaps' <=> there \in Swapping
      /\ FilesReady' /\ Recoverable' /\ Expected' /\ Served' /\ WorkerFiles(r)' => RestInv'
  BY <1>1, <1>2, <1>3, Local, Zenon
<1>5. FilesReady' BY Zenon DEF RestInv, FilesReady
<1>6. Recoverable' BY <1>1, Zenon DEF Recoverable
<1>7. Served' BY <1>1, Zenon DEF Served
<1> QED BY <1>1, <1>4, <1>5, <1>6, <1>7, Zenon

\* What the files are before a step of the swap.
LEMMA SwapFiles ==
    ASSUME RestInv, OneRestorer, NEW r \in Restorers, drop = "no", journal = "prepared"
    PROVE  /\ live \in Files \cup {Absent} /\ backup \in Files \cup {Absent}
           /\ candidate \in Files \cup {Absent} /\ may \subseteq Contents
           /\ live # Absent => live.ready /\ Checked(live)
           /\ backup # Absent => backup.ready /\ Checked(backup)
           /\ candidate # Absent => candidate.ready /\ Checked(candidate)
           /\ live = Absent => backup # Absent
           /\ live # Absent /\ candidate # Absent => backup = Absent
           /\ opened \in BOOLEAN /\ (opened => live # Absent)
<1>1. journal # Absent BY JournalAssumption, Zenon
<1> QED BY <1>1, Alone, Zenon DEF FileTypes, RestInv, FilesReady, Recoverable, Served

\* The Database is taken out of its handle.
LEMMA TakeStep ==
    ASSUME RestInv, OneRestorer, NEW r \in Restorers, Take(r) PROVE RestInv'
<1>1. /\ pc[r] = "lock" /\ mode = "serving" /\ Same
      /\ UNCHANGED <<live, candidate, backup, journal>>
      /\ \/ /\ opened /\ opened' = FALSE /\ lock' = r
            /\ pc' = [pc EXCEPT ![r] = "checkpoint"] /\ may' = may
         \/ Fail(r, "busy") /\ opened' = opened
  BY Zenon DEF Take, At, files
<1>2. pc[r] \notin Locked /\ pc[r] \notin Swapping BY <1>1, Zenon DEF Steps, Locked, Swapping
<1>3. CASE /\ opened /\ opened' = FALSE /\ lock' = r
           /\ pc' = [pc EXCEPT ![r] = "checkpoint"] /\ may' = may
  <2>1. drop = "no" BY <1>3, Zenon DEF RestInv, Served
  <2>2. /\ journal = "prepared" /\ live # Absent /\ backup = Absent
        /\ candidate # Absent => candidate.ready /\ candidate.data = snapshot[r]
    BY <1>1, <2>1, Alone, Zenon DEF WorkerFiles, Unswapped, Prepared
  <2>3. "checkpoint" \in Locked /\ "checkpoint" \notin Swapping
    BY Zenon DEF Locked, Steps, Swapping
  <2>4. /\ pc'[r] = "checkpoint" /\ drop' = "no" /\ snapshot' = snapshot /\ ~Swaps'
        /\ Expected' /\ WorkerFiles(r)' => RestInv'
    BY <1>1, <1>3, <2>1, <2>2, <2>3, SwapFiles, SwapStep, Zenon
  <2>5. Expected' BY <1>1, <1>2, <1>3, <2>1, <2>4, Alone, StaysExpected, Zenon
  <2>6. WorkerFiles(r)'
    BY <1>1, <1>3, <2>2, <2>4, Zenon
    DEF WorkerFiles, Missing, Unswapped, Installed, Swapping
  <2> QED BY <2>4, <2>5, <2>6, Zenon
<1>4. CASE Fail(r, "busy") /\ opened' = opened
  <2>1. Recoverable' BY <1>1, <1>4, Zenon DEF Same, RestInv, Recoverable
  <2>2. /\ journal' \in {Absent, Torn, "prepared"} /\ candidate \in Files \cup {Absent}
        /\ candidate # Absent => Checked(candidate)
    BY <1>1, Alone, Zenon DEF FileTypes, RestInv, FilesReady
  <2> QED BY <1>1, <1>4, <2>1, <2>2, FailStep, Zenon
<1> QED BY <1>1, <1>3, <1>4, Zenon

\* A checkpoint that fails puts it back.
LEMMA CheckpointStep ==
    ASSUME RestInv, OneRestorer, NEW r \in Restorers, Checkpoint(r) PROVE RestInv'
<1>1. PICK there \in {"preserve", "uncommit_candidate"} :
        /\ pc[r] = "checkpoint" /\ mode = "serving" /\ Same /\ Go(r, there)
        /\ UNCHANGED <<live, candidate, backup, journal>>
        /\ there = "preserve" => opened' = opened
        /\ there = "uncommit_candidate" => opened' = TRUE
  BY Zenon DEF Checkpoint, At, files
<1>2. pc[r] \in Locked /\ pc[r] \notin Swapping /\ there \in Locked /\ there \notin Swapping
  BY <1>1, Zenon DEF Steps, Locked, Swapping
<1>3. drop = "no" /\ journal = "prepared" /\ lock = r BY <1>2, Holding, Zenon
<1>4. /\ live # Absent /\ backup = Absent /\ opened \in BOOLEAN /\ ~opened
      /\ candidate # Absent => candidate.ready /\ candidate.data = snapshot[r]
  BY <1>1, <1>2, <1>3, Alone, Zenon DEF WorkerFiles, Unswapped, Prepared, Reopened, FileTypes
<1>5. pc' = [pc EXCEPT ![r] = there] /\ lock' = r /\ may' = may BY <1>1, <1>3, Zenon DEF Go
<1>6. opened' \in BOOLEAN BY <1>1, <1>4, Zenon
<1>7. /\ pc'[r] = there /\ drop' = "no" /\ snapshot' = snapshot /\ ~Swaps'
      /\ Expected' /\ WorkerFiles(r)' => RestInv'
  BY <1>1, <1>2, <1>3, <1>4, <1>5, <1>6, SwapFiles, SwapStep, Zenon
<1>8. Expected' BY <1>1, <1>2, <1>3, <1>5, <1>7, Alone, StaysExpected, Zenon
<1>9. WorkerFiles(r)'
  <2>1. CASE there = "preserve"
    <3>1. pc'[r] = "preserve" BY <1>7, <2>1, Zenon
    <3>2. UNCHANGED <<live, candidate, backup, journal, opened>> BY <1>1, <2>1, Zenon
    <3> QED
      BY <1>3, <1>4, <1>7, <3>1, <3>2, Zenon DEF WorkerFiles, Missing, Unswapped, Installed
  <2>2. CASE there = "uncommit_candidate"
    BY <1>1, <1>3, <1>4, <1>7, <2>2, Zenon
    DEF WorkerFiles, Missing, Unswapped, Installed, Prepared, Reopened
  <2> QED BY <2>1, <2>2, Zenon
<1> QED BY <1>7, <1>8, <1>9, Zenon

\* From here on the backup is what clients may find.
LEMMA PreserveStep ==
    ASSUME RestInv, OneRestorer, NEW r \in Restorers, Preserve(r) PROVE RestInv'
<1>1. /\ pc[r] = "preserve" /\ mode = "serving" /\ Same
      /\ UNCHANGED <<candidate, journal, opened>>
      /\ \/ Go(r, "sync_preserved") /\ backup' = live /\ live' = Absent
         \/ Go(r, "reopen") /\ UNCHANGED <<live, backup>>
  BY Zenon DEF Preserve, At
<1>2. pc[r] \in Locked /\ pc[r] \notin Swapping BY <1>1, Zenon DEF Steps, Locked, Swapping
<1>3. drop = "no" /\ journal = "prepared" /\ lock = r BY <1>2, Holding, Zenon
<1>4. /\ live # Absent /\ backup = Absent /\ ~opened
      /\ candidate # Absent => candidate.ready /\ candidate.data = snapshot[r]
  BY <1>1, <1>2, <1>3, Alone, Zenon DEF WorkerFiles, Unswapped, Prepared, Reopened
<1>5. CASE Go(r, "sync_preserved") /\ backup' = live /\ live' = Absent
  <2>1. "sync_preserved" \in Locked /\ "sync_preserved" \in Swapping
    BY Zenon DEF Steps, Locked, Swapping
  <2>2. pc' = [pc EXCEPT ![r] = "sync_preserved"] /\ lock' = r /\ may' = may
    BY <1>3, <1>5, Zenon DEF Go
  <2>3. /\ pc'[r] = "sync_preserved" /\ drop' = "no" /\ snapshot' = snapshot /\ Swaps'
        /\ Expected' /\ WorkerFiles(r)' => RestInv'
    BY <1>1, <1>3, <1>4, <1>5, <2>1, <2>2, SwapFiles, SwapStep, Zenon
  <2>4. live.data \in may BY <1>2, <1>3, <1>4, Alone, Zenon DEF RestInv, Expected
  <2>5. Expected' BY <1>4, <1>5, <2>2, <2>3, <2>4, Zenon DEF Expected
  <2>6. WorkerFiles(r)'
    BY <1>1, <1>3, <1>4, <1>5, <2>3, Zenon DEF WorkerFiles, Unswapped, Installed
  <2> QED BY <2>3, <2>5, <2>6, Zenon
<1>6. CASE Go(r, "reopen") /\ UNCHANGED <<live, backup>>
  <2>1. "reopen" \in Locked /\ "reopen" \notin Swapping BY Zenon DEF Steps, Locked, Swapping
  <2>2. pc' = [pc EXCEPT ![r] = "reopen"] /\ lock' = r /\ may' = may BY <1>3, <1>6, Zenon DEF Go
  <2>3. /\ pc'[r] = "reopen" /\ drop' = "no" /\ snapshot' = snapshot /\ ~Swaps'
        /\ Expected' /\ WorkerFiles(r)' => RestInv'
    BY <1>1, <1>3, <1>4, <1>6, <2>1, <2>2, SwapFiles, SwapStep, Zenon
  <2>4. Expected' BY <1>1, <1>2, <1>3, <1>6, <2>2, <2>3, Alone, StaysExpected, Zenon
  <2>5. WorkerFiles(r)'
    BY <1>1, <1>3, <1>4, <1>6, <2>3, Zenon DEF WorkerFiles, Missing, Installed, Prepared
  <2> QED BY <2>3, <2>4, <2>5, Zenon
<1> QED BY <1>1, <1>5, <1>6, Zenon

\* The candidate becomes the live file.
LEMMA InstallStep ==
    ASSUME RestInv, OneRestorer, NEW r \in Restorers, Install(r) PROVE RestInv'
<1>1. /\ pc[r] = "install" /\ mode = "serving" /\ Same
      /\ UNCHANGED <<backup, journal, opened>>
      /\ \/ /\ Go(r, "sync_installed") /\ candidate # Absent
            /\ live' = candidate /\ candidate' = Absent
         \/ Go(r, "rollback") /\ UNCHANGED <<live, candidate>>
  BY Zenon DEF Install, At, RemoveCandidate
<1>2. pc[r] \in Locked /\ pc[r] \in Swapping BY <1>1, Zenon DEF Steps, Locked, Swapping
<1>3. drop = "no" /\ journal = "prepared" /\ lock = r BY <1>2, Holding, Zenon
<1>4. /\ live = Absent /\ ~opened
      /\ candidate # Absent => candidate.ready /\ candidate.data = snapshot[r]
  BY <1>1, <1>2, <1>3, Alone, Zenon DEF WorkerFiles, Missing, Reopened
<1>5. backup # Absent /\ backup.data \in may
  BY <1>2, <1>3, Alone, Zenon DEF RestInv, Expected
<1>6. CASE /\ Go(r, "sync_installed") /\ candidate # Absent
           /\ live' = candidate /\ candidate' = Absent
  <2>1. "sync_installed" \in Locked /\ "sync_installed" \in Swapping
    BY Zenon DEF Steps, Locked, Swapping
  <2>2. pc' = [pc EXCEPT ![r] = "sync_installed"] /\ lock' = r /\ may' = may
    BY <1>3, <1>6, Zenon DEF Go
  <2>3. /\ pc'[r] = "sync_installed" /\ drop' = "no" /\ snapshot' = snapshot /\ Swaps'
        /\ Expected' /\ WorkerFiles(r)' => RestInv'
    BY <1>1, <1>3, <1>4, <1>6, <2>1, <2>2, SwapFiles, SwapStep, Zenon
  <2>4. Expected' BY <1>1, <1>5, <2>2, <2>3, Zenon DEF Expected
  <2>5. WorkerFiles(r)'
    BY <1>1, <1>3, <1>4, <1>6, <2>3, Zenon DEF WorkerFiles, Unswapped, Missing, Prepared
  <2> QED BY <2>3, <2>4, <2>5, Zenon
<1>7. CASE Go(r, "rollback") /\ UNCHANGED <<live, candidate>>
  <2>1. "rollback" \in Locked /\ "rollback" \in Swapping BY Zenon DEF Steps, Locked, Swapping
  <2>2. pc' = [pc EXCEPT ![r] = "rollback"] /\ lock' = r /\ may' = may
    BY <1>3, <1>7, Zenon DEF Go
  <2>3. /\ pc'[r] = "rollback" /\ drop' = "no" /\ snapshot' = snapshot /\ Swaps'
        /\ Expected' /\ WorkerFiles(r)' => RestInv'
    BY <1>1, <1>3, <1>4, <1>7, <2>1, <2>2, SwapFiles, SwapStep, Zenon
  <2>4. Expected' BY <1>1, <1>5, <2>2, <2>3, Zenon DEF Expected
  <2>5. WorkerFiles(r)'
    BY <1>1, <1>3, <1>4, <1>7, <2>3, Zenon DEF WorkerFiles, Unswapped, Installed
  <2> QED BY <2>3, <2>4, <2>5, Zenon
<1> QED BY <1>1, <1>6, <1>7, Zenon

\* A worker that fails with the mutex, the files as they are.
LEMMA FailHolding ==
    ASSUME RestInv, OneRestorer, NEW r \in Restorers, NEW why, Fail(r, why), mode = "serving",
           Same, UNCHANGED <<live, candidate, backup, journal, opened>>
    PROVE  RestInv'
<1>1. Recoverable' BY Zenon DEF Same, RestInv, Recoverable
<1>2. /\ candidate \in Files \cup {Absent} /\ journal \in {Absent, Torn, "prepared"}
      /\ candidate # Absent => Checked(candidate)
  BY Alone, Zenon DEF FileTypes, RestInv, FilesReady
<1> QED BY <1>1, <1>2, FailStep, Zenon

\* The backup becomes the live file again.
LEMMA RollbackStep ==
    ASSUME RestInv, OneRestorer, NEW r \in Restorers, Rollback(r) PROVE RestInv'
<1>1. /\ pc[r] = "rollback" /\ mode = "serving" /\ Same
      /\ UNCHANGED <<candidate, journal, opened>>
      /\ \/ /\ Go(r, "sync_rolled_back") /\ backup # Absent
            /\ live' = backup /\ backup' = Absent
         \/ Fail(r, "recovery_required") /\ UNCHANGED <<live, backup>>
  BY Zenon DEF Rollback, At
<1>2. pc[r] \in Locked /\ pc[r] \in Swapping BY <1>1, Zenon DEF Steps, Locked, Swapping
<1>3. drop = "no" /\ journal = "prepared" /\ lock = r BY <1>2, Holding, Zenon
<1>4. live = Absent /\ ~opened /\ (candidate # Absent => candidate.ready)
  BY <1>1, <1>2, <1>3, Alone, Zenon DEF WorkerFiles, Missing, Reopened
<1>5. backup # Absent /\ backup.data \in may
  BY <1>2, <1>3, Alone, Zenon DEF RestInv, Expected
<1>6. CASE Go(r, "sync_rolled_back") /\ live' = backup /\ backup' = Absent
  <2>1. "sync_rolled_back" \in Locked /\ "sync_rolled_back" \notin Swapping
    BY Zenon DEF Steps, Locked, Swapping
  <2>2. pc' = [pc EXCEPT ![r] = "sync_rolled_back"] /\ lock' = r /\ may' = may
    BY <1>3, <1>6, Zenon DEF Go
  <2>3. /\ pc'[r] = "sync_rolled_back" /\ drop' = "no" /\ snapshot' = snapshot /\ ~Swaps'
        /\ Expected' /\ WorkerFiles(r)' => RestInv'
    BY <1>1, <1>3, <1>4, <1>5, <1>6, <2>1, <2>2, SwapFiles, SwapStep, Zenon
  <2>4. Expected' BY <1>5, <1>6, <2>2, <2>3, Zenon DEF Expected
  <2>5. WorkerFiles(r)'
    BY <1>1, <1>3, <1>4, <1>5, <1>6, <2>3, Zenon
    DEF WorkerFiles, Missing, Installed, Prepared, Swapping
  <2> QED BY <2>3, <2>4, <2>5, Zenon
<1>7. CASE Fail(r, "recovery_required") /\ UNCHANGED <<live, backup>>
  BY <1>1, <1>7, FailHolding, Zenon
<1> QED BY <1>1, <1>6, <1>7, Zenon

\* A step of the swap that leaves the files and the handle alone.
LEMMA PassStep ==
    ASSUME RestInv, OneRestorer, NEW r \in Restorers, mode = "serving", Same,
           pc[r] \in Locked, NEW there \in Locked, Go(r, there),
           UNCHANGED <<live, candidate, backup, journal, opened>>,
           pc[r] \in Swapping <=> there \in Swapping,
           pc'[r] = there /\ drop' = "no" /\ snapshot' = snapshot => WorkerFiles(r)'
    PROVE  RestInv'
<1>1. drop = "no" /\ journal = "prepared" /\ lock = r BY Holding, Zenon
<1>2. pc' = [pc EXCEPT ![r] = there] /\ lock' = r /\ may' = may BY <1>1, Zenon DEF Go
<1>3. /\ pc'[r] = there /\ drop' = "no" /\ snapshot' = snapshot
      /\ Swaps' <=> there \in Swapping
      /\ Expected' /\ WorkerFiles(r)' => RestInv'
  BY <1>1, <1>2, SwapFiles, SwapStep, Zenon
<1>4. Swaps' <=> Swaps BY <1>3, Alone, Zenon
<1>5. Expected' BY <1>1, <1>2, <1>3, <1>4, Zenon DEF RestInv, Expected
<1> QED BY <1>3, <1>5, Zenon

\* A sync changes no name; an error leaves the files to the next start.
LEMMA SyncStep ==
    ASSUME RestInv, OneRestorer, NEW r \in Restorers, Sync(r) PROVE RestInv'
<1>1. /\ mode = "serving" /\ Same /\ UNCHANGED <<live, candidate, backup, journal, opened>>
      /\ Go(r, AfterSync[pc[r]]) \/ Fail(r, "internal")
  BY Zenon DEF Sync, files
<1>2. pc[r] \in {"sync_preserved", "sync_installed", "sync_removed", "sync_rolled_back"}
  BY DEF Sync, AfterSync
<1>3. /\ AfterSync["sync_preserved"] = "install" /\ AfterSync["sync_removed"] = "rollback"
      /\ AfterSync["sync_installed"] = "open_installed"
      /\ AfterSync["sync_rolled_back"] = "reopen"
  BY DEF AfterSync
<1>4. pc[r] \in Locked BY <1>2, Zenon DEF Locked, Steps, Swapping
<1>5. drop = "no" /\ journal = "prepared" /\ lock = r BY <1>4, Holding, Zenon
<1>6. CASE Go(r, AfterSync[pc[r]])
  <2>1. ASSUME NEW h \in {"sync_preserved", "sync_removed"}, pc[r] = h,
               NEW there \in {"install", "rollback"}, Go(r, there)
        PROVE  RestInv'
    <3>1. /\ live = Absent /\ ~opened
          /\ candidate # Absent => candidate.ready /\ candidate.data = snapshot[r]
      BY <1>4, <1>5, <2>1, Alone, Zenon DEF WorkerFiles, Missing, Reopened
    <3>2. pc[r] \in Swapping /\ there \in Swapping /\ there \in Locked
      BY <2>1, Zenon DEF Swapping, Locked, Steps
    <3>3. ASSUME pc'[r] = there, drop' = "no", snapshot' = snapshot PROVE WorkerFiles(r)'
      BY <1>1, <1>5, <2>1, <3>1, <3>3, Zenon DEF WorkerFiles, Unswapped, Installed
    <3> QED BY <1>1, <1>4, <2>1, <3>2, <3>3, PassStep, Zenon
  <2>2. CASE pc[r] = "sync_installed"
    <3>1. live # Absent /\ candidate = Absent /\ live.data = snapshot[r] /\ ~opened
      BY <1>4, <1>5, <2>2, Alone, Zenon DEF WorkerFiles, Installed, Reopened
    <3>2. /\ pc[r] \in Swapping /\ "open_installed" \in Swapping
          /\ "open_installed" \in Locked
      BY <2>2, Zenon DEF Swapping, Locked, Steps
    <3>3. ASSUME pc'[r] = "open_installed", drop' = "no", snapshot' = snapshot
          PROVE  WorkerFiles(r)'
      BY <1>1, <1>5, <3>1, <3>3, Zenon DEF WorkerFiles, Unswapped, Missing, Prepared
    <3> QED BY <1>1, <1>3, <1>4, <1>6, <2>2, <3>2, <3>3, PassStep, Zenon
  <2>3. CASE pc[r] = "sync_rolled_back"
    <3>1. live # Absent /\ backup = Absent /\ ~opened
      BY <1>4, <1>5, <2>3, Alone, Zenon DEF WorkerFiles, Unswapped, Reopened
    <3>2. pc[r] \notin Swapping /\ "reopen" \notin Swapping /\ "reopen" \in Locked
      BY <2>3, Zenon DEF Swapping, Locked, Steps
    <3>3. ASSUME pc'[r] = "reopen", drop' = "no", snapshot' = snapshot PROVE WorkerFiles(r)'
      BY <1>1, <1>5, <3>1, <3>3, Zenon DEF WorkerFiles, Installed, Missing, Prepared
    <3> QED BY <1>1, <1>3, <1>4, <1>6, <2>3, <3>2, <3>3, PassStep, Zenon
  <2> QED BY <1>2, <1>3, <1>6, <2>1, <2>2, <2>3, Zenon
<1>7. CASE Fail(r, "internal") BY <1>1, <1>7, FailHolding, Zenon
<1> QED BY <1>1, <1>6, <1>7, Zenon

\* The Database that was there before is open again.
LEMMA ReopenStep ==
    ASSUME RestInv, OneRestorer, NEW r \in Restorers, Reopen(r) PROVE RestInv'
<1>1. /\ pc[r] = "reopen" /\ mode = "serving" /\ Same
      /\ UNCHANGED <<live, candidate, backup, journal>>
      /\ \/ Go(r, "uncommit_candidate") /\ opened' = TRUE
         \/ Fail(r, "recovery_required") /\ opened' = opened
  BY Zenon DEF Reopen, At, files
<1>2. pc[r] \in Locked /\ pc[r] \notin Swapping BY <1>1, Zenon DEF Steps, Locked, Swapping
<1>3. drop = "no" /\ journal = "prepared" /\ lock = r BY <1>2, Holding, Zenon
<1>4. live # Absent /\ backup = Absent BY <1>1, <1>3, Alone, Zenon DEF WorkerFiles, Unswapped
<1>5. CASE Go(r, "uncommit_candidate") /\ opened' = TRUE
  <2>1. "uncommit_candidate" \in Locked /\ "uncommit_candidate" \notin Swapping
    BY Zenon DEF Steps, Locked, Swapping
  <2>2. pc' = [pc EXCEPT ![r] = "uncommit_candidate"] /\ lock' = r /\ may' = may
    BY <1>3, <1>5, Zenon DEF Go
  <2>3. /\ pc'[r] = "uncommit_candidate" /\ drop' = "no" /\ snapshot' = snapshot /\ ~Swaps'
        /\ Expected' /\ WorkerFiles(r)' => RestInv'
    BY <1>1, <1>3, <1>4, <1>5, <2>1, <2>2, SwapFiles, SwapStep, Zenon
  <2>4. Expected' BY <1>1, <1>2, <1>3, <2>2, <2>3, Alone, StaysExpected, Zenon
  <2>5. WorkerFiles(r)'
    BY <1>1, <1>3, <1>4, <2>3, Zenon
    DEF WorkerFiles, Missing, Installed, Prepared, Reopened
  <2> QED BY <2>3, <2>4, <2>5, Zenon
<1>6. CASE Fail(r, "recovery_required") /\ opened' = opened
  BY <1>1, <1>6, FailHolding, Zenon
<1> QED BY <1>1, <1>5, <1>6, Zenon

\* The commit point: from here on clients find the snapshot.
LEMMA OpenInstalledStep ==
    ASSUME RestInv, OneRestorer, NEW r \in Restorers, OpenInstalled(r) PROVE RestInv'
<1>1. /\ pc[r] = "open_installed" /\ mode = "serving" /\ Same
      /\ UNCHANGED <<live, candidate, backup, journal>>
      /\ \/ /\ pc' = [pc EXCEPT ![r] = "commit_backup"] /\ opened' = TRUE
            /\ may' = {snapshot[r]} /\ lock' = lock
         \/ Go(r, "remove_installed") /\ opened' = opened
  BY Zenon DEF OpenInstalled, At, files
<1>2. pc[r] \in Locked /\ pc[r] \in Swapping BY <1>1, Zenon DEF Steps, Locked, Swapping
<1>3. drop = "no" /\ journal = "prepared" /\ lock = r BY <1>2, Holding, Zenon
<1>4. live # Absent /\ candidate = Absent /\ live.data = snapshot[r] /\ ~opened
  BY <1>1, <1>2, <1>3, Alone, Zenon DEF WorkerFiles, Installed, Reopened
<1>5. CASE /\ pc' = [pc EXCEPT ![r] = "commit_backup"] /\ opened' = TRUE
           /\ may' = {snapshot[r]} /\ lock' = lock
  <2>1. "commit_backup" \in Locked /\ "commit_backup" \notin Swapping
    BY Zenon DEF Steps, Locked, Swapping
  <2>2. may' \subseteq Contents BY <1>5, Alone, Zenon
  <2>3. /\ pc'[r] = "commit_backup" /\ drop' = "no" /\ snapshot' = snapshot /\ ~Swaps'
        /\ Expected' /\ WorkerFiles(r)' => RestInv'
    BY <1>1, <1>3, <1>4, <1>5, <2>1, <2>2, SwapFiles, SwapStep, Zenon
  <2>4. Expected' BY <1>1, <1>4, <1>5, <2>3, Zenon DEF Expected
  <2>5. WorkerFiles(r)'
    BY <1>1, <1>3, <1>4, <2>3, Zenon
    DEF WorkerFiles, Missing, Installed, Prepared, Unswapped, Reopened
  <2> QED BY <2>3, <2>4, <2>5, Zenon
<1>6. CASE Go(r, "remove_installed") /\ opened' = opened
  <2>1. "remove_installed" \in Locked /\ "remove_installed" \in Swapping
    BY Zenon DEF Steps, Locked, Swapping
  <2>2. ASSUME pc'[r] = "remove_installed", drop' = "no", snapshot' = snapshot
        PROVE  WorkerFiles(r)'
    BY <1>1, <1>3, <1>4, <1>6, <2>2, Zenon DEF WorkerFiles, Missing, Prepared, Unswapped
  <2> QED BY <1>1, <1>2, <1>6, <2>1, <2>2, PassStep, Zenon
<1> QED BY <1>1, <1>5, <1>6, Zenon

\* An installed snapshot that does not open goes; the backup is still there.
LEMMA RemoveInstalledStep ==
    ASSUME RestInv, OneRestorer, NEW r \in Restorers, RemoveInstalled(r) PROVE RestInv'
<1>1. /\ pc[r] = "remove_installed" /\ mode = "serving" /\ Same
      /\ UNCHANGED <<candidate, backup, journal, opened>>
      /\ \/ Go(r, "sync_removed") /\ live' = Absent
         \/ Fail(r, "recovery_required") /\ live' = live
  BY Zenon DEF RemoveInstalled, At
<1>2. pc[r] \in Locked /\ pc[r] \in Swapping BY <1>1, Zenon DEF Steps, Locked, Swapping
<1>3. drop = "no" /\ journal = "prepared" /\ lock = r BY <1>2, Holding, Zenon
<1>4. candidate = Absent /\ ~opened
  BY <1>1, <1>2, <1>3, Alone, Zenon DEF WorkerFiles, Installed, Reopened
<1>5. backup # Absent /\ backup.data \in may
  BY <1>2, <1>3, Alone, Zenon DEF RestInv, Expected
<1>6. CASE Go(r, "sync_removed") /\ live' = Absent
  <2>1. "sync_removed" \in Locked /\ "sync_removed" \in Swapping
    BY Zenon DEF Steps, Locked, Swapping
  <2>2. pc' = [pc EXCEPT ![r] = "sync_removed"] /\ lock' = r /\ may' = may
    BY <1>3, <1>6, Zenon DEF Go
  <2>3. /\ pc'[r] = "sync_removed" /\ drop' = "no" /\ snapshot' = snapshot /\ Swaps'
        /\ Expected' /\ WorkerFiles(r)' => RestInv'
    BY <1>1, <1>3, <1>4, <1>5, <1>6, <2>1, <2>2, SwapFiles, SwapStep, Zenon
  <2>4. Expected' BY <1>1, <1>5, <2>2, <2>3, Zenon DEF Expected
  <2>5. WorkerFiles(r)'
    BY <1>1, <1>3, <1>4, <1>6, <2>3, Zenon DEF WorkerFiles, Unswapped, Installed
  <2> QED BY <2>3, <2>4, <2>5, Zenon
<1>7. CASE Fail(r, "recovery_required") /\ live' = live BY <1>1, <1>7, FailHolding, Zenon
<1> QED BY <1>1, <1>6, <1>7, Zenon

\* The clean-up after a rollback removes the candidate before the journal.
LEMMA UncommitCandidateStep ==
    ASSUME RestInv, OneRestorer, NEW r \in Restorers, UncommitCandidate(r) PROVE RestInv'
<1>1. /\ pc[r] = "uncommit_candidate" /\ mode = "serving" /\ Same
      /\ UNCHANGED <<live, backup, journal, opened>> /\ candidate' \in {candidate, Absent}
      /\ Go(r, "uncommit_journal") \/ Fail(r, "recovery_required")
  BY Zenon DEF UncommitCandidate, At, RemoveCandidate
<1>2. pc[r] \in Locked /\ pc[r] \notin Swapping BY <1>1, Zenon DEF Steps, Locked, Swapping
<1>3. drop = "no" /\ journal = "prepared" /\ lock = r BY <1>2, Holding, Zenon
<1>4. live # Absent /\ backup = Absent BY <1>1, <1>3, Alone, Zenon DEF WorkerFiles, Unswapped
<1>5. CASE Go(r, "uncommit_journal")
  <2>1. "uncommit_journal" \in Locked /\ "uncommit_journal" \notin Swapping
    BY Zenon DEF Steps, Locked, Swapping
  <2>2. pc' = [pc EXCEPT ![r] = "uncommit_journal"] /\ lock' = r /\ may' = may
    BY <1>3, <1>5, Zenon DEF Go
  <2>3. /\ pc'[r] = "uncommit_journal" /\ drop' = "no" /\ snapshot' = snapshot /\ ~Swaps'
        /\ Expected' /\ WorkerFiles(r)' => RestInv'
    BY <1>1, <1>3, <1>4, <2>1, <2>2, SwapFiles, SwapStep, Zenon
  <2>4. Expected' BY <1>1, <1>2, <1>3, <1>4, <2>2, <2>3, Alone, StaysExpected, Zenon
  <2>5. WorkerFiles(r)'
    BY <1>1, <1>3, <1>4, <2>3, Zenon
    DEF WorkerFiles, Missing, Installed, Prepared, Reopened
  <2> QED BY <2>3, <2>4, <2>5, Zenon
<1>6. CASE Fail(r, "recovery_required")
  <2>1. Recoverable' BY <1>1, <1>3, <1>4, Zenon DEF Same, RestInv, Recoverable
  <2>2. /\ candidate' \in Files \cup {Absent} /\ journal' \in {Absent, Torn, "prepared"}
        /\ candidate' # Absent => Checked(candidate')
    BY <1>1, Alone, Zenon DEF FileTypes, RestInv, FilesReady
  <2> QED BY <1>1, <1>2, <1>4, <1>6, <2>1, <2>2, FailStep, Zenon
<1> QED BY <1>1, <1>5, <1>6, Zenon

\* The journal goes last: the live file is the only one then.
LEMMA UncommitJournalStep ==
    ASSUME RestInv, OneRestorer, NEW r \in Restorers, UncommitJournal(r) PROVE RestInv'
<1>1. /\ pc[r] = "uncommit_journal" /\ mode = "serving" /\ Same
      /\ UNCHANGED <<live, candidate, backup, opened>> /\ journal' \in {journal, Absent}
      /\ Fail(r, "internal") \/ Fail(r, "recovery_required")
  BY Zenon DEF UncommitJournal, At
<1>2. pc[r] \in Locked BY <1>1, Zenon DEF Steps, Locked
<1>3. drop = "no" /\ journal = "prepared" BY <1>2, Holding, Zenon
<1>4. live # Absent /\ backup = Absent BY <1>1, <1>3, Alone, Zenon DEF WorkerFiles, Unswapped
<1>5. /\ candidate \in Files \cup {Absent} /\ journal' \in {Absent, Torn, "prepared"}
      /\ candidate # Absent => Checked(candidate)
      /\ candidate # Absent => candidate.ready
  BY <1>1, <1>3, Alone, SwapFiles, Zenon DEF FileTypes
<1>6. Recoverable' BY <1>1, <1>3, <1>4, <1>5, Zenon DEF Same, Recoverable
<1> QED BY <1>1, <1>5, <1>6, FailStep, Zenon

\* The clean-up after a commit removes the backup before the journal.
LEMMA CommitBackupStep ==
    ASSUME RestInv, OneRestorer, NEW r \in Restorers, CommitBackup(r) PROVE RestInv'
<1>1. /\ pc[r] = "commit_backup" /\ mode = "serving" /\ Same
      /\ UNCHANGED <<live, candidate, journal, opened>> /\ backup' \in {backup, Absent}
      /\ (Go(r, "commit_journal") /\ backup' = Absent) \/ Succeed(r)
  BY Zenon DEF CommitBackup, At
<1>2. pc[r] \in Locked /\ pc[r] \notin Swapping BY <1>1, Zenon DEF Steps, Locked, Swapping
<1>3. drop = "no" /\ journal = "prepared" /\ lock = r BY <1>2, Holding, Zenon
<1>4. live # Absent BY <1>1, Alone, Zenon DEF WorkerFiles
<1>5. CASE Go(r, "commit_journal") /\ backup' = Absent
  <2>1. "commit_journal" \in Locked /\ "commit_journal" \notin Swapping
    BY Zenon DEF Steps, Locked, Swapping
  <2>2. pc' = [pc EXCEPT ![r] = "commit_journal"] /\ lock' = r /\ may' = may
    BY <1>3, <1>5, Zenon DEF Go
  <2>3. /\ pc'[r] = "commit_journal" /\ drop' = "no" /\ snapshot' = snapshot /\ ~Swaps'
        /\ Expected' /\ WorkerFiles(r)' => RestInv'
    BY <1>1, <1>3, <1>4, <1>5, <2>1, <2>2, SwapFiles, SwapStep, Zenon
  <2>4. Expected' BY <1>1, <1>2, <1>3, <1>4, <2>2, <2>3, Alone, StaysExpected, Zenon
  <2>5. WorkerFiles(r)'
    BY <1>1, <1>3, <1>4, <1>5, <2>3, Zenon
    DEF WorkerFiles, Missing, Installed, Prepared, Reopened
  <2> QED BY <2>3, <2>4, <2>5, Zenon
<1>6. CASE Succeed(r)
  <2>1. pc' = [pc EXCEPT ![r] = "idle"] /\ lock' = Nobody /\ may' = may
    BY <1>6, Zenon DEF Succeed
  <2>2. Recoverable' BY <1>1, <1>3, <1>4, Zenon DEF Same, RestInv, Recoverable
  <2>3. /\ candidate' \in Files \cup {Absent} /\ journal' \in {Absent, Torn, "prepared"}
        /\ (candidate' # Absent => Checked(candidate')) /\ may' \subseteq Contents
    BY <1>1, <2>1, Alone, Zenon DEF FileTypes, RestInv, FilesReady
  <2> QED BY <1>1, <1>2, <1>4, <2>1, <2>2, <2>3, EndStep, Zenon
<1> QED BY <1>1, <1>5, <1>6, Zenon

\* The journal goes last here too; a leftover one is complete.
LEMMA CommitJournalStep ==
    ASSUME RestInv, OneRestorer, NEW r \in Restorers, CommitJournal(r) PROVE RestInv'
<1>1. /\ pc[r] = "commit_journal" /\ mode = "serving" /\ Same
      /\ UNCHANGED <<live, candidate, backup, opened>> /\ journal' \in {journal, Absent}
      /\ pc' = [pc EXCEPT ![r] = "idle"] /\ lock' = Nobody /\ may' = may
  BY Zenon DEF CommitJournal, At, Succeed
<1>2. pc[r] \in Locked /\ pc[r] \notin Swapping BY <1>1, Zenon DEF Steps, Locked, Swapping
<1>3. drop = "no" /\ journal = "prepared" BY <1>2, Holding, Zenon
<1>4. live # Absent /\ backup = Absent BY <1>1, <1>3, Alone, Zenon DEF WorkerFiles, Unswapped
<1>5. /\ candidate \in Files \cup {Absent} /\ journal' \in {Absent, Torn, "prepared"}
      /\ (candidate # Absent => Checked(candidate)) /\ may' \subseteq Contents
      /\ candidate # Absent => candidate.ready
  BY <1>1, <1>3, Alone, SwapFiles, Zenon DEF FileTypes
<1>6. Recoverable' BY <1>1, <1>3, <1>4, <1>5, Zenon DEF Same, Recoverable
<1> QED BY <1>1, <1>2, <1>5, <1>6, EndStep, Zenon

\* Only an unprotected candidate goes at the end.
LEMMA TailStep ==
    ASSUME RestInv, OneRestorer, NEW r \in Restorers, Tail(r) PROVE RestInv'
<1>1. /\ pc[r] = "tail" /\ mode = "serving" /\ Same
      /\ UNCHANGED <<live, backup, journal, opened>>
      /\ candidate' = candidate \/ (candidate' = Absent /\ candidate # Absent /\ journal = Absent)
      /\ Go(r, "idle")
  BY Zenon DEF Tail, At, RemoveCandidate
<1>2. pc[r] \notin Locked BY <1>1, Zenon DEF Steps, Locked
<1>3. live # Absent \/ candidate' = candidate
  BY <1>1, JournalAssumption, Zenon DEF RestInv, Recoverable
<1>4. /\ candidate' \in Files \cup {Absent} /\ journal' \in {Absent, Torn, "prepared"}
      /\ candidate' # Absent => Checked(candidate')
  BY <1>1, Alone, Zenon DEF FileTypes, RestInv, FilesReady
<1>5. Recoverable' BY <1>1, Zenon DEF Same, RestInv, Recoverable
<1>6. pc'[r] = "idle" BY <1>1 DEF Go, RestInv, TypeOK
<1>7. WorkerFiles(r)'
  BY <1>6, Zenon
  DEF WorkerFiles, Prepared, Missing, Unswapped, Installed, Locked, Steps, Swapping
<1> QED BY <1>1, <1>2, <1>3, <1>4, <1>5, <1>7, PrepareStep, Zenon

-----------------------------------------------------------------------------
(* Queries and a drop of the same Database.                                 *)

\* While nobody holds the mutex, nobody is in the swap.
LEMMA Free ==
    ASSUME RestInv, lock = Nobody
    PROVE  ~Swaps /\ \A q \in Restorers : pc[q] \notin Locked
<1>1. \A q \in Restorers : pc[q] \notin Locked
  BY WorkerAssumption, Zenon DEF RestInv, TypeOK
<1>2. \A q \in Restorers : pc[q] \notin Swapping
  BY <1>1, Zenon DEF Locked, Steps, Swapping
<1> QED BY <1>1, <1>2, Zenon DEF Swaps

\* What the steps at which a live file or none is required have in common.
LEMMA LockedSteps ==
    ASSUME NEW s, s \notin Locked
    PROVE  s \notin Missing /\ s \notin Installed /\ s # "commit_backup"
           /\ s \notin Unswapped \ {"lock"}
BY Zenon DEF Locked, Steps, Swapping, Missing, Installed, Unswapped

\* A query commits to the live file, under the mutex.
LEMMA WriteStep ==
    ASSUME RestInv, NEW w \in Writes, Write(w) PROVE RestInv'
<1>1. /\ mode = "serving" /\ opened /\ lock = Nobody /\ live' = File(w, TRUE) /\ may' = {w}
      /\ UNCHANGED <<candidate, backup, journal, opened, lock, drop, mode, refusal, pc, snapshot>>
  BY Zenon DEF Write, workers
<1>2. ~Swaps /\ \A q \in Restorers : pc[q] \notin Locked BY <1>1, Free, Zenon
<1>3. live # Absent /\ drop = "no" BY <1>1, Zenon DEF RestInv, Served
<1>4. w \in Contents \ Bad BY ContentAssumption, Zenon DEF Contents
<1>5. live' \in Files /\ live' # Absent /\ live'.ready /\ live'.by = Nobody /\ live'.data = w
  BY <1>1, <1>4, FileType, Zenon
<1>6. TypeOK' BY <1>1, <1>4, <1>5, Zenon DEF RestInv, TypeOK
<1>7. FilesReady' BY <1>1, <1>4, <1>5, Zenon DEF RestInv, FilesReady, Checked
<1>8. Recoverable' BY <1>1, <1>3, <1>5, Zenon DEF RestInv, Recoverable
<1>9. BootFiles' BY <1>1, Zenon DEF BootFiles, Booting
<1>10. ~Swaps' BY <1>1, <1>2, Zenon DEF Swaps
<1>11. Expected' BY <1>1, <1>5, <1>10, Zenon DEF Expected
<1>12. Served' BY <1>1, <1>3, <1>5, Zenon DEF Served
<1>13. ASSUME NEW q \in Restorers PROVE WorkerFiles(q)'
  <2>1. WorkerFiles(q) /\ pc'[q] = pc[q] /\ snapshot'[q] = snapshot[q] /\ pc[q] \notin Locked
    BY <1>1, <1>2, Zenon DEF RestInv
  <2>2. pc[q] \notin Missing /\ pc[q] \notin Installed /\ pc[q] # "commit_backup"
    BY <2>1, LockedSteps, Zenon
  <2> QED BY <1>1, <1>3, <1>5, <2>1, <2>2, Zenon DEF WorkerFiles
<1> QED BY <1>1, <1>6, <1>7, <1>8, <1>9, <1>11, <1>12, <1>13, Zenon
        DEF RestInv, RecoversUnlessTorn

\* A step of a drop that leaves the files alone.
LEMMA DropStep ==
    ASSUME RestInv, mode = "serving", lock = Nobody, drop # "gone",
           UNCHANGED <<live, candidate, backup, journal, lock, mode, refusal, pc, snapshot, may>>,
           drop' \in {"no", "taken", "lost", "committed"}, opened' \in BOOLEAN, Served'
    PROVE  RestInv'
<1>1. TypeOK' BY Zenon DEF RestInv, TypeOK
<1>2. FilesReady' /\ Recoverable' BY Zenon DEF RestInv, FilesReady, Recoverable
<1>3. BootFiles' BY Zenon DEF BootFiles, Booting
<1>4. Swaps' <=> Swaps BY Zenon DEF Swaps
<1>5. Expected' BY <1>4, Zenon DEF RestInv, Expected
<1>6. ASSUME NEW q \in Restorers PROVE WorkerFiles(q)'
  <2>1. WorkerFiles(q) /\ pc'[q] = pc[q] /\ snapshot'[q] = snapshot[q] /\ pc[q] \notin Locked
    BY Free, Zenon DEF RestInv
  <2> QED BY <2>1, Zenon DEF WorkerFiles
<1> QED BY <1>1, <1>2, <1>3, <1>5, <1>6, Zenon DEF RestInv, RecoversUnlessTorn

\* A drop closes the Database first.
LEMMA DropTakeStep ==
    ASSUME RestInv, DropTake PROVE RestInv'
<1>1. /\ mode = "serving" /\ drop = "no" /\ opened /\ lock = Nobody
      /\ drop' = "taken" /\ opened' = FALSE
      /\ UNCHANGED <<live, candidate, backup, journal, lock, mode, refusal, pc, snapshot, may>>
  BY Zenon DEF DropTake, files, workers
<1>2. Served' BY <1>1, Zenon DEF RestInv, Served
<1> QED BY <1>1, <1>2, DropStep, Zenon

\* While a drop is under way, no worker is in the swap.
LEMMA DropAlone ==
    ASSUME RestInv, drop # "no"
    PROVE  lock = Nobody /\ ~opened
<1>1. \A q \in Restorers : pc[q] \notin Locked BY Zenon DEF RestInv, WorkerFiles
<1> QED BY <1>1, Zenon DEF RestInv, TypeOK, Served

\* The catalog transition decides whether the Database is closed for good.
LEMMA DropTransitionStep ==
    ASSUME RestInv, DropTransition PROVE RestInv'
<1>1. /\ drop = "taken"
      /\ UNCHANGED <<live, candidate, backup, journal, lock, mode, refusal, pc, snapshot, may>>
      /\ \/ drop' \in {"committed", "lost"} /\ opened' = opened
         \/ drop' = "no" /\ opened' = TRUE
  BY Zenon DEF DropTransition, files, workers
<1>2. mode = "serving" /\ lock = Nobody /\ ~opened /\ live # Absent
  BY <1>1, DropAlone, Zenon DEF RestInv, BootFiles, Served
<1>3. Served'
  <2>1. CASE drop' \in {"committed", "lost"} /\ opened' = opened
    BY <1>2, <2>1, Zenon DEF Served
  <2>2. CASE drop' = "no" BY <1>1, <1>2, <2>2, Zenon DEF Served
  <2> QED BY <1>1, <2>1, <2>2, Zenon
<1>4. opened' \in BOOLEAN BY <1>1, Zenon DEF RestInv, TypeOK
<1> QED BY <1>1, <1>2, <1>3, <1>4, DropStep, Zenon

\* The files go with the directory.
LEMMA DropMoveStep ==
    ASSUME RestInv, DropMove PROVE RestInv'
<1>1. /\ drop = "committed" /\ drop' = "gone" /\ mode' = "serving"
      /\ live' = Absent /\ candidate' = Absent /\ backup' = Absent /\ journal' = Absent
      /\ UNCHANGED <<opened, lock, refusal, pc, snapshot, may>>
  BY Zenon DEF DropMove, workers
<1>2. lock = Nobody /\ ~opened BY <1>1, DropAlone, Zenon
<1>3. TypeOK' BY <1>1, Zenon DEF RestInv, TypeOK
<1>4. FilesReady' BY <1>1, Zenon DEF FilesReady
<1>5. Recoverable' /\ Expected' BY <1>1, Zenon DEF Recoverable, Expected
<1>6. BootFiles' BY <1>1, Zenon DEF BootFiles, Booting
<1>7. Served' BY <1>1, <1>2, Zenon DEF Served
<1>8. ASSUME NEW q \in Restorers PROVE WorkerFiles(q)'
  <2>1. pc'[q] = pc[q] /\ pc[q] \notin Locked BY <1>1, <1>2, Free, Zenon
  <2>2. pc[q] \notin Missing /\ pc[q] \notin Installed /\ pc[q] # "commit_backup"
    BY <2>1, LockedSteps, Zenon
  <2> QED BY <1>1, <2>1, <2>2, Zenon DEF WorkerFiles
<1> QED BY <1>1, <1>3, <1>4, <1>5, <1>6, <1>7, <1>8, Zenon DEF RestInv, RecoversUnlessTorn

-----------------------------------------------------------------------------
(* Startup and crashes.                                                     *)

\* What the process is before startup has ended.
LEMMA OfflineState ==
    ASSUME RestInv, mode # "serving"
    PROVE  /\ ~opened /\ drop \notin {"taken", "lost"} /\ ~Swaps
           /\ \A q \in Restorers : pc[q] = "idle"
           /\ FileTypes
<1>1. ~opened /\ (\A q \in Restorers : pc[q] = "idle") /\ FileTypes
  BY Zenon DEF RestInv, TypeOK, FileTypes
<1>2. "idle" \notin Swapping BY Zenon DEF Swapping
<1> QED BY <1>1, <1>2, Zenon DEF RestInv, BootFiles, Swaps

\* A step of startup: what it does to the files decides.
LEMMA BootStep ==
    ASSUME RestInv, mode # "serving", UNCHANGED <<opened, lock, drop, pc, snapshot>>,
           mode' \in {"refused", "serving"} \cup Booting, FileTypes', RecoversUnlessTorn',
           FilesReady', Recoverable', BootFiles', ~Swaps' => Expected'
    PROVE  RestInv'
<1>1. /\ ~opened /\ drop \notin {"taken", "lost"} /\ ~Swaps
      /\ \A q \in Restorers : pc[q] = "idle"
  BY OfflineState, Zenon
<1>2. TypeOK' BY <1>1, Zenon DEF RestInv, TypeOK, FileTypes
<1>3. Served' BY <1>1, Zenon DEF Served
<1>4. ~Swaps' BY <1>1, Zenon DEF Swaps
<1>5. /\ "idle" \notin Locked \cup Prepared \cup Missing \cup Unswapped \cup Installed
      /\ "idle" \notin {"write_candidate", "fill_candidate", "validate", "write_journal"}
  BY Zenon DEF Locked, Steps, Swapping, Prepared, Missing, Unswapped, Installed
<1>6. ASSUME NEW q \in Restorers PROVE WorkerFiles(q)'
  <2>1. pc'[q] = "idle" BY <1>1, Zenon
  <2> QED BY <1>5, <2>1, Zenon DEF WorkerFiles
<1> QED BY <1>2, <1>3, <1>4, <1>6, Zenon DEF RestInv

\* What no step of startup changes, and that no refusal but these is recorded.
LEMMA BootKeeps ==
    ASSUME RestInv, Offline
    PROVE  /\ UNCHANGED <<opened, lock, drop, pc, snapshot, may>>
           /\ \A there : Boot(there) => mode' = there /\ RecoversUnlessTorn'
           /\ Refuse("io") \/ Refuse("bad_journal") => mode' = "refused" /\ RecoversUnlessTorn'
BY Zenon DEF Offline, workers, Boot, Refuse, RestInv, RecoversUnlessTorn

\* Startup begins with the files as they are.
LEMMA StartStep ==
    ASSUME RestInv, Start PROVE RestInv'
<1>1. /\ mode \in {"down", "refused"} /\ Offline /\ refusal' = "none"
      /\ UNCHANGED <<live, candidate, backup, journal>>
      /\ mode' = IF drop = "gone" THEN "serving" ELSE "boot_clean"
  BY Zenon DEF Start, files
<1>2. mode # "serving" /\ mode' \in {"refused", "serving"} \cup Booting
  BY <1>1, Zenon DEF Booting
<1>3. UNCHANGED <<opened, lock, drop, pc, snapshot, may>> BY <1>1, BootKeeps, Zenon
<1>4. FileTypes' BY <1>1, <1>2, <1>3, OfflineState, Zenon DEF FileTypes
<1>5. RecoversUnlessTorn' BY <1>1, Zenon DEF RecoversUnlessTorn
<1>6. FilesReady' /\ Recoverable' BY <1>1, <1>3, Zenon DEF RestInv, FilesReady, Recoverable
<1>7. drop \notin {"taken", "lost"} BY <1>2, OfflineState, Zenon
<1>8. BootFiles' BY <1>1, <1>3, <1>7, Zenon DEF BootFiles, Booting
<1>9. ~Swaps' => Expected'
  BY <1>1, <1>2, <1>3, OfflineState, StaysExpected, Zenon
<1> QED BY <1>2, <1>3, <1>4, <1>5, <1>6, <1>8, <1>9, BootStep, Zenon

\* A call of startup that fails, or an unreadable journal: the files stay.
LEMMA RefuseStep ==
    ASSUME RestInv, Offline, mode \in Booting, UNCHANGED <<live, candidate, backup, journal>>,
           Refuse("io") \/ Refuse("bad_journal")
    PROVE  RestInv'
<1>1. mode # "serving" BY Zenon DEF Booting
<1>2. UNCHANGED <<opened, lock, drop, pc, snapshot, may>> /\ mode' = "refused"
      /\ RecoversUnlessTorn'
  BY BootKeeps, Zenon
<1>3. FileTypes' BY <1>1, <1>2, OfflineState, Zenon DEF FileTypes
<1>4. FilesReady' /\ Recoverable' BY <1>2, Zenon DEF RestInv, FilesReady, Recoverable
<1>5. BootFiles' BY <1>1, <1>2, OfflineState, Zenon DEF BootFiles, Booting
<1>6. ~Swaps' => Expected' BY <1>1, <1>2, OfflineState, StaysExpected, Zenon
<1> QED BY <1>1, <1>2, <1>3, <1>4, <1>5, <1>6, BootStep, Zenon

\* Startup goes on with the live file in its place.
LEMMA KeepLive ==
    ASSUME RestInv, Offline, mode \in Booting, NEW there \in Booting, Boot(there),
           live # Absent, live' = live, candidate' \in {candidate, Absent},
           backup' \in {backup, Absent}, journal' \in {journal, Absent},
           Recoverable', BootFiles'
    PROVE  RestInv'
<1>1. mode # "serving" BY Zenon DEF Booting
<1>2. UNCHANGED <<opened, lock, drop, pc, snapshot, may>> /\ mode' = there
      /\ RecoversUnlessTorn'
  BY BootKeeps, Zenon
<1>3. FileTypes' BY <1>1, <1>2, OfflineState, Zenon DEF FileTypes
<1>4. FilesReady' BY Zenon DEF RestInv, FilesReady
<1>5. ~Swaps' => Expected' BY <1>1, <1>2, OfflineState, StaysExpected, Zenon
<1> QED BY <1>1, <1>2, <1>3, <1>4, <1>5, BootStep, Zenon

\* Without a journal the live file is complete: only a candidate can be left over.
LEMMA BootCleanStep ==
    ASSUME RestInv, BootClean PROVE RestInv'
<1>1. mode = "boot_clean" /\ Offline /\ UNCHANGED <<live, backup, journal>>
  BY Zenon DEF BootClean
<1>2. mode \in Booting /\ "boot_open" \in Booting /\ "boot_match" \in Booting
      /\ drop \notin {"gone", "taken", "lost"}
  BY <1>1, OfflineState, Zenon DEF Booting, RestInv, BootFiles
<1>3. UNCHANGED drop BY <1>1, BootKeeps, Zenon
<1>4. journal = Absent => live # Absent /\ backup = Absent
  BY <1>2, JournalAssumption, Zenon DEF RestInv, Recoverable
<1>5. ~(Unjournaled /\ ~Cleanable) BY <1>4, Zenon DEF Unjournaled, Cleanable
<1>6. \/ Unjournaled /\ candidate' = Absent /\ Boot("boot_open")
      \/ ~Unjournaled /\ candidate' = candidate /\ journal = Absent /\ Boot("boot_open")
      \/ candidate' = candidate /\ journal # Absent /\ Boot("boot_match")
  BY <1>5, Zenon DEF BootClean, RemoveCandidate
<1>7. Recoverable'
  BY <1>1, <1>3, <1>6, Zenon DEF RestInv, Recoverable
<1>8. CASE journal = Absent
  <2>1. candidate' = Absent /\ Boot("boot_open")
    BY <1>6, <1>8, Zenon DEF Unjournaled
  <2>2. mode' = "boot_open" BY <2>1, Zenon DEF Boot
  <2>3. BootFiles'
    BY <1>1, <1>2, <1>3, <1>4, <1>8, <2>1, <2>2, Zenon DEF BootFiles, Booting
  <2> QED BY <1>1, <1>2, <1>4, <1>7, <1>8, <2>1, <2>3, KeepLive, Zenon
<1>9. CASE journal # Absent
  <2>1. candidate' = candidate /\ Boot("boot_match")
    BY <1>6, <1>9, Zenon DEF Unjournaled
  <2>2. mode' = "boot_match" /\ RecoversUnlessTorn' BY <1>1, <2>1, BootKeeps, Zenon
  <2>3. BootFiles' BY <1>1, <1>2, <1>3, <1>9, <2>2, Zenon DEF BootFiles, Booting
  <2>4. mode # "serving" BY <1>1, Zenon
  <2>5. UNCHANGED <<opened, lock, drop, pc, snapshot, may>> BY <1>1, BootKeeps, Zenon
  <2>6. FileTypes' BY <1>1, <2>1, <2>4, <2>5, OfflineState, Zenon DEF FileTypes
  <2>7. FilesReady' BY <1>1, <2>1, Zenon DEF RestInv, FilesReady
  <2>8. ~Swaps' => Expected'
    BY <1>1, <2>1, <2>4, <2>5, OfflineState, StaysExpected, Zenon
  <2> QED BY <1>2, <1>7, <2>2, <2>3, <2>4, <2>5, <2>6, <2>7, <2>8, BootStep, Zenon
<1> QED BY <1>8, <1>9, Zenon

\* A ready file that takes the place of the missing live one.
LEMMA PutBack ==
    ASSUME RestInv, Offline, mode \in Booting, NEW there \in {"boot_accept", "boot_candidate"},
           Boot(there), journal = "prepared", UNCHANGED journal,
           live = Absent, live' \in Files, live'.ready, Checked(live'), live'.data \in may,
           candidate' \in {candidate, Absent}, backup' \in {backup, Absent},
           there = "boot_accept" => candidate' = Absent /\ backup' # Absent,
           candidate' # Absent => backup' = Absent
    PROVE  RestInv'
<1>1. mode # "serving" /\ there \in Booting BY Zenon DEF Booting
<1>2. UNCHANGED <<opened, lock, drop, pc, snapshot, may>> /\ mode' = there
      /\ RecoversUnlessTorn'
  BY BootKeeps, Zenon
<1>3. live' # Absent /\ journal # Absent BY FileAssumption, JournalAssumption, Zenon
<1>4. FileTypes' BY <1>1, <1>2, OfflineState, Zenon DEF FileTypes
<1>5. FilesReady' BY Zenon DEF RestInv, FilesReady
<1>6. drop \notin {"gone", "taken", "lost"} BY <1>1, OfflineState, Zenon DEF RestInv, BootFiles
<1>7. candidate # Absent => candidate.ready BY <1>3, <1>6, Zenon DEF RestInv, Recoverable
<1>8. Recoverable' BY <1>2, <1>3, <1>6, <1>7, Zenon DEF Recoverable
<1>9. BootFiles' BY <1>2, <1>3, <1>6, Zenon DEF BootFiles, Booting
<1>10. ~Swaps' => Expected' BY <1>2, <1>3, Zenon DEF Expected
<1> QED BY <1>1, <1>2, <1>4, <1>5, <1>8, <1>9, <1>10, BootStep, Zenon

\* Every combination of files that a swap leaves beside a complete journal is decided.
LEMMA BootMatchStep ==
    ASSUME RestInv, BootMatch PROVE RestInv'
<1> DEFINE found == <<live # Absent, candidate # Absent, backup # Absent>>
<1> DEFINE problem == IF journal = Torn THEN "bad_journal"
                      ELSE IF found \in {<<TRUE, TRUE, TRUE>>, <<FALSE, TRUE, FALSE>>,
                                         <<FALSE, FALSE, FALSE>>} THEN "inconsistent"
                      ELSE "none"
<1>1. mode = "boot_match" /\ Offline /\ journal' = journal BY Zenon DEF BootMatch
<1>2. mode \in Booting /\ mode # "serving" /\ "boot_candidate" \in Booting
      /\ "boot_accept" \in Booting
  BY <1>1, Zenon DEF Booting
<1>3. ~Swaps /\ FileTypes /\ drop \notin {"gone", "taken", "lost"} /\ journal # Absent
  BY <1>1, <1>2, OfflineState, Zenon DEF RestInv, BootFiles
<1>4. /\ live = Absent => backup # Absent
      /\ live # Absent /\ candidate # Absent => backup = Absent
      /\ candidate # Absent => candidate.ready
  BY <1>3, Zenon DEF RestInv, Recoverable
<1>5. found \notin {<<TRUE, TRUE, TRUE>>, <<FALSE, TRUE, FALSE>>, <<FALSE, FALSE, FALSE>>}
  BY <1>4, Zenon
<1>6. CASE journal = Torn
  <2>1. problem = "bad_journal" BY <1>6, Zenon
  <2>2. Refuse("bad_journal") /\ UNCHANGED <<live, candidate, backup>>
    BY <2>1, Zenon DEF BootMatch
  <2> QED BY <1>1, <1>2, <2>2, RefuseStep, Zenon
<1>7. CASE journal # Torn
  <2>1. journal = "prepared" BY <1>3, <1>7, Zenon DEF FileTypes
  <2>2. problem = "none" BY <1>5, <1>7, Zenon
  <2>3. \/ /\ found \in {<<TRUE, TRUE, FALSE>>, <<TRUE, FALSE, FALSE>>}
           /\ Boot("boot_candidate") /\ UNCHANGED <<live, candidate, backup>>
        \/ /\ found = <<FALSE, TRUE, TRUE>> /\ Boot("boot_accept")
           /\ live' = candidate /\ candidate' = Absent /\ backup' = backup
        \/ /\ found = <<TRUE, FALSE, TRUE>> /\ Boot("boot_accept")
           /\ UNCHANGED <<live, candidate, backup>>
        \/ /\ found = <<FALSE, FALSE, TRUE>> /\ Boot("boot_candidate")
           /\ live' = backup /\ backup' = Absent /\ candidate' = candidate
    BY <2>2, Zenon DEF BootMatch, RemoveCandidate
  <2>4. UNCHANGED drop BY <1>1, BootKeeps, Zenon
  <2>5. CASE /\ found \in {<<TRUE, TRUE, FALSE>>, <<TRUE, FALSE, FALSE>>}
             /\ Boot("boot_candidate") /\ UNCHANGED <<live, candidate, backup>>
    <3>1. live # Absent BY <2>5, Zenon
    <3>2. Recoverable' BY <1>1, <2>4, <2>5, Zenon DEF RestInv, Recoverable
    <3>3. mode' = "boot_candidate" BY <2>5, Zenon DEF Boot
    <3>4. BootFiles'
      BY <1>1, <1>3, <2>1, <2>4, <2>5, <3>1, <3>3, Zenon DEF BootFiles, Booting
    <3> QED BY <1>1, <1>2, <2>5, <3>1, <3>2, <3>4, KeepLive, Zenon
  <2>6. CASE /\ found = <<TRUE, FALSE, TRUE>> /\ Boot("boot_accept")
             /\ UNCHANGED <<live, candidate, backup>>
    <3>1. live # Absent /\ candidate = Absent /\ backup # Absent BY <2>6, Zenon
    <3>2. Recoverable' BY <1>1, <2>4, <2>6, Zenon DEF RestInv, Recoverable
    <3>3. mode' = "boot_accept" BY <2>6, Zenon DEF Boot
    <3>4. BootFiles'
      BY <1>1, <1>3, <2>1, <2>4, <2>6, <3>1, <3>3, Zenon DEF BootFiles, Booting
    <3> QED BY <1>1, <1>2, <2>6, <3>1, <3>2, <3>4, KeepLive, Zenon
  <2>7. CASE /\ found = <<FALSE, TRUE, TRUE>> /\ Boot("boot_accept")
             /\ live' = candidate /\ candidate' = Absent /\ backup' = backup
    <3>1. live = Absent /\ candidate # Absent /\ backup # Absent BY <2>7, Zenon
    <3>2. candidate \in Files /\ Checked(candidate) /\ candidate.data \in may
      BY <1>3, <3>1, Zenon DEF FileTypes, RestInv, FilesReady, Expected
    <3> QED BY <1>1, <1>2, <1>4, <2>1, <2>7, <3>1, <3>2, PutBack, Zenon
  <2>8. CASE /\ found = <<FALSE, FALSE, TRUE>> /\ Boot("boot_candidate")
             /\ live' = backup /\ backup' = Absent /\ candidate' = candidate
    <3>1. live = Absent /\ candidate = Absent /\ backup # Absent BY <2>8, Zenon
    <3>2. backup \in Files /\ backup.ready /\ Checked(backup) /\ backup.data \in may
      BY <1>3, <3>1, Zenon DEF FileTypes, RestInv, FilesReady, Expected
    <3>3. "boot_candidate" # "boot_accept" OBVIOUS
    <3> QED BY <1>1, <1>2, <2>1, <2>8, <3>1, <3>2, <3>3, PutBack, Zenon
  <2> QED BY <2>3, <2>5, <2>6, <2>7, <2>8, Zenon
<1> QED BY <1>6, <1>7, Zenon

\* An installation that does not validate goes, and clients may find the backup.
LEMMA BootAcceptStep ==
    ASSUME RestInv, BootAccept PROVE RestInv'
<1>1. /\ mode = "boot_accept"
      /\ UNCHANGED <<candidate, backup, journal, opened, lock, drop, pc, snapshot>>
      /\ \/ Boot("boot_candidate") /\ UNCHANGED <<live, may>>
         \/ live' = Absent /\ Boot("boot_rollback") /\ may' = may \cup {backup.data}
  BY Zenon DEF BootAccept, workers
<1>2. mode # "serving" /\ mode \in Booting BY <1>1, Zenon DEF Booting
<1>3. ~Swaps /\ FileTypes /\ drop \notin {"gone", "taken", "lost"}
  BY <1>2, OfflineState, Zenon DEF RestInv, BootFiles
<1>4. journal = "prepared" /\ live # Absent /\ candidate = Absent /\ backup # Absent
  BY <1>1, Zenon DEF RestInv, BootFiles, Booting
<1>5. RecoversUnlessTorn' BY <1>1, Zenon DEF Boot, RestInv, RecoversUnlessTorn
<1>6. backup.data \in Contents BY <1>4, Zenon DEF RestInv, FilesReady, Checked
<1>7. FileTypes' BY <1>1, <1>3, <1>6, Zenon DEF FileTypes
<1>8. FilesReady' /\ Recoverable'
  BY <1>1, <1>3, <1>4, Zenon DEF RestInv, FilesReady, Recoverable
<1>9. CASE Boot("boot_candidate") /\ UNCHANGED <<live, may>>
  <2>1. mode' = "boot_candidate" /\ mode' \in Booting BY <1>9, Zenon DEF Boot, Booting
  <2>2. BootFiles' BY <1>1, <1>3, <1>4, <1>9, <2>1, Zenon DEF BootFiles, Booting
  <2>3. ~Swaps' => Expected' BY <1>1, <1>3, <1>9, StaysExpected, Zenon
  <2> QED BY <1>1, <1>2, <1>5, <1>7, <1>8, <2>1, <2>2, <2>3, BootStep, Zenon
<1>10. CASE live' = Absent /\ Boot("boot_rollback") /\ may' = may \cup {backup.data}
  <2>1. mode' = "boot_rollback" /\ mode' \in Booting BY <1>10, Zenon DEF Boot, Booting
  <2>2. BootFiles' BY <1>1, <1>3, <1>4, <1>10, <2>1, Zenon DEF BootFiles, Booting
  <2>3. ~Swaps' => Expected' BY <1>1, <1>4, <1>10, Zenon DEF Expected
  <2> QED BY <1>1, <1>2, <1>5, <1>7, <1>8, <2>1, <2>2, <2>3, BootStep, Zenon
<1> QED BY <1>1, <1>9, <1>10, Zenon

\* A ready file opens and passes the check.
LEMMA ReadyIsSound ==
    ASSUME NEW f, f # Absent, f.ready, Checked(f) PROVE Sound(f)
BY ContentAssumption, Zenon DEF Checked, Sound, Opens

\* The backup is valid, so startup never finds both files invalid.
LEMMA BootRollbackStep ==
    ASSUME RestInv, BootRollback PROVE RestInv'
<1>1. /\ mode = "boot_rollback" /\ Offline /\ live' = backup /\ backup' = Absent
      /\ UNCHANGED <<candidate, journal>>
  BY Zenon DEF BootRollback
<1>2. mode # "serving" /\ mode \in Booting BY <1>1, Zenon DEF Booting
<1>3. ~Swaps /\ FileTypes /\ drop # "gone"
  BY <1>2, OfflineState, Zenon DEF RestInv, BootFiles
<1>4. journal = "prepared" /\ live = Absent /\ candidate = Absent /\ backup # Absent
  BY <1>1, Zenon DEF RestInv, BootFiles
<1>5. backup \in Files /\ backup.ready /\ Checked(backup) /\ backup.data \in may
  BY <1>3, <1>4, Zenon DEF FileTypes, RestInv, FilesReady, Expected
<1>6. Boot("boot_candidate") BY <1>4, <1>5, ReadyIsSound, Zenon DEF BootRollback
<1>7. "boot_candidate" # "boot_accept" OBVIOUS
<1> QED BY <1>1, <1>2, <1>4, <1>5, <1>6, <1>7, PutBack, Zenon

\* Startup removes the candidate beside a live file.
LEMMA BootCandidateStep ==
    ASSUME RestInv, BootCandidate PROVE RestInv'
<1>1. /\ mode = "boot_candidate" /\ Offline /\ candidate' = Absent /\ Boot("boot_backup")
      /\ UNCHANGED <<live, backup, journal>>
  BY Zenon DEF BootCandidate, RemoveCandidate
<1>2. mode \in Booting /\ "boot_backup" \in Booting /\ mode # "serving"
  BY <1>1, Zenon DEF Booting
<1>3. journal = "prepared" /\ live # Absent /\ drop \notin {"gone", "taken", "lost"}
  BY <1>1, <1>2, OfflineState, Zenon DEF RestInv, BootFiles
<1>4. mode' = "boot_backup" /\ drop' = drop BY <1>1, BootKeeps, Zenon
<1>5. Recoverable' BY <1>1, <1>3, <1>4, Zenon DEF Recoverable
<1>6. BootFiles' BY <1>1, <1>3, <1>4, Zenon DEF BootFiles, Booting
<1> QED BY <1>1, <1>2, <1>3, <1>5, <1>6, KeepLive, Zenon

\* ... then the backup, beside a live file.
LEMMA BootBackupStep ==
    ASSUME RestInv, BootBackup PROVE RestInv'
<1>1. /\ mode = "boot_backup" /\ Offline /\ backup' = Absent /\ Boot("boot_journal")
      /\ UNCHANGED <<live, candidate, journal>>
  BY Zenon DEF BootBackup
<1>2. mode \in Booting /\ "boot_journal" \in Booting /\ mode # "serving"
  BY <1>1, Zenon DEF Booting
<1>3. /\ journal = "prepared" /\ live # Absent /\ candidate = Absent
      /\ drop \notin {"gone", "taken", "lost"}
  BY <1>1, <1>2, OfflineState, Zenon DEF RestInv, BootFiles
<1>4. mode' = "boot_journal" /\ drop' = drop BY <1>1, BootKeeps, Zenon
<1>5. Recoverable' BY <1>1, <1>3, <1>4, Zenon DEF Recoverable
<1>6. BootFiles' BY <1>1, <1>3, <1>4, Zenon DEF BootFiles, Booting
<1> QED BY <1>1, <1>2, <1>3, <1>5, <1>6, KeepLive, Zenon

\* ... and the journal when nothing but the live file is left.
LEMMA BootJournalStep ==
    ASSUME RestInv, BootJournal PROVE RestInv'
<1>1. /\ mode = "boot_journal" /\ Offline /\ journal' = Absent /\ Boot("boot_open")
      /\ UNCHANGED <<live, candidate, backup>>
  BY Zenon DEF BootJournal
<1>2. mode \in Booting /\ "boot_open" \in Booting /\ mode # "serving"
  BY <1>1, Zenon DEF Booting
<1>3. /\ live # Absent /\ candidate = Absent /\ backup = Absent
      /\ drop \notin {"gone", "taken", "lost"}
  BY <1>1, <1>2, OfflineState, Zenon DEF RestInv, BootFiles
<1>4. mode' = "boot_open" /\ drop' = drop BY <1>1, BootKeeps, Zenon
<1>5. Recoverable' BY <1>1, <1>3, <1>4, Zenon DEF Recoverable
<1>6. BootFiles' BY <1>1, <1>3, <1>4, Zenon DEF BootFiles, Booting
<1> QED BY <1>1, <1>2, <1>3, <1>5, <1>6, KeepLive, Zenon

\* What startup opens is what clients may find.
LEMMA BootOpenStep ==
    ASSUME RestInv, BootOpen PROVE RestInv'
<1>1. /\ mode = "boot_open" /\ drop = "no"
      /\ UNCHANGED <<live, candidate, backup, journal, lock, drop, pc, snapshot>>
  BY Zenon DEF BootOpen, files, workers
<1>2. mode # "serving" /\ mode \in Booting BY <1>1, Zenon DEF Booting
<1>3. live # Absent BY <1>1, <1>2, Zenon DEF RestInv, BootFiles
<1>4. /\ ~Swaps /\ FileTypes /\ \A q \in Restorers : pc[q] = "idle"
  BY <1>2, OfflineState, Zenon
<1>5. live.data \in may BY <1>1, <1>3, <1>4, Zenon DEF RestInv, Expected
<1>6. Opens(live) BY <1>3, ReadyIsSound, Zenon DEF RestInv, FilesReady, Sound
<1>7. opened' = TRUE /\ may' = {live.data} \cap may /\ Boot("serving")
  BY <1>3, <1>6, Zenon DEF BootOpen
<1>8. mode' = "serving" /\ refusal' = refusal BY <1>7, Zenon DEF Boot
<1>9. live.data \in may' /\ may' \subseteq Contents BY <1>4, <1>5, <1>7, Zenon DEF FileTypes
<1>10. TypeOK' BY <1>1, <1>7, <1>8, <1>9, Zenon DEF RestInv, TypeOK
<1>11. FilesReady' /\ Recoverable' BY <1>1, Zenon DEF RestInv, FilesReady, Recoverable
<1>12. BootFiles' BY <1>8, Zenon DEF BootFiles, Booting
<1>13. ~Swaps' BY <1>1, <1>4, Zenon DEF Swaps
<1>14. Expected' BY <1>1, <1>3, <1>9, <1>13, Zenon DEF Expected
<1>15. Served' BY <1>1, <1>3, Zenon DEF Served
<1>16. /\ "idle" \notin Locked \cup Prepared \cup Missing \cup Unswapped \cup Installed
       /\ "idle" \notin {"write_candidate", "fill_candidate", "validate", "write_journal"}
  BY Zenon DEF Locked, Steps, Swapping, Prepared, Missing, Unswapped, Installed
<1>17. ASSUME NEW q \in Restorers PROVE WorkerFiles(q)'
  <2>1. pc'[q] = "idle" BY <1>1, <1>4, Zenon
  <2> QED BY <1>16, <2>1, Zenon DEF WorkerFiles
<1> QED BY <1>8, <1>10, <1>11, <1>12, <1>14, <1>15, <1>17, Zenon
        DEF RestInv, RecoversUnlessTorn

\* A failing call ends startup with the files as they are.
LEMMA BootFaultStep ==
    ASSUME RestInv, BootFault PROVE RestInv'
<1>1. /\ mode \notin {"down", "refused", "serving"} /\ Refuse("io") /\ Offline
      /\ UNCHANGED <<live, candidate, backup, journal>>
  BY Zenon DEF BootFault, files
<1>2. mode \in Booting BY <1>1, Zenon DEF RestInv, TypeOK
<1> QED BY <1>1, <1>2, RefuseStep, Zenon

\* A file that nobody writes to any more is otherwise the same.
LEMMA ClosedFile ==
    ASSUME NEW f \in Files \cup {Absent}
    PROVE  /\ Closed(f) \in Files \cup {Absent} /\ (Closed(f) = Absent <=> f = Absent)
           /\ f # Absent => Closed(f).data = f.data /\ Closed(f).ready = f.ready
           /\ f # Absent /\ Checked(f) => Checked(Closed(f))
<1>1. CASE f = Absent BY <1>1, Zenon DEF Closed
<1>2. CASE f # Absent
  <2>1. f \in Files BY <1>2, Zenon
  <2>2. Closed(f) = [f EXCEPT !.by = Nobody] BY <1>2, Zenon DEF Closed
  <2>3. /\ Closed(f) \in Files /\ Closed(f).data = f.data /\ Closed(f).ready = f.ready
        /\ Closed(f).by = Nobody
    BY <2>1, <2>2 DEF Files
  <2>4. Closed(f) # Absent BY <2>3, FileAssumption, Zenon
  <2> QED BY <1>2, <2>3, <2>4, Zenon DEF Checked
<1> QED BY <1>1, <1>2, Zenon

\* Whatever the process was doing, startup finds files that it can decide, and what
\* it installs is what clients may find.
LEMMA CrashStep ==
    ASSUME RestInv, Crash PROVE RestInv'
<1> DEFINE gained == {snapshot[r] : r \in {q \in Restorers : pc[q] \in Swapping}}
<1>1. /\ mode' = "down" /\ opened' = FALSE /\ lock' = Nobody /\ UNCHANGED <<journal, refusal>>
      /\ drop' = IF drop \in {"taken", "lost"} THEN "no" ELSE drop
      /\ live' = Closed(live) /\ candidate' = Closed(candidate) /\ backup' = Closed(backup)
      /\ pc' = [r \in Restorers |-> "idle"]
      /\ snapshot' = [r \in Restorers |-> Original]
      /\ may' = may \cup gained
  BY Zenon DEF Crash
<1>2. TypeOK BY Zenon DEF RestInv
<1>3. \A q \in Restorers : snapshot[q] \in Contents BY <1>2 DEF TypeOK
<1>4. gained \subseteq Contents BY <1>3, Zenon
<1>5. may' \subseteq Contents /\ may \subseteq may' BY <1>1, <1>2, <1>4, Zenon DEF TypeOK
<1>6. \A q \in Restorers : pc[q] \in Swapping => snapshot[q] \in may'
  BY <1>1, Zenon
<1>7. /\ live' \in Files \cup {Absent} /\ (live' = Absent <=> live = Absent)
      /\ live # Absent => live'.data = live.data /\ live'.ready = live.ready
      /\ live # Absent /\ Checked(live) => Checked(live')
  BY <1>1, <1>2, ClosedFile, Zenon DEF TypeOK
<1>8. /\ backup' \in Files \cup {Absent} /\ (backup' = Absent <=> backup = Absent)
      /\ backup # Absent => backup'.data = backup.data /\ backup'.ready = backup.ready
      /\ backup # Absent /\ Checked(backup) => Checked(backup')
  BY <1>1, <1>2, ClosedFile, Zenon DEF TypeOK
<1>9. /\ candidate' \in Files \cup {Absent} /\ (candidate' = Absent <=> candidate = Absent)
      /\ candidate # Absent => /\ candidate'.data = candidate.data
                               /\ candidate'.ready = candidate.ready
      /\ candidate # Absent /\ Checked(candidate) => Checked(candidate')
  BY <1>1, <1>2, ClosedFile, Zenon DEF TypeOK
<1>10. /\ drop' \in {"no", "committed", "gone"} /\ (drop' = "gone" <=> drop = "gone")
  BY <1>1, <1>2, Zenon DEF TypeOK
<1>11. /\ "idle" \notin Locked \cup Prepared \cup Missing \cup Unswapped \cup Installed
       /\ "idle" \notin {"write_candidate", "fill_candidate", "validate", "write_journal"}
       /\ "idle" \notin Swapping /\ "idle" \in Steps
  BY Zenon DEF Locked, Steps, Swapping, Prepared, Missing, Unswapped, Installed
<1>12. /\ pc' \in [Restorers -> Steps] /\ snapshot' \in [Restorers -> Contents]
       /\ \A q \in Restorers : pc'[q] = "idle"
  BY <1>1, <1>11 DEF Contents
<1>13. \A q \in Restorers : pc'[q] \in Locked <=> lock' = q
  BY <1>1, <1>11, <1>12, WorkerAssumption, Zenon
<1>14. TypeOK'
  BY <1>1, <1>2, <1>5, <1>7, <1>8, <1>9, <1>10, <1>12, <1>13, Zenon DEF TypeOK
<1>15. FilesReady' BY <1>7, <1>8, <1>9, Zenon DEF RestInv, FilesReady
<1>16. Recoverable'
  BY <1>1, <1>7, <1>8, <1>9, <1>10, Zenon DEF RestInv, Recoverable
<1>17. BootFiles' BY <1>1, <1>10, Zenon DEF BootFiles, Booting
<1>18. Served' BY <1>1, <1>10, Zenon DEF Served
<1>19. ~Swaps' BY <1>11, <1>12, Zenon DEF Swaps
<1>20. Expected'
  <2>1. CASE drop = "gone" BY <1>10, <2>1, Zenon DEF Expected
  <2>2. CASE drop # "gone" /\ ~Swaps
    <3>1. live # Absent => live'.data \in may'
      BY <1>5, <1>7, <2>2, Zenon DEF RestInv, Expected
    <3>2. live = Absent => backup # Absent BY <2>2, Zenon DEF RestInv, Recoverable
    <3>3. live = Absent => /\ backup'.data \in may'
                           /\ candidate # Absent => candidate'.data \in may'
      BY <1>5, <1>8, <1>9, <2>2, <3>2, Zenon DEF RestInv, Expected
    <3> QED BY <1>7, <1>9, <1>19, <3>1, <3>3, Zenon DEF Expected
  <2>3. CASE drop # "gone" /\ Swaps
    <3>1. PICK r \in Restorers : pc[r] \in Swapping BY <2>3, Zenon DEF Swaps
    <3>2. pc[r] \in Missing \cup Installed BY <3>1, Zenon DEF Swapping, Missing, Installed
    <3>3. /\ live # Absent => live.data = snapshot[r]
          /\ candidate # Absent => candidate.data = snapshot[r]
      BY <3>2, Zenon DEF RestInv, WorkerFiles
    <3>4. backup # Absent /\ backup.data \in may BY <2>3, Zenon DEF RestInv, Expected
    <3>5. snapshot[r] \in may' BY <1>6, <3>1, Zenon
    <3>6. live # Absent => live'.data \in may' BY <1>7, <3>3, <3>5, Zenon
    <3>7. candidate # Absent => candidate'.data \in may' BY <1>9, <3>3, <3>5, Zenon
    <3>8. backup'.data \in may' BY <1>5, <1>8, <3>4, Zenon
    <3> QED BY <1>7, <1>9, <1>19, <3>6, <3>7, <3>8, Zenon DEF Expected
  <2> QED BY <2>1, <2>2, <2>3, Zenon
<1>21. ASSUME NEW q \in Restorers PROVE WorkerFiles(q)'
  <2>1. pc'[q] = "idle" BY <1>12, Zenon
  <2> QED BY <1>11, <2>1, Zenon DEF WorkerFiles
<1> QED BY <1>1, <1>14, <1>15, <1>16, <1>17, <1>18, <1>20, <1>21, Zenon
        DEF RestInv, RecoversUnlessTorn

-----------------------------------------------------------------------------
(* The invariant.                                                           *)

\* A new Database.
LEMMA RestInit ==
    ASSUME Init PROVE RestInv
<1>1. Original \in Contents /\ Original \notin Bad BY ContentAssumption DEF Contents
<1>2. /\ live \in Files /\ live # Absent /\ live.ready /\ live.by = Nobody
      /\ live.data = Original
  BY <1>1, FileType, Zenon DEF Init
<1>3. /\ "idle" \notin Locked \cup Prepared \cup Missing \cup Unswapped \cup Installed
      /\ "idle" \notin {"write_candidate", "fill_candidate", "validate", "write_journal"}
      /\ "idle" \notin Swapping /\ "idle" \in Steps
  BY Zenon DEF Locked, Steps, Swapping, Prepared, Missing, Unswapped, Installed
<1>4. /\ pc \in [Restorers -> Steps] /\ snapshot \in [Restorers -> Contents]
      /\ \A q \in Restorers : pc[q] = "idle"
  BY <1>1, <1>3 DEF Init
<1>5. \A q \in Restorers : pc[q] \in Locked <=> lock = q
  BY <1>3, <1>4, WorkerAssumption, Zenon DEF Init
<1>6. may \subseteq Contents BY <1>1, Zenon DEF Init
<1>7. TypeOK BY <1>2, <1>4, <1>5, <1>6, Zenon DEF Init, TypeOK
<1>8. FilesReady BY <1>1, <1>2, Zenon DEF Init, FilesReady, Checked
<1>9. Recoverable BY <1>2, Zenon DEF Init, Recoverable
<1>10. BootFiles BY Zenon DEF Init, BootFiles, Booting
<1>11. ~Swaps BY <1>3, <1>4, Zenon DEF Swaps
<1>12. Expected BY <1>2, <1>11, Zenon DEF Init, Expected
<1>13. Served BY Zenon DEF Init, Served
<1>14. \A q \in Restorers : WorkerFiles(q) BY <1>3, <1>4, Zenon DEF WorkerFiles
<1>15. RecoversUnlessTorn BY Zenon DEF Init, RecoversUnlessTorn
<1> QED BY <1>7, <1>8, <1>9, <1>10, <1>12, <1>13, <1>14, <1>15, Zenon DEF RestInv

\* Every step of a worker.
LEMMA WorkStep ==
    ASSUME RestInv, OneRestorer, NEW r \in Restorers, Work(r) PROVE RestInv'
BY CleanStep, CheckStep, CreateCandidateStep, FillCandidateStep, ValidateStep,
   CreateJournalStep, FillJournalStep, TakeStep, CheckpointStep, PreserveStep, InstallStep,
   RollbackStep, SyncStep, ReopenStep, OpenInstalledStep, RemoveInstalledStep,
   UncommitCandidateStep, UncommitJournalStep, CommitBackupStep, CommitJournalStep, TailStep,
   Zenon DEF Work

\* Every step of startup.
LEMMA RecoverStep ==
    ASSUME RestInv, Recover PROVE RestInv'
BY BootCleanStep, BootMatchStep, BootAcceptStep, BootRollbackStep, BootCandidateStep,
   BootBackupStep, BootJournalStep, BootOpenStep, BootFaultStep, Zenon DEF Recover

\* Every step preserves the invariant.
LEMMA RestNext ==
    ASSUME RestInv, OneRestorer, [Next]_vars PROVE RestInv'
<1>1. CASE Next
  BY <1>1, WriteStep, WorkStep, BeginStep, DropTakeStep, DropTransitionStep, DropMoveStep,
     RecoverStep, StartStep, CrashStep, Zenon DEF Next
<1>2. CASE UNCHANGED vars
  <2>1. UNCHANGED <<live, candidate, backup, journal, opened, lock, drop, mode, refusal, pc,
                    snapshot, may>>
    BY <1>2, Zenon DEF vars, files, workers
  <2>2. TypeOK' BY <2>1 DEF RestInv, TypeOK
  <2>3. FilesReady' /\ Recoverable' /\ Served' /\ RecoversUnlessTorn'
    BY <2>1, Zenon DEF RestInv, FilesReady, Recoverable, Served, RecoversUnlessTorn
  <2>4. BootFiles' BY <2>1, Zenon DEF RestInv, BootFiles
  <2>5. Expected' BY <2>1, Zenon DEF RestInv, Expected, Swaps
  <2>6. ASSUME NEW q \in Restorers PROVE WorkerFiles(q)'
    <3>1. WorkerFiles(q) /\ pc'[q] = pc[q] /\ snapshot'[q] = snapshot[q]
      BY <2>1, Zenon DEF RestInv
    <3> QED BY <2>1, <3>1, Zenon DEF WorkerFiles
  <2> QED BY <2>2, <2>3, <2>4, <2>5, <2>6, Zenon DEF RestInv
<1> QED BY <1>1, <1>2, Zenon

\* So it holds in every state.
LEMMA RestInvariant ==
    ASSUME OneRestorer PROVE Spec => []RestInv
<1>1. Init => RestInv BY RestInit, Zenon
<1>2. RestInv /\ [Next]_vars => RestInv' BY RestNext, Zenon
<1> QED BY <1>1, <1>2, PTL DEF Spec

-----------------------------------------------------------------------------
(* The theorems.                                                            *)

\* Types, and the mutex of the handle: it is held exactly by the worker that is in the
\* swap of restore_snapshot_with_operations, for any number of queries, drops, failed
\* calls and crashes, and restores that come one after another.
THEOREM RestoreTypes == ASSUME OneRestorer PROVE Spec => []TypeOK
<1>1. RestInv => TypeOK BY Zenon DEF RestInv
<1> QED BY <1>1, RestInvariant, PTL

\* Whatever call of the swap or of recover_snapshot_operations fails or is interrupted
\* by a crash, and however often, the live file or the backup is a checked Database
\* with contents that clients may find.
THEOREM DatabaseNeverLost == ASSUME OneRestorer PROVE Spec => []NeverLost
<1>1. RestInv => NeverLost
  <2> SUFFICES ASSUME RestInv, drop \notin {"committed", "gone"}
               PROVE  \E f \in {live, backup} : f # Absent /\ f.ready /\ f.data \in may
    BY Zenon DEF NeverLost
  <2>1. /\ live # Absent => live.ready
        /\ backup # Absent => backup.ready
    BY Zenon DEF RestInv, FilesReady
  <2>2. live = Absent => backup # Absent BY Zenon DEF RestInv, Recoverable
  <2>3. CASE Swaps
    <3>1. backup # Absent /\ backup.data \in may BY <2>3, Zenon DEF RestInv, Expected
    <3> QED BY <2>1, <3>1, Zenon
  <2>4. CASE ~Swaps /\ live # Absent
    <3>1. live.data \in may BY <2>4, Zenon DEF RestInv, Expected
    <3> QED BY <2>1, <2>4, <3>1, Zenon
  <2>5. CASE ~Swaps /\ live = Absent
    <3>1. backup.data \in may BY <2>5, Zenon DEF RestInv, Expected
    <3> QED BY <2>1, <2>2, <2>5, <3>1, Zenon
  <2> QED BY <2>3, <2>4, <2>5, Zenon
<1> QED BY <1>1, RestInvariant, PTL

\* An open Database holds what its clients may find: an acknowledged write or restore
\* is not undone, and a failed restore leaves the old contents, also after a restart.
THEOREM OpensWhatClientsExpect == ASSUME OneRestorer PROVE Spec => []ServesExpected
<1>1. RestInv => ServesExpected
  <2> SUFFICES ASSUME RestInv, opened PROVE live # Absent /\ live.data \in may
    BY Zenon DEF ServesExpected
  <2>1. live # Absent /\ drop = "no" BY Zenon DEF RestInv, Served
  <2>2. CASE ~Swaps BY <2>1, <2>2, Zenon DEF RestInv, Expected
  <2>3. CASE Swaps
    <3>1. PICK r \in Restorers : pc[r] \in Swapping BY <2>3, Zenon DEF Swaps
    <3>2. pc[r] \in Locked \ Reopened BY <3>1, Zenon DEF Swapping, Locked, Steps, Reopened
    <3> QED BY <3>2, Zenon DEF RestInv, WorkerFiles
  <2> QED BY <2>2, <2>3, Zenon
<1> QED BY <1>1, RestInvariant, PTL

\* Only a file that open, check, adopt_server_authority and checkpoint accepted becomes
\* the live Database, in the swap and in its recovery.
THEOREM OnlyValidatedIsInstalled == ASSUME OneRestorer PROVE Spec => []InstallsOnlyValidated
<1>1. RestInv => InstallsOnlyValidated
  BY Zenon DEF RestInv, FilesReady, InstallsOnlyValidated
<1> QED BY <1>1, RestInvariant, PTL

\* recover_snapshot_operations decides every interrupted replacement: no combination of
\* files that a restore leaves makes it give up, but a journal that was being written.
THEOREM StartupDecides == ASSUME OneRestorer PROVE Spec => []RecoversUnlessTorn
<1>1. RestInv => RecoversUnlessTorn BY Zenon DEF RestInv
<1> QED BY <1>1, RestInvariant, PTL

=============================================================================
