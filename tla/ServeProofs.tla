---------------------------- MODULE ServeProofs ----------------------------
(***************************************************************************)
(* The permits of the accept loop and the lock on the data directory       *)
(* (module Serve), for any sets of clients and jobs and any positive       *)
(* limits.                                                                 *)
(*                                                                         *)
(* Both are counting arguments, and Cardinality means something only for a *)
(* finite set: the inductive invariant ServeInv adds that the handlers and *)
(* the jobs are finitely many, even when the clients are not.  It says who *)
(* holds each permit and each reference to the daemon, so that a lock that *)
(* is free means that nobody is left.                                      *)
(***************************************************************************)
EXTENDS Serve, FiniteSetTheorems, TLAPS

\* The reference of serve_database_protocol itself.
Own == IF phase \in {"returned", "broken"} THEN 0 ELSE 1

\* The permits: with the semaphore, the accept loop or a handler.
PermitInv ==
  /\ IsFiniteSet(Alive)
  /\ available + Cardinality(Alive) + (IF phase = "accept" THEN 1 ELSE 0) = Maximum

\* The references: with the function, a handler or a job.
LockInv ==
  /\ IsFiniteSet(UnderWay)
  /\ references = Own + Cardinality(Alive) + Cardinality(UnderWay)
  /\ successor => references = 0

\* What every step keeps.
ServeInv == TypeOK /\ PermitInv /\ LockInv

\* A permit count is a natural number.
LEMMA MaximumType ==
  /\ Maximum \in Nat \ {0}
  /\ Maximum <= MaxConnections /\ Maximum <= MaxSessions
BY ServeAssumption DEF Maximum

\* The numbers of handlers and jobs.
LEMMA Counts ==
  ASSUME ServeInv
  PROVE  Cardinality(Alive) \in Nat /\ Cardinality(UnderWay) \in Nat /\ Own \in {0, 1}
<1>1. Cardinality(Alive) \in Nat /\ Cardinality(UnderWay) \in Nat
  BY FS_CardinalityType, Zenon DEF ServeInv, PermitInv, LockInv
<1>2. Own \in {0, 1} BY Zenon DEF Own
<1> QED BY <1>1, <1>2, Zenon

-----------------------------------------------------------------------------
(* What steps do to the two sets.                                          *)

\* Steps that start and end no handler.
LEMMA SameHandlers ==
  ASSUME TypeOK, NEW k \in Clients, NEW v,
         conn' = [conn EXCEPT ![k] = v], conn[k] \in Handled <=> v \in Handled
  PROVE  Alive' = Alive
BY Zenon DEF TypeOK, Alive, Handled

\* Steps that start and end no job.
LEMMA SameJobs == ASSUME job' = job PROVE UnderWay' = UnderWay
BY Zenon DEF UnderWay

\* A handler that ends is the one that is no longer counted.
LEMMA HandlerEnds ==
  ASSUME TypeOK, IsFiniteSet(Alive), NEW k \in Alive,
         conn' = [conn EXCEPT ![k] = "done"]
  PROVE  /\ IsFiniteSet(Alive)'
         /\ Cardinality(Alive) \in Nat \ {0}
         /\ Cardinality(Alive)' = Cardinality(Alive) - 1
<1>1. Alive' = Alive \ {k}
  BY Zenon DEF TypeOK, Alive, Handled
<1>2. Alive # {} BY Zenon
<1> QED BY <1>1, <1>2, FS_RemoveElement, FS_CardinalityType, FS_EmptySet, Zenon

\* The same for a job.
LEMMA JobEnds ==
  ASSUME TypeOK, IsFiniteSet(UnderWay), NEW j \in UnderWay,
         job' = [job EXCEPT ![j] = Nobody]
  PROVE  /\ IsFiniteSet(UnderWay)'
         /\ Cardinality(UnderWay) \in Nat \ {0}
         /\ Cardinality(UnderWay)' = Cardinality(UnderWay) - 1
<1>1. UnderWay' = UnderWay \ {j} BY Zenon DEF TypeOK, UnderWay
<1>2. UnderWay # {} BY Zenon
<1> QED BY <1>1, <1>2, FS_RemoveElement, FS_CardinalityType, FS_EmptySet, Zenon

-----------------------------------------------------------------------------
(* The steps.                                                              *)

\* A step that starts and ends no handler and no job.
LEMMA SameSets ==
  ASSUME ServeInv, Alive' = Alive, UnderWay' = UnderWay
  PROVE  /\ IsFiniteSet(Alive)' /\ Cardinality(Alive)' = Cardinality(Alive)
         /\ IsFiniteSet(UnderWay)' /\ Cardinality(UnderWay)' = Cardinality(UnderWay)
BY Zenon DEF ServeInv, PermitInv, LockInv

\* The accept loop takes and returns permits, and starts and aborts handlers.
LEMMA LoopStep ==
  ASSUME ServeInv,
         \/ Signal \/ Acquire \/ AcceptError \/ Stop
         \/ Drained \/ Deadline
         \/ \E k \in Clients : Accept(k)
  PROVE  ServeInv'
<1> USE MaximumType DEF ServeInv, TypeOK, PermitInv, LockInv
<1> DEFINE N == Cardinality(Alive)
<1> DEFINE M == Cardinality(UnderWay)
<1>0. N \in Nat /\ M \in Nat /\ Own \in {0, 1} BY Counts, Zenon
<1>a. UnderWay' = UnderWay /\ job' = job /\ successor' = successor
  BY Zenon DEF Signal, Acquire, AcceptError, Stop, Drained, Deadline, Accept, UnderWay
<1>b. IsFiniteSet(UnderWay)' /\ M' = M BY <1>a, Zenon
<1>c. job' \in [Jobs -> Clients \cup {Nobody}] /\ successor' \in BOOLEAN BY <1>a, Zenon
<1>d. ASSUME Alive' = Alive PROVE IsFiniteSet(Alive)' /\ N' = N BY <1>d, Zenon
<1>e. ASSUME references' = Own' + N' + M', successor => references' = 0 PROVE LockInv'
  <2>1. successor' => successor BY <1>a
  <2> QED BY <1>b, <1>e, <2>1, Zenon
<1>1. CASE Signal
  <2>1. Alive' = Alive /\ Own' = Own BY <1>1, Zenon DEF Signal, Alive, Own
  <2>2. TypeOK' /\ PermitInv' BY <1>1, <2>1, <1>c, <1>d, Zenon DEF Signal, Maximum
  <2>3. LockInv' BY <1>1, <2>1, <1>b, <1>d, <1>e, Zenon DEF Signal
  <2> QED BY <2>2, <2>3, Zenon
<1>2. CASE Acquire
  <2>1. Alive' = Alive /\ Own' = Own BY <1>2, Zenon DEF Acquire, Alive, Own
  <2>2. TypeOK' BY <1>2, <1>c DEF Acquire, Maximum
  <2>3. PermitInv' BY <1>2, <2>1, <1>0, <1>d DEF Acquire, Maximum
  <2>4. LockInv' BY <1>2, <2>1, <1>b, <1>d, <1>e, Zenon DEF Acquire
  <2> QED BY <2>2, <2>3, <2>4, Zenon
<1>3. CASE Stop
  <2>1. Alive' = Alive /\ Own' = Own BY <1>3, Zenon DEF Stop, Alive, Own
  <2>2. PermitInv' BY <1>3, <2>1, <1>0, <1>d DEF Stop, Maximum
  <2>3. TypeOK' BY <1>3, <1>0, <1>c DEF Stop, Maximum
  <2>4. LockInv' BY <1>3, <2>1, <1>b, <1>d, <1>e, Zenon DEF Stop
  <2> QED BY <2>2, <2>3, <2>4, Zenon
<1>4. CASE Drained
  <2>1. Alive' = Alive BY <1>4, Zenon DEF Drained, Alive
  <2>2. Own = 1 /\ Own' = 0 BY <1>4, Zenon DEF Drained, Own
  <2>3. TypeOK' BY <1>4, <1>c DEF Drained, Maximum
  <2>4. PermitInv' BY <1>4, <2>1, <1>d, Zenon DEF Drained, Maximum
  <2>5. references' = Own' + N' + M'
    <3>1. N' = N /\ M' = M /\ references' = references - 1 /\ references = Own + N + M
      BY <1>4, <2>1, <1>b, <1>d, Zenon DEF Drained
    <3> QED BY ONLY <3>1, <2>2, <1>0
  <2>6. ~successor BY <1>0, <2>2
  <2>7. LockInv' BY <2>5, <2>6, <1>e, Zenon
  <2> QED BY <2>3, <2>4, <2>7, Zenon
<1>5. ASSUME AcceptError \/ Deadline PROVE Alive' = Alive
  BY <1>5, Zenon DEF AcceptError, Deadline, Alive, Handled
<1>6. CASE AcceptError
  <2>1. Own = 1 /\ Own' = 0 BY <1>6, Zenon DEF AcceptError, Own
  <2>2. IsFiniteSet(Alive)' /\ N' = N BY <1>5, <1>6, <1>d, Zenon
  <2>3. PermitInv' BY <1>6, <2>2, <1>0 DEF AcceptError, Maximum
  <2>4. conn' \in [Clients -> {"absent", "waiting", "done"} \cup Handled]
    BY <1>6, Zenon DEF AcceptError, Handled
  <2>5. available' \in 0..Maximum BY <1>6, <1>0 DEF AcceptError, Maximum
  <2>6. TypeOK' BY <1>6, <2>4, <2>5, <1>c DEF AcceptError, Maximum
  <2>7. references' = Own' + N' + M' BY <1>6, <2>1, <2>2, <1>0, <1>b DEF AcceptError
  <2>8. ~successor BY <1>0, <2>1
  <2>9. LockInv' BY <2>7, <2>8, <1>e, Zenon
  <2> QED BY <2>3, <2>6, <2>9, Zenon
<1>7. CASE Deadline
  <2>1. Own' = Own BY <1>7, Zenon DEF Deadline, Own
  <2>2. IsFiniteSet(Alive)' /\ N' = N BY <1>5, <1>7, <1>d, Zenon
  <2>3. PermitInv' BY <1>7, <2>2, Zenon DEF Deadline, Maximum
  <2>4. TypeOK' BY <1>7, <1>c, Zenon DEF Deadline, Maximum, Handled
  <2>5. LockInv' BY <1>7, <2>1, <2>2, <1>b, <1>e, Zenon DEF Deadline
  <2> QED BY <2>3, <2>4, <2>5, Zenon
<1>8. ASSUME NEW k \in Clients, Accept(k) PROVE ServeInv'
  <2>1. Alive' = Alive \cup {k} /\ k \notin Alive
    <3>1. \A c \in Clients : c # k => conn'[c] = conn[c] BY <1>8, Zenon DEF Accept
    <3>2. conn[k] \notin Handled /\ conn'[k] \in Handled BY <1>8, Zenon DEF Accept, Handled
    <3> QED BY <3>1, <3>2, Zenon DEF Alive
  <2>2. IsFiniteSet(Alive)' /\ N' = N + 1 BY <2>1, FS_AddElement, Zenon
  <2>3. Own = 1 /\ Own' = 1 BY <1>8, Zenon DEF Accept, Own
  <2>4. PermitInv' BY <1>8, <1>0, <2>2 DEF Accept, Maximum
  <2>5. conn' \in [Clients -> {"absent", "waiting", "done"} \cup Handled]
    BY <1>8, Zenon DEF Accept, Handled
  <2>6. TypeOK' BY <1>8, <2>5, <1>c DEF Accept, Maximum
  <2>7. references' = Own' + N' + M' BY <1>8, <2>2, <2>3, <1>0, <1>b DEF Accept
  <2>8. ~successor BY <1>0, <2>3
  <2>9. LockInv' BY <2>7, <2>8, <1>e, Zenon
  <2> QED BY <2>4, <2>6, <2>9, Zenon
<1> QED BY <1>1, <1>2, <1>3, <1>4, <1>6, <1>7, <1>8, Zenon

\* A connection keeps its permit and its reference while it is handled and returns
\* them at the end.
LEMMA ConnectionStep ==
  ASSUME ServeInv, NEW k \in Clients,
         \/ Connect(k) \/ Hello(k) \/ Close(k)
         \/ Leave(k) \/ Reap(k)
  PROVE  ServeInv'
<1> USE MaximumType DEF ServeInv, TypeOK, PermitInv, LockInv
<1> DEFINE N == Cardinality(Alive)
<1> DEFINE M == Cardinality(UnderWay)
<1>0. N \in Nat /\ M \in Nat /\ Own \in {0, 1} BY Counts, Zenon
<1>1. ASSUME NEW v \in {"waiting", "open", "closing"}, conn' = [conn EXCEPT ![k] = v],
             conn[k] \in Handled <=> v \in Handled,
             UNCHANGED <<phase, shutdown, available, job, references, successor>>
      PROVE  ServeInv'
  <2>1. Alive' = Alive BY <1>1, SameHandlers, Zenon
  <2>2. UnderWay' = UnderWay /\ Own' = Own BY <1>1, SameJobs, Zenon DEF Own
  <2>3. /\ IsFiniteSet(Alive)' /\ N' = N
        /\ IsFiniteSet(UnderWay)' /\ M' = M
    BY <2>1, <2>2, SameSets, Zenon
  <2>4. TypeOK' BY <1>1, Zenon DEF Maximum, Handled
  <2> QED BY <1>1, <2>2, <2>3, <2>4, Zenon DEF Maximum
<1>2. ASSUME Finish(k), conn[k] \in Handled, UNCHANGED <<phase, shutdown, successor>>
      PROVE  ServeInv'
  <2>1. k \in Alive BY <1>2, Zenon DEF Alive
  <2>2. IsFiniteSet(Alive)' /\ N \in Nat \ {0} /\ N' = N - 1
    BY <2>1, <1>2, HandlerEnds, Zenon DEF Finish
  <2>3. UnderWay' = UnderWay /\ Own' = Own BY <1>2, SameJobs, Zenon DEF Finish, Own
  <2>4. IsFiniteSet(UnderWay)' /\ M' = M BY <2>3, Zenon
  <2>5. PermitInv' BY <1>2, <1>0, <2>2 DEF Finish, Maximum
  <2>6. LockInv' BY <1>2, <1>0, <2>2, <2>3, <2>4 DEF Finish
  <2>7. conn' \in [Clients -> {"absent", "waiting", "done"} \cup Handled]
    BY <1>2, Zenon DEF Finish
  <2>8. available' \in 0..Maximum /\ references' \in Int BY <1>2, <1>0, <2>2 DEF Finish, Maximum
  <2>9. TypeOK' BY <1>2, <2>7, <2>8, Zenon DEF Finish, Maximum
  <2> QED BY <2>5, <2>6, <2>9, Zenon
<1> QED
  BY <1>1, <1>2, Zenon
  DEF Connect, Hello, Close, Leave, Reap, Handled

\* A job has a reference of its own from its first step to its last.
LEMMA JobStep ==
  ASSUME ServeInv, NEW j \in Jobs, EndJob(j) \/ \E k \in Clients : StartJob(k, j)
  PROVE  ServeInv'
<1> USE DEF ServeInv, TypeOK, PermitInv, LockInv
<1> DEFINE N == Cardinality(Alive)
<1> DEFINE M == Cardinality(UnderWay)
<1>0. N \in Nat /\ M \in Nat /\ Own \in {0, 1} BY Counts, Zenon
<1>1. UNCHANGED <<phase, shutdown, available, conn, successor>>
  BY Zenon DEF EndJob, StartJob
<1>2. Alive' = Alive /\ Own' = Own BY <1>1, Zenon DEF Alive, Own
<1>3. IsFiniteSet(Alive)' /\ N' = N BY <1>2, Zenon
<1>4. PermitInv' BY <1>1, <1>3, Zenon DEF Maximum
<1>5. CASE EndJob(j)
  <2>1. j \in UnderWay BY <1>5, Zenon DEF EndJob, UnderWay
  <2>2. job' = [job EXCEPT ![j] = Nobody] /\ references' = references - 1
    BY <1>5, Zenon DEF EndJob
  <2>3. IsFiniteSet(UnderWay)' /\ M \in Nat \ {0} /\ M' = M - 1
    BY <2>1, <2>2, JobEnds, Zenon
  <2>4. LockInv' BY <1>0, <1>1, <1>2, <1>3, <2>2, <2>3
  <2>5. references' \in Int BY <2>2
  <2>6. job' \in [Jobs -> Clients \cup {Nobody}] BY <2>2, Zenon
  <2>7. TypeOK' BY <1>1, <2>5, <2>6, Zenon DEF Maximum
  <2> QED BY <1>4, <2>4, <2>7, Zenon
<1>6. ASSUME NEW k \in Clients, StartJob(k, j) PROVE ServeInv'
  <2>1. /\ job' = [job EXCEPT ![j] = k] /\ references' = references + 1
        /\ job[j] = Nobody /\ k \in Alive
    BY <1>6, Zenon DEF StartJob, Alive, Handled
  <2>2. UnderWay' = UnderWay \cup {j} /\ j \notin UnderWay
    BY <2>1, ServeAssumption, Zenon DEF UnderWay
  <2>3. IsFiniteSet(UnderWay)' /\ M' = M + 1 BY <2>2, FS_AddElement, Zenon
  <2>4. N # 0 BY <2>1, FS_EmptySet, Zenon
  <2>5. LockInv' BY <1>0, <1>1, <1>2, <1>3, <2>1, <2>3, <2>4
  <2>6. references' \in Int BY <2>1
  <2>7. job' \in [Jobs -> Clients \cup {Nobody}] BY <2>1, Zenon
  <2>8. TypeOK' BY <1>1, <2>6, <2>7, Zenon DEF Maximum
  <2> QED BY <1>4, <2>5, <2>8, Zenon
<1> QED BY <1>5, <1>6, Zenon

\* Another process changes nothing here.
LEMMA ReopenStep == ASSUME ServeInv, Reopen PROVE ServeInv'
<1>1. /\ references' = 0 /\ references = 0 /\ successor' \in BOOLEAN
      /\ UNCHANGED <<phase, shutdown, available, conn, job, references>>
  BY Zenon DEF Reopen
<1>2. Alive' = Alive /\ UnderWay' = UnderWay /\ Own' = Own
  BY <1>1, Zenon DEF Alive, UnderWay, Own
<1>3. TypeOK' BY <1>1, Zenon DEF ServeInv, TypeOK, Maximum
<1> QED BY <1>1, <1>2, <1>3, SameSets, Zenon DEF ServeInv, PermitInv, LockInv, Maximum

\* The permits and the references add up in every state.
LEMMA ServeInvariance == Spec => []ServeInv
<1>1. Init => ServeInv
  <2> SUFFICES ASSUME Init PROVE ServeInv BY Zenon
  <2>1. Alive = {} /\ UnderWay = {} BY Zenon DEF Init, Alive, Handled, UnderWay
  <2>2. /\ IsFiniteSet(Alive) /\ Cardinality(Alive) = 0
        /\ IsFiniteSet(UnderWay) /\ Cardinality(UnderWay) = 0
    BY <2>1, FS_EmptySet, Zenon
  <2>3. available = Maximum /\ Maximum \in Nat
    BY MaximumType, Zenon DEF Init
  <2>4. PermitInv BY <2>2, <2>3 DEF Init, PermitInv
  <2>5. Own = 1 BY Zenon DEF Init, Own
  <2>6. LockInv BY <2>2, <2>5 DEF Init, LockInv
  <2>7. available \in 0..Maximum /\ references \in Int BY <2>3 DEF Init
  <2>8. TypeOK BY <2>7, Zenon DEF Init, TypeOK
  <2> QED BY <2>4, <2>6, <2>8, Zenon DEF ServeInv
<1>2. ServeInv /\ [Next]_vars => ServeInv'
  <2> SUFFICES ASSUME ServeInv, [Next]_vars PROVE ServeInv' BY Zenon
  <2>1. CASE UNCHANGED vars
    BY <2>1, Zenon DEF vars, ServeInv, TypeOK, PermitInv, LockInv,
       Alive, UnderWay, Own, Maximum
  <2> QED BY <2>1, LoopStep, ConnectionStep, JobStep, ReopenStep, Zenon DEF Next
<1> QED BY <1>1, <1>2, PTL DEF Spec

-----------------------------------------------------------------------------
(* Theorems.                                                               *)

\* Types: the semaphore never holds more permits than it was created with.
THEOREM ServeTypes == Spec => []TypeOK
<1>1. ServeInv => TypeOK BY Zenon DEF ServeInv
<1> QED BY <1>1, ServeInvariance, PTL

\* No permit is lost or made by a refused handshake, an error, an abort or shutdown,
\* and min(max_connections, max_sessions) handlers are never exceeded.
THEOREM Permits == Spec => []PermitsConserved
<1>1. ASSUME ServeInv PROVE PermitsConserved
  <2>1. Cardinality(Alive) \in Nat BY <1>1, Counts, Zenon
  <2>2. available \in Nat /\ Cardinality(Alive) <= Maximum
    BY <1>1, <2>1, MaximumType DEF ServeInv, TypeOK, PermitInv
  <2>3. Cardinality(Alive) <= MaxConnections /\ Cardinality(Alive) <= MaxSessions
    BY <2>1, <2>2, MaximumType, ServeAssumption
  <2> QED BY <1>1, <2>3, Zenon DEF ServeInv, PermitInv, PermitsConserved
<1> QED BY <1>1, ServeInvariance, PTL

\* The data directory is free for another daemon only when every handler has ended
\* and every job, also those that handlers which failed or were aborted left behind.
THEOREM LockOutlivesWork == Spec => []OneDaemonWorks
<1>1. ASSUME ServeInv, successor PROVE phase \in {"returned", "broken"} /\ Alive = {} /\ UnderWay = {}
  <2>1. references = Own + Cardinality(Alive) + Cardinality(UnderWay) /\ references = 0
    BY <1>1, Zenon DEF ServeInv, LockInv
  <2>2. Own = 0 /\ Cardinality(Alive) = 0 /\ Cardinality(UnderWay) = 0
    BY <1>1, <2>1, Counts
  <2>3. phase \in {"returned", "broken"} BY <2>2 DEF Own
  <2>4. IsFiniteSet(Alive) /\ IsFiniteSet(UnderWay)
    BY <1>1, Zenon DEF ServeInv, PermitInv, LockInv
  <2> QED BY <2>2, <2>3, <2>4, FS_EmptySet, Zenon
<1>2. ServeInv => OneDaemonWorks BY <1>1, Zenon DEF OneDaemonWorks
<1> QED BY <1>2, ServeInvariance, PTL
=============================================================================
