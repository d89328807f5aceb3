-------------------------------- MODULE Serve --------------------------------
(***************************************************************************)
(* serve_database_protocol of src/protocol.rs: the accept loop, the        *)
(* semaphore that bounds connections, the handshake each connection starts *)
(* with, and shutdown with its five-second deadline. What an authenticated *)
(* connection does is in modules Requests and Session; here it starts jobs *)
(* on blocking threads, stays open, closes, or stalls.                     *)
(*                                                                         *)
(* The lock on the data directory is a field of the daemon (daemon.rs:84)  *)
(* and is released when the last Arc of the daemon goes. The function, its *)
(* handlers and their jobs hold one each, and a job outlives a handler     *)
(* that failed or was aborted. The next `nostd serve` on the directory     *)
(* starts when it gets the lock.                                           *)
(***************************************************************************)
EXTENDS Integers, FiniteSets

CONSTANTS Clients,         \* clients, each of which connects at most once
          Jobs,            \* jobs that may be under way at a time
          Nobody,          \* a job that is not under way
          MaxConnections,  \* limits.max_connections
          MaxSessions      \* limits.max_sessions

ASSUME ServeAssumption == {MaxConnections, MaxSessions} \subseteq Nat \ {0} /\ Nobody \notin Clients

VARIABLES
  phase,      \* where serve_database_protocol is
  shutdown,   \* the shutdown future has resolved
  available,  \* permits in the semaphore
  conn,       \* the connection of each client
  job,        \* the client that each job, a request's task and its worker, is for
  references, \* strong references to the daemon
  successor   \* another process has opened the data directory

vars == <<phase, shutdown, available, conn, job, references, successor>>

Maximum == IF MaxConnections < MaxSessions THEN MaxConnections ELSE MaxSessions

\* The states in which a handler's future, and with it its permit, exists.
Handled == {"hello", "open", "closing", "aborted"}
Alive == {k \in Clients : conn[k] \in Handled}
UnderWay == {j \in Jobs : job[j] # Nobody}

\* Types; the semaphore never holds more permits than it was created with.
TypeOK ==
  /\ phase \in {"permit", "accept", "stopping", "aborting", "returned", "broken"}
  /\ shutdown \in BOOLEAN
  /\ available \in 0..Maximum
  /\ conn \in [Clients -> {"absent", "waiting", "done"} \cup Handled]
  /\ job \in [Jobs -> Clients \cup {Nobody}]
  /\ references \in Int
  /\ successor \in BOOLEAN

Init ==
  /\ phase = "permit"
  /\ shutdown = FALSE
  /\ available = Maximum
  /\ conn = [k \in Clients |-> "absent"]
  /\ job = [j \in Jobs |-> Nobody]
  /\ references = 1
  /\ successor = FALSE

-----------------------------------------------------------------------------
(* The environment.                                                        *)

Connect(k) ==
  /\ conn[k] = "absent"
  /\ conn' = [conn EXCEPT ![k] = "waiting"]
  /\ UNCHANGED <<phase, shutdown, available, job, references, successor>>

Signal ==
  /\ ~shutdown
  /\ shutdown' = TRUE
  /\ UNCHANGED <<phase, available, conn, job, references, successor>>

\* acquire_data_directory_lock in another process; it is refused while the lock
\* is held. On the way out of main the runtime waits for the jobs under way, so
\* the end of the process releases nothing before them.
Reopen ==
  /\ references = 0
  /\ successor' = TRUE
  /\ UNCHANGED <<phase, shutdown, available, conn, job, references>>

-----------------------------------------------------------------------------
(* The accept loop. Both selects are unbiased, so a ready permit or client *)
(* may win against a shutdown that has already resolved.                   *)

Acquire ==
  /\ phase = "permit"
  /\ available > 0
  /\ available' = available - 1
  /\ phase' = "accept"
  /\ UNCHANGED <<shutdown, conn, job, references, successor>>

\* The handler gets the permit and a clone of the daemon.
Accept(k) ==
  /\ phase = "accept"
  /\ conn[k] = "waiting"
  /\ conn' = [conn EXCEPT ![k] = "hello"]
  /\ references' = references + 1
  /\ phase' = "permit"
  /\ UNCHANGED <<shutdown, available, job, successor>>

\* accept or set_nodelay fails: the function returns, dropping the permit, the
\* daemon and the JoinSet with every connection in it.
AcceptError ==
  /\ phase = "accept"
  /\ phase' = "broken"
  /\ available' = available + 1
  /\ references' = references - 1
  /\ conn' = [k \in Clients |-> IF k \in Alive THEN "aborted" ELSE conn[k]]
  /\ UNCHANGED <<shutdown, job, successor>>

\* Mutant: a permit is returned that was not taken.
StopReturnsPermit ==
  /\ shutdown
  /\ phase \in {"permit", "accept"}
  /\ phase' = "stopping"
  /\ available' = available + 1
  /\ UNCHANGED <<shutdown, conn, job, references, successor>>

\* Handlers are told through the watch channel, which Close may follow.
Stop ==
  /\ shutdown
  /\ phase \in {"permit", "accept"}
  /\ phase' = "stopping"
  /\ available' = IF phase = "accept" THEN available + 1 ELSE available
  /\ UNCHANGED <<shutdown, conn, job, references, successor>>

\* Every handler has been joined.
Drained ==
  /\ phase \in {"stopping", "aborting"}
  /\ Alive = {}
  /\ phase' = "returned"
  /\ references' = references - 1
  /\ UNCHANGED <<shutdown, available, conn, job, successor>>

\* Mutant: shutdown waits without a deadline.
DeadlineNever == FALSE /\ UNCHANGED vars

\* Five seconds have passed: abort every connection, then join them.
Deadline ==
  /\ phase = "stopping"
  /\ Alive # {}
  /\ phase' = "aborting"
  /\ conn' = [k \in Clients |-> IF k \in Alive THEN "aborted" ELSE conn[k]]
  /\ UNCHANGED <<shutdown, available, job, references, successor>>

-----------------------------------------------------------------------------
(* Connections.                                                            *)

\* Mutant: the permit is not dropped.
FinishKeepsPermit(k) ==
  /\ conn' = [conn EXCEPT ![k] = "done"]
  /\ references' = references - 1
  /\ UNCHANGED <<available, job>>

\* The handler's future ends, and its permit and its daemon are dropped with it.
\* Its JoinSet aborts the tasks that are left, but not their workers.
Finish(k) ==
  /\ conn' = [conn EXCEPT ![k] = "done"]
  /\ available' = available + 1
  /\ references' = references - 1
  /\ UNCHANGED job

\* The first frame: authenticated, or answered with a failure and closed, or
\* not readable. The wait for it does not watch the shutdown channel.
Hello(k) ==
  /\ conn[k] = "hello"
  /\ \/ conn' = [conn EXCEPT ![k] = "open"] /\ UNCHANGED <<available, job, references>>
     \/ Finish(k)
  /\ UNCHANGED <<phase, shutdown, successor>>

\* Mutant: the job borrows the daemon of its handler.
StartJobBorrows(k, j) ==
  /\ conn[k] \in {"open", "aborted"} /\ job[j] = Nobody
  /\ job' = [job EXCEPT ![j] = k]
  /\ UNCHANGED <<phase, shutdown, available, conn, references, successor>>

\* dispatch spawns the task of a query, a commit or an export, which moves a clone
\* of the daemon into its spawn_blocking closure. An aborted handler may still get
\* so far. The clone a query's task keeps besides is not counted: it could only
\* hold the lock longer.
StartJob(k, j) ==
  /\ conn[k] \in {"open", "aborted"} /\ job[j] = Nobody
  /\ job' = [job EXCEPT ![j] = k]
  /\ references' = references + 1
  /\ UNCHANGED <<phase, shutdown, available, conn, successor>>

\* The worker has returned and its task has answered or was aborted.
EndJob(j) ==
  /\ job[j] # Nobody
  /\ job' = [job EXCEPT ![j] = Nobody]
  /\ references' = references - 1
  /\ UNCHANGED <<phase, shutdown, available, conn, successor>>

\* The read loop ends in order, because the client left or the server stops.
Close(k) ==
  /\ conn[k] = "open"
  /\ conn' = [conn EXCEPT ![k] = "closing"]
  /\ UNCHANGED <<phase, shutdown, available, job, references, successor>>

\* A closing handler has joined its tasks; an open one returned an error.
Leave(k) ==
  /\ \/ conn[k] = "open"
     \/ conn[k] = "closing" /\ \A j \in Jobs : job[j] # k
  /\ Finish(k)
  /\ UNCHANGED <<phase, shutdown, successor>>

\* An aborted future is dropped at its next suspension point, not before: a
\* lifecycle request it is executing inline runs to its end.
Reap(k) ==
  /\ conn[k] = "aborted"
  /\ Finish(k)
  /\ UNCHANGED <<phase, shutdown, successor>>

Next ==
  \/ \E k \in Clients : Connect(k) \/ Accept(k) \/ Hello(k) \/ Close(k) \/ Leave(k) \/ Reap(k)
                        \/ \E j \in Jobs : StartJob(k, j)
  \/ \E j \in Jobs : EndJob(j)
  \/ Signal \/ Acquire \/ AcceptError \/ Stop \/ Drained \/ Deadline \/ Reopen

Spec == Init /\ [][Next]_vars

(***************************************************************************)
(* The accept loop and the timer run; an aborted future is dropped because *)
(* every synchronous call of a handler ends, and a job whose handler is    *)
(* gone ends with its worker, as every call of the engine returns. Clients *)
(* owe nothing: they may never send hello, never leave and never read, and *)
(* a job whose handler is there may wait for that.                         *)
(***************************************************************************)
Orphaned(j) == job[j] \in Clients /\ conn[job[j]] = "done"

FairSpec ==
  /\ Spec
  /\ WF_vars(Stop) /\ WF_vars(Drained) /\ WF_vars(Deadline)
  /\ \A k \in Clients : WF_vars(Reap(k))
  /\ \A j \in Jobs : WF_vars(Orphaned(j) /\ EndJob(j))

-----------------------------------------------------------------------------
(* What holds.                                                             *)

\* A permit is in the semaphore, with the accept loop, or with exactly one
\* handler: never lost on a refused handshake, an error, a shutdown or an abort,
\* so min(max_connections, max_sessions) handlers can always be reached and never
\* exceeded.
PermitsConserved ==
  /\ Cardinality(Alive) <= MaxConnections
  /\ Cardinality(Alive) <= MaxSessions
  /\ available + Cardinality(Alive) + (IF phase = "accept" THEN 1 ELSE 0) = Maximum

\* One daemon at a time works on a data directory: when another process gets the
\* lock, every handler and every job of this one has ended, also the workers that
\* a failed connection, an abort at the deadline or an accept error left running
\* after serve_database_protocol had returned.
OneDaemonWorks ==
  successor => phase \in {"returned", "broken"} /\ Alive = {} /\ UnderWay = {}

\* A shutdown signal ends serving and frees the data directory whatever the clients
\* do: connections that never finish their handshake, never leave or never read are
\* cut off at the deadline, and what they left running gives the lock up in the end.
ShutdownEnds == shutdown ~> phase \in {"returned", "broken"} /\ references = 0
=============================================================================
