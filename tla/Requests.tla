------------------------------ MODULE Requests ------------------------------
(***************************************************************************)
(* One authenticated database-protocol connection, seen as a set of        *)
(* concurrent tasks: the frame reader, one task and one blocking worker    *)
(* per asynchronous request, and the writer behind a bounded response      *)
(* channel (handle_connection, the spawning arms of dispatch, and the      *)
(* send helpers of src/protocol.rs).                                       *)
(*                                                                         *)
(* What a request does to the connection state is the subject of module    *)
(* Session; here a request is only inline (answered by the reader before   *)
(* it reads on), a cancel, or one of the three asynchronous kinds:         *)
(*   write   a mutating query or the commit of a queued transaction,       *)
(*   read    a streamed query,                                             *)
(*   export  a snapshot export, which has no token and no timeout.         *)
(* A worker that commits does so atomically when it returns a success:     *)
(* that is what nostdb-engine promises, and the engine is external.        *)
(***************************************************************************)
EXTENDS Naturals, Sequences, Functions

CONSTANTS MaxRequests,  \* frames with a fresh identifier the client sends
          QueueSize,    \* RESPONSE_QUEUE
          MaxItems,     \* rows of a result, chunks of a snapshot
          None          \* no request

ASSUME BoundsAssumption ==
  /\ MaxRequests \in Nat \ {0}
  /\ QueueSize \in Nat \ {0}
  /\ MaxItems \in Nat

VARIABLES
  request,    \* what each accepted identifier asked for
  last,       \* state.last_request_id, identifiers counted from 1
  reader,     \* where handle_connection is
  outgoing,   \* the frame the reader is sending
  task,       \* the asynchronous task of each request
  left,       \* the frames a task still has to send
  worker,     \* the spawn_blocking closure of each request
  token,      \* the requests whose CancellationToken is cancelled
  active,     \* the keys of the active map
  committed,  \* the requests whose write the engine committed
  queue,      \* the mpsc channel
  writer,     \* the writer task
  wire,       \* the frames of each answer written to the socket
  refused     \* the identifiers whose repetition was refused on the socket

vars == <<request, last, reader, outgoing, task, left, worker, token, active,
          committed, queue, writer, wire, refused>>

Ids == 1..MaxRequests
Asynchronous == {"write", "read", "export"}
Kinds == Asynchronous \cup {"inline", "cancel"}
Errors == {"cancelled", "resource_limit", "failed"}

(***************************************************************************)
(* The frames a successful answer consists of: one result, or a stream.    *)
(* "oversize" is the request_too_large fallback of send_response, which    *)
(* ends an answer wherever it occurs.                                      *)
(***************************************************************************)
Stream(start, item, end) ==
  {<<start>> \o [i \in 1..n |-> item] \o <<end>> : n \in 0..MaxItems}

Answers(kind) ==
  CASE kind = "write"  -> {<<"result">>}
    [] kind = "read"   -> Stream("stream_start", "stream_row", "stream_end")
    [] kind = "export" -> Stream("snapshot_start", "snapshot_chunk", "snapshot_end")

Terminal == {"result", "stream_end", "snapshot_end", "answer", "acknowledged",
             "not_active", "oversize"} \cup Errors
Codes == Terminal \cup {"stream_start", "stream_row", "snapshot_start",
                        "snapshot_chunk", "stale_id"}
Frames == [id : Ids, code : Codes]

\* Types; the response channel never holds more than RESPONSE_QUEUE frames, and an
\* entry of the active map belongs to a task that has not answered, or was aborted.
TypeOK ==
  /\ request \in [Ids -> {None} \cup [kind : Kinds, target : 0..MaxRequests]]
  /\ last \in 0..MaxRequests
  /\ reader \in {"reading", "sending", "closing", "draining", "ended", "failed"}
  /\ outgoing \in {None} \cup Frames
  /\ task \in [Ids -> {"none", "working", "late", "sending", "done", "aborted"}]
  /\ left \in [Ids -> Seq(Codes)]
  /\ worker \in [Ids -> {"none", "running", "ok"} \cup Errors]
  /\ token \subseteq Ids
  /\ active \subseteq {id \in Ids : task[id] \in {"working", "late", "aborted"}}
  /\ committed \subseteq Ids
  /\ queue \in Seq(Frames) /\ Len(queue) <= QueueSize
  /\ writer \in {"running", "done", "failed"}
  /\ wire \in [Ids -> Seq(Codes)]
  /\ refused \subseteq Ids

Init ==
  /\ request = [id \in Ids |-> None]
  /\ last = 0
  /\ reader = "reading"
  /\ outgoing = None
  /\ task = [id \in Ids |-> "none"]
  /\ left = [id \in Ids |-> <<>>]
  /\ worker = [id \in Ids |-> "none"]
  /\ token = {}
  /\ active = {}
  /\ committed = {}
  /\ queue = <<>>
  /\ writer = "running"
  /\ wire = [id \in Ids |-> <<>>]
  /\ refused = {}

-----------------------------------------------------------------------------
(* The response channel.                                                   *)

Alive(id) == task[id] \in {"working", "late", "sending"}

\* Mutant: the sender is not dropped before the writer is awaited.
SenderHeldLong == reader \notin {"ended", "failed"}

\* The reader owns a sender until it drops it before awaiting the writer.
SenderHeld == reader \in {"reading", "sending", "closing"}

\* Mutant: a full channel is taken for a closed one.
ClosedOrFull == writer # "running" \/ Len(queue) = QueueSize

ChannelClosed == writer # "running"

\* Mutant: an unbounded channel.
Unbounded == ~ChannelClosed

HasRoom == ~ChannelClosed /\ Len(queue) < QueueSize

Send(id, code) == queue' = Append(queue, [id |-> id, code |-> code])

-----------------------------------------------------------------------------
(* The reader.                                                             *)

\* Returning Err drops the JoinSet, which aborts the tasks; the closures they
\* spawned keep running, their tokens untouched.
ReturnError ==
  /\ reader' = "failed"
  /\ outgoing' = None
  /\ task' = [id \in Ids |-> IF Alive(id) THEN "aborted" ELSE task[id]]
  /\ left' = [id \in Ids |-> <<>>]

Accept(kind, target) ==
  /\ reader = "reading"
  /\ last < MaxRequests
  /\ last' = last + 1
  /\ request' = [request EXCEPT ![last + 1] = [kind |-> kind, target |-> target]]

Reply(id, code) ==
  /\ reader' = "sending"
  /\ outgoing' = [id |-> id, code |-> code]

\* A frame whose identifier does not increase is refused and otherwise ignored.
\* Bound: the client repeats each identifier at most once.
Repeated(id) == id \in refused \/ [id |-> id, code |-> "stale_id"] \in Range(queue)

StaleId ==
  /\ reader = "reading"
  /\ last > 0
  /\ ~Repeated(last)
  /\ Reply(last, "stale_id")
  /\ UNCHANGED <<request, last, task, left, worker, token, active, committed,
                 queue, writer, wire, refused>>

\* A request the reader answers itself.
Inline ==
  /\ Accept("inline", 0)
  /\ \E code \in {"answer", "oversize"} : Reply(last + 1, code)
  /\ UNCHANGED <<task, left, worker, token, active, committed, queue, writer, wire, refused>>

Cancel ==
  \E target \in Ids :
    /\ Accept("cancel", target)
    /\ IF target \in active
         THEN token' = token \cup {target} /\ Reply(last + 1, "acknowledged")
         ELSE UNCHANGED token /\ Reply(last + 1, "not_active")
    /\ UNCHANGED <<task, left, worker, active, committed, queue, writer, wire, refused>>

\* Query and Commit register a token before they spawn; an export does not.
Spawn ==
  \E kind \in Asynchronous :
    /\ Accept(kind, 0)
    /\ task' = [task EXCEPT ![last + 1] = "working"]
    /\ worker' = [worker EXCEPT ![last + 1] = "running"]
    /\ active' = IF kind = "export" THEN active ELSE active \cup {last + 1}
    /\ UNCHANGED <<reader, outgoing, left, token, committed, queue, writer, wire, refused>>

\* sender.send(...).await of the reader. The fallback for an oversized answer
\* is sent and then reported to handle_connection as an error.
SendReply ==
  /\ reader = "sending"
  /\ \/ /\ HasRoom
        /\ Send(outgoing.id, outgoing.code)
        /\ IF outgoing.code = "oversize"
             THEN ReturnError
             ELSE reader' = "reading" /\ outgoing' = None /\ UNCHANGED <<task, left>>
     \/ ChannelClosed /\ ReturnError /\ UNCHANGED queue
  /\ UNCHANGED <<request, last, worker, token, active, committed, writer, wire, refused>>

\* End of stream, connection reset or shutdown: every registered token is
\* cancelled before the tasks are joined.
ReadEnd ==
  /\ reader = "reading"
  /\ reader' = "closing"
  /\ token' = token \cup active
  /\ UNCHANGED <<request, last, outgoing, task, left, worker, active, committed,
                 queue, writer, wire, refused>>

\* Any other read error: a frame outside the size bound or not a request.
ReadError ==
  /\ reader = "reading"
  /\ ReturnError
  /\ UNCHANGED <<request, last, worker, token, active, committed, queue, writer, wire, refused>>

\* The shutdown deadline of serve_database_protocol drops the handler's future.
Abort ==
  /\ reader \in {"sending", "closing", "draining"}
  /\ ReturnError
  /\ UNCHANGED <<request, last, worker, token, active, committed, queue, writer, wire, refused>>

\* Mutant: the tasks are not awaited.
NotJoined == TRUE

AllJoined == \A id \in Ids : ~Alive(id)

\* Every task has been joined and the reader's sender is dropped.
Joined ==
  /\ reader = "closing"
  /\ AllJoined
  /\ reader' = "draining"
  /\ UNCHANGED <<request, last, outgoing, task, left, worker, token, active,
                 committed, queue, writer, wire, refused>>

\* writer_task.await.
Ended ==
  /\ reader = "draining"
  /\ writer # "running"
  /\ reader' = "ended"
  /\ UNCHANGED <<request, last, outgoing, task, left, worker, token, active,
                 committed, queue, writer, wire, refused>>

-----------------------------------------------------------------------------
(* Workers and tasks.                                                      *)

\* execute_selected, execute_selected_transaction and export_snapshot on a
\* blocking thread. Cancellation is cooperative: a cancelled token permits the
\* "cancelled" failure and forces nothing.
Work(id) ==
  /\ worker[id] = "running"
  /\ \/ /\ worker' = [worker EXCEPT ![id] = "ok"]
        /\ committed' = IF request[id].kind = "write" THEN committed \cup {id} ELSE committed
     \/ /\ \E error \in {"failed"} \cup
                        (IF request[id].kind = "export" THEN {}
                         ELSE IF id \in token THEN {"cancelled"} ELSE {"resource_limit"}) :
             worker' = [worker EXCEPT ![id] = error]
        /\ UNCHANGED committed
  /\ UNCHANGED <<request, last, reader, outgoing, task, left, token, active, queue,
                 writer, wire, refused>>

\* tokio::time::timeout elapses before the worker is ready.
Timeout(id) ==
  /\ task[id] = "working"
  /\ request[id].kind # "export"
  /\ worker[id] = "running"
  /\ task' = [task EXCEPT ![id] = "late"]
  /\ token' = token \cup {id}
  /\ UNCHANGED <<request, last, reader, outgoing, left, worker, active, committed,
                 queue, writer, wire, refused>>

\* Mutant: the timeout arm answers without awaiting the worker.
ReadyOrLate(id) == worker[id] # "running" \/ task[id] = "late"

WorkerReady(id) == worker[id] # "running"

\* The worker is awaited to its end, whether or not the timeout fired; then the
\* request leaves the active map and its answer is fixed.
Join(id) ==
  /\ task[id] \in {"working", "late"}
  /\ WorkerReady(id)
  /\ task' = [task EXCEPT ![id] = "sending"]
  /\ active' = active \ {id}
  /\ \E answer \in IF worker[id] = "ok" THEN Answers(request[id].kind)
                   ELSE {<<IF task[id] = "late" THEN "resource_limit" ELSE worker[id]>>} :
       left' = [left EXCEPT ![id] = answer]
  /\ UNCHANGED <<request, last, reader, outgoing, worker, token, committed, queue,
                 writer, wire, refused>>

\* The answers whose size depends on the data.
MayExceedBound == {"result", "stream_start", "stream_row"}

\* Mutant: the rows after one that does not fit are still sent.
GoesOn(id, code) == Len(left[id]) > 1

\* send_statement, send_snapshot and send_failure: one frame per step, and `?`
\* ends the answer at the first frame that does not fit.
Continues(id, code) == code # "oversize" /\ Len(left[id]) > 1

SendAnswer(id) ==
  /\ task[id] = "sending"
  /\ \/ /\ HasRoom
        /\ \E code \in {Head(left[id])} \cup
                      (IF Head(left[id]) \in MayExceedBound THEN {"oversize"} ELSE {}) :
             /\ Send(id, code)
             /\ IF Continues(id, code)
                  THEN left' = [left EXCEPT ![id] = Tail(@)] /\ UNCHANGED task
                  ELSE left' = [left EXCEPT ![id] = <<>>] /\ task' = [task EXCEPT ![id] = "done"]
     \/ /\ ChannelClosed
        /\ left' = [left EXCEPT ![id] = <<>>]
        /\ task' = [task EXCEPT ![id] = "done"]
        /\ UNCHANGED queue
  /\ UNCHANGED <<request, last, reader, outgoing, worker, token, active, committed,
                 writer, wire, refused>>

-----------------------------------------------------------------------------
(* The writer.                                                             *)

WriteFrame ==
  /\ writer = "running"
  /\ queue # <<>>
  /\ queue' = Tail(queue)
  /\ IF Head(queue).code = "stale_id"
       THEN refused' = refused \cup {Head(queue).id} /\ UNCHANGED wire
       ELSE /\ wire' = [wire EXCEPT ![Head(queue).id] = Append(@, Head(queue).code)]
            /\ UNCHANGED refused
  /\ UNCHANGED <<request, last, reader, outgoing, task, left, worker, token, active,
                 committed, writer>>

\* The peer is gone: the writer returns and the channel loses its receiver.
WriteError ==
  /\ writer = "running"
  /\ queue # <<>>
  /\ writer' = "failed"
  /\ queue' = <<>>
  /\ UNCHANGED <<request, last, reader, outgoing, task, left, worker, token, active,
                 committed, wire, refused>>

\* recv() returns None once the channel is empty and every sender is gone.
WriterEnds ==
  /\ writer = "running"
  /\ queue = <<>>
  /\ ~SenderHeld
  /\ AllJoined
  /\ writer' = "done"
  /\ UNCHANGED <<request, last, reader, outgoing, task, left, worker, token, active,
                 committed, queue, wire, refused>>

\* Nothing is left to run.
Over ==
  /\ reader \in {"ended", "failed"}
  /\ writer # "running"
  /\ \A id \in Ids : worker[id] # "running"
  /\ UNCHANGED vars

-----------------------------------------------------------------------------
Next ==
  \/ StaleId \/ Inline \/ Cancel \/ Spawn
  \/ SendReply \/ ReadEnd \/ ReadError \/ Abort \/ Joined \/ Ended
  \/ \E id \in Ids : Work(id) \/ Timeout(id) \/ Join(id) \/ SendAnswer(id)
  \/ WriteFrame \/ WriteError \/ WriterEnds
  \/ Over

Spec == Init /\ [][Next]_vars

(***************************************************************************)
(* Tokio polls every ready task, the engine's cooperative budget ends      *)
(* every worker, and the client reads what is written to it. Nothing makes *)
(* the client send, a timeout fire or a connection fail.                   *)
(***************************************************************************)
Fairness ==
  /\ WF_vars(SendReply) /\ WF_vars(Joined) /\ WF_vars(Ended)
  /\ WF_vars(WriteFrame) /\ WF_vars(WriterEnds)
  /\ \A id \in Ids : WF_vars(Work(id)) /\ WF_vars(Join(id)) /\ WF_vars(SendAnswer(id))

FairSpec == Spec /\ Fairness

-----------------------------------------------------------------------------
(* What holds.                                                             *)

Answered(id) == Range(wire[id]) \cap Terminal # {}

\* A request that the client was told failed, whether by its own error, by a
\* cancellation or by the timeout, has committed nothing and never will: the
\* timeout arm awaits the worker before it answers. (An answer that is too
\* large for a frame is the one failure reported for completed work.)
FailureMeansNotCommitted ==
  \A id \in Ids :
    Range(wire[id]) \cap Errors # {} => id \notin committed /\ worker[id] # "running"

Expected(id) ==
  CASE request[id].kind = "inline" -> {<<"answer">>}
    [] request[id].kind = "cancel" -> {<<"acknowledged">>, <<"not_active">>}
    [] OTHER -> Answers(request[id].kind) \cup {<<error>> : error \in Errors}

\* The frames seen are a prefix of one legal answer, or a proper prefix of one followed
\* by the oversize failure.
Legal(id, seen) ==
  \E answer \in Expected(id), n \in 0..Len(seen) :
    /\ n <= Len(answer) /\ SubSeq(seen, 1, n) = SubSeq(answer, 1, n)
    /\ \/ n = Len(seen)
       \/ n < Len(answer) /\ SubSeq(seen, n + 1, Len(seen)) = <<"oversize">>

\* What the client has read of a request is legal: frames of concurrent requests
\* interleave in the shared channel but each request's own frames keep their order,
\* nothing follows the terminal frame and none is sent twice.
AnswersWellFormed == \A id \in 1..last : Legal(id, wire[id])

\* A connection that closes in order (end of stream, reset or shutdown) leaves
\* no work behind: when the handler returns no worker runs and, unless the peer
\* stopped reading, every request it accepted has been answered in full.
OrderlyCloseDrains ==
  reader = "ended" =>
    /\ \A id \in Ids : worker[id] # "running"
    /\ writer = "done" => \A id \in 1..last : Answered(id)

\* Every accepted request is answered unless the connection fails, however
\* small the response channel: no cycle of reader, tasks and writer waiting for
\* room in it.
RequestsAnswered ==
  \A id \in Ids :
    id <= last ~> Answered(id) \/ reader = "failed" \/ writer = "failed"

\* Once the read loop has ended, the handler returns and its permit is freed.
CloseEnds == reader = "closing" ~> reader \in {"ended", "failed"}

-----------------------------------------------------------------------------
(* What the documentation says and the code does not do.                   *)

\* docs/DATABASE_PROTOCOL.md: "Connection close cancels active cooperative
\* queries". A handler that returns Err has cancelled none of its tokens.
CloseCancels ==
  reader \in {"ended", "failed"} =>
    \A id \in Ids : worker[id] = "running" /\ request[id].kind # "export" => id \in token
=============================================================================
