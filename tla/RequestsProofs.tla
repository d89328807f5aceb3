--------------------------- MODULE RequestsProofs ----------------------------
(***************************************************************************)
(* The safety of one connection (module Requests), for any number of       *)
(* requests and rows and any size of the response channel. The invariant   *)
(* follows each answer from its worker to the client: an error is passed   *)
(* on only by a worker that failed (Told), and until the client has the    *)
(* end of an answer, somebody who still runs is going to send it, or has   *)
(* queued it (Pending). Relative to it a second invariant (AnswerFlow)     *)
(* follows the order of the frames: those of an answer that were written,  *)
(* then those of its frames among the others in the channel, are what has  *)
(* been sent of it, and what its task still holds completes that.          *)
(***************************************************************************)
EXTENDS Requests, TLAPS

\* Tasks and workers exist for accepted asynchronous requests only, and a task sends
\* after its worker has ended; the reader's own reply is never one of Errors.
Started ==
  /\ \A id \in Ids :
       /\ id <= last => request[id] \in [kind : Kinds, target : 0..MaxRequests]
       /\ task[id] # "none" => id <= last /\ request[id].kind \in Asynchronous
       /\ task[id] = "none" <=> worker[id] = "none"
       /\ task[id] \in {"sending", "done"} => worker[id] # "running"
       /\ id \in committed => worker[id] = "ok"
  /\ reader = "sending" =>
       /\ outgoing \in Frames /\ outgoing.id <= last
       /\ outgoing.code \in (Terminal \cup {"stale_id"}) \ Errors

\* A frame on its way to the client of a request, or already there.
Going(id, code) ==
  \/ code \in Range(left[id]) \cup Range(wire[id])
  \/ [id |-> id, code |-> code] \in Range(queue)

\* An error the client is told, or will be, is the end of a worker that did not commit.
Told ==
  \A id \in Ids : \A error \in Errors : Going(id, error) => worker[id] \in Errors

\* Which tasks can still run, by how far the handler and the writer are.
Closing ==
  /\ reader \in {"draining", "ended", "failed"} \/ writer = "done" => AllJoined
  /\ writer = "done" => ~SenderHeld /\ queue = <<>>
  /\ \A id \in Ids : task[id] = "aborted" => reader = "failed"
  /\ \A id \in Ids : task[id] = "sending" => left[id] # <<>> /\ left[id][Len(left[id])] \in Terminal

\* The end of the answer to a request is still to be computed, or on its way, or at
\* the client.
Ending(id) ==
  \/ Alive(id)
  \/ reader = "sending" /\ outgoing.id = id /\ outgoing.code \in Terminal
  \/ \E code \in Terminal : [id |-> id, code |-> code] \in Range(queue)
  \/ Answered(id)

Pending ==
  writer # "failed" /\ reader # "failed" => \A id \in 1..last : Ending(id)

ReqInv == TypeOK /\ Started /\ Told /\ Closing /\ Pending

-----------------------------------------------------------------------------
(* Sequences of frames.                                                    *)

\* What Send does to the frames in the channel.
LEMMA RangeAppend ==
  ASSUME NEW S, NEW s \in Seq(S), NEW x \in S
  PROVE  /\ Append(s, x) \in Seq(S) /\ Len(Append(s, x)) = Len(s) + 1
         /\ Range(Append(s, x)) = Range(s) \cup {x}
<1>1. DOMAIN Append(s, x) = DOMAIN s \cup {Len(s) + 1} OBVIOUS
<1>2. \A i \in DOMAIN s : Append(s, x)[i] = s[i] OBVIOUS
<1>3. Append(s, x)[Len(s) + 1] = x OBVIOUS
<1> QED BY <1>1, <1>2, <1>3 DEF Range

\* What the writer's recv does to them.
LEMMA RangeTail ==
  ASSUME NEW S, NEW s \in Seq(S), s # <<>>
  PROVE  /\ Head(s) \in S /\ Tail(s) \in Seq(S) /\ Len(Tail(s)) = Len(s) - 1
         /\ Range(s) = Range(Tail(s)) \cup {Head(s)}
<1>1. Len(s) \in Nat \ {0} /\ DOMAIN s = 1..Len(s) OBVIOUS
<1>2. DOMAIN Tail(s) = 1..(Len(s) - 1) OBVIOUS
<1>3. \A i \in DOMAIN Tail(s) : Tail(s)[i] = s[i + 1] OBVIOUS
<1>4. Head(s) = s[1] OBVIOUS
<1>5. Range(Tail(s)) \subseteq Range(s) BY <1>1, <1>2, <1>3 DEF Range
<1>6. ASSUME NEW i \in DOMAIN s, i # 1 PROVE s[i] \in Range(Tail(s))
  <2>1. i - 1 \in DOMAIN Tail(s) BY <1>1, <1>2, <1>6
  <2>2. Tail(s)[i - 1] = s[i] BY <1>1, <1>3, <2>1
  <2> QED BY <2>1, <2>2, Zenon DEF Range
<1> QED BY <1>1, <1>4, <1>5, <1>6 DEF Range

\* Taking the first frame of several keeps the last.
LEMMA LastOfTail ==
  ASSUME NEW S, NEW s \in Seq(S), Len(s) > 1
  PROVE  Tail(s) # <<>> /\ Tail(s)[Len(Tail(s))] = s[Len(s)]
<1>1. Len(Tail(s)) = Len(s) - 1 /\ Len(s) - 1 \in 1..Len(s) - 1 OBVIOUS
<1>2. Tail(s)[Len(s) - 1] = s[Len(s)] BY <1>1
<1>3. \A t \in Seq(S) : t = <<>> => Len(t) = 0 OBVIOUS
<1>4. Tail(s) \in Seq(S) OBVIOUS
<1> QED BY <1>1, <1>2, <1>3, <1>4

\* A stream is a start frame, any number of rows and an end frame.
LEMMA StreamShape ==
  ASSUME NEW S, NEW a \in S, NEW b \in S, NEW c \in S, NEW s \in Stream(a, b, c)
  PROVE  s \in Seq(S) /\ s # <<>> /\ s[Len(s)] = c /\ Range(s) \subseteq S
<1>1. PICK n \in 0..MaxItems : s = <<a>> \o [i \in 1..n |-> b] \o <<c>> BY Zenon DEF Stream
<1>2. n \in Nat BY BoundsAssumption
<1> DEFINE rows == [i \in 1..n |-> b]
<1>3. rows \in Seq(S) /\ Len(rows) = n BY <1>2
<1>4. <<a>> \o rows \in Seq(S) /\ Len(<<a>> \o rows) = n + 1 BY <1>2, <1>3
<1>5. s \in Seq(S) /\ Len(s) = n + 2 BY <1>1, <1>2, <1>4
<1>6. s[n + 2] = c BY <1>1, <1>2, <1>4
<1> QED BY <1>2, <1>5, <1>6 DEF Range

\* A successful answer holds no error and ends with a terminal frame.
LEMMA AnswerShape ==
  ASSUME NEW kind \in Asynchronous, NEW answer \in Answers(kind)
  PROVE  /\ answer \in Seq(Codes) /\ answer # <<>> /\ answer[Len(answer)] \in Terminal
         /\ Range(answer) \cap Errors = {} /\ "stale_id" \notin Range(answer)
<1> DEFINE Plain == Codes \ (Errors \cup {"stale_id"})
<1>0. \A s \in Seq(Plain) : s \in Seq(Codes) OBVIOUS
<1>1. CASE kind = "write"
  <2>1. answer = <<"result">> BY <1>1, Zenon DEF Answers
  <2>2. Range(answer) = {"result"} /\ Len(answer) = 1 /\ answer[1] = "result" BY <2>1 DEF Range
  <2>3. "result" \in Terminal /\ "result" \notin Errors BY DEF Terminal, Errors
  <2>4. answer \in Seq({"result"}) /\ answer # <<>> BY <2>1
  <2>5. answer \in Seq(Codes) BY <2>3, <2>4 DEF Codes
  <2>6. answer[Len(answer)] \in Terminal BY <2>2, <2>3, Zenon
  <2> QED BY <2>2, <2>3, <2>4, <2>5, <2>6
<1>2. CASE kind = "read"
  <2>1. answer \in Stream("stream_start", "stream_row", "stream_end")
    BY <1>2, Zenon DEF Answers
  <2>2. "stream_start" \in Plain /\ "stream_row" \in Plain /\ "stream_end" \in Plain
    BY Zenon DEF Codes, Terminal, Errors
  <2> HIDE DEF Plain
  <2>3. /\ answer \in Seq(Plain) /\ answer # <<>> /\ answer[Len(answer)] = "stream_end"
        /\ Range(answer) \subseteq Plain
    BY <2>1, <2>2, StreamShape, Zenon
  <2>4. "stream_end" \in Terminal BY Zenon DEF Terminal
  <2> QED BY <1>0, <2>3, <2>4, Zenon DEF Plain
<1>3. CASE kind = "export"
  <2>1. answer \in Stream("snapshot_start", "snapshot_chunk", "snapshot_end")
    BY <1>3, Zenon DEF Answers
  <2>2. "snapshot_start" \in Plain /\ "snapshot_chunk" \in Plain /\ "snapshot_end" \in Plain
    BY Zenon DEF Codes, Terminal, Errors
  <2> HIDE DEF Plain
  <2>3. /\ answer \in Seq(Plain) /\ answer # <<>> /\ answer[Len(answer)] = "snapshot_end"
        /\ Range(answer) \subseteq Plain
    BY <2>1, <2>2, StreamShape, Zenon
  <2>4. "snapshot_end" \in Terminal BY Zenon DEF Terminal
  <2> QED BY <1>0, <2>3, <2>4, Zenon DEF Plain
<1> QED BY <1>1, <1>2, <1>3, Zenon DEF Asynchronous

-----------------------------------------------------------------------------
(* The steps of the reader.                                                *)

\* One frame enters the channel.
LEMMA Sent ==
  ASSUME TypeOK, NEW id \in Ids, NEW code \in Codes, HasRoom, Send(id, code)
  PROVE  /\ queue' \in Seq(Frames) /\ Len(queue') <= QueueSize
         /\ Range(queue') = Range(queue) \cup {[id |-> id, code |-> code]}
<1> DEFINE frame == [id |-> id, code |-> code]
<1>1. frame \in Frames BY Zenon DEF Frames
<1>2. queue \in Seq(Frames) /\ Len(queue) < QueueSize BY Zenon DEF TypeOK, HasRoom
<1>3. queue' = Append(queue, frame) BY Zenon DEF Send
<1> HIDE DEF frame
<1>4. /\ Append(queue, frame) \in Seq(Frames) /\ Len(Append(queue, frame)) = Len(queue) + 1
      /\ Range(Append(queue, frame)) = Range(queue) \cup {frame}
  BY <1>1, <1>2, RangeAppend
<1>5. queue' \in Seq(Frames) /\ Len(queue') = Len(queue) + 1
      /\ Range(queue') = Range(queue) \cup {frame}
  BY <1>3, <1>4, Zenon
<1>6. Len(queue') <= QueueSize BY <1>2, <1>5, BoundsAssumption
<1> QED BY <1>5, <1>6, Zenon DEF frame

\* An accepted frame takes the next identifier, which nothing was started for.
Taken(kind, target) ==
  /\ reader = "reading" /\ last \in Nat /\ last' = last + 1 /\ last + 1 \in Ids
  /\ last' \in 0..MaxRequests
  /\ request' \in [Ids -> {None} \cup [kind : Kinds, target : 0..MaxRequests]]
  /\ \A id \in Ids : id # last + 1 => request'[id] = request[id]
  /\ request'[last + 1] = [kind |-> kind, target |-> target]
  /\ request'[last + 1] \in [kind : Kinds, target : 0..MaxRequests]
  /\ task[last + 1] = "none" /\ worker[last + 1] = "none"

\* A request is accepted: what that does to the invariant, whatever answers it.
LEMMA Accepted ==
  ASSUME ReqInv, NEW kind \in Kinds, NEW target \in 0..MaxRequests, Accept(kind, target)
  PROVE  Taken(kind, target)
<1>1. last \in Nat /\ last + 1 \in Ids /\ last' = last + 1
  BY BoundsAssumption DEF ReqInv, TypeOK, Ids, Accept
<1>2. task[last + 1] = "none" /\ worker[last + 1] = "none" BY <1>1 DEF ReqInv, Started
<1> QED BY <1>1, <1>2 DEF ReqInv, TypeOK, Accept, Ids, Taken

\* It is one more to be answered.
LEMMA AcceptPending ==
  ASSUME ReqInv, reader = "reading", last' = last + 1, UNCHANGED <<queue, writer, wire>>,
         \A id \in Ids : Alive(id) => Alive(id)', Ending(last)'
  PROVE  Pending'
<1>1. ASSUME writer # "failed", NEW id \in 1..last PROVE Ending(id)'
  <2>1. id \in Ids BY BoundsAssumption DEF ReqInv, TypeOK, Ids
  <2>2. Ending(id) BY <1>1, Zenon DEF ReqInv, Pending
  <2> QED BY <2>1, <2>2, Zenon DEF Ending, Answered
<1>2. last \in Nat BY DEF ReqInv, TypeOK
<1>3. \A id \in 1..last' : id \in 1..last \/ id = last' BY <1>2
<1> QED BY <1>1, <1>3, Zenon DEF Pending

\* A handler that returns an error leaves no task running.
LEMMA ErrorReturned ==
  ASSUME ReqInv, ReturnError
  PROVE  /\ AllJoined' /\ Pending'
         /\ task' \in [Ids -> {"none", "working", "late", "sending", "done", "aborted"}]
         /\ \A id \in Ids : \/ task'[id] = "aborted" /\ task[id] \in {"working", "late", "sending"}
                            \/ task'[id] = task[id] /\ task[id] \in {"none", "done", "aborted"}
         /\ left' \in [Ids -> Seq(Codes)]
         /\ \A id \in Ids : Range(left'[id]) = {}
BY DEF ReqInv, TypeOK, ReturnError, AllJoined, Alive, Pending, Range

\* A frame with a stale identifier is answered and belongs to no request.
LEMMA StaleIdStep == ASSUME ReqInv, StaleId PROVE ReqInv'
<1> USE DEF ReqInv, StaleId, Reply
<1>1. TypeOK'
  <2>1. last \in Ids BY BoundsAssumption DEF TypeOK, Ids
  <2>2. outgoing' \in Frames BY <2>1, Zenon DEF Frames, Codes
  <2> QED BY <2>2 DEF TypeOK
<1>2. Started' BY BoundsAssumption DEF TypeOK, Started, Ids, Frames, Codes, Terminal, Errors
<1>3. Told' BY Zenon DEF Told, Going
<1>4. Closing' BY Zenon DEF Closing, AllJoined, Alive, SenderHeld
<1>5. Pending' BY Zenon DEF Pending, Ending, Alive, Answered
<1> QED BY <1>1, <1>2, <1>3, <1>4, <1>5, Zenon

\* The reader answers a request itself.
LEMMA InlineStep == ASSUME ReqInv, Inline PROVE ReqInv'
<1>1. PICK code \in {"answer", "oversize"} : Reply(last + 1, code) BY Zenon DEF Inline
<1>2. Accept("inline", 0) BY Zenon DEF Inline
<1>3. "inline" \in Kinds /\ 0 \in 0..MaxRequests BY BoundsAssumption DEF Kinds
<1>4. Taken("inline", 0) BY <1>2, <1>3, Accepted, Zenon
<1>5. code \in Terminal \ Errors /\ code \in Codes BY Zenon DEF Terminal, Errors, Codes
<1>12. outgoing' \in Frames /\ outgoing'.id = last + 1 /\ outgoing'.code = code /\ reader' = "sending"
  BY <1>1, <1>4, <1>5, Zenon DEF Reply, Frames, Taken
<1> USE <1>4, <1>5, <1>12 DEF ReqInv, Taken
<1>6. TypeOK' BY Zenon DEF TypeOK, Inline
<1>7. Started' BY DEF TypeOK, Started, Inline, Ids
<1>8. Told' BY Zenon DEF Told, Going, Inline
<1>9. Closing' BY Zenon DEF Closing, AllJoined, Alive, SenderHeld, Inline
<1>10. Ending(last)' BY Zenon DEF Ending
<1>11. Pending' BY <1>10, AcceptPending, Zenon DEF Alive, Inline
<1> QED BY <1>6, <1>7, <1>8, <1>9, <1>11, Zenon

\* A cancellation changes a token, never the end of a worker.
LEMMA CancelStep == ASSUME ReqInv, Cancel PROVE ReqInv'
<1>1. PICK target \in Ids :
        /\ Accept("cancel", target)
        /\ token' \in {token, token \cup {target}}
        /\ Reply(last + 1, "acknowledged") \/ Reply(last + 1, "not_active")
        /\ UNCHANGED <<task, left, worker, active, committed, queue, writer, wire, refused>>
  BY Zenon DEF Cancel
<1>2. PICK code \in {"acknowledged", "not_active"} : Reply(last + 1, code) BY <1>1, Zenon
<1>3. "cancel" \in Kinds /\ target \in 0..MaxRequests BY BoundsAssumption DEF Kinds, Ids
<1>4. Taken("cancel", target) BY <1>1, <1>3, Accepted, Zenon
<1>5. code \in Terminal \ Errors /\ code \in Codes BY Zenon DEF Terminal, Errors, Codes
<1>12. outgoing' \in Frames /\ outgoing'.id = last + 1 /\ outgoing'.code = code /\ reader' = "sending"
  BY <1>2, <1>4, <1>5, Zenon DEF Reply, Frames, Taken
<1> USE <1>1, <1>4, <1>5, <1>12 DEF ReqInv, Taken
<1>6. TypeOK' BY DEF TypeOK
<1>7. Started' BY DEF TypeOK, Started, Ids
<1>8. Told' BY Zenon DEF Told, Going
<1>9. Closing' BY Zenon DEF Closing, AllJoined, Alive, SenderHeld
<1>10. Ending(last)' BY Zenon DEF Ending
<1>11. Pending' BY <1>10, AcceptPending, Zenon DEF Alive
<1> QED BY <1>6, <1>7, <1>8, <1>9, <1>11, Zenon

\* A task and its worker start together.
LEMMA SpawnStep == ASSUME ReqInv, Spawn PROVE ReqInv'
<1>1. PICK kind \in Asynchronous :
        /\ Accept(kind, 0)
        /\ active' = IF kind = "export" THEN active ELSE active \cup {last + 1}
  BY Zenon DEF Spawn
<1>2. kind \in Kinds /\ 0 \in 0..MaxRequests BY BoundsAssumption DEF Kinds
<1>3. /\ task' = [task EXCEPT ![last + 1] = "working"]
      /\ worker' = [worker EXCEPT ![last + 1] = "running"]
      /\ UNCHANGED <<reader, outgoing, left, token, committed, queue, writer, wire, refused>>
  BY Zenon DEF Spawn
<1>11. Taken(kind, 0) BY <1>1, <1>2, Accepted, Zenon
<1> USE <1>1, <1>2, <1>3, <1>11 DEF ReqInv, Taken
<1>4. TypeOK'
  <2>1. active' \subseteq {id \in Ids : task'[id] \in {"working", "late", "aborted"}}
    BY DEF TypeOK
  <2> QED BY <2>1, Zenon DEF TypeOK
<1>5. Started' BY DEF TypeOK, Started, Ids
<1>6. \A id \in Ids : worker[id] \in Errors => worker'[id] \in Errors
  BY Zenon DEF TypeOK, Errors
<1>7. Told' BY <1>6, Zenon DEF Told, Going
<1>8. Closing' BY Zenon DEF Closing, AllJoined, Alive, SenderHeld, TypeOK
<1>9. (\A id \in Ids : Alive(id) => Alive(id)') /\ Alive(last)' BY Zenon DEF Alive, TypeOK
<1>10. Pending' BY <1>9, AcceptPending, Zenon DEF Ending
<1> QED BY <1>4, <1>5, <1>7, <1>8, <1>10, Zenon

\* The reply of the reader enters the channel.
LEMMA SendReplyStep == ASSUME ReqInv, SendReply PROVE ReqInv'
<1> DEFINE added == [id |-> outgoing.id, code |-> outgoing.code]
<1>0. /\ reader = "sending" /\ outgoing \in Frames /\ outgoing.id \in Ids /\ outgoing.code \in Codes
      /\ outgoing.code \in (Terminal \cup {"stale_id"}) \ Errors /\ outgoing = added
      /\ UNCHANGED <<request, last, worker, token, active, committed, writer, wire, refused>>
  BY Zenon DEF SendReply, ReqInv, Started, Frames
<1>1. CASE HasRoom /\ Send(outgoing.id, outgoing.code) /\ outgoing.code # "oversize"
  <2>1. /\ queue' \in Seq(Frames) /\ Len(queue') <= QueueSize
        /\ Range(queue') = Range(queue) \cup {added}
    BY <1>0, <1>1, Sent, Zenon DEF ReqInv
  <2>2. reader' = "reading" /\ outgoing' = None /\ UNCHANGED <<task, left>>
    BY <1>1, Zenon DEF SendReply, HasRoom
  <2> USE <1>0, <2>1, <2>2 DEF ReqInv
  <2>3. TypeOK' BY Zenon DEF TypeOK
  <2>4. Started' BY Zenon DEF Started
  <2>5. Told' BY Zenon DEF Told, Going
  <2>6. Closing'
    BY <1>1, Zenon DEF Closing, AllJoined, Alive, SenderHeld, HasRoom, ChannelClosed
  <2>7. Pending' BY Zenon DEF Pending, Ending, Alive, Answered
  <2> QED BY <2>3, <2>4, <2>5, <2>6, <2>7, Zenon
<1>2. CASE ReturnError
  <2>1. /\ queue' \in Seq(Frames) /\ Len(queue') <= QueueSize
        /\ Range(queue') \subseteq Range(queue) \cup {added}
        /\ writer = "running" \/ queue' = queue
    BY <1>0, Sent, Zenon DEF SendReply, ReqInv, TypeOK, HasRoom, ChannelClosed
  <2>2. reader' = "failed" /\ outgoing' = None BY <1>2, Zenon DEF ReturnError
  <2>3. TypeOK' BY <1>0, <1>2, <2>1, <2>2, ErrorReturned, Zenon DEF ReqInv, TypeOK
  <2>4. Started' BY <1>0, <1>2, <2>2, ErrorReturned, Zenon DEF ReqInv, Started
  <2>5. Told' BY <1>0, <1>2, <2>1, ErrorReturned, Zenon DEF ReqInv, Told, Going
  <2>6. Closing'
    BY <1>0, <1>2, <2>1, <2>2, ErrorReturned, Zenon DEF ReqInv, Closing, SenderHeld
  <2> QED BY <1>2, <2>3, <2>4, <2>5, <2>6, ErrorReturned, Zenon DEF ReqInv
<1> QED BY <1>1, <1>2, Zenon DEF SendReply

\* The read error and the abort leave the channel alone.
LEMMA FailStep == ASSUME ReqInv, ReadError \/ Abort PROVE ReqInv'
<1>1. /\ ReturnError
      /\ UNCHANGED <<request, last, worker, token, active, committed, queue, writer, wire, refused>>
  BY Zenon DEF ReadError, Abort
<1>2. reader' = "failed" /\ outgoing' = None BY <1>1, Zenon DEF ReturnError
<1>3. TypeOK' BY <1>1, <1>2, ErrorReturned, Zenon DEF ReqInv, TypeOK
<1>4. Started' BY <1>1, <1>2, ErrorReturned, Zenon DEF ReqInv, Started
<1>5. Told' BY <1>1, ErrorReturned, Zenon DEF ReqInv, Told, Going
<1>6. Closing' BY <1>1, <1>2, ErrorReturned, Zenon DEF ReqInv, Closing, SenderHeld
<1> QED BY <1>1, <1>3, <1>4, <1>5, <1>6, ErrorReturned, Zenon DEF ReqInv

\* The steps of an orderly close.
LEMMA CloseStep == ASSUME ReqInv, ReadEnd \/ Joined \/ Ended PROVE ReqInv'
<1>1. /\ UNCHANGED <<request, last, outgoing, task, left, worker, active, committed,
                     queue, writer, wire, refused>>
      /\ \/ reader = "reading" /\ reader' = "closing" /\ token' = token \cup active
         \/ reader = "closing" /\ reader' = "draining" /\ AllJoined /\ token' = token
         \/ reader = "draining" /\ reader' = "ended" /\ token' = token
  BY Zenon DEF ReadEnd, Joined, Ended
<1> USE <1>1 DEF ReqInv
<1>2. TypeOK' BY Zenon DEF TypeOK
<1>3. Started' BY Zenon DEF Started
<1>4. Told' BY Zenon DEF Told, Going
<1>5. Closing' BY Zenon DEF Closing, AllJoined, Alive, SenderHeld
<1>6. Pending' BY Zenon DEF Pending, Ending, Alive, Answered
<1> QED BY <1>2, <1>3, <1>4, <1>5, <1>6, Zenon

-----------------------------------------------------------------------------
(* The steps of workers, tasks and the writer.                             *)

\* A step of a task or worker that sends nothing.
LEMMA SilentPending ==
  ASSUME ReqInv, UNCHANGED <<last, reader, outgoing, queue, writer, wire>>,
         \A id \in Ids : Alive(id) => Alive(id)'
  PROVE  Pending'
<1>1. \A id \in 1..last : id \in Ids BY BoundsAssumption DEF ReqInv, TypeOK, Ids
<1> QED BY <1>1, Zenon DEF ReqInv, Pending, Ending, Answered

\* A worker ends, with a commit or with an error.
LEMMA WorkStep == ASSUME ReqInv, NEW id \in Ids, Work(id) PROVE ReqInv'
<1>1. /\ UNCHANGED <<request, last, reader, outgoing, task, left, token, active, queue,
                     writer, wire, refused>>
      /\ worker[id] = "running"
      /\ \E result \in {"ok"} \cup Errors : worker' = [worker EXCEPT ![id] = result]
      /\ \/ committed' = committed
         \/ worker'[id] = "ok" /\ committed' = committed \cup {id}
  <2>1. CASE worker' = [worker EXCEPT ![id] = "ok"] BY <2>1, Zenon DEF Work, ReqInv, TypeOK
  <2>2. CASE committed' = committed BY <2>2, Zenon DEF Work, Errors
  <2> QED BY <2>1, <2>2, Zenon DEF Work
<1> USE <1>1 DEF ReqInv
<1>2. TypeOK' BY Zenon DEF TypeOK
<1>3. Started' BY DEF Started, TypeOK, Errors
<1>4. \A i \in Ids : worker[i] \in Errors => worker'[i] \in Errors BY Zenon DEF TypeOK, Errors
<1>5. Told' BY <1>4, Zenon DEF Told, Going
<1>6. Closing' BY Zenon DEF Closing, AllJoined, Alive, SenderHeld
<1>7. Pending' BY SilentPending, Zenon DEF Alive
<1> QED BY <1>2, <1>3, <1>5, <1>6, <1>7, Zenon

\* A timeout cancels the token and goes on waiting for the worker.
LEMMA TimeoutStep == ASSUME ReqInv, NEW id \in Ids, Timeout(id) PROVE ReqInv'
<1> USE DEF ReqInv, Timeout
<1>1. TypeOK'
  <2>1. active' \subseteq {i \in Ids : task'[i] \in {"working", "late", "aborted"}}
    BY Zenon DEF TypeOK
  <2> QED BY <2>1, Zenon DEF TypeOK
<1>2. Started' BY Zenon DEF Started, TypeOK
<1>3. Told' BY Zenon DEF Told, Going
<1>4. Closing' BY Zenon DEF Closing, AllJoined, Alive, SenderHeld, TypeOK
<1>5. Pending' BY SilentPending, Zenon DEF Alive, TypeOK
<1> QED BY <1>1, <1>2, <1>3, <1>4, <1>5, Zenon

\* What a task sends is what its worker ended with.
LEMMA JoinStep == ASSUME ReqInv, NEW id \in Ids, Join(id) PROVE ReqInv'
<1>1. PICK answer :
        /\ left' = [left EXCEPT ![id] = answer]
        /\ IF worker[id] = "ok" THEN answer \in Answers(request[id].kind)
           ELSE answer = <<IF task[id] = "late" THEN "resource_limit" ELSE worker[id]>>
  BY Zenon DEF Join
<1>2. /\ task[id] \in {"working", "late"} /\ worker[id] \in {"ok"} \cup Errors
      /\ request[id].kind \in Asynchronous
  BY Zenon DEF Join, WorkerReady, ReqInv, Started, TypeOK
<1>3. /\ answer \in Seq(Codes) /\ answer # <<>> /\ answer[Len(answer)] \in Terminal
      /\ Range(answer) \cap Errors # {} => worker[id] \in Errors
  <2>1. CASE worker[id] = "ok" BY <2>1, <1>1, <1>2, AnswerShape, Zenon
  <2>2. CASE worker[id] # "ok"
    <3>1. PICK error \in Errors : answer = <<error>> BY <2>2, <1>1, <1>2, Zenon DEF Errors
    <3> QED BY <2>2, <3>1, <1>2 DEF Codes, Terminal
  <2> QED BY <2>1, <2>2, Zenon
<1>4. /\ task' = [task EXCEPT ![id] = "sending"] /\ active' = active \ {id}
      /\ UNCHANGED <<request, last, reader, outgoing, worker, token, committed, queue,
                     writer, wire, refused>>
  BY Zenon DEF Join
<1> USE <1>1, <1>2, <1>3, <1>4 DEF ReqInv
<1>5. TypeOK'
  <2>1. active' \subseteq {i \in Ids : task'[i] \in {"working", "late", "aborted"}}
    BY Zenon DEF TypeOK
  <2> QED BY <2>1, Zenon DEF TypeOK
<1>6. Started' BY Zenon DEF Started, TypeOK, Errors
<1>7. Told' BY Zenon DEF Told, Going, TypeOK
<1>8. Closing' BY Zenon DEF Closing, AllJoined, Alive, SenderHeld, TypeOK
<1>9. Pending' BY SilentPending, Zenon DEF Alive, TypeOK
<1> QED BY <1>5, <1>6, <1>7, <1>8, <1>9, Zenon

\* A frame moves from its task to the channel.
LEMMA SendAnswerStep == ASSUME ReqInv, NEW id \in Ids, SendAnswer(id) PROVE ReqInv'
<1>0. /\ task[id] = "sending" /\ worker[id] # "running"
      /\ left[id] \in Seq(Codes) /\ left[id] # <<>> /\ left[id][Len(left[id])] \in Terminal
      /\ UNCHANGED <<request, last, reader, outgoing, worker, token, active, committed,
                     writer, wire, refused>>
  BY Zenon DEF SendAnswer, ReqInv, TypeOK, Started, Closing
<1>1. /\ Head(left[id]) \in Codes /\ Tail(left[id]) \in Seq(Codes)
      /\ Range(left[id]) = Range(Tail(left[id])) \cup {Head(left[id])}
  BY <1>0, RangeTail, Zenon
<1>2. writer # "done" /\ reader \notin {"draining", "ended", "failed"}
  BY <1>0, Zenon DEF ReqInv, Closing, AllJoined, Alive
<1>3. ASSUME HasRoom, NEW code \in {Head(left[id])} \cup
                      (IF Head(left[id]) \in MayExceedBound THEN {"oversize"} ELSE {}),
             Send(id, code), Continues(id, code),
             left' = [left EXCEPT ![id] = Tail(@)], UNCHANGED task
      PROVE  ReqInv'
  <2>1. code \in Codes BY <1>1, Zenon DEF Codes, Terminal
  <2>2. code = Head(left[id]) BY <1>3, Zenon DEF Continues
  <2>3. /\ queue' \in Seq(Frames) /\ Len(queue') <= QueueSize
        /\ Range(queue') = Range(queue) \cup {[id |-> id, code |-> code]}
    BY <1>3, <2>1, Sent, Zenon DEF ReqInv
  <2>4. /\ Tail(left[id]) # <<>>
        /\ Tail(left[id])[Len(Tail(left[id]))] = left[id][Len(left[id])]
    BY <1>0, <1>3, LastOfTail, Zenon DEF Continues
  <2> USE <1>0, <1>1, <1>2, <1>3, <2>2, <2>3, <2>4 DEF ReqInv
  <2>5. TypeOK' BY Zenon DEF TypeOK
  <2>6. Started' BY Zenon DEF Started
  <2>7. Told' BY Zenon DEF Told, Going, TypeOK
  <2>8. Closing' BY Zenon DEF Closing, AllJoined, Alive, SenderHeld, TypeOK
  <2>9. Pending' BY Zenon DEF Pending, Ending, Answered, Alive
  <2> QED BY <2>5, <2>6, <2>7, <2>8, <2>9, Zenon
<1>4. ASSUME HasRoom, NEW code \in {Head(left[id])} \cup
                      (IF Head(left[id]) \in MayExceedBound THEN {"oversize"} ELSE {}),
             Send(id, code), ~Continues(id, code), left' = [left EXCEPT ![id] = <<>>],
             task' = [task EXCEPT ![id] = "done"]
      PROVE  ReqInv'
  <2>1. code \in Codes BY <1>1, Zenon DEF Codes, Terminal
  <2>2. code \in Terminal BY <1>0, <1>4 DEF Continues, Terminal
  <2>3. code \in Errors => code \in Range(left[id]) BY <1>1, Zenon DEF Errors
  <2>4. /\ queue' \in Seq(Frames) /\ Len(queue') <= QueueSize
        /\ Range(queue') = Range(queue) \cup {[id |-> id, code |-> code]}
    BY <1>4, <2>1, Sent, Zenon DEF ReqInv
  <2> USE <1>0, <1>2, <1>4, <2>2, <2>3, <2>4 DEF ReqInv
  <2>5. TypeOK'
    <3>1. active' \subseteq {i \in Ids : task'[i] \in {"working", "late", "aborted"}}
      BY Zenon DEF TypeOK
    <3> QED BY <3>1 DEF TypeOK
  <2>6. Started' BY Zenon DEF Started, TypeOK
  <2>7. Told'
    <3>1. Range(left'[id]) = {} BY DEF TypeOK, Range
    <3> QED BY <3>1, Zenon DEF Told, Going, TypeOK
  <2>8. Closing' BY Zenon DEF Closing, AllJoined, Alive, SenderHeld, TypeOK
  <2>9. Pending'
    <3>1. Ending(id)' BY Zenon DEF Ending
    <3>2. \A i \in Ids : i # id => (Alive(i) => Alive(i)') BY Zenon DEF Alive, TypeOK
    <3>3. \A i \in Ids : i # id /\ Ending(i) => Ending(i)' BY <3>2, Zenon DEF Ending, Answered
    <3>4. \A i \in 1..last : i \in Ids BY BoundsAssumption DEF TypeOK, Ids
    <3> QED BY <3>1, <3>3, <3>4, Zenon DEF Pending
  <2> QED BY <2>5, <2>6, <2>7, <2>8, <2>9, Zenon
<1>5. ASSUME ChannelClosed, left' = [left EXCEPT ![id] = <<>>],
             task' = [task EXCEPT ![id] = "done"], UNCHANGED queue
      PROVE  ReqInv'
  <2>1. writer = "failed" BY <1>2, <1>5, Zenon DEF ChannelClosed, ReqInv, TypeOK
  <2> USE <1>0, <1>2, <1>5, <2>1 DEF ReqInv
  <2>2. TypeOK'
    <3>1. active' \subseteq {i \in Ids : task'[i] \in {"working", "late", "aborted"}}
      BY Zenon DEF TypeOK
    <3> QED BY <3>1 DEF TypeOK
  <2>3. Started' BY Zenon DEF Started, TypeOK
  <2>4. Told' BY DEF Told, Going, TypeOK, Range
  <2>5. Closing' BY Zenon DEF Closing, AllJoined, Alive, SenderHeld, TypeOK
  <2>6. Pending' BY Zenon DEF Pending
  <2> QED BY <2>2, <2>3, <2>4, <2>5, <2>6, Zenon
<1> QED BY <1>3, <1>4, <1>5, Zenon DEF SendAnswer

\* A frame moves from the channel to the client.
LEMMA WriteFrameStep == ASSUME ReqInv, WriteFrame PROVE ReqInv'
<1> DEFINE frame == Head(queue)
<1>1. /\ frame \in Frames /\ frame.id \in Ids /\ frame.code \in Codes
      /\ frame = [id |-> frame.id, code |-> frame.code]
      /\ queue' \in Seq(Frames) /\ Len(queue') = Len(queue) - 1
      /\ Range(queue) = Range(queue') \cup {frame}
  <2>1. queue \in Seq(Frames) /\ queue # <<>> /\ queue' = Tail(queue)
    BY Zenon DEF WriteFrame, ReqInv, TypeOK
  <2>2. /\ frame \in Frames /\ queue' \in Seq(Frames) /\ Len(queue') = Len(queue) - 1
        /\ Range(queue) = Range(queue') \cup {frame}
    BY <2>1, RangeTail, Zenon
  <2> HIDE DEF frame
  <2> QED BY <2>2, Zenon DEF Frames
<1>2. /\ writer = "running"
      /\ UNCHANGED <<request, last, reader, outgoing, task, left, worker, token, active,
                     committed, writer>>
  BY Zenon DEF WriteFrame
<1>3. /\ wire' \in [Ids -> Seq(Codes)] /\ refused' \subseteq Ids
      /\ Range(wire[frame.id]) \subseteq Range(wire'[frame.id])
      /\ Range(wire'[frame.id]) \subseteq Range(wire[frame.id]) \cup {frame.code}
      /\ frame.code # "stale_id" => frame.code \in Range(wire'[frame.id])
      /\ \A id \in Ids : id # frame.id => wire'[id] = wire[id]
  <2>1. CASE frame.code = "stale_id"
    <3>1. refused' = refused \cup {frame.id} /\ wire' = wire BY <2>1, Zenon DEF WriteFrame
    <3> HIDE DEF frame
    <3> QED BY <1>1, <2>1, <3>1, Zenon DEF ReqInv, TypeOK
  <2>2. CASE frame.code # "stale_id"
    <3>1. wire' = [wire EXCEPT ![frame.id] = Append(@, frame.code)] /\ refused' = refused
      BY <2>2, Zenon DEF WriteFrame
    <3> HIDE DEF frame
    <3>2. wire[frame.id] \in Seq(Codes) BY <1>1, Zenon DEF ReqInv, TypeOK
    <3>3. /\ Append(wire[frame.id], frame.code) \in Seq(Codes)
          /\ Range(Append(wire[frame.id], frame.code)) = Range(wire[frame.id]) \cup {frame.code}
      BY <1>1, <3>2, RangeAppend
    <3> QED BY <1>1, <3>1, <3>3, Zenon DEF ReqInv, TypeOK
  <2> QED BY <2>1, <2>2, Zenon
<1> HIDE DEF frame
<1> USE <1>1, <1>2, <1>3 DEF ReqInv
<1>4. TypeOK'
  <2>1. Len(queue') <= QueueSize BY BoundsAssumption DEF TypeOK
  <2> QED BY <2>1, Zenon DEF TypeOK
<1>5. Started' BY Zenon DEF Started
<1>6. Told'
  <2>1. \A id \in Ids : \A code : Going(id, code)' => Going(id, code) BY Zenon DEF Going
  <2> QED BY <2>1, Zenon DEF Told
<1>7. Closing' BY Zenon DEF Closing, AllJoined, Alive, SenderHeld
<1>8. Pending'
  <2>1. \A id \in Ids : Answered(id) => Answered(id)' BY Zenon DEF Answered
  <2>2. \A id \in Ids : Alive(id) => Alive(id)' BY Zenon DEF Alive
  <2>3. ASSUME NEW id \in Ids, NEW code \in Terminal, [id |-> id, code |-> code] \in Range(queue)
        PROVE  [id |-> id, code |-> code] \in Range(queue') \/ Answered(id)'
    <3>1. code # "stale_id" BY Zenon DEF Terminal, Errors
    <3>2. CASE frame = [id |-> id, code |-> code]
      <4>1. frame.id = id /\ frame.code = code BY <3>2
      <4> QED BY <3>1, <4>1, Zenon DEF Answered
    <3> QED BY <2>3, <3>2, Zenon
  <2>5. \A id \in Ids : Ending(id) => Ending(id)' BY <2>1, <2>2, <2>3, Zenon DEF Ending
  <2>4. \A id \in 1..last : id \in Ids BY BoundsAssumption DEF TypeOK, Ids
  <2> QED BY <2>4, <2>5, Zenon DEF Pending
<1> QED BY <1>4, <1>5, <1>6, <1>7, <1>8, Zenon

\* The writer ends, by an error or because every sender is gone.
LEMMA WriterStep == ASSUME ReqInv, WriteError \/ WriterEnds PROVE ReqInv'
<1>1. /\ UNCHANGED <<request, last, reader, outgoing, task, left, worker, token, active,
                     committed, wire, refused>>
      /\ queue' = <<>>
      /\ \/ writer' = "failed"
         \/ writer' = "done" /\ writer = "running" /\ queue = <<>> /\ ~SenderHeld /\ AllJoined
  BY Zenon DEF WriteError, WriterEnds
<1> USE <1>1 DEF ReqInv
<1>2. TypeOK' BY BoundsAssumption DEF TypeOK
<1>3. Started' BY Zenon DEF Started
<1>4. Told'
  <2>1. Range(queue') = {} BY DEF Range
  <2> QED BY <2>1, Zenon DEF Told, Going
<1>5. Closing' BY Zenon DEF Closing, AllJoined, Alive, SenderHeld
<1>6. Pending' BY Zenon DEF Pending, Ending, Alive, Answered
<1> QED BY <1>2, <1>3, <1>4, <1>5, <1>6, Zenon

\* The invariant holds in every state.
LEMMA ReqInvariance == Spec => []ReqInv
<1>1. Init => ReqInv
  <2> SUFFICES ASSUME Init PROVE ReqInv BY Zenon
  <2> USE BoundsAssumption DEF Init
  <2>1. TypeOK BY DEF TypeOK
  <2>2. Started BY DEF Started, Ids
  <2>3. Told BY DEF Told, Going, Range
  <2>4. Closing BY Zenon DEF Closing, AllJoined, Alive, SenderHeld
  <2>5. Pending BY DEF Pending
  <2> QED BY <2>1, <2>2, <2>3, <2>4, <2>5, Zenon DEF ReqInv
<1>2. ReqInv /\ [Next]_vars => ReqInv'
  <2> SUFFICES ASSUME ReqInv, [Next]_vars PROVE ReqInv' BY Zenon
  <2>1. CASE UNCHANGED vars
    BY <2>1, Zenon DEF vars, ReqInv, TypeOK, Started, Told, Going, Closing, AllJoined, Alive,
       SenderHeld, Pending, Ending, Answered
  <2>2. Over => UNCHANGED vars BY Zenon DEF Over
  <2> QED
    BY Zenon, <2>1, <2>2, StaleIdStep, InlineStep, CancelStep, SpawnStep, SendReplyStep,
       FailStep,
       CloseStep, WorkStep, TimeoutStep, JoinStep, SendAnswerStep, WriteFrameStep, WriterStep
    DEF Next
<1> QED BY <1>1, <1>2, PTL DEF Spec

-----------------------------------------------------------------------------
(* What the connection promises.                                           *)

\* The channel of responses never outgrows RESPONSE_QUEUE, and only a task that has
\* not answered is in the active map.
THEOREM RequestTypes == Spec => []TypeOK
<1>1. ReqInv => TypeOK BY Zenon DEF ReqInv
<1> QED BY <1>1, ReqInvariance, PTL

\* A client that is told of a failure, a cancellation or a timeout can rely on it: the
\* worker has ended, and it ended without a commit.
THEOREM TruthfulFailures == Spec => []FailureMeansNotCommitted
<1>1. ReqInv => FailureMeansNotCommitted
  BY Zenon DEF ReqInv, Started, Told, Going, FailureMeansNotCommitted, Errors
<1> QED BY <1>1, ReqInvariance, PTL

\* When a handler returns after an orderly close no worker runs, and if the peer read to
\* the end every accepted request has its terminal frame on the wire.
THEOREM OrderlyClose == Spec => []OrderlyCloseDrains
<1>1. ReqInv => OrderlyCloseDrains
  <2> SUFFICES ASSUME ReqInv, reader = "ended" PROVE OrderlyCloseDrains
    BY Zenon DEF OrderlyCloseDrains
  <2>1. \A id \in Ids : task[id] \in {"none", "done"}
    BY Zenon DEF ReqInv, TypeOK, Closing, AllJoined, Alive
  <2>2. \A id \in Ids : worker[id] # "running" BY <2>1, Zenon DEF ReqInv, Started
  <2>3. ASSUME writer = "done", NEW id \in 1..last PROVE Answered(id)
    <3>1. id \in Ids BY BoundsAssumption DEF ReqInv, TypeOK, Ids
    <3>2. Ending(id) BY <2>3, Zenon DEF ReqInv, Pending
    <3>3. Range(queue) = {} BY <2>3 DEF ReqInv, Closing, Range
    <3> QED BY <2>1, <3>1, <3>2, <3>3, Zenon DEF Ending, Alive
  <2> QED BY <2>2, <2>3, Zenon DEF OrderlyCloseDrains
<1> QED BY <1>1, ReqInvariance, PTL

-----------------------------------------------------------------------------
(* The order of the frames of an answer.                                   *)

\* p lists, in order, the m places in the channel q that hold frames of the answer to
\* id, among the frames of other answers and the refusals of repeated identifiers.
Places(p, m, q, id) ==
  /\ m \in Nat /\ p \in [1..m -> DOMAIN q]
  /\ \A i \in 1..m : q[p[i]].id = id /\ q[p[i]].code # "stale_id"
  /\ \A i, j \in 1..m : i < j => p[i] < p[j]
  /\ \A k \in DOMAIN q :
       q[k].id = id /\ q[k].code # "stale_id" => \E i \in 1..m : p[i] = k

\* s are the frames sent of an answer so far: w, which were written, then those in q.
JoinsAt(p, m, s, w, q, id) ==
  /\ Places(p, m, q, id) /\ Len(s) = Len(w) + m
  /\ \A i \in 1..Len(w) : s[i] = w[i]
  /\ \A i \in 1..m : s[Len(w) + i] = q[p[i]].code
Joins(s, w, q, id) == \E m, p : JoinsAt(p, m, s, w, q, id)

\* A frame of the answer enters the channel behind the others.
LEMMA JoinsSend ==
  ASSUME NEW id \in Ids, NEW s \in Seq(Codes), NEW w \in Seq(Codes), NEW q \in Seq(Frames),
         Joins(s, w, q, id), NEW f \in Frames, f.id = id, f.code # "stale_id"
  PROVE  Joins(Append(s, f.code), w, Append(q, f), id)
<1>0. PICK m, p : JoinsAt(p, m, s, w, q, id) BY Zenon DEF Joins
<1>1. /\ Places(p, m, q, id) /\ Len(s) = Len(w) + m
      /\ \A i \in 1..Len(w) : s[i] = w[i]
      /\ \A i \in 1..m : s[Len(w) + i] = q[p[i]].code
  BY <1>0, Zenon DEF JoinsAt
<1> DEFINE r == Append(q, f)
           t == Append(s, f.code)
           o == [i \in 1..m + 1 |-> IF i = m + 1 THEN Len(q) + 1 ELSE p[i]]
<1>2. m \in Nat /\ p \in [1..m -> DOMAIN q] BY <1>1, Zenon DEF Places
<1>3. DOMAIN q = 1..Len(q) /\ Len(q) \in Nat /\ Len(w) \in Nat /\ Len(s) \in Nat OBVIOUS
<1>4. DOMAIN r = 1..Len(q) + 1 /\ r[Len(q) + 1] = f /\ \A k \in 1..Len(q) : r[k] = q[k]
  BY <1>3
<1>5. f.code \in Codes BY Zenon DEF Frames
<1>6. Len(t) = Len(s) + 1 /\ t[Len(s) + 1] = f.code /\ \A k \in 1..Len(s) : t[k] = s[k]
  BY <1>3, <1>5
<1>7. o[m + 1] = Len(q) + 1 /\ \A i \in 1..m : o[i] = p[i] /\ p[i] \in 1..Len(q) BY <1>2, <1>3
<1>8. \A i \in 1..m + 1 : i \in 1..m \/ i = m + 1 BY <1>2
<1>9. m + 1 \in Nat /\ o \in [1..m + 1 -> DOMAIN r] BY <1>2, <1>3, <1>4, <1>7
<1> HIDE DEF r, t, o
<1>10. \A i \in 1..m + 1 : r[o[i]].id = id /\ r[o[i]].code # "stale_id"
  <2>1. ASSUME NEW i \in 1..m PROVE r[o[i]].id = id /\ r[o[i]].code # "stale_id"
    <3>1. r[o[i]] = q[p[i]] BY <1>4, <1>7, Zenon
    <3> QED BY <1>1, <3>1, Zenon DEF Places
  <2>2. r[o[m + 1]].id = id /\ r[o[m + 1]].code # "stale_id" BY <1>4, <1>7, Zenon
  <2> QED BY <1>8, <2>1, <2>2, Zenon
<1>11. \A i, j \in 1..m + 1 : i < j => o[i] < o[j]
  <2>1. \A i, j \in 1..m : i < j => p[i] < p[j] BY <1>1, Zenon DEF Places
  <2>2. ASSUME NEW i \in 1..m + 1, NEW j \in 1..m + 1, i < j PROVE o[i] < o[j]
    <3>1. i \in 1..m BY <1>2, <2>2
    <3>2. CASE j \in 1..m BY <1>7, <2>1, <2>2, <3>1, <3>2, Zenon
    <3>3. CASE j = m + 1
      <4>1. o[i] \in 1..Len(q) /\ o[j] = Len(q) + 1 BY <1>7, <3>1, <3>3, Zenon
      <4> QED BY <1>3, <4>1
    <3> QED BY <1>8, <3>2, <3>3, Zenon
  <2> QED BY <2>2, Zenon
<1>12. ASSUME NEW k \in DOMAIN r, r[k].id = id, r[k].code # "stale_id"
       PROVE  \E i \in 1..m + 1 : o[i] = k
  <2>1. CASE k = Len(q) + 1 BY <1>2, <1>7, <2>1
  <2>2. CASE k \in 1..Len(q)
    <3>1. \E i \in 1..m : p[i] = k BY <1>1, <1>3, <1>4, <1>12, <2>2, Zenon DEF Places
    <3>2. 1..m \subseteq 1..m + 1 BY <1>2
    <3> QED BY <1>7, <3>1, <3>2, Zenon
  <2>3. k = Len(q) + 1 \/ k \in 1..Len(q) BY <1>3, <1>4
  <2> QED BY <2>1, <2>2, <2>3, Zenon
<1>13. Places(o, m + 1, r, id) BY <1>9, <1>10, <1>11, <1>12, Zenon DEF Places
<1>14. Len(t) = Len(w) + (m + 1) BY <1>1, <1>2, <1>3, <1>6
<1>15. \A i \in 1..Len(w) : t[i] = w[i] BY <1>1, <1>2, <1>3, <1>6
<1>16. \A i \in 1..m + 1 : t[Len(w) + i] = r[o[i]].code
  <2>1. ASSUME NEW i \in 1..m PROVE t[Len(w) + i] = r[o[i]].code
    <3>1. Len(w) + i \in 1..Len(s) BY <1>1, <1>2, <1>3
    <3>2. t[Len(w) + i] = s[Len(w) + i] BY <1>6, <3>1, Zenon
    <3>3. r[o[i]] = q[p[i]] BY <1>4, <1>7, Zenon
    <3> QED BY <1>1, <3>2, <3>3, Zenon
  <2>2. t[Len(w) + (m + 1)] = r[o[m + 1]].code
    <3>1. Len(w) + (m + 1) = Len(s) + 1 BY <1>1, <1>2, <1>3
    <3> QED BY <1>4, <1>6, <1>7, <3>1, Zenon
  <2> QED BY <1>8, <2>1, <2>2, Zenon
<1>17. JoinsAt(o, m + 1, t, w, r, id) BY <1>13, <1>14, <1>15, <1>16, Zenon DEF JoinsAt
<1>18. Joins(t, w, r, id) BY <1>17, Zenon DEF Joins
<1> QED BY <1>18, Zenon DEF r, t

\* A frame of another answer, or a refusal, enters the channel.
LEMMA JoinsOther ==
  ASSUME NEW id \in Ids, NEW s, NEW w \in Seq(Codes), NEW q \in Seq(Frames),
         Joins(s, w, q, id), NEW f \in Frames, f.id # id \/ f.code = "stale_id"
  PROVE  Joins(s, w, Append(q, f), id)
<1>0. PICK m, p : JoinsAt(p, m, s, w, q, id) BY Zenon DEF Joins
<1>1. /\ Places(p, m, q, id) /\ Len(s) = Len(w) + m
      /\ \A i \in 1..Len(w) : s[i] = w[i]
      /\ \A i \in 1..m : s[Len(w) + i] = q[p[i]].code
  BY <1>0, Zenon DEF JoinsAt
<1> DEFINE r == Append(q, f)
<1>2. m \in Nat /\ p \in [1..m -> DOMAIN q] BY <1>1, Zenon DEF Places
<1>3. DOMAIN q = 1..Len(q) /\ Len(q) \in Nat OBVIOUS
<1>4. DOMAIN r = 1..Len(q) + 1 /\ r[Len(q) + 1] = f /\ \A k \in 1..Len(q) : r[k] = q[k]
  BY <1>3
<1>5. 1..Len(q) \subseteq DOMAIN r /\ \A k \in DOMAIN r : k = Len(q) + 1 \/ k \in 1..Len(q)
  BY <1>3, <1>4
<1> HIDE DEF r
<1>6. p \in [1..m -> DOMAIN r] /\ \A i \in 1..m : r[p[i]] = q[p[i]]
  BY <1>2, <1>3, <1>4, <1>5, Zenon
<1>7. Places(p, m, r, id)
  <2>1. \A k \in DOMAIN r : r[k].id = id /\ r[k].code # "stale_id" => k \in DOMAIN q /\ r[k] = q[k]
    BY <1>3, <1>4, <1>5, Zenon
  <2> QED BY <1>1, <1>6, <2>1, Zenon DEF Places
<1>8. \A i \in 1..m : s[Len(w) + i] = r[p[i]].code
  <2> TAKE i \in 1..m
  <2>1. r[p[i]] = q[p[i]] BY <1>6, Zenon
  <2> QED BY <1>1, <2>1, Zenon
<1>9. JoinsAt(p, m, s, w, r, id) BY <1>1, <1>7, <1>8, Zenon DEF JoinsAt
<1>10. Joins(s, w, r, id) BY <1>9, Zenon DEF Joins
<1> QED BY <1>10, Zenon DEF r

\* The writer takes a frame of the answer from the head of the channel.
LEMMA JoinsWrite ==
  ASSUME NEW id \in Ids, NEW s \in Seq(Codes), NEW w \in Seq(Codes), NEW q \in Seq(Frames),
         q # <<>>, Joins(s, w, q, id), Head(q).id = id, Head(q).code # "stale_id"
  PROVE  Joins(s, Append(w, Head(q).code), Tail(q), id)
<1>0. PICK m, p : JoinsAt(p, m, s, w, q, id) BY Zenon DEF Joins
<1>1. /\ Places(p, m, q, id) /\ Len(s) = Len(w) + m
      /\ \A i \in 1..Len(w) : s[i] = w[i]
      /\ \A i \in 1..m : s[Len(w) + i] = q[p[i]].code
  BY <1>0, Zenon DEF JoinsAt
<1> DEFINE r == Tail(q)
           c == Head(q).code
           v == Append(w, c)
           o == [i \in 1..m - 1 |-> p[i + 1] - 1]
<1>2. m \in Nat /\ p \in [1..m -> DOMAIN q] BY <1>1, Zenon DEF Places
<1>3. DOMAIN q = 1..Len(q) /\ Len(q) \in Nat \ {0} /\ Len(w) \in Nat /\ Len(s) \in Nat OBVIOUS
<1>4. /\ r \in Seq(Frames) /\ DOMAIN r = 1..Len(q) - 1 /\ q[1] = Head(q)
      /\ \A k \in 1..Len(q) - 1 : r[k] = q[k + 1]
  BY <1>3
<1>5. c \in Codes
  <2>1. Head(q) \in Frames BY <1>3
  <2> QED BY <2>1, Zenon DEF Frames
<1>6. Len(v) = Len(w) + 1 /\ v[Len(w) + 1] = c /\ \A k \in 1..Len(w) : v[k] = w[k]
  BY <1>3, <1>5
<1>7. m >= 1 /\ p[1] = 1
  <2>1. 1 \in DOMAIN q /\ q[1].id = id /\ q[1].code # "stale_id" BY <1>3, <1>4
  <2>2. PICK i \in 1..m : p[i] = 1 BY <1>1, <2>1, Zenon DEF Places
  <2>3. ASSUME i # 1 PROVE FALSE
    <3>1. 1 \in 1..m /\ 1 < i BY <1>2, <2>3
    <3>2. p[1] < p[i] BY <1>1, <3>1, Zenon DEF Places
    <3>3. p[1] \in 1..Len(q) BY <1>2, <1>3, <3>1, Zenon
    <3> QED BY <1>3, <2>2, <3>2, <3>3
  <2>4. 1 \in 1..m => m >= 1 BY <1>2
  <2> QED BY <2>2, <2>3, <2>4, Zenon
<1>8. ASSUME NEW i \in 1..m - 1
      PROVE  /\ i \in 1..m /\ i + 1 \in 1..m
             /\ o[i] = p[i + 1] - 1 /\ o[i] \in 1..Len(q) - 1 /\ o[i] + 1 = p[i + 1]
  <2>1. i \in 1..m /\ i + 1 \in 1..m /\ 1 \in 1..m /\ 1 < i + 1 BY <1>2, <1>7
  <2>2. p[i + 1] \in 1..Len(q) BY <1>2, <1>3, <2>1, Zenon
  <2>3. p[1] < p[i + 1] BY <1>1, <2>1, Zenon DEF Places
  <2>4. o[i] = p[i + 1] - 1 BY Zenon
  <2>5. PICK x : x = p[i + 1] BY Zenon
  <2>6. Len(q) \in Nat /\ x \in 1..Len(q) /\ 1 < x BY <1>3, <1>7, <2>2, <2>3, <2>5, Zenon
  <2>7. x - 1 \in 1..Len(q) - 1 /\ (x - 1) + 1 = x BY <2>6
  <2> QED BY <2>1, <2>4, <2>5, <2>7, Zenon
<1>9. m - 1 \in Nat /\ o \in [1..m - 1 -> DOMAIN r]
  <2>1. m - 1 \in Nat BY <1>2, <1>7
  <2>2. \A i \in 1..m - 1 : p[i + 1] - 1 \in DOMAIN r
    <3> TAKE i \in 1..m - 1
    <3>1. o[i] = p[i + 1] - 1 /\ o[i] \in 1..Len(q) - 1 BY <1>8, Zenon
    <3> QED BY <1>4, <3>1, Zenon
  <2> QED BY <2>1, <2>2, Zenon
<1> HIDE DEF r, v, o, c
<1>10. ASSUME NEW i \in 1..m - 1 PROVE r[o[i]] = q[p[i + 1]]
  <2>1. o[i] \in 1..Len(q) - 1 /\ o[i] + 1 = p[i + 1] BY <1>8, Zenon
  <2>2. r[o[i]] = q[o[i] + 1] BY <1>4, <2>1, Zenon
  <2> QED BY <2>1, <2>2, Zenon
<1>11. ASSUME NEW i \in 1..m - 1 PROVE r[o[i]].id = id /\ r[o[i]].code # "stale_id"
  <2>1. i + 1 \in 1..m BY <1>8, Zenon
  <2>2. q[p[i + 1]].id = id /\ q[p[i + 1]].code # "stale_id" BY <1>1, <2>1, Zenon DEF Places
  <2> QED BY <1>10, <2>2, Zenon
<1>12. ASSUME NEW i \in 1..m - 1, NEW j \in 1..m - 1, i < j PROVE o[i] < o[j]
  <2>1. i + 1 \in 1..m /\ j + 1 \in 1..m /\ i + 1 < j + 1 BY <1>2, <1>12
  <2>2. p[i + 1] < p[j + 1] BY <1>1, <2>1, Zenon DEF Places
  <2>3. p[i + 1] \in 1..Len(q) /\ p[j + 1] \in 1..Len(q) BY <1>2, <1>3, <2>1, Zenon
  <2>4. o[i] = p[i + 1] - 1 /\ o[j] = p[j + 1] - 1 BY <1>8, Zenon
  <2> QED BY <1>3, <2>2, <2>3, <2>4
<1>13. ASSUME NEW k \in DOMAIN r, r[k].id = id, r[k].code # "stale_id"
       PROVE  \E i \in 1..m - 1 : o[i] = k
  <2>1. k \in 1..Len(q) - 1 /\ k + 1 \in DOMAIN q /\ k + 1 # 1 BY <1>3, <1>4
  <2>2. r[k] = q[k + 1] BY <1>4, <2>1, Zenon
  <2>3. PICK j \in 1..m : p[j] = k + 1 BY <1>1, <1>13, <2>1, <2>2, Zenon DEF Places
  <2>4. j # 1 BY <1>7, <2>1, <2>3, Zenon
  <2>5. j - 1 \in 1..m - 1 /\ (j - 1) + 1 = j BY <1>2, <2>4
  <2>6. o[j - 1] = p[j] - 1 BY <1>8, <2>5, Zenon
  <2>7. o[j - 1] = k BY <2>1, <2>3, <2>6
  <2> QED BY <2>5, <2>7, Zenon
<1>14. Places(o, m - 1, r, id) BY <1>9, <1>11, <1>12, <1>13, Zenon DEF Places
<1>15. Len(s) = Len(v) + (m - 1) BY <1>1, <1>2, <1>3, <1>6
<1>16. \A k \in 1..Len(v) : s[k] = v[k]
  <2>1. \A k \in 1..Len(v) : k \in 1..Len(w) \/ k = Len(w) + 1 BY <1>3, <1>6
  <2>2. s[Len(w) + 1] = c
    <3>1. 1 \in 1..m BY <1>2, <1>7
    <3> QED BY <1>1, <1>4, <1>7, <3>1, Zenon DEF c
  <2> QED BY <1>1, <1>6, <2>1, <2>2, Zenon
<1>17. ASSUME NEW i \in 1..m - 1 PROVE s[Len(v) + i] = r[o[i]].code
  <2>1. Len(v) + i = Len(w) + (i + 1) BY <1>3, <1>6
  <2>2. i + 1 \in 1..m BY <1>8, Zenon
  <2>3. s[Len(w) + (i + 1)] = q[p[i + 1]].code BY <1>1, <2>2, Zenon
  <2> QED BY <1>10, <2>1, <2>3, Zenon
<1>18. JoinsAt(o, m - 1, s, v, r, id) BY <1>14, <1>15, <1>16, <1>17, Zenon DEF JoinsAt
<1>19. Joins(s, v, r, id) BY <1>18, Zenon DEF Joins
<1> QED BY <1>19, Zenon DEF r, v, c

\* The writer takes a frame of another answer, or a refusal.
LEMMA JoinsPass ==
  ASSUME NEW id \in Ids, NEW s, NEW w \in Seq(Codes), NEW q \in Seq(Frames),
         q # <<>>, Joins(s, w, q, id), Head(q).id # id \/ Head(q).code = "stale_id"
  PROVE  Joins(s, w, Tail(q), id)
<1>0. PICK m, p : JoinsAt(p, m, s, w, q, id) BY Zenon DEF Joins
<1>1. /\ Places(p, m, q, id) /\ Len(s) = Len(w) + m
      /\ \A i \in 1..Len(w) : s[i] = w[i]
      /\ \A i \in 1..m : s[Len(w) + i] = q[p[i]].code
  BY <1>0, Zenon DEF JoinsAt
<1> DEFINE r == Tail(q)
           o == [i \in 1..m |-> p[i] - 1]
<1>2. m \in Nat /\ p \in [1..m -> DOMAIN q] BY <1>1, Zenon DEF Places
<1>3. DOMAIN q = 1..Len(q) /\ Len(q) \in Nat \ {0} OBVIOUS
<1>4. /\ DOMAIN r = 1..Len(q) - 1 /\ q[1] = Head(q)
      /\ \A k \in 1..Len(q) - 1 : r[k] = q[k + 1]
  BY <1>3
<1>5. ASSUME NEW i \in 1..m
      PROVE  /\ p[i] \in 1..Len(q)
             /\ o[i] = p[i] - 1 /\ o[i] \in 1..Len(q) - 1 /\ o[i] + 1 = p[i]
  <2>1. p[i] \in 1..Len(q) BY <1>2, <1>3, Zenon
  <2>2. ASSUME p[i] = 1 PROVE FALSE
    <3>1. q[p[i]].id = id /\ q[p[i]].code # "stale_id" BY <1>1, Zenon DEF Places
    <3>2. q[p[i]] = Head(q) BY <1>4, <2>2, Zenon
    <3> QED BY <3>1, <3>2, Zenon
  <2>3. o[i] = p[i] - 1 BY Zenon
  <2> HIDE DEF o
  <2> QED BY <1>3, <2>1, <2>2, <2>3
<1>6. o \in [1..m -> DOMAIN r]
  <2>1. \A i \in 1..m : p[i] - 1 \in DOMAIN r
    <3> TAKE i \in 1..m
    <3>1. o[i] = p[i] - 1 /\ o[i] \in 1..Len(q) - 1 BY <1>5, Zenon
    <3> QED BY <1>4, <3>1, Zenon
  <2> QED BY <2>1, Zenon
<1> HIDE DEF r, o
<1>7. ASSUME NEW i \in 1..m PROVE r[o[i]] = q[p[i]]
  <2>1. o[i] \in 1..Len(q) - 1 /\ o[i] + 1 = p[i] BY <1>5, Zenon
  <2>2. r[o[i]] = q[o[i] + 1] BY <1>4, <2>1, Zenon
  <2> QED BY <2>1, <2>2, Zenon
<1>8. ASSUME NEW i \in 1..m PROVE r[o[i]].id = id /\ r[o[i]].code # "stale_id"
  BY <1>1, <1>7, Zenon DEF Places
<1>9. ASSUME NEW i \in 1..m, NEW j \in 1..m, i < j PROVE o[i] < o[j]
  <2>1. p[i] < p[j] BY <1>1, <1>9, Zenon DEF Places
  <2>2. /\ p[i] \in 1..Len(q) /\ p[j] \in 1..Len(q)
        /\ o[i] = p[i] - 1 /\ o[j] = p[j] - 1
    BY <1>5, Zenon
  <2> QED BY <1>3, <2>1, <2>2
<1>10. ASSUME NEW k \in DOMAIN r, r[k].id = id, r[k].code # "stale_id"
       PROVE  \E i \in 1..m : o[i] = k
  <2>1. k \in 1..Len(q) - 1 /\ k + 1 \in DOMAIN q BY <1>3, <1>4
  <2>2. r[k] = q[k + 1] BY <1>4, <2>1, Zenon
  <2>3. PICK j \in 1..m : p[j] = k + 1 BY <1>1, <1>10, <2>1, <2>2, Zenon DEF Places
  <2>4. o[j] = p[j] - 1 BY <1>5, Zenon
  <2>5. o[j] = k BY <2>1, <2>3, <2>4
  <2> QED BY <2>5, Zenon
<1>11. Places(o, m, r, id) BY <1>2, <1>6, <1>8, <1>9, <1>10, Zenon DEF Places
<1>12. ASSUME NEW i \in 1..m PROVE s[Len(w) + i] = r[o[i]].code
  <2>1. s[Len(w) + i] = q[p[i]].code BY <1>1, Zenon
  <2> QED BY <1>7, <2>1, Zenon
<1>13. JoinsAt(o, m, s, w, r, id) BY <1>1, <1>11, <1>12, Zenon DEF JoinsAt
<1>14. Joins(s, w, r, id) BY <1>13, Zenon DEF Joins
<1> QED BY <1>14, Zenon DEF r

\* The channel is emptied: what was written is a beginning of what was sent.
LEMMA JoinsDrop ==
  ASSUME NEW id \in Ids, NEW s \in Seq(Codes), NEW w \in Seq(Codes), NEW q, Joins(s, w, q, id)
  PROVE  /\ Joins(w, w, <<>>, id)
         /\ Len(w) <= Len(s) /\ \A i \in 1..Len(w) : s[i] = w[i]
<1>1. PICK m, p : JoinsAt(p, m, s, w, q, id) BY Zenon DEF Joins
<1>2. Len(w) <= Len(s) /\ \A i \in 1..Len(w) : s[i] = w[i]
  <2>1. m \in Nat BY <1>1, Zenon DEF JoinsAt, Places
  <2> QED BY <1>1, <2>1 DEF JoinsAt
<1>3. Places(<<>>, 0, <<>>, id) BY DEF Places
<1>4. Len(w) = Len(w) + 0 /\ 1..0 = {} OBVIOUS
<1>5. JoinsAt(<<>>, 0, w, w, <<>>, id) BY <1>3, <1>4, Zenon DEF JoinsAt
<1> QED BY <1>2, <1>5, Zenon DEF Joins

\* Nothing of the answer is in the channel or was written.
LEMMA JoinsNothing ==
  ASSUME NEW id \in Ids, NEW w \in Seq(Codes), NEW q \in Seq(Frames), Joins(<<>>, w, q, id)
  PROVE  w = <<>>
<1>1. PICK m, p : JoinsAt(p, m, <<>>, w, q, id) BY Zenon DEF Joins
<1>2. m \in Nat /\ Len(<<>>) = Len(w) + m BY <1>1, Zenon DEF JoinsAt, Places
<1> QED BY <1>2

\* Legal over a given set of complete answers.
Fits(E, seen) ==
  \E answer \in E, n \in 0..Len(seen) :
    /\ n <= Len(answer) /\ SubSeq(seen, 1, n) = SubSeq(answer, 1, n)
    /\ \/ n = Len(seen)
       \/ n < Len(answer) /\ SubSeq(seen, n + 1, Len(seen)) = <<"oversize">>

\* Two sequences begin alike when they agree element by element, and conversely.
LEMMA Beginnings ==
  ASSUME NEW S, NEW s \in Seq(S), NEW t \in Seq(S), NEW n \in Nat, n <= Len(s), n <= Len(t)
  PROVE  SubSeq(s, 1, n) = SubSeq(t, 1, n) <=> \A i \in 1..n : s[i] = t[i]
<1> DEFINE a == SubSeq(s, 1, n)
           b == SubSeq(t, 1, n)
<1>1. a \in Seq(S) /\ Len(a) = n /\ \A i \in 1..n : a[i] = s[i] OBVIOUS
<1>2. b \in Seq(S) /\ Len(b) = n /\ \A i \in 1..n : b[i] = t[i] OBVIOUS
<1> HIDE DEF a, b
<1>3. ASSUME \A i \in 1..n : s[i] = t[i] PROVE a = b
  <2>1. \A i \in 1..n : a[i] = b[i] BY <1>1, <1>2, <1>3, Zenon
  <2> QED BY <1>1, <1>2, <2>1
<1>4. ASSUME a = b, NEW i \in 1..n PROVE s[i] = t[i] BY <1>1, <1>2, <1>4, Zenon
<1> QED BY <1>3, <1>4, Zenon DEF a, b

\* A part of a complete answer fits.
LEMMA FitsPart ==
  ASSUME NEW E, NEW answer \in E, answer \in Seq(Codes), NEW s \in Seq(Codes),
         Len(s) <= Len(answer), \A i \in 1..Len(s) : s[i] = answer[i]
  PROVE  Fits(E, s)
<1>1. Len(s) \in Nat /\ Len(s) <= Len(s) /\ Len(s) \in 0..Len(s) OBVIOUS
<1>2. SubSeq(s, 1, Len(s)) = SubSeq(answer, 1, Len(s)) BY <1>1, Beginnings
<1> QED BY <1>1, <1>2, Zenon DEF Fits

\* What has been written of frames that fit, fits.
LEMMA FitsPrefix ==
  ASSUME NEW E, E \subseteq Seq(Codes), NEW s \in Seq(Codes), NEW w \in Seq(Codes), Fits(E, s),
         Len(w) <= Len(s), \A i \in 1..Len(w) : s[i] = w[i]
  PROVE  Fits(E, w)
<1>1. PICK answer \in E, n \in 0..Len(s) :
        /\ n <= Len(answer) /\ SubSeq(s, 1, n) = SubSeq(answer, 1, n)
        /\ \/ n = Len(s)
           \/ n < Len(answer) /\ SubSeq(s, n + 1, Len(s)) = <<"oversize">>
  BY Zenon DEF Fits
<1>2. answer \in Seq(Codes) BY Zenon
<1>3. n \in Nat /\ n <= Len(s) /\ Len(s) \in Nat /\ Len(w) \in Nat /\ Len(answer) \in Nat BY <1>2
<1>4. \A i \in 1..n : s[i] = answer[i] BY <1>1, <1>2, <1>3, Beginnings
<1>5. CASE Len(w) <= n
  <2>1. Len(w) <= Len(answer) /\ \A i \in 1..Len(w) : w[i] = answer[i] BY <1>1, <1>3, <1>4, <1>5
  <2> QED BY <1>2, <2>1, FitsPart
<1>6. CASE ~(Len(w) <= n)
  <2>1. SubSeq(s, n + 1, Len(s)) = <<"oversize">> BY <1>1, <1>3, <1>6
  <2>2. Len(s) = n + 1
    <3>1. Len(SubSeq(s, n + 1, Len(s))) = Len(s) - n BY <1>3, <1>6
    <3>2. Len(<<"oversize">>) = 1 OBVIOUS
    <3>3. Len(s) - n = 1 BY <2>1, <3>1, <3>2, Zenon
    <3> QED BY <1>3, <3>3
  <2>3. Len(w) = Len(s) BY <1>3, <1>6, <2>2
  <2>4. w = s BY <2>3
  <2> QED BY <2>4, Zenon
<1> QED BY <1>5, <1>6, Zenon

\* The next frame of an answer fits, and so does the failure sent in its place.
LEMMA FitsNext ==
  ASSUME NEW E, NEW s \in Seq(Codes), NEW rest \in Seq(Codes), rest # <<>>,
         s \o rest \in E
  PROVE  /\ Fits(E, Append(s, Head(rest))) /\ Fits(E, Append(s, "oversize"))
         /\ Append(s, Head(rest)) \o Tail(rest) = s \o rest
<1>1. PICK answer : answer = s \o rest BY Zenon
<1>2. answer \in E /\ answer \in Seq(Codes) BY <1>1
<1>3. Len(s) \in Nat /\ Len(rest) \in Nat \ {0} /\ Len(answer) = Len(s) + Len(rest) BY <1>1
<1>4. /\ \A i \in 1..Len(s) : answer[i] = s[i]
      /\ \A i \in 1..Len(rest) : answer[Len(s) + i] = rest[i]
  BY <1>1, <1>3
<1>5. Head(rest) = rest[1] /\ Head(rest) \in Codes /\ 1 \in 1..Len(rest) BY <1>3
<1>6. "oversize" \in Codes BY Zenon DEF Codes, Terminal
<1>7. Fits(E, Append(s, Head(rest)))
  <2>1. PICK t : t = Append(s, Head(rest)) BY Zenon
  <2>2. t \in Seq(Codes) /\ Len(t) = Len(s) + 1 /\ t[Len(s) + 1] = Head(rest) BY <1>3, <1>5, <2>1
  <2>3. \A i \in 1..Len(s) : t[i] = s[i] BY <1>3, <1>5, <2>1
  <2>4. \A i \in 1..Len(t) : i \in 1..Len(s) \/ i = Len(s) + 1 BY <1>3, <2>2
  <2>5. answer[Len(s) + 1] = Head(rest) BY <1>4, <1>5, Zenon
  <2>6. \A i \in 1..Len(t) : t[i] = answer[i] BY <1>4, <2>2, <2>3, <2>4, <2>5, Zenon
  <2>7. Len(t) <= Len(answer) BY <1>3, <2>2
  <2>8. Fits(E, t) BY <1>2, <2>2, <2>6, <2>7, FitsPart, Zenon
  <2> QED BY <2>1, <2>8, Zenon
<1>8. Fits(E, Append(s, "oversize"))
  <2>1. PICK t : t = Append(s, "oversize") BY Zenon
  <2>2. t \in Seq(Codes) /\ Len(t) = Len(s) + 1 /\ t[Len(s) + 1] = "oversize" BY <1>3, <1>6, <2>1
  <2>3. \A i \in 1..Len(s) : t[i] = s[i] BY <1>3, <1>6, <2>1
  <2>4. PICK n : n = Len(s) BY Zenon
  <2>5. n \in 0..Len(t) /\ n <= Len(answer) /\ n < Len(answer) /\ n \in Nat /\ n <= Len(t)
    BY <1>3, <2>2, <2>4
  <2>6. \A i \in 1..n : t[i] = answer[i] BY <1>4, <2>3, <2>4, Zenon
  <2>7. SubSeq(t, 1, n) = SubSeq(answer, 1, n) BY <1>2, <2>2, <2>5, <2>6, Beginnings
  <2>8. SubSeq(t, n + 1, Len(t)) = <<"oversize">>
    <3>1. Len(t) = n + 1 /\ t[n + 1] = "oversize" BY <2>2, <2>4
    <3>2. PICK u : u = SubSeq(t, n + 1, n + 1) BY Zenon
    <3>3. u \in Seq(Codes) /\ Len(u) = 1 BY <2>2, <2>5, <3>1, <3>2
    <3>4. u[1] = t[n + 1] BY <2>2, <2>5, <3>1, <3>2
    <3>5. u = <<"oversize">> BY <3>1, <3>3, <3>4
    <3> QED BY <3>1, <3>2, <3>5, Zenon
  <2>9. Fits(E, t) BY <1>2, <2>5, <2>7, <2>8, Zenon DEF Fits
  <2> QED BY <2>1, <2>9, Zenon
<1>9. Append(s, Head(rest)) \o Tail(rest) = s \o rest
  <2>1. PICK t : t = Append(s, Head(rest)) BY Zenon
  <2>2. PICK u : u = Tail(rest) BY Zenon
  <2>3. t \in Seq(Codes) /\ Len(t) = Len(s) + 1 /\ t[Len(s) + 1] = Head(rest)
        /\ \A i \in 1..Len(s) : t[i] = s[i]
    BY <1>3, <1>5, <2>1
  <2>4. u \in Seq(Codes) /\ Len(u) = Len(rest) - 1
        /\ \A i \in 1..Len(rest) - 1 : u[i] = rest[i + 1]
    BY <1>3, <2>2
  <2>5. PICK v : v = t \o u BY Zenon
  <2>6. v \in Seq(Codes) /\ Len(v) = Len(t) + Len(u)
        /\ (\A i \in 1..Len(t) : v[i] = t[i]) /\ (\A i \in 1..Len(u) : v[Len(t) + i] = u[i])
    <3>1. t \in Seq(Codes) /\ u \in Seq(Codes) BY <2>3, <2>4, Zenon
    <3>2. v \in Seq(Codes) /\ Len(v) = Len(t) + Len(u) BY <2>5, <3>1
    <3>3. \A i \in 1..Len(t) : v[i] = t[i] BY <2>5, <3>1
    <3>4. \A i \in 1..Len(u) : v[Len(t) + i] = u[i] BY <2>5, <3>1
    <3> QED BY <3>2, <3>3, <3>4, Zenon
  <2>7. Len(v) = Len(answer) BY <1>3, <2>3, <2>4, <2>6
  <2>8. ASSUME NEW i \in 1..Len(answer) PROVE v[i] = answer[i]
    <3>1. CASE i \in 1..Len(s)
      <4>1. i \in 1..Len(t) BY <1>3, <2>3, <3>1
      <4> QED BY <1>4, <2>3, <2>6, <3>1, <4>1, Zenon
    <3>2. CASE i = Len(s) + 1
      <4>1. i \in 1..Len(t) BY <1>3, <2>3, <3>2
      <4>2. v[i] = Head(rest) BY <2>3, <2>6, <3>2, <4>1, Zenon
      <4>3. answer[i] = rest[1] BY <1>4, <1>5, <3>2, Zenon
      <4> QED BY <1>5, <4>2, <4>3, Zenon
    <3>3. CASE i \in Len(s) + 2..Len(answer)
      <4>1. PICK j : j = i - (Len(s) + 1) BY Zenon
      <4>2. j \in 1..Len(rest) - 1 /\ j \in 1..Len(u) /\ j + 1 \in 1..Len(rest)
            /\ i = Len(t) + j /\ i = Len(s) + (j + 1)
        BY <1>3, <2>3, <2>4, <3>3, <4>1
      <4>3. v[i] = rest[j + 1] BY <2>4, <2>6, <4>2, Zenon
      <4>4. answer[i] = rest[j + 1] BY <1>4, <4>2, Zenon
      <4> QED BY <4>3, <4>4, Zenon
    <3>4. i \in 1..Len(s) \/ i = Len(s) + 1 \/ i \in Len(s) + 2..Len(answer) BY <1>3
    <3> QED BY <3>1, <3>2, <3>3, <3>4, Zenon
  <2>9. v = answer BY <1>2, <2>6, <2>7, <2>8
  <2> QED BY <1>1, <2>1, <2>2, <2>5, <2>9, Zenon
<1> QED BY <1>7, <1>8, <1>9, Zenon

\* The complete answers to a request, by its kind.
Whole(kind) ==
  CASE kind = "inline" -> {<<"answer">>}
    [] kind = "cancel" -> {<<"acknowledged">>, <<"not_active">>}
    [] OTHER -> Answers(kind) \cup {<<error>> : error \in Errors}

\* The frames sent of the answer to a request so far are s.
Carried(id, s) == Joins(s, wire[id], queue, id)

\* The answer to a request has not begun.
Waiting(id) ==
  \/ id > last
  \/ task[id] \in {"working", "late"}
  \/ reader = "sending" /\ outgoing.id = id /\ outgoing.code # "stale_id"

\* What a task still holds completes what it has sent.
Completing(id) ==
  \E s \in Seq(Codes) : Carried(id, s) /\ s \o left[id] \in Whole(request[id].kind)

\* What was sent of an answer is legal.
Fitting(id) ==
  \E s \in Seq(Codes) : Carried(id, s) /\ Fits(Whole(request[id].kind), s)

\* The reader answers a request itself, in one frame.
Replying ==
  reader = "sending" /\ outgoing.code # "stale_id" =>
    /\ request[outgoing.id].kind \in {"inline", "cancel"}
    /\ Fits(Whole(request[outgoing.id].kind), <<outgoing.code>>)

AnswerFlow ==
  /\ \A id \in Ids : Waiting(id) => Carried(id, <<>>)
  /\ \A id \in Ids : id <= last => Fitting(id)
  /\ \A id \in Ids : task[id] = "sending" /\ writer = "running" => Completing(id)
  /\ Replying

\* Every kind of request has an answer, and an answer is a sequence of frames.
LEMMA WholeTyped ==
  ASSUME NEW kind \in Kinds
  PROVE  Whole(kind) \subseteq Seq(Codes) /\ Fits(Whole(kind), <<>>)
<1>1. Errors \subseteq Codes /\ {"answer", "acknowledged", "not_active"} \subseteq Codes
  BY Zenon DEF Codes, Terminal
<1>2. \A c \in Codes : <<c>> \in Seq(Codes) OBVIOUS
<1>3. Whole(kind) \subseteq Seq(Codes) /\ Whole(kind) # {}
  <2>1. CASE kind = "inline"
    <3>1. Whole(kind) = {<<"answer">>} BY <2>1, Zenon DEF Whole
    <3> QED BY <1>1, <1>2, <3>1, Zenon
  <2>2. CASE kind = "cancel"
    <3>1. Whole(kind) = {<<"acknowledged">>, <<"not_active">>} BY <2>2 DEF Whole
    <3> QED BY <1>1, <1>2, <3>1, Zenon
  <2>3. CASE kind \in Asynchronous
    <3>1. Whole(kind) = Answers(kind) \cup {<<error>> : error \in Errors}
      BY <2>3 DEF Whole, Asynchronous
    <3>2. Answers(kind) \subseteq Seq(Codes) BY <2>3, AnswerShape, Zenon
    <3>3. "failed" \in Errors BY Zenon DEF Errors
    <3> QED BY <1>1, <1>2, <3>1, <3>2, <3>3, Zenon
  <2> QED BY <2>1, <2>2, <2>3, Zenon DEF Kinds
<1>4. PICK answer \in Whole(kind) : TRUE BY <1>3, Zenon
<1>5. answer \in Seq(Codes) BY <1>3, Zenon
<1>6. /\ <<>> \in Seq(Codes) /\ Len(<<>>) <= Len(answer)
      /\ \A i \in 1..Len(<<>>) : <<>>[i] = answer[i]
  BY <1>5
<1>7. Fits(Whole(kind), <<>>) BY <1>4, <1>5, <1>6, FitsPart, Zenon
<1> QED BY <1>3, <1>7, Zenon

\* Frames of other answers, and refusals, do not disturb what was sent of one.
LEMMA SentOther ==
  ASSUME TypeOK, NEW id \in Ids, NEW s, Carried(id, s), NEW f \in Frames,
         f.id # id \/ f.code = "stale_id", queue' = Append(queue, f), wire' = wire
  PROVE  Carried(id, s)'
<1>1. PICK w : w = wire[id] BY Zenon
<1>2. PICK q : q = queue BY Zenon
<1>3. w \in Seq(Codes) /\ q \in Seq(Frames) BY <1>1, <1>2, Zenon DEF TypeOK
<1>4. Joins(s, w, q, id) BY <1>1, <1>2, Zenon DEF Carried
<1>5. Joins(s, w, Append(q, f), id) BY <1>3, <1>4, JoinsOther, Zenon
<1> QED BY <1>1, <1>2, <1>5, Zenon DEF Carried

\* A frame of the answer itself adds to it.
LEMMA SentOwn ==
  ASSUME TypeOK, NEW id \in Ids, NEW s \in Seq(Codes), Carried(id, s), NEW f \in Frames,
         f.id = id, f.code # "stale_id", queue' = Append(queue, f), wire' = wire
  PROVE  Carried(id, Append(s, f.code))'
<1>1. PICK w : w = wire[id] BY Zenon
<1>2. PICK q : q = queue BY Zenon
<1>3. w \in Seq(Codes) /\ q \in Seq(Frames) BY <1>1, <1>2, Zenon DEF TypeOK
<1>4. Joins(s, w, q, id) BY <1>1, <1>2, Zenon DEF Carried
<1>5. Joins(Append(s, f.code), w, Append(q, f), id) BY <1>3, <1>4, JoinsSend, Zenon
<1> QED BY <1>1, <1>2, <1>5, Zenon DEF Carried

\* Writing a frame moves it and changes no answer.
LEMMA Written ==
  ASSUME TypeOK, NEW id \in Ids, NEW s \in Seq(Codes), Carried(id, s), WriteFrame
  PROVE  Carried(id, s)'
<1>1. PICK w : w = wire[id] BY Zenon
<1>2. PICK q : q = queue BY Zenon
<1>3. w \in Seq(Codes) /\ q \in Seq(Frames) /\ q # <<>>
  BY <1>1, <1>2, Zenon DEF TypeOK, WriteFrame
<1>4. Joins(s, w, q, id) BY <1>1, <1>2, Zenon DEF Carried
<1>5. queue' = Tail(q) BY <1>2, Zenon DEF WriteFrame
<1>6. wire \in [Ids -> Seq(Codes)] BY Zenon DEF TypeOK
<1>7. CASE Head(q).id = id /\ Head(q).code # "stale_id"
  <2>1. Joins(s, Append(w, Head(q).code), Tail(q), id) BY <1>3, <1>4, <1>7, JoinsWrite, Zenon
  <2>2. wire'[id] = Append(w, Head(q).code) BY <1>1, <1>2, <1>6, <1>7, Zenon DEF WriteFrame
  <2> QED BY <1>5, <2>1, <2>2, Zenon DEF Carried
<1>8. CASE Head(q).id # id \/ Head(q).code = "stale_id"
  <2>1. Joins(s, w, Tail(q), id) BY <1>3, <1>4, <1>8, JoinsPass, Zenon
  <2>2. wire'[id] = w BY <1>1, <1>2, <1>6, <1>8, Zenon DEF WriteFrame
  <2> QED BY <1>5, <2>1, <2>2, Zenon DEF Carried
<1> QED BY <1>7, <1>8, Zenon

\* A step that sends and writes nothing and begins no answer.
LEMMA QuietFlow ==
  ASSUME ReqInv, AnswerFlow, UNCHANGED <<request, last, queue, wire>>,
         \A id \in Ids : Waiting(id)' => Waiting(id),
         \A id \in Ids : task'[id] = "sending" /\ writer' = "running" =>
           task[id] = "sending" /\ writer = "running" /\ left'[id] = left[id],
         reader' = "sending" => outgoing'.code = "stale_id" \/ UNCHANGED <<reader, outgoing>>
  PROVE  AnswerFlow'
<1>1. \A id \in Ids : Waiting(id)' => Carried(id, <<>>)' BY Zenon DEF AnswerFlow, Carried
<1>2. \A id \in Ids : id <= last' => Fitting(id)' BY Zenon DEF AnswerFlow, Fitting, Carried
<1>3. \A id \in Ids : task'[id] = "sending" /\ writer' = "running" => Completing(id)'
  BY Zenon DEF AnswerFlow, Completing, Carried
<1>4. Replying' BY Zenon DEF AnswerFlow, Replying
<1> QED BY <1>1, <1>2, <1>3, <1>4, Zenon DEF AnswerFlow

\* A handler that returns an error sends nothing more.
LEMMA FailFlow ==
  ASSUME ReqInv, AnswerFlow, ReturnError, UNCHANGED <<request, last, queue, writer, wire>>
  PROVE  AnswerFlow'
<1>1. \A id \in Ids : task'[id] = "aborted" \/ (task'[id] = task[id] /\ ~Alive(id))
  BY Zenon DEF ReturnError
<1>2. \A id \in Ids : task'[id] # "sending" BY <1>1, Zenon DEF Alive
<1>3. reader' # "sending" BY Zenon DEF ReturnError
<1>4. \A id \in Ids : Waiting(id)' => Waiting(id) BY <1>1, <1>3, Zenon DEF Waiting, Alive
<1> QED BY <1>2, <1>3, <1>4, QuietFlow, Zenon

\* The steps that leave the channel and the socket alone.
LEMMA QuietSteps ==
  ASSUME ReqInv, AnswerFlow,
         \/ StaleId \/ ReadEnd \/ ReadError \/ Abort \/ Joined \/ Ended \/ WriterEnds
         \/ \E id \in Ids : Work(id) \/ Timeout(id)
  PROVE  AnswerFlow'
<1>1. CASE StaleId
  <2>1. reader = "reading" /\ outgoing' = [id |-> last, code |-> "stale_id"]
        /\ UNCHANGED <<request, last, task, left, queue, writer, wire>>
    BY <1>1, Zenon DEF StaleId, Reply
  <2>2. outgoing'.code = "stale_id" BY <2>1
  <2>3. \A id \in Ids : Waiting(id)' => Waiting(id) BY <2>1, <2>2, Zenon DEF Waiting
  <2> QED BY <2>1, <2>2, <2>3, QuietFlow, Zenon
<1>2. CASE ReadEnd \/ Joined \/ Ended
  <2>1. reader' # "sending" /\ UNCHANGED <<request, last, task, left, queue, writer, wire>>
    BY <1>2, Zenon DEF ReadEnd, Joined, Ended
  <2>2. \A id \in Ids : Waiting(id)' => Waiting(id) BY <2>1, Zenon DEF Waiting
  <2> QED BY <2>1, <2>2, QuietFlow, Zenon
<1>3. CASE ReadError \/ Abort
  <2>1. ReturnError /\ UNCHANGED <<request, last, queue, writer, wire>>
    BY <1>3, Zenon DEF ReadError, Abort
  <2> QED BY <2>1, FailFlow, Zenon
<1>4. CASE WriterEnds
  <2>1. writer' = "done" /\ UNCHANGED <<request, last, reader, outgoing, task, left, queue, wire>>
    BY <1>4, Zenon DEF WriterEnds
  <2>2. \A id \in Ids : Waiting(id)' => Waiting(id) BY <2>1, Zenon DEF Waiting
  <2> QED BY <2>1, <2>2, QuietFlow, Zenon
<1>5. ASSUME NEW i \in Ids, Work(i) PROVE AnswerFlow'
  <2>1. UNCHANGED <<request, last, reader, outgoing, task, left, queue, writer, wire>>
    BY <1>5, Zenon DEF Work
  <2>2. \A id \in Ids : Waiting(id)' => Waiting(id) BY <2>1, Zenon DEF Waiting
  <2> QED BY <2>1, <2>2, QuietFlow, Zenon
<1>6. ASSUME NEW i \in Ids, Timeout(i) PROVE AnswerFlow'
  <2>1. /\ task[i] = "working" /\ task' = [task EXCEPT ![i] = "late"]
        /\ UNCHANGED <<request, last, reader, outgoing, left, queue, writer, wire>>
    BY <1>6, Zenon DEF Timeout
  <2>2. \A id \in Ids : task'[id] = IF id = i THEN "late" ELSE task[id]
    BY <2>1, Zenon DEF ReqInv, TypeOK
  <2>3. \A id \in Ids : Waiting(id)' => Waiting(id) BY <2>1, <2>2, Zenon DEF Waiting
  <2>4. \A id \in Ids : task'[id] = "sending" => task[id] = "sending" BY <2>2, Zenon
  <2> QED BY <2>1, <2>3, <2>4, QuietFlow, Zenon
<1> QED BY <1>1, <1>2, <1>3, <1>4, <1>5, <1>6, Zenon

\* An accepted request has an answer that has not begun; the others are as before.
LEMMA AcceptFlow ==
  ASSUME ReqInv, AnswerFlow, NEW kind \in Kinds, NEW target, Taken(kind, target),
         UNCHANGED <<left, queue, writer, wire>>,
         \A id \in Ids : task'[id] = task[id] \/ (id = last + 1 /\ task'[id] = "working"),
         reader' = "sending" => outgoing'.id = last + 1, Replying'
  PROVE  AnswerFlow'
<1> DEFINE n == last + 1
<1>1. n \in Ids /\ last' = n /\ last \in Nat /\ n > last /\ reader = "reading"
  BY DEF Taken
<1>2. \A id \in Ids : id # n => request'[id] = request[id] BY Zenon DEF Taken
<1>3. request'[n].kind = kind
  <2>1. request'[n] = [kind |-> kind, target |-> target] BY Zenon DEF Taken
  <2> QED BY <2>1
<1>4. \A id \in Ids : (id > n => id > last) /\ (id <= n /\ id # n => id <= last)
  BY <1>1 DEF Ids
<1>5. task[n] = "none" BY Zenon DEF Taken
<1> HIDE DEF n
<1>6. ASSUME NEW id \in Ids, Waiting(id)' PROVE Carried(id, <<>>)'
  <2>1. Waiting(id)
    <3>1. CASE id = n BY <1>1, <3>1, Zenon DEF Waiting
    <3>2. CASE id # n BY <1>1, <1>4, <1>6, <3>2, Zenon DEF Waiting, n
    <3> QED BY <3>1, <3>2, Zenon
  <2>2. Carried(id, <<>>) BY <2>1, Zenon DEF AnswerFlow
  <2> QED BY <2>2, Zenon DEF Carried
<1>7. ASSUME NEW id \in Ids, id <= last' PROVE Fitting(id)'
  <2>1. CASE id = n
    <3>1. Carried(id, <<>>)' BY <1>1, <2>1, Zenon DEF AnswerFlow, Carried, Waiting
    <3>2. Fits(Whole(request'[id].kind), <<>>) BY <1>3, <2>1, WholeTyped, Zenon
    <3>3. <<>> \in Seq(Codes) OBVIOUS
    <3> QED BY <3>1, <3>2, <3>3, Zenon DEF Fitting
  <2>2. CASE id # n
    <3>1. request'[id] = request[id] /\ Fitting(id)
      BY <1>1, <1>2, <1>4, <1>7, <2>2, Zenon DEF AnswerFlow
    <3> QED BY <3>1, Zenon DEF Fitting, Carried
  <2> QED BY <2>1, <2>2, Zenon
<1>8. ASSUME NEW id \in Ids, task'[id] = "sending", writer' = "running" PROVE Completing(id)'
  <2>1. task[id] = "sending" /\ id # n
    <3>1. task'[id] = task[id] BY <1>8, Zenon
    <3> QED BY <1>5, <1>8, <3>1, Zenon
  <2>2. request'[id] = request[id] /\ Completing(id) BY <1>2, <1>8, <2>1, Zenon DEF AnswerFlow
  <2> QED BY <2>2, Zenon DEF Completing, Carried
<1> QED BY <1>6, <1>7, <1>8, Zenon DEF AnswerFlow

\* A reply of one frame fits, and so does the failure sent in its place.
LEMMA ReplyFits ==
  ASSUME NEW E, NEW code \in Codes, <<code>> \in E
  PROVE  Fits(E, <<code>>) /\ Fits(E, <<"oversize">>)
<1>1. PICK rest : rest = <<code>> BY Zenon
<1>2. <<>> \in Seq(Codes) /\ rest \in Seq(Codes) /\ rest # <<>> /\ <<>> \o rest = rest
      /\ Head(rest) = code
  BY <1>1
<1>3. Fits(E, Append(<<>>, Head(rest))) /\ Fits(E, Append(<<>>, "oversize"))
  BY <1>1, <1>2, FitsNext, Zenon
<1>4. Append(<<>>, code) = <<code>> /\ Append(<<>>, "oversize") = <<"oversize">> OBVIOUS
<1> QED BY <1>2, <1>3, <1>4, Zenon

\* The reader accepts a request it answers itself.
LEMMA ReplySteps == ASSUME ReqInv, AnswerFlow, Inline \/ Cancel PROVE AnswerFlow'
<1>1. CASE Inline
  <2>1. Accept("inline", 0) /\ UNCHANGED <<task, left, queue, writer, wire>>
    BY <1>1, Zenon DEF Inline
  <2>2. PICK code \in {"answer", "oversize"} : outgoing' = [id |-> last + 1, code |-> code]
    BY <1>1, Zenon DEF Inline, Reply
  <2>3. "inline" \in Kinds /\ 0 \in 0..MaxRequests BY BoundsAssumption DEF Kinds
  <2>4. Taken("inline", 0) BY <2>1, <2>3, Accepted, Zenon
  <2>5. request'[last + 1].kind = "inline"
    <3>1. request'[last + 1] = [kind |-> "inline", target |-> 0] BY <2>4, Zenon DEF Taken
    <3> QED BY <3>1
  <2>6. outgoing'.id = last + 1 /\ outgoing'.code = code BY <2>2
  <2>7. Replying'
    <3>1. Whole("inline") = {<<"answer">>} BY Zenon DEF Whole
    <3>2. "answer" \in Codes BY Zenon DEF Codes, Terminal
    <3>3. Fits(Whole("inline"), <<"answer">>) /\ Fits(Whole("inline"), <<"oversize">>)
      BY <3>1, <3>2, ReplyFits, Zenon
    <3>4. Fits(Whole("inline"), <<code>>) BY <2>2, <3>3, Zenon
    <3> QED BY <2>5, <2>6, <3>4, Zenon DEF Replying
  <2> QED BY <2>1, <2>3, <2>4, <2>6, <2>7, AcceptFlow, Zenon
<1>2. CASE Cancel
  <2>1. PICK target \in Ids :
          /\ Accept("cancel", target) /\ UNCHANGED <<task, left, queue, writer, wire>>
          /\ \E code \in {"acknowledged", "not_active"} : Reply(last + 1, code)
    BY <1>2, Zenon DEF Cancel
  <2>2. PICK code \in {"acknowledged", "not_active"} : outgoing' = [id |-> last + 1, code |-> code]
    BY <2>1, Zenon DEF Reply
  <2>3. "cancel" \in Kinds /\ target \in 0..MaxRequests BY BoundsAssumption DEF Kinds, Ids
  <2>4. Taken("cancel", target) BY <2>1, <2>3, Accepted, Zenon
  <2>5. request'[last + 1].kind = "cancel"
    <3>1. request'[last + 1] = [kind |-> "cancel", target |-> target] BY <2>4, Zenon DEF Taken
    <3> QED BY <3>1
  <2>6. outgoing'.id = last + 1 /\ outgoing'.code = code BY <2>2
  <2>7. Replying'
    <3>1. Whole("cancel") = {<<"acknowledged">>, <<"not_active">>} BY DEF Whole
    <3>2. code \in Codes BY <2>2, Zenon DEF Codes, Terminal
    <3>3. <<code>> \in Whole("cancel") BY <2>2, <3>1, Zenon
    <3>4. Fits(Whole("cancel"), <<code>>) BY <3>2, <3>3, ReplyFits, Zenon
    <3> QED BY <2>5, <2>6, <3>4, Zenon DEF Replying
  <2> QED BY <2>1, <2>3, <2>4, <2>6, <2>7, AcceptFlow, Zenon
<1> QED BY <1>1, <1>2, Zenon

\* The reader spawns the task of an asynchronous request.
LEMMA SpawnFlow == ASSUME ReqInv, AnswerFlow, Spawn PROVE AnswerFlow'
<1>1. PICK kind \in Asynchronous :
        /\ Accept(kind, 0) /\ task' = [task EXCEPT ![last + 1] = "working"]
        /\ UNCHANGED <<reader, outgoing, left, queue, writer, wire>>
  BY Zenon DEF Spawn
<1>2. kind \in Kinds /\ 0 \in 0..MaxRequests BY BoundsAssumption DEF Kinds
<1>3. Taken(kind, 0) BY <1>1, <1>2, Accepted, Zenon
<1>4. reader' # "sending" BY <1>1, <1>3, Zenon DEF Taken
<1>5. \A id \in Ids : task'[id] = task[id] \/ (id = last + 1 /\ task'[id] = "working")
  BY <1>1, Zenon DEF ReqInv, TypeOK
<1>6. Replying' BY <1>4, Zenon DEF Replying
<1> QED BY <1>1, <1>2, <1>3, <1>4, <1>5, <1>6, AcceptFlow, Zenon

\* No frame of an answer refuses a repeated identifier.
LEMMA NoRefusal ==
  ASSUME NEW kind \in Asynchronous, NEW s \in Seq(Codes), NEW rest \in Seq(Codes), rest # <<>>,
         s \o rest \in Whole(kind)
  PROVE  Head(rest) # "stale_id"
<1>1. PICK answer : answer = s \o rest BY Zenon
<1>2. Head(rest) \in Range(answer)
  <2>1. Len(s) + 1 \in DOMAIN answer /\ answer[Len(s) + 1] = Head(rest) BY <1>1
  <2> QED BY <2>1, Zenon DEF Range
<1>3. Whole(kind) = Answers(kind) \cup {<<error>> : error \in Errors}
  BY DEF Whole, Asynchronous
<1>4. CASE answer \in Answers(kind) BY <1>2, <1>4, AnswerShape, Zenon
<1>5. ASSUME NEW error \in Errors, answer = <<error>> PROVE Head(rest) # "stale_id"
  <2>1. Range(answer) = {error} BY <1>5 DEF Range
  <2>2. "stale_id" \notin Errors BY DEF Errors
  <2> QED BY <1>2, <2>1, <2>2, Zenon
<1> QED BY <1>1, <1>3, <1>4, <1>5, Zenon

\* The reader puts its reply into the channel.
LEMMA SendReplyFlow == ASSUME ReqInv, AnswerFlow, SendReply PROVE AnswerFlow'
<1>1. reader = "sending" /\ UNCHANGED <<request, last, writer, wire>> BY Zenon DEF SendReply
<1>2. CASE ReturnError /\ UNCHANGED queue BY <1>1, <1>2, FailFlow, Zenon
<1>3. CASE /\ Send(outgoing.id, outgoing.code)
           /\ \/ ReturnError
              \/ reader' = "reading" /\ UNCHANGED <<task, left>>
  <2>1. PICK f : f = outgoing BY Zenon
  <2>2. f \in Frames /\ f.id <= last BY <1>1, <2>1, Zenon DEF ReqInv, Started
  <2>3. f = [id |-> f.id, code |-> f.code] BY <2>2 DEF Frames
  <2>4. queue' = Append(queue, f) BY <1>3, <2>1, <2>3, Zenon DEF Send
  <2>5. reader' # "sending"
        /\ \A id \in Ids : \/ task'[id] = task[id] /\ left'[id] = left[id]
                           \/ task'[id] \in {"aborted", "none", "done"}
    BY <1>3, Zenon DEF ReturnError, Alive, ReqInv, TypeOK
  <2>6. TypeOK /\ wire' = wire BY <1>1, Zenon DEF ReqInv
  <2>7. ASSUME NEW id \in Ids, f.id # id \/ f.code = "stale_id", NEW s, Carried(id, s)
        PROVE  Carried(id, s)'
    BY <2>2, <2>4, <2>6, <2>7, SentOther, Zenon
  <2>8. ASSUME f.code # "stale_id"
        PROVE  /\ f.id \in Ids /\ Carried(f.id, <<f.code>>)'
               /\ Fits(Whole(request[f.id].kind), <<f.code>>) /\ task[f.id] = "none"
               /\ f.code \in Codes
    <3>1. f.id \in Ids /\ f.code \in Codes BY <2>2, Zenon DEF Frames
    <3>2. Carried(f.id, <<>>) BY <1>1, <2>1, <2>8, <3>1, Zenon DEF AnswerFlow, Waiting
    <3>3. <<>> \in Seq(Codes) /\ Append(<<>>, f.code) = <<f.code>> BY <3>1
    <3>4. Carried(f.id, Append(<<>>, f.code))'
      BY <2>2, <2>4, <2>6, <2>8, <3>1, <3>2, <3>3, SentOwn, Zenon
    <3>5. request[f.id].kind \in {"inline", "cancel"} /\ Fits(Whole(request[f.id].kind), <<f.code>>)
      BY <1>1, <2>1, <2>8, Zenon DEF AnswerFlow, Replying
    <3>6. request[f.id].kind \notin Asynchronous BY <3>5 DEF Asynchronous
    <3>7. task[f.id] = "none" BY <3>1, <3>6, Zenon DEF ReqInv, Started
    <3> QED BY <3>1, <3>3, <3>4, <3>5, <3>7, Zenon
  <2>9. ASSUME NEW id \in Ids, Waiting(id)' PROVE Carried(id, <<>>)'
    <3>1. id > last \/ task[id] \in {"working", "late"} BY <1>1, <2>5, <2>9, Zenon DEF Waiting
    <3>2. Carried(id, <<>>) BY <3>1, Zenon DEF AnswerFlow, Waiting
    <3>3. f.id # id \/ f.code = "stale_id"
      <4>1. ~(id > last) \/ f.id # id
        <5>1. f.id \in Nat /\ last \in Nat BY <2>2 DEF Frames, Ids, ReqInv, TypeOK
        <5> QED BY <2>2, <5>1
      <4> QED BY <2>8, <3>1, <4>1, Zenon
    <3> QED BY <2>7, <3>2, <3>3, Zenon
  <2>10. ASSUME NEW id \in Ids, id <= last' PROVE Fitting(id)'
    <3>1. CASE f.id = id /\ f.code # "stale_id"
      <4>1. <<f.code>> \in Seq(Codes) BY <2>8, <3>1
      <4> QED BY <1>1, <2>8, <3>1, <4>1, Zenon DEF Fitting
    <3>2. CASE f.id # id \/ f.code = "stale_id"
      <4>1. PICK s \in Seq(Codes) : Carried(id, s) /\ Fits(Whole(request[id].kind), s)
        BY <1>1, <2>10, Zenon DEF AnswerFlow, Fitting
      <4>2. Carried(id, s)' BY <2>7, <3>2, <4>1, Zenon
      <4> QED BY <1>1, <4>1, <4>2, Zenon DEF Fitting
    <3> QED BY <3>1, <3>2, Zenon
  <2>11. ASSUME NEW id \in Ids, task'[id] = "sending", writer' = "running" PROVE Completing(id)'
    <3>1. task[id] = "sending" /\ left'[id] = left[id] BY <2>5, <2>11, Zenon
    <3>2. f.id # id \/ f.code = "stale_id" BY <2>8, <3>1, Zenon
    <3>3. PICK s \in Seq(Codes) : Carried(id, s) /\ s \o left[id] \in Whole(request[id].kind)
      BY <1>1, <2>11, <3>1, Zenon DEF AnswerFlow, Completing
    <3>4. Carried(id, s)' BY <2>7, <3>2, <3>3, Zenon
    <3> QED BY <1>1, <3>1, <3>3, <3>4, Zenon DEF Completing
  <2>12. Replying' BY <2>5, Zenon DEF Replying
  <2> QED BY <2>9, <2>10, <2>11, <2>12, Zenon DEF AnswerFlow
<1> QED BY <1>2, <1>3, Zenon DEF SendReply

\* A task whose worker ended holds a complete answer and has sent nothing of it.
LEMMA JoinFlow == ASSUME ReqInv, AnswerFlow, NEW i \in Ids, Join(i) PROVE AnswerFlow'
<1>1. /\ task[i] \in {"working", "late"} /\ worker[i] # "running"
      /\ task' = [task EXCEPT ![i] = "sending"]
      /\ UNCHANGED <<request, last, reader, outgoing, queue, writer, wire>>
  BY Zenon DEF Join, WorkerReady
<1>2. PICK answer \in IF worker[i] = "ok" THEN Answers(request[i].kind)
                      ELSE {<<IF task[i] = "late" THEN "resource_limit" ELSE worker[i]>>} :
        left' = [left EXCEPT ![i] = answer]
  BY Zenon DEF Join
<1>3. request[i].kind \in Asynchronous /\ worker[i] # "none"
  BY <1>1, Zenon DEF ReqInv, Started
<1>4. answer \in Whole(request[i].kind)
  <2>1. Whole(request[i].kind) = Answers(request[i].kind) \cup {<<error>> : error \in Errors}
    BY <1>3 DEF Whole, Asynchronous
  <2>2. worker[i] = "ok" \/ worker[i] \in Errors BY <1>1, <1>3, Zenon DEF ReqInv, TypeOK
  <2>3. "resource_limit" \in Errors BY Zenon DEF Errors
  <2> QED BY <1>2, <2>1, <2>2, <2>3, Zenon
<1>5. \A id \in Ids : /\ task'[id] = IF id = i THEN "sending" ELSE task[id]
                      /\ left'[id] = IF id = i THEN answer ELSE left[id]
  BY <1>1, <1>2, Zenon DEF ReqInv, TypeOK
<1>6. \A id \in Ids : Waiting(id)' => Waiting(id) BY <1>1, <1>5, Zenon DEF Waiting
<1>7. Completing(i)'
  <2>1. Carried(i, <<>>)' BY <1>1, Zenon DEF AnswerFlow, Waiting, Carried
  <2>2. answer \in Seq(Codes)
    <3>1. request[i].kind \in Kinds BY <1>3, Zenon DEF Kinds
    <3> QED BY <1>4, <3>1, WholeTyped, Zenon
  <2>3. <<>> \in Seq(Codes) /\ <<>> \o answer = answer BY <2>2
  <2>4. <<>> \o left'[i] \in Whole(request'[i].kind) BY <1>1, <1>4, <1>5, <2>3, Zenon
  <2> QED BY <2>1, <2>3, <2>4, Zenon DEF Completing
<1>8. \A id \in Ids : Waiting(id)' => Carried(id, <<>>)'
  BY <1>1, <1>6, Zenon DEF AnswerFlow, Carried
<1>9. \A id \in Ids : id <= last' => Fitting(id)' BY <1>1, Zenon DEF AnswerFlow, Fitting, Carried
<1>10. ASSUME NEW id \in Ids, task'[id] = "sending", writer' = "running" PROVE Completing(id)'
  <2>1. CASE id = i BY <1>7, <2>1, Zenon
  <2>2. CASE id # i
    <3>1. Completing(id) /\ left'[id] = left[id] BY <1>1, <1>5, <1>10, <2>2, Zenon DEF AnswerFlow
    <3> QED BY <1>1, <3>1, Zenon DEF Completing, Carried
  <2> QED BY <2>1, <2>2, Zenon
<1>11. Replying' BY <1>1, Zenon DEF AnswerFlow, Replying
<1> QED BY <1>8, <1>9, <1>10, <1>11, Zenon DEF AnswerFlow

\* A task puts the next frame of its answer, or the failure that replaces it, into the channel.
LEMMA SendAnswerFlow == ASSUME ReqInv, AnswerFlow, NEW i \in Ids, SendAnswer(i) PROVE AnswerFlow'
<1>1. task[i] = "sending" /\ UNCHANGED <<request, last, reader, outgoing, writer, wire>>
  BY Zenon DEF SendAnswer
<1>2. task \in [Ids -> {"none", "working", "late", "sending", "done", "aborted"}]
      /\ left \in [Ids -> Seq(Codes)] /\ TypeOK
  BY Zenon DEF ReqInv, TypeOK
<1>3. CASE ChannelClosed /\ task' = [task EXCEPT ![i] = "done"] /\ left' = [left EXCEPT ![i] = <<>>]
           /\ UNCHANGED queue
  <2>1. writer' # "running" BY <1>1, <1>3, Zenon DEF ChannelClosed
  <2>2. \A id \in Ids : task'[id] = IF id = i THEN "done" ELSE task[id] BY <1>2, <1>3, Zenon
  <2>3. \A id \in Ids : Waiting(id)' => Waiting(id) BY <1>1, <2>2, Zenon DEF Waiting
  <2> QED BY <1>1, <1>3, <2>1, <2>3, QuietFlow, Zenon
<1>4. ASSUME HasRoom, NEW code \in {Head(left[i]), "oversize"}, Send(i, code),
             IF Continues(i, code)
               THEN left' = [left EXCEPT ![i] = Tail(left[i])] /\ UNCHANGED task
               ELSE left' = [left EXCEPT ![i] = <<>>] /\ task' = [task EXCEPT ![i] = "done"]
      PROVE  AnswerFlow'
  <2>1. PICK s \in Seq(Codes) : Carried(i, s) /\ s \o left[i] \in Whole(request[i].kind)
    <3>1. writer = "running" BY <1>4, Zenon DEF HasRoom, ChannelClosed
    <3> QED BY <1>1, <3>1, Zenon DEF AnswerFlow, Completing
  <2>2. PICK rest : rest = left[i] BY Zenon
  <2>3. rest \in Seq(Codes) /\ rest # <<>> BY <1>1, <1>2, <2>2, Zenon DEF ReqInv, Closing
  <2>4. PICK E : E = Whole(request[i].kind) BY Zenon
  <2>5. /\ Fits(E, Append(s, Head(rest))) /\ Fits(E, Append(s, "oversize"))
        /\ Append(s, Head(rest)) \o Tail(rest) = s \o rest
    <3>1. s \o rest \in E BY <2>1, <2>2, <2>4, Zenon
    <3> QED BY <2>3, <3>1, FitsNext, Zenon
  <2>6. PICK f : f = [id |-> i, code |-> code] BY Zenon
  <2>7. code \in Codes /\ code # "stale_id"
    <3>1. "oversize" \in Codes /\ "oversize" # "stale_id" BY Zenon DEF Codes, Terminal
    <3>2. Head(rest) \in Codes BY <2>3
    <3>3. Head(rest) # "stale_id" BY <1>1, <2>1, <2>2, <2>3, NoRefusal, Zenon DEF ReqInv, Started
    <3> QED BY <1>4, <2>2, <3>1, <3>2, <3>3, Zenon
  <2>8. f \in Frames /\ f.id = i /\ f.code = code BY <2>6, <2>7 DEF Frames
  <2>9. queue' = Append(queue, f) BY <1>4, <2>6, Zenon DEF Send
  <2>10. Carried(i, Append(s, code))' BY <1>1, <1>2, <2>1, <2>7, <2>8, <2>9, SentOwn, Zenon
  <2>11. ASSUME NEW id \in Ids, id # i, NEW t, Carried(id, t) PROVE Carried(id, t)'
    BY <1>1, <1>2, <2>8, <2>9, <2>11, SentOther, Zenon
  <2>12. Append(s, code) \in Seq(Codes) BY <2>7
  <2>13. \A id \in Ids : id # i => task'[id] = task[id] /\ left'[id] = left[id]
    BY <1>2, <1>4, Zenon
  <2>14. task'[i] \in {"sending", "done"} BY <1>1, <1>2, <1>4, Zenon
  <2>15. ASSUME NEW id \in Ids, Waiting(id)' PROVE Carried(id, <<>>)'
    <3>1. CASE id # i
      <4>1. Waiting(id) BY <1>1, <2>13, <2>15, <3>1, Zenon DEF Waiting
      <4> QED BY <2>11, <3>1, <4>1, Zenon DEF AnswerFlow
    <3>2. CASE id = i
      <4>1. i <= last /\ request[i].kind \in Asynchronous BY <1>1, Zenon DEF ReqInv, Started
      <4>2. ~(i > last) BY <4>1 DEF Ids, ReqInv, TypeOK
      <4>3. request[i].kind \notin {"inline", "cancel"} BY <4>1 DEF Asynchronous
      <4>4. ~(reader = "sending" /\ outgoing.id = i /\ outgoing.code # "stale_id")
        BY <4>3, Zenon DEF AnswerFlow, Replying
      <4>5. ~Waiting(i)' BY <1>1, <2>14, <4>2, <4>4, Zenon DEF Waiting
      <4> QED BY <2>15, <3>2, <4>5, Zenon
    <3> QED BY <3>1, <3>2, Zenon
  <2>16. ASSUME NEW id \in Ids, id <= last' PROVE Fitting(id)'
    <3>1. CASE id # i
      <4>1. PICK t \in Seq(Codes) : Carried(id, t) /\ Fits(Whole(request[id].kind), t)
        BY <1>1, <2>16, Zenon DEF AnswerFlow, Fitting
      <4>2. Carried(id, t)' BY <2>11, <3>1, <4>1, Zenon
      <4> QED BY <1>1, <4>1, <4>2, Zenon DEF Fitting
    <3>2. CASE id = i
      <4>1. Fits(Whole(request'[i].kind), Append(s, code)) BY <1>1, <1>4, <2>2, <2>4, <2>5, Zenon
      <4> QED BY <2>10, <2>12, <3>2, <4>1, Zenon DEF Fitting
    <3> QED BY <3>1, <3>2, Zenon
  <2>17. ASSUME NEW id \in Ids, task'[id] = "sending", writer' = "running" PROVE Completing(id)'
    <3>1. CASE id # i
      <4>1. task[id] = "sending" /\ left'[id] = left[id] /\ request'[id] = request[id]
        BY <1>1, <2>13, <2>17, <3>1, Zenon
      <4>2. PICK t \in Seq(Codes) : Carried(id, t) /\ t \o left[id] \in Whole(request[id].kind)
        BY <1>1, <2>17, <4>1, Zenon DEF AnswerFlow, Completing
      <4>3. Carried(id, t)' BY <2>11, <3>1, <4>2, Zenon
      <4> QED BY <4>1, <4>2, <4>3, Zenon DEF Completing
    <3>2. CASE id = i
      <4>1. Continues(i, code)
        <5>1. ASSUME ~Continues(i, code) PROVE FALSE
          <6>1. task'[i] = "done" BY <1>2, <1>4, <5>1, Zenon
          <6> QED BY <2>17, <3>2, <6>1, Zenon
        <5> QED BY <5>1, Zenon
      <4>2. code = Head(rest) /\ left'[i] = Tail(rest)
        <5>1. code # "oversize" BY <4>1, Zenon DEF Continues
        <5>2. left' = [left EXCEPT ![i] = Tail(left[i])] BY <1>4, <4>1, Zenon
        <5> QED BY <1>2, <1>4, <2>2, <5>1, <5>2, Zenon
      <4>3. Append(s, code) \o left'[i] \in Whole(request'[i].kind)
        BY <1>1, <2>1, <2>2, <2>5, <4>2, Zenon
      <4> QED BY <2>10, <2>12, <3>2, <4>3, Zenon DEF Completing
    <3> QED BY <3>1, <3>2, Zenon
  <2>18. Replying' BY <1>1, Zenon DEF AnswerFlow, Replying
  <2> QED BY <2>15, <2>16, <2>17, <2>18, Zenon DEF AnswerFlow
<1> QED BY <1>3, <1>4, Zenon DEF SendAnswer

\* The writer moves a frame, or stops and drops the channel.
LEMMA WriteFlow == ASSUME ReqInv, AnswerFlow, WriteFrame \/ WriteError PROVE AnswerFlow'
<1>1. UNCHANGED <<request, last, reader, outgoing, task, left>>
  BY Zenon DEF WriteFrame, WriteError
<1>2. TypeOK /\ <<>> \in Seq(Codes) BY DEF ReqInv
<1>3. \A id \in Ids : Waiting(id)' => Waiting(id) BY <1>1, Zenon DEF Waiting
<1>4. Replying' BY <1>1, Zenon DEF AnswerFlow, Replying
<1>5. CASE WriteFrame
  <2>1. ASSUME NEW id \in Ids, NEW s \in Seq(Codes), Carried(id, s) PROVE Carried(id, s)'
    BY <1>2, <1>5, <2>1, Written, Zenon
  <2>2. \A id \in Ids : Waiting(id)' => Carried(id, <<>>)' BY <1>2, <1>3, <2>1, Zenon DEF AnswerFlow
  <2>3. \A id \in Ids : id <= last' => Fitting(id)' BY <1>1, <2>1, Zenon DEF AnswerFlow, Fitting
  <2>4. \A id \in Ids : task'[id] = "sending" /\ writer' = "running" => Completing(id)'
    <3>1. writer = "running" BY <1>5, Zenon DEF WriteFrame
    <3> QED BY <1>1, <2>1, <3>1, Zenon DEF AnswerFlow, Completing
  <2> QED BY <1>4, <2>2, <2>3, <2>4, Zenon DEF AnswerFlow
<1>6. CASE WriteError
  <2>1. writer' = "failed" /\ queue' = <<>> /\ wire' = wire BY <1>6, Zenon DEF WriteError
  <2>2. ASSUME NEW id \in Ids, NEW s \in Seq(Codes), Carried(id, s)
        PROVE  /\ Carried(id, wire[id])' /\ wire[id] \in Seq(Codes)
               /\ Len(wire[id]) <= Len(s) /\ \A k \in 1..Len(wire[id]) : s[k] = wire[id][k]
    <3>1. PICK w : w = wire[id] BY Zenon
    <3>2. PICK q : q = queue BY Zenon
    <3>3. w \in Seq(Codes) /\ Joins(s, w, q, id)
      BY <1>2, <2>2, <3>1, <3>2, Zenon DEF TypeOK, Carried
    <3>4. Joins(w, w, <<>>, id) /\ Len(w) <= Len(s) /\ \A k \in 1..Len(w) : s[k] = w[k]
      BY <3>3, JoinsDrop
    <3> QED BY <2>1, <3>1, <3>3, <3>4, Zenon DEF Carried
  <2>3. ASSUME NEW id \in Ids, Waiting(id)' PROVE Carried(id, <<>>)'
    <3>1. Carried(id, <<>>) BY <1>3, <2>3, Zenon DEF AnswerFlow
    <3>2. wire[id] = <<>>
      <4>1. PICK w : w = wire[id] BY Zenon
      <4>2. PICK q : q = queue BY Zenon
      <4>3. w \in Seq(Codes) /\ q \in Seq(Frames) /\ Joins(<<>>, w, q, id)
        BY <1>2, <3>1, <4>1, <4>2, Zenon DEF TypeOK, Carried
      <4>4. w = <<>> BY <4>3, JoinsNothing, Zenon
      <4> QED BY <4>1, <4>4, Zenon
    <3>3. Carried(id, wire[id])' BY <1>2, <2>2, <3>1, Zenon
    <3>4. wire'[id] = <<>> BY <2>1, <3>2, Zenon
    <3> QED BY <3>3, <3>4, Zenon
  <2>4. ASSUME NEW id \in Ids, id <= last' PROVE Fitting(id)'
    <3>1. PICK s \in Seq(Codes) : Carried(id, s) /\ Fits(Whole(request[id].kind), s)
      BY <1>1, <2>4, Zenon DEF AnswerFlow, Fitting
    <3>2. PICK w : w = wire[id] BY Zenon
    <3>3. PICK E : E = Whole(request[id].kind) BY Zenon
    <3>4. E \subseteq Seq(Codes)
      <4>1. request[id] \in [kind : Kinds, target : 0..MaxRequests]
        BY <1>1, <2>4, Zenon DEF ReqInv, Started
      <4>2. request[id].kind \in Kinds BY <4>1, Zenon
      <4> QED BY <3>3, <4>2, WholeTyped, Zenon
    <3>5. w \in Seq(Codes) /\ Len(w) <= Len(s) /\ \A k \in 1..Len(w) : s[k] = w[k]
      BY <2>2, <3>1, <3>2, Zenon
    <3>6. Fits(E, w) BY <3>1, <3>3, <3>4, <3>5, FitsPrefix, Zenon
    <3>7. Carried(id, wire[id])' BY <2>2, <3>1, Zenon
    <3>8. wire'[id] = w /\ request'[id] = request[id] BY <1>1, <2>1, <3>2, Zenon
    <3>9. Carried(id, w)' BY <3>7, <3>8, Zenon DEF Carried
    <3> QED BY <3>3, <3>5, <3>6, <3>8, <3>9, Zenon DEF Fitting
  <2> QED BY <1>4, <2>1, <2>3, <2>4, Zenon DEF AnswerFlow
<1> QED BY <1>5, <1>6, Zenon

\* At first nothing was asked and nothing was sent.
LEMMA FlowInit == ASSUME Init PROVE AnswerFlow
<1>1. \A id \in Ids : wire[id] = <<>> BY Zenon DEF Init
<1>2. queue = <<>> BY Zenon DEF Init
<1>3. ASSUME NEW id \in Ids PROVE Carried(id, <<>>)
  <2>1. Places(<<>>, 0, <<>>, id) BY DEF Places
  <2>2. Len(<<>>) = Len(<<>>) + 0 /\ 1..0 = {} OBVIOUS
  <2>3. Len(<<>>) = 0 OBVIOUS
  <2>4. JoinsAt(<<>>, 0, <<>>, <<>>, <<>>, id) BY <2>1, <2>2, <2>3, Zenon DEF JoinsAt
  <2>5. Joins(<<>>, <<>>, <<>>, id) BY <2>4, Zenon DEF Joins
  <2> QED BY <1>1, <1>2, <2>5, Zenon DEF Carried
<1>4. \A id \in Ids : ~(id <= last) BY BoundsAssumption DEF Init, Ids
<1>5. \A id \in Ids : task[id] # "sending" BY DEF Init
<1>6. Replying BY DEF Replying, Init
<1> QED BY <1>3, <1>4, <1>5, <1>6, Zenon DEF AnswerFlow

\* The frames of every answer keep their order on the way to the client, in every
\* reachable state.
LEMMA FlowInvariance == Spec => []AnswerFlow
<1>1. ASSUME ReqInv, AnswerFlow, Next PROVE AnswerFlow'
  <2>1. CASE StaleId \/ ReadEnd \/ ReadError \/ Abort \/ Joined \/ Ended \/ WriterEnds
    BY <1>1, <2>1, QuietSteps, Zenon
  <2>2. CASE Inline \/ Cancel BY <1>1, <2>2, ReplySteps, Zenon
  <2>3. CASE Spawn BY <1>1, <2>3, SpawnFlow, Zenon
  <2>4. CASE SendReply BY <1>1, <2>4, SendReplyFlow, Zenon
  <2>5. ASSUME NEW id \in Ids, Work(id) \/ Timeout(id) PROVE AnswerFlow'
    BY <1>1, <2>5, QuietSteps, Zenon
  <2>6. ASSUME NEW id \in Ids, Join(id) PROVE AnswerFlow' BY <1>1, <2>6, JoinFlow, Zenon
  <2>7. ASSUME NEW id \in Ids, SendAnswer(id) PROVE AnswerFlow' BY <1>1, <2>7, SendAnswerFlow, Zenon
  <2>8. CASE WriteFrame \/ WriteError BY <1>1, <2>8, WriteFlow, Zenon
  <2>9. CASE Over
    <3>1. UNCHANGED vars BY <2>9, Zenon DEF Over
    <3> QED BY <1>1, <3>1, Zenon DEF vars, AnswerFlow, Waiting, Carried, Fitting, Completing, Replying
  <2> QED BY <1>1, <2>1, <2>2, <2>3, <2>4, <2>5, <2>6, <2>7, <2>8, <2>9, Zenon DEF Next
<1>2. ASSUME AnswerFlow, UNCHANGED vars PROVE AnswerFlow'
  BY <1>2, Zenon DEF vars, AnswerFlow, Waiting, Carried, Fitting, Completing, Replying
<1> QED BY <1>1, <1>2, FlowInit, ReqInvariance, PTL DEF Spec

\* What the client has read of a request is always a prefix of one legal answer, or such a
\* prefix cut short by the oversize failure: with any number of tasks sharing a channel of
\* any size, and whenever the connection fails, no frame of an answer overtakes another,
\* none is sent twice and none follows the last (AnswersWellFormed).
THEOREM OrderlyAnswers == Spec => []AnswersWellFormed
<1>1. ASSUME ReqInv, AnswerFlow PROVE AnswersWellFormed
  <2>1. ASSUME NEW id \in 1..last PROVE Legal(id, wire[id])
    <3>1. id \in Ids /\ id <= last BY <1>1, BoundsAssumption DEF ReqInv, TypeOK, Ids
    <3>2. PICK s \in Seq(Codes) : Carried(id, s) /\ Fits(Whole(request[id].kind), s)
      BY <1>1, <3>1, Zenon DEF AnswerFlow, Fitting
    <3>3. PICK w : w = wire[id] BY Zenon
    <3>4. PICK q : q = queue BY Zenon
    <3>5. w \in Seq(Codes) /\ Joins(s, w, q, id)
      BY <1>1, <3>1, <3>2, <3>3, <3>4, Zenon DEF ReqInv, TypeOK, Carried
    <3>6. Len(w) <= Len(s) /\ \A k \in 1..Len(w) : s[k] = w[k] BY <3>1, <3>5, JoinsDrop
    <3>7. PICK E : E = Whole(request[id].kind) BY Zenon
    <3>8. E \subseteq Seq(Codes)
      <4>1. request[id] \in [kind : Kinds, target : 0..MaxRequests]
        BY <1>1, <3>1, Zenon DEF ReqInv, Started
      <4>2. request[id].kind \in Kinds BY <4>1, Zenon
      <4> QED BY <3>7, <4>2, WholeTyped, Zenon
    <3>9. Fits(E, w) BY <3>2, <3>5, <3>6, <3>7, <3>8, FitsPrefix, Zenon
    <3>10. E = Expected(id) BY <3>7, Zenon DEF Whole, Expected
    <3> QED BY <3>3, <3>9, <3>10, Zenon DEF Fits, Legal
  <2> QED BY <2>1, Zenon DEF AnswersWellFormed
<1> QED BY <1>1, FlowInvariance, ReqInvariance, PTL
=============================================================================
