--------------------------- MODULE SessionProofs ---------------------------
(***************************************************************************)
(* The session's promises for any number of connections, Databases, frames *)
(* and statements. The types apart they are not inductive: what a worker   *)
(* executes was fixed by a frame that is long over, so SessInv relates the *)
(* worker to what its client was told (Agreed), the client's view to the   *)
(* session (SeenIsActual), and the bytes received to the next chunk        *)
(* expected (UploadsFollow).                                               *)
(***************************************************************************)
EXTENDS Session, TLAPS

\* What the responses told the client is the state of its session.
SeenIsActual ==
  \A c \in Conns :
    /\ seen[c].database = selected[c]
    /\ transaction[c] # None => seen[c].queue = transaction[c]

\* What a frame executes, as its client expects it and without a guarded statement.
Agreed(n, db, batch) ==
  /\ n <= frames
  /\ expected[n] = [db |-> db, batch |-> batch]
  /\ ~HasStatement(batch, "guarded")

JobsAgreed == \A job \in jobs : Agreed(job.n, job.db, job.batch)

EffectsAgreed ==
  \A effect \in effects :
    /\ effect.kind = "run" => Agreed(effect.n, effect.db, effect.data)
    /\ effect.kind = "restore" => Whole(effect.data)

\* The next chunk follows the last byte.
Extensible(bytes, next) ==
  /\ Contiguous(bytes)
  /\ \A i \in DOMAIN bytes : bytes[i].of <= MaxChunk
  /\ \/ Len(bytes) = 0 /\ next = 0
     \/ Len(bytes) > 0 /\ bytes[Len(bytes)].chunk = next - 1

UploadsFollow ==
  \A c \in Conns : upload[c] # None => Extensible(upload[c].bytes, upload[c].next)

SessInv ==
  /\ TypeOK /\ TransactionHasDatabase /\ SeenIsActual
  /\ JobsAgreed /\ EffectsAgreed /\ UploadsFollow

-----------------------------------------------------------------------------
(* What the steps have in common.                                          *)

\* A frame that takes effect is numbered, and the numbers do not run out.
LEMMA Numbered ==
  ASSUME SessInv, NEW c \in Conns, NEW kind, Frame(c, kind)
  PROVE  /\ frames \in Nat /\ frames' = frames + 1 /\ frames' \in 0..MaxFrames
         /\ Number = frames + 1 /\ Number \in Numbers
         /\ script' = script
BY SessionAssumption DEF SessInv, TypeOK, Frame, Number, Numbers

\* What was agreed stays agreed: only a fresh number gets an expectation.
LEMMA StaysAgreed ==
  ASSUME SessInv, frames' \in {frames, frames + 1},
         \A n \in Numbers : n <= frames => expected'[n] = expected[n]
  PROVE  /\ jobs' \subseteq jobs => JobsAgreed'
         /\ effects' = effects => EffectsAgreed'
<1>1. frames \in Nat BY SessionAssumption DEF SessInv, TypeOK
<1>2. \A n \in Numbers : n \in Nat BY SessionAssumption DEF Numbers
<1>3. \A n \in Numbers : \A db, batch : Agreed(n, db, batch) => Agreed(n, db, batch)'
  BY <1>1, <1>2 DEF Agreed
<1>4. (\A job \in jobs : job.n \in Numbers) /\ (\A effect \in effects : effect.n \in Numbers)
  BY Zenon DEF SessInv, TypeOK, Jobs, Effects
<1>5. ASSUME jobs' \subseteq jobs PROVE JobsAgreed'
  BY <1>3, <1>4, <1>5, Zenon DEF SessInv, JobsAgreed
<1>6. ASSUME effects' = effects PROVE EffectsAgreed'
  BY <1>3, <1>4, <1>6, Zenon DEF SessInv, EffectsAgreed
<1> QED BY <1>5, <1>6, Zenon

\* Steps that leave the Databases, the workers and what they did alone.
LEMMA Private ==
  ASSUME SessInv, NEW c \in Conns, NEW kind, Frame(c, kind),
         UNCHANGED <<shared, jobs, effects, expected>>,
         selected' \in [Conns -> 1..created \cup {None}],
         transaction' \in [Conns -> Seq(Statements) \cup {None}],
         \A d \in Conns : transaction'[d] # None => Len(transaction'[d]) <= MaxStatements,
         upload' \in [Conns -> Uploads \cup {None}],
         \A d \in Conns : upload'[d] # None => Len(upload'[d].bytes) <= upload'[d].total,
         seen' \in [Conns -> Views],
         TransactionHasDatabase', SeenIsActual', UploadsFollow'
  PROVE  SessInv'
<1>1. TypeOK' BY Numbered, Zenon DEF SessInv, TypeOK, shared, Known
<1>2. JobsAgreed' /\ EffectsAgreed' BY Numbered, StaysAgreed, Zenon
<1> QED BY <1>1, <1>2, Zenon DEF SessInv

-----------------------------------------------------------------------------
(* Frames that change the session only.                                    *)

\* The selected identifier is one of the catalog, and the response names it.
LEMMA SelectStep ==
  ASSUME SessInv, NEW c \in Conns, NEW name \in Names, SelectDatabase(c, name) PROVE SessInv'
<1> USE DEF SessInv
<1>1. catalog[name] \in 1..created /\ catalog[name] \in Ids
  BY Zenon DEF SelectDatabase, TypeOK, Known
<1>2. transaction[c] = None BY Zenon DEF SelectDatabase, Frame, ContextKinds
<1>3. /\ selected' = [selected EXCEPT ![c] = catalog[name]]
      /\ seen' = [seen EXCEPT ![c].database = catalog[name]]
      /\ UNCHANGED <<transaction, upload, shared, jobs, effects, expected>>
  BY Zenon DEF SelectDatabase, Sees
<1>4. selected' \in [Conns -> 1..created \cup {None}] BY <1>1, <1>3, Zenon DEF TypeOK
<1>5. seen' \in [Conns -> Views]
  BY <1>1, <1>3, Zenon DEF TypeOK, Views
<1>6. TransactionHasDatabase' BY <1>2, <1>3, Zenon DEF TransactionHasDatabase, TypeOK
<1>7. SeenIsActual' BY <1>2, <1>3 DEF SeenIsActual, TypeOK
<1>8. UploadsFollow' BY <1>3, Zenon DEF UploadsFollow
<1>9. Frame(c, "select") BY Zenon DEF SelectDatabase
<1>10. /\ transaction' \in [Conns -> Seq(Statements) \cup {None}]
       /\ \A d \in Conns : transaction'[d] # None => Len(transaction'[d]) <= MaxStatements
       /\ upload' \in [Conns -> Uploads \cup {None}]
       /\ \A d \in Conns : upload'[d] # None => Len(upload'[d].bytes) <= upload'[d].total
  BY <1>3, Zenon DEF TypeOK
<1> QED BY <1>3, <1>4, <1>5, <1>6, <1>7, <1>8, <1>9, <1>10, Private, Zenon

\* The queue the client knows of is set to the one the session has.
LEMMA QueueStep ==
  ASSUME SessInv, NEW c \in Conns, NEW kind, Frame(c, kind),
         NEW queue \in Seq(Statements) \cup {None}, NEW told \in Seq(Statements),
         transaction' = [transaction EXCEPT ![c] = queue],
         seen' = [seen EXCEPT ![c].queue = told],
         queue # None => queue = told /\ Len(queue) <= MaxStatements /\ selected[c] # None,
         UNCHANGED <<shared, selected, upload, jobs, effects, expected>>
  PROVE  SessInv'
<1> USE DEF SessInv
<1>1. transaction' \in [Conns -> Seq(Statements) \cup {None}] BY Zenon DEF TypeOK
<1>2. \A d \in Conns : transaction'[d] # None => Len(transaction'[d]) <= MaxStatements
  BY Zenon DEF TypeOK
<1>3. seen' \in [Conns -> Views] BY Zenon DEF TypeOK, Views
<1>4. TransactionHasDatabase' BY Zenon DEF TransactionHasDatabase, TypeOK
<1>5. SeenIsActual' BY DEF SeenIsActual, TypeOK
<1>6. UploadsFollow' BY Zenon DEF UploadsFollow
<1> QED BY <1>1, <1>2, <1>3, <1>4, <1>5, <1>6, Private, Zenon DEF TypeOK, shared

\* A begin starts an empty queue on the selected Database.
LEMMA BeginStep == ASSUME SessInv, NEW c \in Conns, Begin(c) PROVE SessInv'
<1>1. /\ Frame(c, "begin") /\ selected[c] # None
      /\ transaction' = [transaction EXCEPT ![c] = <<>>]
      /\ seen' = [seen EXCEPT ![c].queue = <<>>]
      /\ UNCHANGED <<shared, selected, upload, jobs, effects, expected>>
  BY Zenon DEF Begin, Sees
<1>2. <<>> \in Seq(Statements) /\ Len(<<>>) <= MaxStatements BY SessionAssumption
<1> QED BY <1>1, <1>2, QueueStep, Zenon

\* A rollback drops the queue.
LEMMA RollbackStep == ASSUME SessInv, NEW c \in Conns, Rollback(c) PROVE SessInv'
<1>1. /\ Frame(c, "rollback")
      /\ transaction' = [transaction EXCEPT ![c] = None]
      /\ seen' = [seen EXCEPT ![c].queue = <<>>]
      /\ UNCHANGED <<shared, selected, upload, jobs, effects, expected>>
  BY Zenon DEF Rollback, Sees
<1>2. <<>> \in Seq(Statements) OBVIOUS
<1> QED BY <1>1, <1>2, QueueStep, Zenon

\* A queued statement is acknowledged as queued.
LEMMA QueueStatementStep ==
  ASSUME SessInv, NEW c \in Conns, NEW does \in {"permitted", "guarded"}, QueueStatement(c, does)
  PROVE  SessInv'
<1> DEFINE statement == [n |-> Number, does |-> does]
<1> DEFINE queue == Append(transaction[c], statement)
<1>1. /\ Frame(c, "query") /\ selected[c] # None
      /\ transaction[c] \in Seq(Statements) /\ transaction[c] = seen[c].queue
      /\ Len(transaction[c]) < MaxStatements
      /\ transaction' = [transaction EXCEPT ![c] = Append(@, statement)]
      /\ seen' = [seen EXCEPT ![c].queue = Append(seen[c].queue, statement)]
      /\ UNCHANGED <<shared, selected, upload, jobs, effects, expected>>
  BY Zenon DEF QueueStatement, Sees, HasCapacity, SessInv, TypeOK, SeenIsActual
<1>2. statement \in Statements BY <1>1, Numbered, Zenon DEF Statements
<1>3. queue \in Seq(Statements) /\ Len(queue) <= MaxStatements
  BY <1>1, <1>2, SessionAssumption
<1>4. /\ transaction' = [transaction EXCEPT ![c] = queue]
      /\ seen' = [seen EXCEPT ![c].queue = queue]
  BY <1>1, Zenon
<1> HIDE DEF queue
<1> QED BY <1>1, <1>3, <1>4, QueueStep, Zenon

-----------------------------------------------------------------------------
(* Snapshot uploads.                                                       *)

\* A frame that sets the upload of its connection.
LEMMA UploadStep ==
  ASSUME SessInv, NEW c \in Conns, NEW kind, Frame(c, kind),
         NEW value \in Uploads \cup {None}, upload' = [upload EXCEPT ![c] = value],
         value # None =>
           Len(value.bytes) <= value.total /\ Extensible(value.bytes, value.next),
         UNCHANGED <<shared, selected, transaction, jobs, effects, seen, expected>>
  PROVE  SessInv'
<1> USE DEF SessInv
<1>1. upload' \in [Conns -> Uploads \cup {None}] BY Zenon DEF TypeOK
<1>2. \A d \in Conns : upload'[d] # None => Len(upload'[d].bytes) <= upload'[d].total
  BY Zenon DEF TypeOK
<1>3. TransactionHasDatabase' /\ SeenIsActual' BY Zenon DEF TransactionHasDatabase, SeenIsActual
<1>4. UploadsFollow' BY Zenon DEF UploadsFollow, TypeOK
<1> QED BY <1>1, <1>2, <1>3, <1>4, Private, Zenon DEF TypeOK, shared

\* An upload starts empty, at chunk zero.
LEMMA RestoreBeginStep ==
  ASSUME SessInv, NEW c \in Conns, NEW name \in Names, NEW total \in 0..MaxSnapshotBytes + 1,
         RestoreBegin(c, name, total)
  PROVE  SessInv'
<1> DEFINE value == SnapshotUpload(name, total, 0, <<>>)
<1>1. total \in 1..MaxSnapshotBytes BY SessionAssumption DEF RestoreBegin
<1>2. value \in Uploads BY <1>1 DEF Uploads, SnapshotUpload
<1>3. Len(value.bytes) = 0 /\ value.next = 0 /\ Len(value.bytes) <= value.total
  BY <1>1 DEF SnapshotUpload
<1>4. Extensible(value.bytes, value.next) BY <1>3 DEF Extensible, Contiguous, SnapshotUpload
<1>5. /\ Frame(c, "restore_begin") /\ upload' = [upload EXCEPT ![c] = value]
      /\ UNCHANGED <<shared, selected, transaction, jobs, effects, seen, expected>>
  BY Zenon DEF RestoreBegin
<1> HIDE DEF value
<1> QED BY <1>2, <1>3, <1>4, <1>5, UploadStep, Zenon

\* An aborted upload is forgotten.
LEMMA RestoreAbortStep == ASSUME SessInv, NEW c \in Conns, RestoreAbort(c) PROVE SessInv'
BY UploadStep, Zenon DEF RestoreAbort

\* The bytes of a chunk, one after the other.
LEMMA ChunkBytes ==
  ASSUME NEW next \in Nat, NEW size \in Nat \ {0}
  PROVE  /\ Chunk(next, size) \in Seq(Bytes) /\ Len(Chunk(next, size)) = size
         /\ \A k \in 1..size :
              Chunk(next, size)[k] = [chunk |-> next, at |-> k, of |-> size]
<1>1. \A k \in 1..size : [chunk |-> next, at |-> k, of |-> size] \in Bytes BY DEF Bytes
<1> QED BY <1>1 DEF Chunk

\* What a concatenation consists of.
LEMMA Concatenated ==
  ASSUME NEW S, NEW s \in Seq(S), NEW t \in Seq(S)
  PROVE  /\ s \o t \in Seq(S) /\ Len(s \o t) = Len(s) + Len(t)
         /\ DOMAIN (s \o t) = 1..(Len(s) + Len(t))
         /\ \A i \in 1..Len(s) : (s \o t)[i] = s[i]
         /\ \A i \in Len(s) + 1..Len(s) + Len(t) : (s \o t)[i] = t[i - Len(s)]
OBVIOUS

\* A chunk with the next number extends contiguous bytes by all of its own.
LEMMA Extended ==
  ASSUME NEW bytes \in Seq(Bytes), NEW next \in Nat, NEW size \in Nat \ {0},
         size <= MaxChunk, Extensible(bytes, next),
         NEW more, more = bytes \o Chunk(next, size)
  PROVE  /\ more \in Seq(Bytes) /\ Len(more) = Len(bytes) + size
         /\ Extensible(more, next + 1)
<1> DEFINE chunk == Chunk(next, size)
<1> DEFINE len == Len(bytes)
<1> DEFINE byte(k) == [chunk |-> next, at |-> k, of |-> size]
<1>1. /\ chunk \in Seq(Bytes) /\ Len(chunk) = size
      /\ \A k \in 1..size : chunk[k] = byte(k)
  BY ChunkBytes, Zenon
<1>2. len \in Nat /\ DOMAIN bytes = 1..len /\ \A i \in 1..len : bytes[i] \in Bytes
  OBVIOUS
<1> HIDE DEF chunk
<1>3. /\ more \in Seq(Bytes) /\ Len(more) = len + size /\ DOMAIN more = 1..(len + size)
      /\ \A i \in 1..len : more[i] = bytes[i]
      /\ \A i \in len + 1..len + size : more[i] = chunk[i - len]
  <2>1. more = bytes \o chunk BY Zenon DEF chunk
  <2> HIDE DEF len
  <2>2. bytes \in Seq(Bytes) /\ chunk \in Seq(Bytes) BY <1>1, Zenon
  <2>3. /\ bytes \o chunk \in Seq(Bytes) /\ Len(bytes \o chunk) = Len(bytes) + Len(chunk)
        /\ DOMAIN (bytes \o chunk) = 1..(Len(bytes) + Len(chunk))
        /\ \A i \in 1..Len(bytes) : (bytes \o chunk)[i] = bytes[i]
        /\ \A i \in Len(bytes) + 1..Len(bytes) + Len(chunk) :
             (bytes \o chunk)[i] = chunk[i - Len(bytes)]
    BY ONLY <2>2, Concatenated, Zenon
  <2>4. len = Len(bytes) /\ size = Len(chunk) BY <1>1, Zenon DEF len
  <2> QED BY ONLY <2>1, <2>3, <2>4, Zenon
<1>a. \A i \in DOMAIN bytes :
        /\ IF i = 1 THEN bytes[i].chunk = 0 /\ bytes[i].at = 1
                    ELSE Follows(bytes[i - 1], bytes[i])
        /\ i = len => bytes[i].at = bytes[i].of
        /\ bytes[i].of <= MaxChunk
  BY Zenon DEF Extensible, Contiguous
<1>b. \/ len = 0 /\ next = 0
      \/ len > 0 /\ bytes[len].chunk = next - 1
  BY Zenon DEF Extensible
<1> HIDE DEF len
<1>4. ASSUME NEW i \in len + 1..len + size PROVE i - len \in 1..size /\ more[i] = byte(i - len)
  <2>1. i - len \in 1..size BY <1>2
  <2> QED BY <1>1, <1>3, <2>1, Zenon
<1>5. ASSUME NEW k \in Nat
      PROVE  byte(k).chunk = next /\ byte(k).at = k /\ byte(k).of = size
  OBVIOUS
<1> DEFINE Good(i) == /\ IF i = 1 THEN more[i].chunk = 0 /\ more[i].at = 1
                                  ELSE Follows(more[i - 1], more[i])
                      /\ i = len + size => more[i].at = more[i].of
                      /\ more[i].of <= MaxChunk
<1>6. ASSUME NEW i \in 1..(len + size) PROVE Good(i)
  <2>1. CASE i <= len
    <3>1. i \in 1..len /\ i # len + size BY <1>2, <2>1
    <3>2. more[i] = bytes[i] BY <3>1, <1>3, Zenon
    <3>3. i # 1 => i - 1 \in 1..len BY <3>1, <1>2
    <3>4. i # 1 => more[i - 1] = bytes[i - 1] BY <3>3, <1>3, Zenon
    <3> QED BY <1>2, <1>a, <3>1, <3>2, <3>4, Zenon
  <2>2. CASE i > len
    <3>1. i \in len + 1..len + size /\ i - len \in Nat /\ (i = len + size => i - len = size)
      BY <1>2, <2>2
    <3>2. more[i] = byte(i - len) BY <3>1, <1>4, Zenon
    <3>3. more[i].chunk = next /\ more[i].at = i - len /\ more[i].of = size
      BY <3>1, <3>2, <1>5, Zenon
    <3>4. CASE i = len + 1
      <4>1. i - len = 1 BY <1>2, <3>4
      <4>2. CASE len = 0
        <5>1. i = 1 /\ next = 0 BY <1>b, <3>4, <4>2
        <5> QED BY <3>1, <3>3, <4>1, <5>1, Zenon
      <4>3. CASE len > 0
        <5>1. i # 1 /\ i - 1 = len /\ len \in 1..len BY <1>2, <3>4, <4>3
        <5>2. more[i - 1] = bytes[len] BY <5>1, <1>3, Zenon
        <5>3. bytes[len].at = bytes[len].of /\ bytes[len] \in Bytes
          BY <5>1, <1>2, <1>a, Zenon
        <5>4. bytes[len].chunk = next - 1 BY <1>b, <4>3
        <5>5. ~(bytes[len].at < bytes[len].of) /\ bytes[len].chunk + 1 = next
          BY <5>3, <5>4 DEF Bytes
        <5>6. Follows(more[i - 1], more[i])
          BY <3>3, <4>1, <5>2, <5>5, Zenon DEF Follows
        <5> QED BY <3>1, <3>3, <5>1, <5>6, Zenon
      <4>4. len = 0 \/ len > 0 BY <1>2
      <4> QED BY <4>2, <4>3, <4>4, Zenon
    <3>5. CASE i # len + 1
      <4>1. /\ i - 1 \in len + 1..len + size /\ (i - 1) - len \in Nat /\ i # 1
            /\ ((i - 1) - len) + 1 = i - len /\ (i - 1) - len < size
        BY <1>2, <3>1, <3>5
      <4>2. more[i - 1] = byte((i - 1) - len) BY <4>1, <1>4, Zenon
      <4>3. /\ more[i - 1].at < more[i - 1].of
            /\ [more[i - 1] EXCEPT !.at = @ + 1] = byte(((i - 1) - len) + 1)
        BY <4>1, <4>2
      <4>4. Follows(more[i - 1], more[i]) BY <3>2, <4>1, <4>3, Zenon DEF Follows
      <4> QED BY <3>1, <3>3, <4>1, <4>4, Zenon
    <3> QED BY <3>4, <3>5, Zenon
  <2>3. i <= len \/ i > len BY <1>2
  <2> QED BY <2>1, <2>2, <2>3, Zenon
<1>7. Contiguous(more) /\ \A i \in DOMAIN more : more[i].of <= MaxChunk
  BY <1>3, <1>6, Zenon DEF Contiguous
<1>8. Len(more) > 0 /\ more[Len(more)].chunk = (next + 1) - 1
  <2>1. /\ len + size \in len + 1..len + size /\ len + size > 0 /\ (next + 1) - 1 = next
        /\ (len + size) - len \in Nat
    BY <1>2
  <2>2. more[len + size] = byte((len + size) - len) BY <1>4, <2>1, Zenon
  <2>3. byte((len + size) - len).chunk = next BY <1>5, <2>1, Zenon
  <2> QED BY <1>3, <2>1, <2>2, <2>3, Zenon
<1> QED BY <1>3, <1>7, <1>8, Zenon DEF Extensible, len

\* An accepted chunk extends the upload contiguously.
LEMMA RestoreChunkStep ==
  ASSUME SessInv, NEW c \in Conns, NEW sequence \in 0..MaxSnapshotBytes,
         NEW size \in 0..MaxChunk + 1, RestoreChunk(c, sequence, size)
  PROVE  SessInv'
<1> DEFINE bytes == upload[c].bytes \o Chunk(sequence, size)
<1> DEFINE value == SnapshotUpload(upload[c].database, upload[c].total, upload[c].next + 1, bytes)
<1>1. /\ upload[c] \in Uploads /\ sequence = upload[c].next
      /\ upload[c].bytes \in Seq(Bytes) /\ Extensible(upload[c].bytes, sequence)
  <2>1. upload[c] \in Uploads /\ sequence = upload[c].next
    BY Zenon DEF RestoreChunk, IsNext, SessInv, TypeOK
  <2>2. Extensible(upload[c].bytes, upload[c].next)
    BY Zenon DEF RestoreChunk, SessInv, UploadsFollow
  <2>3. upload[c].bytes \in Seq(Bytes) BY <2>1, Zenon DEF Uploads
  <2> QED BY <2>1, <2>2, <2>3, Zenon
<1>2. size \in Nat \ {0} /\ size <= MaxChunk /\ sequence \in Nat
  BY SessionAssumption DEF RestoreChunk
<1>3. /\ Frame(c, "restore_chunk") /\ Len(bytes) <= upload[c].total
      /\ upload' = [upload EXCEPT ![c] = value]
      /\ UNCHANGED <<shared, selected, transaction, jobs, effects, seen, expected>>
  BY Zenon DEF RestoreChunk
<1>4. bytes \in Seq(Bytes) /\ Extensible(bytes, sequence + 1)
  BY <1>1, <1>2, Extended, Zenon
<1> HIDE DEF bytes
<1>5. /\ value \in Uploads /\ value.bytes = bytes /\ value.next = sequence + 1
      /\ value.total = upload[c].total
  <2>1. upload[c].database \in Names /\ upload[c].total \in 1..MaxSnapshotBytes
    BY <1>1, Zenon DEF Uploads
  <2>2. upload[c].next + 1 \in Nat /\ upload[c].next + 1 = sequence + 1 BY <1>1, <1>2
  <2> QED BY <1>4, <2>1, <2>2, Zenon DEF Uploads, SnapshotUpload
<1> HIDE DEF value
<1> QED BY <1>3, <1>4, <1>5, UploadStep, Zenon

-----------------------------------------------------------------------------
(* Frames that execute.                                                    *)

\* A worker is started with statements the client expects, on the Database it expects.
LEMMA SpawnStep ==
  ASSUME SessInv, NEW c \in Conns, NEW kind, Frame(c, kind), NEW batch \in Seq(Statements),
         selected[c] # None, Spawn(c, batch), Expects(batch, c), ~HasStatement(batch, "guarded"),
         UNCHANGED effects
  PROVE  /\ jobs' \subseteq Jobs
         /\ expected' \in [Numbers -> Expectations \cup {None}]
         /\ JobsAgreed' /\ EffectsAgreed'
<1>0. PICK job : job = [n |-> Number, db |-> selected[c], batch |-> batch, step |-> "lookup"]
  BY Zenon
<1>1. /\ frames \in Nat /\ frames' = frames + 1 /\ Number = frames + 1 /\ Number \in Numbers
      /\ selected[c] \in Ids /\ seen[c].database = selected[c]
  BY Numbered, SessionAssumption, Zenon DEF SessInv, TypeOK, SeenIsActual, Ids, Views
<1>2. jobs' = jobs \cup {job} BY <1>0, Zenon DEF Spawn
<1>3. expected' = [expected EXCEPT ![Number] = [db |-> selected[c], batch |-> batch]]
  BY <1>1, Zenon DEF Expects
<1>4. \A n \in Numbers : n <= frames => expected'[n] = expected[n]
  BY <1>1, <1>3, SessionAssumption DEF SessInv, TypeOK, Numbers
<1>5. Agreed(job.n, job.db, job.batch)' BY <1>0, <1>1, <1>3 DEF Agreed, SessInv, TypeOK
<1>6. EffectsAgreed' BY <1>1, <1>4, StaysAgreed, Zenon
<1>7. \A n \in Numbers : \A db, b : Agreed(n, db, b) => Agreed(n, db, b)'
  BY <1>1, <1>4, SessionAssumption DEF Agreed, Numbers
<1>8. ASSUME NEW j \in jobs PROVE Agreed(j.n, j.db, j.batch)'
  BY <1>7, Zenon DEF SessInv, TypeOK, JobsAgreed, Jobs
<1>9. JobsAgreed' BY <1>2, <1>5, <1>8, Zenon DEF JobsAgreed
<1>10. job \in Jobs
  BY <1>0, <1>1, Zenon DEF Jobs
<1>11. expected' \in [Numbers -> Expectations \cup {None}]
  BY <1>1, <1>3, Zenon DEF SessInv, TypeOK, Expectations
<1> QED BY <1>2, <1>6, <1>9, <1>10, <1>11, Zenon DEF SessInv, TypeOK

\* A statement outside a transaction is executed alone.
LEMMA ExecuteStep ==
  ASSUME SessInv, NEW c \in Conns, NEW does \in {"permitted", "guarded"},
         ExecuteStatement(c, does)
  PROVE  SessInv'
<1> DEFINE statement == [n |-> Number, does |-> does]
<1>1. /\ Frame(c, "query") /\ selected[c] # None /\ does = "permitted"
      /\ Spawn(c, <<statement>>) /\ Expects(<<statement>>, c)
      /\ UNCHANGED <<shared, session, effects, seen>>
  BY Zenon DEF ExecuteStatement
<1>2. statement \in Statements BY <1>1, Numbered, Zenon DEF Statements
<1>3. <<statement>> \in Seq(Statements) BY <1>2
<1>4. ~HasStatement(<<statement>>, "guarded") BY <1>1 DEF HasStatement
<1> HIDE DEF statement
<1>5. /\ jobs' \subseteq Jobs
      /\ expected' \in [Numbers -> Expectations \cup {None}]
      /\ JobsAgreed' /\ EffectsAgreed'
  BY <1>1, <1>3, <1>4, SpawnStep, Zenon
<1>6. script' = script /\ frames' \in 0..MaxFrames BY <1>1, Numbered, Zenon
<1>7. TypeOK' BY <1>1, <1>5, <1>6, Zenon DEF SessInv, TypeOK, Known, shared, session
<1>8. TransactionHasDatabase' /\ SeenIsActual' /\ UploadsFollow'
  BY <1>1, Zenon DEF SessInv, TransactionHasDatabase, SeenIsActual, UploadsFollow, session
<1> QED BY <1>5, <1>7, <1>8, Zenon DEF SessInv

\* A commit passes on the queue the client was told of, or drops it.
LEMMA CommitStep == ASSUME SessInv, NEW c \in Conns, Commit(c) PROVE SessInv'
<1>1. /\ Frame(c, "commit")
      /\ transaction' = [transaction EXCEPT ![c] = None]
      /\ seen' = [seen EXCEPT ![c].queue = <<>>]
      /\ UNCHANGED <<shared, selected, upload, effects>>
  BY Zenon DEF Commit, Sees
<1>2. /\ transaction[c] \in Seq(Statements) /\ seen[c].queue = transaction[c]
      /\ selected[c] # None
  BY Zenon DEF Commit, SessInv, TypeOK, SeenIsActual, TransactionHasDatabase
<1>3. <<>> \in Seq(Statements) OBVIOUS
<1>4. CASE UNCHANGED <<jobs, expected>> BY <1>1, <1>3, <1>4, QueueStep, Zenon
<1>5. CASE PassesReadOnly(transaction[c])
  <2>1. Spawn(c, transaction[c]) /\ Expects(transaction[c], c) BY <1>2, <1>5, Zenon DEF Commit
  <2>2. /\ jobs' \subseteq Jobs
        /\ expected' \in [Numbers -> Expectations \cup {None}]
        /\ JobsAgreed' /\ EffectsAgreed'
    BY <1>1, <1>2, <1>5, <2>1, SpawnStep, Zenon DEF PassesReadOnly
  <2>3. script' = script /\ frames' \in 0..MaxFrames BY <1>1, Numbered, Zenon
  <2>4. /\ transaction' \in [Conns -> Seq(Statements) \cup {None}]
        /\ \A d \in Conns : transaction'[d] # None => Len(transaction'[d]) <= MaxStatements
        /\ seen' \in [Conns -> Views]
    BY <1>1, <1>3, Zenon DEF SessInv, TypeOK, Views
  <2>5. TypeOK'
    <3>1. Known' = Known BY <1>1, Zenon DEF Known, shared
    <3> QED BY <1>1, <2>2, <2>3, <2>4, <3>1, Zenon DEF SessInv, TypeOK, shared
  <2>6. TransactionHasDatabase' /\ SeenIsActual'
    BY <1>1 DEF SessInv, TypeOK, TransactionHasDatabase, SeenIsActual
  <2>7. UploadsFollow' BY <1>1, Zenon DEF SessInv, UploadsFollow
  <2> QED BY <2>2, <2>5, <2>6, <2>7, Zenon DEF SessInv
<1> QED BY <1>2, <1>4, <1>5, Zenon DEF Commit

-----------------------------------------------------------------------------
(* Lifecycle frames and replacements.                                      *)

\* A change of the catalog and the handles that no session notices.
LEMMA SharedStep ==
  ASSUME SessInv, NEW c \in Conns, NEW kind, Frame(c, kind),
         catalog' \in [Names -> Ids \cup {None}], created' \in 0..MaxDatabases,
         created <= created', open' \subseteq registered', registered' \subseteq Known',
         Known' \subseteq 1..created', UNCHANGED <<session, jobs, effects, seen, expected>>
  PROVE  SessInv'
<1>1. script' = script /\ frames' \in 0..MaxFrames /\ frames' = frames + 1 BY Numbered, Zenon
<1>2. 1..created \subseteq 1..created' BY SessionAssumption DEF SessInv, TypeOK
<1>3. selected' \in [Conns -> 1..created' \cup {None}]
  BY <1>2, Zenon DEF SessInv, TypeOK, session
<1>4. TypeOK' BY <1>1, <1>3, Zenon DEF SessInv, TypeOK, session
<1>5. JobsAgreed' /\ EffectsAgreed' BY <1>1, StaysAgreed, Zenon
<1>6. TransactionHasDatabase' /\ SeenIsActual' /\ UploadsFollow'
  BY Zenon DEF SessInv, TransactionHasDatabase, SeenIsActual, UploadsFollow, session
<1> QED BY <1>4, <1>5, <1>6, Zenon DEF SessInv

\* A created Database has a fresh identifier.
LEMMA CreateStep ==
  ASSUME SessInv, NEW c \in Conns, NEW name \in Names, CreateDatabase(c, name) PROVE SessInv'
<1>1. /\ catalog \in [Names -> Ids \cup {None}] /\ catalog[name] = None
      /\ created \in Nat /\ created < MaxDatabases /\ created' = created + 1
      /\ catalog' = [catalog EXCEPT ![name] = created + 1]
      /\ open' = open \cup {created + 1} /\ registered' = registered \cup {created + 1}
      /\ open \subseteq registered /\ registered \subseteq Known /\ Known \subseteq 1..created
  BY SessionAssumption DEF CreateDatabase, SessInv, TypeOK
<1>2. created + 1 \in Ids /\ created + 1 # None /\ created' \in 0..MaxDatabases
  BY <1>1, SessionAssumption DEF Ids
<1>3. catalog' \in [Names -> Ids \cup {None}] BY <1>1, <1>2, Zenon
<1>4. Known' = Known \cup {created + 1} BY <1>1, <1>2, Zenon DEF Known
<1>5. Known' \subseteq 1..created' /\ created <= created' BY <1>1, <1>4
<1>6. Frame(c, "create") /\ UNCHANGED <<session, jobs, effects, seen, expected>>
  BY Zenon DEF CreateDatabase
<1> QED BY <1>1, <1>2, <1>3, <1>4, <1>5, <1>6, SharedStep, Zenon

\* A rename moves an identifier to another name.
LEMMA RenameStep ==
  ASSUME SessInv, NEW c \in Conns, NEW name \in Names, NEW newName \in Names,
         RenameDatabase(c, name, newName)
  PROVE  SessInv'
<1>1. /\ catalog \in [Names -> Ids \cup {None}] /\ catalog[newName] = None /\ catalog[name] # None
      /\ catalog' = [catalog EXCEPT ![newName] = catalog[name], ![name] = None]
      /\ created \in 0..MaxDatabases /\ UNCHANGED <<created, registered, open>>
      /\ open \subseteq registered /\ registered \subseteq Known /\ Known \subseteq 1..created
  BY Zenon DEF RenameDatabase, SessInv, TypeOK
<1>2. catalog' \in [Names -> Ids \cup {None}] BY <1>1, Zenon
<1>3. Known' = Known
  <2>1. catalog'[newName] = catalog[name] /\ catalog'[name] = None BY <1>1, Zenon
  <2>2. \A other \in Names \ {name, newName} : catalog'[other] = catalog[other] BY <1>1, Zenon
  <2> QED BY <1>1, <2>1, <2>2 DEF Known
<1>4. created <= created' BY <1>1
<1>5. Frame(c, "rename") /\ UNCHANGED <<session, jobs, effects, seen, expected>>
  BY Zenon DEF RenameDatabase
<1> QED BY <1>1, <1>2, <1>3, <1>4, <1>5, SharedStep, Zenon

\* The handle of a dropped Database is closed with its entry or before.
LEMMA DropStep ==
  ASSUME SessInv, NEW c \in Conns, NEW name \in Names, DropDatabase(c, name) PROVE SessInv'
<1> DEFINE db == catalog[name]
<1>1. /\ Frame(c, "drop") /\ db \in open
      /\ registered' = registered \ {db} /\ open' = open \ {db}
      /\ catalog' = catalog \/ catalog' = [catalog EXCEPT ![name] = None]
      /\ UNCHANGED <<created, upload, jobs, effects, expected>>
  BY Zenon DEF DropDatabase, Closes
<1>2. /\ catalog \in [Names -> Ids \cup {None}] /\ created \in 0..MaxDatabases
      /\ open \subseteq registered /\ registered \subseteq Known /\ Known \subseteq 1..created
  BY Zenon DEF SessInv, TypeOK
<1>3. catalog' \in [Names -> Ids \cup {None}] BY <1>1, <1>2, Zenon
<1>4. Known \ {db} \subseteq Known' /\ Known' \subseteq Known BY <1>1, <1>2, Zenon DEF Known
<1>5. open' \subseteq registered' /\ registered' \subseteq Known' /\ Known' \subseteq 1..created'
  BY <1>1, <1>2, <1>4, Zenon
<1>6. CASE UNCHANGED <<selected, transaction, seen>>
  BY <1>1, <1>2, <1>3, <1>5, <1>6, SharedStep, SessionAssumption DEF session
<1>7. CASE /\ selected' = [selected EXCEPT ![c] = None]
           /\ transaction' = [transaction EXCEPT ![c] = None]
           /\ seen' = [seen EXCEPT ![c] = [database |-> None, queue |-> <<>>]]
  <2> HIDE DEF db
  <2>1. script' = script /\ frames' \in 0..MaxFrames /\ frames' = frames + 1
    BY <1>1, Numbered, Zenon
  <2>2. selected' \in [Conns -> 1..created \cup {None}] BY <1>7, Zenon DEF SessInv, TypeOK
  <2>3. /\ transaction' \in [Conns -> Seq(Statements) \cup {None}]
        /\ \A d \in Conns : transaction'[d] # None => Len(transaction'[d]) <= MaxStatements
    BY <1>7, Zenon DEF SessInv, TypeOK
  <2>4. seen' \in [Conns -> Views]
    BY <1>7 DEF SessInv, TypeOK, Views
  <2>5. TypeOK' BY <1>1, <1>2, <1>3, <1>5, <2>1, <2>2, <2>3, <2>4, Zenon DEF SessInv, TypeOK
  <2>6. JobsAgreed' /\ EffectsAgreed' BY <1>1, <2>1, StaysAgreed, Zenon
  <2>7. TransactionHasDatabase' BY <1>7, Zenon DEF SessInv, TypeOK, TransactionHasDatabase
  <2>8. SeenIsActual' BY <1>7, Zenon DEF SessInv, TypeOK, SeenIsActual
  <2>9. UploadsFollow' BY <1>1, Zenon DEF SessInv, UploadsFollow
  <2> QED BY <2>5, <2>6, <2>7, <2>8, <2>9, Zenon DEF SessInv
<1> QED BY <1>6, <1>7, Zenon DEF DropDatabase

\* A whole upload or an import replaces a Database, or nothing happens to it.
LEMMA ReplaceStep ==
  ASSUME SessInv, NEW c \in Conns, NEW kind, Frame(c, kind), NEW name \in Names,
         NEW what \in {"restore", "import"}, NEW data, Replace(name, what, data),
         IF what = "restore" THEN data \in Uploads /\ Whole(data) ELSE data = None,
         upload' = upload \/ upload' = [upload EXCEPT ![c] = None],
         UNCHANGED <<catalog, created, registered, selected, transaction, jobs, seen, expected>>
  PROVE  SessInv'
<1>1. script' = script /\ frames' \in 0..MaxFrames /\ frames' = frames + 1
      /\ Number \in Numbers
  BY Numbered, Zenon
<1>2. JobsAgreed' BY <1>1, StaysAgreed, Zenon
<1>3. TransactionHasDatabase' /\ SeenIsActual'
  BY Zenon DEF SessInv, TransactionHasDatabase, SeenIsActual
<1>4. UploadsFollow' BY Zenon DEF SessInv, TypeOK, UploadsFollow
<1>5. /\ upload' \in [Conns -> Uploads \cup {None}]
      /\ \A d \in Conns : upload'[d] # None => Len(upload'[d].bytes) <= upload'[d].total
  BY Zenon DEF SessInv, TypeOK
<1>6. ASSUME effects' = effects, open' \subseteq open PROVE SessInv'
  <2>1. TypeOK'
    <3>1. Known' = Known BY Zenon DEF Known
    <3> QED BY <1>1, <1>5, <1>6, <3>1, Zenon DEF SessInv, TypeOK
  <2>2. EffectsAgreed' BY <1>1, <1>6, StaysAgreed, Zenon
  <2> QED BY <1>2, <1>3, <1>4, <2>1, <2>2, Zenon DEF SessInv
<1>7. ASSUME NEW effect, effect = [n |-> Number, db |-> catalog[name], kind |-> what,
                                   data |-> data],
             catalog[name] \in open, effects' = effects \cup {effect}, open' = open
      PROVE  SessInv'
  <2>0. open \subseteq 1..created /\ created \in 0..MaxDatabases BY Zenon DEF SessInv, TypeOK
  <2>1. catalog[name] \in Ids
    <3>1. catalog[name] \in 1..created BY <1>7, <2>0, Zenon
    <3>2. created \in Nat /\ created <= MaxDatabases /\ MaxDatabases \in Nat
      BY <2>0, SessionAssumption
    <3> QED BY <3>1, <3>2 DEF Ids
  <2>2. effect \in Effects(effect.kind)
    <3>1. CASE what = "restore" BY <1>1, <1>7, <2>1, <3>1 DEF Effects
    <3>2. CASE what = "import" BY <1>1, <1>7, <2>1, <3>2 DEF Effects
    <3> QED BY <3>1, <3>2, Zenon
  <2>3. TypeOK'
    <3>1. Known' = Known BY Zenon DEF Known
    <3> QED BY <1>1, <1>5, <1>7, <2>2, <3>1, Zenon DEF SessInv, TypeOK
  <2>4. \A n \in Numbers : \A db, b : Agreed(n, db, b) => Agreed(n, db, b)'
    BY <1>1, SessionAssumption DEF Agreed, Numbers, SessInv, TypeOK
  <2>5. ASSUME NEW e \in effects
        PROVE  /\ e.kind = "run" => Agreed(e.n, e.db, e.data)'
               /\ e.kind = "restore" => Whole(e.data)
    BY <2>4, Zenon DEF SessInv, TypeOK, EffectsAgreed, Effects
  <2>6. effect.kind # "run" /\ (effect.kind = "restore" => Whole(effect.data)) BY <1>7, Zenon
  <2>7. EffectsAgreed' BY <1>7, <2>5, <2>6, Zenon DEF EffectsAgreed
  <2> QED BY <1>2, <1>3, <1>4, <2>3, <2>7, Zenon DEF SessInv
<1> QED BY <1>6, <1>7, Zenon DEF Replace

\* A complete upload is taken.
LEMMA RestoreCommitStep == ASSUME SessInv, NEW c \in Conns, RestoreCommit(c) PROVE SessInv'
<1>1. /\ upload[c] \in Uploads /\ Len(upload[c].bytes) = upload[c].total
      /\ Extensible(upload[c].bytes, upload[c].next)
  BY Zenon DEF RestoreCommit, SessInv, TypeOK, UploadsFollow
<1>2. upload[c].database \in Names /\ upload[c].total \in 1..MaxSnapshotBytes
  BY <1>1, Zenon DEF Uploads
<1>3. Whole(upload[c]) BY <1>1, <1>2, Zenon DEF Whole, Extensible
<1> QED BY <1>1, <1>2, <1>3, ReplaceStep, Zenon DEF RestoreCommit

\* A logical import replaces a Database by content of its own.
LEMMA ImportStep ==
  ASSUME SessInv, NEW c \in Conns, NEW name \in Names, LogicalImport(c, name) PROVE SessInv'
BY ReplaceStep, Zenon DEF LogicalImport, session

-----------------------------------------------------------------------------
(* Workers, and the end of a connection.                                   *)

\* A worker moves on or gives up; what it executes does not change on the way.
LEMMA AdvanceStep ==
  ASSUME SessInv, NEW job \in jobs, NEW step \in {"handle", "run"},
         Advance(job, step) \/ jobs' = jobs \ {job},
         UNCHANGED <<script, frames, shared, session, effects, seen, expected>>
  PROVE  SessInv'
<1>0. PICK moved : moved = [job EXCEPT !.step = step] BY Zenon
<1>1. job \in Jobs
  BY Zenon DEF SessInv, TypeOK
<1>2. /\ moved \in Jobs
      /\ moved.n = job.n /\ moved.db = job.db /\ moved.batch = job.batch
  BY <1>0, <1>1, Zenon DEF Jobs
<1>3. jobs' \subseteq jobs \cup {moved} BY <1>0, Zenon DEF Advance
<1>4. TypeOK' BY <1>2, <1>3 DEF SessInv, TypeOK, shared, session, Known
<1>5. \A n, db, batch : Agreed(n, db, batch)' = Agreed(n, db, batch) BY Zenon DEF Agreed
<1>6. JobsAgreed' BY <1>2, <1>3, <1>5, Zenon DEF SessInv, JobsAgreed
<1>7. EffectsAgreed' BY <1>5, Zenon DEF SessInv, EffectsAgreed
<1>8. TransactionHasDatabase' /\ SeenIsActual' /\ UploadsFollow'
  BY Zenon DEF SessInv, TransactionHasDatabase, SeenIsActual, UploadsFollow, session
<1> QED BY <1>4, <1>6, <1>7, <1>8, Zenon DEF SessInv

\* What is applied is what the worker was started with.
LEMMA RunStep == ASSUME SessInv, NEW job \in jobs, Run(job) PROVE SessInv'
<1>0. PICK effect : effect = [n |-> job.n, db |-> job.db, kind |-> "run", data |-> job.batch]
  BY Zenon
<1>1. /\ jobs' = jobs \ {job} /\ effects' \subseteq effects \cup {effect}
      /\ UNCHANGED <<script, frames, shared, session, seen, expected>>
  BY <1>0, Zenon DEF Run
<1>2. /\ effect.n = job.n /\ effect.db = job.db /\ effect.data = job.batch /\ effect.kind = "run"
      /\ effect \in Effects(effect.kind)
  BY <1>0, Zenon DEF SessInv, TypeOK, Jobs, Effects
<1>3. TypeOK' BY <1>1, <1>2 DEF SessInv, TypeOK, shared, session, Known
<1>4. \A n, db, batch : Agreed(n, db, batch)' = Agreed(n, db, batch) BY <1>1, Zenon DEF Agreed
<1>5. JobsAgreed' BY <1>1, <1>4, Zenon DEF SessInv, JobsAgreed
<1>6. Agreed(effect.n, effect.db, effect.data)' BY <1>2, <1>4, Zenon DEF SessInv, JobsAgreed
<1>7. EffectsAgreed' BY <1>1, <1>2, <1>4, <1>6, Zenon DEF SessInv, EffectsAgreed
<1>8. TransactionHasDatabase' /\ SeenIsActual' /\ UploadsFollow'
  BY <1>1, Zenon DEF SessInv, TransactionHasDatabase, SeenIsActual, UploadsFollow, session
<1> QED BY <1>3, <1>5, <1>7, <1>8, Zenon DEF SessInv

\* A connection that closes takes its session with it and nothing else.
LEMMA CloseStep == ASSUME SessInv, NEW c \in Conns, Close(c) PROVE SessInv'
<1>1. /\ script' = [script EXCEPT ![c] = {}]
      /\ selected' = [selected EXCEPT ![c] = None]
      /\ transaction' = [transaction EXCEPT ![c] = None]
      /\ upload' = [upload EXCEPT ![c] = None]
      /\ seen' = [seen EXCEPT ![c] = [database |-> None, queue |-> <<>>]]
      /\ UNCHANGED <<frames, shared, jobs, effects, expected>>
  BY Zenon DEF Close
<1>2. script' \in [Conns -> SUBSET Kinds] /\ selected' \in [Conns -> 1..created \cup {None}]
  BY <1>1, Zenon DEF SessInv, TypeOK
<1>3. /\ transaction' \in [Conns -> Seq(Statements) \cup {None}]
      /\ \A d \in Conns : transaction'[d] # None => Len(transaction'[d]) <= MaxStatements
  BY <1>1, Zenon DEF SessInv, TypeOK
<1>4. /\ upload' \in [Conns -> Uploads \cup {None}]
      /\ \A d \in Conns : upload'[d] # None => Len(upload'[d].bytes) <= upload'[d].total
  BY <1>1, Zenon DEF SessInv, TypeOK
<1>5. seen' \in [Conns -> Views]
  <2>1. <<>> \in Seq(Statements) OBVIOUS
  <2>2. [database |-> None, queue |-> <<>>] \in Views BY <2>1, Zenon DEF Views
  <2> QED BY <1>1, <2>2, Zenon DEF SessInv, TypeOK
<1>6. TypeOK'
  <2>1. Known' = Known BY <1>1, Zenon DEF Known, shared
  <2> QED BY <1>1, <1>2, <1>3, <1>4, <1>5, <2>1, Zenon DEF SessInv, TypeOK, shared
<1>7. JobsAgreed' /\ EffectsAgreed' BY <1>1, StaysAgreed, Zenon
<1>8. TransactionHasDatabase' BY <1>1, Zenon DEF SessInv, TypeOK, TransactionHasDatabase
<1>9. SeenIsActual' BY <1>1, Zenon DEF SessInv, TypeOK, SeenIsActual
<1>10. UploadsFollow' BY <1>1, Zenon DEF SessInv, TypeOK, UploadsFollow
<1> QED BY <1>6, <1>7, <1>8, <1>9, <1>10, Zenon DEF SessInv

\* No client has been told anything yet.
LEMMA StartsAgreed == Init => SessInv
<1> SUFFICES ASSUME Init PROVE SessInv BY Zenon
<1>1. 1 \in Ids /\ 1 # None /\ 1..created = {1} BY SessionAssumption DEF Init, Ids
<1>2. PICK name \in Names : catalog = [other \in Names |-> IF other = name THEN 1 ELSE None]
  BY Zenon DEF Init
<1>3. catalog \in [Names -> Ids \cup {None}] /\ Known = {1} BY <1>1, <1>2, Zenon DEF Known
<1>4. <<>> \in Seq(Statements) OBVIOUS
<1>5. TypeOK BY <1>1, <1>3, <1>4, SessionAssumption DEF TypeOK, Init, Views
<1>6. TransactionHasDatabase /\ SeenIsActual /\ UploadsFollow /\ JobsAgreed /\ EffectsAgreed
  BY Zenon
  DEF Init, TransactionHasDatabase, SeenIsActual, UploadsFollow, JobsAgreed, EffectsAgreed
<1> QED BY <1>5, <1>6, Zenon DEF SessInv

\* Every frame, worker step and close preserves the invariant.
LEMMA SessionStep == SessInv /\ [Next]_vars => SessInv'
<1> SUFFICES ASSUME SessInv, [Next]_vars PROVE SessInv' BY Zenon
<1>1. CASE UNCHANGED vars
  <2>1. UNCHANGED <<script, frames, shared, session, jobs, effects, seen, expected>>
    BY <1>1, Zenon DEF vars
  <2>2. TypeOK' BY <2>1, Zenon DEF SessInv, TypeOK, shared, session, Known
  <2>3. JobsAgreed' /\ EffectsAgreed' BY <2>1, StaysAgreed, Zenon
  <2>4. TransactionHasDatabase' /\ SeenIsActual' /\ UploadsFollow'
    BY <2>1, Zenon DEF SessInv, TransactionHasDatabase, SeenIsActual, UploadsFollow, session
  <2> QED BY <2>2, <2>3, <2>4, Zenon DEF SessInv
<1>2. ASSUME NEW c \in Conns, Dispatch(c) PROVE SessInv'
  <2>1. CASE \E name \in Names : SelectDatabase(c, name) \/ CreateDatabase(c, name)
                                 \/ DropDatabase(c, name) \/ LogicalImport(c, name)
    BY <2>1, SelectStep, CreateStep, DropStep, ImportStep, Zenon
  <2>2. CASE \E name, newName \in Names : RenameDatabase(c, name, newName)
    BY <2>2, RenameStep, Zenon
  <2>3. CASE \E does \in {"permitted", "guarded"} :
               QueueStatement(c, does) \/ ExecuteStatement(c, does)
    BY <2>3, QueueStatementStep, ExecuteStep, Zenon
  <2>4. CASE \E name \in Names, total \in 0..MaxSnapshotBytes + 1 : RestoreBegin(c, name, total)
    BY <2>4, RestoreBeginStep, Zenon
  <2>5. CASE \E sequence \in 0..MaxSnapshotBytes, size \in 0..MaxChunk + 1 :
               RestoreChunk(c, sequence, size)
    BY <2>5, RestoreChunkStep, Zenon
  <2>6. CASE Begin(c) \/ Commit(c) \/ Rollback(c) \/ RestoreCommit(c) \/ RestoreAbort(c)
    BY <2>6, BeginStep, CommitStep, RollbackStep, RestoreCommitStep, RestoreAbortStep, Zenon
  <2> QED BY <1>2, <2>1, <2>2, <2>3, <2>4, <2>5, <2>6, Zenon DEF Dispatch
<1>3. ASSUME NEW job \in jobs, Lookup(job) PROVE SessInv'
  BY <1>3, AdvanceStep, Zenon DEF Lookup
<1>4. ASSUME NEW job \in jobs, Handle(job) PROVE SessInv'
  BY <1>4, AdvanceStep, Zenon DEF Handle
<1> QED BY <1>1, <1>2, <1>3, <1>4, RunStep, CloseStep, Zenon DEF Next

\* The invariant holds whatever the connections send.
LEMMA SessionInvariance == Spec => []SessInv
BY StartsAgreed, SessionStep, PTL DEF Spec

-----------------------------------------------------------------------------
(* Theorems.                                                               *)

\* Types and limits: queues keep to max_transaction_statements, uploads to their
\* declared size, and open handles belong to Databases of the catalog.
THEOREM SessionTypes == Spec => []TypeOK
<1>1. SessInv => TypeOK BY Zenon DEF SessInv
<1> QED BY <1>1, SessionInvariance, PTL

\* A queued transaction always has a Database to be committed to, for any number
\* of connections that select, drop and rename under each other.
THEOREM CommitFindsDatabase == Spec => []TransactionHasDatabase
<1>1. SessInv => TransactionHasDatabase BY Zenon DEF SessInv
<1> QED BY <1>1, SessionInvariance, PTL

\* A frame executes what its client was told it would, on the Database it was
\* told it had selected.
THEOREM AcknowledgedIsExecuted == Spec => []ExecutesWhatWasAcknowledged
<1>1. SessInv => ExecutesWhatWasAcknowledged
  BY Zenon DEF SessInv, EffectsAgreed, Agreed, ExecutesWhatWasAcknowledged
<1> QED BY <1>1, SessionInvariance, PTL

\* A mutating statement marked read_only has no effect, queued or not.
THEOREM ReadOnlyHolds == Spec => []ReadOnlyNeverMutates
<1>1. SessInv => ReadOnlyNeverMutates
  BY Zenon DEF SessInv, EffectsAgreed, Agreed, ReadOnlyNeverMutates
<1> QED BY <1>1, SessionInvariance, PTL

\* A snapshot replaces a Database only whole: every chunk from number zero, complete,
\* in order and once, as many bytes as were declared, and within the two size limits.
THEOREM WholeSnapshots == Spec => []UploadsContiguous
<1>1. SessInv => UploadsContiguous BY Zenon DEF SessInv, EffectsAgreed, UploadsContiguous
<1> QED BY <1>1, SessionInvariance, PTL

\* Nothing is applied to a Database that has left the catalog: only Run and
\* Replace apply anything, both to an open handle, and open handles are of
\* Databases in the catalog.
THEOREM DroppedIsLeftAlone == Spec => DroppedStaysUntouched
<1>1. SessInv => open \subseteq Known BY Zenon DEF SessInv, TypeOK
<1>2. ASSUME open \subseteq Known, [Next]_vars, NEW effect \in effects' \ effects
      PROVE  effect.db \in Known
  <2>1. CASE UNCHANGED effects BY <1>2, <2>1, Zenon
  <2>2. ASSUME NEW name \in Names, NEW kind, NEW data, Replace(name, kind, data)
        PROVE  effect.db \in Known
    BY <1>2, <2>2 DEF Replace
  <2>3. ASSUME NEW job \in jobs, Run(job) PROVE effect.db \in Known
    BY <1>2, <2>3 DEF Run
  <2>4. ASSUME NEW c \in Conns, RestoreCommit(c) PROVE effect.db \in Known
    BY <1>2, <2>4 DEF RestoreCommit, Replace
  <2>5. ASSUME NEW c \in Conns, NEW name \in Names, LogicalImport(c, name) PROVE effect.db \in Known
    BY <2>2, <2>5, Zenon DEF LogicalImport
  <2>6. CASE UNCHANGED vars BY <2>1, <2>6, Zenon DEF vars
  <2>7. ASSUME NEW c \in Conns, Close(c) PROVE effect.db \in Known
    BY <2>1, <2>7, Zenon DEF Close
  <2>8. ASSUME NEW job \in jobs, Lookup(job) \/ Handle(job) PROVE effect.db \in Known
    BY <2>1, <2>8, Zenon DEF Lookup, Handle
  <2>9. ASSUME NEW c \in Conns, Dispatch(c) PROVE effect.db \in Known
    BY <2>1, <2>4, <2>5, <2>9, Zenon
    DEF Dispatch, SelectDatabase, CreateDatabase, DropDatabase, RenameDatabase, QueueStatement,
        ExecuteStatement, Begin, Commit, Rollback, RestoreBegin, RestoreChunk, RestoreAbort
  <2> QED BY <1>2, <2>3, <2>6, <2>7, <2>8, <2>9, Zenon DEF Next
<1>3. SessInv /\ [Next]_vars => [\A effect \in effects' \ effects : effect.db \in Known]_vars
  BY <1>1, <1>2, Zenon
<1> QED BY <1>3, SessionInvariance, PTL DEF Spec, DroppedStaysUntouched
============================================================================
