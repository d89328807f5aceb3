-------------------------- MODULE HttpServerProofs --------------------------
(***************************************************************************)
(* Proofs about HttpServer.  The invariant says, for every request, which  *)
(* step its worker can be at (Control), where the files of a restore are   *)
(* at that step (Placed), which batch, queue or discarded queue has a      *)
(* statement (Owned), that what is in a file was put there by a worker     *)
(* that reported no error (Applied), that transactions stay in one piece   *)
(* on their way from queue to batch to file (Unbroken), that what          *)
(* succeeded is kept (Kept), and where it is while nothing has failed      *)
(* (Harmless).                                                             *)
(***************************************************************************)
EXTENDS HttpServer, TLAPS

-----------------------------------------------------------------------------
(* The inductive invariant.                                                 *)

Locked == {"preserve", "install", "open", "cleanup", "remove_target", "undo", "reopen"}
RestoreSteps == {"prepare", "take"} \cup Locked

\* The statements in a file.
In(f) == IF f = Absent THEN {} ELSE Range(f.data)

Types ==
    /\ target \in Files \cup {Absent}
    /\ temporary \in [Requests -> Files \cup {Absent}]
    /\ backup \in [Requests -> Files \cup {Absent}]
    /\ opened \in BOOLEAN /\ up \in BOOLEAN /\ cut \in BOOLEAN
    /\ lock \in Requests \cup {Nobody}
    /\ transaction \in [SessionIds -> Seq(Requests) \cup {None}]
    /\ last \in 0..MaxRequests
    /\ kind \in [Requests -> {"none", "write", "queued", "restore"}]
    /\ batch \in [Requests -> Seq(Requests)]
    /\ pc \in [Requests -> {"done", "execute"} \cup RestoreSteps]
    /\ outcome \in [Requests -> {"none", "ok", "failed", "cancelled", "refused",
                                 "internal_error"}]
    /\ answer \in [Requests -> {"none", "ok", "failed", "query_timeout", "refused",
                                "internal_error", "queued"}]
    /\ tx \in [Requests -> 0..MaxRequests]
    /\ faults \in Nat

\* Which steps the worker of a request can be at, and what it has returned.
ControlOf(n) ==
    /\ kind[n] = "none" <=> n > last
    /\ kind[n] = "none" => outcome[n] = "none" /\ answer[n] = "none"
    /\ pc[n] = "execute" => kind[n] = "write"
    /\ pc[n] \in RestoreSteps => kind[n] = "restore"
    /\ pc[n] # "done" => up /\ outcome[n] = "none" /\ answer[n] = "none"
    /\ outcome[n] # "none" => answer[n] = "none"
    /\ "refused" \in {outcome[n], answer[n]} => kind[n] = "restore"
    /\ pc[n] \in Locked <=> lock = n

Control == \A n \in Requests : ControlOf(n)

\* The files at each step of a restore.
PlacedOf(n) ==
    /\ pc[n] \in {"take", "preserve", "install"} => temporary[n] = File(<<n>>, TRUE)
    /\ kind[n] # "restore" \/ pc[n] \in {"prepare", "take", "preserve"} => backup[n] = Absent
    /\ pc[n] = "preserve" => target # Absent
    /\ pc[n] = "install" => target = Absent
    /\ pc[n] \in {"install", "open", "cleanup", "remove_target", "undo"} => backup[n] # Absent
    /\ pc[n] \in {"open", "cleanup", "remove_target"} => target = File(<<n>>, TRUE)
    /\ pc[n] = "undo" => target \in {Absent, File(<<n>>, TRUE)}
    /\ pc[n] = "cleanup" => opened /\ In(backup[n]) \subseteq superseded
    /\ pc[n] \in Locked \ {"cleanup"} => ~opened
    /\ backup[n] # Absent => backup[n].checked

Placed ==
    /\ \A n \in Requests : PlacedOf(n)
    /\ opened => target # Absent
    /\ target # Absent => target.checked

\* A statement is in one batch, in one queue or discarded.
Owned ==
    /\ \A w \in Requests : \A m \in Range(batch[w]) :
          /\ kind[w] = "write" /\ kind[m] \in {"write", "queued"}
          /\ m \notin discarded
          /\ \A v \in Requests : m \in Range(batch[v]) => v = w
    /\ \A s \in SessionIds : \A m \in Queued(s) :
          /\ kind[m] = "queued" /\ m \notin discarded
          /\ \A w \in Requests : m \notin Range(batch[w])
          /\ \A t \in SessionIds : m \in Queued(t) => t = s
    /\ \A m \in discarded : m \in Requests /\ kind[m] = "queued"

\* What is in a file was put there by a worker that did not report an error.
AppliedOf(m) ==
    /\ kind[m] # "none" /\ m \notin discarded
    /\ \A s \in SessionIds : m \notin Queued(s)
    /\ pc[m] \notin {"prepare", "take", "preserve", "install"}
    /\ "refused" \notin {outcome[m], answer[m]}
    /\ \A w \in Requests : m \in Range(batch[w]) =>
          pc[w] = "done" /\ {outcome[w], answer[w]} \subseteq {"none", "ok"}

Applied == \A m \in Written : AppliedOf(m)

\* The statements of the transaction of n, where t gives the first one of each.
Mates(t, n) == {m \in Requests : t[n] # 0 /\ t[m] = t[n]}

\* A sequence in which every transaction is complete, in order and in one piece.
Whole(t, q) ==
    \A i \in DOMAIN q :
       /\ \A j \in DOMAIN q : q[j] = q[i] => j = i
       /\ Mates(t, q[i]) \subseteq Range(q)
       /\ t[q[i]] \notin {0, q[i]} => i > 1 /\ t[q[i - 1]] = t[q[i]] /\ q[i - 1] < q[i]

\* Files, batches and queues hold whole transactions, a queue one.
OneTransaction(t, q) == Whole(t, q) /\ \A i \in DOMAIN q : t[q[i]] = q[1]

Unbroken ==
    /\ \A f \in Stored : Whole(tx, f.data)
    /\ \A w \in Requests : Whole(tx, batch[w])
    /\ \A s \in SessionIds : transaction[s] # None => OneTransaction(tx, transaction[s])
    /\ \A n \in Requests : tx[n] # 0 =>
          kind[n] = "queued" /\ tx[n] \in Requests /\ kind[tx[n]] = "queued"

\* What a request that succeeded has put into the Database.
Effect(w) == IF kind[w] = "restore" THEN {w} ELSE Range(batch[w])

Holds(S) == \A w \in Requests : "ok" \in {outcome[w], answer[w]} => Effect(w) \subseteq S

Kept == Holds(superseded \cup Written)

\* Where the Database is while nothing has failed.
Live == IF lock # Nobody /\ pc[lock] \in {"install", "open"}
        THEN In(backup[lock]) ELSE In(target)

\* The mutex is free only over an open Database, which has what succeeded.
Steady ==
    /\ \A n \in Requests : pc[n] \notin {"remove_target", "undo", "reopen"}
    /\ up /\ lock = Nobody => opened
    /\ lock = Nobody => target # Absent
    /\ Holds(superseded \cup Live)

Harmless == faults = 0 /\ ~cut => Steady

HttpInv ==
    /\ Types /\ Control /\ Placed /\ Owned /\ Applied /\ Unbroken /\ Kept /\ Harmless

-----------------------------------------------------------------------------
(* Sequences and files.                                                     *)

\* What a concatenation holds.
LEMMA RangeConcat ==
  ASSUME NEW a \in Seq(Requests), NEW b \in Seq(Requests)
  PROVE  /\ a \o b \in Seq(Requests)
         /\ Range(a \o b) = Range(a) \cup Range(b)
<1>1. \A i \in DOMAIN a : i \in DOMAIN (a \o b) /\ (a \o b)[i] = a[i] OBVIOUS
<1>2. \A i \in DOMAIN b : Len(a) + i \in DOMAIN (a \o b) /\ (a \o b)[Len(a) + i] = b[i] OBVIOUS
<1>3. \A i \in DOMAIN (a \o b) : \/ i \in DOMAIN a /\ (a \o b)[i] = a[i]
                                 \/ i - Len(a) \in DOMAIN b /\ (a \o b)[i] = b[i - Len(a)]
  OBVIOUS
<1>4. a \o b \in Seq(Requests) OBVIOUS
<1>5. Range(a) \subseteq Range(a \o b) BY <1>1, Zenon DEF Range
<1>6. Range(b) \subseteq Range(a \o b) BY <1>2, Zenon DEF Range
<1>7. Range(a \o b) \subseteq Range(a) \cup Range(b)
  <2> SUFFICES ASSUME NEW i \in DOMAIN (a \o b) PROVE (a \o b)[i] \in Range(a) \cup Range(b)
    BY Zenon DEF Range
  <2> QED BY <1>3, Zenon DEF Range
<1> QED BY <1>4, <1>5, <1>6, <1>7, Zenon

\* What short sequences hold.
LEMMA RangeShort ==
  /\ Range(<<>>) = {} /\ \A n \in Requests : Range(<<n>>) = {n} /\ <<n>> \in Seq(Requests)
BY DEF Range

\* What a sequence of requests holds.
LEMMA RangeType ==
  ASSUME NEW a \in Seq(Requests)
  PROVE  Range(a) \subseteq Requests
BY DEF Range

\* Append puts one more element at the end.
LEMMA RangeAppend ==
  ASSUME NEW a \in Seq(Requests), NEW n \in Requests
  PROVE  /\ Append(a, n) \in Seq(Requests)
         /\ Range(Append(a, n)) = Range(a) \cup {n}
<1>1. /\ \A i \in DOMAIN a : i \in DOMAIN Append(a, n) /\ Append(a, n)[i] = a[i]
      /\ Len(a) + 1 \in DOMAIN Append(a, n) /\ Append(a, n)[Len(a) + 1] = n
      /\ DOMAIN Append(a, n) = (DOMAIN a) \cup {Len(a) + 1}
  OBVIOUS
<1>2. Append(a, n) \in Seq(Requests) OBVIOUS
<1>3. Range(Append(a, n)) = Range(a) \cup {n} BY <1>1 DEF Range
<1> QED BY <1>2, <1>3, Zenon

\* What is written, place by place.
LEMMA WrittenIs ==
  ASSUME Types
  PROVE  /\ Written \subseteq Requests
         /\ \A m : m \in Written <=> m \in In(target) \/ \E n \in Requests : m \in In(backup[n])
<1>1. \A f \in Files : Range(f.data) \subseteq Requests BY RangeType DEF Files
<1>2. Range(backup) = {backup[n] : n \in Requests} BY Zenon DEF Range, Types
<1>3. \A m : m \in Written <=> m \in In(target) \/ \E n \in Requests : m \in In(backup[n])
  BY <1>2, Zenon DEF Written, Stored, In
<1>4. \A f \in Files \cup {Absent} : In(f) \subseteq Requests BY <1>1, Zenon DEF In
<1>5. Written \subseteq Requests BY <1>3, <1>4, Zenon DEF Types
<1> QED BY <1>3, <1>5, Zenon

\* Complete transactions one after the other are complete.
LEMMA WholeConcat ==
  ASSUME NEW t, NEW a \in Seq(Requests), NEW b \in Seq(Requests), Whole(t, a), Whole(t, b),
         Range(a) \cap Range(b) = {}
  PROVE  Whole(t, a \o b)
<1> DEFINE c == a \o b
<1>0. c \in Seq(Requests) /\ Len(c) = Len(a) + Len(b) OBVIOUS
<1>1. \A i \in DOMAIN a : i \in DOMAIN c /\ c[i] = a[i] OBVIOUS
<1>2. \A i \in DOMAIN c : ~(i \in DOMAIN a) =>
         /\ i - Len(a) \in DOMAIN b /\ c[i] = b[i - Len(a)]
         /\ i - Len(a) > 1 => i - 1 \in DOMAIN c /\ c[i - 1] = b[i - Len(a) - 1]
  OBVIOUS
<1>3. \A i \in DOMAIN a : a[i] \in Range(a) BY Zenon DEF Range
<1>4. \A i \in DOMAIN b : b[i] \in Range(b) BY Zenon DEF Range
<1>5. Range(c) = Range(a) \cup Range(b) BY RangeConcat, Zenon
<1>6. \A i \in DOMAIN c, j \in DOMAIN c : i - Len(a) = j - Len(a) => i = j BY <1>0
<1>7. ASSUME NEW i \in DOMAIN c, i \in DOMAIN a
      PROVE  /\ \A j \in DOMAIN c : c[j] = c[i] => j = i
             /\ Mates(t, c[i]) \subseteq Range(c)
             /\ t[c[i]] \notin {0, c[i]} => i > 1 /\ t[c[i - 1]] = t[c[i]] /\ c[i - 1] < c[i]
  <2>1. \A j \in DOMAIN c : c[j] = c[i] => j = i
    <3> SUFFICES ASSUME NEW j \in DOMAIN c, c[j] = c[i] PROVE j = i BY Zenon
    <3>1. CASE j \in DOMAIN a BY <3>1, <1>1, <1>7, Zenon DEF Whole
    <3>2. CASE ~(j \in DOMAIN a) BY <3>2, <1>1, <1>2, <1>3, <1>4, <1>7, Zenon
    <3> QED BY <3>1, <3>2, Zenon
  <2>2. Mates(t, c[i]) \subseteq Range(c) BY <1>1, <1>5, <1>7, Zenon DEF Whole
  <2>3. i > 1 => i - 1 \in DOMAIN a BY <1>7
  <2>4. t[c[i]] \notin {0, c[i]} => i > 1 /\ t[c[i - 1]] = t[c[i]] /\ c[i - 1] < c[i]
    BY <1>1, <1>7, <2>3, Zenon DEF Whole
  <2> QED BY <2>1, <2>2, <2>4, Zenon
<1>8. ASSUME NEW i \in DOMAIN c, ~(i \in DOMAIN a)
      PROVE  /\ \A j \in DOMAIN c : c[j] = c[i] => j = i
             /\ Mates(t, c[i]) \subseteq Range(c)
             /\ t[c[i]] \notin {0, c[i]} => i > 1 /\ t[c[i - 1]] = t[c[i]] /\ c[i - 1] < c[i]
  <2> DEFINE k == i - Len(a)
  <2>0. /\ k \in DOMAIN b /\ c[i] = b[k]
        /\ k > 1 => i - 1 \in DOMAIN c /\ c[i - 1] = b[k - 1]
    BY <1>2, <1>8, Zenon
  <2>1. \A j \in DOMAIN c : c[j] = c[i] => j = i
    <3> SUFFICES ASSUME NEW j \in DOMAIN c, c[j] = c[i] PROVE j = i BY Zenon
    <3>1. CASE j \in DOMAIN a BY <3>1, <1>1, <1>2, <1>3, <1>4, <1>8, Zenon
    <3>2. CASE ~(j \in DOMAIN a)
      <4>1. j - Len(a) \in DOMAIN b /\ c[j] = b[j - Len(a)] BY <3>2, <1>2, Zenon
      <4>2. j - Len(a) = k BY <4>1, <2>0, Zenon DEF Whole
      <4> QED BY <4>2, <1>6, Zenon
    <3> QED BY <3>1, <3>2, Zenon
  <2>2. Mates(t, c[i]) \subseteq Range(c) BY <1>2, <1>5, <1>8, Zenon DEF Whole
  <2>3. k > 1 => i > 1 BY <1>0
  <2>4. t[c[i]] \notin {0, c[i]} => i > 1 /\ t[c[i - 1]] = t[c[i]] /\ c[i - 1] < c[i]
    BY <2>0, <2>3, Zenon DEF Whole
  <2> QED BY <2>1, <2>2, <2>4, Zenon
<1> QED BY <1>7, <1>8, Zenon DEF Whole

\* A statement outside transactions, and nothing at all, are complete.
LEMMA WholeShort ==
  ASSUME NEW t
  PROVE  /\ Whole(t, <<>>)
         /\ \A n \in Requests : t[n] = 0 => Whole(t, <<n>>)
BY DEF Whole, Mates

\* Statements of another transaction change nothing.
LEMMA WholeNewTx ==
  ASSUME NEW t \in [Requests -> 0..MaxRequests], NEW q \in Seq(Requests), Whole(t, q),
         NEW n \in Requests, n \notin Range(q), NEW h, \A m \in Range(q) : t[m] # h
  PROVE  Whole([t EXCEPT ![n] = h], q)
<1> DEFINE u == [t EXCEPT ![n] = h]
<1>1. u[n] = h /\ \A m \in Requests : m # n => u[m] = t[m] BY Zenon
<1>2. \A i \in DOMAIN q : q[i] \in Range(q) /\ q[i] \in Requests /\ q[i] # n
  BY RangeType, Zenon DEF Range
<1>3. \A i \in DOMAIN q : u[q[i]] = t[q[i]] BY <1>1, <1>2, Zenon
<1> SUFFICES ASSUME NEW i \in DOMAIN q
             PROVE  /\ \A j \in DOMAIN q : q[j] = q[i] => j = i
                    /\ Mates(u, q[i]) \subseteq Range(q)
                    /\ u[q[i]] \notin {0, q[i]} =>
                          i > 1 /\ u[q[i - 1]] = u[q[i]] /\ q[i - 1] < q[i]
  BY Zenon DEF Whole
<1>4. ASSUME NEW m \in Mates(u, q[i]) PROVE m \in Range(q)
  <2>1. m \in Requests /\ u[q[i]] # 0 /\ u[m] = u[q[i]] BY Zenon DEF Mates
  <2>2. m # n BY <1>1, <1>2, <1>3, <2>1, Zenon
  <2>3. m \in Mates(t, q[i]) BY <1>1, <1>3, <2>1, <2>2, Zenon DEF Mates
  <2> QED BY <2>3, Zenon DEF Whole
<1>5. i > 1 => i - 1 \in DOMAIN q OBVIOUS
<1> QED BY <1>3, <1>4, <1>5, Zenon DEF Whole

\* A statement that is queued joins the transaction of its queue.
LEMMA WholeAppend ==
  ASSUME NEW t \in [Requests -> 0..MaxRequests], NEW q \in Seq(Requests), OneTransaction(t, q),
         NEW n \in Requests, \A m \in Range(q) : m < n, \A m \in Requests : t[m] # n,
         NEW h, h = IF q = <<>> THEN n ELSE q[1]
  PROVE  OneTransaction([t EXCEPT ![n] = h], Append(q, n))
<1> DEFINE u == [t EXCEPT ![n] = h]
           c == Append(q, n)
<1>1. u[n] = h /\ \A m \in Requests : m # n => u[m] = t[m] BY Zenon
<1>2. \A i \in DOMAIN q : q[i] \in Range(q) /\ q[i] \in Requests
  BY RangeType, Zenon DEF Range
<1>3. \A i \in DOMAIN q : q[i] # n
  <2>1. n \in Nat BY DEF Requests
  <2>2. ~(n < n) BY <2>1
  <2> QED BY <1>2, <2>2, Zenon
<1>4. \A i \in DOMAIN q : u[q[i]] = q[1] /\ t[q[i]] = q[1]
  BY <1>1, <1>2, <1>3, Zenon DEF OneTransaction
<1>5. Range(c) = Range(q) \cup {n} BY RangeAppend, Zenon
<1>6. DOMAIN c = (DOMAIN q) \cup {Len(q) + 1} /\ c[Len(q) + 1] = n
      /\ (\A i \in DOMAIN q : c[i] = q[i] /\ i # Len(q) + 1)
  OBVIOUS
<1>7. 0 \notin Requests BY DEF Requests
<1>8. q # <<>> => 1 \in DOMAIN q /\ Len(q) \in DOMAIN q /\ Len(q) + 1 > 1
                   /\ Len(q) + 1 - 1 = Len(q) /\ c[1] = q[1]
  OBVIOUS
<1>9. q = <<>> => c[1] = n /\ Len(q) + 1 = 1 OBVIOUS
<1>10. \A i \in DOMAIN q : q # <<>> /\ h = q[1] OBVIOUS
<1>11. \A m \in Requests : u[m] = h => m \in Range(c)
  <2> SUFFICES ASSUME NEW m \in Requests, u[m] = h, m # n PROVE m \in Range(q)
    BY <1>5, Zenon
  <2>1. t[m] = h BY <1>1, Zenon
  <2>2. q # <<>> /\ h = q[1] BY <2>1, Zenon
  <2>3. 1 \in DOMAIN q /\ t[q[1]] = q[1] /\ q[1] # 0 BY <1>2, <1>4, <1>7, <1>8, <2>2, Zenon
  <2>4. m \in Mates(t, q[1]) BY <2>1, <2>2, <2>3, Zenon DEF Mates
  <2> QED BY <2>3, <2>4, Zenon DEF OneTransaction, Whole
<1>12. \A i \in DOMAIN c : u[c[i]] = c[1] /\ u[c[i]] = h
  BY <1>1, <1>4, <1>6, <1>8, <1>9, <1>10, Zenon
<1>13. ASSUME NEW i \in DOMAIN c, NEW j \in DOMAIN c, c[j] = c[i] PROVE j = i
  <2>1. CASE i \in DOMAIN q /\ j \in DOMAIN q
    BY <1>6, <1>13, <2>1, Zenon DEF OneTransaction, Whole
  <2> QED BY <1>3, <1>6, <1>13, <2>1, Zenon
<1>14. ASSUME NEW i \in DOMAIN c PROVE Mates(u, c[i]) \subseteq Range(c)
  BY <1>11, <1>12, Zenon DEF Mates
<1>15. ASSUME NEW i \in DOMAIN c, u[c[i]] \notin {0, c[i]}
       PROVE  i > 1 /\ u[c[i - 1]] = u[c[i]] /\ c[i - 1] < c[i]
  <2>1. CASE i \in DOMAIN q
    <3>1. t[q[i]] \notin {0, q[i]} BY <1>4, <1>6, <1>15, <2>1, Zenon
    <3>2. i > 1 /\ q[i - 1] < q[i] BY <2>1, <3>1, Zenon DEF OneTransaction, Whole
    <3>3. i - 1 \in DOMAIN q BY <2>1, <3>2
    <3> QED BY <1>4, <1>6, <2>1, <3>2, <3>3, Zenon
  <2>2. CASE i = Len(q) + 1
    <3>1. q # <<>> /\ h = q[1] BY <1>1, <1>6, <1>15, <2>2, Zenon
    <3>2. i > 1 /\ i - 1 = Len(q) /\ Len(q) \in DOMAIN q BY <2>2, <3>1
    <3>3. c[Len(q)] = q[Len(q)] /\ q[Len(q)] < n BY <1>2, <1>6, <3>2, Zenon
    <3>4. c[i] = n /\ c[i - 1] = q[Len(q)] BY <1>6, <2>2, <3>2, <3>3, Zenon
    <3>5. u[c[i - 1]] = u[c[i]] BY <1>1, <1>4, <3>1, <3>2, <3>4, Zenon
    <3> QED BY <3>2, <3>3, <3>4, <3>5, Zenon
  <2> QED BY <1>6, <2>1, <2>2, Zenon
<1> QED BY <1>12, <1>13, <1>14, <1>15, Zenon DEF OneTransaction, Whole

-----------------------------------------------------------------------------
(* Types.                                                                   *)

\* A request that arrives has a number nobody had.
LEMMA ArriveTypes ==
  ASSUME Types, NEW k \in {"write", "queued", "restore"}, NEW b \in Seq(Requests),
         NEW here \in {"done", "execute", "prepare"}, Arrive(k, b, here)
  PROVE  /\ Number \in Requests /\ Number > last /\ last' \in 0..MaxRequests
         /\ kind' \in [Requests -> {"none", "write", "queued", "restore"}]
         /\ batch' \in [Requests -> Seq(Requests)]
         /\ pc' \in [Requests -> {"done", "execute"} \cup RestoreSteps]
<1>1. Number \in Requests /\ Number > last /\ last' \in 0..MaxRequests
  BY HttpBounds DEF Types, Arrive, Number, Requests
<1> QED BY <1>1, Zenon DEF Types, Arrive, RestoreSteps

\* The types of what a restore changes.
LEMMA RestoreTypes ==
  ASSUME Types, NEW n \in Requests,
         \/ Prepare(n) \/ Take(n) \/ Preserve(n) \/ Install(n) \/ OpenTarget(n)
         \/ Cleanup(n) \/ RemoveTarget(n) \/ Undo(n) \/ Reopen(n)
  PROVE  Types'
<1>1. File(<<n>>, TRUE) \in Files BY RangeShort DEF File, Files
<1>2. Handlers /\ (faults' = faults \/ faults' = faults + 1)
  BY Zenon DEF Prepare, Take, Preserve, Install, OpenTarget, Cleanup, RemoveTarget, Undo, Reopen,
               Works, Fails
<1>3. faults' \in Nat BY <1>2 DEF Types
<1>4. ASSUME NEW r \in {"ok", "refused", "internal_error"}, Return(n, r)
      PROVE  /\ pc' \in [Requests -> {"done", "execute"} \cup RestoreSteps]
             /\ outcome' \in [Requests -> {"none", "ok", "failed", "cancelled", "refused",
                                           "internal_error"}]
             /\ lock' \in Requests \cup {Nobody}
  BY <1>4, Zenon DEF Return, Types
<1>5. ASSUME NEW r \in {"ok", "refused", "internal_error"}, Leave(n, r)
      PROVE  /\ pc' \in [Requests -> {"done", "execute"} \cup RestoreSteps]
             /\ outcome' \in [Requests -> {"none", "ok", "failed", "cancelled", "refused",
                                           "internal_error"}]
             /\ lock' \in Requests \cup {Nobody}
             /\ temporary' \in [Requests -> Files \cup {Absent}]
  BY <1>4, <1>5, Zenon DEF Leave, Put, Types
<1>6. ASSUME NEW p \in RestoreSteps, Go(n, p)
      PROVE  /\ pc' \in [Requests -> {"done", "execute"} \cup RestoreSteps]
             /\ outcome' \in [Requests -> {"none", "ok", "failed", "cancelled", "refused",
                                           "internal_error"}]
             /\ lock' \in Requests \cup {Nobody}
  BY <1>6, Zenon DEF Go, Types
<1>16. /\ Put(temporary, n, Absent) \in [Requests -> Files \cup {Absent}]
       /\ Put(temporary, n, File(<<n>>, TRUE)) \in [Requests -> Files \cup {Absent}]
       /\ Put(backup, n, Absent) \in [Requests -> Files \cup {Absent}]
       /\ Put(backup, n, target) \in [Requests -> Files \cup {Absent}]
  BY <1>1, Zenon DEF Put, Types
<1>17. backup[n] \in Files \cup {Absent} /\ temporary[n] \in Files \cup {Absent}
  BY Zenon DEF Types
<1> USE <1>2, <1>3, <1>16, <1>17
<1>7. CASE Prepare(n)
  <2>1. /\ pc' \in [Requests -> {"done", "execute"} \cup RestoreSteps]
        /\ outcome' \in [Requests -> {"none", "ok", "failed", "cancelled", "refused",
                                      "internal_error"}]
        /\ lock' \in Requests \cup {Nobody}
    BY <1>5, <1>6, <1>7, Zenon DEF Prepare, RestoreSteps, Locked
  <2>2. /\ target' \in Files \cup {Absent}
        /\ temporary' \in [Requests -> Files \cup {Absent}]
        /\ backup' \in [Requests -> Files \cup {Absent}]
    BY <1>1, <1>5, <1>7, Zenon DEF Prepare, Types
  <2> QED BY <1>7, <2>1, <2>2, Zenon DEF Prepare, Types, Handlers, work, store
<1>8. CASE Take(n)
  BY <1>5, <1>8, Zenon DEF Take, Types, Handlers, RestoreSteps, Locked, work, store
<1>9. CASE Preserve(n)
  BY <1>6, <1>9, Zenon DEF Preserve, Types, Handlers, RestoreSteps, Locked, work, store
<1>10. CASE Install(n)
  <2>1. /\ pc' \in [Requests -> {"done", "execute"} \cup RestoreSteps]
        /\ outcome' \in [Requests -> {"none", "ok", "failed", "cancelled", "refused",
                                      "internal_error"}]
        /\ lock' \in Requests \cup {Nobody}
    BY <1>6, <1>10, Zenon DEF Install, RestoreSteps, Locked
  <2>2. /\ target' \in Files \cup {Absent}
        /\ temporary' \in [Requests -> Files \cup {Absent}]
        /\ backup' \in [Requests -> Files \cup {Absent}]
    BY <1>10, Zenon DEF Install, Types
  <2> QED BY <1>10, <2>1, <2>2, Zenon DEF Install, Types, Handlers, work, store
<1>11. CASE OpenTarget(n)
  BY <1>6, <1>11, Zenon DEF OpenTarget, Types, Handlers, files, RestoreSteps, Locked, work, store
<1>12. CASE Cleanup(n)
  <2>1. /\ pc' \in [Requests -> {"done", "execute"} \cup RestoreSteps]
        /\ outcome' \in [Requests -> {"none", "ok", "failed", "cancelled", "refused",
                                      "internal_error"}]
        /\ lock' \in Requests \cup {Nobody}
    BY <1>5, <1>12, Zenon DEF Cleanup, RestoreSteps, Locked
  <2>2. /\ target' \in Files \cup {Absent}
        /\ temporary' \in [Requests -> Files \cup {Absent}]
        /\ backup' \in [Requests -> Files \cup {Absent}]
    BY <1>5, <1>12, Zenon DEF Cleanup, Types
  <2> QED BY <1>12, <2>1, <2>2, Zenon DEF Cleanup, Types, Handlers, work, store
<1>13. CASE RemoveTarget(n)
  BY <1>6, <1>13, Zenon DEF RemoveTarget, Types, Handlers, RestoreSteps, Locked, work, store
<1>14. CASE Undo(n)
  <2>1. /\ pc' \in [Requests -> {"done", "execute"} \cup RestoreSteps]
        /\ outcome' \in [Requests -> {"none", "ok", "failed", "cancelled", "refused",
                                      "internal_error"}]
        /\ lock' \in Requests \cup {Nobody}
    BY <1>6, <1>14, Zenon DEF Undo, RestoreSteps, Locked
  <2>2. /\ target' \in Files \cup {Absent}
        /\ temporary' \in [Requests -> Files \cup {Absent}]
        /\ backup' \in [Requests -> Files \cup {Absent}]
    BY <1>14, Zenon DEF Undo, Types
  <2> QED BY <1>14, <2>1, <2>2, Zenon DEF Undo, Types, Handlers, work, store
<1>15. CASE Reopen(n)
  BY <1>5, <1>15, Zenon DEF Reopen, Types, Handlers, work, store
<1> QED BY <1>7, <1>8, <1>9, <1>10, <1>11, <1>12, <1>13, <1>14, <1>15, Zenon

\* The types of what a write changes: the batch goes to a file that is there.
LEMMA ExecuteTypes ==
  ASSUME Types, Placed, NEW n \in Requests, Execute(n) \/ DeadlinePassed(n)
  PROVE  Types'
<1>1. opened => [target EXCEPT !.data = @ \o batch[n]] \in Files
  <2> SUFFICES ASSUME opened PROVE [target EXCEPT !.data = @ \o batch[n]] \in Files BY Zenon
  <2>1. target \in Files BY Zenon DEF Types, Placed
  <2>2. target.data \o batch[n] \in Seq(Requests) BY <2>1, RangeConcat DEF Types, Files
  <2> QED BY <2>1, <2>2, Zenon DEF Files
<1>2. ASSUME NEW r \in {"ok", "failed", "cancelled", "internal_error"}, Return(n, r)
      PROVE  /\ pc' \in [Requests -> {"done", "execute"} \cup RestoreSteps]
             /\ outcome' \in [Requests -> {"none", "ok", "failed", "cancelled", "refused",
                                           "internal_error"}]
             /\ lock' \in Requests \cup {Nobody}
  BY <1>2, Zenon DEF Return, Types
<1>3. CASE DeadlinePassed(n)
  BY <1>2, <1>3, Zenon DEF DeadlinePassed, Types, Handlers, files, work, store
<1>4. CASE Execute(n)
  <2>1. PICK r \in {"ok", "failed", "cancelled", "internal_error"} : Return(n, r)
    BY <1>4, Zenon DEF Execute
  <2>2. target' \in Files \cup {Absent} BY <1>1, <1>4, Zenon DEF Execute, Types
  <2> QED BY <1>2, <1>4, <2>1, <2>2, Zenon DEF Execute, Types, Handlers, work, store
<1> QED BY <1>3, <1>4, Zenon

\* The types of what handlers change.
LEMMA HandlerTypes ==
  ASSUME Types,
         \/ Query \/ ImportSnapshot \/ ImportLogical
         \/ \E s \in SessionIds : Queue(s) \/ Commit(s)
  PROVE  Types'
<1>0. Number \in Requests BY HttpBounds DEF Types, Arrive, Number, Requests,
      Query, ImportSnapshot, ImportLogical, Queue, Commit
<1>1. <<>> \in Seq(Requests) /\ <<Number>> \in Seq(Requests) BY <1>0
<1>2. CASE Query
  BY <1>1, <1>2, ArriveTypes, Zenon DEF Query, Types, files, slot, store, history
<1>3. CASE ImportSnapshot
  BY <1>1, <1>3, ArriveTypes, Zenon DEF ImportSnapshot, Types, files, slot, store, history
<1>4. CASE ImportLogical
  <2>1. faults' \in Nat BY <1>4 DEF ImportLogical, Types, Works, Fails
  <2>2. outcome' \in [Requests -> {"none", "ok", "failed", "cancelled", "refused",
                                   "internal_error"}]
    BY <1>0, <1>4, Zenon DEF ImportLogical, Types
  <2>3. Arrive("restore", <<>>, "prepare") \/ Arrive("restore", <<>>, "done")
    BY <1>4, Zenon DEF ImportLogical
  <2> QED
    BY <1>1, <1>4, <2>1, <2>2, <2>3, ArriveTypes, Zenon
    DEF ImportLogical, Types, files, slot, store
<1>5. ASSUME NEW s \in SessionIds, Commit(s) PROVE Types'
  <2>1. transaction[s] \in Seq(Requests) BY <1>5, Zenon DEF Commit, Types
  <2>2. transaction' \in [SessionIds -> Seq(Requests) \cup {None}]
    BY <1>5, Zenon DEF Commit, Types
  <2> QED BY <1>5, <2>1, <2>2, ArriveTypes, Zenon DEF Commit, Types, Elsewhere, files, slot
<1>6. ASSUME NEW s \in SessionIds, Queue(s) PROVE Types'
  <2>1. transaction[s] \in Seq(Requests) BY <1>6, Zenon DEF Queue, Types
  <2>2. Append(transaction[s], Number) \in Seq(Requests) BY <1>0, <2>1, RangeAppend, Zenon
  <2>3. transaction' \in [SessionIds -> Seq(Requests) \cup {None}]
    BY <1>6, <2>2, Zenon DEF Queue, Types
  <2>4. (IF transaction[s] = <<>> THEN Number ELSE Head(transaction[s])) \in 0..MaxRequests
    <3>1. transaction[s] # <<>> => Head(transaction[s]) \in Requests BY <2>1
    <3> QED BY <1>0, <3>1 DEF Requests
  <2>5. tx' \in [Requests -> 0..MaxRequests] BY <1>6, <2>4, Zenon DEF Queue, Types
  <2>6. answer' \in [Requests -> {"none", "ok", "failed", "query_timeout", "refused",
                                  "internal_error", "queued"}]
    BY <1>6, Zenon DEF Queue, Types
  <2> QED
    BY <1>1, <1>6, <2>3, <2>5, <2>6, ArriveTypes, Zenon DEF Queue, Types, Elsewhere, files, slot
<1> QED BY <1>2, <1>3, <1>4, <1>5, <1>6, Zenon

\* The types of what the other steps change.
LEMMA OtherTypes ==
  ASSUME Types,
         \/ \E s \in SessionIds : CreateSession(s) \/ DeleteSession(s) \/ Begin(s) \/ Rollback(s)
         \/ \E n \in Requests : Timer(n) \/ Answer(n)
         \/ Crash \/ Start \/ UNCHANGED vars
  PROVE  Types'
<1>1. ASSUME NEW s \in SessionIds, CreateSession(s) \/ DeleteSession(s) \/ Begin(s) \/ Rollback(s)
      PROVE Types'
  <2>1. <<>> \in Seq(Requests) OBVIOUS
  <2>2. transaction' \in [SessionIds -> Seq(Requests) \cup {None}]
    BY <1>1, <2>1, Zenon DEF CreateSession, DeleteSession, Begin, Rollback, Types
  <2> QED
    BY <1>1, <2>2, Zenon
    DEF CreateSession, DeleteSession, Begin, Rollback, Types, Elsewhere, files, slot, work
<1>2. ASSUME NEW n \in Requests, Timer(n) PROVE Types'
  BY <1>2, Zenon DEF Timer, Types, files, slot, store, work, history
<1>3. ASSUME NEW n \in Requests, Answer(n) PROVE Types'
  BY <1>3 DEF Answer, Types, files, slot, store, work, history
<1>4. CASE Crash BY <1>4, Zenon DEF Crash, Types, files, work
<1>5. CASE Start
  <2>1. File(<<>>, TRUE) \in Files BY DEF File, Files
  <2>2. target' \in Files \cup {Absent} BY <1>5, <2>1, Zenon DEF Start, Types
  <2> QED BY <1>5, <2>2, Zenon DEF Start, Types, store, work, history
<1>6. CASE UNCHANGED vars
  BY <1>6, Zenon DEF vars, Types, files, slot, store, work, history
<1> QED BY <1>1, <1>2, <1>3, <1>4, <1>5, <1>6, Zenon

-----------------------------------------------------------------------------
(* Control.                                                                 *)

RestoreStep(n) ==
    \/ Prepare(n) \/ Take(n) \/ Preserve(n) \/ Install(n) \/ OpenTarget(n)
    \/ Cleanup(n) \/ RemoveTarget(n) \/ Undo(n) \/ Reopen(n)

\* The steps of the handlers and of the process.
OtherStep ==
    \/ Query \/ ImportSnapshot \/ ImportLogical
    \/ \E s \in SessionIds : \/ CreateSession(s) \/ DeleteSession(s) \/ Begin(s)
                             \/ Queue(s) \/ Commit(s) \/ Rollback(s)
    \/ \E n \in Requests : Timer(n) \/ Answer(n)
    \/ Crash \/ Start \/ UNCHANGED vars

\* What every step of a worker leaves alone.
LEMMA WorkerFrame ==
  ASSUME Types, NEW n \in Requests, RestoreStep(n) \/ Execute(n) \/ DeadlinePassed(n)
  PROVE  /\ UNCHANGED <<up, transaction, last, kind, batch, answer, tx, discarded, cut>>
         /\ pc[n] # "done"
         /\ \A m \in Requests : m # n => pc'[m] = pc[m] /\ outcome'[m] = outcome[m]
<1>1. UNCHANGED <<up, transaction, last, kind, batch, answer, tx, discarded, cut>>
  BY Zenon
  DEF RestoreStep, Execute, DeadlinePassed, Handlers, store, work, Prepare, Take, Preserve,
      Install, OpenTarget, Cleanup, RemoveTarget, Undo, Reopen
<1>2. pc[n] # "done"
  BY Zenon
  DEF RestoreStep, Execute, DeadlinePassed, At, Prepare, Take, Preserve,
      Install, OpenTarget, Cleanup, RemoveTarget, Undo, Reopen
<1>3. ASSUME NEW r, Return(n, r) \/ Leave(n, r) \/ Go(n, r),
             NEW m \in Requests, m # n
      PROVE  pc'[m] = pc[m] /\ outcome'[m] = outcome[m]
  BY <1>3, Zenon DEF Return, Leave, Go, Types
<1>4. ASSUME Take(n), NEW m \in Requests, m # n
      PROVE  pc'[m] = pc[m] /\ outcome'[m] = outcome[m]
  BY <1>3, <1>4, Zenon DEF Take, Types
<1>5. Take(n) \/ \E r : Return(n, r) \/ Leave(n, r) \/ Go(n, r)
  BY Zenon
  DEF RestoreStep, Execute, DeadlinePassed, Prepare, Preserve,
      Install, OpenTarget, Cleanup, RemoveTarget, Undo, Reopen
<1>6. \A m \in Requests : m # n => pc'[m] = pc[m] /\ outcome'[m] = outcome[m]
  BY <1>3, <1>4, <1>5, Zenon
<1> QED BY <1>1, <1>2, <1>6, Zenon

\* A worker that returns.
LEMMA ReturnControl ==
  ASSUME Types, Control, NEW n \in Requests, NEW r, r # "none", pc[n] # "done",
         r = "refused" => kind[n] = "restore", Return(n, r),
         UNCHANGED <<up, last, kind, answer>>
  PROVE  Control'
<1>1. pc'[n] = "done" /\ outcome'[n] = r BY Zenon DEF Return, Types
<1>2. \A m \in Requests : m # n => pc'[m] = pc[m] /\ outcome'[m] = outcome[m]
  BY Zenon DEF Return, Types
<1>3. lock' # n BY HttpMarkers, Zenon DEF Return
<1>4. \A m \in Requests : m # n => (lock' = m <=> lock = m) BY HttpMarkers, Zenon DEF Return
<1>5. kind[n] # "none" BY Zenon DEF Control, ControlOf, Types
<1>6. ASSUME NEW m \in Requests, m = n
      PROVE  ControlOf(m)'
  BY <1>1, <1>3, <1>5, <1>6, Zenon DEF Control, ControlOf, RestoreSteps, Locked
<1>7. ASSUME NEW m \in Requests, m # n
      PROVE  ControlOf(m)'
  BY <1>2, <1>4, <1>7, Zenon DEF Control, ControlOf
<1> QED BY <1>6, <1>7, Zenon DEF Control

\* A restore that goes on.
LEMMA GoControl ==
  ASSUME Types, Control, NEW n \in Requests, NEW p \in RestoreSteps, pc[n] \in RestoreSteps,
         pc' = [pc EXCEPT ![n] = p], lock' = n <=> p \in Locked,
         \A m \in Requests : m # n => (lock' = m <=> lock = m),
         UNCHANGED <<up, last, kind, answer, outcome>>
  PROVE  Control'
<1>1. pc'[n] = p /\ p \notin {"done", "execute"} BY Zenon DEF Types, RestoreSteps, Locked
<1>2. \A m \in Requests : m # n => pc'[m] = pc[m] BY Zenon DEF Types
<1>3. pc[n] # "done" BY Zenon DEF RestoreSteps, Locked
<1>4. ControlOf(n)' BY <1>1, <1>3, Zenon DEF Control, ControlOf
<1>5. ASSUME NEW m \in Requests, m # n PROVE ControlOf(m)'
  BY <1>2, <1>5, Zenon DEF Control, ControlOf
<1> QED BY <1>4, <1>5, Zenon DEF Control

\* Every step of a worker keeps Control.
LEMMA WorkerControl ==
  ASSUME Types, Control, NEW n \in Requests, RestoreStep(n) \/ Execute(n) \/ DeadlinePassed(n)
  PROVE  Control'
<1>1. /\ UNCHANGED <<up, last, kind, answer>> /\ pc[n] # "done"
  BY WorkerFrame, Zenon
<1>2. pc[n] \in RestoreSteps => kind[n] = "restore" BY Zenon DEF Control, ControlOf
<1>3. CASE Execute(n) \/ DeadlinePassed(n)
  <2>1. PICK r \in {"ok", "failed", "cancelled", "internal_error"} : Return(n, r)
    BY <1>3, Zenon DEF Execute, DeadlinePassed
  <2> QED BY <1>1, <2>1, ReturnControl, Zenon
<1>4. ASSUME NEW r \in {"ok", "refused", "internal_error"}, Leave(n, r), RestoreStep(n)
      PROVE  Control'
  <2>1. pc[n] \in RestoreSteps
    BY <1>4, Zenon
    DEF RestoreStep, RestoreSteps, Locked, At, Prepare, Take, Preserve,
      Install, OpenTarget, Cleanup, RemoveTarget, Undo, Reopen
  <2> QED BY <1>1, <1>2, <1>4, <2>1, ReturnControl, Zenon DEF Leave
<1>5. ASSUME NEW p \in Locked, Go(n, p), pc[n] \in Locked
      PROVE  Control'
  <2>1. lock = n BY <1>5, Zenon DEF Control, ControlOf
  <2>2. p \in RestoreSteps /\ pc[n] \in RestoreSteps BY <1>5, Zenon DEF RestoreSteps
  <2> QED BY <1>1, <1>5, <2>1, <2>2, GoControl, Zenon DEF Go
<1>6. CASE Prepare(n)
  <2>1. ASSUME Go(n, "take") PROVE Control'
    <3>1. pc[n] = "prepare" BY <1>6, Zenon DEF Prepare, At
    <3>2. lock # n BY <3>1, Zenon DEF Control, ControlOf, Locked
    <3>3. "take" \in RestoreSteps /\ pc[n] \in RestoreSteps /\ "take" \notin Locked
      BY <3>1, Zenon DEF RestoreSteps, Locked
    <3> QED BY <1>1, <2>1, <3>2, <3>3, GoControl, Zenon DEF Go
  <2> QED BY <1>4, <1>6, <2>1, Zenon DEF Prepare, RestoreStep
<1>7. CASE Take(n)
  <2>1. ASSUME lock' = n, pc' = [pc EXCEPT ![n] = "preserve"], UNCHANGED outcome PROVE Control'
    <3>1. pc[n] = "take" /\ lock = Nobody BY <1>7, Zenon DEF Take, At
    <3>2. "preserve" \in RestoreSteps /\ pc[n] \in RestoreSteps /\ "preserve" \in Locked
      BY <3>1, Zenon DEF RestoreSteps, Locked
    <3>3. \A m \in Requests : m # n => (lock' = m <=> lock = m)
      BY <2>1, <3>1, HttpMarkers, Zenon
    <3> QED BY <1>1, <2>1, <3>2, <3>3, GoControl, Zenon
  <2> QED BY <1>4, <1>7, <2>1, Zenon DEF Take, RestoreStep
<1>8. CASE Preserve(n) \/ Install(n) \/ OpenTarget(n) \/ RemoveTarget(n) \/ Undo(n)
  BY <1>5, <1>8, Zenon
  DEF Preserve, Install, OpenTarget, RemoveTarget, Undo, At, Locked
<1>9. CASE Cleanup(n) \/ Reopen(n)
  BY <1>4, <1>9, Zenon DEF Cleanup, Reopen, RestoreStep
<1> QED BY <1>3, <1>6, <1>7, <1>8, <1>9, Zenon DEF RestoreStep

\* A request that arrives keeps Control.
LEMMA ArriveControl ==
  ASSUME Types, Control, NEW k \in {"write", "queued", "restore"}, NEW b \in Seq(Requests),
         NEW here \in {"done", "execute", "prepare"}, Arrive(k, b, here),
         here = "execute" => k = "write", here = "prepare" => k = "restore",
         UNCHANGED <<up, lock>>,
         \A m \in Requests : m # Number => outcome'[m] = outcome[m] /\ answer'[m] = answer[m],
         here # "done" => UNCHANGED <<outcome, answer>>,
         outcome'[Number] # "none" => answer'[Number] = "none",
         "refused" \in {outcome'[Number], answer'[Number]} => k = "restore"
  PROVE  Control'
<1>1. Number \in Requests /\ Number > last BY ArriveTypes, Zenon
<1>2. /\ kind'[Number] = k /\ pc'[Number] = here
      /\ \A m \in Requests : m # Number => kind'[m] = kind[m] /\ pc'[m] = pc[m]
  BY <1>1, Zenon DEF Arrive, Types
<1>3. \A m \in Requests : m # Number => (m > last <=> m > last')
  BY DEF Arrive, Types, Number, Requests
<1>4. ~(Number > last') BY DEF Arrive, Types, Number
<1>5. kind[Number] = "none" /\ outcome[Number] = "none" /\ answer[Number] = "none"
  BY <1>1, Zenon DEF Control, ControlOf
<1>6. lock # Number BY <1>1, <1>5, Zenon DEF Control, ControlOf, RestoreSteps
<1>7. here \notin Locked /\ k # "none" /\ up BY Zenon DEF Locked, Arrive
<1>8. ASSUME NEW m \in Requests, m = Number
      PROVE  ControlOf(m)'
  BY <1>2, <1>4, <1>5, <1>6, <1>7, <1>8, Zenon DEF RestoreSteps, ControlOf
<1>9. ASSUME NEW m \in Requests, m # Number
      PROVE  ControlOf(m)'
  <2>1. ControlOf(m) BY Zenon DEF Control
  <2>2. /\ kind'[m] = kind[m] /\ pc'[m] = pc[m] /\ outcome'[m] = outcome[m]
        /\ answer'[m] = answer[m] /\ (m > last <=> m > last')
    BY <1>2, <1>3, <1>9, Zenon
  <2> QED BY <2>1, <2>2, Zenon DEF ControlOf
<1> QED BY <1>8, <1>9, Zenon DEF Control

\* Every handler keeps Control, and so do crashes and starts.
LEMMA HandlerControl ==
  ASSUME Types, Control, OtherStep
  PROVE  Control'
<1> USE DEF OtherStep
<1>0. <<>> \in Seq(Requests) OBVIOUS
<1>1. CASE Query
  <2>1. Number \in Requests BY <1>1, HttpBounds DEF Types, Arrive, Number, Requests, Query
  <2>2. <<Number>> \in Seq(Requests) BY <2>1
  <2>3. outcome[Number] = "none" /\ answer[Number] = "none"
    <3>1. Number > last BY <1>1, <2>2, ArriveTypes, Zenon DEF Query
    <3> QED BY <2>1, <3>1, Zenon DEF Control, ControlOf
  <2> QED BY <1>1, <2>2, <2>3, ArriveControl, Zenon DEF Query, slot
<1>2. CASE ImportSnapshot
  <2>1. Number \in Requests /\ Number > last
    BY <1>0, <1>2, ArriveTypes, Zenon DEF ImportSnapshot
  <2>2. outcome[Number] = "none" /\ answer[Number] = "none" BY <2>1, Zenon DEF Control, ControlOf
  <2> QED BY <1>0, <1>2, <2>2, ArriveControl, Zenon DEF ImportSnapshot, slot
<1>3. CASE ImportLogical
  <2>1. Number \in Requests /\ Number > last
    BY <1>0, <1>3, ArriveTypes, Zenon DEF ImportLogical
  <2>2. outcome[Number] = "none" /\ answer[Number] = "none" BY <2>1, Zenon DEF Control, ControlOf
  <2>3. CASE Arrive("restore", <<>>, "prepare") /\ UNCHANGED outcome
    BY <1>0, <1>3, <2>2, <2>3, ArriveControl, Zenon DEF ImportLogical, slot
  <2>4. ASSUME NEW r \in {"refused", "internal_error"}, Arrive("restore", <<>>, "done"),
               outcome' = [outcome EXCEPT ![Number] = r]
        PROVE  Control'
    <3>1. \A m \in Requests : m # Number => outcome'[m] = outcome[m] BY <2>1, <2>4, Zenon DEF Types
    <3> QED BY <1>0, <1>3, <2>2, <2>4, <3>1, ArriveControl, Zenon DEF ImportLogical, slot
  <2> QED BY <1>3, <2>3, <2>4, Zenon DEF ImportLogical
<1>4. ASSUME NEW s \in SessionIds, Commit(s) PROVE Control'
  <2>1. transaction[s] \in Seq(Requests) BY <1>4, Zenon DEF Commit, Types
  <2>2. Number \in Requests /\ Number > last BY <1>4, <2>1, ArriveTypes, Zenon DEF Commit
  <2>3. outcome[Number] = "none" /\ answer[Number] = "none" BY <2>2, Zenon DEF Control, ControlOf
  <2> QED BY <1>4, <2>1, <2>3, ArriveControl, Zenon DEF Commit, Elsewhere, slot
<1>5. ASSUME NEW s \in SessionIds, Queue(s) PROVE Control'
  <2>1. Arrive("queued", <<>>, "done") /\ UNCHANGED <<up, lock, outcome>>
    BY <1>5, Zenon DEF Queue, Elsewhere, slot
  <2>2. Number \in Requests /\ Number > last BY <1>0, <2>1, ArriveTypes, Zenon
  <2>3. outcome[Number] = "none" /\ answer[Number] = "none" BY <2>2, Zenon DEF Control, ControlOf
  <2>4. /\ \A m \in Requests : m # Number => answer'[m] = answer[m]
        /\ answer'[Number] = "queued"
    BY <1>5, <2>2, Zenon DEF Queue, Types
  <2> QED BY <1>0, <2>1, <2>3, <2>4, ArriveControl, Zenon
<1>6. ASSUME NEW s \in SessionIds, CreateSession(s) \/ DeleteSession(s) \/ Begin(s) \/ Rollback(s)
      PROVE  Control'
  <2>1. UNCHANGED <<up, lock, last, kind, pc, outcome, answer>>
    BY <1>6, Zenon DEF CreateSession, DeleteSession, Begin, Rollback, Elsewhere, slot, work
  <2> QED BY <2>1, Zenon DEF Control, ControlOf
<1>7. ASSUME NEW n \in Requests, Timer(n) PROVE Control'
  BY <1>7, Zenon DEF Timer, Control, ControlOf, slot, work
<1>8. ASSUME NEW n \in Requests, Answer(n) PROVE Control'
  <2>1. pc[n] = "done" /\ kind[n] # "none" /\ outcome[n] # "none"
    BY <1>8, Zenon DEF Answer, WorkerReady, Control, ControlOf
  <2>2. \A m \in Requests : m # n => answer'[m] = answer[m] /\ outcome'[m] = outcome[m]
    BY <1>8, Zenon DEF Answer, Types
  <2>3. outcome'[n] = "none" /\ answer'[n] \in {"query_timeout", outcome[n]}
    BY <1>8, Zenon DEF Answer, Types
  <2>4. UNCHANGED <<up, lock, last, kind, pc>> BY <1>8, Zenon DEF Answer, slot, work
  <2>5. ASSUME NEW m \in Requests PROVE ControlOf(m)'
    <3>1. ControlOf(m) BY Zenon DEF Control
    <3>2. CASE m # n
      <4>1. answer'[m] = answer[m] /\ outcome'[m] = outcome[m] BY <2>2, <3>2, Zenon
      <4> QED BY <2>4, <3>1, <4>1, Zenon DEF ControlOf
    <3>3. CASE m = n BY <2>1, <2>3, <2>4, <3>1, <3>3, Zenon DEF ControlOf
    <3> QED BY <3>2, <3>3, Zenon
  <2> QED BY <2>5, Zenon DEF Control
<1>9. CASE Crash
  <2>1. \A n \in Requests : pc'[n] = "done" /\ outcome'[n] = "none" BY <1>9, Zenon DEF Crash
  <2>2. UNCHANGED <<last, kind, answer>> /\ lock' = Nobody BY <1>9, Zenon DEF Crash, work
  <2> QED BY <2>1, <2>2, HttpMarkers, Zenon DEF Control, ControlOf, RestoreSteps, Locked
<1>10. CASE Start
  BY <1>10, Zenon DEF Start, Control, ControlOf, work
<1>11. CASE UNCHANGED vars BY <1>11, Zenon DEF vars, Control, ControlOf, slot, work
<1> QED BY <1>1, <1>2, <1>3, <1>4, <1>5, <1>6, <1>7, <1>8, <1>9, <1>10, <1>11, Zenon

-----------------------------------------------------------------------------
(* Files.                                                                   *)

\* Only the worker that holds the mutex is at a step that needs it.
LEMMA Alone ==
  ASSUME Types, Control, NEW n \in Requests, lock \in {n, Nobody},
         NEW m \in Requests, m # n
  PROVE  pc[m] \in {"done", "execute", "prepare", "take"}
<1>1. pc[m] \notin Locked BY HttpMarkers, Zenon DEF Control, ControlOf
<1> QED BY <1>1, Zenon DEF Types, RestoreSteps

\* The other requests' files, when a restore with or without the mutex moves its own.
LEMMA OthersPlaced ==
  ASSUME Types, Control, Placed, NEW n \in Requests, lock \in {n, Nobody},
         UNCHANGED kind,
         NEW m \in Requests, m # n, pc'[m] = pc[m],
         temporary'[m] = temporary[m], backup'[m] = backup[m]
  PROVE  PlacedOf(m)'
<1>1. pc'[m] \in {"done", "execute", "prepare", "take"} BY Alone, Zenon
<1>2. PlacedOf(m) BY Zenon DEF Placed
<1> QED BY <1>1, <1>2, Zenon DEF PlacedOf, Locked

\* A worker that leaves.
LEMMA LeavePlaced ==
  ASSUME Types, Control, Placed, NEW n \in Requests, NEW r, Leave(n, r), kind[n] = "restore",
         UNCHANGED kind,
         backup'[n] \in {Absent, backup[n]}
  PROVE  PlacedOf(n)'
<1>1. pc'[n] = "done" BY Zenon DEF Leave, Return, Types
<1>2. kind'[n] = "restore" BY Zenon
<1>3. backup'[n] # Absent => backup'[n].checked BY Zenon DEF Placed, PlacedOf
<1> QED BY <1>1, <1>2, <1>3, Zenon DEF PlacedOf, Locked

\* Every step of a restore keeps the files in place.
LEMMA RestorePlaced ==
  ASSUME Types, Control, Placed, NEW n \in Requests, RestoreStep(n)
  PROVE  Placed'
<1>0. UNCHANGED kind /\ \A m \in Requests : m # n => pc'[m] = pc[m] BY WorkerFrame, Zenon
<1>1. /\ pc[n] \in Locked => lock = n
      /\ pc[n] \in RestoreSteps => kind[n] = "restore"
  BY Zenon DEF Control, ControlOf
<1>2. PlacedOf(n) BY Zenon DEF Placed
<1>3. ASSUME NEW f, NEW m \in Requests, m # n
      PROVE  Put(temporary, n, f)[m] = temporary[m] /\ Put(backup, n, f)[m] = backup[m]
  BY <1>3, Zenon DEF Put, Types
<1>4. ASSUME NEW f
      PROVE  Put(temporary, n, f)[n] = f /\ Put(backup, n, f)[n] = f
  BY Zenon DEF Put, Types
<1>5. ASSUME NEW p, Go(n, p) PROVE pc'[n] = p BY <1>5, Zenon DEF Go, Types
<1>6. File(<<n>>, TRUE) # Absent /\ File(<<n>>, TRUE).checked
  <2>1. File(<<n>>, TRUE) \in Files BY RangeShort DEF File, Files
  <2> QED BY <2>1, HttpMarkers, Zenon DEF File
<1>7. CASE Prepare(n)
  <2>0. pc[n] = "prepare" /\ UNCHANGED <<target, backup, opened, superseded>>
    BY <1>7, Zenon DEF Prepare, At
  <2>1. kind[n] = "restore" BY <2>0, <1>1, Zenon DEF RestoreSteps
  <2>2. PlacedOf(n)'
    <3>1. CASE \E r : Leave(n, r) BY <1>0, <2>0, <2>1, <3>1, LeavePlaced, Zenon
    <3>2. CASE Go(n, "take") /\ temporary' = Put(temporary, n, File(<<n>>, TRUE))
      <4>1. pc'[n] = "take" /\ temporary'[n] = File(<<n>>, TRUE) /\ backup'[n] = Absent
        BY <1>2, <1>4, <1>5, <2>0, <3>2, Zenon DEF PlacedOf
      <4> QED BY <4>1, Zenon DEF PlacedOf, Locked
    <3> QED BY <1>7, <3>1, <3>2, Zenon DEF Prepare
  <2>3. ASSUME NEW m \in Requests, m # n PROVE PlacedOf(m)'
    <3>1. temporary'[m] = temporary[m] BY <1>3, <1>7, <2>3, Zenon DEF Prepare, Leave
    <3>2. PlacedOf(m) BY Zenon DEF Placed
    <3> QED BY <1>0, <2>0, <2>3, <3>1, <3>2, Zenon DEF PlacedOf
  <2> QED BY <2>0, <2>2, <2>3, Zenon DEF Placed
<1>8. CASE Take(n)
  <2>0. pc[n] = "take" /\ UNCHANGED <<target, backup, superseded>> /\ lock = Nobody /\ ~opened'
    BY <1>8, Zenon DEF Take, At
  <2>1. kind[n] = "restore" BY <2>0, <1>1, Zenon DEF RestoreSteps
  <2>2. PlacedOf(n)'
    <3>1. CASE \E r : Leave(n, r) BY <1>0, <2>0, <2>1, <3>1, LeavePlaced, Zenon
    <3>2. CASE opened /\ pc' = [pc EXCEPT ![n] = "preserve"] /\ UNCHANGED temporary
      <4>1. pc'[n] = "preserve" BY <3>2, Zenon DEF Types
      <4>2. temporary'[n] = File(<<n>>, TRUE) /\ backup'[n] = Absent /\ target' # Absent
        BY <1>2, <2>0, <3>2, Zenon DEF PlacedOf, Placed
      <4> QED BY <4>1, <4>2, <2>0, Zenon DEF PlacedOf, Locked
    <3> QED BY <1>8, <3>1, <3>2, Zenon DEF Take
  <2>3. ASSUME NEW m \in Requests, m # n PROVE PlacedOf(m)'
    <3>1. temporary'[m] = temporary[m] BY <1>3, <1>8, <2>3, Zenon DEF Take, Leave
    <3> QED BY <1>0, <2>0, <2>3, <3>1, OthersPlaced, Zenon
  <2> QED BY <2>0, <2>2, <2>3, Zenon DEF Placed
<1>9. ASSUME pc[n] \in Locked, UNCHANGED kind,
             temporary' = temporary \/ \E f : temporary' = Put(temporary, n, f),
             backup' = backup \/ \E f : backup' = Put(backup, n, f),
             NEW m \in Requests, m # n
      PROVE  PlacedOf(m)'
  <2>1. temporary'[m] = temporary[m] /\ backup'[m] = backup[m] BY <1>3, <1>9, Zenon
  <2> QED BY <1>0, <1>1, <1>9, <2>1, OthersPlaced, Zenon
<1>10. CASE Preserve(n)
  <2>0. pc[n] = "preserve" /\ UNCHANGED <<temporary, opened, superseded>>
    BY <1>10, Zenon DEF Preserve, At
  <2>1. target # Absent /\ ~opened /\ target.checked /\ temporary[n] = File(<<n>>, TRUE)
    BY <1>2, <2>0, Zenon DEF PlacedOf, Placed, Locked
  <2>2. kind[n] = "restore" BY <1>1, <2>0, Zenon DEF RestoreSteps, Locked
  <2>3. CASE Go(n, "install") /\ backup' = Put(backup, n, target) /\ target' = Absent
    <3>1. pc'[n] = "install" /\ backup'[n] = target BY <1>4, <1>5, <2>3, Zenon
    <3>2. PlacedOf(n)' BY <3>1, <2>0, <2>1, <2>2, <2>3, <1>0, Zenon DEF PlacedOf, Locked
    <3> QED BY <1>0, <1>9, <2>0, <2>1, <2>3, <3>2, Zenon DEF Placed, Locked
  <2>4. CASE Go(n, "reopen") /\ UNCHANGED <<target, backup>>
    <3>1. pc'[n] = "reopen" BY <1>5, <2>4, Zenon
    <3>2. PlacedOf(n)' BY <1>0, <1>2, <2>0, <2>1, <2>2, <2>4, <3>1, Zenon DEF PlacedOf, Locked
    <3> QED BY <1>0, <1>9, <2>0, <2>1, <2>4, <3>2, Zenon DEF Placed, Locked
  <2> QED BY <1>10, <2>3, <2>4, Zenon DEF Preserve
<1>11. CASE Install(n)
  <2>0. pc[n] = "install" /\ UNCHANGED <<backup, opened, superseded>>
    BY <1>11, Zenon DEF Install, At
  <2>1. ~opened /\ temporary[n] = File(<<n>>, TRUE) /\ backup[n] # Absent /\ target = Absent
    BY <1>2, <2>0, Zenon DEF PlacedOf, Locked
  <2>2. kind[n] = "restore" BY <1>1, <2>0, Zenon DEF RestoreSteps, Locked
  <2>3. CASE Go(n, "open") /\ target' = temporary[n] /\ temporary' = Put(temporary, n, Absent)
    <3>1. pc'[n] = "open" BY <1>5, <2>3, Zenon
    <3>2. PlacedOf(n)' BY <1>0, <1>2, <2>0, <2>1, <2>2, <2>3, <3>1, Zenon DEF PlacedOf, Locked
    <3> QED BY <1>0, <1>6, <1>9, <2>0, <2>1, <2>3, <3>2, Zenon DEF Placed, Locked
  <2>4. CASE Go(n, "undo") /\ UNCHANGED <<target, temporary>>
    <3>1. pc'[n] = "undo" BY <1>5, <2>4, Zenon
    <3>2. PlacedOf(n)' BY <1>0, <1>2, <2>0, <2>1, <2>2, <2>4, <3>1, Zenon DEF PlacedOf, Locked
    <3> QED BY <1>0, <1>9, <2>0, <2>1, <2>4, <3>2, Zenon DEF Placed, Locked
  <2> QED BY <1>11, <2>3, <2>4, Zenon DEF Install
<1>12. CASE OpenTarget(n)
  <2>0. pc[n] = "open" /\ UNCHANGED <<target, temporary, backup>>
    BY <1>12, Zenon DEF OpenTarget, At, files
  <2>1. ~opened /\ target = File(<<n>>, TRUE) /\ backup[n] # Absent
    BY <1>2, <2>0, Zenon DEF PlacedOf, Locked
  <2>2. kind[n] = "restore" BY <1>1, <2>0, Zenon DEF RestoreSteps, Locked
  <2>3. CASE /\ opened' = TRUE /\ Go(n, "cleanup")
             /\ superseded' = superseded \cup Range(backup[n].data)
    <3>1. pc'[n] = "cleanup" BY <1>5, <2>3, Zenon
    <3>2. In(backup'[n]) \subseteq superseded' BY <2>0, <2>1, <2>3, Zenon DEF In
    <3>3. PlacedOf(n)'
      BY <1>0, <1>2, <2>0, <2>1, <2>2, <2>3, <3>1, <3>2, Zenon DEF PlacedOf, Locked
    <3> QED BY <1>0, <1>6, <1>9, <2>0, <2>1, <2>3, <3>3, Zenon DEF Placed, Locked
  <2>4. CASE Go(n, "remove_target") /\ UNCHANGED <<opened, superseded>>
    <3>1. pc'[n] = "remove_target" BY <1>5, <2>4, Zenon
    <3>2. PlacedOf(n)' BY <1>0, <1>2, <2>0, <2>1, <2>2, <2>4, <3>1, Zenon DEF PlacedOf, Locked
    <3> QED BY <1>0, <1>9, <2>0, <2>1, <2>4, <3>2, Zenon DEF Placed, Locked
  <2> QED BY <1>12, <2>3, <2>4, Zenon DEF OpenTarget
<1>13. CASE Cleanup(n)
  <2>0. pc[n] = "cleanup" /\ UNCHANGED <<target, opened, superseded>>
    BY <1>13, Zenon DEF Cleanup, At
  <2>1. kind[n] = "restore" BY <1>1, <2>0, Zenon DEF RestoreSteps, Locked
  <2>2. backup'[n] \in {Absent, backup[n]} BY <1>4, <1>13, Zenon DEF Cleanup
  <2>3. PlacedOf(n)' BY <1>0, <1>13, <2>1, <2>2, LeavePlaced, Zenon DEF Cleanup
  <2>4. /\ temporary' = temporary \/ \E f : temporary' = Put(temporary, n, f)
        /\ backup' = backup \/ \E f : backup' = Put(backup, n, f)
    BY <1>13, Zenon DEF Cleanup, Leave
  <2> QED BY <1>0, <1>9, <2>0, <2>3, <2>4, Zenon DEF Placed, Locked
<1>14. CASE RemoveTarget(n)
  <2>0. /\ pc[n] = "remove_target" /\ UNCHANGED <<temporary, backup, opened, superseded>>
        /\ target' \in {Absent, target}
    BY <1>14, Zenon DEF RemoveTarget, At
  <2>1. ~opened /\ target = File(<<n>>, TRUE) /\ backup[n] # Absent
    BY <1>2, <2>0, Zenon DEF PlacedOf, Locked
  <2>2. kind[n] = "restore" BY <1>1, <2>0, Zenon DEF RestoreSteps, Locked
  <2>3. pc'[n] = "undo" BY <1>5, <1>14, Zenon DEF RemoveTarget
  <2>4. PlacedOf(n)' BY <1>0, <1>2, <2>0, <2>1, <2>2, <2>3, Zenon DEF PlacedOf, Locked
  <2> QED BY <1>0, <1>6, <1>9, <2>0, <2>1, <2>4, Zenon DEF Placed, Locked
<1>15. CASE Undo(n)
  <2>0. pc[n] = "undo" /\ UNCHANGED <<temporary, opened, superseded>>
    BY <1>15, Zenon DEF Undo, At
  <2>1. ~opened /\ backup[n] # Absent /\ backup[n].checked
    BY <1>2, <2>0, Zenon DEF PlacedOf, Locked
  <2>2. kind[n] = "restore" BY <1>1, <2>0, Zenon DEF RestoreSteps, Locked
  <2>3. pc'[n] = "reopen" BY <1>5, <1>15, Zenon DEF Undo
  <2>4. CASE target' = backup[n] /\ backup' = Put(backup, n, Absent)
    <3>1. backup'[n] = Absent BY <1>4, <2>4, Zenon
    <3>2. PlacedOf(n)' BY <1>0, <2>0, <2>1, <2>2, <2>3, <3>1, Zenon DEF PlacedOf, Locked
    <3> QED BY <1>0, <1>9, <2>0, <2>1, <2>4, <3>2, Zenon DEF Placed, Locked
  <2>5. CASE UNCHANGED <<target, backup>>
    <3>1. PlacedOf(n)' BY <1>0, <2>0, <2>1, <2>2, <2>3, <2>5, Zenon DEF PlacedOf, Locked
    <3> QED BY <1>0, <1>9, <2>0, <2>1, <2>5, <3>1, Zenon DEF Placed, Locked
  <2> QED BY <1>15, <2>4, <2>5, Zenon DEF Undo
<1>16. CASE Reopen(n)
  <2>0. /\ pc[n] = "reopen" /\ UNCHANGED <<target, backup, superseded>>
        /\ Leave(n, "internal_error")
    BY <1>16, Zenon DEF Reopen, At
  <2>4. opened' => opened \/ target # Absent BY <1>16, Zenon DEF Reopen
  <2>1. kind[n] = "restore" BY <1>1, <2>0, Zenon DEF RestoreSteps, Locked
  <2>2. PlacedOf(n)' BY <1>0, <2>0, <2>1, LeavePlaced, Zenon
  <2>3. temporary' = Put(temporary, n, Absent) BY <2>0, Zenon DEF Leave
  <2> QED BY <1>0, <1>9, <2>0, <2>2, <2>3, <2>4, Zenon DEF Placed, Locked
<1> QED
  BY <1>7, <1>8, <1>10, <1>11, <1>12, <1>13, <1>14, <1>15, <1>16, Zenon DEF RestoreStep

\* A write is applied to the file that is open, while no restore has the mutex.
LEMMA ExecutePlaced ==
  ASSUME Types, Control, Placed, NEW n \in Requests, Execute(n) \/ DeadlinePassed(n)
  PROVE  Placed'
<1>0. /\ UNCHANGED kind /\ pc[n] = "execute"
      /\ \A m \in Requests : m # n => pc'[m] = pc[m]
  BY WorkerFrame, Zenon DEF Execute, DeadlinePassed
<1>1. pc'[n] = "done" BY Zenon DEF Execute, DeadlinePassed, Return, Types
<1>2. UNCHANGED <<temporary, backup, opened, superseded>>
  BY Zenon DEF Execute, DeadlinePassed, files
<1>3. kind[n] = "write" /\ PlacedOf(n) BY <1>0, Zenon DEF Control, ControlOf, Placed
<1>4. PlacedOf(n)' BY <1>0, <1>1, <1>2, <1>3, Zenon DEF PlacedOf, Locked
<1>5. CASE UNCHANGED target
  <2>1. ASSUME NEW m \in Requests, m # n PROVE PlacedOf(m)'
    BY <1>0, <1>2, <1>5, <2>1, Zenon DEF Placed, PlacedOf
  <2> QED BY <1>2, <1>4, <1>5, <2>1, Zenon DEF Placed
<1>6. CASE Execute(n) /\ opened /\ target' = [target EXCEPT !.data = @ \o batch[n]]
  <2>1. lock = Nobody BY <1>6, Zenon DEF Execute
  <2>2. ASSUME NEW m \in Requests, m # n PROVE PlacedOf(m)'
    BY <1>0, <1>2, <2>1, <2>2, OthersPlaced, Zenon
  <2>3. target \in Files /\ target.checked BY <1>6, Zenon DEF Types, Placed
  <2>4. target'.checked BY <1>6, <2>3 DEF Files
  <2>5. target' # Absent
    <3>1. DOMAIN target' = {"data", "checked"} /\ target'.data = target.data \o batch[n]
      BY <1>6, <2>3 DEF Files
    <3>2. target.data \o batch[n] \in Seq(Requests) BY <2>3, RangeConcat DEF Types, Files
    <3>3. target' \in Files BY <1>6, <2>3, <3>2, Zenon DEF Files
    <3> QED BY <3>3, HttpMarkers, Zenon
  <2> QED BY <1>2, <1>4, <2>2, <2>4, <2>5, Zenon DEF Placed
<1> QED BY <1>5, <1>6, Zenon DEF Execute, DeadlinePassed, files

\* A request that arrives has no files yet.
LEMMA ArrivePlaced ==
  ASSUME Types, Control, Placed, NEW k \in {"write", "queued", "restore"},
         NEW b \in Seq(Requests),
         NEW here \in {"done", "execute", "prepare"}, Arrive(k, b, here),
         UNCHANGED <<files, opened, superseded>>
  PROVE  Placed'
<1>1. Number \in Requests /\ Number > last BY ArriveTypes, Zenon
<1>2. /\ pc'[Number] = here
      /\ \A m \in Requests : m # Number => kind'[m] = kind[m] /\ pc'[m] = pc[m]
  BY <1>1, Zenon DEF Arrive, Types
<1>3. backup[Number] = Absent
  <2>1. kind[Number] # "restore" BY <1>1, Zenon DEF Control, ControlOf
  <2> QED BY <1>1, <2>1, Zenon DEF Placed, PlacedOf
<1>4. ASSUME NEW m \in Requests, m # Number PROVE PlacedOf(m)'
  BY <1>2, <1>4, Zenon DEF Placed, PlacedOf, files
<1>5. ASSUME NEW m \in Requests, m = Number PROVE PlacedOf(m)'
  BY <1>2, <1>3, <1>5, Zenon DEF PlacedOf, files, Locked
<1> QED BY <1>4, <1>5, Zenon DEF Placed, files

\* Handlers move no file; a crash leaves them, and a start finds or makes one.
LEMMA HandlerPlaced ==
  ASSUME Types, Control, Placed, OtherStep
  PROVE  Placed'
<1> USE DEF OtherStep
<1>0. <<>> \in Seq(Requests) OBVIOUS
<1>1. CASE Query
  <2>1. Number \in Requests BY <1>1, HttpBounds DEF Types, Arrive, Number, Requests, Query
  <2>2. <<Number>> \in Seq(Requests) BY <2>1
  <2> QED BY <1>1, <2>2, ArrivePlaced, Zenon DEF Query, slot, history
<1>2. CASE ImportSnapshot BY <1>0, <1>2, ArrivePlaced, Zenon DEF ImportSnapshot, slot, history
<1>3. CASE ImportLogical BY <1>0, <1>3, ArrivePlaced, Zenon DEF ImportLogical, slot
<1>4. ASSUME NEW s \in SessionIds, Commit(s) PROVE Placed'
  <2>1. transaction[s] \in Seq(Requests) BY <1>4, Zenon DEF Commit, Types
  <2> QED BY <1>4, <2>1, ArrivePlaced, Zenon DEF Commit, Elsewhere, slot
<1>5. ASSUME NEW s \in SessionIds, Queue(s) PROVE Placed'
  BY <1>0, <1>5, ArrivePlaced, Zenon DEF Queue, Elsewhere, slot
<1>6. ASSUME UNCHANGED <<files, opened, superseded, kind, pc>> PROVE Placed'
  BY <1>6, Zenon DEF Placed, PlacedOf, files
<1>7. ASSUME NEW s \in SessionIds, CreateSession(s) \/ DeleteSession(s) \/ Begin(s) \/ Rollback(s)
      PROVE  Placed'
  BY <1>6, <1>7, Zenon DEF CreateSession, DeleteSession, Begin, Rollback, Elsewhere, slot, work
<1>8. ASSUME NEW n \in Requests, Timer(n) \/ Answer(n) PROVE Placed'
  BY <1>6, <1>8, Zenon DEF Timer, Answer, slot, work, history
<1>9. CASE Crash
  <2>1. /\ \A n \in Requests : pc'[n] = "done"
        /\ UNCHANGED <<files, kind>> /\ ~opened'
    BY <1>9, Zenon DEF Crash, work
  <2>2. ASSUME NEW n \in Requests PROVE PlacedOf(n)'
    BY <2>1, Zenon DEF Placed, PlacedOf, files, Locked
  <2> QED BY <2>1, <2>2, Zenon DEF Placed, files
<1>10. CASE Start
  <2>1. \A n \in Requests : pc[n] = "done" BY <1>10, Zenon DEF Start, Control, ControlOf
  <2>2. UNCHANGED <<temporary, backup, pc, kind, superseded>>
    BY <1>10, Zenon DEF Start, work, history
  <2>3. ASSUME NEW n \in Requests PROVE PlacedOf(n)'
    BY <2>1, <2>2, Zenon DEF Placed, PlacedOf, Locked
  <2>4. File(<<>>, TRUE) # Absent /\ File(<<>>, TRUE).checked
    <3>1. File(<<>>, TRUE) \in Files BY DEF File, Files
    <3> QED BY <3>1, HttpMarkers, Zenon DEF File
  <2>5. target' # Absent /\ target'.checked BY <1>10, <2>4, Zenon DEF Start, Placed
  <2> QED BY <2>3, <2>5, Zenon DEF Placed
<1>11. CASE UNCHANGED vars BY <1>6, <1>11, Zenon DEF vars, slot, work, history
<1> QED BY <1>1, <1>2, <1>3, <1>4, <1>5, <1>7, <1>8, <1>9, <1>10, <1>11, Zenon

-----------------------------------------------------------------------------
(* Who has a statement.                                                     *)

\* Queues and batches hold numbers of requests.
LEMMA QueuedType ==
  ASSUME Types
  PROVE  /\ \A s \in SessionIds : Queued(s) \subseteq Requests
         /\ \A w \in Requests : Range(batch[w]) \subseteq Requests
<1>1. ASSUME NEW s \in SessionIds PROVE Queued(s) \subseteq Requests
  BY RangeType, Zenon DEF Queued, Types
<1>2. ASSUME NEW w \in Requests PROVE Range(batch[w]) \subseteq Requests
  BY RangeType, Zenon DEF Types
<1> QED BY <1>1, <1>2, Zenon

\* A new number is nobody's.
LEMMA FreshNumber ==
  ASSUME Types, Control, Owned, NEW n \in Requests, kind[n] = "none"
  PROVE  /\ n \notin discarded
         /\ \A s \in SessionIds : n \notin Queued(s)
         /\ \A w \in Requests : n \notin Range(batch[w])
         /\ Range(batch[n]) = {}
BY Zenon DEF Owned

\* A request that arrives owns its number and what it takes from a queue.
LEMMA ArriveOwned ==
  ASSUME Types, Control, Owned, NEW k \in {"write", "queued", "restore"}, NEW b \in Seq(Requests),
         NEW here \in {"done", "execute", "prepare"}, Arrive(k, b, here), UNCHANGED discarded,
         \A m \in Range(b) : k = "write" /\ (m = Number \/ \E t \in SessionIds : m \in Queued(t)),
         NEW s,
         \A t \in SessionIds : \A m \in Queued(t)' :
            \/ m \in Queued(t) /\ m \notin Range(b)
            \/ m = Number /\ k = "queued" /\ t = s
  PROVE  Owned'
<1>1. Number \in Requests /\ Number > last BY ArriveTypes, Zenon
<1>2. kind[Number] = "none" BY <1>1, Zenon DEF Control, ControlOf
<1>3. /\ kind'[Number] = k /\ batch'[Number] = b
      /\ \A m \in Requests : m # Number => kind'[m] = kind[m] /\ batch'[m] = batch[m]
  BY <1>1, Zenon DEF Arrive, Types
<1>4. /\ Number \notin discarded
      /\ \A t \in SessionIds : Number \notin Queued(t)
      /\ \A w \in Requests : Number \notin Range(batch[w])
  BY <1>1, <1>2, FreshNumber, Zenon
<1>5. /\ Range(b) \subseteq Requests
      /\ \A t \in SessionIds : Queued(t) \subseteq Requests
      /\ \A w \in Requests : Range(batch[w]) \subseteq Requests
  BY QueuedType, RangeType, Zenon
<1>6. \A m \in Range(b) : /\ m \notin discarded
                          /\ \A w \in Requests : m \notin Range(batch[w])
                          /\ kind'[m] \in {"write", "queued"}
  <2> SUFFICES ASSUME NEW m \in Range(b)
               PROVE  /\ m \notin discarded
                      /\ \A w \in Requests : m \notin Range(batch[w])
                      /\ kind'[m] \in {"write", "queued"}
    BY Zenon
  <2>1. CASE m = Number BY <1>3, <1>4, <2>1, Zenon
  <2>2. ASSUME NEW t \in SessionIds, m \in Queued(t)
        PROVE  /\ m \notin discarded
               /\ \A w \in Requests : m \notin Range(batch[w])
               /\ kind'[m] \in {"write", "queued"}
    <3>1. /\ kind[m] = "queued" /\ m \notin discarded
          /\ \A w \in Requests : m \notin Range(batch[w])
      BY <2>2, Zenon DEF Owned
    <3> QED BY <1>3, <1>4, <1>5, <2>2, <3>1, Zenon
  <2> QED BY <2>1, <2>2, Zenon
<1>7. ASSUME NEW w \in Requests, NEW m \in Range(batch'[w])
      PROVE  /\ kind'[w] = "write" /\ kind'[m] \in {"write", "queued"}
             /\ m \notin discarded'
             /\ \A v \in Requests : m \in Range(batch'[v]) => v = w
  <2>1. CASE w = Number
    <3>1. m \in Range(b) /\ k = "write" BY <1>3, <1>7, <2>1, Zenon
    <3>2. ASSUME NEW v \in Requests, m \in Range(batch'[v]) PROVE v = w
      BY <1>3, <1>6, <2>1, <3>1, <3>2, Zenon
    <3> QED BY <1>3, <1>6, <2>1, <3>1, <3>2, Zenon
  <2>2. CASE w # Number
    <3>1. m \in Range(batch[w]) BY <1>3, <1>7, <2>2, Zenon
    <3>2. m \in Requests /\ m # Number /\ m \notin Range(b) BY <1>4, <1>5, <1>6, <3>1, Zenon
    <3>3. ASSUME NEW v \in Requests, m \in Range(batch'[v]) PROVE v = w
      <4>1. v # Number BY <1>3, <3>2, <3>3, Zenon
      <4> QED BY <1>3, <3>1, <3>3, <4>1, Zenon DEF Owned
    <3>4. /\ kind[w] = "write" /\ kind[m] \in {"write", "queued"} /\ m \notin discarded
      BY <3>1, Zenon DEF Owned
    <3> QED BY <1>3, <2>2, <3>2, <3>3, <3>4, Zenon
  <2> QED BY <2>1, <2>2, Zenon
<1>8. ASSUME NEW t \in SessionIds, NEW m \in Queued(t)'
      PROVE  /\ kind'[m] = "queued" /\ m \notin discarded'
             /\ \A w \in Requests : m \notin Range(batch'[w])
             /\ \A u \in SessionIds : m \in Queued(u)' => u = t
  <2>1. CASE m \in Queued(t) /\ m \notin Range(b)
    <3>1. m \in Requests /\ m # Number BY <1>4, <1>5, <2>1, Zenon
    <3>2. /\ kind[m] = "queued" /\ m \notin discarded
          /\ \A w \in Requests : m \notin Range(batch[w])
          /\ \A u \in SessionIds : m \in Queued(u) => u = t
      BY <2>1, Zenon DEF Owned
    <3>3. \A w \in Requests : m \notin Range(batch'[w]) BY <1>3, <2>1, <3>2, Zenon
    <3>4. \A u \in SessionIds : m \in Queued(u)' => u = t BY <3>1, <3>2, Zenon
    <3> QED BY <1>3, <3>1, <3>2, <3>3, <3>4, Zenon
  <2>2. CASE m = Number /\ k = "queued" /\ t = s
    <3>1. \A w \in Requests : m \notin Range(batch'[w])
      BY <1>3, <1>4, <2>2, Zenon
    <3>2. \A u \in SessionIds : m \in Queued(u)' => u = t BY <1>4, <2>2, Zenon
    <3> QED BY <1>3, <1>4, <2>2, <3>1, <3>2, Zenon
  <2> QED BY <1>8, <2>1, <2>2, Zenon
<1>9. ASSUME NEW m \in discarded' PROVE m \in Requests /\ kind'[m] = "queued"
  <2>1. m \in discarded => m \in Requests /\ kind[m] = "queued" BY Zenon DEF Owned
  <2> QED BY <1>3, <1>4, <1>9, <2>1, Zenon
<1> QED BY <1>7, <1>8, <1>9, Zenon DEF Owned

\* Statements leave queues, and those that are discarded leave all of them.
LEMMA DiscardOwned ==
  ASSUME Types, Owned, UNCHANGED <<kind, batch>>, NEW D, discarded' = discarded \cup D,
         \A m \in D : \E t \in SessionIds : m \in Queued(t),
         \A t \in SessionIds : Queued(t)' \subseteq Queued(t) /\ Queued(t)' \cap D = {}
  PROVE  Owned'
<1>1. ASSUME NEW m \in D
      PROVE  m \in Requests /\ kind[m] = "queued" /\ \A w \in Requests : m \notin Range(batch[w])
  BY <1>1, QueuedType, Zenon DEF Owned
<1>2. ASSUME NEW w \in Requests, NEW m \in Range(batch'[w])
      PROVE  /\ kind'[w] = "write" /\ kind'[m] \in {"write", "queued"}
             /\ m \notin discarded'
             /\ \A v \in Requests : m \in Range(batch'[v]) => v = w
  BY <1>1, <1>2, Zenon DEF Owned
<1>3. ASSUME NEW t \in SessionIds, NEW m \in Queued(t)'
      PROVE  /\ kind'[m] = "queued" /\ m \notin discarded'
             /\ \A w \in Requests : m \notin Range(batch'[w])
             /\ \A u \in SessionIds : m \in Queued(u)' => u = t
  BY <1>3, Zenon DEF Owned
<1>4. ASSUME NEW m \in discarded' PROVE m \in Requests /\ kind'[m] = "queued"
  BY <1>1, <1>4, Zenon DEF Owned
<1> QED BY <1>2, <1>3, <1>4, Zenon DEF Owned

\* What each change of a queue does to the set of its statements.
LEMMA QueueChange ==
  ASSUME Types, NEW s \in SessionIds, NEW q \in Seq(Requests) \cup {None},
         transaction' = [transaction EXCEPT ![s] = q]
  PROVE  /\ \A t \in SessionIds : t # s => Queued(t)' = Queued(t)
         /\ Queued(s)' = IF q = None THEN {} ELSE Range(q)
BY Zenon DEF Queued, Types

\* Every step keeps statements owned.
LEMMA OwnedStep ==
  ASSUME Types, Control, Owned, OtherStep
  PROVE  Owned'
<1> USE DEF OtherStep
<1>0. <<>> \in Seq(Requests) /\ Range(<<>>) = {} BY RangeShort
<1>1. ASSUME UNCHANGED transaction, NEW t \in SessionIds PROVE Queued(t)' = Queued(t)
  BY <1>1, Zenon DEF Queued
<1>2. CASE Query
  <2>1. Number \in Requests BY <1>2, HttpBounds DEF Types, Arrive, Number, Requests, Query
  <2>2. <<Number>> \in Seq(Requests) /\ Range(<<Number>>) = {Number} BY <2>1, RangeShort, Zenon
  <2>3. \A t \in SessionIds : Number \notin Queued(t)
    <3>1. Number > last BY <1>2, <2>2, ArriveTypes, Zenon DEF Query
    <3> QED BY <2>1, <3>1, FreshNumber, Zenon DEF Control, ControlOf
  <2>4. UNCHANGED <<transaction, discarded>> BY <1>2, Zenon DEF Query, store, history
  <2>5. Arrive("write", <<Number>>, "execute") BY <1>2, Zenon DEF Query
  <2> QED BY <1>1, <2>2, <2>3, <2>4, <2>5, ArriveOwned, Zenon
<1>3. CASE ImportSnapshot \/ ImportLogical
  <2>1. UNCHANGED <<transaction, discarded>>
    BY <1>3, Zenon DEF ImportSnapshot, ImportLogical, store, history
  <2>2. Arrive("restore", <<>>, "prepare") \/ Arrive("restore", <<>>, "done")
    BY <1>3, Zenon DEF ImportSnapshot, ImportLogical
  <2> QED BY <1>0, <1>1, <2>1, <2>2, ArriveOwned, Zenon
<1>4. ASSUME NEW s \in SessionIds, Commit(s) PROVE Owned'
  <2>1. transaction[s] \in Seq(Requests) BY <1>4, Zenon DEF Commit, Types
  <2>2. Queued(s) = Range(transaction[s]) BY <1>4, Zenon DEF Commit, Queued
  <2>3. Queued(s)' = {} /\ \A t \in SessionIds : t # s => Queued(t)' = Queued(t)
    BY <1>4, QueueChange, Zenon DEF Commit
  <2>4. \A t \in SessionIds : t # s => Queued(t) \cap Range(transaction[s]) = {}
    <3> SUFFICES ASSUME NEW t \in SessionIds, t # s, NEW m \in Queued(t), m \in Queued(s)
                 PROVE  FALSE
      BY <2>2, Zenon
    <3> QED BY Zenon DEF Owned
  <2>5. Arrive("write", transaction[s], "execute") /\ UNCHANGED discarded
    BY <1>4, Zenon DEF Commit
  <2>6. \A t \in SessionIds : \A m \in Queued(t)' :
           m \in Queued(t) /\ m \notin Range(transaction[s])
    BY <2>3, <2>4, Zenon
  <2> QED BY <2>1, <2>2, <2>5, <2>6, ArriveOwned, Zenon
<1>5. ASSUME NEW s \in SessionIds, Queue(s) PROVE Owned'
  <2>1. transaction[s] \in Seq(Requests) /\ transaction[s] # None BY <1>5, Zenon DEF Queue, Types
  <2>2. Arrive("queued", <<>>, "done") /\ UNCHANGED discarded BY <1>5, Zenon DEF Queue
  <2>3. Number \in Requests BY <1>0, <2>2, ArriveTypes, Zenon
  <2>4. /\ Append(transaction[s], Number) \in Seq(Requests)
        /\ Range(Append(transaction[s], Number)) = Queued(s) \cup {Number}
    BY <2>1, <2>3, RangeAppend, Zenon DEF Queued
  <2>5. /\ Queued(s)' = Queued(s) \cup {Number}
        /\ \A t \in SessionIds : t # s => Queued(t)' = Queued(t)
    BY <1>5, <2>4, QueueChange, HttpMarkers, Zenon DEF Queue
  <2>6. \A t \in SessionIds : \A m \in Queued(t)' :
           \/ m \in Queued(t) /\ m \notin Range(<<>>)
           \/ m = Number /\ "queued" = "queued" /\ t = s
    BY <1>0, <2>5, Zenon
  <2>7. \A m \in Range(<<>>) :
           "queued" = "write" /\ (m = Number \/ \E t \in SessionIds : m \in Queued(t))
    BY <1>0, Zenon
  <2> QED BY <1>0, <2>2, <2>6, <2>7, ArriveOwned, Zenon
<1>6. ASSUME NEW s \in SessionIds, DeleteSession(s) \/ Rollback(s) PROVE Owned'
  <2>1. Queued(s)' = {} /\ \A t \in SessionIds : t # s => Queued(t)' = Queued(t)
    BY <1>6, QueueChange, Zenon DEF DeleteSession, Rollback
  <2>2. UNCHANGED <<kind, batch>> /\ discarded' = discarded \cup Queued(s)
    BY <1>6, Zenon DEF DeleteSession, Rollback, work
  <2>3. \A t \in SessionIds : Queued(t)' \subseteq Queued(t) /\ Queued(t)' \cap Queued(s) = {}
    <3>1. ASSUME NEW t \in SessionIds, t # s, NEW m \in Queued(t), m \in Queued(s)
          PROVE  FALSE
      BY <3>1, Zenon DEF Owned
    <3> QED BY <2>1, <3>1, Zenon
  <2> QED BY <2>2, <2>3, DiscardOwned, Zenon
<1>7. ASSUME UNCHANGED <<kind, batch, discarded>>,
             \A t \in SessionIds : Queued(t)' \subseteq Queued(t)
      PROVE  Owned'
  <2>1. discarded' = discarded \cup {} BY <1>7, Zenon
  <2>2. \A t \in SessionIds : Queued(t)' \subseteq Queued(t) /\ Queued(t)' \cap {} = {}
    BY <1>7, Zenon
  <2>3. \A m \in {} : \E t \in SessionIds : m \in Queued(t) BY Zenon
  <2> QED BY <1>7, <2>1, <2>2, <2>3, DiscardOwned, Zenon
<1>8. ASSUME NEW s \in SessionIds, Begin(s) PROVE Owned'
  <2>1. Queued(s)' = {} /\ \A t \in SessionIds : t # s => Queued(t)' = Queued(t)
    BY <1>0, <1>8, QueueChange, Zenon DEF Begin
  <2> QED BY <1>7, <1>8, <2>1, Zenon DEF Begin, work
<1>9. ASSUME NEW s \in SessionIds, CreateSession(s) PROVE Owned'
  BY <1>1, <1>7, <1>9, Zenon DEF CreateSession, work
<1>10. ASSUME NEW n \in Requests, Timer(n) \/ Answer(n) PROVE Owned'
  BY <1>1, <1>7, <1>10, Zenon DEF Timer, Answer, work, store, history
<1>11. CASE Crash
  <2>1. \A t \in SessionIds : Queued(t)' = {} BY <1>11, Zenon DEF Crash, Queued
  <2>2. \A m \in UNION {Queued(s) : s \in SessionIds} : \E t \in SessionIds : m \in Queued(t)
    BY Zenon
  <2>3. /\ UNCHANGED <<kind, batch>>
        /\ discarded' = discarded \cup UNION {Queued(s) : s \in SessionIds}
    BY <1>11, Zenon DEF Crash, work
  <2> QED BY <2>1, <2>2, <2>3, DiscardOwned, Zenon
<1>12. CASE Start BY <1>1, <1>7, <1>12, Zenon DEF Start, work, store, history
<1>13. CASE UNCHANGED vars BY <1>1, <1>7, <1>13, Zenon DEF vars, work, store, history
<1> QED
  BY <1>2, <1>3, <1>4, <1>5, <1>6, <1>8, <1>9, <1>10, <1>11, <1>12, <1>13, Zenon

\* So does every step of a worker.
LEMMA WorkerOwned ==
  ASSUME Types, Owned, NEW n \in Requests, RestoreStep(n) \/ Execute(n) \/ DeadlinePassed(n)
  PROVE  Owned'
<1>1. UNCHANGED <<transaction, kind, batch, discarded>> BY WorkerFrame, Zenon
<1>2. \A t \in SessionIds : Queued(t)' = Queued(t) BY <1>1, Zenon DEF Queued
<1>3. discarded' = discarded \cup {} BY <1>1, Zenon
<1>4. \A t \in SessionIds : Queued(t)' \subseteq Queued(t) /\ Queued(t)' \cap {} = {}
  BY <1>2, Zenon
<1>5. \A m \in {} : \E t \in SessionIds : m \in Queued(t) BY Zenon
<1> QED BY <1>1, <1>3, <1>4, <1>5, DiscardOwned, Zenon

-----------------------------------------------------------------------------
(* What is in the files.                                                    *)

\* Stored, place by place.
LEMMA StoredIs ==
  ASSUME Types
  PROVE  \A f : f \in Stored <=>
                   f # Absent /\ (f = target \/ \E m \in Requests : f = backup[m])
<1>1. Range(backup) = {backup[n] : n \in Requests} BY Zenon DEF Range, Types
<1> QED BY <1>1, Zenon DEF Stored

\* A restore moves files, adds its upload, and gives up its upload or a backup that
\* is superseded.
LEMMA RestoreMoves ==
  ASSUME Types, Types', Control, Placed, NEW n \in Requests, RestoreStep(n)
  PROVE  /\ \A f \in Stored' : f \in Stored \/ (f = File(<<n>>, TRUE) /\ pc[n] = "install")
         /\ \A f \in Stored : \/ f \in Stored'
                              \/ f = File(<<n>>, TRUE)
                              \/ Range(f.data) \subseteq superseded
         /\ superseded \subseteq superseded'
<1> DEFINE Goal == /\ \A f \in Stored' :
                         f \in Stored \/ (f = File(<<n>>, TRUE) /\ pc[n] = "install")
                   /\ \A f \in Stored : \/ f \in Stored'
                                        \/ f = File(<<n>>, TRUE)
                                        \/ Range(f.data) \subseteq superseded
<1>0. \A f : f \in Stored' <=>
                f # Absent /\ (f = target' \/ \E m \in Requests : f = backup'[m])
  <2>1. Range(backup') = {backup'[m] : m \in Requests} BY Zenon DEF Range, Types
  <2> QED BY <2>1, Zenon DEF Stored
<1>1. PlacedOf(n) BY Zenon DEF Placed
<1>2. ASSUME UNCHANGED <<target, backup>> PROVE Goal BY <1>2, Zenon DEF Stored
<1>3. ASSUME NEW f PROVE /\ Put(backup, n, f)[n] = f
                         /\ \A m \in Requests : m # n => Put(backup, n, f)[m] = backup[m]
  BY Zenon DEF Put, Types
<1>4. superseded \subseteq superseded'
  BY Zenon DEF RestoreStep, Prepare, Take, Preserve, Install, OpenTarget, Cleanup,
               RemoveTarget, Undo, Reopen
<1>5. ASSUME Preserve(n), backup' = Put(backup, n, target), target' = Absent PROVE Goal
  <2>1. backup[n] = Absent BY <1>1, <1>5, Zenon DEF Preserve, At, PlacedOf
  <2>3. backup'[n] = target /\ \A m \in Requests : m # n => backup'[m] = backup[m]
    BY <1>3, <1>5, Zenon
  <2>2. ASSUME NEW f PROVE f \in Stored' <=> f \in Stored
    BY <1>0, <1>5, <2>1, <2>3, StoredIs
  <2> QED BY <2>2, Zenon
<1>6. ASSUME Install(n), target' = temporary[n] PROVE Goal
  <2>1. /\ pc[n] = "install" /\ target = Absent /\ target' = File(<<n>>, TRUE)
        /\ UNCHANGED backup
    BY <1>1, <1>6, Zenon DEF Install, At, PlacedOf
  <2>2. \A f \in Stored' : f \in Stored \/ (f = File(<<n>>, TRUE) /\ pc[n] = "install")
    BY <1>0, <2>1, StoredIs, Zenon
  <2>3. \A f \in Stored : f \in Stored' BY <1>0, <2>1, StoredIs, Zenon
  <2> QED BY <2>2, <2>3, Zenon
<1>7. ASSUME Cleanup(n), backup' = Put(backup, n, Absent) PROVE Goal
  <2>1. UNCHANGED target /\ In(backup[n]) \subseteq superseded
    BY <1>1, <1>7, Zenon DEF Cleanup, At, PlacedOf
  <2>4. backup'[n] = Absent /\ \A m \in Requests : m # n => backup'[m] = backup[m]
    BY <1>3, <1>7, Zenon
  <2>2. \A f \in Stored' : f \in Stored BY <1>0, <2>1, <2>4, StoredIs, Zenon
  <2>3. \A f \in Stored : f \in Stored' \/ Range(f.data) \subseteq superseded
    BY <1>0, <2>1, <2>4, StoredIs DEF In
  <2> QED BY <2>2, <2>3, Zenon
<1>8. ASSUME RemoveTarget(n), target' = Absent PROVE Goal
  <2>1. UNCHANGED backup /\ target = File(<<n>>, TRUE)
    BY <1>1, <1>8, Zenon DEF RemoveTarget, At, PlacedOf
  <2> QED BY <1>0, <1>8, <2>1, StoredIs, Zenon
<1>9. ASSUME Undo(n), target' = backup[n], backup' = Put(backup, n, Absent) PROVE Goal
  <2>1. backup[n] # Absent /\ target \in {Absent, File(<<n>>, TRUE)}
    BY <1>1, <1>9, Zenon DEF Undo, At, PlacedOf
  <2>4. backup'[n] = Absent /\ \A m \in Requests : m # n => backup'[m] = backup[m]
    BY <1>3, <1>9, Zenon
  <2>2. \A f \in Stored' : f \in Stored BY <1>0, <1>9, <2>4, StoredIs
  <2>3. \A f \in Stored : f \in Stored' \/ f = File(<<n>>, TRUE)
    <3> SUFFICES ASSUME NEW f \in Stored, f # File(<<n>>, TRUE) PROVE f \in Stored' BY Zenon
    <3>1. PICK m \in Requests : f = backup[m] BY <2>1, StoredIs, Zenon
    <3>2. f # Absent BY StoredIs, Zenon
    <3>3. CASE m = n BY <1>0, <1>9, <3>1, <3>2, <3>3, Zenon
    <3>4. CASE m # n BY <1>0, <2>4, <3>1, <3>2, <3>4, Zenon
    <3> QED BY <3>3, <3>4, Zenon
  <2> QED BY <2>2, <2>3, Zenon
<1>10. Goal
  BY <1>2, <1>5, <1>6, <1>7, <1>8, <1>9, Zenon
  DEF RestoreStep, Prepare, Take, Preserve, Install, OpenTarget, Cleanup, RemoveTarget, Undo,
      Reopen, files
<1> QED BY <1>4, <1>10, Zenon

\* The same for what is written, and what the worker returns.
LEMMA RestoreWrites ==
  ASSUME Types, Types', Control, Placed, NEW n \in Requests, RestoreStep(n)
  PROVE  /\ kind[n] = "restore" /\ outcome[n] = "none" /\ answer[n] = "none"
         /\ \A m \in Written' : m \in Written \/ (m = n /\ pc[n] = "install")
         /\ \A m \in superseded \cup Written : m \in superseded' \cup Written' \/ m = n
         /\ outcome'[n] = "refused" => pc[n] \in {"prepare", "take"}
         /\ outcome'[n] = "ok" => n \in Written'
         /\ pc[n] = "install" => pc'[n] \in {"open", "undo"}
         /\ pc'[n] \in {"prepare", "take", "preserve", "install"} =>
               pc[n] \in {"prepare", "take", "preserve", "install"}
<1>1. kind[n] = "restore" /\ outcome[n] = "none" /\ answer[n] = "none"
  <2>1. pc[n] \in RestoreSteps
    BY Zenon
    DEF RestoreStep, RestoreSteps, Locked, At, Prepare, Take, Preserve,
      Install, OpenTarget, Cleanup, RemoveTarget, Undo, Reopen
  <2> QED BY <2>1, WorkerFrame, Zenon DEF Control, ControlOf
<1>2. Range(File(<<n>>, TRUE).data) = {n}
  <2>1. File(<<n>>, TRUE).data = <<n>> BY DEF File
  <2> QED BY <2>1, RangeShort, Zenon
<1>3. \A m \in Written' : m \in Written \/ (m = n /\ pc[n] = "install")
  <2> SUFFICES ASSUME NEW f \in Stored', NEW m \in Range(f.data)
               PROVE  m \in Written \/ (m = n /\ pc[n] = "install")
    BY Zenon DEF Written
  <2>1. f \in Stored \/ (f = File(<<n>>, TRUE) /\ pc[n] = "install") BY RestoreMoves, Zenon
  <2> QED BY <1>2, <2>1, Zenon DEF Written
<1>4. \A m \in superseded \cup Written : m \in superseded' \cup Written' \/ m = n
  <2>1. superseded \subseteq superseded' BY RestoreMoves, Zenon
  <2>2. ASSUME NEW f \in Stored, NEW m \in Range(f.data)
        PROVE  m \in superseded' \cup Written' \/ m = n
    <3>1. f \in Stored' \/ f = File(<<n>>, TRUE) \/ Range(f.data) \subseteq superseded
      BY RestoreMoves, Zenon
    <3> QED BY <1>2, <2>1, <2>2, <3>1, Zenon DEF Written
  <2> QED BY <2>1, <2>2, Zenon DEF Written
<1>5. ASSUME NEW r, Return(n, r) \/ Leave(n, r)
      PROVE  outcome'[n] = r /\ pc'[n] = "done"
  <2>1. DOMAIN pc = Requests /\ DOMAIN outcome = Requests BY Zenon DEF Types
  <2> QED BY <1>5, <2>1, Zenon DEF Return, Leave
<1>6. ASSUME NEW p, Go(n, p) \/ (pc' = [pc EXCEPT ![n] = p] /\ UNCHANGED outcome)
      PROVE  outcome'[n] = "none" /\ pc'[n] = p
  BY <1>1, <1>6, Zenon DEF Go, Types
<1>7. CASE Prepare(n)
  <2>1. pc[n] = "prepare" BY <1>7, Zenon DEF Prepare, At
  <2>2. outcome'[n] # "ok"
    <3>1. CASE \E r \in {"refused", "internal_error"} : Leave(n, r)
      <4>1. outcome'[n] \in {"refused", "internal_error"} BY <1>5, <3>1, Zenon
      <4> QED BY <4>1, Zenon
    <3>2. CASE Go(n, "take")
      <4>1. outcome'[n] = "none" BY <1>6, <3>2, Zenon
      <4> QED BY <4>1, Zenon
    <3> QED BY <1>7, <3>1, <3>2, Zenon DEF Prepare
  <2> QED BY <1>1, <1>3, <1>4, <2>1, <2>2, Zenon
<1>8. CASE Take(n)
  <2>1. pc[n] = "take" BY <1>8, Zenon DEF Take, At
  <2>2. outcome'[n] # "ok"
    <3>1. CASE \E r \in {"refused", "internal_error"} : Leave(n, r)
      <4>1. outcome'[n] \in {"refused", "internal_error"} BY <1>5, <3>1, Zenon
      <4> QED BY <4>1, Zenon
    <3>2. CASE pc' = [pc EXCEPT ![n] = "preserve"] /\ UNCHANGED outcome
      <4>1. outcome'[n] = "none" BY <1>6, <3>2, Zenon
      <4> QED BY <4>1, Zenon
    <3> QED BY <1>8, <3>1, <3>2, Zenon DEF Take
  <2> QED BY <1>1, <1>3, <1>4, <2>1, <2>2, Zenon
<1>9. CASE Preserve(n) \/ Install(n)
  <2>1. outcome'[n] = "none" BY <1>6, <1>9, Zenon DEF Preserve, Install
  <2>2. pc[n] \in {"preserve", "install"} /\ (pc[n] = "install" => Install(n))
    BY <1>9, Zenon DEF Preserve, Install, At
  <2>3. pc[n] = "install" => pc'[n] \in {"open", "undo"} BY <1>6, <2>2, Zenon DEF Install
  <2> QED BY <1>1, <1>3, <1>4, <2>1, <2>2, <2>3, Zenon
<1>10. CASE OpenTarget(n) \/ RemoveTarget(n) \/ Undo(n)
  <2>1. outcome'[n] = "none" /\ pc'[n] \in {"cleanup", "remove_target", "undo", "reopen"}
    BY <1>6, <1>10, Zenon DEF OpenTarget, RemoveTarget, Undo
  <2>2. pc[n] # "install" BY <1>10, Zenon DEF OpenTarget, RemoveTarget, Undo, At
  <2> QED BY <1>1, <1>3, <1>4, <2>1, <2>2, Zenon
<1>11. CASE Cleanup(n) \/ Reopen(n)
  <2>1. /\ pc'[n] = "done" /\ outcome'[n] \in {"ok", "internal_error"}
        /\ Cleanup(n) \/ outcome'[n] = "internal_error"
    <3>1. CASE Reopen(n)
      <4>1. Leave(n, "internal_error") BY <3>1, Zenon DEF Reopen
      <4> QED BY <1>5, <4>1, Zenon
    <3>2. CASE Cleanup(n)
      <4>1. Leave(n, "ok") \/ Leave(n, "internal_error") BY <3>2, Zenon DEF Cleanup
      <4> QED BY <1>5, <3>2, <4>1, Zenon
    <3> QED BY <1>11, <3>1, <3>2, Zenon
  <2>2. pc[n] # "install" BY <1>11, Zenon DEF Cleanup, Reopen, At
  <2>3. ASSUME Cleanup(n) PROVE n \in Written'
    <3>1. target = File(<<n>>, TRUE) /\ UNCHANGED target
      BY <2>3, Zenon DEF Cleanup, At, Placed, PlacedOf
    <3>2. target' # Absent
      <4>1. File(<<n>>, TRUE) \in Files BY RangeShort DEF File, Files
      <4> QED BY <3>1, <4>1, HttpMarkers, Zenon
    <3>3. n \in Range(target'.data) BY <1>2, <3>1, Zenon
    <3> QED BY <3>2, <3>3, Zenon DEF Written, Stored
  <2> QED BY <1>1, <1>3, <1>4, <1>11, <2>1, <2>2, <2>3, Zenon
<1> QED BY <1>7, <1>8, <1>9, <1>10, <1>11, Zenon DEF RestoreStep

\* What a restore has installed it does not report as refused.
LEMMA RestoreApplied ==
  ASSUME Types, Types', Control, Placed, Owned, Applied, NEW n \in Requests, RestoreStep(n)
  PROVE  Applied'
<1>0. Written \subseteq Requests BY WrittenIs, Zenon
<1>1. /\ UNCHANGED <<transaction, kind, batch, answer, discarded>>
      /\ \A m \in Requests : m # n => pc'[m] = pc[m] /\ outcome'[m] = outcome[m]
  BY WorkerFrame, Zenon
<1>2. /\ kind[n] = "restore" /\ outcome[n] = "none" /\ answer[n] = "none"
      /\ \A m \in Written' : m \in Written \/ (m = n /\ pc[n] = "install")
      /\ outcome'[n] = "refused" => pc[n] \in {"prepare", "take"}
      /\ pc[n] = "install" => pc'[n] \in {"open", "undo"}
      /\ pc'[n] \in {"prepare", "take", "preserve", "install"} =>
            pc[n] \in {"prepare", "take", "preserve", "install"}
  BY RestoreWrites, Zenon
<1>3. \A t \in SessionIds : Queued(t)' = Queued(t) BY <1>1, Zenon DEF Queued
<1>4. \A w \in Requests : n \notin Range(batch[w]) /\ (Range(batch[w]) # {} => w # n)
  BY <1>2, Zenon DEF Owned
<1>5. n \notin discarded /\ \A t \in SessionIds : n \notin Queued(t)
  BY <1>2, Zenon DEF Owned
<1>6. ASSUME NEW m \in Written, m # n PROVE AppliedOf(m)'
  <2>1. AppliedOf(m) /\ m \in Requests BY <1>0, Zenon DEF Applied
  <2>2. ASSUME NEW w \in Requests, m \in Range(batch'[w])
        PROVE  pc'[w] = "done" /\ {outcome'[w], answer'[w]} \subseteq {"none", "ok"}
    BY <1>1, <1>4, <2>1, <2>2, Zenon DEF AppliedOf
  <2> QED BY <1>1, <1>3, <1>6, <2>1, <2>2, Zenon DEF AppliedOf
<1>7. ASSUME n \in Written \/ pc[n] = "install" PROVE AppliedOf(n)'
  <2>1. pc'[n] \notin {"prepare", "take", "preserve", "install"} /\ outcome'[n] # "refused"
    BY <1>2, <1>7, Zenon DEF Applied, AppliedOf
  <2> QED BY <1>1, <1>2, <1>3, <1>4, <1>5, <2>1, Zenon DEF AppliedOf
<1> QED BY <1>2, <1>6, <1>7, Zenon DEF Applied

\* A write appends its batch or leaves everything as it was.
LEMMA ExecuteWrites ==
  ASSUME Types, Types', Control, Placed, NEW n \in Requests, Execute(n) \/ DeadlinePassed(n)
  PROVE  /\ pc[n] = "execute" /\ kind[n] = "write" /\ pc'[n] = "done" /\ answer[n] = "none"
         /\ UNCHANGED <<superseded, backup, lock, opened, faults>>
         /\ \/ /\ outcome'[n] = "ok" /\ lock = Nobody /\ target \in Files /\ target' \in Files
               /\ target'.data = target.data \o batch[n]
               /\ \A m : m \in Written' <=> m \in Written \/ m \in Range(batch[n])
            \/ /\ outcome'[n] \in {"failed", "cancelled", "internal_error"}
               /\ UNCHANGED target /\ Written' = Written
<1>1. pc[n] = "execute" /\ UNCHANGED <<superseded, backup, opened, faults>>
  BY Zenon DEF Execute, DeadlinePassed, files
<1>2. kind[n] = "write" /\ answer[n] = "none" /\ lock # n
  BY <1>1, Zenon DEF Control, ControlOf, Locked
<1>3. ASSUME NEW r, Return(n, r) PROVE pc'[n] = "done" /\ outcome'[n] = r /\ UNCHANGED lock
  <2>1. DOMAIN pc = Requests /\ DOMAIN outcome = Requests BY Zenon DEF Types
  <2> QED BY <1>2, <1>3, <2>1, Zenon DEF Return
<1>4. CASE UNCHANGED target /\ \E r \in {"failed", "cancelled", "internal_error"} : Return(n, r)
  <2>1. Written' = Written BY <1>1, <1>4, Zenon DEF Written, Stored
  <2> QED BY <1>1, <1>2, <1>3, <1>4, <2>1, Zenon
<1>5. CASE /\ opened /\ Return(n, "ok") /\ lock = Nobody
           /\ target' = [target EXCEPT !.data = @ \o batch[n]]
  <2>1. target \in Files BY <1>5, Zenon DEF Types, Placed
  <2>2. target.data \in Seq(Requests) /\ batch[n] \in Seq(Requests) BY <2>1 DEF Types, Files
  <2>3. target.data \o batch[n] \in Seq(Requests)
        /\ Range(target.data \o batch[n]) = Range(target.data) \cup Range(batch[n])
    BY <2>2, RangeConcat, Zenon
  <2>4. target'.data = target.data \o batch[n] BY <1>5, <2>1 DEF Files
  <2>5. target' \in Files BY <1>5, <2>1, <2>3, Zenon DEF Files
  <2>6. target # Absent /\ target' # Absent BY <2>1, <2>5, HttpMarkers, Zenon
  <2>7. \A m : m \in Written <=> \/ m \in Range(target.data)
                                 \/ \E k \in Requests : m \in In(backup[k])
    BY <2>6, WrittenIs, Zenon DEF In
  <2>8. \A m : m \in Written' <=> \/ m \in Range(target'.data)
                                  \/ \E k \in Requests : m \in In(backup'[k])
    <3>1. Range(backup') = {backup'[k] : k \in Requests} BY Zenon DEF Range, Types
    <3> QED BY <2>6, <3>1, Zenon DEF Written, Stored, In
  <2>9. \A m : m \in Written' <=> m \in Written \/ m \in Range(batch[n])
    BY <1>1, <2>3, <2>4, <2>7, <2>8, Zenon
  <2> QED BY <1>1, <1>2, <1>3, <1>5, <2>1, <2>4, <2>5, <2>9, Zenon
<1> QED BY <1>4, <1>5, Zenon DEF Execute, DeadlinePassed, files

\* A worker that reports an error has written nothing.
LEMMA ExecuteApplied ==
  ASSUME Types, Types', Control, Control', Placed, Owned, Applied, NEW n \in Requests,
         Execute(n) \/ DeadlinePassed(n)
  PROVE  Applied'
<1>0. Written \subseteq Requests BY WrittenIs, Zenon
<1>1. /\ UNCHANGED <<transaction, kind, batch, answer, discarded>>
      /\ \A m \in Requests : m # n => pc'[m] = pc[m] /\ outcome'[m] = outcome[m]
  BY WorkerFrame, Zenon
<1>2. /\ pc[n] = "execute" /\ pc'[n] = "done" /\ answer[n] = "none"
      /\ outcome'[n] \in {"ok", "failed", "cancelled", "internal_error"}
      /\ \A m \in Written' : m \in Written \/ (m \in Range(batch[n]) /\ outcome'[n] = "ok")
  BY ExecuteWrites, Zenon
<1>3. \A t \in SessionIds : Queued(t)' = Queued(t) BY <1>1, Zenon DEF Queued
<1>4. ASSUME NEW m \in Written PROVE AppliedOf(m)'
  <2>1. AppliedOf(m) /\ m \in Requests BY <1>0, Zenon DEF Applied
  <2>2. ASSUME NEW w \in Requests, m \in Range(batch'[w])
        PROVE  pc'[w] = "done" /\ {outcome'[w], answer'[w]} \subseteq {"none", "ok"}
    <3>1. pc[w] = "done" /\ {outcome[w], answer[w]} \subseteq {"none", "ok"}
      BY <1>1, <2>1, <2>2, Zenon DEF AppliedOf
    <3>2. w # n BY <1>2, <3>1, Zenon
    <3> QED BY <1>1, <3>1, <3>2, Zenon
  <2>3. pc'[m] \notin {"prepare", "take", "preserve", "install"} /\ outcome'[m] # "refused"
    BY <1>1, <1>2, <2>1, Zenon DEF AppliedOf
  <2> QED BY <1>1, <1>3, <2>1, <2>2, <2>3, Zenon DEF AppliedOf
<1>5. ASSUME NEW m \in Range(batch[n]), outcome'[n] = "ok" PROVE AppliedOf(m)'
  <2>1. m \in Requests BY QueuedType, Zenon
  <2>2. /\ kind[m] \in {"write", "queued"} /\ m \notin discarded
        /\ \A v \in Requests : m \in Range(batch[v]) => v = n
    BY Zenon DEF Owned
  <2>3. \A t \in SessionIds : m \notin Queued(t) BY Zenon DEF Owned
  <2>4. "refused" \notin {outcome'[m], answer'[m]} /\ pc'[m] \notin RestoreSteps
    BY <1>1, <2>1, <2>2, Zenon DEF Control, ControlOf
  <2>5. ASSUME NEW w \in Requests, m \in Range(batch'[w])
        PROVE  pc'[w] = "done" /\ {outcome'[w], answer'[w]} \subseteq {"none", "ok"}
    BY <1>1, <1>2, <1>5, <2>2, <2>5, Zenon
  <2> QED BY <1>1, <1>3, <2>2, <2>3, <2>4, <2>5, Zenon DEF AppliedOf, RestoreSteps, Locked
<1> QED BY <1>2, <1>4, <1>5, Zenon DEF Applied

\* A request that arrives has written nothing.
LEMMA ArriveApplied ==
  ASSUME Types, Control, Applied, NEW k \in {"write", "queued", "restore"}, NEW b \in Seq(Requests),
         NEW here \in {"done", "execute", "prepare"}, Arrive(k, b, here),
         UNCHANGED <<files, discarded>>,
         \A m \in Requests : m # Number => outcome'[m] = outcome[m] /\ answer'[m] = answer[m],
         \A m \in Range(b) : m = Number \/ \E t \in SessionIds : m \in Queued(t),
         \A t \in SessionIds : \A m \in Queued(t)' : m \in Queued(t) \/ m = Number
  PROVE  Applied'
<1>1. Number \in Requests /\ Number > last BY ArriveTypes, Zenon
<1>2. kind[Number] = "none" BY <1>1, Zenon DEF Control, ControlOf
<1>3. /\ batch'[Number] = b
      /\ \A m \in Requests : m # Number => /\ kind'[m] = kind[m] /\ batch'[m] = batch[m]
                                           /\ pc'[m] = pc[m]
  BY <1>1, Zenon DEF Arrive, Types
<1>4. Written' = Written BY Zenon DEF Written, Stored, files
<1>5. ASSUME NEW m \in Written PROVE AppliedOf(m)'
  <2>1. AppliedOf(m) /\ m \in Requests BY WrittenIs, Zenon DEF Applied
  <2>2. m # Number BY <1>2, <2>1, Zenon DEF AppliedOf
  <2>3. ASSUME NEW w \in Requests, m \in Range(batch'[w])
        PROVE  pc'[w] = "done" /\ {outcome'[w], answer'[w]} \subseteq {"none", "ok"}
    <3>1. w # Number BY <1>3, <2>1, <2>2, <2>3, Zenon DEF AppliedOf
    <3> QED BY <1>3, <2>1, <2>3, <3>1, Zenon DEF AppliedOf
  <2>4. \A t \in SessionIds : m \notin Queued(t)' BY <2>1, <2>2, Zenon DEF AppliedOf
  <2> QED BY <1>3, <2>1, <2>2, <2>3, <2>4, Zenon DEF AppliedOf
<1> QED BY <1>4, <1>5, Zenon DEF Applied

\* Statements leave queues, workers disappear, answers repeat what workers returned.
LEMMA QuietApplied ==
  ASSUME Types, Applied, UNCHANGED <<kind, batch>>, Written' \subseteq Written,
         \A m \in discarded' : m \in discarded \/ \E t \in SessionIds : m \in Queued(t),
         \A t \in SessionIds : Queued(t)' \subseteq Queued(t),
         \A m \in Requests : pc'[m] \in {pc[m], "done"},
         \A m \in Requests : /\ outcome'[m] \in {outcome[m], "none"}
                             /\ \/ answer'[m] \in {answer[m], outcome[m]}
                                \/ /\ outcome[m] \notin {"none", "ok"}
                                   /\ answer'[m] # "refused"
  PROVE  Applied'
<1> SUFFICES ASSUME NEW m \in Written PROVE AppliedOf(m)' BY Zenon DEF Applied
<1>1. AppliedOf(m) /\ m \in Requests BY WrittenIs, Zenon DEF Applied
<1>2. ASSUME NEW w \in Requests, m \in Range(batch'[w])
      PROVE  pc'[w] = "done" /\ {outcome'[w], answer'[w]} \subseteq {"none", "ok"}
  <2>1. pc[w] = "done" /\ {outcome[w], answer[w]} \subseteq {"none", "ok"}
    BY <1>1, <1>2, Zenon DEF AppliedOf
  <2> QED BY <2>1, Zenon
<1>3. m \notin discarded' /\ \A t \in SessionIds : m \notin Queued(t)' BY <1>1, Zenon DEF AppliedOf
<1>4. "refused" \notin {outcome'[m], answer'[m]} BY <1>1, Zenon DEF AppliedOf
<1>5. pc'[m] \notin {"prepare", "take", "preserve", "install"} BY <1>1, Zenon DEF AppliedOf
<1> QED BY <1>1, <1>2, <1>3, <1>4, <1>5, Zenon DEF AppliedOf

\* Every other step.
LEMMA HandlerApplied ==
  ASSUME Types, Control, Owned, Applied, OtherStep
  PROVE  Applied'
<1> USE DEF OtherStep
<1>0. <<>> \in Seq(Requests) /\ Range(<<>>) = {} BY RangeShort
<1>1. ASSUME UNCHANGED transaction, NEW t \in SessionIds PROVE Queued(t)' = Queued(t)
  BY <1>1, Zenon DEF Queued
<1>2. CASE Query
  <2>1. Number \in Requests BY <1>2, HttpBounds DEF Types, Arrive, Number, Requests, Query
  <2>2. <<Number>> \in Seq(Requests) /\ Range(<<Number>>) = {Number} BY <2>1, RangeShort, Zenon
  <2>3. UNCHANGED <<files, transaction, discarded, outcome, answer>>
    BY <1>2, Zenon DEF Query, store, history
  <2>4. Arrive("write", <<Number>>, "execute") BY <1>2, Zenon DEF Query
  <2> QED BY <1>1, <2>2, <2>3, <2>4, ArriveApplied, Zenon
<1>3. CASE ImportSnapshot \/ ImportLogical
  <2>1. UNCHANGED <<files, transaction, discarded, answer>>
    BY <1>3, Zenon DEF ImportSnapshot, ImportLogical, store, history
  <2>2. Arrive("restore", <<>>, "prepare") \/ Arrive("restore", <<>>, "done")
    BY <1>3, Zenon DEF ImportSnapshot, ImportLogical
  <2>3. Number \in Requests BY <1>0, <2>2, ArriveTypes, Zenon
  <2>4. \A m \in Requests : m # Number => outcome'[m] = outcome[m]
    BY <1>3, <2>3, Zenon DEF ImportSnapshot, ImportLogical, Types
  <2> QED BY <1>0, <1>1, <2>1, <2>2, <2>4, ArriveApplied, Zenon
<1>4. ASSUME NEW s \in SessionIds, Commit(s) PROVE Applied'
  <2>1. transaction[s] \in Seq(Requests) BY <1>4, Zenon DEF Commit, Types
  <2>2. Queued(s) = Range(transaction[s]) BY <1>4, Zenon DEF Commit, Queued
  <2>3. Queued(s)' = {} /\ \A t \in SessionIds : t # s => Queued(t)' = Queued(t)
    BY <1>4, QueueChange, Zenon DEF Commit
  <2>4. /\ Arrive("write", transaction[s], "execute")
        /\ UNCHANGED <<files, discarded, outcome, answer>>
    BY <1>4, Zenon DEF Commit, Elsewhere
  <2> QED BY <2>1, <2>2, <2>3, <2>4, ArriveApplied, Zenon
<1>5. ASSUME NEW s \in SessionIds, Queue(s) PROVE Applied'
  <2>1. transaction[s] \in Seq(Requests) /\ transaction[s] # None BY <1>5, Zenon DEF Queue, Types
  <2>2. Arrive("queued", <<>>, "done") /\ UNCHANGED <<files, discarded, outcome>>
    BY <1>5, Zenon DEF Queue, Elsewhere
  <2>3. Number \in Requests BY <1>0, <2>2, ArriveTypes, Zenon
  <2>4. /\ Append(transaction[s], Number) \in Seq(Requests)
        /\ Range(Append(transaction[s], Number)) = Queued(s) \cup {Number}
    BY <2>1, <2>3, RangeAppend, Zenon DEF Queued
  <2>5. /\ Queued(s)' = Queued(s) \cup {Number}
        /\ \A t \in SessionIds : t # s => Queued(t)' = Queued(t)
    BY <1>5, <2>4, QueueChange, HttpMarkers, Zenon DEF Queue
  <2>6. \A t \in SessionIds : \A m \in Queued(t)' : m \in Queued(t) \/ m = Number
    BY <2>5, Zenon
  <2>7. \A m \in Requests : m # Number => answer'[m] = answer[m]
    BY <1>5, <2>3, Zenon DEF Queue, Types
  <2> QED BY <1>0, <2>2, <2>6, <2>7, ArriveApplied, Zenon
<1>6. ASSUME NEW s \in SessionIds, DeleteSession(s) \/ Rollback(s) PROVE Applied'
  <2>1. Queued(s)' = {} /\ \A t \in SessionIds : t # s => Queued(t)' = Queued(t)
    BY <1>6, QueueChange, Zenon DEF DeleteSession, Rollback
  <2>2. /\ UNCHANGED <<kind, batch, target, backup, pc, outcome, answer>>
        /\ discarded' = discarded \cup Queued(s)
    BY <1>6, Zenon DEF DeleteSession, Rollback, Elsewhere, work, files
  <2>3. Written' = Written BY <2>2, Zenon DEF Written, Stored
  <2> QED BY <2>1, <2>2, <2>3, QuietApplied, Zenon
<1>7. ASSUME UNCHANGED <<kind, batch, target, backup, pc, outcome, answer, discarded>>,
             \A t \in SessionIds : Queued(t)' \subseteq Queued(t)
      PROVE  Applied'
  <2>1. Written' = Written BY <1>7, Zenon DEF Written, Stored
  <2> QED BY <1>7, <2>1, QuietApplied, Zenon
<1>8. ASSUME NEW s \in SessionIds, Begin(s) PROVE Applied'
  <2>1. Queued(s)' = {} /\ \A t \in SessionIds : t # s => Queued(t)' = Queued(t)
    BY <1>0, <1>8, QueueChange, Zenon DEF Begin
  <2> QED BY <1>7, <1>8, <2>1, Zenon DEF Begin, Elsewhere, work, files
<1>9. ASSUME NEW s \in SessionIds, CreateSession(s) PROVE Applied'
  BY <1>1, <1>7, <1>9, Zenon DEF CreateSession, Elsewhere, work, files
<1>10. ASSUME NEW n \in Requests, Timer(n) PROVE Applied'
  BY <1>1, <1>7, <1>10, Zenon DEF Timer, work, store, history, files
<1>11. ASSUME NEW n \in Requests, Answer(n) PROVE Applied'
  <2>1. UNCHANGED <<kind, batch, target, backup, pc, transaction, discarded>>
    BY <1>11, Zenon DEF Answer, work, store, history, files
  <2>2. \A m \in Requests : m # n => answer'[m] = answer[m] /\ outcome'[m] = outcome[m]
    BY <1>11, Zenon DEF Answer, Types
  <2>3. /\ outcome'[n] = "none"
        /\ \/ answer'[n] = outcome[n]
           \/ outcome[n] \notin {"none", "ok"} /\ answer'[n] # "refused"
    BY <1>11 DEF Answer, WorkerReady, Types
  <2>4. Written' = Written BY <2>1, Zenon DEF Written, Stored
  <2> QED BY <1>1, <2>1, <2>2, <2>3, <2>4, QuietApplied, Zenon
<1>12. CASE Crash
  <2>1. \A t \in SessionIds : Queued(t)' = {} BY <1>12, Zenon DEF Crash, Queued
  <2>2. /\ UNCHANGED <<kind, batch, target, backup, answer>>
        /\ discarded' = discarded \cup UNION {Queued(s) : s \in SessionIds}
        /\ \A m \in Requests : pc'[m] = "done" /\ outcome'[m] = "none"
    BY <1>12, Zenon DEF Crash, work, files
  <2>3. Written' = Written BY <2>2, Zenon DEF Written, Stored
  <2>4. \A m \in discarded' : m \in discarded \/ \E t \in SessionIds : m \in Queued(t)
    BY <2>2, Zenon
  <2> QED BY <2>1, <2>2, <2>3, <2>4, QuietApplied, Zenon
<1>13. CASE Start
  <2>1. UNCHANGED <<kind, batch, backup, pc, outcome, answer, discarded, transaction>>
    BY <1>13, Zenon DEF Start, work, store, history
  <2>2. target' = target \/ target' = File(<<>>, TRUE) BY <1>13, Zenon DEF Start
  <2>3. Range(File(<<>>, TRUE).data) = {} BY RangeShort DEF File
  <2>4. Written' \subseteq Written BY <2>1, <2>2, <2>3, Zenon DEF Written, Stored
  <2> QED BY <1>1, <2>1, <2>4, QuietApplied, Zenon
<1>14. CASE UNCHANGED vars BY <1>1, <1>7, <1>14, Zenon DEF vars, work, store, history, files
<1> QED
  BY <1>2, <1>3, <1>4, <1>5, <1>6, <1>8, <1>9, <1>10, <1>11, <1>12, <1>13, <1>14, Zenon

-----------------------------------------------------------------------------
(* Transactions in one piece.                                               *)

\* Files come and go, queues are given up, and no statement is queued.
LEMMA QuietUnbroken ==
  ASSUME Unbroken, UNCHANGED <<tx, batch, kind>>,
         \A f \in Stored' : f \in Stored \/ Whole(tx, f.data),
         \A s \in SessionIds : \/ transaction'[s] \in {transaction[s], None}
                               \/ OneTransaction(tx, transaction'[s])
  PROVE  Unbroken'
<1>1. \A f \in Stored' : Whole(tx', f.data) BY Zenon DEF Unbroken
<1>2. \A w \in Requests : Whole(tx', batch'[w]) BY Zenon DEF Unbroken
<1>3. \A s \in SessionIds : transaction'[s] # None => OneTransaction(tx', transaction'[s])
  BY Zenon DEF Unbroken
<1>4. \A n \in Requests : tx'[n] # 0 =>
         kind'[n] = "queued" /\ tx'[n] \in Requests /\ kind'[tx'[n]] = "queued"
  BY Zenon DEF Unbroken
<1> QED BY <1>1, <1>2, <1>3, <1>4, Zenon DEF Unbroken

\* A restore installs a file that holds no transaction yet.
LEMMA RestoreUnbroken ==
  ASSUME Types, Types', Control, Placed, Unbroken, NEW n \in Requests, RestoreStep(n)
  PROVE  Unbroken'
<1>1. UNCHANGED <<transaction, kind, batch, tx>> BY WorkerFrame, Zenon
<1>2. kind[n] = "restore" BY RestoreWrites, Zenon
<1>3. tx[n] = 0 BY <1>2, Zenon DEF Unbroken
<1>4. File(<<n>>, TRUE).data = <<n>> BY DEF File
<1>5. Whole(tx, File(<<n>>, TRUE).data) BY <1>3, <1>4, WholeShort, Zenon
<1>6. \A f \in Stored' : f \in Stored \/ Whole(tx, f.data) BY <1>5, RestoreMoves, Zenon
<1> QED BY <1>1, <1>6, QuietUnbroken, Zenon

\* A batch is appended as a whole to a file that has none of it.
LEMMA ExecuteUnbroken ==
  ASSUME Types, Types', Control, Placed, Applied, Unbroken, NEW n \in Requests,
         Execute(n) \/ DeadlinePassed(n)
  PROVE  Unbroken'
<1>1. UNCHANGED <<transaction, kind, batch, tx>> BY WorkerFrame, Zenon
<1>2. pc[n] = "execute" /\ UNCHANGED backup BY ExecuteWrites, Zenon
<1>3. CASE UNCHANGED target
  <2>1. Stored' = Stored BY <1>2, <1>3, Zenon DEF Stored
  <2> QED BY <1>1, <2>1, QuietUnbroken, Zenon
<1>4. CASE /\ target \in Files /\ target' \in Files /\ target'.data = target.data \o batch[n]
  <2>1. target # Absent /\ target \in Stored BY <1>4, HttpMarkers, Zenon DEF Stored
  <2>2. target.data \in Seq(Requests) /\ batch[n] \in Seq(Requests) BY <1>4 DEF Files, Types
  <2>3. Range(target.data) \cap Range(batch[n]) = {}
    <3> SUFFICES ASSUME NEW m \in Range(target.data), m \in Range(batch[n]) PROVE FALSE
      BY Zenon
    <3>1. m \in Written BY <2>1, Zenon DEF Written
    <3>2. pc[n] = "done" BY <3>1, Zenon DEF Applied, AppliedOf
    <3> QED BY <1>2, <3>2, Zenon
  <2>4. Whole(tx, target.data) /\ Whole(tx, batch[n]) BY <2>1, Zenon DEF Unbroken
  <2>5. Whole(tx, target'.data) BY <1>4, <2>2, <2>3, <2>4, WholeConcat, Zenon
  <2>6. \A f \in Stored' : f \in Stored \/ f = target' BY <1>2, Zenon DEF Stored
  <2> QED BY <1>1, <2>5, <2>6, QuietUnbroken, Zenon
<1> QED BY <1>3, <1>4, ExecuteWrites, Zenon

\* A request that arrives, other than a statement that is queued.
LEMMA ArriveUnbroken ==
  ASSUME Types, Control, Unbroken, NEW k \in {"write", "restore"}, NEW b \in Seq(Requests),
         NEW here \in {"done", "execute", "prepare"}, Arrive(k, b, here), Whole(tx, b),
         UNCHANGED <<files, tx>>,
         \A s \in SessionIds : transaction'[s] \in {transaction[s], None}
  PROVE  Unbroken'
<1>1. Number \in Requests /\ Number > last BY ArriveTypes, Zenon
<1>2. kind[Number] = "none" BY <1>1, Zenon DEF Control, ControlOf
<1>3. /\ batch'[Number] = b
      /\ \A m \in Requests : m # Number => kind'[m] = kind[m] /\ batch'[m] = batch[m]
  BY <1>1, Zenon DEF Arrive, Types
<1>4. \A f \in Stored' : Whole(tx', f.data) BY Zenon DEF Unbroken, Stored, files
<1>5. \A w \in Requests : Whole(tx', batch'[w]) BY <1>3, Zenon DEF Unbroken
<1>6. \A s \in SessionIds : transaction'[s] # None => OneTransaction(tx', transaction'[s])
  BY Zenon DEF Unbroken
<1>7. ASSUME NEW n \in Requests, tx'[n] # 0
      PROVE  kind'[n] = "queued" /\ tx'[n] \in Requests /\ kind'[tx'[n]] = "queued"
  <2>1. kind[n] = "queued" /\ tx[n] \in Requests /\ kind[tx[n]] = "queued"
    BY <1>7, Zenon DEF Unbroken
  <2>2. n # Number /\ tx[n] # Number BY <1>2, <2>1, Zenon
  <2> QED BY <1>3, <2>1, <2>2, Zenon
<1> QED BY <1>4, <1>5, <1>6, <1>7, Zenon DEF Unbroken

\* A statement that is queued.
LEMMA QueueUnbroken ==
  ASSUME Types, Control, Owned, Applied, Unbroken, NEW s \in SessionIds, Queue(s)
  PROVE  Unbroken'
<1> DEFINE q == transaction[s]
           h == IF q = <<>> THEN Number ELSE Head(q)
<1>0. <<>> \in Seq(Requests) OBVIOUS
<1>1. /\ Arrive("queued", <<>>, "done") /\ UNCHANGED files
      /\ transaction' = [transaction EXCEPT ![s] = Append(q, Number)]
      /\ tx' = [tx EXCEPT ![Number] = h]
  BY Zenon DEF Queue, Elsewhere
<1>2. q \in Seq(Requests) /\ q # None BY Zenon DEF Queue, Types
<1>3. Number \in Requests /\ Number > last BY <1>0, <1>1, ArriveTypes, Zenon
<1>4. kind[Number] = "none" BY <1>3, Zenon DEF Control, ControlOf
<1>5. /\ kind'[Number] = "queued" /\ batch'[Number] = <<>>
      /\ \A m \in Requests : m # Number => kind'[m] = kind[m] /\ batch'[m] = batch[m]
  BY <1>1, <1>3, Zenon DEF Arrive, Types
<1>6. Queued(s) = Range(q) /\ OneTransaction(tx, q) BY <1>2, Zenon DEF Queued, Unbroken
<1>11. 0 \notin Requests BY DEF Requests
<1>7. \A m \in Requests : tx[m] # Number
  <2>1. Number # 0 BY <1>3, <1>11, Zenon
  <2> QED BY <1>4, <2>1, Zenon DEF Unbroken
<1>8. tx \in [Requests -> 0..MaxRequests] BY Zenon DEF Types
<1>9. h = IF q = <<>> THEN Number ELSE q[1] BY <1>2
<1>10. q # <<>> => q[1] \in Range(q) /\ 1 \in DOMAIN q BY <1>2 DEF Range
<1>12. \A m \in Range(q) : m \in Requests /\ kind[m] = "queued"
  <2> SUFFICES ASSUME NEW m \in Queued(s) PROVE m \in Requests /\ kind[m] = "queued"
    BY <1>6, Zenon
  <2> QED BY QueuedType, Zenon DEF Owned
<1>13. \A m \in Range(q) : m < Number
  <2> SUFFICES ASSUME NEW m \in Range(q) PROVE m < Number BY Zenon
  <2>1. m \in Requests /\ kind[m] # "none" BY <1>12, Zenon
  <2>2. ~(m > last) BY <2>1, Zenon DEF Control, ControlOf
  <2> QED BY <2>1, <2>2 DEF Types, Number, Requests
<1>14. \A m \in Requests : tx[m] = h => m \in Range(q)
  <2> SUFFICES ASSUME NEW m \in Requests, tx[m] = h PROVE m \in Range(q) BY Zenon
  <2>1. q # <<>> /\ h = q[1] BY <1>7, <1>9, Zenon
  <2>2. tx[q[1]] = q[1] /\ q[1] # 0 BY <1>6, <1>10, <1>11, <1>12, <2>1, Zenon DEF OneTransaction
  <2>3. m \in Mates(tx, q[1]) BY <2>1, <2>2, Zenon DEF Mates
  <2> QED BY <1>6, <1>10, <2>1, <2>3, Zenon DEF OneTransaction, Whole
<1>15. ASSUME NEW a \in Seq(Requests), Whole(tx, a), Number \notin Range(a),
              Range(a) \cap Range(q) = {}
       PROVE  Whole(tx', a)
  <2>1. \A m \in Range(a) : tx[m] # h BY <1>14, <1>15, RangeType, Zenon
  <2>2. PICK t : t = tx BY Zenon
  <2>3. t \in [Requests -> 0..MaxRequests] /\ Whole(t, a) /\ \A m \in Range(a) : t[m] # h
    BY <1>8, <1>15, <2>1, <2>2, Zenon
  <2>4. Whole([t EXCEPT ![Number] = h], a) BY <1>3, <1>15, <2>3, WholeNewTx, Zenon
  <2> QED BY <1>1, <2>2, <2>4, Zenon
<1>16. /\ \A t \in SessionIds : Number \notin Queued(t)
       /\ \A w \in Requests : Number \notin Range(batch[w])
  BY <1>3, <1>4, FreshNumber, Zenon
<1>17. \A f \in Stored' : Whole(tx', f.data)
  <2>1. Stored' = Stored BY <1>1, Zenon DEF Stored, files
  <2> SUFFICES ASSUME NEW f \in Stored PROVE Whole(tx', f.data) BY <2>1, Zenon
  <2>2. f \in Files
    <3>1. target \in Files \cup {Absent} /\ \A m \in Requests : backup[m] \in Files \cup {Absent}
      BY Zenon DEF Types
    <3>2. f # Absent /\ (f = target \/ \E m \in Requests : f = backup[m]) BY StoredIs, Zenon
    <3> QED BY <3>1, <3>2, Zenon
  <2>3. f.data \in Seq(Requests) BY <2>2 DEF Files
  <2>4. ASSUME NEW m \in Range(f.data) PROVE m # Number /\ m \notin Range(q)
    <3>1. m \in Written BY Zenon DEF Written
    <3> QED BY <1>4, <1>6, <3>1, Zenon DEF Applied, AppliedOf
  <2> QED BY <1>15, <2>3, <2>4, Zenon DEF Unbroken
<1>18. \A w \in Requests : Whole(tx', batch'[w])
  <2> SUFFICES ASSUME NEW w \in Requests PROVE Whole(tx', batch'[w]) BY Zenon
  <2>1. CASE w = Number BY <1>5, <2>1, WholeShort, Zenon
  <2>2. CASE w # Number
    <3>1. batch[w] \in Seq(Requests) /\ Whole(tx, batch[w]) BY Zenon DEF Types, Unbroken
    <3>2. Range(batch[w]) \cap Range(q) = {}
      <4>1. ASSUME NEW m \in Queued(s) PROVE m \notin Range(batch[w]) BY Zenon DEF Owned
      <4> QED BY <1>6, <4>1, Zenon
    <3>3. Whole(tx', batch[w]) BY <1>15, <1>16, <3>1, <3>2, Zenon
    <3> QED BY <1>5, <2>2, <3>3, Zenon
  <2> QED BY <2>1, <2>2, Zenon
<1>19. \A t \in SessionIds : transaction'[t] # None => OneTransaction(tx', transaction'[t])
  <2> SUFFICES ASSUME NEW t \in SessionIds, transaction'[t] # None
               PROVE  OneTransaction(tx', transaction'[t])
    BY Zenon
  <2>1. CASE t = s
    <3>1. transaction'[t] = Append(q, Number) BY <1>1, <2>1, Zenon DEF Types
    <3>2. OneTransaction(tx', Append(q, Number))
      BY <1>1, <1>2, <1>3, <1>6, <1>7, <1>8, <1>9, <1>13, WholeAppend, Zenon
    <3> QED BY <3>1, <3>2, Zenon
  <2>2. CASE t # s
    <3>1. transaction'[t] = transaction[t] BY <1>1, <2>2, Zenon DEF Types
    <3>2. /\ transaction[t] \in Seq(Requests) /\ OneTransaction(tx, transaction[t])
          /\ Queued(t) = Range(transaction[t])
      <4>1. transaction[t] \in Seq(Requests) BY <3>1, Zenon DEF Types
      <4>2. OneTransaction(tx, transaction[t]) BY <3>1, Zenon DEF Unbroken
      <4>3. Queued(t) = Range(transaction[t]) BY <3>1, Zenon DEF Queued
      <4> QED BY <4>1, <4>2, <4>3, Zenon
    <3>3. Range(transaction[t]) \cap Range(q) = {}
      <4>1. ASSUME NEW m \in Queued(s) PROVE m \notin Queued(t) BY <2>2, Zenon DEF Owned
      <4> QED BY <1>6, <3>2, <4>1, Zenon
    <3>4. Whole(tx', transaction[t])
      BY <1>15, <1>16, <3>2, <3>3, Zenon DEF OneTransaction
    <3>5. ASSUME NEW i \in DOMAIN transaction[t]
          PROVE  tx'[transaction[t][i]] = transaction[t][1]
      <4>1. transaction[t][i] \in Range(transaction[t]) BY Zenon DEF Range
      <4>2. transaction[t][i] # Number /\ transaction[t][i] \in Requests
        BY <1>16, <3>2, <4>1, RangeType, Zenon
      <4> QED BY <1>1, <1>8, <3>2, <4>2, Zenon DEF OneTransaction
    <3> QED BY <3>1, <3>4, <3>5, Zenon DEF OneTransaction
  <2> QED BY <2>1, <2>2, Zenon
<1>20. ASSUME NEW n \in Requests, tx'[n] # 0
       PROVE  kind'[n] = "queued" /\ tx'[n] \in Requests /\ kind'[tx'[n]] = "queued"
  <2>1. CASE n = Number
    <3>1. tx'[n] = h BY <1>1, <1>8, <2>1, Zenon
    <3>2. h \in Requests /\ kind'[h] = "queued"
      BY <1>3, <1>5, <1>9, <1>10, <1>12, Zenon
    <3> QED BY <1>5, <2>1, <3>1, <3>2, Zenon
  <2>2. CASE n # Number
    <3>1. tx'[n] = tx[n] BY <1>1, <1>8, <2>2, Zenon
    <3>2. kind[n] = "queued" /\ tx[n] \in Requests /\ kind[tx[n]] = "queued"
      BY <1>20, <3>1, Zenon DEF Unbroken
    <3> QED BY <1>5, <1>7, <2>2, <3>1, <3>2, Zenon
  <2> QED BY <2>1, <2>2, Zenon
<1> QED BY <1>17, <1>18, <1>19, <1>20, Zenon DEF Unbroken

\* Every other step.
LEMMA HandlerUnbroken ==
  ASSUME Types, Control, Owned, Applied, Unbroken, OtherStep
  PROVE  Unbroken'
<1> USE DEF OtherStep
<1>0. <<>> \in Seq(Requests) /\ Whole(tx, <<>>) /\ OneTransaction(tx, <<>>)
  BY WholeShort DEF OneTransaction
<1>1. CASE Query
  <2>1. Number \in Requests BY <1>1, HttpBounds DEF Types, Arrive, Number, Requests, Query
  <2>2. <<Number>> \in Seq(Requests) BY <2>1, RangeShort, Zenon
  <2>3. Arrive("write", <<Number>>, "execute") /\ UNCHANGED <<files, transaction, tx>>
    BY <1>1, Zenon DEF Query, store, history
  <2>4. Number > last BY <2>2, <2>3, ArriveTypes, Zenon
  <2>5. tx[Number] = 0 BY <2>1, <2>4, Zenon DEF Control, ControlOf, Unbroken
  <2>6. Whole(tx, <<Number>>) BY <2>1, <2>5, WholeShort, Zenon
  <2> QED BY <2>2, <2>3, <2>6, ArriveUnbroken, Zenon
<1>2. CASE ImportSnapshot \/ ImportLogical
  <2>1. UNCHANGED <<files, transaction, tx>>
    BY <1>2, Zenon DEF ImportSnapshot, ImportLogical, store, history
  <2>2. Arrive("restore", <<>>, "prepare") \/ Arrive("restore", <<>>, "done")
    BY <1>2, Zenon DEF ImportSnapshot, ImportLogical
  <2> QED BY <1>0, <2>1, <2>2, ArriveUnbroken, Zenon
<1>3. ASSUME NEW s \in SessionIds, Commit(s) PROVE Unbroken'
  <2>1. transaction[s] \in Seq(Requests) BY <1>3, Zenon DEF Commit, Types
  <2>2. Whole(tx, transaction[s]) BY <1>3, Zenon DEF Commit, Unbroken, OneTransaction
  <2>3. \A t \in SessionIds : transaction'[t] \in {transaction[t], None}
    BY <1>3, Zenon DEF Commit, Types
  <2>4. Arrive("write", transaction[s], "execute") /\ UNCHANGED <<files, tx>>
    BY <1>3, Zenon DEF Commit, Elsewhere
  <2> QED BY <2>1, <2>2, <2>3, <2>4, ArriveUnbroken, Zenon
<1>4. ASSUME NEW s \in SessionIds, Queue(s) PROVE Unbroken' BY <1>4, QueueUnbroken, Zenon
<1>5. ASSUME NEW s \in SessionIds, DeleteSession(s) \/ Rollback(s) \/ Begin(s) \/ CreateSession(s)
      PROVE  Unbroken'
  <2>1. \A t \in SessionIds : \/ transaction'[t] \in {transaction[t], None}
                              \/ OneTransaction(tx, transaction'[t])
    BY <1>0, <1>5, Zenon DEF DeleteSession, Rollback, Begin, CreateSession, Types
  <2>2. UNCHANGED <<tx, batch, kind, target, backup>>
    BY <1>5, Zenon DEF DeleteSession, Rollback, Begin, CreateSession, Elsewhere, work, files
  <2>3. Stored' = Stored BY <2>2, Zenon DEF Stored
  <2> QED BY <2>1, <2>2, <2>3, QuietUnbroken, Zenon
<1>6. ASSUME UNCHANGED <<tx, batch, kind, target, backup, transaction>> PROVE Unbroken'
  <2>1. Stored' = Stored BY <1>6, Zenon DEF Stored
  <2> QED BY <1>6, <2>1, QuietUnbroken, Zenon
<1>7. ASSUME NEW n \in Requests, Timer(n) \/ Answer(n) PROVE Unbroken'
  BY <1>6, <1>7, Zenon DEF Timer, Answer, work, store, history, files
<1>8. CASE Crash
  <2>1. UNCHANGED <<tx, batch, kind, target, backup>> BY <1>8, Zenon DEF Crash, work, files
  <2>2. \A t \in SessionIds : transaction'[t] = None BY <1>8, Zenon DEF Crash
  <2>3. Stored' = Stored BY <2>1, Zenon DEF Stored
  <2> QED BY <2>1, <2>2, <2>3, QuietUnbroken, Zenon
<1>9. CASE Start
  <2>1. UNCHANGED <<tx, batch, kind, backup, transaction>>
    BY <1>9, Zenon DEF Start, work, store, history
  <2>2. target' = target \/ target' = File(<<>>, TRUE) BY <1>9, Zenon DEF Start
  <2>3. File(<<>>, TRUE).data = <<>> BY DEF File
  <2>4. \A f \in Stored' : f \in Stored \/ f = File(<<>>, TRUE)
    BY <2>1, <2>2, Zenon DEF Stored
  <2>5. \A f \in Stored' : f \in Stored \/ Whole(tx, f.data) BY <1>0, <2>3, <2>4, Zenon
  <2> QED BY <2>1, <2>5, QuietUnbroken, Zenon
<1>10. CASE UNCHANGED vars BY <1>6, <1>10, Zenon DEF vars, work, store, history, files
<1> QED BY <1>1, <1>2, <1>3, <1>4, <1>5, <1>7, <1>8, <1>9, <1>10, Zenon

-----------------------------------------------------------------------------
(* Nothing that succeeded is lost.                                          *)

\* A restore gives up nothing but its own number.
LEMMA RestoreHolds ==
  ASSUME Types, Types', Control, Placed, Owned, NEW n \in Requests, RestoreStep(n),
         NEW A, NEW B, Holds(A), \A m \in A : m \in B \/ m = n,
         outcome'[n] = "ok" => n \in B
  PROVE  Holds(B)'
<1>1. /\ UNCHANGED <<kind, batch, answer>>
      /\ \A m \in Requests : m # n => outcome'[m] = outcome[m]
  BY WorkerFrame, Zenon
<1>2. kind[n] = "restore" /\ answer[n] = "none" BY RestoreWrites, Zenon
<1>3. ASSUME NEW w \in Requests, "ok" \in {outcome'[w], answer'[w]}
      PROVE  Effect(w)' \subseteq B
  <2>1. Effect(w)' = Effect(w) BY <1>1, Zenon DEF Effect
  <2>2. CASE w = n
    <3>1. Effect(w) = {n} BY <1>2, <2>2, Zenon DEF Effect
    <3>2. n \in B BY <1>1, <1>2, <1>3, <2>2, Zenon
    <3> QED BY <2>1, <3>1, <3>2, Zenon
  <2>3. CASE w # n
    <3>1. Effect(w) \subseteq A BY <1>1, <1>3, <2>3, Zenon DEF Holds
    <3>2. n \notin Effect(w) BY <1>2, <2>3, Zenon DEF Effect, Owned
    <3> QED BY <2>1, <3>1, <3>2, Zenon
  <2> QED BY <2>2, <2>3, Zenon
<1> QED BY <1>3, Zenon DEF Holds

\* A write that succeeds adds its batch.
LEMMA ExecuteHolds ==
  ASSUME Types, Types', Control, Placed, NEW n \in Requests, Execute(n) \/ DeadlinePassed(n),
         NEW A, NEW B, Holds(A), A \subseteq B, outcome'[n] = "ok" => Range(batch[n]) \subseteq B
  PROVE  Holds(B)'
<1>1. /\ UNCHANGED <<kind, batch, answer>>
      /\ \A m \in Requests : m # n => outcome'[m] = outcome[m]
  BY WorkerFrame, Zenon
<1>2. kind[n] = "write" /\ answer[n] = "none" BY ExecuteWrites, Zenon
<1>3. ASSUME NEW w \in Requests, "ok" \in {outcome'[w], answer'[w]}
      PROVE  Effect(w)' \subseteq B
  <2>1. Effect(w)' = Effect(w) BY <1>1, Zenon DEF Effect
  <2>2. CASE w = n
    <3>1. Effect(w) = Range(batch[n]) BY <1>2, <2>2, Zenon DEF Effect
    <3>2. outcome'[n] = "ok" BY <1>1, <1>2, <1>3, <2>2, Zenon
    <3> QED BY <2>1, <3>1, <3>2, Zenon
  <2>3. CASE w # n
    <3>1. Effect(w) \subseteq A BY <1>1, <1>3, <2>3, Zenon DEF Holds
    <3> QED BY <2>1, <3>1, Zenon
  <2> QED BY <2>2, <2>3, Zenon
<1> QED BY <1>3, Zenon DEF Holds

\* Nothing succeeds in any other step.
LEMMA HandlerHolds ==
  ASSUME Types, Control, OtherStep,
         NEW A, NEW B, Holds(A), A \subseteq B
  PROVE  Holds(B)'
<1> USE DEF OtherStep
<1>0. <<>> \in Seq(Requests) OBVIOUS
<1>1. ASSUME UNCHANGED <<kind, batch>>,
             \A w \in Requests : /\ outcome'[w] \in {outcome[w], "none"}
                                 /\ \/ answer'[w] \in {answer[w], outcome[w]}
                                    \/ answer'[w] # "ok"
      PROVE  Holds(B)'
  <2>1. \A w \in Requests : Effect(w)' = Effect(w) BY <1>1, Zenon DEF Effect
  <2>2. \A w \in Requests :
           "ok" \in {outcome'[w], answer'[w]} => "ok" \in {outcome[w], answer[w]}
    BY <1>1, Zenon
  <2> QED BY <2>1, <2>2, Zenon DEF Holds
<1>2. ASSUME NEW k \in {"write", "queued", "restore"}, NEW b \in Seq(Requests),
             NEW here \in {"done", "execute", "prepare"}, Arrive(k, b, here),
             \A m \in Requests : m # Number => outcome'[m] = outcome[m] /\ answer'[m] = answer[m],
             "ok" \notin {outcome'[Number], answer'[Number]}
      PROVE  Holds(B)'
  <2>1. Number \in Requests BY <1>2, ArriveTypes, Zenon
  <2>2. \A m \in Requests : m # Number => kind'[m] = kind[m] /\ batch'[m] = batch[m]
    BY <1>2, <2>1, Zenon DEF Arrive, Types
  <2>3. ASSUME NEW w \in Requests, "ok" \in {outcome'[w], answer'[w]}
        PROVE  Effect(w)' \subseteq B
    <3>1. w # Number BY <1>2, <2>3, Zenon
    <3>2. Effect(w)' = Effect(w) BY <2>2, <3>1, Zenon DEF Effect
    <3>3. Effect(w) \subseteq A BY <1>2, <2>3, <3>1, Zenon DEF Holds
    <3> QED BY <3>2, <3>3, Zenon
  <2> QED BY <2>3, Zenon DEF Holds
<1>3. ASSUME NEW k \in {"write", "queued", "restore"}, NEW b \in Seq(Requests),
             NEW here \in {"done", "execute", "prepare"}, Arrive(k, b, here)
      PROVE  Number \in Requests /\ outcome[Number] = "none" /\ answer[Number] = "none"
  <2>1. Number \in Requests /\ Number > last BY <1>3, ArriveTypes, Zenon
  <2> QED BY <2>1, Zenon DEF Control, ControlOf
<1>4. CASE Query
  <2>1. Number \in Requests BY <1>4, HttpBounds DEF Types, Arrive, Number, Requests, Query
  <2>2. <<Number>> \in Seq(Requests) BY <2>1
  <2> QED BY <1>2, <1>3, <1>4, <2>2, Zenon DEF Query
<1>5. CASE ImportSnapshot BY <1>0, <1>2, <1>3, <1>5, Zenon DEF ImportSnapshot
<1>6. CASE ImportLogical
  <2>1. Arrive("restore", <<>>, "prepare") \/ Arrive("restore", <<>>, "done")
    BY <1>6, Zenon DEF ImportLogical
  <2>2. Number \in Requests /\ outcome[Number] = "none" /\ answer[Number] = "none"
    BY <1>0, <1>3, <2>1, Zenon
  <2>3. /\ \A m \in Requests : m # Number => outcome'[m] = outcome[m] /\ answer'[m] = answer[m]
        /\ outcome'[Number] \in {"none", "refused", "internal_error"}
        /\ answer'[Number] = "none"
    BY <1>6, <2>2, Zenon DEF ImportLogical, Types
  <2>4. "ok" \notin {outcome'[Number], answer'[Number]} BY <2>3, Zenon
  <2> QED BY <1>0, <1>2, <2>1, <2>3, <2>4, Zenon
<1>7. ASSUME NEW s \in SessionIds, Commit(s) PROVE Holds(B)'
  <2>1. transaction[s] \in Seq(Requests) BY <1>7, Zenon DEF Commit, Types
  <2>2. Arrive("write", transaction[s], "execute") /\ UNCHANGED <<outcome, answer>>
    BY <1>7, Zenon DEF Commit, Elsewhere
  <2>3. outcome[Number] = "none" /\ answer[Number] = "none" BY <1>3, <2>1, <2>2, Zenon
  <2> QED BY <1>2, <2>1, <2>2, <2>3, Zenon
<1>8. ASSUME NEW s \in SessionIds, Queue(s) PROVE Holds(B)'
  <2>1. Arrive("queued", <<>>, "done") /\ UNCHANGED outcome
    BY <1>8, Zenon DEF Queue, Elsewhere
  <2>2. Number \in Requests /\ outcome[Number] = "none" BY <1>0, <1>3, <2>1, Zenon
  <2>3. /\ \A m \in Requests : m # Number => answer'[m] = answer[m]
        /\ answer'[Number] = "queued"
    BY <1>8, <2>2, Zenon DEF Queue, Types
  <2> QED BY <1>0, <1>2, <2>1, <2>2, <2>3, Zenon
<1>9. ASSUME NEW s \in SessionIds, CreateSession(s) \/ DeleteSession(s) \/ Begin(s) \/ Rollback(s)
      PROVE  Holds(B)'
  BY <1>1, <1>9, Zenon DEF CreateSession, DeleteSession, Begin, Rollback, Elsewhere, work
<1>10. ASSUME NEW n \in Requests, Timer(n) PROVE Holds(B)'
  BY <1>1, <1>10, Zenon DEF Timer, work
<1>11. ASSUME NEW n \in Requests, Answer(n) PROVE Holds(B)'
  <2>1. \A m \in Requests : m # n => answer'[m] = answer[m] /\ outcome'[m] = outcome[m]
    BY <1>11, Zenon DEF Answer, Types
  <2>2. outcome'[n] = "none" /\ answer'[n] \in {"query_timeout", outcome[n]}
    BY <1>11, Zenon DEF Answer, Types
  <2>3. UNCHANGED <<kind, batch>> BY <1>11, Zenon DEF Answer, work
  <2>4. ASSUME NEW w \in Requests
        PROVE  /\ outcome'[w] \in {outcome[w], "none"}
               /\ answer'[w] \in {answer[w], outcome[w]} \/ answer'[w] # "ok"
    BY <2>1, <2>2, Zenon
  <2> QED BY <1>1, <2>3, <2>4, Zenon
<1>12. CASE Crash BY <1>1, <1>12, Zenon DEF Crash, work
<1>13. CASE Start BY <1>1, <1>13, Zenon DEF Start, work
<1>14. CASE UNCHANGED vars BY <1>1, <1>14, Zenon DEF vars, work
<1> QED
  BY <1>4, <1>5, <1>6, <1>7, <1>8, <1>9, <1>10, <1>11, <1>12, <1>13, <1>14, Zenon

\* What succeeded is written, or was superseded.
LEMMA KeptStep ==
  ASSUME Types, Types', Control, Placed, Owned, Kept, [Next]_vars
  PROVE  Kept'
<1>1. ASSUME NEW n \in Requests, RestoreStep(n) PROVE Kept'
  <2>1. /\ \A m \in superseded \cup Written : m \in superseded' \cup Written' \/ m = n
        /\ outcome'[n] = "ok" => n \in superseded' \cup Written'
    BY <1>1, RestoreWrites, Zenon
  <2>2. PICK A : A = superseded \cup Written BY Zenon
  <2>3. PICK B : B = superseded' \cup Written' BY Zenon
  <2>4. Holds(A) BY <2>2, Zenon DEF Kept
  <2>5. Holds(B)' BY <1>1, <2>1, <2>2, <2>3, <2>4, RestoreHolds, Zenon
  <2> QED BY <2>3, <2>5, Zenon DEF Kept, Holds
<1>2. ASSUME NEW n \in Requests, Execute(n) \/ DeadlinePassed(n) PROVE Kept'
  <2>1. /\ superseded \cup Written \subseteq superseded' \cup Written'
        /\ outcome'[n] = "ok" => Range(batch[n]) \subseteq superseded' \cup Written'
    BY <1>2, ExecuteWrites, Zenon
  <2> QED BY <1>2, <2>1, ExecuteHolds, Zenon DEF Kept, Holds
<1>3. ASSUME OtherStep PROVE Kept'
  <2>1. /\ UNCHANGED backup /\ (target = Absent \/ UNCHANGED target)
        /\ superseded \subseteq superseded'
    BY <1>3, Zenon
    DEF OtherStep, Query, ImportSnapshot, ImportLogical, CreateSession, DeleteSession, Begin,
        Queue, Commit,
        Rollback, Timer, Answer, Crash, Start, vars, Elsewhere, files, history
  <2>2. superseded \cup Written \subseteq superseded' \cup Written'
    <3>1. Stored \subseteq Stored' BY <2>1, Zenon DEF Stored
    <3> QED BY <2>1, <3>1, Zenon DEF Written
  <2> QED BY <1>3, <2>2, HandlerHolds, Zenon DEF Kept, Holds
<1> QED BY <1>1, <1>2, <1>3, Zenon DEF Next, Work, RestoreStep, OtherStep

-----------------------------------------------------------------------------
(* Without a fault the Database stays where it is served from.              *)

\* A step of a worker that neither holds nor takes the mutex does not move the Database.
LEMMA LiveStays ==
  ASSUME Types, UNCHANGED <<lock, target, backup>>,
         lock # Nobody => pc'[lock] = pc[lock]
  PROVE  Live' = Live
BY Zenon DEF Live, In

\* A restore in which no call fails leaves what succeeded to the file it moves aside,
\* until that file is superseded.
LEMMA RestoreSteady ==
  ASSUME Types, Types', Control, Placed, Owned, NEW n \in Requests, RestoreStep(n),
         Steady, faults' = 0
  PROVE  Steady'
<1> DEFINE Goal == /\ pc'[n] \notin {"remove_target", "undo", "reopen"}
                   /\ lock' = Nobody => opened' /\ target' # Absent
                   /\ \A m \in superseded \cup Live : m \in superseded' \cup Live'
                   /\ outcome'[n] = "ok" => n \in superseded' \cup Live'
<1>1. /\ UNCHANGED <<up, kind, batch, answer>> /\ pc[n] # "done"
      /\ \A m \in Requests : m # n => pc'[m] = pc[m] /\ outcome'[m] = outcome[m]
  BY WorkerFrame, Zenon
<1>2. up /\ outcome[n] = "none" BY <1>1, Zenon DEF Control, ControlOf
<1>3. ~Fails BY DEF Fails, Types
<1>4. pc \in [Requests -> {"done", "execute"} \cup RestoreSteps]
      /\ outcome \in [Requests -> {"none", "ok", "failed", "cancelled", "refused",
                                   "internal_error"}]
  BY Zenon DEF Types
<1>5. ASSUME NEW p, Go(n, p) PROVE pc'[n] = p /\ UNCHANGED <<lock, outcome>>
  BY <1>4, <1>5, Zenon DEF Go
<1>6. ASSUME NEW r, Leave(n, r)
      PROVE  /\ pc'[n] = "done" /\ outcome'[n] = r
             /\ lock' = IF lock = n THEN Nobody ELSE lock
  BY <1>4, <1>6, Zenon DEF Leave, Return
<1>7. n # Nobody BY HttpMarkers, Zenon
<1>8. ASSUME Prepare(n) PROVE Goal
  <2>1. lock # n BY <1>8, Zenon DEF Prepare, At, Control, ControlOf, Locked
  <2>2. /\ UNCHANGED <<lock, target, backup, opened, superseded>>
        /\ pc'[n] \in {"done", "take"} /\ outcome'[n] \in {"none", "refused"}
    BY <1>2, <1>3, <1>5, <1>6, <1>8, <2>1, Zenon DEF Prepare
  <2>3. lock # Nobody => pc'[lock] = pc[lock] BY <1>1, <2>1, Zenon DEF Types
  <2>4. Live' = Live BY <2>2, <2>3, LiveStays, Zenon
  <2>5. lock' = Nobody => opened' /\ target' # Absent BY <1>2, <2>2, Zenon DEF Steady
  <2> QED BY <2>2, <2>4, <2>5, Zenon
<1>9. ASSUME Take(n) PROVE Goal
  <2>1. lock = Nobody /\ opened BY <1>2, <1>9, Zenon DEF Take, Steady
  <2>2. /\ UNCHANGED <<target, backup, superseded, outcome>> /\ lock' = n
        /\ pc' = [pc EXCEPT ![n] = "preserve"]
    BY <1>3, <1>9, <2>1, Zenon DEF Take
  <2>3. pc'[n] = "preserve" BY <1>4, <2>2, Zenon
  <2>4. Live = In(target) BY <2>1, Zenon DEF Live
  <2>5. Live' = In(target) BY <2>2, <2>3, Zenon DEF Live, In
  <2> QED BY <1>2, <1>7, <2>2, <2>3, <2>4, <2>5, Zenon
<1>10. ASSUME Preserve(n) PROVE Goal
  <2>1. pc[n] = "preserve" /\ lock = n BY <1>10, Zenon DEF Preserve, At, Control, ControlOf, Locked
  <2>2. /\ Go(n, "install") /\ backup' = Put(backup, n, target) /\ UNCHANGED superseded
    BY <1>3, <1>10, Zenon DEF Preserve
  <2>3. backup'[n] = target BY <2>2, Zenon DEF Put, Types
  <2>4. pc'[n] = "install" /\ lock' = n /\ outcome'[n] = "none" BY <1>2, <1>5, <2>1, <2>2, Zenon
  <2>5. Live = In(target) BY <2>1, Zenon DEF Live
  <2>6. Live' = In(target) BY <1>7, <2>3, <2>4, Zenon DEF Live, In
  <2> QED BY <1>7, <2>2, <2>4, <2>5, <2>6, Zenon
<1>11. ASSUME Install(n) PROVE Goal
  <2>1. pc[n] = "install" /\ lock = n BY <1>11, Zenon DEF Install, At, Control, ControlOf, Locked
  <2>2. Go(n, "open") /\ UNCHANGED <<backup, superseded>> BY <1>3, <1>11, Zenon DEF Install
  <2>3. pc'[n] = "open" /\ lock' = n /\ outcome'[n] = "none" BY <1>2, <1>5, <2>1, <2>2, Zenon
  <2>4. Live = In(backup[n]) BY <1>7, <2>1, Zenon DEF Live
  <2>5. Live' = In(backup[n]) BY <1>7, <2>2, <2>3, Zenon DEF Live, In
  <2> QED BY <1>7, <2>2, <2>3, <2>4, <2>5, Zenon
<1>12. ASSUME OpenTarget(n) PROVE Goal
  <2>1. pc[n] = "open" /\ lock = n BY <1>12, Zenon DEF OpenTarget, At, Control, ControlOf, Locked
  <2>2. Go(n, "cleanup") /\ superseded' = superseded \cup Range(backup[n].data)
    BY <1>3, <1>12, Zenon DEF OpenTarget
  <2>3. pc'[n] = "cleanup" /\ lock' = n /\ outcome'[n] = "none" BY <1>2, <1>5, <2>1, <2>2, Zenon
  <2>4. Live = In(backup[n]) BY <1>7, <2>1, Zenon DEF Live
  <2>5. In(backup[n]) = Range(backup[n].data) BY <2>1, Zenon DEF In, Placed, PlacedOf
  <2> QED BY <1>7, <2>2, <2>3, <2>4, <2>5, Zenon
<1>13. ASSUME Cleanup(n) PROVE Goal
  <2>1. pc[n] = "cleanup" /\ lock = n BY <1>13, Zenon DEF Cleanup, At, Control, ControlOf, Locked
  <2>2. Leave(n, "ok") /\ UNCHANGED <<target, opened, superseded>>
    BY <1>3, <1>13, Zenon DEF Cleanup
  <2>3. pc'[n] = "done" /\ lock' = Nobody BY <1>6, <2>1, <2>2, Zenon
  <2>4. opened /\ target = File(<<n>>, TRUE) BY <2>1, Zenon DEF Placed, PlacedOf
  <2>5. Live = In(target) BY <2>1, Zenon DEF Live
  <2>6. Live' = In(target) BY <2>2, <2>3, Zenon DEF Live, In
  <2>7. target # Absent BY <2>4, Zenon DEF Placed
  <2>8. n \in Range(target.data) BY <2>4, RangeShort DEF File
  <2>9. n \in Live' BY <2>6, <2>7, <2>8, Zenon DEF In
  <2> QED BY <2>2, <2>3, <2>4, <2>5, <2>6, <2>7, <2>9, Zenon
<1>14. Goal
  <2>1. pc[n] \notin {"remove_target", "undo", "reopen"} BY Zenon DEF Steady
  <2>2. ~(RemoveTarget(n) \/ Undo(n) \/ Reopen(n))
    BY <2>1, Zenon DEF RemoveTarget, Undo, Reopen, At
  <2> HIDE DEF Goal
  <2> QED BY <1>8, <1>9, <1>10, <1>11, <1>12, <1>13, <2>2, Zenon DEF RestoreStep
<1>15. PICK A : A = superseded \cup Live BY Zenon
<1>16. PICK B : B = superseded' \cup Live' BY Zenon
<1>17. Holds(A) BY <1>15, Zenon DEF Steady
<1>18. (\A m \in A : m \in B \/ m = n) /\ (outcome'[n] = "ok" => n \in B)
  BY <1>14, <1>15, <1>16, Zenon
<1>19. Holds(B)' BY <1>17, <1>18, RestoreHolds, Zenon
<1>20. Holds(superseded \cup Live)' BY <1>16, <1>19, Zenon DEF Holds
<1>21. \A m \in Requests : pc'[m] \notin {"remove_target", "undo", "reopen"}
  BY <1>1, <1>14, Zenon DEF Steady
<1> QED BY <1>14, <1>20, <1>21, Zenon DEF Steady

\* A write goes to the open Database, when nobody has the mutex.
LEMMA ExecuteSteady ==
  ASSUME Types, Types', Control, Placed, NEW n \in Requests, Execute(n) \/ DeadlinePassed(n),
         Steady
  PROVE  Steady'
<1>1. /\ UNCHANGED up /\ \A m \in Requests : m # n => pc'[m] = pc[m]
  BY WorkerFrame, Zenon
<1>2. pc[n] = "execute" /\ pc'[n] = "done" /\ UNCHANGED <<superseded, backup, lock, opened>>
  BY ExecuteWrites, Zenon
<1>3. lock # n BY <1>2, Zenon DEF Control, ControlOf, Locked
<1>4. lock # Nobody => pc'[lock] = pc[lock] BY <1>1, <1>3, Zenon DEF Types
<1>5. /\ lock = Nobody => target' # Absent
      /\ superseded \cup Live \subseteq superseded' \cup Live'
      /\ outcome'[n] = "ok" => Range(batch[n]) \subseteq superseded' \cup Live'
  <2>1. CASE UNCHANGED target /\ outcome'[n] # "ok"
    <3>1. Live' = Live BY <1>2, <1>4, <2>1, LiveStays, Zenon
    <3> QED BY <1>2, <2>1, <3>1, Zenon DEF Steady
  <2>2. CASE /\ lock = Nobody /\ target \in Files /\ target' \in Files
             /\ target'.data = target.data \o batch[n]
    <3>1. target.data \in Seq(Requests) /\ batch[n] \in Seq(Requests) BY <2>2 DEF Types, Files
    <3>2. Range(target'.data) = Range(target.data) \cup Range(batch[n])
      BY <2>2, <3>1, RangeConcat, Zenon
    <3>3. target # Absent /\ target' # Absent BY <2>2, HttpMarkers, Zenon
    <3>4. Live = Range(target.data) BY <2>2, <3>3, Zenon DEF Live, In
    <3>5. Live' = Range(target'.data) BY <1>2, <2>2, <3>3, Zenon DEF Live, In
    <3> QED BY <1>2, <3>2, <3>3, <3>4, <3>5, Zenon
  <2>3. \/ outcome'[n] # "ok" /\ UNCHANGED target
        \/ /\ lock = Nobody /\ target \in Files /\ target' \in Files
           /\ target'.data = target.data \o batch[n]
    BY ExecuteWrites, Zenon
  <2> QED BY <2>1, <2>2, <2>3, Zenon
<1>6. PICK A : A = superseded \cup Live BY Zenon
<1>7. PICK B : B = superseded' \cup Live' BY Zenon
<1>8. Holds(A) BY <1>6, Zenon DEF Steady
<1>9. A \subseteq B /\ (outcome'[n] = "ok" => Range(batch[n]) \subseteq B)
  BY <1>5, <1>6, <1>7, Zenon
<1>10. Holds(B)' BY <1>8, <1>9, ExecuteHolds, Zenon
<1>11. Holds(superseded \cup Live)' BY <1>7, <1>10, Zenon DEF Holds
<1>12. \A m \in Requests : pc'[m] \notin {"remove_target", "undo", "reopen"}
  BY <1>1, <1>2, Zenon DEF Steady
<1> QED BY <1>1, <1>2, <1>5, <1>11, <1>12, Zenon DEF Steady

\* The steps of the handlers leave the Database and its mutex alone.
LEMMA HandlerSteady ==
  ASSUME Types, Control, Steady,
         \/ Query \/ ImportSnapshot \/ ImportLogical
         \/ \E s \in SessionIds : \/ CreateSession(s) \/ DeleteSession(s) \/ Begin(s)
                                  \/ Queue(s) \/ Commit(s) \/ Rollback(s)
         \/ \E n \in Requests : Timer(n) \/ Answer(n)
         \/ UNCHANGED vars
  PROVE  Steady'
<1>1. UNCHANGED <<files, slot, superseded>>
  BY Zenon
  DEF Query, ImportSnapshot, ImportLogical, CreateSession, DeleteSession, Begin, Queue, Commit,
      Rollback, Timer, Answer, vars, Elsewhere, history
<1>2. UNCHANGED <<target, backup, opened, lock, up>> BY <1>1, Zenon DEF files, slot
<1>3. ASSUME NEW m \in Requests
      PROVE  pc'[m] = pc[m] \/ (m > last /\ pc'[m] \in {"done", "execute", "prepare"})
  <2>1. CASE UNCHANGED pc BY <2>1, Zenon
  <2>2. ASSUME NEW k, NEW b, NEW here \in {"done", "execute", "prepare"}, Arrive(k, b, here)
        PROVE  pc'[m] = pc[m] \/ (m > last /\ pc'[m] \in {"done", "execute", "prepare"})
    <3>1. CASE m # Number BY <2>2, <3>1, Zenon DEF Arrive, Types
    <3>2. CASE m = Number
      <4>1. m > last BY <3>2 DEF Number, Types
      <4>2. pc'[m] = here BY <2>2, <3>2, Zenon DEF Arrive, Types
      <4> QED BY <4>1, <4>2, Zenon
    <3> QED BY <3>1, <3>2, Zenon
  <2>3. \/ UNCHANGED pc
        \/ \E k, b : \E here \in {"done", "execute", "prepare"} : Arrive(k, b, here)
    BY Zenon
    DEF Query, ImportSnapshot, ImportLogical, CreateSession, DeleteSession, Begin, Queue, Commit,
        Rollback, Timer, Answer, vars
  <2> QED BY <2>1, <2>2, <2>3, Zenon
<1>4. \A m \in Requests : m > last => lock # m
  BY Zenon DEF Control, ControlOf, Locked, RestoreSteps
<1>5. lock # Nobody => pc'[lock] = pc[lock] BY <1>3, <1>4, Zenon DEF Types
<1>6. Live' = Live BY <1>2, <1>5, LiveStays, Zenon
<1>7. PICK A : A = superseded \cup Live BY Zenon
<1>8. Holds(A) BY <1>7, Zenon DEF Steady
<1>9. A \subseteq A BY Zenon
<1>10. Holds(A)' BY <1>8, <1>9, HandlerHolds, Zenon DEF OtherStep
<1>11. Holds(superseded \cup Live)' BY <1>1, <1>6, <1>7, <1>10, Zenon DEF Holds
<1>12. \A m \in Requests : pc'[m] \notin {"remove_target", "undo", "reopen"}
  BY <1>3, Zenon DEF Steady
<1> QED BY <1>2, <1>11, <1>12, Zenon DEF Steady

\* A crash outside the two renames leaves the Database, or the snapshot that replaces
\* it, at the path.
LEMMA CrashSteady ==
  ASSUME Types, Control, Placed, Steady, Crash, ~cut'
  PROVE  Steady'
<1>1. /\ up' = FALSE /\ lock' = Nobody /\ UNCHANGED target
      /\ superseded' = superseded \cup
            UNION {Range(backup[n].data) : n \in {m \in Requests : pc[m] = "open"}}
      /\ \A m \in Requests : pc[m] # "install" /\ pc'[m] = "done"
  BY Zenon DEF Crash, files
<1>2. Live' = In(target) BY <1>1, Zenon DEF Live, In
<1>3. target # Absent /\ superseded \cup Live \subseteq superseded' \cup In(target)
  <2>1. CASE lock = Nobody
    <3>1. Live = In(target) BY <2>1, Zenon DEF Live
    <3> QED BY <1>1, <2>1, <3>1, Zenon DEF Steady
  <2>2. CASE lock # Nobody
    <3>1. lock \in Requests BY <2>2, Zenon DEF Types
    <3>2. pc[lock] \in Locked BY <3>1, Zenon DEF Control, ControlOf
    <3>3. pc[lock] \in {"preserve", "open", "cleanup"}
      BY <1>1, <3>1, <3>2, Zenon DEF Locked, Steady
    <3>4. PlacedOf(lock) BY <3>1, Zenon DEF Placed
    <3>5. target # Absent
      <4>1. CASE pc[lock] = "preserve" BY <3>4, <4>1, Zenon DEF PlacedOf
      <4>2. CASE pc[lock] \in {"open", "cleanup"}
        <5>1. target = File(<<lock>>, TRUE) BY <3>4, <4>2, Zenon DEF PlacedOf
        <5>2. target \in Files BY <3>1, <5>1 DEF File, Files
        <5> QED BY <5>2, HttpMarkers, Zenon
      <4> QED BY <3>3, <4>1, <4>2, Zenon
    <3>6. CASE pc[lock] = "open"
      <4>1. Live = In(backup[lock]) BY <2>2, <3>6, Zenon DEF Live
      <4>2. In(backup[lock]) = Range(backup[lock].data)
        BY <3>4, <3>6, Zenon DEF PlacedOf, In
      <4>3. Range(backup[lock].data) \subseteq superseded' BY <1>1, <3>1, <3>6, Zenon
      <4> QED BY <1>1, <3>5, <4>1, <4>2, <4>3, Zenon
    <3>7. CASE pc[lock] \in {"preserve", "cleanup"}
      <4>1. Live = In(target) BY <3>7, Zenon DEF Live
      <4> QED BY <1>1, <3>5, <4>1, Zenon
    <3> QED BY <3>3, <3>6, <3>7, Zenon
  <2> QED BY <2>1, <2>2, Zenon
<1>4. PICK A : A = superseded \cup Live BY Zenon
<1>5. PICK B : B = superseded' \cup In(target) BY Zenon
<1>6. Holds(A) /\ A \subseteq B BY <1>3, <1>4, <1>5, Zenon DEF Steady
<1>7. Holds(B)' BY <1>6, HandlerHolds, Zenon DEF OtherStep
<1>8. Holds(superseded \cup Live)' BY <1>2, <1>5, <1>7, Zenon DEF Holds
<1> QED BY <1>1, <1>3, <1>8, Zenon DEF Steady

\* The next start opens what is there.
LEMMA StartSteady ==
  ASSUME Types, Control, Steady, Start
  PROVE  Steady'
<1>1. ~up /\ opened' = TRUE /\ UNCHANGED <<backup, lock, pc, superseded>>
  BY Zenon DEF Start, history
<1>2. \A m \in Requests : lock # m BY <1>1, Zenon DEF Control, ControlOf, Locked
<1>3. lock = Nobody BY <1>2, Zenon DEF Types
<1>4. UNCHANGED target /\ target # Absent BY <1>3, Zenon DEF Start, Steady
<1>5. Live' = Live BY <1>1, <1>4, LiveStays, Zenon
<1>6. PICK A : A = superseded \cup Live BY Zenon
<1>7. Holds(A) /\ A \subseteq A BY <1>6, Zenon DEF Steady
<1>8. Holds(A)' BY <1>7, HandlerHolds, Zenon DEF OtherStep
<1>9. Holds(superseded \cup Live)' BY <1>1, <1>5, <1>6, <1>8, Zenon DEF Holds
<1> QED BY <1>1, <1>4, <1>9, Zenon DEF Steady

\* What has not failed yet had not failed before.
LEMMA HarmlessStep ==
  ASSUME Types, Types', Control, Placed, Owned, Harmless, [Next]_vars
  PROVE  Harmless'
<1> SUFFICES ASSUME faults' = 0, ~cut' PROVE Steady' BY Zenon DEF Harmless
<1>1. faults = 0
  <2>1. UNCHANGED faults \/ Fails
    BY Zenon
    DEF Next, Work, vars, Query, ImportSnapshot, ImportLogical, CreateSession, DeleteSession, Begin,
        Queue, Commit, Rollback, Timer, Answer, Crash, Start, Execute, DeadlinePassed, Prepare,
        Take, Preserve, Install, OpenTarget, Cleanup, RemoveTarget, Undo, Reopen, Works, Elsewhere,
        history
  <2> QED BY <2>1 DEF Fails, Types
<1>2. ~cut
  <2>1. UNCHANGED cut \/ Crash
    BY Zenon
    DEF Next, Work, vars, Query, ImportSnapshot, ImportLogical, CreateSession, DeleteSession, Begin,
        Queue, Commit, Rollback, Timer, Answer, Start, Execute, DeadlinePassed, Prepare,
        Take, Preserve, Install, OpenTarget, Cleanup, RemoveTarget, Undo, Reopen, Handlers,
        Elsewhere, history
  <2> QED BY <2>1, Zenon DEF Crash
<1>3. Steady BY <1>1, <1>2, Zenon DEF Harmless
<1> QED
  BY <1>3, RestoreSteady, ExecuteSteady, HandlerSteady, CrashSteady, StartSteady, Zenon
  DEF Next, Work, RestoreStep

-----------------------------------------------------------------------------
(* The invariant and what follows from it.                                  *)

\* The server starts with an empty Database and no request.
LEMMA HttpInit == Init => HttpInv
<1> SUFFICES ASSUME Init PROVE HttpInv OBVIOUS
<1>1. Types
  <2>1. File(<<>>, TRUE) \in Files /\ <<>> \in Seq(Requests) BY DEF File, Files
  <2>2. 0 \in 0..MaxRequests /\ 0 \in Nat BY HttpBounds
  <2> QED BY <2>1, <2>2, Zenon DEF Init, Types
<1>2. target # Absent /\ target.data = <<>> /\ target.checked
  <2>1. File(<<>>, TRUE) \in Files /\ File(<<>>, TRUE).data = <<>> /\ File(<<>>, TRUE).checked
    BY DEF File, Files
  <2> QED BY <2>1, HttpMarkers, Zenon DEF Init
<1>3. \A n \in Requests : /\ kind[n] = "none" /\ pc[n] = "done" /\ outcome[n] = "none"
                          /\ answer[n] = "none" /\ tx[n] = 0
                          /\ backup[n] = Absent /\ batch[n] = <<>>
  BY Zenon DEF Init
<1>4. \A n \in Requests : lock # n /\ n > last
  <2>1. \A n \in Requests : lock # n BY HttpMarkers, Zenon DEF Init
  <2>2. \A n \in Requests : n > last BY HttpBounds DEF Init, Requests
  <2> QED BY <2>1, <2>2, Zenon
<1>5. \A s \in SessionIds : transaction[s] = None /\ Queued(s) = {}
  <2>1. \A s \in SessionIds : transaction[s] = None BY Zenon DEF Init
  <2> QED BY <2>1, Zenon DEF Queued
<1>6. Range(<<>>) = {} BY RangeShort, Zenon
<1>7. \A f \in Stored : f.data = <<>> BY <1>1, <1>2, <1>3, StoredIs, Zenon
<1>8. Written = {} BY <1>6, <1>7, Zenon DEF Written
<1>9. Control BY <1>3, <1>4, Zenon DEF Control, ControlOf, Locked, RestoreSteps
<1>10. Placed BY <1>2, <1>3, Zenon DEF Placed, PlacedOf, Locked
<1>11. Owned BY <1>3, <1>5, <1>6, Zenon DEF Owned, Init
<1>12. Applied BY <1>8, Zenon DEF Applied
<1>13. Unbroken BY <1>3, <1>5, <1>7, WholeShort, Zenon DEF Unbroken
<1>14. ASSUME NEW S PROVE Holds(S) BY <1>3, Zenon DEF Holds
<1>15. Kept BY <1>14, Zenon DEF Kept
<1>16. opened BY Zenon DEF Init
<1>17. Holds(superseded \cup Live) BY <1>14, Zenon
<1>18. Harmless BY <1>2, <1>3, <1>16, <1>17, Zenon DEF Harmless, Steady
<1> QED BY <1>1, <1>9, <1>10, <1>11, <1>12, <1>13, <1>15, <1>18, Zenon DEF HttpInv

\* Every step of a handler, a worker or the process preserves the invariant.
LEMMA HttpNext == HttpInv /\ [Next]_vars => HttpInv'
<1> SUFFICES ASSUME HttpInv, [Next]_vars PROVE HttpInv' OBVIOUS
<1>1. Types /\ Control /\ Placed /\ Owned /\ Applied /\ Unbroken /\ Kept /\ Harmless
  BY Zenon DEF HttpInv
<1>2. \/ OtherStep
      \/ \E n \in Requests : RestoreStep(n) \/ Execute(n) \/ DeadlinePassed(n)
  BY Zenon DEF Next, Work, OtherStep, RestoreStep
<1>3. ASSUME OtherStep
      PROVE  Types' /\ Control' /\ Placed' /\ Owned' /\ Applied' /\ Unbroken'
  <2>1. Types' BY <1>1, <1>3, HandlerTypes, OtherTypes, Zenon DEF OtherStep
  <2> QED
    BY <1>1, <1>3, <2>1, HandlerControl, HandlerPlaced, OwnedStep, HandlerApplied,
       HandlerUnbroken, Zenon
<1>4. ASSUME NEW n \in Requests, RestoreStep(n)
      PROVE  Types' /\ Control' /\ Placed' /\ Owned' /\ Applied' /\ Unbroken'
  <2>1. Types' BY <1>1, <1>4, RestoreTypes, Zenon DEF RestoreStep
  <2> QED
    BY <1>1, <1>4, <2>1, WorkerControl, RestorePlaced, WorkerOwned, RestoreApplied,
       RestoreUnbroken, Zenon
<1>5. ASSUME NEW n \in Requests, Execute(n) \/ DeadlinePassed(n)
      PROVE  Types' /\ Control' /\ Placed' /\ Owned' /\ Applied' /\ Unbroken'
  <2>1. Types' BY <1>1, <1>5, ExecuteTypes, Zenon
  <2>2. Control' BY <1>1, <1>5, WorkerControl, Zenon
  <2> QED
    BY <1>1, <1>5, <2>1, <2>2, ExecutePlaced, WorkerOwned, ExecuteApplied,
       ExecuteUnbroken, Zenon
<1>6. Types' /\ Control' /\ Placed' /\ Owned' /\ Applied' /\ Unbroken'
  BY <1>2, <1>3, <1>4, <1>5, Zenon
<1>7. Kept' BY <1>1, <1>6, KeptStep, Zenon
<1>8. Harmless' BY <1>1, <1>6, HarmlessStep, Zenon
<1> QED BY <1>6, <1>7, <1>8, Zenon DEF HttpInv

\* The invariant holds in every state the server can reach.
LEMMA HttpInvariance == Spec => []HttpInv
BY HttpInit, HttpNext, PTL DEF Spec

\* A query, a commit or a restore that is answered with an error has left nothing in
\* the Database and has nothing running: for any number of requests, sessions, file
\* system errors and restarts.
THEOREM ErrorsAreTruthful == Spec => []TruthfulAnswers
<1>1. HttpInv => TruthfulAnswers
  <2> SUFFICES ASSUME Types, Control, Applied PROVE TruthfulAnswers
    BY Zenon DEF HttpInv
  <2>1. ASSUME NEW n \in Requests, kind[n] = "write", answer[n] \notin {"none", "ok"}
        PROVE  pc[n] = "done" /\ Range(batch[n]) \cap Written = {}
    <3>1. pc[n] = "done" BY <2>1, Zenon DEF Control, ControlOf
    <3>2. ASSUME NEW m \in Range(batch[n]), m \in Written PROVE FALSE
      <4>1. AppliedOf(m) BY <3>2, Zenon DEF Applied
      <4> QED BY <2>1, <3>2, <4>1, Zenon DEF AppliedOf
    <3> QED BY <3>1, <3>2, Zenon
  <2>2. ASSUME NEW n \in Requests, answer[n] = "refused", target # Absent
        PROVE  n \notin Range(target.data)
    <3>1. SUFFICES ASSUME n \in Range(target.data) PROVE FALSE BY Zenon
    <3>2. n \in Written BY <2>2, <3>1, Zenon DEF Written, Stored
    <3>3. AppliedOf(n) BY <3>2, Zenon DEF Applied
    <3> QED BY <2>2, <3>3, Zenon DEF AppliedOf
  <2> QED BY <2>1, <2>2, Zenon DEF TruthfulAnswers
<1> QED BY <1>1, HttpInvariance, PTL

\* "Commit is all-or-nothing" (docs/HTTP_API.md:83): in every file the server keeps, a
\* transaction is complete, in the order of its statements and in one piece, and no
\* pending or discarded queue has left a trace, for any number of sessions.
THEOREM CommitsAreWhole == Spec => []AllOrNothing
<1>1. HttpInv => AllOrNothing
  <2> SUFFICES ASSUME Types, Applied, Unbroken PROVE AllOrNothing
    BY Zenon DEF HttpInv
  <2>1. ASSUME NEW f \in Stored, NEW i \in DOMAIN f.data
        PROVE  /\ \A j \in DOMAIN f.data : f.data[j] = f.data[i] => j = i
               /\ Mates(tx, f.data[i]) \subseteq Range(f.data)
               /\ i > 1 /\ f.data[i] \in Mates(tx, f.data[i]) /\ f.data[i] # tx[f.data[i]] =>
                     /\ f.data[i - 1] \in Mates(tx, f.data[i])
                     /\ f.data[i - 1] < f.data[i]
    <3>1. Whole(tx, f.data) BY Zenon DEF Unbroken
    <3>2. f.data \in Seq(Requests)
      <4>1. target \in Files \cup {Absent} /\ \A m \in Requests : backup[m] \in Files \cup {Absent}
        BY Zenon DEF Types
      <4>2. f # Absent /\ (f = target \/ \E m \in Requests : f = backup[m]) BY StoredIs, Zenon
      <4>3. f \in Files BY <4>1, <4>2, Zenon
      <4> QED BY <4>3 DEF Files
    <3>3. ASSUME i > 1, f.data[i] \in Mates(tx, f.data[i]), f.data[i] # tx[f.data[i]]
          PROVE  /\ f.data[i - 1] \in Mates(tx, f.data[i])
                 /\ f.data[i - 1] < f.data[i]
      <4>1. tx[f.data[i]] # 0 BY <3>3, Zenon DEF Mates
      <4>2. tx[f.data[i - 1]] = tx[f.data[i]] /\ f.data[i - 1] < f.data[i]
        BY <3>1, <3>3, <4>1, Zenon DEF Whole
      <4>3. f.data[i - 1] \in Requests BY <3>2, <3>3
      <4> QED BY <4>1, <4>2, <4>3, Zenon DEF Mates
    <3> QED BY <3>1, <3>3, Zenon DEF Whole
  <2>2. Written \cap (discarded \cup UNION {Queued(s) : s \in SessionIds}) = {}
    <3> SUFFICES ASSUME NEW m \in Written,
                        m \in discarded \/ \E s \in SessionIds : m \in Queued(s)
                 PROVE  FALSE
      BY Zenon
    <3>1. AppliedOf(m) BY Zenon DEF Applied
    <3> QED BY <3>1, Zenon DEF AppliedOf
  <2> QED BY <2>1, <2>2, Zenon DEF AllOrNothing, Mates
<1> QED BY <1>1, HttpInvariance, PTL

\* Whatever fails or crashes, an acknowledged write or restore is in the live file or
\* in a backup beside it, unless a later restore superseded it.
THEOREM AcknowledgedIsKept == Spec => []NothingDestroyed
<1>1. HttpInv => NothingDestroyed
  <2> SUFFICES ASSUME Kept, NEW m \in Acknowledged PROVE m \in superseded \cup Written
    BY Zenon DEF HttpInv, NothingDestroyed
  <2>1. PICK w \in Requests : answer[w] = "ok" /\ m \in Effect(w)
    BY Zenon DEF Acknowledged, Effect
  <2> QED BY <2>1, Zenon DEF Kept, Holds
<1> QED BY <1>1, HttpInvariance, PTL

\* "An incompatible or corrupt upload leaves the live database untouched"
\* (docs/HTTP_API.md:110): until a call fails or the process dies between the two
\* renames, the Database is open whenever its mutex is free, was checked, and holds
\* everything that was acknowledged and not superseded.
THEOREM UploadsAreHarmless == Spec => []HarmlessWithoutFault
<1>1. HttpInv => HarmlessWithoutFault
  <2> SUFFICES ASSUME Placed, Harmless, up, faults = 0, ~cut, lock = Nobody
               PROVE  /\ opened /\ target # Absent /\ target.checked
                      /\ Acknowledged \subseteq superseded \cup Range(target.data)
    BY Zenon DEF HttpInv, HarmlessWithoutFault
  <2>1. Steady BY Zenon DEF Harmless
  <2>2. opened /\ target # Absent /\ target.checked BY <2>1, Zenon DEF Steady, Placed
  <2>3. Live = Range(target.data) BY <2>2, Zenon DEF Live, In
  <2>4. ASSUME NEW m \in Acknowledged PROVE m \in superseded \cup Range(target.data)
    <3>1. PICK w \in Requests : answer[w] = "ok" /\ m \in Effect(w)
      BY Zenon DEF Acknowledged, Effect
    <3>2. Holds(superseded \cup Live) BY <2>1, Zenon DEF Steady
    <3> QED BY <2>3, <3>1, <3>2, Zenon DEF Holds
  <2> QED BY <2>2, <2>4, Zenon
<1> QED BY <1>1, HttpInvariance, PTL

=============================================================================
