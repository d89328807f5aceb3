---------------------------- MODULE AtomicCatalog ---------------------------
(***************************************************************************)
(* What the durable catalog promises to its clients: one request at a time *)
(* changes the whole catalog in one step or not at all, an acknowledged    *)
(* change has been made, and an error means that nothing was changed --    *)
(* except that a drop may report an error after it took effect.  A crash   *)
(* forgets the request under way; the change may have been made or not.    *)
(***************************************************************************)
CONSTANTS Ids, Names, NoName, NoOp

VARIABLES cat,     \* the catalog
          want,    \* the request under way: its kind, its ID, the catalog it asks for
          phase,   \* "idle", "working", or "committed" until it is answered
          answer   \* the answer to the last request

vars == <<cat, want, phase, answer>>

Entries(c) == {i \in Ids : c[i] # NoName}

Init == /\ cat = [i \in Ids |-> NoName]
        /\ want = NoOp /\ phase = "idle" /\ answer = "none"

\* The catalogs one request may ask for.
Create(id, n) == [kind |-> "create", id |-> id, next |-> [cat EXCEPT ![id] = n]]
Rename(id, n) == [kind |-> "rename", id |-> id, next |-> [cat EXCEPT ![id] = n]]
Drop(id) == [kind |-> "drop", id |-> id, next |-> [cat EXCEPT ![id] = NoName]]

Free(n) == \A i \in Entries(cat) : cat[i] # n

Begin ==
    /\ phase = "idle"
    /\ \/ \E id \in Ids \ Entries(cat), n \in Names : Free(n) /\ want' = Create(id, n)
       \/ \E id \in Entries(cat), n \in Names : Free(n) /\ want' = Rename(id, n)
       \/ \E id \in Entries(cat) : want' = Drop(id)
    /\ phase' = "working" /\ answer' = "none"
    /\ UNCHANGED cat

Commit == /\ phase = "working"
          /\ cat' = want.next /\ phase' = "committed"
          /\ UNCHANGED <<want, answer>>

Done(a) == want' = NoOp /\ phase' = "idle" /\ answer' = a

Acknowledge == phase = "committed" /\ Done("ok") /\ UNCHANGED cat

Reject == phase \in {"idle", "working"} /\ Done("error") /\ UNCHANGED cat

LateError == /\ phase = "committed" /\ want.kind = "drop"
             /\ Done("error") /\ UNCHANGED cat

Crash == /\ cat' = cat \/ (phase = "working" /\ cat' = want.next)
         /\ Done("none")

Next == Begin \/ Commit \/ Acknowledge \/ Reject \/ LateError \/ Crash

Spec == Init /\ [][Next]_vars
=============================================================================
