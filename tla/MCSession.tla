------------------------------ MODULE MCSession ------------------------------
(* Session with one connection at work and one that administers. *)
EXTENDS Session, TLC
CONSTANTS worker, admin

Lifecycle == {"create", "rename", "drop"}
Transactions == {"select", "query", "begin", "commit", "rollback"}
UploadFrames == {"restore_begin", "restore_chunk", "restore_commit", "restore_abort"}

MCScripts ==
  { [c \in Conns |-> IF c = worker THEN Transactions \cup {"drop"} ELSE Lifecycle],
    [c \in Conns |-> IF c = worker THEN UploadFrames \cup {"select", "begin"}
                     ELSE Lifecycle \cup {"logical_import"}] }

Symmetry == Permutations(Names)
=============================================================================
