-------------------------- MODULE MCSnapshotRestore -------------------------
(* Instances of SnapshotRestore for TLC.                                    *)
EXTENDS SnapshotRestore
=============================================================================
