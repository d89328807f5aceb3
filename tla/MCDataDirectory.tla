--------------------------- MODULE MCDataDirectory ---------------------------
(* Instances of DataDirectory for TLC.  No definition tells processes or    *)
(* configuration paths apart, and the properties are safety properties, so  *)
(* states that differ by a permutation of them are explored once.           *)
EXTENDS DataDirectory, TLC

Interchangeable == Permutations(Processes) \cup Permutations(Configs)
=============================================================================
