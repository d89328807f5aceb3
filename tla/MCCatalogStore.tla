--------------------------- MODULE MCCatalogStore ---------------------------
(* Instances of CatalogStore for TLC.                                       *)
EXTENDS CatalogStore

\* Every call may fail except the rename that puts the previous catalog back.
AllButRollback == Calls \ {"rollback_state"}

\* The identifiers that something in the data directory or in the process names.
Named ==
    LET in(file) == IF file \in {Absent, Torn} THEN {} ELSE Known(file)
    IN  directory \cup storage \cup trash \cup failed \cup orphans \cup handles
        \cup Known(catalog) \cup in(state) \cup in(pending) \cup in(previous)
        \cup (IF journal \in {Absent, Torn} THEN {}
              ELSE {journal.id} \cup Known(journal.before) \cup Known(journal.after))

\* Identifiers that nothing names are interchangeable, in every definition and every
\* property, so of these a create needs to try only one.
OneOfTheUnnamed ==
    pc = "idle" /\ pc' = "create_storage" =>
       op'.id \in Named \/ op'.id = CHOOSE id \in Ids \ Named : TRUE
=============================================================================
