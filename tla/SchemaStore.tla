---------------------------- MODULE SchemaStore ----------------------------
(***************************************************************************)
(* What Engine.Migrate promises a table: its columns change only as a      *)
(* whole, from whatever they were to the fields of the struct migrated.    *)
(* A migration either takes effect completely or not at all; nothing in   *)
(* between is ever seen.                                                   *)
(***************************************************************************)
CONSTANTS
    Structs,        \* the field sets of the structs migrated
    NoTable         \* the table does not exist

VARIABLE table      \* the columns of the table, or NoTable

\* The table may start in any state, from an earlier program.
Init == TRUE

\* A migration to struct f takes effect.
Migrated(f) == table' = f

Next == \E f \in Structs : Migrated(f)

Spec == Init /\ [][Next]_table

====
