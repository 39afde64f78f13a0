----------------------------- MODULE MC_Migrate -----------------------------
(***************************************************************************)
(* The columns of GeeORM's migrate test (GeeORM/geeorm_test.go): Name,     *)
(* Age and XXX.  The table starts as (Name, XXX), as (Name, Age) or absent,*)
(* and the program migrates it to User (Name, Age) or to a struct with     *)
(* Name only, so every path of Migrate is taken: create, add only, add and *)
(* drop, drop only, and nothing to do.                                     *)
(***************************************************************************)
EXTENDS Migrate

CONSTANTS n, a, x, notable, notx

MCCols == {n, a, x}

MCStructs == {{n, a}, {n}}

MCInitTables == {{n, x}, {n, a}, notable}

====
