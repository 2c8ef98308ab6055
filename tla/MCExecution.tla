------------------------------- MODULE MCExecution -------------------------------
(***************************************************************************)
(* Execution on a small instance: an analysis and a patch in one           *)
(* repository.                                                             *)
(***************************************************************************)
EXTENDS Execution

Kinds == [e \in Exec |-> IF e = 1 THEN "PATCH" ELSE "ANALYZE"]
================================================================================
