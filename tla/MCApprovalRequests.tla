----------------------------- MODULE MCApprovalRequests -----------------------------
(***************************************************************************)
(* ApprovalRequests on a small instance: the same approval asked for       *)
(* twice, the same key for another incident, and an incident without       *)
(* requests that may take a job of its own.                                *)
(***************************************************************************)
EXTENDS ApprovalRequests

Targets == [r \in Request |-> IF r = 3 THEN "b" ELSE "a"]
Keys == [r \in Request |-> "k"]
================================================================================
