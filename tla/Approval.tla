-------------------------------- MODULE Approval --------------------------------
(***************************************************************************)
(* The two transactions of the control API that create jobs                *)
(* (aeh/service.py): an event that opens an incident, and the approval of  *)
(* an analysed incident.  Both run in write_transaction.                   *)
(***************************************************************************)
EXTENDS JobTables

FaultyRequireJobCapacity == Cardinality(ActiveJobs) <= JobLimit

\* _require_job_capacity: PENDING and RUNNING jobs count, under an advisory lock.
RequireJobCapacity == Cardinality(ActiveJobs) < JobLimit

\* A receipt whose grouping has no open incident creates the incident, in
\* version 1, and its ANALYZE job.  Receipts that join an open incident change
\* no row of this module.
Receive(i) ==
  /\ incident[i].state = "ABSENT"
  /\ RequireJobCapacity
  /\ incident' = [incident EXCEPT ![i] = [state |-> "RECEIVED", version |-> 1]]
  /\ job' = [job EXCEPT ![i]["ANALYZE"] = NewJob]
  /\ UNCHANGED <<analysis, approval, patch, policy>>

FaultyKeyUnused(k) == TRUE

\* No approval row carries the key.  With one, the request is answered from it:
\* 200 for the same incident, 409 for another, and nothing changes.
KeyUnused(k) == \A j \in Incident : approval[j] # k

AwaitingApproval(i) ==
  /\ incident[i].state = "AWAITING_APPROVAL"
  /\ analysis[i].status = "SUCCEEDED"
  /\ approval[i] = NoKey

\* approve: approval, patch run and PATCH job are created and the incident
\* enters PATCHING, all in one transaction.
Approve(i, k) ==
  /\ KeyUnused(k)
  /\ AwaitingApproval(i)
  /\ RequireJobCapacity
  /\ approval' = [approval EXCEPT ![i] = k]
  /\ patch' = [patch EXCEPT ![i] = "PENDING"]
  /\ job' = [job EXCEPT ![i]["PATCH"] = NewJob]
  /\ incident' = [incident EXCEPT ![i] = Enters(@, "PATCHING")]
  /\ UNCHANGED <<analysis, policy>>

\* sync_services rewrites the service's policy column at any time.
SyncPolicy ==
  /\ policy' \in Policy \ {policy}
  /\ UNCHANGED <<incident, job, analysis, approval, patch>>
================================================================================
