----------------------------- MODULE JobRepository -----------------------------
(***************************************************************************)
(* The job transactions of aeh/job_repository.py.  Each one runs inside    *)
(* write_transaction (BEGIN IMMEDIATE on SQLite, row locks on PostgreSQL)  *)
(* and is one atomic action on the tables.  The operators here leave the   *)
(* workers' variables to module Worker.                                    *)
(*                                                                         *)
(* Definitions named Faulty... change one definition the way a plausible   *)
(* bug would; no specification uses them.  They document which property    *)
(* would notice.                                                           *)
(***************************************************************************)
EXTENDS JobTables

\* What a worker holds while it executes a job.
Claim == [incident : Incident, type : JobType, token : Nat \ {NoToken}, version : Nat]

JobOf(c) == job[c.incident][c.type]

Backoff(attempt) == IF attempt = 1 THEN FirstBackoff ELSE LaterBackoff

--------------------------------------------------------------------------------
(* Row changes shared by the transactions *)

\* The row goes back to the queue, its owner cleared.
Requeued(row) == [status |-> "PENDING", attempt |-> row.attempt, token |-> NoToken,
                  age |-> 0, wait |-> Backoff(row.attempt)]

\* The row is decided for good, its owner cleared.
Closed(row, status) == [status |-> status, attempt |-> row.attempt, token |-> NoToken,
                        age |-> 0, wait |-> row.wait]

FaultyAttemptsRemain(row) == row.attempt <= MaxAttempts
AttemptsRemain(row) == row.attempt < MaxAttempts

--------------------------------------------------------------------------------
(* claim_job *)

Claimable(i, t) == job[i][t].status = "PENDING" /\ job[i][t].wait = 0

\* The precondition of a PATCH claim; the code raises RuntimeError without it.
PatchApproved(i) == patch[i] # "ABSENT" /\ incident[i].state \in {"PATCHING", "VALIDATING"}

FaultyToken(row) == 1
FaultyNoToken(row) == NoToken
TokenDrawn(row) == row.attempt + 1

Claimed(row) == [status |-> "RUNNING", attempt |-> row.attempt + 1,
                 token |-> TokenDrawn(row), age |-> 0, wait |-> row.wait]

FaultySnapshot(row) == [status |-> "RUNNING", policy |-> policy]

\* The analysis run is created, with the service's policy, by the first claim only.
RunOfClaim(row) ==
  IF row.status = "ABSENT" THEN [status |-> "RUNNING", policy |-> policy] ELSE row

FaultyIncidentOfClaim(row, t) ==
  CASE t = "ANALYZE" /\ row.state = "RECEIVED" -> Enters(row, "ANALYZING")
    [] OTHER -> row

\* The first ANALYZE claim starts the analysis; a PATCH claim after a
\* validation that did not finish goes back to PATCHING.
IncidentOfClaim(row, t) ==
  CASE t = "ANALYZE" /\ row.state = "RECEIVED"   -> Enters(row, "ANALYZING")
    [] t = "PATCH"   /\ row.state = "VALIDATING" -> Enters(row, "PATCHING")
    [] OTHER -> row

\* One claimable job is taken.  The order by available_at, created_at and id is
\* left open: any claimable job may be the one.
claim_job(i, t) ==
  /\ Claimable(i, t)
  /\ t = "PATCH" => PatchApproved(i)
  /\ job' = [job EXCEPT ![i][t] = Claimed(@)]
  /\ incident' = [incident EXCEPT ![i] = IncidentOfClaim(@, t)]
  /\ analysis' = IF t = "ANALYZE" THEN [analysis EXCEPT ![i] = RunOfClaim(@)] ELSE analysis
  /\ patch' = IF t = "PATCH" THEN [patch EXCEPT ![i] = "RUNNING"] ELSE patch
  /\ UNCHANGED <<approval, policy>>

\* The Claim the transaction returns.
ClaimTaken(i, t) == [incident |-> i, type |-> t, token |-> job'[i][t].token,
                     version |-> incident'[i].version]

--------------------------------------------------------------------------------
(* heartbeat *)

FaultyOwns(c) == JobOf(c).status = "RUNNING"
Owns(c) == JobOf(c).status = "RUNNING" /\ JobOf(c).token = c.token

LeaseLive(row) == row.age < LeaseTicks

\* The conditions of the UPDATE; a worker whose heartbeat fails them has lost
\* the job.
HeartbeatAccepted(c) == Owns(c) /\ LeaseLive(JobOf(c))

heartbeat(c) ==
  /\ HeartbeatAccepted(c)
  /\ job' = [job EXCEPT ![c.incident][c.type].age = 0]
  /\ UNCHANGED <<incident, analysis, approval, patch, policy>>

--------------------------------------------------------------------------------
(* recover_expired *)

FaultyExpired(row) == FALSE
Expired(row) == row.status = "RUNNING" /\ ~LeaseLive(row)
FaultyExhausted(row) == ~AttemptsRemain(row)
Exhausted(row) == Expired(row) /\ ~AttemptsRemain(row)

Recovered(row) ==
  CASE Exhausted(row) -> Closed(row, "FAILED")
    [] Expired(row) /\ ~Exhausted(row) -> Requeued(row)
    [] OTHER -> row

FaultyIncidentOfRecovery(i) == incident[i]

FaultyIncidentOfRetry(i) ==
  IF Exhausted(job[i]["ANALYZE"]) THEN Enters(incident[i], "ANALYSIS_FAILED")
  ELSE IF Expired(job[i]["PATCH"]) THEN Enters(incident[i], "PATCH_FAILED")
  ELSE incident[i]

IncidentOfRecovery(i) ==
  IF Exhausted(job[i]["ANALYZE"]) THEN Enters(incident[i], "ANALYSIS_FAILED")
  ELSE IF Exhausted(job[i]["PATCH"]) THEN Enters(incident[i], "PATCH_FAILED")
  ELSE incident[i]

RunOfRecovery(i) ==
  IF Exhausted(job[i]["ANALYZE"]) THEN [analysis[i] EXCEPT !.status = "FAILED"] ELSE analysis[i]

PatchOfRecovery(i) == IF Exhausted(job[i]["PATCH"]) THEN "PATCH_FAILED" ELSE patch[i]

\* Every job whose lease ran out is requeued or, its attempts used up, failed
\* together with its run and its incident.  The query's LIMIT 100 is the
\* number of jobs that may be active at all (Limits.job_limit).
recover_expired ==
  /\ job' = [i \in Incident |-> [t \in JobType |-> Recovered(job[i][t])]]
  /\ incident' = [i \in Incident |-> IncidentOfRecovery(i)]
  /\ analysis' = [i \in Incident |-> RunOfRecovery(i)]
  /\ patch' = [i \in Incident |-> PatchOfRecovery(i)]
  /\ UNCHANGED <<approval, policy>>

--------------------------------------------------------------------------------
(* mark_validating *)

\* The lease's age is not looked at: an expired lease nobody recovered will do.
MarkAccepted(c) == Owns(c) /\ incident[c.incident].version = c.version

mark_validating(c) ==
  /\ MarkAccepted(c)
  /\ incident' = [incident EXCEPT ![c.incident] = Enters(@, "VALIDATING")]
  /\ patch' = [patch EXCEPT ![c.incident] = "VALIDATING"]
  /\ UNCHANGED <<job, analysis, approval, policy>>

--------------------------------------------------------------------------------
(* finalize *)

\* Outcomes of an execution.  TRANSIENT and CANCELLED carry transient=True.
Outcome == {"OK", "TRANSIENT", "CANCELLED", "FATAL"}

FinalizeAccepted(c, v) ==
  /\ Owns(c)
  /\ LeaseLive(JobOf(c))
  /\ incident[c.incident].version = v

Retried(c, o) == o \in {"TRANSIENT", "CANCELLED"} /\ AttemptsRemain(JobOf(c))

RetryJob(c) ==
  /\ job' = [job EXCEPT ![c.incident][c.type] = Requeued(@)]
  /\ UNCHANGED <<incident, analysis, approval, patch, policy>>

SettleJob(c, o) ==
  LET i == c.incident IN
  /\ job' = [job EXCEPT ![i][c.type] = Closed(@, IF o = "OK" THEN "SUCCEEDED" ELSE "FAILED")]
  /\ \/ /\ c.type = "ANALYZE"
        /\ analysis' = [analysis EXCEPT ![i].status = IF o = "OK" THEN "SUCCEEDED" ELSE "FAILED"]
        /\ incident' = [incident EXCEPT ![i] =
                          Enters(@, IF o = "OK" THEN "AWAITING_APPROVAL" ELSE "ANALYSIS_FAILED")]
        /\ UNCHANGED patch
     \/ /\ c.type = "PATCH"
        /\ patch' = [patch EXCEPT ![i] = IF o = "OK" THEN "PATCH_READY" ELSE "PATCH_FAILED"]
        /\ incident' = [incident EXCEPT ![i] =
                          Enters(@, IF o = "OK" THEN "PATCH_READY" ELSE "PATCH_FAILED")]
        /\ UNCHANGED analysis
  /\ UNCHANGED <<approval, policy>>

\* Accepted: the job is requeued or settled.  Refused (it returns False): the
\* claim is stale and nothing changes.
finalize(c, v, o) ==
  \/ FinalizeAccepted(c, v) /\ Retried(c, o) /\ RetryJob(c)
  \/ FinalizeAccepted(c, v) /\ ~Retried(c, o) /\ SettleJob(c, o)
  \/ ~FinalizeAccepted(c, v) /\ UNCHANGED tables
================================================================================
