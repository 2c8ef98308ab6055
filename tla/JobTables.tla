------------------------------- MODULE JobTables -------------------------------
(***************************************************************************)
(* The database rows every process of the pipeline reads and writes        *)
(* (aeh/db.py).  An incident owns at most one ANALYZE job, one analysis    *)
(* run, one approval, one patch run and one PATCH job: the UNIQUE columns  *)
(* of the schema say so, which is why each table is a function of the      *)
(* incident here and "ABSENT" stands for "no such row".                    *)
(*                                                                         *)
(* Abstractions of data:                                                   *)
(*  - jobs.locked_at is kept as `age', the ticks since the lease was last  *)
(*    renewed, capped at LeaseTicks: a lease is live while age is smaller. *)
(*  - jobs.available_at is kept as `wait', the ticks until the job may be  *)
(*    claimed again.                                                       *)
(*  - jobs.claim_token, a random UUID drawn at every claim, is the number  *)
(*    of the attempt that drew it; NoToken is the column's NULL.           *)
(*  - commit ids are copied from the incident's immutable column, and      *)
(*    results, diffs and error texts are payload: both are left out.       *)
(***************************************************************************)
EXTENDS Integers, FiniteSets

CONSTANTS
  Incident,      \* incidents that may come to exist
  Key,           \* Idempotency-Key values of approval requests
  NoKey,         \* no approval row
  Policy,        \* values the service's policy column may hold
  NoPolicy,      \* no snapshot yet
  MaxAttempts,   \* jobs.max_attempts, Limits.max_attempts
  LeaseTicks,    \* Limits.lease_seconds, in ticks
  FirstBackoff,  \* delay after the first attempt, in ticks
  LaterBackoff,  \* delay after every later attempt, in ticks
  JobLimit       \* Limits.job_limit

ASSUME AttemptsAssumption == MaxAttempts \in Nat \ {0}
ASSUME LeaseAssumption == LeaseTicks \in Nat \ {0}
ASSUME BackoffAssumption == FirstBackoff \in Nat /\ LaterBackoff \in Nat
ASSUME JobLimitAssumption == JobLimit \in Nat \ {0}
ASSUME SentinelAssumption == NoKey \notin Key /\ NoPolicy \notin Policy

VARIABLES
  incident,   \* incidents: state and version of each row
  job,        \* jobs: the row of each incident and job type
  analysis,   \* analysis_runs: status and policy_snapshot
  approval,   \* approvals: the idempotency_key of the incident's approval
  patch,      \* patch_runs: status
  policy      \* services.policy, rewritten by a configuration sync

tables == <<incident, job, analysis, approval, patch, policy>>

--------------------------------------------------------------------------------
(* Columns *)

IncidentState == {"ABSENT", "RECEIVED", "ANALYZING", "AWAITING_APPROVAL",
                  "ANALYSIS_FAILED", "PATCHING", "VALIDATING", "PATCH_READY",
                  "PATCH_FAILED"}
SettledState == {"ANALYSIS_FAILED", "PATCH_READY", "PATCH_FAILED"}
JobType == {"ANALYZE", "PATCH"}
ActiveStatus == {"PENDING", "RUNNING"}
SettledStatus == {"SUCCEEDED", "FAILED"}
JobStatus == {"ABSENT"} \cup ActiveStatus \cup SettledStatus
AnalysisStatus == {"ABSENT", "RUNNING", "SUCCEEDED", "FAILED"}
PatchStatus == {"ABSENT", "PENDING", "RUNNING", "VALIDATING", "PATCH_READY",
                "PATCH_FAILED"}
NoToken == 0

IncidentRow == [state : IncidentState, version : Nat]
JobRow == [status : JobStatus, attempt : Nat, token : Nat,
           age : 0..LeaseTicks, wait : Nat]
AnalysisRow == [status : AnalysisStatus, policy : Policy \cup {NoPolicy}]

TablesTypeOK ==
  /\ incident \in [Incident -> IncidentRow]
  /\ job \in [Incident -> [JobType -> JobRow]]
  /\ analysis \in [Incident -> AnalysisRow]
  /\ approval \in [Incident -> Key \cup {NoKey}]
  /\ patch \in [Incident -> PatchStatus]
  /\ policy \in Policy

--------------------------------------------------------------------------------
(* Rows as they are created and changed *)

AbsentJob == [status |-> "ABSENT", attempt |-> 0, token |-> NoToken,
              age |-> 0, wait |-> 0]

\* A new Job row: the column defaults of the class.
NewJob == [AbsentJob EXCEPT !.status = "PENDING"]

\* An incident enters state s: every writer increments the version with it.
Enters(row, s) == [state |-> s, version |-> row.version + 1]

TablesInit ==
  /\ incident = [i \in Incident |-> [state |-> "ABSENT", version |-> 0]]
  /\ job = [i \in Incident |-> [t \in JobType |-> AbsentJob]]
  /\ analysis = [i \in Incident |-> [status |-> "ABSENT", policy |-> NoPolicy]]
  /\ approval = [i \in Incident |-> NoKey]
  /\ patch = [i \in Incident |-> "ABSENT"]
  /\ policy \in Policy

\* The jobs active_job_count counts.
ActiveJobs == {j \in Incident \X JobType : job[j[1]][j[2]].status \in ActiveStatus}

--------------------------------------------------------------------------------
(* The clock *)

\* One tick later: leases of RUNNING jobs grow older, backoffs of PENDING ones
\* run down.
Older(row) ==
  [status |-> row.status, attempt |-> row.attempt, token |-> row.token,
   age  |-> IF row.status = "RUNNING" /\ row.age < LeaseTicks THEN row.age + 1 ELSE row.age,
   wait |-> IF row.status = "PENDING" /\ row.wait > 0 THEN row.wait - 1 ELSE row.wait]

\* Time passes for every row at once.  Nothing else bounds how far it may run
\* between two steps of a worker: a process may be suspended for any time.
Tick ==
  /\ job' = [i \in Incident |-> [t \in JobType |-> Older(job[i][t])]]
  /\ job' # job
  /\ UNCHANGED <<incident, analysis, approval, patch, policy>>
================================================================================
