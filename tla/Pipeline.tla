-------------------------------- MODULE Pipeline --------------------------------
(***************************************************************************)
(* The whole job pipeline: workers, the control API's two writers and the  *)
(* clock over the shared tables.                                           *)
(***************************************************************************)
EXTENDS Worker, Approval

vars == <<tables, workers>>

Init == TablesInit /\ WorkerInit

\* The control API and the configuration sync.
ApiStep ==
  \/ \E i \in Incident : Receive(i)
  \/ \E i \in Incident, k \in Key : Approve(i, k)
  \/ SyncPolicy

Next ==
  \/ \E w \in Worker : WorkerNext(w)
  \/ ApiStep /\ UNCHANGED workers
  \/ Tick /\ UNCHANGED workers

Spec == Init /\ [][Next]_vars

\* The event loop goes on, time passes, a process that is down is replaced.
\* Every await of a running job is bounded by a timeout, so LoopStep is taken.
\* Nobody is obliged to report an error, to approve, or to change the policy.
Fairness ==
  /\ WF_vars(Tick /\ UNCHANGED workers)
  /\ \A w \in Worker : WF_vars(LoopStep(w)) /\ WF_vars(Restart(w))

\* Crashes and shutdowns come to an end.
EventuallyCalm == <>[][\A w \in Worker : ~Shutdown(w)]_vars

FairSpec == Spec /\ Fairness /\ EventuallyCalm

--------------------------------------------------------------------------------
(* Safety *)

\* The tables and the workers' variables hold values of their types.
TypeOK == TablesTypeOK /\ WorkerTypeOK

\* The statuses that may stand together: the incident's state, its ANALYZE job,
\* its analysis run, its PATCH job, its patch run.
LegalRows ==
  { <<"ABSENT",            "ABSENT",    "ABSENT",    "ABSENT",    "ABSENT">>,
    <<"RECEIVED",          "PENDING",   "ABSENT",    "ABSENT",    "ABSENT">>,
    <<"ANALYZING",         "RUNNING",   "RUNNING",   "ABSENT",    "ABSENT">>,
    <<"ANALYZING",         "PENDING",   "RUNNING",   "ABSENT",    "ABSENT">>,
    <<"ANALYSIS_FAILED",   "FAILED",    "FAILED",    "ABSENT",    "ABSENT">>,
    <<"AWAITING_APPROVAL", "SUCCEEDED", "SUCCEEDED", "ABSENT",    "ABSENT">>,
    <<"PATCHING",          "SUCCEEDED", "SUCCEEDED", "PENDING",   "PENDING">>,
    <<"PATCHING",          "SUCCEEDED", "SUCCEEDED", "RUNNING",   "RUNNING">>,
    <<"PATCHING",          "SUCCEEDED", "SUCCEEDED", "PENDING",   "RUNNING">>,
    <<"VALIDATING",        "SUCCEEDED", "SUCCEEDED", "RUNNING",   "VALIDATING">>,
    <<"VALIDATING",        "SUCCEEDED", "SUCCEEDED", "PENDING",   "VALIDATING">>,
    <<"PATCH_READY",       "SUCCEEDED", "SUCCEEDED", "SUCCEEDED", "PATCH_READY">>,
    <<"PATCH_FAILED",      "SUCCEEDED", "SUCCEEDED", "FAILED",    "PATCH_FAILED">> }

RowsAgree(i) ==
  /\ <<incident[i].state, job[i]["ANALYZE"].status, analysis[i].status,
       job[i]["PATCH"].status, patch[i]>> \in LegalRows
  /\ approval[i] = NoKey <=> patch[i] = "ABSENT"
  /\ incident[i].state = "ABSENT" => incident[i].version = 0

\* The rows about one incident always tell the same story, however claims,
\* retries, recoveries, late threads and approvals interleave: the incident's
\* state fits the statuses of its jobs and runs, a patch run exists only for an
\* approved incident with a successful analysis, and an incident not received
\* has no version yet.
LifecycleConsistent == \A i \in Incident : RowsAgree(i)

\* The RuntimeErrors of claim_job and recover_expired cannot be raised: no
\* transaction a worker loop runs can fail on the rows it finds, so no job can
\* bring down one worker after another.
NoPoisonJob ==
  \A i \in Incident :
    /\ Claimable(i, "PATCH") => PatchApproved(i)
    /\ Expired(job[i]["ANALYZE"]) => analysis[i].status # "ABSENT"
    /\ Expired(job[i]["PATCH"]) => patch[i] # "ABSENT"

\* A claim token names one execution: no two loops hold a job under the same
\* token, and a mark_validating left behind by one execution never carries the
\* token another execution runs under.
TokenNamesOneExecution ==
  \A v, w \in Worker : v # w =>
    /\ pc[v] \in Holding /\ pc[w] \in Holding =>
         \/ <<claim[v].incident, claim[v].type>> # <<claim[w].incident, claim[w].type>>
         \/ claim[v].token # claim[w].token
    /\ claim[v] \notin orphans[w]

\* While a loop owns its job, nobody else moves the incident on: the version that
\* finalize insists on is behind for one reason only, a mark_validating of the same
\* execution that committed after its await was given up.  That takes a timeout or
\* a cancellation, so neither success nor a transient failure is ever refused for
\* the version.
BehindByLateMarkOnly ==
  \A w \in Worker :
    LET row == incident[claim[w].incident] IN
    pc[w] = "finalize" /\ Owns(claim[w]) /\ row.version # ref[w] =>
      /\ claim[w].type = "PATCH" /\ outcome[w] \in {"FATAL", "CANCELLED"}
      /\ row.state = "VALIDATING" /\ row.version = ref[w] + 1

\* A job is attempted at most MaxAttempts times, and is never queued again once
\* its attempts are used up, whether attempts end by an outcome, a crash or a
\* lost lease.
AttemptsRespected ==
  \A i \in Incident, t \in JobType :
    /\ job[i][t].attempt <= MaxAttempts
    /\ job[i][t].status = "PENDING" => job[i][t].attempt < MaxAttempts

\* Events and approvals together never queue more than JobLimit unfinished jobs.
CapacityRespected == Cardinality(ActiveJobs) <= JobLimit

\* An Idempotency-Key approves at most one incident.
KeyApprovesOneIncident ==
  \A i, j \in Incident : approval[i] = approval[j] /\ approval[i] # NoKey => i = j

--------------------------------------------------------------------------------
(* What a step may never do *)

\* The settled rows of incident i are not changed.
SettledKept(i) ==
  /\ \A t \in JobType : job[i][t].status \in SettledStatus => job'[i][t] = job[i][t]
  /\ incident[i].state \in SettledState =>
       /\ incident'[i] = incident[i]
       /\ analysis'[i] = analysis[i]
       /\ patch'[i] = patch[i]
  /\ analysis[i].status \in SettledStatus => analysis'[i] = analysis[i]
  /\ approval[i] # NoKey => approval'[i] = approval[i]

\* What is settled stays: no late result, retry, recovery or orphan changes a
\* finished job, analysis or patch run, an ended incident, or an approval.
SettledForever == [][\A i \in Incident : SettledKept(i)]_vars

\* The loop that holds job (i, t) under the row's token finalizes it in this step.
OwnerFinalizes(i, t, outcomes) ==
  \E w \in Worker :
    /\ pc[w] = "finalize" /\ pc'[w] = "recover"
    /\ claim[w].incident = i /\ claim[w].type = t /\ claim[w].token = job[i][t].token
    /\ outcome[w] \in outcomes

\* A job that stops running in this step is ended by its owner while its lease
\* is live, and succeeds by nobody else.
EndsByOwner(i, t) ==
  job[i][t].status = "RUNNING" /\ job'[i][t].status # "RUNNING" =>
    /\ LeaseLive(job[i][t]) => OwnerFinalizes(i, t, Outcome)
    /\ job'[i][t].status = "SUCCEEDED" => OwnerFinalizes(i, t, {"OK"})

\* A running job is ended by the loop that owns it or, its lease expired, by a
\* recovery; it succeeds only when the owner's own execution did.
OwnerDecides == [][\A i \in Incident, t \in JobType : EndsByOwner(i, t)]_vars

\* The snapshot of an analysis run that exists is not changed.
PolicyKept(i) == analysis[i].status # "ABSENT" => analysis'[i].policy = analysis[i].policy

\* The policy an analysis started under is the one its retries and its patch
\* use, whatever configuration syncs come in between.
PolicyPinned == [][\A i \in Incident : PolicyKept(i)]_vars

--------------------------------------------------------------------------------
(* Liveness, under FairSpec *)

\* A received incident ends up analysed or failed.
AnalysisSettles ==
  \A i \in Incident :
    incident[i].state = "RECEIVED"
      ~> incident[i].state \in {"AWAITING_APPROVAL", "ANALYSIS_FAILED",
                                "PATCHING", "VALIDATING", "PATCH_READY", "PATCH_FAILED"}

\* An approved incident ends up with a patch to review or a failure.
PatchSettles ==
  \A i \in Incident :
    incident[i].state = "PATCHING" ~> incident[i].state \in {"PATCH_READY", "PATCH_FAILED"}

--------------------------------------------------------------------------------
(* The promise the pipeline implements *)

Lifecycle == INSTANCE IncidentLifecycle WITH
  state   <- [i \in Incident |-> incident[i].state],
  version <- [i \in Incident |-> incident[i].version]

\* Every behaviour of the pipeline moves incidents only as IncidentLifecycle
\* allows.
ImplementsLifecycle == Lifecycle!Spec

\* An incident by the job it has waiting or running.
StageOf(i) ==
  CASE incident[i].state \in {"RECEIVED", "ANALYZING"} -> "ANALYZING"
    [] incident[i].state \in {"PATCHING", "VALIDATING"} -> "PATCHING"
    [] incident[i].state \in SettledState -> "CLOSED"
    [] OTHER -> incident[i].state

\* Any key may be used for any incident.  What requests are answered is left out.
Desk == INSTANCE ApprovalDesk WITH
  Request <- Incident \X Key,
  Target  <- [r \in Incident \X Key |-> r[1]],
  KeyOf   <- [r \in Incident \X Key |-> r[2]],
  state   <- [i \in Incident |-> StageOf(i)],
  answer  <- [r \in Incident \X Key |-> "NONE"]

\* ApprovalRequests proves of approve, statement by statement, what ApprovalDesk
\* promises, and lets workers and events do to its rows what ApprovalDesk allows
\* them.  That is all they do here: an incident comes up for approval only by the
\* end of its analysis, once, leaves only with an approval whose key no other
\* incident has, and nothing but a receipt or an approval adds to the jobs counted
\* (service.py:138-182 and :305-388, job_repository.py:100-250).
ImplementsApprovals == Desk!Spec

--------------------------------------------------------------------------------
(* What the documents say and the code does not *)

\* docs/implementation-contracts.md: a domain, policy or validation failure makes
\* the job FAILED at once.  Here: while the loop that failed owns the job under a
\* live lease, finalize takes its outcome.
FailureTakenAtOnce ==
  \A w \in Worker :
    pc[w] = "finalize" /\ outcome[w] = "FATAL" /\ HeartbeatAccepted(claim[w])
      => FinalizeAccepted(claim[w], ref[w])
================================================================================
