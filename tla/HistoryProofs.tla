----------------------------- MODULE HistoryProofs -----------------------------
(***************************************************************************)
(* What a step of Pipeline may never do to the rows of an incident, that   *)
(* it moves incidents only as IncidentLifecycle and ApprovalDesk allow,    *)
(* and what follows for one who reads the rows of an incident one after    *)
(* the other, for every value of the constants.                            *)
(***************************************************************************)
EXTENDS ReviewPage, PipelineProofs, FiniteSetTheorems

--------------------------------------------------------------------------------
(* The rows of one incident in one step *)

\* One edge of the life cycle, counted in the version.
MovesOn(i) ==
  /\ <<incident[i].state, incident'[i].state>> \in Lifecycle!Edges
  /\ incident'[i].version = incident[i].version + 1

\* An incident without the status of a job or run that a transaction looks for.
GoesOn(i) ==
  /\ SettledKept(i)
  /\ PolicyKept(i)
  /\ incident'[i] = incident[i] \/ MovesOn(i)

\* Rows that are kept go on.
LEMMA KeptGoesOn ==
  ASSUME NEW i \in Incident, RowsKept(i)
  PROVE  GoesOn(i)
BY DEF RowsKept, GoesOn, SettledKept, PolicyKept

--------------------------------------------------------------------------------
(* One transaction after the other *)

\* claim_job goes on with its incident's rows.
LEMMA ClaimJobGoesOn ==
  ASSUME TablesSound, NEW i \in Incident, NEW t \in JobType, claim_job(i, t)
  PROVE  \A j \in Incident : GoesOn(j)
<1>1. ASSUME NEW j \in Incident, j # i PROVE GoesOn(j)
  BY <1>1, KeptGoesOn DEF claim_job, RowsKept, TablesSound, TablesTypeOK
<1>2. RowsAgree(i)
  BY DEF TablesSound, LifecycleConsistent
<1>3. /\ incident[i] \in IncidentRow /\ analysis[i] \in AnalysisRow
      /\ incident'[i] = IncidentOfClaim(incident[i], t)
      /\ job[i][t].status = "PENDING"
      /\ \A u \in JobType : u # t => job'[i][u] = job[i][u]
      /\ approval'[i] = approval[i]
  BY DEF claim_job, Claimable, TablesSound, TablesTypeOK
<1>4. ASSUME t = "ANALYZE" PROVE GoesOn(i)
  <2>1. /\ analysis'[i] = RunOfClaim(analysis[i]) /\ patch'[i] = patch[i]
        /\ analysis[i].status \in {"ABSENT", "RUNNING"}
        /\ incident[i].state \in {"RECEIVED", "ANALYZING"}
    BY <1>2, <1>3, <1>4 DEF claim_job, TablesSound, TablesTypeOK, RowsAgree, LegalRows
  <2>2. SettledKept(i) /\ PolicyKept(i)
    BY <1>3, <2>1 DEF SettledKept, PolicyKept, RunOfClaim, SettledStatus, SettledState
  <2>3. incident'[i] = incident[i] \/ MovesOn(i)
    BY <1>3, <1>4, <2>1 DEF IncidentOfClaim, Enters, MovesOn, Lifecycle!Edges
  <2> QED BY <2>2, <2>3 DEF GoesOn
<1>5. ASSUME t = "PATCH" PROVE GoesOn(i)
  <2>1. /\ analysis' = analysis /\ incident[i].state \in {"PATCHING", "VALIDATING"}
    BY <1>5 DEF claim_job, PatchApproved
  <2>2. SettledKept(i) /\ PolicyKept(i)
    BY <1>3, <2>1 DEF SettledKept, PolicyKept, SettledStatus, SettledState
  <2>3. incident'[i] = incident[i] \/ MovesOn(i)
    BY <1>3, <1>5, <2>1 DEF IncidentOfClaim, Enters, MovesOn, Lifecycle!Edges
  <2> QED BY <2>2, <2>3 DEF GoesOn
<1> QED BY <1>1, <1>4, <1>5 DEF JobType

\* heartbeat touches the age of a running job only.
LEMMA HeartbeatGoesOn ==
  ASSUME TablesSound, NEW c \in Claim, heartbeat(c)
  PROVE  \A j \in Incident : GoesOn(j)
<1> SUFFICES ASSUME NEW j \in Incident PROVE GoesOn(j)
  OBVIOUS
<1>1. UNCHANGED <<incident, analysis, approval, patch>>
  BY DEF heartbeat
<1>2. ASSUME NEW t \in JobType, job[j][t].status \in SettledStatus PROVE job'[j][t] = job[j][t]
  <2>1. <<j, t>> # <<c.incident, c.type>>
    BY <1>2 DEF heartbeat, HeartbeatAccepted, Owns, JobOf, SettledStatus
  <2> QED BY <2>1 DEF heartbeat, TablesSound, TablesTypeOK, Claim
<1> QED BY <1>1, <1>2 DEF GoesOn, SettledKept, PolicyKept

\* recover_expired fails or requeues jobs that run.
LEMMA RecoverGoesOn ==
  ASSUME TablesSound, recover_expired
  PROVE  \A j \in Incident : GoesOn(j)
<1> SUFFICES ASSUME NEW i \in Incident PROVE GoesOn(i)
  OBVIOUS
<1> DEFINE a == job[i]["ANALYZE"]
           p == job[i]["PATCH"]
<1>1. RowsAgree(i) /\ incident[i] \in IncidentRow /\ analysis[i] \in AnalysisRow
  BY DEF TablesSound, LifecycleConsistent, TablesTypeOK
<1>2. /\ incident'[i] = IncidentOfRecovery(i) /\ analysis'[i] = RunOfRecovery(i)
      /\ patch'[i] = PatchOfRecovery(i) /\ approval'[i] = approval[i]
      /\ \A t \in JobType : job'[i][t] = Recovered(job[i][t])
  BY DEF recover_expired, TablesSound, TablesTypeOK
<1>3. \A t \in JobType : job[i][t].status \in SettledStatus => job'[i][t] = job[i][t]
  BY <1>2 DEF Recovered, Exhausted, Expired, SettledStatus
<1>4. CASE Exhausted(a)
  <2>1. incident[i].state = "ANALYZING" /\ analysis[i].status = "RUNNING" /\ ~Exhausted(p)
    BY <1>1, <1>4 DEF Exhausted, Expired, RowsAgree, LegalRows
  <2>2. /\ incident'[i] = Enters(incident[i], "ANALYSIS_FAILED")
        /\ analysis'[i] = [analysis[i] EXCEPT !.status = "FAILED"]
        /\ patch'[i] = patch[i]
    BY <1>2, <1>4, <2>1 DEF IncidentOfRecovery, RunOfRecovery, PatchOfRecovery
  <2>3. analysis'[i].policy = analysis[i].policy
    BY <1>1, <2>2 DEF AnalysisRow
  <2>4. MovesOn(i)
    BY <2>1, <2>2 DEF MovesOn, Enters, Lifecycle!Edges
  <2> QED BY <1>2, <1>3, <2>1, <2>3, <2>4
          DEF GoesOn, SettledKept, PolicyKept, SettledStatus, SettledState
<1>5. CASE ~Exhausted(a) /\ Exhausted(p)
  <2>1. incident[i].state \in {"PATCHING", "VALIDATING"}
    BY <1>1, <1>5 DEF Exhausted, Expired, RowsAgree, LegalRows
  <2>2. incident'[i] = Enters(incident[i], "PATCH_FAILED") /\ analysis'[i] = analysis[i]
    BY <1>2, <1>5 DEF IncidentOfRecovery, RunOfRecovery
  <2>3. MovesOn(i)
    BY <2>1, <2>2 DEF MovesOn, Enters, Lifecycle!Edges
  <2> QED BY <1>2, <1>3, <2>1, <2>2, <2>3 DEF GoesOn, SettledKept, PolicyKept, SettledState
<1>6. CASE ~Exhausted(a) /\ ~Exhausted(p)
  <2>1. incident'[i] = incident[i] /\ analysis'[i] = analysis[i] /\ patch'[i] = patch[i]
    BY <1>2, <1>6 DEF IncidentOfRecovery, RunOfRecovery, PatchOfRecovery
  <2> QED BY <1>2, <1>3, <2>1 DEF GoesOn, SettledKept, PolicyKept
<1> QED BY <1>4, <1>5, <1>6

\* mark_validating moves PATCHING to VALIDATING; the claim it is called with is
\* one of a PATCH job that finds the incident there.
LEMMA MarkGoesOn ==
  ASSUME TablesSound, NEW c \in Claim, mark_validating(c),
         incident[c.incident].state = "PATCHING"
  PROVE  \A j \in Incident : GoesOn(j)
<1> DEFINE i == c.incident
<1>1. i \in Incident /\ RowsAgree(i)
  BY DEF Claim, TablesSound, LifecycleConsistent
<1>2. /\ incident'[i] = Enters(incident[i], "VALIDATING")
      /\ UNCHANGED <<job, analysis, approval>>
      /\ \A j \in Incident : j # i => RowsKept(j)
  BY <1>1 DEF mark_validating, RowsKept, TablesSound, TablesTypeOK
<1>3. MovesOn(i)
  BY <1>2 DEF MovesOn, Enters, Lifecycle!Edges
<1>4. GoesOn(i)
  BY <1>2, <1>3 DEF GoesOn, SettledKept, PolicyKept, SettledState
<1> QED BY <1>2, <1>4, KeptGoesOn

\* finalize settles or requeues the one job it was called for, which is running.
LEMMA FinalizeGoesOn ==
  ASSUME TablesSound, NEW c \in Claim, NEW v, NEW o, finalize(c, v, o),
         c.type = "PATCH" /\ o = "OK" /\ FinalizeAccepted(c, v)
           => incident[c.incident].state = "VALIDATING"
  PROVE  \A j \in Incident : GoesOn(j)
<1> DEFINE i == c.incident
           t == c.type
<1>1. /\ i \in Incident /\ t \in JobType /\ RowsAgree(i)
      /\ incident[i] \in IncidentRow /\ analysis[i] \in AnalysisRow
  BY DEF Claim, TablesSound, LifecycleConsistent, TablesTypeOK
<1>2. CASE UNCHANGED tables
  BY <1>2 DEF tables, GoesOn, SettledKept, PolicyKept
<1>3. CASE FinalizeAccepted(c, v) /\ RetryJob(c)
  <2>1. /\ UNCHANGED <<incident, analysis, approval, patch>>
        /\ job[i][t].status = "RUNNING"
        /\ \A j \in Incident, u \in JobType : <<j, u>> # <<i, t>> => job'[j][u] = job[j][u]
    BY <1>1, <1>3 DEF FinalizeAccepted, Owns, JobOf, RetryJob, TablesSound, TablesTypeOK
  <2> QED BY <2>1 DEF GoesOn, SettledKept, PolicyKept, SettledStatus
<1>4. CASE FinalizeAccepted(c, v) /\ SettleJob(c, o)
  <2>1. /\ \A j \in Incident : j # i => RowsKept(j)
        /\ job[i][t].status = "RUNNING"
        /\ \A u \in JobType : u # t => job'[i][u] = job[i][u]
        /\ approval' = approval
    BY <1>1, <1>4 DEF FinalizeAccepted, Owns, JobOf, SettleJob, RowsKept, TablesSound, TablesTypeOK
  <2>2. \A u \in JobType : job[i][u].status \in SettledStatus => job'[i][u] = job[i][u]
    BY <2>1 DEF SettledStatus
  <2>3. ASSUME t = "ANALYZE" PROVE GoesOn(i)
    <3>1. incident[i].state = "ANALYZING" /\ analysis[i].status = "RUNNING"
      BY <1>1, <2>1, <2>3 DEF RowsAgree, LegalRows
    <3>2. /\ incident'[i] = Enters(incident[i], IF o = "OK" THEN "AWAITING_APPROVAL" ELSE "ANALYSIS_FAILED")
          /\ analysis'[i] = [analysis[i] EXCEPT !.status = IF o = "OK" THEN "SUCCEEDED" ELSE "FAILED"]
      BY <1>1, <1>4, <2>3 DEF SettleJob, TablesSound, TablesTypeOK
    <3>3. analysis'[i].policy = analysis[i].policy
      BY <1>1, <3>2 DEF AnalysisRow
    <3>4. MovesOn(i)
      BY <3>1, <3>2 DEF MovesOn, Enters, Lifecycle!Edges
    <3> QED BY <2>1, <2>2, <3>1, <3>3, <3>4 DEF GoesOn, SettledKept, PolicyKept, SettledStatus, SettledState
  <2>4. ASSUME t = "PATCH" PROVE GoesOn(i)
    <3>1. incident[i].state \in {"PATCHING", "VALIDATING"}
      BY <1>1, <2>1, <2>4 DEF RowsAgree, LegalRows
    <3>2. /\ incident'[i] = Enters(incident[i], IF o = "OK" THEN "PATCH_READY" ELSE "PATCH_FAILED")
          /\ analysis' = analysis
      BY <1>1, <1>4, <2>4 DEF SettleJob, TablesSound, TablesTypeOK
    <3>3. MovesOn(i)
      BY <1>4, <2>4, <3>1, <3>2 DEF MovesOn, Enters, Lifecycle!Edges
    <3> QED BY <2>1, <2>2, <3>1, <3>2, <3>3 DEF GoesOn, SettledKept, PolicyKept, SettledState
  <2> QED BY <1>1, <2>1, <2>3, <2>4, KeptGoesOn DEF JobType
<1> QED BY <1>2, <1>3, <1>4 DEF finalize

\* The control API's transactions and the clock.
LEMMA ApiGoesOn ==
  ASSUME TablesSound, ApiStep \/ Tick
  PROVE  \A j \in Incident : GoesOn(j)
<1>1. ASSUME NEW i \in Incident, Receive(i) PROVE \A j \in Incident : GoesOn(j)
  <2>1. RowsAgree(i) /\ incident[i].state = "ABSENT" /\ incident[i].version \in Nat
    BY <1>1 DEF Receive, TablesSound, LifecycleConsistent, TablesTypeOK, IncidentRow
  <2>2. /\ \A j \in Incident : j # i => RowsKept(j)
        /\ incident'[i] = [state |-> "RECEIVED", version |-> 1]
        /\ job'[i]["PATCH"] = job[i]["PATCH"]
        /\ UNCHANGED <<analysis, approval, patch>>
    BY <1>1 DEF Receive, RowsKept, TablesSound, TablesTypeOK, JobType
  <2>3. SettledKept(i) /\ PolicyKept(i)
    BY <2>1, <2>2 DEF SettledKept, PolicyKept, RowsAgree, LegalRows, JobType, SettledStatus, SettledState
  <2>4. MovesOn(i)
    BY <2>1, <2>2 DEF MovesOn, RowsAgree, Lifecycle!Edges
  <2> QED BY <2>2, <2>3, <2>4, KeptGoesOn DEF GoesOn
<1>2. ASSUME NEW i \in Incident, NEW k \in Key, Approve(i, k) PROVE \A j \in Incident : GoesOn(j)
  <2>1. RowsAgree(i) /\ AwaitingApproval(i)
    BY <1>2 DEF Approve, TablesSound, LifecycleConsistent
  <2>2. /\ \A j \in Incident : j # i => RowsKept(j)
        /\ incident'[i] = Enters(incident[i], "PATCHING")
        /\ job'[i]["ANALYZE"] = job[i]["ANALYZE"]
        /\ analysis' = analysis
    BY <1>2 DEF Approve, RowsKept, TablesSound, TablesTypeOK, JobType
  <2>3. SettledKept(i) /\ PolicyKept(i)
    BY <2>1, <2>2 DEF SettledKept, PolicyKept, AwaitingApproval, RowsAgree, LegalRows, JobType,
       SettledStatus, SettledState
  <2>4. MovesOn(i)
    BY <2>1, <2>2 DEF AwaitingApproval, MovesOn, Enters, Lifecycle!Edges
  <2> QED BY <2>2, <2>3, <2>4, KeptGoesOn DEF GoesOn
<1>3. CASE SyncPolicy
  BY <1>3, KeptGoesOn DEF SyncPolicy, RowsKept
<1>4. CASE Tick
  <2>1. \A j \in Incident, t \in JobType : job[j][t].status \in SettledStatus => job'[j][t] = job[j][t]
    <3> SUFFICES ASSUME NEW j \in Incident, NEW t \in JobType, job[j][t].status \in SettledStatus
                 PROVE  job'[j][t] = job[j][t]
      OBVIOUS
    <3>1. job[j][t] \in JobRow /\ job'[j][t] = Older(job[j][t])
      BY <1>4 DEF Tick, TablesSound, TablesTypeOK
    <3> QED BY <3>1 DEF Older, SettledStatus, JobRow
  <2> QED BY <1>4, <2>1 DEF Tick, GoesOn, SettledKept, PolicyKept
<1> QED BY <1>1, <1>2, <1>3, <1>4 DEF ApiStep

--------------------------------------------------------------------------------
(* Every step *)

\* A step that reaches no table.
LEMMA UnchangedGoesOn ==
  ASSUME UNCHANGED tables
  PROVE  \A j \in Incident : GoesOn(j)
BY DEF tables, GoesOn, SettledKept, PolicyKept

\* What the loop knows of its incident is what the transactions need.
LEMMA WorkerGoesOn ==
  ASSUME IInv, NEW w \in Worker, WorkerNext(w)
  PROVE  \A j \in Incident : GoesOn(j)
<1>0. TablesSound /\ WorkerTypeOK
  BY DEF IInv, TypeOK, TablesSound
<1>1. CASE Recover(w)
  BY <1>0, <1>1, RecoverGoesOn DEF Recover
<1>2. CASE TakeJob(w)
  BY <1>0, <1>2, ClaimJobGoesOn DEF TakeJob
<1>3. CASE MarkValidating(w)
  <2>1. pc[w] \in Holding /\ pc[w] = "mark"
    BY <1>3 DEF MarkValidating, Holding, Executing
  <2>2. claim[w] \in Claim /\ StageKnown(w) /\ Owns(claim[w])
    BY <1>0, <1>3, <2>1, HoldingClaim
       DEF IInv, ClaimsSound, MarkValidating, mark_validating, MarkAccepted
  <2>3. incident[claim[w].incident].state = "PATCHING"
    BY <2>1, <2>2 DEF StageKnown
  <2> QED BY <1>0, <1>3, <2>2, <2>3, MarkGoesOn DEF MarkValidating
<1>4. CASE OrphanCommits(w)
  <2>1. PICK c \in orphans[w] : mark_validating(c) \/ UNCHANGED tables
    BY <1>4 DEF OrphanCommits
  <2>2. c \in Claim /\ OrphanSound(c)
    BY <1>0 DEF IInv, WorkerTypeOK, OrphansSound
  <2>3. CASE mark_validating(c)
    <3>1. incident[c.incident].state = "PATCHING"
      BY <2>2, <2>3 DEF OrphanSound, mark_validating, MarkAccepted
    <3> QED BY <1>0, <2>2, <2>3, <3>1, MarkGoesOn
  <2> QED BY <2>1, <2>3, UnchangedGoesOn
<1>5. CASE Finalize(w)
  <2>1. pc[w] \in Holding /\ pc[w] = "finalize"
    BY <1>5 DEF Finalize, Holding
  <2>2. claim[w] \in Claim /\ StageKnown(w)
    BY <1>0, <2>1, HoldingClaim DEF IInv, ClaimsSound
  <2>3. claim[w].type = "PATCH" /\ outcome[w] = "OK" /\ FinalizeAccepted(claim[w], ref[w])
          => incident[claim[w].incident].state = "VALIDATING"
    BY <2>1, <2>2 DEF StageKnown, FinalizeAccepted
  <2> QED BY <1>0, <1>5, <2>2, <2>3, FinalizeGoesOn DEF Finalize
<1>6. CASE Heartbeat(w)
  <2>1. claim[w] \in Claim
    BY <1>0, <1>6, HoldingClaim DEF Heartbeat
  <2> QED BY <1>0, <1>6, <2>1, HeartbeatGoesOn DEF Heartbeat
<1>7. CASE UNCHANGED tables
  BY <1>7, UnchangedGoesOn
<1> QED
  BY <1>1, <1>2, <1>3, <1>4, <1>5, <1>6, <1>7
     DEF WorkerNext, LoopStep, Shutdown, FindNothing, Leave, AnalysisEnds, PatchFails, PatchChecked,
         MarkRefused, ValidationEnds, TimesOut, StopCancels, LeaseGivenUp, Interrupted, Ends,
         Stop, Crash, Restart

\* Whatever the step, every incident goes on.
LEMMA StepGoesOn == IInv /\ [Next]_vars => \A j \in Incident : GoesOn(j)
<1> SUFFICES ASSUME IInv, [Next]_vars PROVE \A j \in Incident : GoesOn(j)
  OBVIOUS
<1>1. TablesSound
  BY DEF IInv, TypeOK, TablesSound
<1> QED BY <1>1, WorkerGoesOn, ApiGoesOn, UnchangedGoesOn DEF Next, vars

\* No late result, retry, recovery or abandoned thread changes what is settled:
\* a finished job or analysis, an ended incident with its runs, an approval.
THEOREM SettledStaysForever == Spec => SettledForever
<1>1. IInv /\ [Next]_vars => [\A i \in Incident : SettledKept(i)]_vars
  BY StepGoesOn DEF GoesOn
<1> QED BY <1>1, Invariant, PTL DEF Spec, SettledForever

\* The policy an analysis started under never changes, however often sync_services
\* rewrites the service's.
THEOREM PolicyStaysPinned == Spec => PolicyPinned
<1>1. IInv /\ [Next]_vars => [\A i \in Incident : PolicyKept(i)]_vars
  BY StepGoesOn DEF GoesOn
<1> QED BY <1>1, Invariant, PTL DEF Spec, PolicyPinned

\* The pipeline refines IncidentLifecycle: every step moves each incident along at
\* most one edge of the state machine, and its version counts these moves.
THEOREM LifecycleRefined == Spec => ImplementsLifecycle
<1>1. Init => Lifecycle!Init
  BY DEF Init, TablesInit, Lifecycle!Init
<1>2. IInv /\ [Next]_vars =>
        [Lifecycle!Next]_<<[i \in Incident |-> incident[i].state],
                           [i \in Incident |-> incident[i].version]>>
  <2> SUFFICES ASSUME IInv, [Next]_vars PROVE Lifecycle!Next
    OBVIOUS
  <2>1. ASSUME NEW i \in Incident PROVE Lifecycle!Stays(i) \/ Lifecycle!Moves(i)
    <3>1. incident'[i] = incident[i] \/ MovesOn(i)
      BY StepGoesOn DEF GoesOn
    <3> QED BY <3>1 DEF MovesOn, Lifecycle!Stays, Lifecycle!Moves
  <2> QED BY <2>1 DEF Lifecycle!Next
<1> QED BY <1>1, <1>2, Invariant, PTL DEF Spec, Lifecycle!Spec, ImplementsLifecycle

--------------------------------------------------------------------------------
(* Who ends a job *)

\* Job (i, t) is not queued in this step if it was settled or absent, and if it
\* stops running its lease has expired and it does not succeed.
JobLeft(i, t) ==
  /\ job'[i][t].status \in ActiveStatus => job[i][t].status \in ActiveStatus
  /\ job[i][t].status = "RUNNING" /\ job'[i][t].status # "RUNNING" =>
       ~LeaseLive(job[i][t]) /\ job'[i][t].status # "SUCCEEDED"

AllJobsLeft == \A i \in Incident, t \in JobType : JobLeft(i, t)

\* A claim is of a queued job.
LEMMA ClaimLeaves ==
  ASSUME TablesTypeOK, NEW i \in Incident, NEW t \in JobType, claim_job(i, t)
  PROVE  AllJobsLeft
<1>1. job[i][t].status = "PENDING"
  BY DEF claim_job, Claimable
<1>2. \A j \in Incident, u \in JobType : <<j, u>> # <<i, t>> => job'[j][u] = job[j][u]
  BY DEF claim_job, TablesTypeOK
<1> QED BY <1>1, <1>2 DEF AllJobsLeft, JobLeft, ActiveStatus

\* Recovery ends jobs whose leases expired, and none with success.
LEMMA RecoverLeaves ==
  ASSUME recover_expired
  PROVE  AllJobsLeft
<1>1. \A i \in Incident, t \in JobType : job'[i][t] = Recovered(job[i][t])
  BY DEF recover_expired
<1>2. ASSUME NEW i \in Incident, NEW t \in JobType PROVE JobLeft(i, t)
  <2>1. CASE Exhausted(job[i][t])
    <3>1. job'[i][t] = Closed(job[i][t], "FAILED")
      BY <1>1, <2>1 DEF Recovered
    <3> QED BY <2>1, <3>1 DEF JobLeft, Closed, Exhausted, Expired, ActiveStatus
  <2>2. CASE Expired(job[i][t]) /\ ~Exhausted(job[i][t])
    <3>1. job'[i][t] = Requeued(job[i][t])
      BY <1>1, <2>2 DEF Recovered
    <3> QED BY <2>2, <3>1 DEF JobLeft, Requeued, Expired, ActiveStatus
  <2>3. CASE ~Expired(job[i][t])
    <3>1. job'[i][t] = job[i][t]
      BY <1>1, <2>3 DEF Recovered, Exhausted
    <3> QED BY <3>1 DEF JobLeft
  <2> QED BY <2>1, <2>2, <2>3
<1> QED BY <1>2 DEF AllJobsLeft

\* A heartbeat and the clock change no status.
LEMMA StatusKeptLeaves ==
  ASSUME TablesTypeOK,
         \/ Tick
         \/ \E c \in Claim : heartbeat(c)
         \/ UNCHANGED job
  PROVE  AllJobsLeft
<1>1. \A i \in Incident, t \in JobType : job'[i][t].status = job[i][t].status
  <2> SUFFICES ASSUME NEW i \in Incident, NEW t \in JobType
               PROVE  job'[i][t].status = job[i][t].status
    OBVIOUS
  <2>1. CASE Tick
    BY <2>1 DEF Tick, Older
  <2>2. ASSUME NEW c \in Claim, heartbeat(c) PROVE job'[i][t].status = job[i][t].status
    <3>1. job[i][t] \in JobRow
      BY DEF TablesTypeOK
    <3>2. job'[i][t] = job[i][t] \/ job'[i][t] = [job[i][t] EXCEPT !.age = 0]
      BY <2>2 DEF heartbeat, TablesTypeOK, Claim
    <3> QED BY <3>1, <3>2 DEF JobRow
  <2> QED BY <2>1, <2>2
<1> QED BY <1>1 DEF AllJobsLeft, JobLeft

\* What finalize decides is the job of its claim; a job it leaves running or
\* queued was active.
LEMMA FinalizeLeaves ==
  ASSUME TablesTypeOK, NEW c \in Claim, NEW v, NEW o, finalize(c, v, o)
  PROVE  \A i \in Incident, t \in JobType :
           \/ JobLeft(i, t)
           \/ /\ <<i, t>> = <<c.incident, c.type>> /\ Owns(c)
              /\ job'[i][t].status = "SUCCEEDED" => o = "OK"
              /\ job'[i][t].status \in ActiveStatus => job[i][t].status \in ActiveStatus
<1> SUFFICES ASSUME NEW i \in Incident, NEW t \in JobType
             PROVE  \/ JobLeft(i, t)
                    \/ /\ <<i, t>> = <<c.incident, c.type>> /\ Owns(c)
                       /\ job'[i][t].status = "SUCCEEDED" => o = "OK"
                       /\ job'[i][t].status \in ActiveStatus => job[i][t].status \in ActiveStatus
  OBVIOUS
<1>1. CASE UNCHANGED tables \/ <<i, t>> # <<c.incident, c.type>>
  <2>1. job'[i][t] = job[i][t]
    BY <1>1 DEF finalize, RetryJob, SettleJob, tables, TablesTypeOK, Claim
  <2> QED BY <2>1 DEF JobLeft
<1>2. CASE Owns(c) /\ RetryJob(c) /\ <<i, t>> = <<c.incident, c.type>>
  <2>1. job'[i][t] = Requeued(job[i][t]) /\ job[i][t].status = "RUNNING"
    BY <1>2 DEF RetryJob, Owns, JobOf, TablesTypeOK
  <2> QED BY <1>2, <2>1 DEF Requeued, ActiveStatus
<1>3. CASE Owns(c) /\ SettleJob(c, o) /\ <<i, t>> = <<c.incident, c.type>>
  <2>1. job'[i][t] = Closed(job[i][t], IF o = "OK" THEN "SUCCEEDED" ELSE "FAILED")
    BY <1>3 DEF SettleJob, TablesTypeOK
  <2> QED BY <1>3, <2>1 DEF Closed, ActiveStatus
<1> QED BY <1>1, <1>2, <1>3 DEF finalize, FinalizeAccepted

\* A loop's step leaves all jobs, but for the one it finalizes.
LEMMA WorkerLeaves ==
  ASSUME TypeOK, NEW w \in Worker, WorkerNext(w)
  PROVE  \/ AllJobsLeft
         \/ /\ Finalize(w) /\ claim[w] \in Claim
            /\ finalize(claim[w], ref[w], outcome[w])
<1>1. CASE Recover(w)
  BY <1>1, RecoverLeaves DEF Recover
<1>2. CASE TakeJob(w)
  BY <1>2, ClaimLeaves DEF TakeJob, TypeOK
<1>3. CASE Heartbeat(w)
  BY <1>3, HoldingClaim, StatusKeptLeaves DEF Heartbeat, TypeOK
<1>4. CASE Finalize(w)
  BY <1>4, HoldingClaim DEF Finalize, Holding, TypeOK
<1>5. CASE UNCHANGED job
  BY <1>5, StatusKeptLeaves DEF TypeOK
<1> QED
  BY <1>1, <1>2, <1>3, <1>4, <1>5
     DEF WorkerNext, LoopStep, Shutdown, FindNothing, Leave, AnalysisEnds, PatchFails, PatchChecked,
         MarkRefused, ValidationEnds, TimesOut, StopCancels, LeaseGivenUp, Interrupted, Ends,
         Stop, Crash, Restart, MarkValidating, OrphanCommits, mark_validating, tables

\* A new job takes the place of an absent one.
LEMMA CreatedWhereAbsent ==
  ASSUME TablesSound, NEW i \in Incident
  PROVE  /\ Receive(i) => /\ job[i]["ANALYZE"].status = "ABSENT"
                          /\ job' = [job EXCEPT ![i]["ANALYZE"] = NewJob]
         /\ \A k \in Key : Approve(i, k) =>
              /\ job[i]["PATCH"].status = "ABSENT"
              /\ job' = [job EXCEPT ![i]["PATCH"] = NewJob]
<1>1. RowsAgree(i)
  BY DEF TablesSound, LifecycleConsistent
<1> QED BY <1>1 DEF Receive, Approve, AwaitingApproval, RowsAgree, LegalRows

\* The owner decides: a running job stops running by its owner's finalize or,
\* its lease expired, by a recovery, and succeeds only by an owner whose own
\* execution succeeded.
THEOREM OwnerAlwaysDecides == Spec => OwnerDecides
<1>1. IInv /\ [Next]_vars => [\A i \in Incident, t \in JobType : EndsByOwner(i, t)]_vars
  <2> SUFFICES ASSUME IInv, [Next]_vars, NEW i \in Incident, NEW t \in JobType
               PROVE  EndsByOwner(i, t)
    OBVIOUS
  <2>0. TypeOK /\ TablesSound
    BY DEF IInv, TypeOK, TablesSound
  <2>1. CASE JobLeft(i, t)
    BY <2>1 DEF JobLeft, EndsByOwner
  <2>2. ASSUME NEW w \in Worker, WorkerNext(w) PROVE EndsByOwner(i, t)
    <3>1. CASE AllJobsLeft
      BY <2>1, <3>1 DEF AllJobsLeft
    <3>2. CASE Finalize(w) /\ claim[w] \in Claim /\ finalize(claim[w], ref[w], outcome[w])
      <4>1. CASE <<i, t>> = <<claim[w].incident, claim[w].type>> /\ Owns(claim[w])
                 /\ (job'[i][t].status = "SUCCEEDED" => outcome[w] = "OK")
        <5>1. /\ pc[w] = "finalize" /\ pc'[w] = "recover" /\ outcome[w] \in Outcome
              /\ claim[w].token = job[i][t].token
          BY <2>0, <3>2, <4>1 DEF Finalize, TypeOK, WorkerTypeOK, Owns, JobOf
        <5> QED BY <4>1, <5>1 DEF EndsByOwner, OwnerFinalizes
      <4> QED BY <2>0, <2>1, <3>2, <4>1, FinalizeLeaves DEF TypeOK
    <3> QED BY <2>0, <2>2, <3>1, <3>2, WorkerLeaves
  <2>3. CASE ApiStep \/ Tick \/ UNCHANGED vars
    <3>1. ASSUME NEW j \in Incident, NEW u \in JobType, job[j][u].status = "ABSENT",
                 job' = [job EXCEPT ![j][u] = NewJob]
          PROVE  EndsByOwner(i, t)
      BY <2>0, <3>1 DEF EndsByOwner, TypeOK, TablesTypeOK
    <3>2. ASSUME NEW j \in Incident, Receive(j) PROVE EndsByOwner(i, t)
      BY <2>0, <3>1, <3>2, CreatedWhereAbsent DEF JobType
    <3>3. ASSUME NEW j \in Incident, NEW k \in Key, Approve(j, k) PROVE EndsByOwner(i, t)
      BY <2>0, <3>1, <3>3, CreatedWhereAbsent DEF JobType
    <3>4. CASE Tick \/ UNCHANGED job
      BY <2>0, <2>1, <3>4, StatusKeptLeaves DEF TypeOK, AllJobsLeft
    <3> QED BY <2>3, <3>2, <3>3, <3>4 DEF ApiStep, SyncPolicy, vars, tables
  <2> QED BY <2>2, <2>3 DEF Next
<1> QED BY <1>1, Invariant, PTL DEF Spec, OwnerDecides

--------------------------------------------------------------------------------
(* What the control API may add *)

\* One more unfinished job than there was, and the count stays within the limit.
LEMMA OneMoreFits ==
  ASSUME TablesTypeOK, IsFiniteSet(ActiveJobs), RequireJobCapacity,
         NEW i \in Incident, NEW t \in JobType, job' = [job EXCEPT ![i][t] = NewJob]
  PROVE  IsFiniteSet(ActiveJobs') /\ Cardinality(ActiveJobs') <= JobLimit
<1> DEFINE more == ActiveJobs \cup {<<i, t>>}
<1>1. ActiveJobs' \subseteq more
  BY DEF ActiveJobs, TablesTypeOK
<1>2. /\ IsFiniteSet(more)
      /\ Cardinality(more) \in Nat
      /\ Cardinality(more) <= Cardinality(ActiveJobs) + 1
      /\ Cardinality(ActiveJobs) \in Nat
  <2>1. Cardinality(ActiveJobs) \in Nat
    BY FS_CardinalityType
  <2>2. IsFiniteSet(more) /\ (\/ Cardinality(more) = Cardinality(ActiveJobs)
                              \/ Cardinality(more) = Cardinality(ActiveJobs) + 1)
    BY FS_AddElement
  <2> QED BY <2>1, <2>2
<1>3. /\ IsFiniteSet(ActiveJobs')
      /\ Cardinality(ActiveJobs') \in Nat
      /\ Cardinality(ActiveJobs') <= Cardinality(more)
  BY <1>1, <1>2, FS_Subset, FS_CardinalityType
<1> QED BY <1>2, <1>3, JobLimitAssumption DEF RequireJobCapacity

\* No job becomes active and nothing is approved.
NothingAdded ==
  /\ approval' = approval
  /\ \A i \in Incident, t \in JobType :
       job'[i][t].status \in ActiveStatus => job[i][t].status \in ActiveStatus

\* Approvals are written by approve alone.
LEMMA ApprovalWritten ==
  ASSUME [Next]_vars
  PROVE  \/ approval' = approval
         \/ \E i \in Incident, k \in Key : Approve(i, k)
<1>1. ASSUME NEW w \in Worker, WorkerNext(w) PROVE approval' = approval
  BY <1>1 DEF WorkerNext, LoopStep, Shutdown, Recover, TakeJob, FindNothing, Leave, AnalysisEnds,
              PatchFails, PatchChecked, MarkValidating, MarkRefused, ValidationEnds, TimesOut,
              StopCancels, Heartbeat, LeaseGivenUp, Interrupted, Ends, Finalize, OrphanCommits,
              Stop, Crash, Restart, recover_expired, claim_job, mark_validating, heartbeat,
              finalize, RetryJob, SettleJob, tables
<1> QED BY <1>1 DEF Next, ApiStep, Receive, SyncPolicy, Tick, vars, tables

\* Only an accepted event and an approval add anything: a worker requeues what
\* was active before.
LEMMA OnlyApiAdds ==
  ASSUME IInv, [Next]_vars
  PROVE  \/ NothingAdded
         \/ \E i \in Incident : Receive(i)
         \/ \E i \in Incident, k \in Key : Approve(i, k)
<1>0. TypeOK /\ TablesSound
  BY DEF IInv, TypeOK, TablesSound
<1>1. CASE AllJobsLeft
  BY <1>1, ApprovalWritten DEF AllJobsLeft, JobLeft, NothingAdded
<1>2. ASSUME NEW w \in Worker, WorkerNext(w) PROVE AllJobsLeft \/ NothingAdded
  <2>1. CASE claim[w] \in Claim /\ finalize(claim[w], ref[w], outcome[w])
    <3>1. approval' = approval
      BY <2>1 DEF finalize, RetryJob, SettleJob, tables
    <3> QED BY <1>0, <2>1, <3>1, FinalizeLeaves DEF TypeOK, JobLeft, NothingAdded
  <2> QED BY <1>0, <1>2, <2>1, WorkerLeaves
<1>3. Tick \/ UNCHANGED job => AllJobsLeft
  BY <1>0, StatusKeptLeaves DEF TypeOK
<1> QED BY <1>1, <1>2, <1>3 DEF Next, ApiStep, SyncPolicy, vars, tables

\* The count is of a finite set, within the limit.
Capacity == IsFiniteSet(ActiveJobs) /\ CapacityRespected

\* No step but an accepted event and an approval makes a job active.
LEMMA CapacityKept == IInv /\ Capacity /\ [Next]_vars => Capacity'
<1> SUFFICES ASSUME IInv, Capacity, [Next]_vars PROVE Capacity'
  OBVIOUS
<1>0. TypeOK /\ TablesSound
  BY DEF IInv, TypeOK, TablesSound
<1>1. ASSUME ActiveJobs' \subseteq ActiveJobs PROVE Capacity'
  <2>1. /\ IsFiniteSet(ActiveJobs')
        /\ Cardinality(ActiveJobs') <= Cardinality(ActiveJobs)
        /\ Cardinality(ActiveJobs') \in Nat /\ Cardinality(ActiveJobs) \in Nat
    BY <1>1, FS_Subset, FS_CardinalityType DEF Capacity
  <2> QED BY <2>1, JobLimitAssumption DEF Capacity, CapacityRespected
<1>2. CASE NothingAdded
  BY <1>1, <1>2 DEF NothingAdded, ActiveJobs
<1>3. ASSUME NEW i \in Incident, Receive(i) PROVE Capacity'
  BY <1>0, <1>3, CreatedWhereAbsent, OneMoreFits
     DEF Receive, Capacity, CapacityRespected, TypeOK, JobType
<1>4. ASSUME NEW i \in Incident, NEW k \in Key, Approve(i, k) PROVE Capacity'
  BY <1>0, <1>4, CreatedWhereAbsent, OneMoreFits
     DEF Approve, Capacity, CapacityRespected, TypeOK, JobType
<1> QED BY <1>2, <1>3, <1>4, OnlyApiAdds

\* At the start no job is active.
LEMMA CapacityKeptForever == Spec => []Capacity
<1>1. Init => Capacity
  <2> SUFFICES ASSUME Init PROVE Capacity
    OBVIOUS
  <2>1. ActiveJobs = {}
    BY DEF Init, TablesInit, ActiveJobs, AbsentJob, ActiveStatus
  <2> QED BY <2>1, FS_EmptySet, JobLimitAssumption DEF Capacity, CapacityRespected
<1> QED BY <1>1, CapacityKept, Invariant, PTL DEF Spec

\* Events and approvals together, whatever retries and recoveries requeue, never
\* have more than JobLimit jobs unfinished.
THEOREM CapacityAlwaysRespected == Spec => []CapacityRespected
<1>1. Capacity => CapacityRespected
  BY DEF Capacity
<1> QED BY <1>1, CapacityKeptForever, PTL

\* An Idempotency-Key approves at most one incident: approve looks for the key
\* in the transaction that writes it.
THEOREM KeyAlwaysApprovesOne == Spec => []KeyApprovesOneIncident
<1>1. Init => KeyApprovesOneIncident
  BY DEF Init, TablesInit, KeyApprovesOneIncident
<1>2. IInv /\ KeyApprovesOneIncident /\ [Next]_vars => KeyApprovesOneIncident'
  <2> SUFFICES ASSUME IInv, KeyApprovesOneIncident, [Next]_vars PROVE KeyApprovesOneIncident'
    OBVIOUS
  <2>1. CASE approval' = approval
    BY <2>1 DEF KeyApprovesOneIncident
  <2>2. ASSUME NEW i \in Incident, NEW k \in Key, Approve(i, k) PROVE KeyApprovesOneIncident'
    <3>1. approval \in [Incident -> Key \cup {NoKey}]
      BY DEF IInv, TypeOK, TablesTypeOK
    <3> QED BY <2>2, <3>1 DEF Approve, KeyUnused, KeyApprovesOneIncident
  <2> QED BY <2>1, <2>2, ApprovalWritten
<1> QED BY <1>1, <1>2, Invariant, PTL DEF Spec

--------------------------------------------------------------------------------
(* The approval desk *)

\* Without a new job or approval an incident stays at its stage or ends it.
LEMMA StageEnds ==
  ASSUME IInv, IInv', [Next]_vars, NothingAdded, NEW i \in Incident
  PROVE  \/ StageOf(i)' = StageOf(i)
         \/ StageOf(i) = "ANALYZING" /\ StageOf(i)' \in {"AWAITING_APPROVAL", "CLOSED"}
         \/ StageOf(i) = "PATCHING" /\ StageOf(i)' = "CLOSED"
<1>1. incident'[i] = incident[i] \/ MovesOn(i)
  BY StepGoesOn DEF GoesOn
<1>2. RowsAgree(i) /\ RowsAgree(i)' /\ approval'[i] = approval[i]
  BY DEF IInv, LifecycleConsistent, NothingAdded
<1>3. job'[i]["ANALYZE"].status \in ActiveStatus => job[i]["ANALYZE"].status \in ActiveStatus
  BY DEF NothingAdded, JobType
<1>4. ~(incident[i].state = "ABSENT" /\ incident'[i].state = "RECEIVED")
  BY <1>2, <1>3 DEF RowsAgree, LegalRows, ActiveStatus
<1>5. ~(incident[i].state = "AWAITING_APPROVAL" /\ incident'[i].state = "PATCHING")
  BY <1>2 DEF RowsAgree, LegalRows
<1> QED BY <1>1, <1>4, <1>5 DEF MovesOn, Lifecycle!Edges, StageOf, SettledState

\* The incidents at a stage with a job are no more than the jobs that count.
LEMMA DeskCounts ==
  ASSUME LifecycleConsistent, Capacity
  PROVE  /\ Cardinality(Desk!ActiveJobs) <= Cardinality(ActiveJobs)
         /\ Cardinality(Desk!ActiveJobs) \in Nat /\ Cardinality(ActiveJobs) \in Nat
<1> DEFINE Owned(i) == IF StageOf(i) = "ANALYZING" THEN <<i, "ANALYZE">> ELSE <<i, "PATCH">>
           own == [i \in Desk!ActiveJobs |-> Owned(i)]
<1>1. ASSUME NEW i \in Desk!ActiveJobs PROVE Owned(i) \in ActiveJobs
  <2>1. i \in Incident /\ RowsAgree(i) /\ StageOf(i) \in {"ANALYZING", "PATCHING"}
    BY DEF Desk!ActiveJobs, LifecycleConsistent
  <2>2. CASE StageOf(i) = "ANALYZING"
    <3>1. incident[i].state \in {"RECEIVED", "ANALYZING"}
      BY <2>1, <2>2 DEF StageOf, RowsAgree, LegalRows, SettledState
    <3>2. job[i]["ANALYZE"].status \in ActiveStatus
      BY <2>1, <3>1 DEF RowsAgree, LegalRows, ActiveStatus
    <3> QED BY <2>1, <2>2, <3>2 DEF ActiveJobs, JobType
  <2>3. CASE StageOf(i) = "PATCHING"
    <3>1. incident[i].state \in {"PATCHING", "VALIDATING"}
      BY <2>1, <2>3 DEF StageOf, RowsAgree, LegalRows, SettledState
    <3>2. job[i]["PATCH"].status \in ActiveStatus
      BY <2>1, <3>1 DEF RowsAgree, LegalRows, ActiveStatus
    <3> QED BY <2>1, <2>3, <3>2 DEF ActiveJobs, JobType
  <2> QED BY <2>1, <2>2, <2>3
<1>2. own \in Injection(Desk!ActiveJobs, ActiveJobs)
  <2>1. own \in [Desk!ActiveJobs -> ActiveJobs]
    BY <1>1
  <2>2. \A i, j \in Desk!ActiveJobs : own[i] = own[j] => i = j
    OBVIOUS
  <2> QED BY <2>1, <2>2 DEF Injection, IsInjective
<1>3. IsFiniteSet(Desk!ActiveJobs) /\ Cardinality(Desk!ActiveJobs) <= Cardinality(ActiveJobs)
  BY <1>2, FS_Injection DEF Capacity
<1> QED BY <1>3, FS_CardinalityType DEF Capacity

\* The instance brings the module of finite sets along, so that the cardinality it
\* compares with the job limit has a name of its own.
LEMMA CountedAlike == ASSUME NEW S PROVE Desk!Cardinality(S) = Cardinality(S)
  BY Zenon DEF Desk!Cardinality, Cardinality

\* What happens to the incidents on the desk of approve is what ApprovalDesk allows
\* the workers and the events, and an approval is one of its own.
THEOREM ApprovalsRefined == Spec => ImplementsApprovals
<1>1. Init => Desk!Init
  BY DEF Init, TablesInit, Desk!Init, StageOf, SettledState
<1>2. IInv /\ IInv' /\ Capacity /\ [Next]_vars => [Desk!Next]_(Desk!desk)
  <2> SUFFICES ASSUME IInv, IInv', Capacity, [Next]_vars
               PROVE  Desk!Next \/ UNCHANGED Desk!desk
    OBVIOUS
  <2>0. TablesTypeOK
    BY DEF IInv, TypeOK
  <2>5. RequireJobCapacity => Cardinality(Desk!ActiveJobs) < JobLimit
    <3>1. LifecycleConsistent
      BY DEF IInv
    <3> QED BY <3>1, DeskCounts, JobLimitAssumption DEF RequireJobCapacity
  <2>1. CASE NothingAdded
    <3> DEFINE ended == {i \in Incident : StageOf(i)' # StageOf(i)}
               analysed == {i \in ended : StageOf(i)' = "AWAITING_APPROVAL"}
    <3>1. ASSUME NEW i \in Incident
          PROVE  \/ StageOf(i)' = StageOf(i)
                 \/ StageOf(i) = "ANALYZING" /\ StageOf(i)' \in {"AWAITING_APPROVAL", "CLOSED"}
                 \/ StageOf(i) = "PATCHING" /\ StageOf(i)' = "CLOSED"
      BY <2>1, StageEnds
    <3>2. ended \in SUBSET Desk!ActiveJobs
      BY <3>1 DEF Desk!ActiveJobs
    <3>3. analysed \in SUBSET {i \in ended : StageOf(i) = "ANALYZING"}
      BY <3>1
    <3>4. [i \in Incident |-> StageOf(i)'] =
            [i \in Incident |-> IF i \in analysed THEN "AWAITING_APPROVAL"
                                ELSE IF i \in ended THEN "CLOSED" ELSE StageOf(i)]
      BY <3>1
    <3>5. Desk!JobsEnd(ended)
      BY <2>1, <3>2, <3>3, <3>4 DEF Desk!JobsEnd, Desk!ActiveJobs, NothingAdded
    <3> QED BY <3>2, <3>5 DEF Desk!Next
  <2>2. ASSUME NEW i \in Incident, Receive(i) PROVE Desk!Next
    <3>1. StageOf(i) = "ABSENT" /\ RequireJobCapacity /\ approval' = approval
      BY <2>2 DEF Receive, StageOf, SettledState
    <3>2. \A j \in Incident : StageOf(j)' = IF j = i THEN "ANALYZING" ELSE StageOf(j)
      <4>1. /\ incident'[i].state = "RECEIVED"
            /\ \A j \in Incident \ {i} : incident'[j] = incident[j]
        BY <2>0, <2>2 DEF Receive, TablesTypeOK
      <4> QED BY <4>1 DEF StageOf, SettledState
    <3>3. [j \in Incident |-> StageOf(j)'] =
            [[j \in Incident |-> StageOf(j)] EXCEPT ![i] = "ANALYZING"]
      BY <3>2
    <3>4. Desk!Receive(i)
      BY <2>5, <3>1, <3>3, CountedAlike DEF Desk!Receive
    <3> QED BY <3>4 DEF Desk!Next
  <2>3. ASSUME NEW i \in Incident, NEW k \in Key, Approve(i, k) PROVE Desk!Next
    <3> DEFINE r == <<i, k>>
    <3>1. /\ StageOf(i) = "AWAITING_APPROVAL" /\ approval[i] = NoKey
          /\ RequireJobCapacity /\ \A j \in Incident : approval[j] # k
          /\ approval' = [approval EXCEPT ![i] = k]
      BY <2>3 DEF Approve, AwaitingApproval, KeyUnused, StageOf, SettledState
    <3>2. \A j \in Incident : StageOf(j)' = IF j = i THEN "PATCHING" ELSE StageOf(j)
      <4>1. /\ incident'[i].state = "PATCHING"
            /\ \A j \in Incident \ {i} : incident'[j] = incident[j]
        BY <2>0, <2>3 DEF Approve, Enters, TablesTypeOK
      <4> QED BY <4>1 DEF StageOf, SettledState
    <3>3. [j \in Incident |-> StageOf(j)'] =
            [[j \in Incident |-> StageOf(j)] EXCEPT ![i] = "PATCHING"]
      BY <3>2
    <3>4. r \in Incident \X Key /\ r[1] = i /\ r[2] = k
      OBVIOUS
    <3>5. Desk!Granted(r)
      BY <3>1, <3>3, <3>4 DEF Desk!Granted
    <3>6. Desk!Open(r) /\ ~Desk!KeyUsed(r)
      BY <3>1, <3>4 DEF Desk!Open, Desk!KeyUsed
    <3>7. Desk!Approve(r)
      BY <2>5, <3>1, <3>4, <3>5, <3>6, CountedAlike DEF Desk!Approve
    <3> QED BY <3>4, <3>7 DEF Desk!Next
  <2> QED BY <2>1, <2>2, <2>3, OnlyApiAdds
<1> QED BY <1>1, <1>2, CapacityKeptForever, Invariant, PTL DEF Spec, Desk!Spec, ImplementsApprovals

(****************************************************************************)
(* The review page (ReviewPage). It holds little to argue with: once the    *)
(* page has read the incident's state, the tables never fall behind it.     *)
(* That is what was shown of every step, together with one fact more: a     *)
(* patch run that was started is never pending again.                       *)
(****************************************************************************)

\* The rows of the incident are not behind state s.
TablesNotBehind(s) ==
  /\ analysis[Shown].status \in RunsExpected(s)
  /\ patch[Shown] \in PatchesExpected(s)
  /\ s \in {"PATCHING", "VALIDATING", "PATCH_READY", "PATCH_FAILED"} => approval[Shown] # NoKey

\* What was read so far, in the order of Reads.
PageSound ==
  /\ part \in 1..7
  /\ page = [q \in Parts |-> page[q]]
  /\ part = 1 => page["incident"] = NotRead
  /\ part <= 2 => page["analysis"] = NotRead
  /\ part <= 3 => page["approval"] = NotRead
  /\ part <= 4 => page["patch"] = NotRead
  /\ part > 1 => page["incident"] \in IncidentState \ {"ABSENT"} /\ TablesNotBehind(page["incident"])
  /\ part > 2 => page["analysis"] \in RunsExpected(page["incident"])
  /\ part > 3 /\ page["incident"] \in {"PATCHING", "VALIDATING", "PATCH_READY", "PATCH_FAILED"}
       => page["approval"] = "PRESENT"
  /\ part > 4 => page["patch"] \in PatchesExpected(page["incident"])
  /\ part > 5 => page["latestAnalysis"] \in RunsExpected(page["incident"])
  /\ part > 6 => page["latestPatch"] \in PatchesExpected(page["incident"])

--------------------------------------------------------------------------------
(* The tables never fall behind *)

\* A patch run is pending only from its approval to its first claim.
LEMMA PendingWritten ==
  ASSUME IInv, [Next]_vars, NEW i \in Incident, patch'[i] = "PENDING"
  PROVE  patch[i] \in {"ABSENT", "PENDING"}
<1>0. TablesTypeOK
  BY DEF IInv, TypeOK
<1>1. ASSUME NEW w \in Worker, WorkerNext(w) PROVE patch[i] = "PENDING"
  <2>1. CASE Recover(w)
    BY <2>1 DEF Recover, recover_expired, PatchOfRecovery
  <2>2. CASE TakeJob(w)
    BY <1>0, <2>2 DEF TakeJob, claim_job, TablesTypeOK
  <2>3. CASE MarkValidating(w)
    BY <1>0, <2>3 DEF MarkValidating, mark_validating, TablesTypeOK
  <2>4. CASE OrphanCommits(w)
    BY <1>0, <2>4 DEF OrphanCommits, mark_validating, tables, TablesTypeOK
  <2>5. CASE Finalize(w)
    BY <1>0, <2>5 DEF Finalize, finalize, RetryJob, SettleJob, tables, TablesTypeOK
  <2>6. CASE UNCHANGED patch
    BY <2>6
  <2> QED
    BY <1>1, <2>1, <2>2, <2>3, <2>4, <2>5, <2>6
       DEF WorkerNext, LoopStep, Shutdown, FindNothing, Leave, AnalysisEnds, PatchFails, PatchChecked,
           MarkRefused, ValidationEnds, TimesOut, StopCancels, Heartbeat, heartbeat, LeaseGivenUp,
           Interrupted, Ends, Stop, Crash, Restart, tables
<1>2. ASSUME NEW j \in Incident, NEW k \in Key, Approve(j, k) PROVE patch[i] \in {"ABSENT", "PENDING"}
  <2>1. patch[j] = "ABSENT"
    BY <1>2 DEF Approve, AwaitingApproval, IInv, LifecycleConsistent, RowsAgree
  <2> QED BY <1>0, <1>2, <2>1 DEF Approve, TablesTypeOK
<1> QED BY <1>1, <1>2 DEF Next, ApiStep, Receive, SyncPolicy, Tick, vars, tables

\* No step of the pipeline takes the rows behind a state they had reached.
LEMMA NeverFallsBehind ==
  ASSUME IInv, IInv', [Next]_vars, NEW s \in IncidentState \ {"ABSENT"}, TablesNotBehind(s)
  PROVE  TablesNotBehind(s)'
<1>1. Shown \in Incident
  BY ShownAssumption
<1>2. RowsAgree(Shown) /\ RowsAgree(Shown)'
  BY <1>1 DEF IInv, LifecycleConsistent
<1>3. SettledKept(Shown) /\ (incident'[Shown] = incident[Shown] \/ MovesOn(Shown))
  BY <1>1, StepGoesOn DEF GoesOn
<1>4. approval[Shown] # NoKey => approval'[Shown] = approval[Shown]
  BY <1>3 DEF SettledKept
<1>5. analysis[Shown].status # "ABSENT" => analysis'[Shown].status # "ABSENT"
  BY <1>2, <1>3 DEF RowsAgree, LegalRows, MovesOn, Lifecycle!Edges
<1>6. patch[Shown] # "ABSENT" => patch'[Shown] # "ABSENT"
  BY <1>2, <1>4 DEF RowsAgree
<1>7. patch[Shown] \notin {"ABSENT", "PENDING"} => patch'[Shown] # "PENDING"
  BY <1>1, PendingWritten
<1>8. analysis[Shown].status \in SettledStatus => analysis'[Shown] = analysis[Shown]
  BY <1>3 DEF SettledKept
<1>9. analysis[Shown].status = "FAILED" \/ patch[Shown] \in {"PATCH_READY", "PATCH_FAILED"}
        => patch'[Shown] = patch[Shown]
  BY <1>2, <1>3 DEF RowsAgree, LegalRows, SettledKept, SettledState
<1>10. /\ analysis'[Shown].status \in AnalysisStatus
       /\ patch'[Shown] \in PatchStatus /\ patch[Shown] \in PatchStatus
  BY <1>1 DEF IInv, TypeOK, TablesTypeOK, AnalysisRow
<1>11. analysis'[Shown].status \in RunsExpected(s)
  BY <1>5, <1>8, <1>10 DEF TablesNotBehind, RunsExpected, AnalysisStatus, SettledStatus
<1>12. patch'[Shown] \in PatchesExpected(s)
  BY <1>6, <1>7, <1>9, <1>10 DEF TablesNotBehind, RunsExpected, PatchesExpected, PatchStatus
<1> QED BY <1>4, <1>11, <1>12 DEF TablesNotBehind

\* The rows that are there with a state are not behind it.
LEMMA StateNotBehind ==
  ASSUME IInv, incident[Shown].state # "ABSENT"
  PROVE  /\ incident[Shown].state \in IncidentState \ {"ABSENT"}
         /\ TablesNotBehind(incident[Shown].state)
<1>1. /\ RowsAgree(Shown) /\ incident[Shown].state \in IncidentState
      /\ patch[Shown] \in PatchStatus
  BY ShownAssumption DEF IInv, LifecycleConsistent, TypeOK, TablesTypeOK, IncidentRow
<1> QED
  BY <1>1 DEF RowsAgree, LegalRows, TablesNotBehind, RunsExpected, PatchesExpected, PatchStatus

--------------------------------------------------------------------------------
(* The page *)

\* The SELECTs, by their places.
LEMMA ReadsInOrder ==
  /\ DOMAIN Reads = 1..6 /\ Len(Reads) = 6
  /\ Reads[1] = "incident" /\ Reads[2] = "analysis" /\ Reads[3] = "approval"
  /\ Reads[4] = "patch" /\ Reads[5] = "latestAnalysis" /\ Reads[6] = "latestPatch"
  /\ Parts = {"incident", "analysis", "approval", "patch", "latestAnalysis", "latestPatch"}
<1>1. /\ DOMAIN Reads = 1..6 /\ Len(Reads) = 6
      /\ Reads[1] = "incident" /\ Reads[2] = "analysis" /\ Reads[3] = "approval"
      /\ Reads[4] = "patch" /\ Reads[5] = "latestAnalysis" /\ Reads[6] = "latestPatch"
  BY DEF Reads
<1>2. 1..6 = {1, 2, 3, 4, 5, 6}
  OBVIOUS
<1>3. Parts = {Reads[n] : n \in {1, 2, 3, 4, 5, 6}}
  BY <1>1, <1>2 DEF Parts
<1> QED BY <1>1, <1>3

\* A SELECT shows what is committed, or what was shown of the row before.
LEMMA SelectSound ==
  ASSUME IInv, PageSound, Select(Shown)
  PROVE  PageSound'
<1> DEFINE p == Reads[part]
           v == RowShown(p, Shown)
<1>0. /\ part \in 1..6 /\ part' = part + 1 /\ p \in Parts
      /\ page' = [page EXCEPT ![p] = v]
      /\ page = [q \in Parts |-> page[q]]
      /\ UNCHANGED <<incident, analysis, approval, patch>>
  BY ReadsInOrder DEF Select, PageSound, Parts, vars, tables
<1>1. page' = [q \in Parts |-> page'[q]]
  BY <1>0
<1>2. page'[p] = v /\ \A q \in Parts \ {p} : page'[q] = page[q]
  BY <1>0
<1>3. \A s : TablesNotBehind(s)' <=> TablesNotBehind(s)
  BY <1>0 DEF TablesNotBehind
<1>4. CASE part = 1
  <2>1. v = incident[Shown].state /\ incident[Shown].state # "ABSENT"
    BY <1>4, ReadsInOrder DEF Select, PageSound, RowShown, EarlierPart, Committed
  <2> QED BY <1>0, <1>1, <1>2, <1>3, <1>4, <2>1, StateNotBehind, ReadsInOrder
         DEF PageSound, TablesNotBehind
<1>5. CASE part = 2
  <2>1. v = analysis[Shown].status
    BY <1>5, ReadsInOrder DEF PageSound, RowShown, EarlierPart, Committed
  <2> QED BY <1>0, <1>1, <1>2, <1>3, <1>5, <2>1, ReadsInOrder DEF PageSound, TablesNotBehind
<1>6. CASE part = 3
  <2>1. v = IF approval[Shown] = NoKey THEN "ABSENT" ELSE "PRESENT"
    BY <1>6, ReadsInOrder DEF PageSound, RowShown, EarlierPart, Committed
  <2> QED BY <1>0, <1>1, <1>2, <1>3, <1>6, <2>1, ReadsInOrder DEF PageSound, TablesNotBehind
<1>7. CASE part = 4
  <2>1. v = patch[Shown]
    BY <1>7, ReadsInOrder DEF PageSound, RowShown, EarlierPart, Committed
  <2> QED BY <1>0, <1>1, <1>2, <1>3, <1>7, <2>1, ReadsInOrder DEF PageSound, TablesNotBehind
<1>8. CASE part = 5
  <2>1. v \in {analysis[Shown].status, page["analysis"]}
    BY <1>8, ReadsInOrder DEF RowShown, EarlierPart, Committed
  <2> QED BY <1>0, <1>1, <1>2, <1>3, <1>8, <2>1, ReadsInOrder DEF PageSound, TablesNotBehind
<1>9. CASE part = 6
  <2>1. v \in {patch[Shown], page["patch"]}
    BY <1>9, ReadsInOrder DEF RowShown, EarlierPart, Committed
  <2> QED BY <1>0, <1>1, <1>2, <1>3, <1>9, <2>1, ReadsInOrder DEF PageSound, TablesNotBehind
<1> QED BY <1>0, <1>4, <1>5, <1>6, <1>7, <1>8, <1>9

--------------------------------------------------------------------------------
(* The theorems *)

\* What a page shows was committed in the order of the SELECTs, and the tables
\* never fall behind what it has shown.
THEOREM PageInvariant == PageSpec => [](IInv /\ PageSound)
<1>1. PageSpec => Spec
  <2>1. [PageNext]_<<vars, pageVars>> => [Next]_vars
    BY DEF PageNext, Select
  <2> QED BY <2>1, PTL DEF PageSpec, Spec
<1>2. Init /\ PageInit => PageSound
  BY ReadsInOrder DEF PageInit, PageSound
<1>3. IInv /\ IInv' /\ PageSound /\ [PageNext]_<<vars, pageVars>> => PageSound'
  <2> SUFFICES ASSUME IInv, IInv', PageSound, [PageNext]_<<vars, pageVars>> PROVE PageSound'
    OBVIOUS
  <2>1. CASE [Next]_vars /\ UNCHANGED pageVars
    <3>1. \A s \in IncidentState \ {"ABSENT"} : TablesNotBehind(s) => TablesNotBehind(s)'
      BY <2>1, NeverFallsBehind
    <3>2. page' = page /\ part' = part
      BY <2>1 DEF pageVars
    <3>3. part > 1 => TablesNotBehind(page["incident"])'
      BY <3>1, <3>2 DEF PageSound, TablesNotBehind
    <3> QED BY <3>2, <3>3 DEF PageSound
  <2> QED BY <2>1, SelectSound DEF PageNext
<1> QED BY <1>1, <1>2, <1>3, Invariant, PTL DEF PageSpec

\* The sections and the summary under an incident's state are those of that state
\* or of a later one, whatever commits between the SELECTs of the page.
THEOREM PageNeverBehind == PageSpec => []PageNotBehind
<1>1. PageSound => PageNotBehind
  BY ReadsInOrder DEF PageSound, PageNotBehind, Complete
<1> QED BY <1>1, PageInvariant, PTL
================================================================================
