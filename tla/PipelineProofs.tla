---------------------------- MODULE PipelineProofs -----------------------------
(***************************************************************************)
(* The type invariant, the inductive invariant and the safety properties   *)
(* of Pipeline, for every value of its constants, in three parts: what the *)
(* transactions and the loops do to the types, what each transaction does  *)
(* to the agreement of the tables and to the claims that were taken before *)
(* it, and what each step of a loop does to IInv.                          *)
(***************************************************************************)
EXTENDS PipelineInvariant, TLAPS

--------------------------------------------------------------------------------
(* Rows and transactions keep their types *)

\* What each way of changing a job row yields is a job row.
LEMMA JobRowTyping ==
  ASSUME NEW row \in JobRow
  PROVE  /\ Requeued(row) \in JobRow
         /\ \A s \in JobStatus : Closed(row, s) \in JobRow
         /\ Claimed(row) \in JobRow
         /\ Recovered(row) \in JobRow
         /\ Older(row) \in JobRow
         /\ NewJob \in JobRow
<1> USE AttemptsAssumption, LeaseAssumption, BackoffAssumption
<1>1. Requeued(row) \in JobRow
  BY DEF Requeued, Backoff, JobRow, JobStatus, ActiveStatus, NoToken
<1>2. \A s \in JobStatus : Closed(row, s) \in JobRow
  BY DEF Closed, JobRow, NoToken
<1>3. Claimed(row) \in JobRow
  BY DEF Claimed, TokenDrawn, JobRow, JobStatus, ActiveStatus
<1>4. Recovered(row) \in JobRow
  <2>1. Closed(row, "FAILED") \in JobRow
    BY <1>2 DEF JobStatus, SettledStatus
  <2> QED BY <1>1, <2>1 DEF Recovered
<1>5. Older(row) \in JobRow
  BY DEF Older, JobRow
<1>6. NewJob \in JobRow
  BY DEF NewJob, AbsentJob, JobRow, JobStatus, ActiveStatus, NoToken
<1> QED BY <1>1, <1>2, <1>3, <1>4, <1>5, <1>6

\* An incident row that enters a state is an incident row.
LEMMA EntersTyping ==
  ASSUME NEW row \in IncidentRow, NEW s \in IncidentState
  PROVE  Enters(row, s) \in IncidentRow
BY DEF Enters, IncidentRow

\* The initial tables have their types.
LEMMA TablesInitTyping == TablesInit => TablesTypeOK
BY LeaseAssumption DEF TablesInit, TablesTypeOK, IncidentRow, IncidentState, JobRow, JobStatus,
   AbsentJob, NoToken, AnalysisRow, AnalysisStatus, PatchStatus

\* claim_job keeps the tables' types and returns a claim.
LEMMA ClaimJobTyping ==
  ASSUME TablesTypeOK, NEW i \in Incident, NEW t \in JobType, claim_job(i, t)
  PROVE  TablesTypeOK' /\ ClaimTaken(i, t) \in Claim
<1>1. Claimed(job[i][t]) \in JobRow
  BY JobRowTyping DEF TablesTypeOK
<1>2. job' \in [Incident -> [JobType -> JobRow]] /\ job'[i][t] = Claimed(job[i][t])
  BY <1>1 DEF TablesTypeOK, claim_job
<1>3. IncidentOfClaim(incident[i], t) \in IncidentRow
  <2>1. incident[i] \in IncidentRow
    BY DEF TablesTypeOK
  <2>2. Enters(incident[i], "ANALYZING") \in IncidentRow /\ Enters(incident[i], "PATCHING") \in IncidentRow
    BY <2>1, EntersTyping DEF IncidentState
  <2> QED BY <2>1, <2>2 DEF IncidentOfClaim
<1>4. incident' \in [Incident -> IncidentRow]
  BY <1>3 DEF TablesTypeOK, claim_job
<1>5. analysis' \in [Incident -> AnalysisRow]
  BY DEF TablesTypeOK, claim_job, RunOfClaim, AnalysisRow, AnalysisStatus
<1>6. patch' \in [Incident -> PatchStatus] /\ approval' = approval /\ policy' = policy
  BY DEF TablesTypeOK, claim_job, PatchStatus
<1>7. job'[i][t].token \in Nat \ {NoToken}
  BY <1>2 DEF Claimed, TokenDrawn, TablesTypeOK, JobRow, NoToken
<1> QED
  BY <1>2, <1>4, <1>5, <1>6, <1>7 DEF TablesTypeOK, ClaimTaken, Claim, IncidentRow

\* The transactions of a claim keep the tables' types.
LEMMA ClaimantTyping ==
  ASSUME TablesTypeOK, NEW c \in Claim
  PROVE  /\ heartbeat(c) => TablesTypeOK'
         /\ mark_validating(c) => TablesTypeOK'
         /\ \A v, o : finalize(c, v, o) => TablesTypeOK'
<1> DEFINE i == c.incident
           t == c.type
<1>0. i \in Incident /\ t \in JobType /\ job[i][t] \in JobRow /\ incident[i] \in IncidentRow
  BY DEF TablesTypeOK, Claim
<1>1. ASSUME heartbeat(c) PROVE TablesTypeOK'
  <2>1. [job[i][t] EXCEPT !.age = 0] \in JobRow
    BY <1>0, LeaseAssumption DEF JobRow
  <2>2. job' = [job EXCEPT ![i] = [job[i] EXCEPT ![t] = [job[i][t] EXCEPT !.age = 0]]]
    BY <1>0, <1>1 DEF heartbeat, TablesTypeOK
  <2>3. job' \in [Incident -> [JobType -> JobRow]]
    BY <1>0, <2>1, <2>2 DEF TablesTypeOK
  <2> QED BY <1>1, <2>3 DEF heartbeat, TablesTypeOK
<1>2. ASSUME mark_validating(c) PROVE TablesTypeOK'
  <2>1. Enters(incident[i], "VALIDATING") \in IncidentRow
    BY <1>0, EntersTyping DEF IncidentState
  <2> QED BY <1>0, <1>2, <2>1 DEF mark_validating, TablesTypeOK, PatchStatus
<1>3. ASSUME NEW v, NEW o, finalize(c, v, o) PROVE TablesTypeOK'
  <2>1. CASE RetryJob(c)
    BY <1>0, <2>1, JobRowTyping DEF RetryJob, TablesTypeOK
  <2>2. CASE SettleJob(c, o)
    <3>1. Closed(job[i][t], IF o = "OK" THEN "SUCCEEDED" ELSE "FAILED") \in JobRow
      BY <1>0, JobRowTyping DEF JobStatus, SettledStatus
    <3>2. job' \in [Incident -> [JobType -> JobRow]]
      BY <1>0, <2>2, <3>1 DEF SettleJob, TablesTypeOK
    <3>3. CASE c.type = "ANALYZE"
      <4>1. Enters(incident[i], IF o = "OK" THEN "AWAITING_APPROVAL" ELSE "ANALYSIS_FAILED") \in IncidentRow
        BY <1>0, EntersTyping DEF IncidentState
      <4>2. incident' \in [Incident -> IncidentRow]
        BY <1>0, <2>2, <3>3, <4>1 DEF SettleJob, TablesTypeOK
      <4>3. analysis' \in [Incident -> AnalysisRow]
        <5>1. [analysis[i] EXCEPT !.status = IF o = "OK" THEN "SUCCEEDED" ELSE "FAILED"] \in AnalysisRow
          BY <1>0 DEF TablesTypeOK, AnalysisRow, AnalysisStatus
        <5>2. analysis' = [analysis EXCEPT ![i] =
                 [analysis[i] EXCEPT !.status = IF o = "OK" THEN "SUCCEEDED" ELSE "FAILED"]]
          BY <2>2, <3>3 DEF SettleJob
        <5> QED BY <1>0, <5>1, <5>2 DEF TablesTypeOK
      <4> QED BY <2>2, <3>2, <3>3, <4>2, <4>3 DEF SettleJob, TablesTypeOK
    <3>4. CASE c.type = "PATCH"
      <4>1. Enters(incident[i], IF o = "OK" THEN "PATCH_READY" ELSE "PATCH_FAILED") \in IncidentRow
        BY <1>0, EntersTyping DEF IncidentState
      <4>2. incident' \in [Incident -> IncidentRow]
        BY <1>0, <2>2, <3>4, <4>1 DEF SettleJob, TablesTypeOK
      <4>3. patch' \in [Incident -> PatchStatus]
        BY <1>0, <2>2, <3>4 DEF SettleJob, TablesTypeOK, PatchStatus
      <4> QED BY <2>2, <3>2, <3>4, <4>2, <4>3 DEF SettleJob, TablesTypeOK
    <3> QED BY <1>0, <3>3, <3>4 DEF JobType
  <2>3. CASE UNCHANGED tables
    BY <2>3 DEF tables, TablesTypeOK
  <2> QED BY <1>3, <2>1, <2>2, <2>3 DEF finalize
<1> QED BY <1>1, <1>2, <1>3

\* recover_expired keeps the tables' types.
LEMMA RecoverTyping ==
  ASSUME TablesTypeOK, recover_expired
  PROVE  TablesTypeOK'
<1>1. job' \in [Incident -> [JobType -> JobRow]]
  BY JobRowTyping DEF recover_expired, TablesTypeOK
<1>2. \A i \in Incident : IncidentOfRecovery(i) \in IncidentRow
  <2> SUFFICES ASSUME NEW i \in Incident PROVE IncidentOfRecovery(i) \in IncidentRow
    OBVIOUS
  <2>1. incident[i] \in IncidentRow
    BY DEF TablesTypeOK
  <2>2. /\ Enters(incident[i], "ANALYSIS_FAILED") \in IncidentRow
        /\ Enters(incident[i], "PATCH_FAILED") \in IncidentRow
    BY <2>1, EntersTyping DEF IncidentState
  <2> QED BY <2>1, <2>2 DEF IncidentOfRecovery
<1>3. \A i \in Incident : RunOfRecovery(i) \in AnalysisRow /\ PatchOfRecovery(i) \in PatchStatus
  BY DEF TablesTypeOK, RunOfRecovery, PatchOfRecovery, AnalysisRow, AnalysisStatus, PatchStatus
<1> QED BY <1>1, <1>2, <1>3 DEF recover_expired, TablesTypeOK

\* The control API and the clock keep the tables' types.
LEMMA ApiTyping ==
  ASSUME TablesTypeOK
  PROVE  /\ ApiStep => TablesTypeOK'
         /\ Tick => TablesTypeOK'
<1>1. ASSUME NEW i \in Incident, Receive(i) PROVE TablesTypeOK'
  <2>1. job' \in [Incident -> [JobType -> JobRow]]
    BY <1>1, JobRowTyping DEF Receive, TablesTypeOK
  <2> QED BY <1>1, <2>1 DEF Receive, TablesTypeOK, IncidentRow, IncidentState
<1>2. ASSUME NEW i \in Incident, NEW k \in Key, Approve(i, k) PROVE TablesTypeOK'
  <2>1. job' \in [Incident -> [JobType -> JobRow]]
    BY <1>2, JobRowTyping DEF Approve, TablesTypeOK
  <2>2. incident' \in [Incident -> IncidentRow]
    <3>1. Enters(incident[i], "PATCHING") \in IncidentRow
      BY EntersTyping DEF TablesTypeOK, IncidentState
    <3> QED BY <1>2, <3>1 DEF Approve, TablesTypeOK
  <2> QED BY <1>2, <2>1, <2>2 DEF Approve, TablesTypeOK, PatchStatus
<1>3. ASSUME SyncPolicy PROVE TablesTypeOK'
  BY <1>3 DEF SyncPolicy, TablesTypeOK
<1>4. ASSUME Tick PROVE TablesTypeOK'
  <2>1. job' \in [Incident -> [JobType -> JobRow]]
    BY <1>4, JobRowTyping DEF Tick, TablesTypeOK
  <2> QED BY <1>4, <2>1 DEF Tick, TablesTypeOK
<1> QED BY <1>1, <1>2, <1>3, <1>4 DEF ApiStep

--------------------------------------------------------------------------------
(* Every step keeps every type *)

\* A loop that holds a job holds a claim.
LEMMA HoldingClaim ==
  ASSUME WorkerTypeOK, NEW w \in Worker, pc[w] \in Holding
  PROVE  claim[w] \in Claim
BY DEF WorkerTypeOK

\* The steps of a loop that has no job in hand.
LEMMA IdleTyping ==
  ASSUME TypeOK, NEW w \in Worker
  PROVE  /\ Recover(w) => TypeOK'
         /\ TakeJob(w) => TypeOK'
         /\ FindNothing(w) => TypeOK'
         /\ Leave(w) => TypeOK'
<1> USE DEF TypeOK, Place, Holding, Executing
<1>1. ASSUME Recover(w) PROVE TypeOK'
  <2>1. TablesTypeOK'
    BY <1>1, RecoverTyping DEF Recover
  <2>2. WorkerTypeOK'
    BY <1>1 DEF Recover, WorkerTypeOK
  <2> QED BY <2>1, <2>2
<1>2. ASSUME TakeJob(w) PROVE TypeOK'
  <2>1. PICK i \in Incident, t \in JobType :
          /\ claim_job(i, t)
          /\ claim' = [claim EXCEPT ![w] = ClaimTaken(i, t)]
          /\ ref' = [ref EXCEPT ![w] = ClaimTaken(i, t).version]
    BY <1>2 DEF TakeJob
  <2>2. TablesTypeOK' /\ ClaimTaken(i, t) \in Claim
    BY <2>1, ClaimJobTyping
  <2>3. ClaimTaken(i, t).version \in Nat /\ ClaimTaken(i, t) # NoClaim
    BY <2>2, NoClaimAssumption DEF Claim
  <2>4. WorkerTypeOK'
    <3>1. pc[w] = "claim" /\ pc' = [pc EXCEPT ![w] = "execute"] /\ UNCHANGED <<outcome, stop, orphans>>
      BY <1>2 DEF TakeJob
    <3>2. claim' \in [Worker -> Claim \cup {NoClaim}] /\ ref' \in [Worker -> Nat]
      BY <2>1, <2>2, <2>3 DEF WorkerTypeOK
    <3>3. \A v \in Worker : claim'[v] = NoClaim <=> pc'[v] \notin Holding
      BY <2>1, <2>3, <3>1 DEF WorkerTypeOK
    <3> QED BY <3>1, <3>2, <3>3 DEF WorkerTypeOK
  <2> QED BY <2>2, <2>4
<1>3. ASSUME FindNothing(w) PROVE TypeOK'
  BY <1>3 DEF FindNothing, tables, TablesTypeOK, WorkerTypeOK
<1>4. ASSUME Leave(w) PROVE TypeOK'
  BY <1>4 DEF Leave, tables, TablesTypeOK, WorkerTypeOK
<1> QED BY <1>1, <1>2, <1>3, <1>4

\* Ending or interrupting an execution.
LEMMA EndTyping ==
  ASSUME TypeOK, NEW w \in Worker, pc[w] \in Executing, NEW o \in Outcome, Ends(w, o),
         ref' = ref,
         orphans' = orphans \/ orphans' = [orphans EXCEPT ![w] = @ \cup Abandoned(w)]
  PROVE  TypeOK'
<1> USE DEF TypeOK, Place, Holding, Executing
<1>1. TablesTypeOK'
  BY DEF Ends, tables, TablesTypeOK
<1>2. orphans' \in [Worker -> SUBSET Claim]
  <2>1. Abandoned(w) \in SUBSET Claim
    BY HoldingClaim DEF Abandoned
  <2> QED BY <2>1 DEF WorkerTypeOK
<1>3. WorkerTypeOK'
  BY <1>2 DEF Ends, WorkerTypeOK, Outcome
<1> QED BY <1>1, <1>3

\* The steps of a loop that executes a job.
LEMMA ExecutionTyping ==
  ASSUME TypeOK, NEW w \in Worker
  PROVE  /\ AnalysisEnds(w) \/ PatchFails(w) \/ MarkRefused(w) \/ ValidationEnds(w) => TypeOK'
         /\ TimesOut(w) \/ StopCancels(w) \/ LeaseGivenUp(w) => TypeOK'
         /\ PatchChecked(w) => TypeOK'
         /\ MarkValidating(w) => TypeOK'
<1>1. ASSUME AnalysisEnds(w) \/ PatchFails(w) \/ MarkRefused(w) \/ ValidationEnds(w)
      PROVE  TypeOK'
  <2>1. pc[w] \in Executing /\ ref' = ref /\ orphans' = orphans
    BY <1>1 DEF AnalysisEnds, PatchFails, MarkRefused, ValidationEnds, Executing
  <2>2. \E o \in Outcome : Ends(w, o)
    BY <1>1 DEF AnalysisEnds, PatchFails, MarkRefused, ValidationEnds, Outcome
  <2> QED BY <2>1, <2>2, EndTyping
<1>2. ASSUME TimesOut(w) \/ StopCancels(w) \/ LeaseGivenUp(w) PROVE TypeOK'
  <2>1. pc[w] \in Executing
    BY <1>2 DEF TimesOut, StopCancels, LeaseGivenUp, Executing
  <2>2. \E o \in Outcome : Interrupted(w, o)
    BY <1>2 DEF TimesOut, StopCancels, LeaseGivenUp, Outcome
  <2> QED BY <2>1, <2>2, EndTyping DEF Interrupted
<1>3. ASSUME PatchChecked(w) PROVE TypeOK'
  BY <1>3 DEF PatchChecked, tables, TypeOK, TablesTypeOK, WorkerTypeOK, Place, Holding, Executing
<1>4. ASSUME MarkValidating(w) PROVE TypeOK'
  <2>1. claim[w] \in Claim
    BY <1>4, HoldingClaim DEF MarkValidating, TypeOK, Holding, Executing
  <2>2. TablesTypeOK'
    BY <1>4, <2>1, ClaimantTyping DEF MarkValidating, TypeOK
  <2>3. VersionMarked(w) \in Nat
    BY <2>1, <2>2 DEF VersionMarked, TablesTypeOK, IncidentRow, Claim
  <2>4. WorkerTypeOK'
    BY <1>4, <2>3 DEF MarkValidating, TypeOK, WorkerTypeOK, Place, Holding, Executing
  <2> QED BY <2>2, <2>4 DEF TypeOK
<1> QED BY <1>1, <1>2, <1>3, <1>4

\* The remaining steps of a loop, its threads and its process.
LEMMA ProcessTyping ==
  ASSUME TypeOK, NEW w \in Worker
  PROVE  /\ Finalize(w) => TypeOK'
         /\ Heartbeat(w) => TypeOK'
         /\ OrphanCommits(w) => TypeOK'
         /\ Shutdown(w) => TypeOK'
         /\ Restart(w) => TypeOK'
<1>1. ASSUME Finalize(w) PROVE TypeOK'
  <2>1. claim[w] \in Claim
    BY <1>1, HoldingClaim DEF Finalize, TypeOK, Holding
  <2>2. TablesTypeOK'
    BY <1>1, <2>1, ClaimantTyping DEF Finalize, TypeOK
  <2>3. WorkerTypeOK'
    BY <1>1 DEF Finalize, TypeOK, WorkerTypeOK, Place, Holding, Executing
  <2> QED BY <2>2, <2>3 DEF TypeOK
<1>2. ASSUME Heartbeat(w) PROVE TypeOK'
  <2>1. claim[w] \in Claim
    BY <1>2, HoldingClaim DEF Heartbeat, TypeOK
  <2>2. TablesTypeOK'
    BY <1>2, <2>1, ClaimantTyping DEF Heartbeat, TypeOK
  <2>3. WorkerTypeOK'
    BY <1>2 DEF Heartbeat, workers, TypeOK, WorkerTypeOK
  <2> QED BY <2>2, <2>3 DEF TypeOK
<1>3. ASSUME OrphanCommits(w) PROVE TypeOK'
  <2>1. PICK c \in orphans[w] :
          /\ mark_validating(c) \/ UNCHANGED tables
          /\ orphans' = [orphans EXCEPT ![w] = @ \ {c}]
          /\ UNCHANGED <<pc, claim, ref, outcome, stop>>
    BY <1>3 DEF OrphanCommits
  <2>2. c \in Claim
    BY DEF TypeOK, WorkerTypeOK
  <2>3. TablesTypeOK'
    BY <2>1, <2>2, ClaimantTyping DEF TypeOK, tables, TablesTypeOK
  <2>4. WorkerTypeOK'
    BY <2>1 DEF TypeOK, WorkerTypeOK
  <2> QED BY <2>3, <2>4 DEF TypeOK
<1>4. ASSUME Shutdown(w) PROVE TypeOK'
  <2>1. TablesTypeOK'
    BY <1>4 DEF Shutdown, Stop, Crash, tables, TypeOK, TablesTypeOK
  <2>2. CASE Stop(w)
    BY <2>1, <2>2 DEF Stop, TypeOK, WorkerTypeOK
  <2>3. CASE Crash(w)
    BY <2>1, <2>3 DEF Crash, TypeOK, WorkerTypeOK, Place, Holding, Executing
  <2> QED BY <1>4, <2>2, <2>3 DEF Shutdown
<1>5. ASSUME Restart(w) PROVE TypeOK'
  BY <1>5 DEF Restart, tables, TypeOK, TablesTypeOK, WorkerTypeOK, Place, Holding, Executing
<1> QED BY <1>1, <1>2, <1>3, <1>4, <1>5

\* Types survive every step.
LEMMA TypeInductive == TypeOK /\ [Next]_vars => TypeOK'
<1> SUFFICES ASSUME TypeOK, [Next]_vars PROVE TypeOK'
  OBVIOUS
<1>1. ASSUME NEW w \in Worker, WorkerNext(w) PROVE TypeOK'
  BY <1>1, IdleTyping, ExecutionTyping, ProcessTyping DEF WorkerNext, LoopStep
<1>2. CASE (ApiStep \/ Tick) /\ UNCHANGED workers
  BY <1>2, ApiTyping DEF TypeOK, workers, WorkerTypeOK
<1>3. CASE UNCHANGED vars
  BY <1>3 DEF vars, tables, workers, TypeOK, TablesTypeOK, WorkerTypeOK
<1> QED BY <1>1, <1>2, <1>3 DEF Next

\* Every behaviour of the pipeline keeps every table row and every worker's
\* variables within their types.
THEOREM TypeCorrect == Spec => []TypeOK
<1>1. Init => TypeOK
  BY TablesInitTyping DEF Init, WorkerInit, TypeOK, WorkerTypeOK, Place, Holding, Executing
<1> QED BY <1>1, TypeInductive, PTL DEF Spec

(****************************************************************************)
(* Part two. What each transaction does to the agreement of the tables and  *)
(* to the claims that were taken before it.                                 *)
(****************************************************************************)

TablesSound == TablesTypeOK /\ LifecycleConsistent /\ JobsCounted

\* The step leaves the holder of claim c as it was: the claim stays in the past
\* and, if it still owns its job, it did before and its incident did not move.
Undisturbed(c) ==
  ClaimPast(c) =>
    /\ ClaimPast(c)'
    /\ Owns(c)' => Owns(c) /\ incident'[c.incident] = incident[c.incident]

Quiet == \A c \in Claim : Undisturbed(c)

\* The rows of incident i are as they were.
RowsKept(i) ==
  /\ incident'[i] = incident[i] /\ job'[i] = job[i] /\ analysis'[i] = analysis[i]
  /\ patch'[i] = patch[i] /\ approval'[i] = approval[i]

--------------------------------------------------------------------------------
(* Reading the tables *)

\* What the agreement of the rows says of an incident with a running or queued job.
LEMMA RunningRows ==
  ASSUME TablesSound, NEW i \in Incident
  PROVE  /\ incident[i] \in IncidentRow
         /\ \A t \in JobType : job[i][t] \in JobRow
         /\ job[i]["ANALYZE"].status = "RUNNING" =>
              incident[i].state = "ANALYZING" /\ job[i]["PATCH"].status = "ABSENT"
         /\ job[i]["PATCH"].status = "RUNNING" =>
              /\ incident[i].state \in {"PATCHING", "VALIDATING"}
              /\ job[i]["ANALYZE"].status = "SUCCEEDED"
<1>1. incident[i] \in IncidentRow /\ \A t \in JobType : job[i][t] \in JobRow
  BY DEF TablesSound, TablesTypeOK
<1>2. RowsAgree(i)
  BY DEF TablesSound, LifecycleConsistent
<1> QED BY <1>1, <1>2 DEF RowsAgree, LegalRows

\* An incident whose rows are kept agrees with itself afterwards.
LEMMA KeptRowsAgree ==
  ASSUME LifecycleConsistent, NEW i \in Incident, RowsKept(i)
  PROVE  RowsAgree(i)'
BY DEF LifecycleConsistent, RowsAgree, RowsKept

--------------------------------------------------------------------------------
(* claim_job *)

\* The claim is in the past, its rows tell its place, and no other claim notices.
LEMMA ClaimJobSound ==
  ASSUME TablesSound, NEW i \in Incident, NEW t \in JobType, claim_job(i, t),
         NEW d \in Claim, d = ClaimTaken(i, t)
  PROVE  /\ TablesSound'
         /\ Quiet
         /\ ClaimPast(d)'
         /\ d.incident = i /\ d.type = t
         /\ d.token = job[i][t].attempt + 1
         /\ d.version = incident'[i].version
         /\ t = "PATCH" => incident'[i].state = "PATCHING"
<1>1. TablesTypeOK'
  BY ClaimJobTyping DEF TablesSound
<1>2. /\ job[i][t] \in JobRow /\ incident[i] \in IncidentRow
      /\ job' \in [Incident -> [JobType -> JobRow]] /\ incident' \in [Incident -> IncidentRow]
      /\ job \in [Incident -> [JobType -> JobRow]] /\ incident \in [Incident -> IncidentRow]
      /\ analysis \in [Incident -> AnalysisRow] /\ patch \in [Incident -> PatchStatus]
  BY <1>1 DEF TablesSound, TablesTypeOK
<1>3. /\ job'[i][t].status = "RUNNING"
      /\ job'[i][t].attempt = job[i][t].attempt + 1
      /\ job'[i][t].token = job[i][t].attempt + 1
      /\ \A j \in Incident, u \in JobType : <<j, u>> # <<i, t>> => job'[j][u] = job[j][u]
  BY <1>2 DEF claim_job, Claimed, TokenDrawn
<1>4. /\ incident'[i] = IncidentOfClaim(incident[i], t)
      /\ \A j \in Incident : j # i => RowsKept(j)
  BY <1>2 DEF claim_job, RowsKept
<1>5. RowsAgree(i)
  BY DEF TablesSound, LifecycleConsistent
<1>6. RowsAgree(i)' /\ (t = "PATCH" => incident'[i].state = "PATCHING")
  <2>1. CASE t = "ANALYZE"
    <3>1. analysis'[i].status = "RUNNING" /\ patch'[i] = patch[i] /\ approval'[i] = approval[i]
      BY <1>2, <1>5, <2>1 DEF claim_job, RunOfClaim, Claimable, RowsAgree, LegalRows
    <3>2. incident'[i].state = "ANALYZING"
      BY <1>4, <1>5, <2>1 DEF claim_job, IncidentOfClaim, Enters, Claimable, RowsAgree, LegalRows
    <3>3. job'[i]["PATCH"] = job[i]["PATCH"]
      BY <1>3, <2>1 DEF JobType
    <3> QED BY <1>3, <1>5, <2>1, <3>1, <3>2, <3>3 DEF claim_job, Claimable, RowsAgree, LegalRows
  <2>2. CASE t = "PATCH"
    <3>1. analysis'[i] = analysis[i] /\ patch'[i] = "RUNNING" /\ approval'[i] = approval[i]
      BY <1>2, <2>2 DEF claim_job
    <3>2. incident'[i].state = "PATCHING"
      BY <1>4, <2>2 DEF claim_job, PatchApproved, IncidentOfClaim, Enters
    <3>3. job'[i]["ANALYZE"] = job[i]["ANALYZE"]
      BY <1>3, <2>2 DEF JobType
    <3> QED BY <1>3, <1>5, <2>2, <3>1, <3>2, <3>3 DEF claim_job, Claimable, RowsAgree, LegalRows
  <2> QED BY <2>1, <2>2 DEF JobType
<1>7. LifecycleConsistent'
  BY <1>4, <1>6, KeptRowsAgree DEF LifecycleConsistent, TablesSound
<1>8. JobsCounted'
  BY <1>2, <1>3, AttemptsAssumption DEF TablesSound, JobsCounted, claim_job, Claimable, JobRow
<1>9. incident'[i].version >= incident[i].version
  BY <1>2, <1>4 DEF IncidentOfClaim, Enters, IncidentRow
<1>10. Quiet
  <2> SUFFICES ASSUME NEW c \in Claim, ClaimPast(c)
               PROVE  /\ ClaimPast(c)'
                      /\ Owns(c)' => Owns(c) /\ incident'[c.incident] = incident[c.incident]
    BY DEF Quiet, Undisturbed
  <2>0. c.incident \in Incident /\ c.type \in JobType /\ c.token \in Nat /\ c.version \in Nat
    BY DEF Claim
  <2>1. CASE c.incident # i
    BY <1>3, <1>4, <2>0, <2>1 DEF ClaimPast, Owns, JobOf, RowsKept
  <2>2. CASE c.incident = i /\ c.type # t
    <3>1. JobOf(c)' = JobOf(c)
      BY <1>3, <2>0, <2>2 DEF JobOf
    <3>2. ClaimPast(c)'
      BY <1>2, <1>9, <2>0, <2>2, <3>1 DEF ClaimPast, IncidentRow
    <3>3. ~Owns(c)
      BY <1>5, <2>0, <2>2 DEF Owns, JobOf, RowsAgree, LegalRows, claim_job, Claimable, JobType
    <3> QED BY <3>1, <3>2, <3>3 DEF Owns
  <2>3. CASE c.incident = i /\ c.type = t
    <3>1. JobOf(c)'.token > c.token
      BY <1>2, <1>3, <2>0, <2>3 DEF ClaimPast, JobOf, JobRow
    <3>2. ClaimPast(c)'
      BY <1>2, <1>3, <1>9, <2>0, <2>3 DEF ClaimPast, JobOf, JobRow, IncidentRow
    <3> QED BY <2>0, <3>1, <3>2 DEF Owns
  <2> QED BY <2>1, <2>2, <2>3
<1>11. ClaimPast(d)'
  BY <1>2, <1>3 DEF ClaimTaken, ClaimPast, JobOf, JobRow, IncidentRow
<1> QED BY <1>1, <1>3, <1>6, <1>7, <1>8, <1>10, <1>11 DEF TablesSound, ClaimTaken

--------------------------------------------------------------------------------
(* heartbeat *)

\* A renewed lease changes neither the rows' agreement nor any claim.
LEMMA HeartbeatSound ==
  ASSUME TablesSound, NEW d \in Claim, heartbeat(d)
  PROVE  TablesSound' /\ Quiet
<1>1. TablesTypeOK'
  BY ClaimantTyping DEF TablesSound
<1>2. \A j \in Incident, u \in JobType :
        /\ job'[j][u].status = job[j][u].status
        /\ job'[j][u].attempt = job[j][u].attempt
        /\ job'[j][u].token = job[j][u].token
  <2> SUFFICES ASSUME NEW j \in Incident, NEW u \in JobType
               PROVE  /\ job'[j][u].status = job[j][u].status
                      /\ job'[j][u].attempt = job[j][u].attempt
                      /\ job'[j][u].token = job[j][u].token
    OBVIOUS
  <2>1. job[j][u] \in JobRow
    BY DEF TablesSound, TablesTypeOK
  <2>2. job'[j][u] = job[j][u] \/ job'[j][u] = [job[j][u] EXCEPT !.age = 0]
    BY DEF heartbeat, TablesSound, TablesTypeOK, Claim
  <2> QED BY <2>1, <2>2 DEF JobRow
<1>3. LifecycleConsistent'
  BY <1>2 DEF heartbeat, TablesSound, LifecycleConsistent, RowsAgree, JobType
<1>4. JobsCounted'
  BY <1>2 DEF TablesSound, JobsCounted
<1>5. Quiet
  BY <1>2 DEF heartbeat, Quiet, Undisturbed, ClaimPast, Owns, JobOf, Claim
<1> QED BY <1>1, <1>3, <1>4, <1>5 DEF TablesSound

--------------------------------------------------------------------------------
(* recover_expired *)

\* What recovery makes of a row.
LEMMA RecoveredRow ==
  ASSUME NEW row \in JobRow, row.attempt <= MaxAttempts
  PROVE  /\ Recovered(row).attempt = row.attempt
         /\ ~Expired(row) => Recovered(row) = row /\ ~Exhausted(row)
         /\ Expired(row) => row.status = "RUNNING"
         /\ Exhausted(row) => Expired(row) /\ Recovered(row).status = "FAILED"
         /\ Expired(row) /\ ~Exhausted(row) =>
              Recovered(row).status = "PENDING" /\ row.attempt < MaxAttempts
BY AttemptsAssumption DEF Recovered, Expired, Exhausted, AttemptsRemain, Closed, Requeued, JobRow

\* A recovery takes jobs whose lease is over, and leaves rows that agree.
LEMMA RecoverSound ==
  ASSUME TablesSound, recover_expired
  PROVE  TablesSound' /\ Quiet
<1>1. TablesTypeOK'
  BY RecoverTyping DEF TablesSound
<1>2. \A j \in Incident, u \in JobType :
        /\ job'[j][u] = Recovered(job[j][u])
        /\ job[j][u] \in JobRow /\ job[j][u].attempt <= MaxAttempts
  BY DEF recover_expired, TablesSound, TablesTypeOK, JobsCounted
<1>3. \A j \in Incident :
        /\ incident'[j] = IncidentOfRecovery(j) /\ analysis'[j] = RunOfRecovery(j)
        /\ patch'[j] = PatchOfRecovery(j) /\ approval'[j] = approval[j]
        /\ analysis[j] \in AnalysisRow
  BY DEF recover_expired, TablesSound, TablesTypeOK
<1>4. ASSUME NEW j \in Incident,
             ~Expired(job[j]["ANALYZE"]), ~Expired(job[j]["PATCH"])
      PROVE  /\ incident'[j] = incident[j] /\ analysis'[j] = analysis[j]
             /\ patch'[j] = patch[j]
  BY <1>2, <1>3, <1>4, RecoveredRow
     DEF IncidentOfRecovery, RunOfRecovery, PatchOfRecovery, JobType
<1>5. ASSUME NEW j \in Incident PROVE RowsAgree(j)'
  <2>1. RowsAgree(j)
    BY DEF TablesSound, LifecycleConsistent
  <2> DEFINE a == job[j]["ANALYZE"]
             p == job[j]["PATCH"]
  <2>2. /\ a \in JobRow /\ a.attempt <= MaxAttempts /\ job'[j]["ANALYZE"] = Recovered(a)
        /\ p \in JobRow /\ p.attempt <= MaxAttempts /\ job'[j]["PATCH"] = Recovered(p)
    BY <1>2 DEF JobType
  <2>3. CASE ~Expired(a) /\ ~Expired(p)
    BY <1>3, <1>4, <2>1, <2>2, <2>3, RecoveredRow DEF RowsAgree
  <2>4. CASE Expired(a)
    <3>1. a.status = "RUNNING" /\ p.status = "ABSENT" /\ patch[j] = "ABSENT"
      BY <2>1, <2>2, <2>4, RecoveredRow DEF RowsAgree, LegalRows
    <3>2. ~Expired(p)
      BY <3>1 DEF Expired
    <3>3. Recovered(p) = p /\ ~Exhausted(p)
      BY <2>2, <3>2, RecoveredRow
    <3>4. CASE Exhausted(a)
      <4>1. Recovered(a).status = "FAILED"
        BY <2>2, <3>4, RecoveredRow
      <4>2. incident'[j].state = "ANALYSIS_FAILED" /\ analysis'[j].status = "FAILED" /\ patch'[j] = patch[j]
        <5>1. incident'[j] = Enters(incident[j], "ANALYSIS_FAILED")
          BY <1>3, <3>4 DEF IncidentOfRecovery
        <5>2. analysis'[j] = [analysis[j] EXCEPT !.status = "FAILED"] /\ analysis[j] \in AnalysisRow
          BY <1>3, <3>4 DEF RunOfRecovery
        <5>3. patch'[j] = patch[j]
          BY <1>3, <3>3 DEF PatchOfRecovery
        <5> QED BY <5>1, <5>2, <5>3 DEF Enters, AnalysisRow
      <4> QED BY <1>3, <2>1, <2>2, <3>1, <3>3, <4>1, <4>2 DEF RowsAgree, LegalRows
    <3>5. CASE ~Exhausted(a)
      <4>1. Recovered(a).status = "PENDING"
        BY <2>2, <2>4, <3>5, RecoveredRow
      <4>2. incident'[j] = incident[j] /\ analysis'[j] = analysis[j] /\ patch'[j] = patch[j]
        BY <1>3, <3>3, <3>5 DEF IncidentOfRecovery, RunOfRecovery, PatchOfRecovery
      <4> QED BY <1>3, <2>1, <2>2, <3>1, <3>3, <4>1, <4>2 DEF RowsAgree, LegalRows
    <3> QED BY <3>4, <3>5
  <2>5. CASE Expired(p)
    <3>1. p.status = "RUNNING" /\ a.status = "SUCCEEDED" /\ analysis[j].status = "SUCCEEDED"
      BY <2>1, <2>2, <2>5, RecoveredRow DEF RowsAgree, LegalRows
    <3>2. ~Expired(a)
      BY <3>1 DEF Expired
    <3>3. Recovered(a) = a /\ ~Exhausted(a)
      BY <2>2, <3>2, RecoveredRow
    <3>4. CASE Exhausted(p)
      <4>1. Recovered(p).status = "FAILED"
        BY <2>2, <3>4, RecoveredRow
      <4>2. incident'[j].state = "PATCH_FAILED" /\ analysis'[j] = analysis[j] /\ patch'[j] = "PATCH_FAILED"
        <5>1. incident'[j] = Enters(incident[j], "PATCH_FAILED")
          BY <1>3, <3>3, <3>4 DEF IncidentOfRecovery
        <5>2. analysis'[j] = analysis[j] /\ patch'[j] = "PATCH_FAILED"
          BY <1>3, <3>3, <3>4 DEF RunOfRecovery, PatchOfRecovery
        <5> QED BY <5>1, <5>2 DEF Enters
      <4> QED BY <1>3, <2>1, <2>2, <3>1, <3>3, <4>1, <4>2 DEF RowsAgree, LegalRows
    <3>5. CASE ~Exhausted(p)
      <4>1. Recovered(p).status = "PENDING"
        BY <2>2, <2>5, <3>5, RecoveredRow
      <4>2. incident'[j] = incident[j] /\ analysis'[j] = analysis[j] /\ patch'[j] = patch[j]
        BY <1>3, <3>3, <3>5 DEF IncidentOfRecovery, RunOfRecovery, PatchOfRecovery
      <4> QED BY <1>3, <2>1, <2>2, <3>1, <3>3, <4>1, <4>2 DEF RowsAgree, LegalRows
    <3> QED BY <3>4, <3>5
  <2> QED BY <2>3, <2>4, <2>5
<1>6. JobsCounted'
  BY <1>2, RecoveredRow DEF TablesSound, JobsCounted
<1>7. Quiet
  <2> SUFFICES ASSUME NEW c \in Claim, ClaimPast(c)
               PROVE  /\ ClaimPast(c)'
                      /\ Owns(c)' => Owns(c) /\ incident'[c.incident] = incident[c.incident]
    BY DEF Quiet, Undisturbed
  <2> DEFINE j == c.incident
             u == c.type
  <2>0. j \in Incident /\ u \in JobType /\ c.version \in Nat
    BY DEF Claim
  <2>1. incident'[j].version >= incident[j].version
    <3>1. incident[j] \in IncidentRow /\ incident'[j] = IncidentOfRecovery(j)
      BY <1>3, <2>0 DEF TablesSound, TablesTypeOK
    <3> QED BY <3>1 DEF IncidentOfRecovery, Enters, IncidentRow
  <2>2. ClaimPast(c)'
    <3>1. JobOf(c)'.attempt = JobOf(c).attempt
      BY <1>2, <2>0, RecoveredRow DEF JobOf
    <3>2. incident[j].version \in Nat /\ incident'[j].version \in Nat
      BY <1>1, <2>0 DEF TablesSound, TablesTypeOK, IncidentRow
    <3> QED BY <2>0, <2>1, <3>1, <3>2 DEF ClaimPast
  <2>3. ASSUME Owns(c)' PROVE Owns(c) /\ incident'[j] = incident[j]
    <3>1. job'[j][u].status = "RUNNING"
      BY <2>3 DEF Owns, JobOf
    <3>2. ~Expired(job[j][u]) /\ job'[j][u] = job[j][u]
      BY <1>2, <2>0, <3>1, RecoveredRow
    <3>3. ~Expired(job[j]["ANALYZE"]) /\ ~Expired(job[j]["PATCH"])
      BY <2>0, <3>1, <3>2, RunningRows DEF JobType, Expired
    <3> QED BY <1>4, <2>0, <2>3, <3>2, <3>3 DEF Owns, JobOf
  <2> QED BY <2>2, <2>3
<1> QED BY <1>1, <1>5, <1>6, <1>7 DEF TablesSound, LifecycleConsistent

--------------------------------------------------------------------------------
(* mark_validating *)

\* It disturbs only the execution it is called for.
LEMMA MarkSound ==
  ASSUME TablesSound, NEW d \in Claim, d.type = "PATCH", mark_validating(d)
  PROVE  /\ TablesSound'
         /\ \A c \in Claim : ~SameExecution(c, d) => Undisturbed(c)
         /\ \A c \in Claim : ClaimPast(c) =>
              /\ ClaimPast(c)'
              /\ c.incident = d.incident => incident'[c.incident].version > c.version
              /\ Owns(c)' <=> Owns(c)
         /\ incident'[d.incident].state = "VALIDATING"
         /\ Owns(d)
<1> DEFINE i == d.incident
<1>1. TablesTypeOK'
  BY ClaimantTyping DEF TablesSound
<1>2. /\ i \in Incident /\ incident[i] \in IncidentRow /\ job' = job
      /\ incident'[i] = Enters(incident[i], "VALIDATING") /\ patch'[i] = "VALIDATING"
      /\ \A j \in Incident : j # i => RowsKept(j)
      /\ analysis' = analysis /\ approval' = approval
  BY DEF mark_validating, TablesSound, TablesTypeOK, Claim, RowsKept
<1>3. Owns(d) /\ job[i]["PATCH"].status = "RUNNING" /\ job[i]["PATCH"].token = d.token
  BY DEF mark_validating, MarkAccepted, Owns, JobOf
<1>4. RowsAgree(i)'
  <2>1. RowsAgree(i)
    BY <1>2 DEF TablesSound, LifecycleConsistent
  <2> QED BY <1>2, <1>3, <2>1 DEF RowsAgree, LegalRows, Enters
<1>5. LifecycleConsistent'
  BY <1>2, <1>4, KeptRowsAgree DEF TablesSound, LifecycleConsistent
<1>6. JobsCounted'
  BY <1>2 DEF TablesSound, JobsCounted
<1>7. incident'[i].version = incident[i].version + 1 /\ incident[i].version \in Nat
  BY <1>2 DEF Enters, IncidentRow
<1>8. ASSUME NEW c \in Claim, ClaimPast(c)
      PROVE  /\ ClaimPast(c)'
             /\ c.incident = i => incident'[c.incident].version > c.version
             /\ Owns(c)' <=> Owns(c)
  <2>1. c.incident \in Incident /\ c.version \in Nat
    BY DEF Claim
  <2>2. Owns(c)' <=> Owns(c)
    BY <1>2 DEF Owns, JobOf
  <2>3. CASE c.incident = i
    BY <1>2, <1>7, <1>8, <2>1, <2>2, <2>3 DEF ClaimPast, JobOf
  <2>4. CASE c.incident # i
    BY <1>2, <1>8, <2>1, <2>2, <2>4 DEF ClaimPast, JobOf, RowsKept
  <2> QED BY <2>3, <2>4
<1>9. ASSUME NEW c \in Claim, ~SameExecution(c, d) PROVE Undisturbed(c)
  <2> SUFFICES ASSUME ClaimPast(c), Owns(c)
               PROVE  incident'[c.incident] = incident[c.incident]
    BY <1>8 DEF Undisturbed
  <2>1. c.incident \in Incident /\ c.type \in JobType
    BY DEF Claim
  <2>2. c.incident # i
    <3> SUFFICES ASSUME c.incident = i PROVE FALSE
      OBVIOUS
    <3>1. c.type = "PATCH"
      BY <1>2, <1>3, <2>1, RunningRows DEF Owns, JobOf, JobType
    <3> QED BY <1>3, <1>9, <3>1 DEF Owns, JobOf, SameExecution
  <2> QED BY <1>2, <2>1, <2>2 DEF RowsKept
<1> QED BY <1>1, <1>2, <1>3, <1>5, <1>6, <1>8, <1>9 DEF TablesSound, Enters

--------------------------------------------------------------------------------
(* finalize *)

\* An outcome settles or queues its own job only, on time or late.
LEMMA FinalizeSound ==
  ASSUME TablesSound, NEW d \in Claim, NEW v, NEW o, finalize(d, v, o)
  PROVE  TablesSound' /\ Quiet
<1> DEFINE i == d.incident
           t == d.type
<1>1. TablesTypeOK'
  BY ClaimantTyping DEF TablesSound
<1>2. CASE UNCHANGED tables
  BY <1>1, <1>2 DEF tables, TablesSound, LifecycleConsistent, RowsAgree, JobsCounted,
     Quiet, Undisturbed, ClaimPast, Owns, JobOf
<1>3. CASE Owns(d) /\ ((RetryJob(d) /\ AttemptsRemain(JobOf(d))) \/ SettleJob(d, o))
  <2>1. /\ i \in Incident /\ t \in JobType /\ incident[i] \in IncidentRow
        /\ job[i][t] \in JobRow /\ analysis[i] \in AnalysisRow
        /\ job[i][t].status = "RUNNING"
    BY <1>3 DEF TablesSound, TablesTypeOK, Claim, Owns, JobOf
  <2>2. /\ job'[i][t].status \notin {"RUNNING", "ABSENT"}
        /\ job'[i][t].attempt = job[i][t].attempt
        /\ job'[i][t].status = "PENDING" => job[i][t].attempt < MaxAttempts
        /\ \A j \in Incident, u \in JobType : <<j, u>> # <<i, t>> => job'[j][u] = job[j][u]
    <3>1. CASE RetryJob(d) /\ AttemptsRemain(JobOf(d))
      BY <2>1, <3>1 DEF RetryJob, AttemptsRemain, JobOf, Requeued, TablesSound, TablesTypeOK
    <3>2. CASE SettleJob(d, o)
      BY <2>1, <3>2 DEF SettleJob, Closed, TablesSound, TablesTypeOK
    <3> QED BY <1>3, <3>1, <3>2
  <2>3. \A j \in Incident : j # i => RowsKept(j)
    BY <1>3, <2>1 DEF RetryJob, SettleJob, RowsKept, TablesSound, TablesTypeOK
  <2>4. RowsAgree(i)
    BY <2>1 DEF TablesSound, LifecycleConsistent
  <2>5. RowsAgree(i)' /\ incident'[i].version >= incident[i].version
    <3>0. incident[i].version \in Nat
      BY <2>1 DEF IncidentRow
    <3>1. CASE RetryJob(d)
      <4>1. job'[i][t].status = "PENDING"
        BY <2>1, <3>1 DEF RetryJob, Requeued, TablesSound, TablesTypeOK
      <4> QED BY <2>1, <2>2, <2>4, <3>0, <3>1, <4>1 DEF RetryJob, RowsAgree, LegalRows, JobType
    <3>2. CASE SettleJob(d, o) /\ t = "ANALYZE"
      <4>1. job'[i]["ANALYZE"].status = (IF o = "OK" THEN "SUCCEEDED" ELSE "FAILED")
        BY <2>1, <3>2 DEF SettleJob, Closed, TablesSound, TablesTypeOK
      <4>2. incident'[i] = Enters(incident[i], IF o = "OK" THEN "AWAITING_APPROVAL" ELSE "ANALYSIS_FAILED")
        BY <2>1, <3>2 DEF SettleJob, TablesSound, TablesTypeOK
      <4>3. analysis'[i].status = (IF o = "OK" THEN "SUCCEEDED" ELSE "FAILED")
        <5>1. analysis'[i] = [analysis[i] EXCEPT !.status = IF o = "OK" THEN "SUCCEEDED" ELSE "FAILED"]
          BY <2>1, <3>2 DEF SettleJob, TablesSound, TablesTypeOK
        <5> QED BY <2>1, <5>1 DEF AnalysisRow
      <4>4. patch' = patch /\ approval' = approval /\ job'[i]["PATCH"] = job[i]["PATCH"]
        BY <2>1, <2>2, <3>2 DEF SettleJob, JobType
      <4>5. RowsAgree(i)'
        <5>1. CASE o = "OK"
          BY <2>1, <2>4, <3>2, <4>1, <4>2, <4>3, <4>4, <5>1 DEF RowsAgree, LegalRows, Enters
        <5>2. CASE o # "OK"
          BY <2>1, <2>4, <3>2, <4>1, <4>2, <4>3, <4>4, <5>2 DEF RowsAgree, LegalRows, Enters
        <5> QED BY <5>1, <5>2
      <4> QED BY <3>0, <4>2, <4>5 DEF Enters
    <3>3. CASE SettleJob(d, o) /\ t = "PATCH"
      <4>1. job'[i]["PATCH"].status = (IF o = "OK" THEN "SUCCEEDED" ELSE "FAILED")
        BY <2>1, <3>3 DEF SettleJob, Closed, TablesSound, TablesTypeOK
      <4>2. incident'[i] = Enters(incident[i], IF o = "OK" THEN "PATCH_READY" ELSE "PATCH_FAILED")
        BY <2>1, <3>3 DEF SettleJob, TablesSound, TablesTypeOK
      <4>3. patch'[i] = (IF o = "OK" THEN "PATCH_READY" ELSE "PATCH_FAILED")
        BY <2>1, <3>3 DEF SettleJob, TablesSound, TablesTypeOK
      <4>4. analysis' = analysis /\ approval' = approval /\ job'[i]["ANALYZE"] = job[i]["ANALYZE"]
        BY <2>1, <2>2, <3>3 DEF SettleJob, JobType
      <4>5. RowsAgree(i)'
        <5>1. CASE o = "OK"
          BY <2>1, <2>4, <3>3, <4>1, <4>2, <4>3, <4>4, <5>1 DEF RowsAgree, LegalRows, Enters
        <5>2. CASE o # "OK"
          BY <2>1, <2>4, <3>3, <4>1, <4>2, <4>3, <4>4, <5>2 DEF RowsAgree, LegalRows, Enters
        <5> QED BY <5>1, <5>2
      <4> QED BY <3>0, <4>2, <4>5 DEF Enters
    <3> QED BY <1>3, <2>1, <3>1, <3>2, <3>3 DEF JobType
  <2>6. LifecycleConsistent'
    BY <2>3, <2>5, KeptRowsAgree DEF TablesSound, LifecycleConsistent
  <2>7. JobsCounted'
    BY <2>1, <2>2 DEF TablesSound, JobsCounted
  <2>8. ASSUME NEW c \in Claim, ClaimPast(c)
        PROVE  /\ ClaimPast(c)'
               /\ Owns(c)' => Owns(c) /\ incident'[c.incident] = incident[c.incident]
    <3>1. /\ c.incident \in Incident /\ c.type \in JobType /\ c.version \in Nat
          /\ incident[i].version \in Nat /\ incident'[i].version \in Nat
      BY <1>1, <2>1 DEF Claim, TablesTypeOK, IncidentRow
    <3>2. JobOf(c)'.attempt = JobOf(c).attempt
      BY <2>2, <3>1 DEF JobOf
    <3>3. ClaimPast(c)'
      BY <2>3, <2>5, <2>8, <3>1, <3>2 DEF ClaimPast, RowsKept
    <3>4. ASSUME Owns(c)' PROVE Owns(c) /\ incident'[c.incident] = incident[c.incident]
      <4>1. <<c.incident, c.type>> # <<i, t>>
        BY <2>2, <3>4 DEF Owns, JobOf
      <4>2. Owns(c)
        BY <2>2, <3>1, <3>4, <4>1 DEF Owns, JobOf
      <4>3. c.incident # i
        BY <2>1, <3>1, <4>1, <4>2, RunningRows DEF Owns, JobOf, JobType
      <4> QED BY <2>3, <3>1, <4>2, <4>3 DEF RowsKept
    <3> QED BY <3>3, <3>4
  <2> QED BY <1>1, <2>6, <2>7, <2>8 DEF TablesSound, Quiet, Undisturbed
<1> QED BY <1>2, <1>3 DEF finalize, FinalizeAccepted, Retried

--------------------------------------------------------------------------------
(* The control API and the clock *)

\* A new incident has no claims.
LEMMA ReceiveSound ==
  ASSUME TablesSound, NEW i \in Incident, Receive(i)
  PROVE  TablesSound' /\ Quiet
<1>1. TablesTypeOK'
  <2>1. ApiStep
    BY DEF ApiStep
  <2> QED BY <2>1, ApiTyping DEF TablesSound
<1>2. /\ incident'[i] = [state |-> "RECEIVED", version |-> 1]
      /\ job'[i]["ANALYZE"] = NewJob /\ job'[i]["PATCH"] = job[i]["PATCH"]
      /\ \A j \in Incident : j # i => RowsKept(j)
      /\ UNCHANGED <<analysis, approval, patch>>
  BY DEF Receive, TablesSound, TablesTypeOK, RowsKept, JobType
<1>3. RowsAgree(i) /\ incident[i].state = "ABSENT"
  BY DEF Receive, TablesSound, LifecycleConsistent
<1>4. NewJob.status = "PENDING" /\ NewJob.attempt = 0
  BY DEF NewJob, AbsentJob
<1>5. RowsAgree(i)'
  BY <1>2, <1>3, <1>4 DEF RowsAgree, LegalRows
<1>6. LifecycleConsistent'
  BY <1>2, <1>5, KeptRowsAgree DEF TablesSound, LifecycleConsistent
<1>7. JobsCounted'
  <2> SUFFICES ASSUME NEW j \in Incident, NEW u \in JobType
               PROVE  /\ job'[j][u].status = "ABSENT" => job'[j][u].attempt = 0
                      /\ job'[j][u].status = "RUNNING" => job'[j][u].token = job'[j][u].attempt
                      /\ job'[j][u].status = "PENDING" => job'[j][u].attempt < MaxAttempts
                      /\ job'[j][u].attempt <= MaxAttempts
    BY DEF JobsCounted
  <2>1. job'[j][u] = NewJob \/ job'[j][u] = job[j][u]
    BY <1>2 DEF RowsKept, JobType
  <2> QED BY <1>4, <2>1, AttemptsAssumption DEF TablesSound, JobsCounted
<1>8. Quiet
  <2> SUFFICES ASSUME NEW c \in Claim, ClaimPast(c)
               PROVE  /\ ClaimPast(c)'
                      /\ Owns(c)' => Owns(c) /\ incident'[c.incident] = incident[c.incident]
    BY DEF Quiet, Undisturbed
  <2>1. c.incident \in Incident /\ c.type \in JobType /\ c.token \in Nat \ {0} /\ c.version \in Nat
    BY DEF Claim, NoToken
  <2>2. CASE c.incident # i
    BY <1>2, <2>1, <2>2 DEF ClaimPast, Owns, JobOf, RowsKept
  <2>3. CASE c.incident = i
    <3>1. JobOf(c).status = "ABSENT"
      BY <1>3, <2>1, <2>3 DEF JobOf, RowsAgree, LegalRows, JobType
    <3>2. JobOf(c).attempt = 0 /\ c.token <= JobOf(c).attempt
      BY <2>1, <3>1 DEF JobOf, TablesSound, JobsCounted, ClaimPast
    <3> QED BY <2>1, <3>2
  <2> QED BY <2>2, <2>3
<1> QED BY <1>1, <1>6, <1>7, <1>8 DEF TablesSound

\* An approval adds a PATCH job, which nobody holds a claim on.
LEMMA ApproveSound ==
  ASSUME TablesSound, NEW i \in Incident, NEW k \in Key, Approve(i, k)
  PROVE  TablesSound' /\ Quiet
<1>1. TablesTypeOK'
  <2>1. ApiStep
    BY DEF ApiStep
  <2> QED BY <2>1, ApiTyping DEF TablesSound
<1>2. /\ incident'[i] = Enters(incident[i], "PATCHING")
      /\ job'[i]["PATCH"] = NewJob /\ job'[i]["ANALYZE"] = job[i]["ANALYZE"]
      /\ patch'[i] = "PENDING" /\ approval'[i] = k /\ analysis' = analysis
      /\ \A j \in Incident : j # i => RowsKept(j)
      /\ incident[i].version \in Nat
  BY DEF Approve, TablesSound, TablesTypeOK, RowsKept, JobType, IncidentRow
<1>3. RowsAgree(i) /\ incident[i].state = "AWAITING_APPROVAL"
  BY DEF Approve, AwaitingApproval, TablesSound, LifecycleConsistent
<1>4. NewJob.status = "PENDING" /\ NewJob.attempt = 0
  BY DEF NewJob, AbsentJob
<1>5. RowsAgree(i)'
  BY <1>2, <1>3, <1>4, SentinelAssumption DEF RowsAgree, LegalRows, Enters
<1>6. LifecycleConsistent'
  BY <1>2, <1>5, KeptRowsAgree DEF TablesSound, LifecycleConsistent
<1>7. JobsCounted'
  <2> SUFFICES ASSUME NEW j \in Incident, NEW u \in JobType
               PROVE  /\ job'[j][u].status = "ABSENT" => job'[j][u].attempt = 0
                      /\ job'[j][u].status = "RUNNING" => job'[j][u].token = job'[j][u].attempt
                      /\ job'[j][u].status = "PENDING" => job'[j][u].attempt < MaxAttempts
                      /\ job'[j][u].attempt <= MaxAttempts
    BY DEF JobsCounted
  <2>1. job'[j][u] = NewJob \/ job'[j][u] = job[j][u]
    BY <1>2 DEF RowsKept, JobType
  <2> QED BY <1>4, <2>1, AttemptsAssumption DEF TablesSound, JobsCounted
<1>8. Quiet
  <2> SUFFICES ASSUME NEW c \in Claim, ClaimPast(c)
               PROVE  /\ ClaimPast(c)'
                      /\ Owns(c)' => Owns(c) /\ incident'[c.incident] = incident[c.incident]
    BY DEF Quiet, Undisturbed
  <2>1. c.incident \in Incident /\ c.type \in JobType /\ c.token \in Nat \ {0} /\ c.version \in Nat
    BY DEF Claim, NoToken
  <2>2. CASE c.incident # i
    BY <1>2, <2>1, <2>2 DEF ClaimPast, Owns, JobOf, RowsKept
  <2>3. CASE c.incident = i /\ c.type = "ANALYZE"
    <3>1. JobOf(c)' = JobOf(c) /\ JobOf(c).status = "SUCCEEDED"
      BY <1>2, <1>3, <2>3 DEF JobOf, RowsAgree, LegalRows
    <3> QED BY <1>2, <2>1, <2>3, <3>1 DEF Owns, ClaimPast, Enters
  <2>4. CASE c.incident = i /\ c.type = "PATCH"
    <3>1. JobOf(c).status = "ABSENT"
      BY <1>3, <2>4 DEF JobOf, RowsAgree, LegalRows
    <3>2. JobOf(c).attempt = 0 /\ c.token <= JobOf(c).attempt
      BY <2>1, <3>1 DEF JobOf, TablesSound, JobsCounted, ClaimPast
    <3> QED BY <2>1, <3>2
  <2> QED BY <2>1, <2>2, <2>3, <2>4 DEF JobType
<1> QED BY <1>1, <1>6, <1>7, <1>8 DEF TablesSound

\* A configuration sync and the passing of time touch nothing the rows agree on.
LEMMA SyncAndTickSound ==
  ASSUME TablesSound, SyncPolicy \/ Tick
  PROVE  TablesSound' /\ Quiet
<1>1. TablesTypeOK'
  BY ApiTyping DEF TablesSound, ApiStep
<1>2. \A j \in Incident, u \in JobType :
        /\ job'[j][u].status = job[j][u].status
        /\ job'[j][u].attempt = job[j][u].attempt
        /\ job'[j][u].token = job[j][u].token
  BY DEF SyncPolicy, Tick, Older
<1>3. UNCHANGED <<incident, analysis, approval, patch>>
  BY DEF SyncPolicy, Tick
<1>4. LifecycleConsistent'
  BY <1>2, <1>3 DEF TablesSound, LifecycleConsistent, RowsAgree, JobType
<1>5. JobsCounted'
  BY <1>2 DEF TablesSound, JobsCounted
<1>6. Quiet
  BY <1>2, <1>3 DEF Quiet, Undisturbed, ClaimPast, Owns, JobOf, Claim
<1> QED BY <1>1, <1>4, <1>5, <1>6 DEF TablesSound

\* A step of a loop that reaches no database.
LEMMA UnchangedSound ==
  ASSUME TablesSound, UNCHANGED tables
  PROVE  TablesSound' /\ Quiet
BY DEF tables, TablesSound, TablesTypeOK, LifecycleConsistent, RowsAgree, JobsCounted,
   Quiet, Undisturbed, ClaimPast, Owns, JobOf

(****************************************************************************)
(* Part three. IInv is inductive, and the safety properties follow from     *)
(* it.                                                                      *)
(****************************************************************************)

--------------------------------------------------------------------------------
(* The initial state *)

\* Without rows and claims there is nothing to disagree.
LEMMA InitInvariant == Init => IInv
<1> SUFFICES ASSUME Init PROVE IInv
  OBVIOUS
<1>1. TypeOK
  BY TablesInitTyping DEF Init, WorkerInit, TypeOK, WorkerTypeOK, Place, Holding, Executing
<1>2. LifecycleConsistent
  BY DEF Init, TablesInit, LifecycleConsistent, RowsAgree, LegalRows, AbsentJob, JobType
<1>3. JobsCounted
  BY AttemptsAssumption DEF Init, TablesInit, JobsCounted, AbsentJob
<1>4. \A w \in Worker : pc[w] \notin Holding /\ orphans[w] = {}
  BY DEF Init, WorkerInit, Holding, Executing
<1> QED
  BY <1>1, <1>2, <1>3, <1>4 DEF IInv, ClaimsSound, OrphansSound, LoopsDistinct, OrphansDistinct

--------------------------------------------------------------------------------
(* Loops and threads a step leaves alone *)

\* Loop v keeps its place, its claim and what it knows.
LoopKept(v) ==
  pc'[v] = pc[v] /\ claim'[v] = claim[v] /\ ref'[v] = ref[v] /\ outcome'[v] = outcome[v]

\* What ClaimsSound says of loop v.
LoopSound(v) == pc[v] \in Holding => ClaimPast(claim[v]) /\ StageKnown(v)

\* A loop whose claim a step does not disturb knows as much after it.
LEMMA StageKept ==
  ASSUME IInv, NEW v \in Worker, LoopKept(v),
         \A c \in Claim : c = claim[v] => Undisturbed(c)
  PROVE  LoopSound(v)'
<1> SUFFICES ASSUME pc'[v] \in Holding
             PROVE  ClaimPast(claim[v])' /\ StageKnown(v)'
  BY DEF LoopSound
<1>0. pc[v] \in Holding
  BY DEF LoopKept
<1>1. claim[v] \in Claim
  BY <1>0, HoldingClaim DEF IInv, TypeOK
<1>2. ClaimPast(claim[v]) /\ StageKnown(v)
  BY <1>0 DEF IInv, ClaimsSound
<1>3. PICK c \in Claim : c = claim[v] /\ c = claim'[v]
  BY <1>1 DEF LoopKept
<1>4. Undisturbed(c)
  BY <1>3
<1>5. ClaimPast(c)
  BY <1>2, <1>3 DEF ClaimPast, JobOf
<1>6. ClaimPast(claim[v])'
  BY <1>3, <1>4, <1>5 DEF Undisturbed, ClaimPast, JobOf
<1>7. Owns(claim[v])' => Owns(c) /\ incident'[c.incident] = incident[c.incident]
  BY <1>3, <1>4, <1>5 DEF Undisturbed, Owns, JobOf
<1>8. StageKnown(v)'
  BY <1>2, <1>3, <1>7 DEF StageKnown, MarkedLate, LoopKept, Owns, JobOf
<1> QED BY <1>6, <1>8

\* An abandoned thread a step does not disturb is as sound after it.
LEMMA OrphanKept ==
  ASSUME NEW c \in Claim, OrphanSound(c), Undisturbed(c)
  PROVE  OrphanSound(c)'
BY DEF OrphanSound, Undisturbed

\* A quiet step that changes no loop and no thread.
LEMMA QuietStep ==
  ASSUME IInv, TablesSound', Quiet, UNCHANGED workers, TypeOK'
  PROVE  IInv'
<1>1. \A v \in Worker : LoopSound(v)'
  BY StageKept DEF workers, LoopKept, Quiet
<1>2. ClaimsSound'
  BY <1>1 DEF ClaimsSound, LoopSound
<1>3. OrphansSound'
  BY OrphanKept DEF IInv, TypeOK, WorkerTypeOK, OrphansSound, workers, Quiet
<1>4. LoopsDistinct' /\ OrphansDistinct'
  BY DEF IInv, LoopsDistinct, OrphansDistinct, workers
<1> QED BY <1>2, <1>3, <1>4 DEF IInv, TablesSound

\* A quiet step in which loop w gives up whatever it held and leaves no thread behind.
LEMMA ReleaseStep ==
  ASSUME IInv, TablesSound', Quiet, TypeOK', NEW w \in Worker, pc'[w] \notin Holding,
         \A v \in Worker : v # w => LoopKept(v),
         \A v \in Worker : orphans'[v] \subseteq orphans[v]
  PROVE  IInv'
<1>1. \A v \in Worker : LoopSound(v)'
  <2> SUFFICES ASSUME NEW v \in Worker PROVE LoopSound(v)'
    OBVIOUS
  <2>1. CASE v = w
    BY <2>1 DEF LoopSound
  <2>2. CASE v # w
    BY <2>2, StageKept DEF Quiet
  <2> QED BY <2>1, <2>2
<1>2. ClaimsSound'
  BY <1>1 DEF ClaimsSound, LoopSound
<1>3. OrphansSound'
  <2> SUFFICES ASSUME NEW v \in Worker, NEW c \in orphans'[v] PROVE OrphanSound(c)'
    BY DEF OrphansSound
  <2>1. c \in orphans[v]
    OBVIOUS
  <2>2. c \in Claim /\ OrphanSound(c)
    BY <2>1 DEF IInv, TypeOK, WorkerTypeOK, OrphansSound
  <2> QED BY <2>2, OrphanKept DEF Quiet
<1>4. LoopsDistinct'
  BY DEF IInv, LoopsDistinct, LoopKept
<1>5. OrphansDistinct'
  BY DEF IInv, OrphansDistinct, LoopKept
<1> QED BY <1>2, <1>3, <1>4, <1>5 DEF IInv, TablesSound

--------------------------------------------------------------------------------
(* Taking a job *)

\* The loop that takes a job is told apart from whoever held the job before.
LEMMA TakeJobSafe ==
  ASSUME IInv, NEW w \in Worker, TakeJob(w), TypeOK'
  PROVE  IInv'
<1>1. PICK i \in Incident, t \in JobType :
        /\ claim_job(i, t)
        /\ claim' = [claim EXCEPT ![w] = ClaimTaken(i, t)]
        /\ ref' = [ref EXCEPT ![w] = ClaimTaken(i, t).version]
  BY DEF TakeJob
<1>2. PICK d \in Claim : d = ClaimTaken(i, t)
  BY <1>1, ClaimJobTyping DEF IInv, TypeOK
<1>3. /\ TablesSound' /\ Quiet /\ ClaimPast(d)'
      /\ d.incident = i /\ d.type = t /\ d.token = job[i][t].attempt + 1
      /\ d.version = incident'[i].version
      /\ t = "PATCH" => incident'[i].state = "PATCHING"
  BY <1>1, <1>2, ClaimJobSound DEF IInv, TypeOK, TablesSound
<1>4. /\ pc[w] = "claim" /\ pc'[w] = "execute" /\ claim'[w] = d /\ ref'[w] = d.version
      /\ orphans' = orphans
      /\ \A v \in Worker : v # w => LoopKept(v)
  BY <1>1, <1>2 DEF TakeJob, LoopKept, IInv, TypeOK, WorkerTypeOK
<1>5. \A c \in Claim : ClaimPast(c) => ~SameExecution(c, d)
  <2> SUFFICES ASSUME NEW c \in Claim, ClaimPast(c), SameExecution(c, d) PROVE FALSE
    OBVIOUS
  <2>1. c.token <= job[i][t].attempt /\ c.token = job[i][t].attempt + 1
    BY <1>3 DEF ClaimPast, JobOf, SameExecution
  <2>2. job[i][t].attempt \in Nat
    BY DEF IInv, TypeOK, TablesTypeOK, JobRow
  <2> QED BY <2>1, <2>2
<1>6. LoopSound(w)'
  <2>1. ClaimPast(claim[w])'
    BY <1>3, <1>4 DEF ClaimPast, JobOf
  <2>2. StageKnown(w)'
    BY <1>3, <1>4 DEF StageKnown
  <2> QED BY <2>1, <2>2 DEF LoopSound
<1>7. ClaimsSound'
  BY <1>3, <1>4, <1>6, StageKept DEF ClaimsSound, LoopSound, Quiet
<1>8. OrphansSound'
  BY <1>3, <1>4, OrphanKept DEF IInv, TypeOK, WorkerTypeOK, OrphansSound, Quiet
<1>9. LoopsDistinct'
  <2>1. ASSUME NEW v \in Worker, v # w, pc[v] \in Holding PROVE ~SameExecution(claim[v], d)
    BY <1>5, <2>1, HoldingClaim DEF IInv, TypeOK, ClaimsSound
  <2> QED BY <1>4, <2>1 DEF IInv, LoopsDistinct, LoopKept, SameExecution
<1>10. OrphansDistinct'
  <2>1. ASSUME NEW v \in Worker, NEW c \in orphans[v] PROVE ~SameExecution(c, d)
    BY <1>5 DEF IInv, TypeOK, WorkerTypeOK, OrphansSound, OrphanSound
  <2> QED BY <1>4, <2>1 DEF IInv, OrphansDistinct, LoopKept
<1> QED BY <1>3, <1>7, <1>8, <1>9, <1>10 DEF IInv, TablesSound

--------------------------------------------------------------------------------
(* Ends and interruptions of an execution *)

\* Loop w goes on to finalize with outcome o.  Success is claimed only by an
\* analysis and by a patch whose validation ran; a thread is left behind only
\* at mark_validating, by a timeout or a cancellation.
LEMMA EndSafe ==
  ASSUME IInv, NEW w \in Worker, pc[w] \in Executing, NEW o \in Outcome, Ends(w, o), ref' = ref,
         o = "OK" => claim[w].type = "ANALYZE" \/ pc[w] = "validate",
         \/ orphans' = orphans
         \/ o \in {"FATAL", "CANCELLED"} /\ orphans' = [orphans EXCEPT ![w] = @ \cup Abandoned(w)],
         TypeOK'
  PROVE  IInv'
<1>1. TablesSound' /\ Quiet
  BY UnchangedSound DEF IInv, TypeOK, TablesSound, Ends
<1>2. /\ pc'[w] = "finalize" /\ outcome'[w] = o /\ claim' = claim
      /\ pc[w] \in Holding
      /\ \A v \in Worker : v # w => LoopKept(v)
  BY DEF Ends, LoopKept, Holding, IInv, TypeOK, WorkerTypeOK
<1>3. claim[w] \in Claim
  BY <1>2, HoldingClaim DEF IInv, TypeOK
<1>4. ClaimPast(claim[w]) /\ StageKnown(w)
  BY <1>2 DEF IInv, ClaimsSound
<1>5. incident' = incident /\ job' = job
  BY DEF Ends, tables
<1>6. LoopSound(w)'
  <2>1. ClaimPast(claim[w])'
    BY <1>2, <1>4, <1>5 DEF ClaimPast, JobOf
  <2>2. StageKnown(w)'
    BY <1>2, <1>4, <1>5 DEF StageKnown, Owns, JobOf, Executing
  <2> QED BY <2>1, <2>2 DEF LoopSound
<1>7. ClaimsSound'
  BY <1>1, <1>2, <1>6, StageKept DEF ClaimsSound, LoopSound, Quiet
<1>8. \A v \in Worker : \A c \in orphans'[v] :
        c \in orphans[v] \/ (v = w /\ c = claim[w] /\ pc[w] = "mark" /\ o \in {"FATAL", "CANCELLED"})
  BY DEF Abandoned, IInv, TypeOK, WorkerTypeOK
<1>9. OrphansSound'
  <2> SUFFICES ASSUME NEW v \in Worker, NEW c \in orphans'[v] PROVE OrphanSound(c)'
    BY DEF OrphansSound
  <2>1. CASE c \in orphans[v]
    <3>1. c \in Claim /\ OrphanSound(c)
      BY <2>1 DEF IInv, TypeOK, WorkerTypeOK, OrphansSound
    <3> QED BY <1>1, <3>1, OrphanKept DEF Quiet
  <2>2. CASE c = claim[w] /\ pc[w] = "mark"
    <3>1. OrphanSound(c)
      BY <1>4, <2>2 DEF OrphanSound, StageKnown, ClaimPast, Owns, JobOf
    <3>2. c \in Claim
      BY <1>3, <2>2
    <3> QED BY <1>1, <3>1, <3>2, OrphanKept DEF Quiet
  <2> QED BY <1>8, <2>1, <2>2
<1>10. LoopsDistinct'
  BY <1>2 DEF IInv, LoopsDistinct, LoopKept
<1>11. OrphansDistinct'
  <2> SUFFICES ASSUME NEW u \in Worker, NEW v \in Worker, NEW c \in orphans'[v],
                      pc'[u] \in Holding, SameExecution(c, claim[u])
               PROVE  u = v /\ pc'[u] = "finalize" /\ outcome'[u] \in {"FATAL", "CANCELLED"}
    BY <1>2 DEF OrphansDistinct
  <2>1. pc[u] \in Holding
    BY <1>2 DEF LoopKept
  <2>2. CASE c \in orphans[v]
    <3>1. u = v /\ pc[u] = "finalize" /\ outcome[u] \in {"FATAL", "CANCELLED"}
      BY <2>1, <2>2 DEF IInv, OrphansDistinct
    <3>2. u # w
      BY <3>1 DEF Executing
    <3> QED BY <1>2, <3>1, <3>2 DEF LoopKept
  <2>3. CASE v = w /\ c = claim[w] /\ o \in {"FATAL", "CANCELLED"}
    <3>1. u = w
      BY <1>2, <2>1, <2>3 DEF IInv, LoopsDistinct, SameExecution
    <3> QED BY <1>2, <2>3, <3>1
  <2> QED BY <1>8, <2>2, <2>3
<1> QED BY <1>1, <1>7, <1>9, <1>10, <1>11 DEF IInv, TablesSound

\* The checked patch goes on to mark_validating.
LEMMA PatchCheckedSafe ==
  ASSUME IInv, NEW w \in Worker, PatchChecked(w), TypeOK'
  PROVE  IInv'
<1>1. TablesSound' /\ Quiet
  BY UnchangedSound DEF IInv, TypeOK, TablesSound, PatchChecked
<1>2. /\ pc[w] = "execute" /\ claim[w].type = "PATCH"
      /\ pc' = [pc EXCEPT ![w] = "mark"] /\ pc[w] \in Holding
      /\ UNCHANGED <<incident, job, claim, ref, outcome, orphans>>
      /\ \A v \in Worker : v # w => LoopKept(v)
  BY DEF PatchChecked, LoopKept, Holding, Executing, tables, IInv, TypeOK, WorkerTypeOK
<1>3. ClaimPast(claim[w]) /\ StageKnown(w) /\ pc'[w] = "mark"
  BY <1>2 DEF IInv, ClaimsSound, TypeOK, WorkerTypeOK
<1>4. LoopSound(w)'
  BY <1>2, <1>3 DEF LoopSound, ClaimPast, StageKnown, Owns, JobOf
<1>5. ClaimsSound'
  BY <1>1, <1>2, <1>4, StageKept DEF ClaimsSound, LoopSound, Quiet
<1>6. OrphansSound'
  BY <1>1, <1>2, OrphanKept DEF IInv, TypeOK, WorkerTypeOK, OrphansSound, Quiet
<1>7. LoopsDistinct'
  BY <1>2 DEF IInv, LoopsDistinct, LoopKept
<1>8. OrphansDistinct'
  <2> SUFFICES ASSUME NEW u \in Worker, NEW v \in Worker, NEW c \in orphans[v],
                      pc'[u] \in Holding, SameExecution(c, claim[u])
               PROVE  u = v /\ pc'[u] = "finalize" /\ outcome[u] \in {"FATAL", "CANCELLED"}
    BY <1>2 DEF OrphansDistinct
  <2>1. pc[u] \in Holding
    BY <1>2 DEF LoopKept
  <2>2. u = v /\ pc[u] = "finalize" /\ outcome[u] \in {"FATAL", "CANCELLED"}
    BY <2>1 DEF IInv, OrphansDistinct
  <2> QED BY <1>2, <2>2 DEF LoopKept
<1> QED BY <1>1, <1>5, <1>6, <1>7, <1>8 DEF IInv, TablesSound

--------------------------------------------------------------------------------
(* mark_validating commits, awaited or abandoned *)

\* The loop that marks its incident VALIDATING knows the new version.
LEMMA MarkValidatingSafe ==
  ASSUME IInv, NEW w \in Worker, MarkValidating(w), TypeOK'
  PROVE  IInv'
<1>1. /\ pc[w] = "mark" /\ pc[w] \in Holding /\ pc'[w] = "validate"
      /\ mark_validating(claim[w]) /\ ref'[w] = incident'[claim[w].incident].version
      /\ claim' = claim /\ orphans' = orphans
      /\ \A v \in Worker : v # w => LoopKept(v)
  BY DEF MarkValidating, VersionMarked, Holding, Executing, LoopKept, IInv, TypeOK, WorkerTypeOK
<1>2. PICK d \in Claim : d = claim[w]
  BY <1>1, HoldingClaim DEF IInv, TypeOK
<1>3. d.type = "PATCH" /\ ClaimPast(d)
  BY <1>1, <1>2 DEF IInv, ClaimsSound, StageKnown, ClaimPast, JobOf
<1>4. mark_validating(d)
  BY <1>1, <1>2
<1>5. /\ TablesSound' /\ ClaimPast(d)'
      /\ \A c \in Claim : ~SameExecution(c, d) => Undisturbed(c)
      /\ incident'[d.incident].state = "VALIDATING"
  BY <1>3, <1>4, MarkSound DEF IInv, TypeOK, TablesSound
<1>6. LoopSound(w)'
  <2>1. ClaimPast(claim[w])'
    BY <1>1, <1>2, <1>5 DEF ClaimPast, JobOf
  <2>2. StageKnown(w)'
    BY <1>1, <1>2, <1>3, <1>5 DEF StageKnown
  <2> QED BY <2>1, <2>2 DEF LoopSound
<1>7. ASSUME NEW v \in Worker, v # w PROVE LoopSound(v)'
  <2>1. CASE pc[v] \in Holding
    <3>1. ~SameExecution(claim[v], d)
      BY <1>1, <1>2, <1>7, <2>1 DEF IInv, LoopsDistinct
    <3>2. \A c \in Claim : c = claim[v] => Undisturbed(c)
      BY <1>5, <3>1
    <3> QED BY <1>1, <1>7, <3>2, StageKept
  <2>2. CASE pc[v] \notin Holding
    BY <1>1, <1>7, <2>2 DEF LoopSound, LoopKept
  <2> QED BY <2>1, <2>2
<1>8. ClaimsSound'
  BY <1>6, <1>7 DEF ClaimsSound, LoopSound
<1>9. OrphansSound'
  <2> SUFFICES ASSUME NEW v \in Worker, NEW c \in orphans[v] PROVE OrphanSound(c)'
    BY <1>1 DEF OrphansSound
  <2>1. c \in Claim /\ OrphanSound(c)
    BY DEF IInv, TypeOK, WorkerTypeOK, OrphansSound
  <2>2. ~SameExecution(c, d)
    BY <1>1, <1>2 DEF IInv, OrphansDistinct
  <2> QED BY <1>5, <2>1, <2>2, OrphanKept
<1>10. LoopsDistinct'
  BY <1>1 DEF IInv, LoopsDistinct, LoopKept
<1>11. OrphansDistinct'
  <2> SUFFICES ASSUME NEW u \in Worker, NEW v \in Worker, NEW c \in orphans[v],
                      pc'[u] \in Holding, SameExecution(c, claim[u])
               PROVE  u = v /\ pc'[u] = "finalize" /\ outcome'[u] \in {"FATAL", "CANCELLED"}
    BY <1>1 DEF OrphansDistinct
  <2>1. pc[u] \in Holding
    BY <1>1 DEF LoopKept
  <2>2. u = v /\ pc[u] = "finalize" /\ outcome[u] \in {"FATAL", "CANCELLED"}
    BY <2>1 DEF IInv, OrphansDistinct
  <2> QED BY <1>1, <2>2 DEF LoopKept
<1> QED BY <1>5, <1>8, <1>9, <1>10, <1>11 DEF IInv, TablesSound

\* A mark_validating whose await was given up commits late, or fails, and goes.
LEMMA OrphanCommitsSafe ==
  ASSUME IInv, NEW w \in Worker, OrphanCommits(w), TypeOK'
  PROVE  IInv'
<1>1. PICK d \in orphans[w] :
        /\ mark_validating(d) \/ UNCHANGED tables
        /\ orphans' = [orphans EXCEPT ![w] = @ \ {d}]
        /\ UNCHANGED <<pc, claim, ref, outcome, stop>>
  BY DEF OrphanCommits
<1>2. d \in Claim /\ OrphanSound(d)
  BY DEF IInv, TypeOK, WorkerTypeOK, OrphansSound
<1>3. /\ \A v \in Worker : LoopKept(v)
      /\ \A v \in Worker : orphans'[v] \subseteq orphans[v]
  BY <1>1 DEF LoopKept, IInv, TypeOK, WorkerTypeOK
<1>4. LoopsDistinct' /\ OrphansDistinct'
  BY <1>1, <1>3 DEF IInv, LoopsDistinct, OrphansDistinct
<1>5. CASE UNCHANGED tables
  <2>1. TablesSound' /\ Quiet
    BY <1>5, UnchangedSound DEF IInv, TypeOK, TablesSound
  <2>2. \A v \in Worker : LoopSound(v)'
    BY <1>3, <2>1, StageKept DEF Quiet
  <2>3. OrphansSound'
    BY <1>3, <2>1, OrphanKept DEF IInv, TypeOK, WorkerTypeOK, OrphansSound, Quiet
  <2> QED BY <1>4, <2>1, <2>2, <2>3 DEF IInv, TablesSound, ClaimsSound, LoopSound
<1>6. CASE mark_validating(d)
  <2>1. /\ TablesSound'
        /\ \A c \in Claim : ~SameExecution(c, d) => Undisturbed(c)
        /\ \A c \in Claim : ClaimPast(c) =>
             /\ ClaimPast(c)'
             /\ c.incident = d.incident => incident'[c.incident].version > c.version
    BY <1>2, <1>6, MarkSound DEF IInv, TypeOK, TablesSound, OrphanSound
  <2>2. ASSUME NEW v \in Worker PROVE LoopSound(v)'
    <3> SUFFICES ASSUME pc[v] \in Holding PROVE LoopSound(v)'
      BY <1>3 DEF LoopSound, LoopKept
    <3>1. PICK c \in Claim : c = claim[v] /\ c = claim'[v]
      BY <1>3, HoldingClaim DEF LoopKept, IInv, TypeOK
    <3>2. ClaimPast(c) /\ StageKnown(v)
      BY <3>1 DEF IInv, ClaimsSound, ClaimPast, JobOf
    <3>3. CASE ~SameExecution(c, d)
      BY <1>3, <2>1, <3>1, <3>3, StageKept
    <3>4. CASE SameExecution(c, d)
      <4>1. v = w /\ pc[v] = "finalize" /\ outcome[v] \in {"FATAL", "CANCELLED"}
        BY <3>1, <3>4 DEF IInv, OrphansDistinct, SameExecution
      <4>2. ClaimPast(claim[v])'
        BY <2>1, <3>1, <3>2 DEF ClaimPast, JobOf
      <4>3. claim'[v].type = "PATCH"
        BY <1>2, <3>1, <3>4 DEF OrphanSound, SameExecution
      <4>4. MarkedLate(v)'
        <5>1. /\ Owns(d) /\ incident[d.incident].version = d.version
              /\ incident' = [incident EXCEPT ![d.incident] = Enters(@, "VALIDATING")]
          BY <1>6 DEF mark_validating, MarkAccepted
        <5>2. incident[d.incident].state = "PATCHING"
          BY <1>2, <5>1 DEF OrphanSound
        <5>3. c.incident = d.incident /\ c.type = "PATCH" /\ Owns(claim[v])
          BY <1>2, <3>1, <3>4, <5>1 DEF SameExecution, OrphanSound, Owns, JobOf
        <5>4. incident[d.incident].version = ref[v]
          BY <3>1, <3>2, <4>1, <5>2, <5>3 DEF StageKnown, MarkedLate
        <5>5. /\ incident'[d.incident].state = "VALIDATING"
              /\ incident'[d.incident].version = incident[d.incident].version + 1
          BY <1>2, <5>1 DEF Enters, Claim, IInv, TypeOK, TablesTypeOK
        <5> QED BY <1>3, <3>1, <4>1, <5>3, <5>4, <5>5 DEF MarkedLate, LoopKept
      <4>5. StageKnown(v)'
        BY <1>3, <4>1, <4>3, <4>4 DEF StageKnown, LoopKept
      <4> QED BY <4>2, <4>5 DEF LoopSound
    <3> QED BY <3>3, <3>4
  <2>3. ClaimsSound'
    BY <2>2 DEF ClaimsSound, LoopSound
  <2>4. OrphansSound'
    <3> SUFFICES ASSUME NEW v \in Worker, NEW c \in orphans'[v] PROVE OrphanSound(c)'
      BY DEF OrphansSound
    <3>1. c \in Claim /\ OrphanSound(c)
      BY <1>3 DEF IInv, TypeOK, WorkerTypeOK, OrphansSound
    <3>2. CASE ~SameExecution(c, d)
      BY <2>1, <3>1, <3>2, OrphanKept
    <3>3. CASE SameExecution(c, d)
      <4>1. ClaimPast(c)' /\ incident'[c.incident].version > c.version
        BY <2>1, <3>1, <3>3 DEF OrphanSound, SameExecution
      <4>2. incident'[c.incident].version # c.version
        BY <1>2, <2>1, <3>1, <4>1 DEF TablesSound, TablesTypeOK, IncidentRow, Claim
      <4> QED BY <3>1, <4>1, <4>2 DEF OrphanSound
    <3> QED BY <3>2, <3>3
  <2> QED BY <1>4, <2>1, <2>3, <2>4 DEF IInv, TablesSound
<1> QED BY <1>1, <1>5, <1>6

--------------------------------------------------------------------------------
(* Every step *)

\* Finding nothing to claim, leaving and restarting: no table, no job in hand.
LEMMA IdleSafe ==
  ASSUME IInv, TypeOK', NEW w \in Worker, FindNothing(w) \/ Leave(w) \/ Restart(w)
  PROVE  IInv'
<1>1. TablesSound' /\ Quiet
  BY UnchangedSound DEF IInv, TypeOK, TablesSound, FindNothing, Leave, Restart
<1>2. pc'[w] \notin Holding
  BY DEF FindNothing, Leave, Restart, IInv, TypeOK, WorkerTypeOK, Holding, Executing
<1>3. \A v \in Worker : (v # w => LoopKept(v)) /\ orphans'[v] \subseteq orphans[v]
  BY DEF FindNothing, Leave, Restart, LoopKept, IInv, TypeOK, WorkerTypeOK
<1> QED BY <1>1, <1>2, <1>3, ReleaseStep

\* Every step of a loop that goes on keeps IInv.
LEMMA LoopStepSafe ==
  ASSUME IInv, TypeOK', NEW w \in Worker, LoopStep(w)
  PROVE  IInv'
<1>1. CASE Recover(w)
  <2>1. TablesSound' /\ Quiet
    BY <1>1, RecoverSound DEF Recover, IInv, TypeOK, TablesSound
  <2>2. pc'[w] \notin Holding
    BY <1>1 DEF Recover, IInv, TypeOK, WorkerTypeOK, Holding, Executing
  <2>3. \A v \in Worker : (v # w => LoopKept(v)) /\ orphans'[v] \subseteq orphans[v]
    BY <1>1 DEF Recover, LoopKept, IInv, TypeOK, WorkerTypeOK
  <2> QED BY <2>1, <2>2, <2>3, ReleaseStep
<1>2. CASE TakeJob(w)
  BY <1>2, TakeJobSafe
<1>3. CASE FindNothing(w) \/ Leave(w)
  BY <1>3, IdleSafe
<1>4. CASE AnalysisEnds(w) \/ PatchFails(w) \/ MarkRefused(w) \/ ValidationEnds(w)
  <2>1. pc[w] \in Executing /\ ref' = ref /\ orphans' = orphans
    BY <1>4 DEF AnalysisEnds, PatchFails, MarkRefused, ValidationEnds, Executing
  <2>2. PICK o \in Outcome :
          Ends(w, o) /\ (o = "OK" => claim[w].type = "ANALYZE" \/ pc[w] = "validate")
    BY <1>4 DEF AnalysisEnds, PatchFails, MarkRefused, ValidationEnds, Outcome
  <2> QED BY <2>1, <2>2, EndSafe
<1>5. CASE PatchChecked(w)
  BY <1>5, PatchCheckedSafe
<1>6. CASE MarkValidating(w)
  BY <1>6, MarkValidatingSafe
<1>7. CASE TimesOut(w) \/ StopCancels(w) \/ LeaseGivenUp(w)
  <2>1. pc[w] \in Executing
    BY <1>7 DEF TimesOut, StopCancels, LeaseGivenUp, Executing
  <2>2. PICK o \in Outcome : Interrupted(w, o) /\ o \in {"FATAL", "CANCELLED"}
    BY <1>7 DEF TimesOut, StopCancels, LeaseGivenUp, Outcome
  <2> QED BY <2>1, <2>2, EndSafe DEF Interrupted
<1>8. CASE Finalize(w)
  <2>1. claim[w] \in Claim
    BY <1>8, HoldingClaim DEF Finalize, IInv, TypeOK, Holding
  <2>2. TablesSound' /\ Quiet
    BY <1>8, <2>1, FinalizeSound DEF Finalize, IInv, TypeOK, TablesSound
  <2>3. pc'[w] \notin Holding
    BY <1>8 DEF Finalize, IInv, TypeOK, WorkerTypeOK, Holding, Executing
  <2>4. \A v \in Worker : (v # w => LoopKept(v)) /\ orphans'[v] \subseteq orphans[v]
    BY <1>8 DEF Finalize, LoopKept, IInv, TypeOK, WorkerTypeOK
  <2> QED BY <2>2, <2>3, <2>4, ReleaseStep
<1> QED BY <1>1, <1>2, <1>3, <1>4, <1>5, <1>6, <1>7, <1>8 DEF LoopStep

\* So does whatever else happens in a worker process.
LEMMA WorkerSafe ==
  ASSUME IInv, TypeOK', NEW w \in Worker, WorkerNext(w)
  PROVE  IInv'
<1>1. CASE LoopStep(w)
  BY <1>1, LoopStepSafe
<1>2. CASE Heartbeat(w)
  <2>1. claim[w] \in Claim
    BY <1>2, HoldingClaim DEF Heartbeat, IInv, TypeOK
  <2>2. TablesSound' /\ Quiet
    BY <1>2, <2>1, HeartbeatSound DEF Heartbeat, IInv, TypeOK, TablesSound
  <2> QED BY <1>2, <2>2, QuietStep DEF Heartbeat
<1>3. CASE OrphanCommits(w)
  BY <1>3, OrphanCommitsSafe
<1>4. CASE Stop(w)
  <2>1. TablesSound' /\ Quiet
    BY <1>4, UnchangedSound DEF Stop, IInv, TypeOK, TablesSound
  <2>2. \A v \in Worker : LoopSound(v)'
    BY <1>4, <2>1, StageKept DEF Stop, LoopKept, Quiet
  <2>3. OrphansSound'
    BY <1>4, <2>1, OrphanKept DEF Stop, IInv, TypeOK, WorkerTypeOK, OrphansSound, Quiet
  <2>4. LoopsDistinct' /\ OrphansDistinct'
    BY <1>4 DEF Stop, IInv, LoopsDistinct, OrphansDistinct
  <2> QED BY <2>1, <2>2, <2>3, <2>4 DEF IInv, TablesSound, ClaimsSound, LoopSound
<1>5. CASE Crash(w)
  <2>1. TablesSound' /\ Quiet
    BY <1>5, UnchangedSound DEF Crash, IInv, TypeOK, TablesSound
  <2>2. pc'[w] \notin Holding
    BY <1>5 DEF Crash, IInv, TypeOK, WorkerTypeOK, Holding, Executing
  <2>3. \A v \in Worker : (v # w => LoopKept(v)) /\ orphans'[v] \subseteq orphans[v]
    BY <1>5 DEF Crash, LoopKept, IInv, TypeOK, WorkerTypeOK
  <2> QED BY <2>1, <2>2, <2>3, ReleaseStep
<1>6. CASE Restart(w)
  BY <1>6, IdleSafe
<1> QED BY <1>1, <1>2, <1>3, <1>4, <1>5, <1>6 DEF WorkerNext, Shutdown

\* The invariant survives every step of the pipeline.
LEMMA InvariantInductive == IInv /\ [Next]_vars => IInv'
<1> SUFFICES ASSUME IInv, [Next]_vars PROVE IInv'
  OBVIOUS
<1>1. TypeOK'
  BY TypeInductive DEF IInv
<1>2. ASSUME NEW w \in Worker, WorkerNext(w) PROVE IInv'
  BY <1>1, <1>2, WorkerSafe
<1>3. CASE ApiStep /\ UNCHANGED workers
  <2>1. TablesSound' /\ Quiet
    BY <1>3, ReceiveSound, ApproveSound, SyncAndTickSound DEF ApiStep, IInv, TypeOK, TablesSound
  <2> QED BY <1>1, <1>3, <2>1, QuietStep
<1>4. CASE Tick /\ UNCHANGED workers
  <2>1. TablesSound' /\ Quiet
    BY <1>4, SyncAndTickSound DEF IInv, TypeOK, TablesSound
  <2> QED BY <1>1, <1>4, <2>1, QuietStep
<1>5. CASE UNCHANGED vars
  <2>1. UNCHANGED tables /\ UNCHANGED workers
    BY <1>5 DEF vars
  <2>2. TablesSound' /\ Quiet
    BY <2>1, UnchangedSound DEF IInv, TypeOK, TablesSound
  <2> QED BY <1>1, <2>1, <2>2, QuietStep
<1> QED BY <1>2, <1>3, <1>4, <1>5 DEF Next

\* IInv holds in every reachable state.
THEOREM Invariant == Spec => []IInv
<1> QED BY InitInvariant, InvariantInductive, PTL DEF Spec

--------------------------------------------------------------------------------
(* The safety properties *)

\* The incident's state, its jobs, its runs and its approval always agree.
THEOREM LifecycleAlwaysConsistent == Spec => []LifecycleConsistent
<1>1. IInv => LifecycleConsistent
  BY DEF IInv
<1> QED BY <1>1, Invariant, PTL

\* No transaction of the worker loop can find rows it raises RuntimeError for.
THEOREM NeverPoisoned == Spec => []NoPoisonJob
<1>1. IInv => NoPoisonJob
  <2> SUFFICES ASSUME IInv, NEW i \in Incident
               PROVE  /\ Claimable(i, "PATCH") => PatchApproved(i)
                      /\ Expired(job[i]["ANALYZE"]) => analysis[i].status # "ABSENT"
                      /\ Expired(job[i]["PATCH"]) => patch[i] # "ABSENT"
    BY DEF NoPoisonJob
  <2>1. RowsAgree(i)
    BY DEF IInv, LifecycleConsistent
  <2> QED BY <2>1 DEF RowsAgree, LegalRows, Claimable, PatchApproved, Expired
<1> QED BY <1>1, Invariant, PTL

\* A claim token never stands for two executions.
THEOREM TokensNameExecutions == Spec => []TokenNamesOneExecution
<1>1. IInv => TokenNamesOneExecution
  <2> SUFFICES ASSUME IInv, NEW v \in Worker, NEW w \in Worker, v # w
               PROVE  /\ pc[v] \in Holding /\ pc[w] \in Holding =>
                           \/ <<claim[v].incident, claim[v].type>> # <<claim[w].incident, claim[w].type>>
                           \/ claim[v].token # claim[w].token
                      /\ claim[v] \notin orphans[w]
    BY DEF TokenNamesOneExecution
  <2>1. pc[v] \in Holding /\ pc[w] \in Holding => ~SameExecution(claim[v], claim[w])
    BY DEF IInv, LoopsDistinct
  <2>2. claim[v] \notin orphans[w]
    <3> SUFFICES ASSUME claim[v] \in orphans[w] PROVE FALSE
      OBVIOUS
    <3>1. pc[v] \in Holding
      BY NoClaimAssumption DEF IInv, TypeOK, WorkerTypeOK
    <3> QED BY <3>1 DEF IInv, OrphansDistinct, SameExecution
  <2> QED BY <2>1, <2>2 DEF SameExecution
<1> QED BY <1>1, Invariant, PTL

\* Only the execution's own late mark_validating takes the version that finalize
\* insists on away from a loop that owns its job.
THEOREM OnlyLateMarkRefuses == Spec => []BehindByLateMarkOnly
<1>1. IInv => BehindByLateMarkOnly
  <2> SUFFICES ASSUME IInv, NEW w \in Worker, pc[w] = "finalize", Owns(claim[w]),
                      incident[claim[w].incident].version # ref[w]
               PROVE  claim[w].type = "PATCH" /\ MarkedLate(w)
    BY DEF BehindByLateMarkOnly, MarkedLate
  <2>1. claim[w] \in Claim /\ StageKnown(w)
    BY HoldingClaim DEF IInv, TypeOK, ClaimsSound, Holding
  <2>2. claim[w].type \in {"ANALYZE", "PATCH"}
    BY <2>1 DEF Claim, JobType
  <2> QED BY <2>1, <2>2 DEF StageKnown
<1> QED BY <1>1, Invariant, PTL

\* No job is attempted more than MaxAttempts times or queued without an attempt left.
THEOREM AttemptsBounded == Spec => []AttemptsRespected
<1>1. IInv => AttemptsRespected
  BY DEF IInv, JobsCounted, AttemptsRespected
<1> QED BY <1>1, Invariant, PTL
================================================================================
