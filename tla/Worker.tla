--------------------------------- MODULE Worker ---------------------------------
(***************************************************************************)
(* The worker loop of aeh/worker.py: recover expired jobs, claim one, run  *)
(* it, finalize it.  One model worker is one worker_loop coroutine.  What  *)
(* it awaits (a database transaction in a thread, the analysis, the patch, *)
(* the validation) is one step each, so that other workers, the clock and  *)
(* the control API act in between.                                         *)
(*                                                                         *)
(* A transaction handed to asyncio.to_thread is not stopped when the task  *)
(* awaiting it is cancelled.  Of the transactions a job runs, only         *)
(* mark_validating is awaited inside the cancellable part of run_one:      *)
(* `orphans' holds the claims whose mark_validating was still to commit    *)
(* when its task gave up on it.                                            *)
(***************************************************************************)
EXTENDS JobRepository

CONSTANTS
  Worker,     \* worker_loop coroutines, of any number of processes
  NoClaim     \* no job in hand

ASSUME NoClaimAssumption == NoClaim \notin Claim

VARIABLES
  pc,         \* where the loop is
  claim,      \* the Claim in hand
  ref,        \* version_ref[0]: the incident version finalize will insist on
  outcome,    \* how the execution ended
  stop,       \* SIGINT or SIGTERM arrived
  orphans     \* claims of abandoned mark_validating threads

workers == <<pc, claim, ref, outcome, stop, orphans>>

\* "down": no process.  "execute": everything up to the checked diff of a patch,
\* all of an analysis.  "mark": mark_validating awaited.  "finalize": outcome
\* known, finalize to commit.
Place == {"down", "recover", "claim", "execute", "mark", "validate", "finalize"}
Executing == {"execute", "mark", "validate"}
Holding == Executing \cup {"finalize"}

WorkerTypeOK ==
  /\ pc \in [Worker -> Place]
  /\ claim \in [Worker -> Claim \cup {NoClaim}]
  /\ \A w \in Worker : claim[w] = NoClaim <=> pc[w] \notin Holding
  /\ ref \in [Worker -> Nat]
  /\ outcome \in [Worker -> Outcome \cup {"NONE"}]
  /\ \A w \in Worker : outcome[w] = "NONE" <=> pc[w] # "finalize"
  /\ stop \in [Worker -> BOOLEAN]
  /\ orphans \in [Worker -> SUBSET Claim]

WorkerInit ==
  /\ pc = [w \in Worker |-> "recover"]
  /\ claim = [w \in Worker |-> NoClaim]
  /\ ref = [w \in Worker |-> 0]
  /\ outcome = [w \in Worker |-> "NONE"]
  /\ stop = [w \in Worker |-> FALSE]
  /\ orphans = [w \in Worker |-> {}]

--------------------------------------------------------------------------------
(* The loop: recover, claim, or leave *)

\* worker_loop, recover_expired awaited.
Recover(w) ==
  /\ pc[w] = "recover" /\ ~stop[w]
  /\ recover_expired
  /\ pc' = [pc EXCEPT ![w] = "claim"]
  /\ UNCHANGED <<claim, ref, outcome, stop, orphans>>

\* worker_loop, claim_job awaited and a job taken; run_one starts with
\* version_ref = [claim.version].
TakeJob(w) ==
  /\ pc[w] = "claim"
  /\ \E i \in Incident, t \in JobType :
       /\ claim_job(i, t)
       /\ claim' = [claim EXCEPT ![w] = ClaimTaken(i, t)]
       /\ ref' = [ref EXCEPT ![w] = ClaimTaken(i, t).version]
  /\ pc' = [pc EXCEPT ![w] = "execute"]
  /\ UNCHANGED <<outcome, stop, orphans>>

\* Nothing to claim: the loop waits for stop or for the poll interval.
FindNothing(w) ==
  /\ pc[w] = "claim"
  /\ \A i \in Incident, t \in JobType : ~Claimable(i, t)
  /\ pc' = [pc EXCEPT ![w] = "recover"]
  /\ UNCHANGED <<tables, claim, ref, outcome, stop, orphans>>

\* The while condition fails.
Leave(w) ==
  /\ pc[w] = "recover" /\ stop[w]
  /\ pc' = [pc EXCEPT ![w] = "down"]
  /\ stop' = [stop EXCEPT ![w] = FALSE]
  /\ UNCHANGED <<tables, claim, ref, outcome, orphans>>

--------------------------------------------------------------------------------
(* execute *)

\* The execution of w's job ends with outcome o; run_one goes on to finalize.
Ends(w, o) ==
  /\ pc' = [pc EXCEPT ![w] = "finalize"]
  /\ outcome' = [outcome EXCEPT ![w] = o]
  /\ UNCHANGED <<tables, claim, stop>>

\* The analysis returns, fails, or runs out of time.
AnalysisEnds(w) ==
  /\ pc[w] = "execute" /\ claim[w].type = "ANALYZE"
  /\ \E o \in {"OK", "TRANSIENT", "FATAL"} : Ends(w, o)
  /\ UNCHANGED <<ref, orphans>>

\* The patch cannot be made, breaks the policy, or runs out of time.
PatchFails(w) ==
  /\ pc[w] = "execute" /\ claim[w].type = "PATCH"
  /\ \E o \in {"TRANSIENT", "FATAL"} : Ends(w, o)
  /\ UNCHANGED <<ref, orphans>>

\* gateway.patch and check_diff are done, mark_validating is handed to a thread.
PatchChecked(w) ==
  /\ pc[w] = "execute" /\ claim[w].type = "PATCH"
  /\ pc' = [pc EXCEPT ![w] = "mark"]
  /\ UNCHANGED <<tables, claim, ref, outcome, stop, orphans>>

FaultyVersionKept(w) == ref[w]

\* version_ref[0] = the version mark_validating returns.
VersionMarked(w) == incident'[claim[w].incident].version

\* mark_validating commits and execute takes its result.
MarkValidating(w) ==
  /\ pc[w] = "mark"
  /\ mark_validating(claim[w])
  /\ ref' = [ref EXCEPT ![w] = VersionMarked(w)]
  /\ pc' = [pc EXCEPT ![w] = "validate"]
  /\ UNCHANGED <<claim, outcome, stop, orphans>>

\* mark_validating raises AehError 409: a domain error, not transient.
MarkRefused(w) ==
  /\ pc[w] = "mark" /\ ~MarkAccepted(claim[w])
  /\ Ends(w, "FATAL")
  /\ UNCHANGED <<ref, orphans>>

\* run_validation returns, a command fails or the patch runs out of time, or the
\* sandbox is missing, which is retried (validation.py:16-17, worker.py:174).
ValidationEnds(w) ==
  /\ pc[w] = "validate"
  /\ \E o \in {"OK", "TRANSIENT", "FATAL"} : Ends(w, o)
  /\ UNCHANGED <<ref, orphans>>

--------------------------------------------------------------------------------
(* Interrupted executions *)

\* The orphans w leaves when its execution is interrupted now.
Abandoned(w) == IF pc[w] = "mark" THEN {claim[w]} ELSE {}

Interrupted(w, o) ==
  /\ Ends(w, o)
  /\ orphans' = [orphans EXCEPT ![w] = @ \cup Abandoned(w)]
  /\ UNCHANGED ref

\* asyncio.timeout of the patch expires while mark_validating is awaited; at the
\* other places the timeout is one of the FATAL ends above.  A database error
\* after which nobody knows whether it committed ends the execution the same way.
TimesOut(w) ==
  /\ pc[w] = "mark"
  /\ Interrupted(w, "FATAL")

\* worker_loop cancels run_one once stop is set.
StopCancels(w) ==
  /\ pc[w] \in Executing /\ stop[w]
  /\ Interrupted(w, "CANCELLED")

\* keep_lease cancels the task: the heartbeat matched no row, or the database
\* failed for as long as the lease lasts.  The last of the failing heartbeats
\* may have committed without an answer, so the lease may still be live.
LeaseGivenUp(w) ==
  /\ pc[w] \in Executing
  /\ Interrupted(w, "CANCELLED")

\* keep_lease renews the lease.  A heartbeat thread started before the execution
\* ended may commit as late as this side of finalize.
Heartbeat(w) ==
  /\ pc[w] \in Holding
  /\ JobOf(claim[w]).age > 0
  /\ heartbeat(claim[w])
  /\ UNCHANGED workers

\* An abandoned mark_validating commits (its result reaches nobody) or is refused.
OrphanCommits(w) ==
  \E c \in orphans[w] :
    /\ \/ mark_validating(c)
       \/ ~MarkAccepted(c) /\ UNCHANGED tables
    /\ orphans' = [orphans EXCEPT ![w] = @ \ {c}]
    /\ UNCHANGED <<pc, claim, ref, outcome, stop>>

--------------------------------------------------------------------------------
(* finalize and the end of a turn *)

Finalize(w) ==
  /\ pc[w] = "finalize"
  /\ finalize(claim[w], ref[w], outcome[w])
  /\ pc' = [pc EXCEPT ![w] = "recover"]
  /\ claim' = [claim EXCEPT ![w] = NoClaim]
  /\ ref' = [ref EXCEPT ![w] = 0]
  /\ outcome' = [outcome EXCEPT ![w] = "NONE"]
  /\ UNCHANGED <<stop, orphans>>

--------------------------------------------------------------------------------
(* The process *)

\* SIGINT or SIGTERM sets the stop event.
Stop(w) ==
  /\ pc[w] # "down" /\ ~stop[w]
  /\ stop' = [stop EXCEPT ![w] = TRUE]
  /\ UNCHANGED <<tables, pc, claim, ref, outcome, orphans>>

\* The process dies and its threads with it: a kill, or an exception that
\* reaches worker_loop (a database error of recover_expired, claim_job or
\* finalize is not caught there).
Crash(w) ==
  /\ pc[w] # "down"
  /\ pc' = [pc EXCEPT ![w] = "down"]
  /\ claim' = [claim EXCEPT ![w] = NoClaim]
  /\ ref' = [ref EXCEPT ![w] = 0]
  /\ outcome' = [outcome EXCEPT ![w] = "NONE"]
  /\ stop' = [stop EXCEPT ![w] = FALSE]
  /\ orphans' = [orphans EXCEPT ![w] = {}]
  /\ UNCHANGED tables

\* A new process is started in its place.
Restart(w) ==
  /\ pc[w] = "down"
  /\ pc' = [pc EXCEPT ![w] = "recover"]
  /\ UNCHANGED <<tables, claim, ref, outcome, stop, orphans>>

--------------------------------------------------------------------------------

\* What a running loop does of its own accord.
LoopStep(w) ==
  \/ Recover(w) \/ TakeJob(w) \/ FindNothing(w) \/ Leave(w)
  \/ AnalysisEnds(w) \/ PatchFails(w) \/ PatchChecked(w)
  \/ MarkValidating(w) \/ MarkRefused(w) \/ ValidationEnds(w)
  \/ TimesOut(w) \/ StopCancels(w) \/ LeaseGivenUp(w)
  \/ Finalize(w)

\* What happens to a process from outside.
Shutdown(w) == Stop(w) \/ Crash(w)

WorkerNext(w) ==
  LoopStep(w) \/ Heartbeat(w) \/ OrphanCommits(w) \/ Shutdown(w) \/ Restart(w)
================================================================================
