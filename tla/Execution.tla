-------------------------------- MODULE Execution --------------------------------
(***************************************************************************)
(* execute under run_one (aeh/worker.py) await by await, with the threads  *)
(* that asyncio.to_thread leaves behind when an await is cancelled: making *)
(* and removing the worktree under the repository's lock file, reading its *)
(* diff, validating in it.  The executions share one repository.           *)
(*                                                                         *)
(* keep_lease and a shutdown may each cancel the task, at any await.  A    *)
(* worktree manager that nobody holds any more is closed by CPython as     *)
(* soon as its last reference goes, in the thread that held it.            *)
(***************************************************************************)
EXTENDS Integers, FiniteSets

CONSTANTS
  Exec,         \* executions, each of one claim
  Type,         \* [Exec -> {"ANALYZE", "PATCH"}]
  MaxCancels,   \* bound on the cancellations of one execution
  Nobody

ASSUME TypeAssumption == Type \in [Exec -> {"ANALYZE", "PATCH"}]
ASSUME CancelAssumption == MaxCancels \in Nat
ASSUME NobodyAssumption == Nobody \notin Exec

VARIABLES
  stage,     \* the await at which the task stands
  maker,     \* the thread of worktree.__enter__
  remover,   \* the thread of worktree.__exit__, or of the close of the manager
  tree,      \* the worktree on disk
  inside,    \* threads with a process in the worktree
  cause,     \* why the body of the worktree ended, or the task
  cancels,   \* times the task was cancelled
  lock       \* who holds the repository's flock

vars == <<stage, maker, remover, tree, inside, cause, cancels, lock>>

\* What ends an execution.
Failures == {"GIT_UNAVAILABLE", "GIT_INVALID", "STORED_ROWS", "LIFETIME",
             "CODEX_FAILED", "CODEX_RESPONSE", "POLICY", "VALIDATION",
             "NOT_CURRENT", "TIMEOUT", "UNEXPECTED"}
Causes == {"NONE", "OK", "CANCELLED"} \cup Failures

At(e, s) == stage[e] = s
Goto(e, s) == stage' = [stage EXCEPT ![e] = s]
Because(e, c) == cause' = [cause EXCEPT ![e] = c]
End(e, c) == Goto(e, "ended") /\ Because(e, c)

disk == <<maker, remover, tree, inside, lock>>

---------------------------------------------------------------------------------
(* The threads.  They go on whether or not somebody awaits them. *)

\* flock(LOCK_EX) on the repository's lock file.
LockFree == lock = Nobody

FaultyUnlock == lock' = Nobody \/ UNCHANGED lock

\* flock(LOCK_UN), also when the Git command failed.
Unlock == lock' = Nobody

MakerLocks(e) ==
  /\ maker[e] = "waiting" /\ LockFree
  /\ maker' = [maker EXCEPT ![e] = "adding"]
  /\ lock' = e
  /\ UNCHANGED <<stage, remover, tree, inside, cause, cancels>>

\* The lock's directory or file cannot be made: an OSError, and no Git command.
MakerBreaks(e) ==
  /\ maker[e] = "waiting"
  /\ maker' = [maker EXCEPT ![e] = "broken"]
  /\ UNCHANGED <<stage, remover, tree, inside, cause, cancels, lock>>

\* git worktree add.  A run out of its 30 seconds is killed and may leave a part.
MakerEnds(e) ==
  /\ maker[e] = "adding"
  /\ \/ /\ maker' = [maker EXCEPT ![e] = "made"]
        /\ tree' = [tree EXCEPT ![e] = "present"]
     \/ /\ maker' = [maker EXCEPT ![e] = "invalid"]
        /\ UNCHANGED tree
     \/ /\ maker' = [maker EXCEPT ![e] = "unavailable"]
        /\ \E t \in {"none", "part"} : tree' = [tree EXCEPT ![e] = t]
  /\ Unlock
  /\ UNCHANGED <<stage, remover, inside, cause, cancels>>

RemoverLocks(e) ==
  /\ remover[e] = "waiting" /\ LockFree
  /\ remover' = [remover EXCEPT ![e] = "removing"]
  /\ lock' = e
  /\ UNCHANGED <<stage, maker, tree, inside, cause, cancels>>

\* git worktree remove --force.  A failure is logged and changes no outcome.
RemoverEnds(e) ==
  /\ remover[e] = "removing"
  /\ remover' = [remover EXCEPT ![e] = "over"]
  /\ \E t \in {"removed", "logged"} :
       tree' = [tree EXCEPT ![e] = IF @ = "present" THEN t ELSE @]
  /\ Unlock
  /\ UNCHANGED <<stage, maker, inside, cause, cancels>>

FaultyCollect(e) == FALSE /\ UNCHANGED vars

\* The task ended without __exit__: the manager's close runs the same removal.
Collect(e) ==
  /\ At(e, "ended") /\ maker[e] = "made" /\ remover[e] = "none"
  /\ remover' = [remover EXCEPT ![e] = "waiting"]
  /\ UNCHANGED <<stage, maker, tree, inside, cause, cancels, lock>>

\* A thread working in the worktree ends.
ThreadLeaves(e) ==
  \E t \in inside[e] :
    /\ ~(At(e, t))
    /\ inside' = [inside EXCEPT ![e] = @ \ {t}]
    /\ UNCHANGED <<stage, maker, remover, tree, cause, cancels, lock>>

---------------------------------------------------------------------------------
(* execute up to the worktree. *)

\* The rows are read; resolve_commit of the stored commit; the 24 hours.
Resolve(e) ==
  /\ At(e, "resolve")
  /\ \/ /\ Goto(e, "entering")
        /\ maker' = [maker EXCEPT ![e] = "waiting"]
        /\ UNCHANGED <<remover, tree, inside, lock, cause>>
     \/ /\ \E c \in {"STORED_ROWS", "GIT_UNAVAILABLE", "GIT_INVALID"} : End(e, c)
        /\ UNCHANGED disk
     \/ Type[e] = "ANALYZE" /\ End(e, "LIFETIME") /\ UNCHANGED disk
  /\ UNCHANGED cancels

MakerFailures ==
  [invalid |-> "GIT_INVALID", unavailable |-> "GIT_UNAVAILABLE", broken |-> "UNEXPECTED"]
MakerFailed(e) == maker[e] \in DOMAIN MakerFailures
MakerFailure(e) == MakerFailures[maker[e]]

\* The shielded thread is done.
Entered(e) ==
  /\ At(e, "entering")
  /\ \/ maker[e] = "made" /\ Goto(e, "agent") /\ UNCHANGED cause
     \/ MakerFailed(e) /\ End(e, MakerFailure(e))
  /\ UNCHANGED <<disk, cancels>>

\* Cancelled meanwhile: the thread is awaited and its worktree given back; if it
\* failed, its error takes the place of the cancellation.
EnteredCancelled(e) ==
  /\ At(e, "enterCancelled")
  /\ \/ /\ maker[e] = "made"
        /\ Goto(e, "undo")
        /\ remover' = [remover EXCEPT ![e] = "waiting"]
        /\ UNCHANGED <<maker, tree, inside, lock, cause>>
     \/ MakerFailed(e) /\ End(e, MakerFailure(e)) /\ UNCHANGED disk
  /\ UNCHANGED cancels

Undone(e) ==
  /\ At(e, "undo") /\ remover[e] = "over"
  /\ End(e, "CANCELLED")
  /\ UNCHANGED <<disk, cancels>>

---------------------------------------------------------------------------------
(* Inside the worktree. *)

\* The body ends: __exit__ is handed to a thread and awaited behind a shield.
Exit(e, c) ==
  /\ Goto(e, "exiting")
  /\ Because(e, c)
  /\ remover' = [remover EXCEPT ![e] = "waiting"]
  /\ UNCHANGED <<maker, tree, lock, cancels>>

\* A thread starts in the worktree and is awaited.
Await(e, t) ==
  /\ Goto(e, t)
  /\ inside' = [inside EXCEPT ![e] = @ \cup {t}]
  /\ UNCHANGED <<maker, remover, tree, lock, cause, cancels>>

\* What gateway.analyze may raise: the app server or the turn fails, the answer is
\* not the schema's, it is too long, or something else.
AnalyzeFailures == {"CODEX_FAILED", "CODEX_RESPONSE", "POLICY", "UNEXPECTED"}

\* And gateway.patch, whose answer is not looked at; the fake one refuses by policy.
PatchFailures == {"CODEX_FAILED", "POLICY", "UNEXPECTED"}

\* The agent comes to an end, in its own time or by asyncio.timeout.  A patch whose
\* analysis has no result does not get that far.
AgentEnds(e) ==
  /\ At(e, "agent")
  /\ \/ Await(e, "inspect")
     \/ /\ \/ Exit(e, "TIMEOUT")
           \/ Type[e] = "ANALYZE" /\ \E c \in AnalyzeFailures : Exit(e, c)
           \/ Type[e] = "PATCH" /\ \E c \in PatchFailures \cup {"STORED_ROWS"} : Exit(e, c)
        /\ UNCHANGED inside

FaultyReturns(e, t, c) == At(e, t) /\ Exit(e, c) /\ UNCHANGED inside

\* The awaited thread of stage t ends, with the given outcome.
Returns(e, t, c) == At(e, t) /\ Exit(e, c) /\ inside' = [inside EXCEPT ![e] = @ \ {t}]

\* assert_clean and the judgement of the analysis, or check_diff.
Inspected(e) ==
  \/ \E c \in {"GIT_UNAVAILABLE", "GIT_INVALID", "POLICY"} : Returns(e, "inspect", c)
  \/ Type[e] = "ANALYZE" /\ \E c \in {"OK", "CODEX_RESPONSE"} : Returns(e, "inspect", c)
  \/ Type[e] = "PATCH" /\ Returns(e, "inspect", "UNEXPECTED")
  \/ /\ Type[e] = "PATCH" /\ At(e, "inspect")
     /\ Goto(e, "mark")
     /\ inside' = [inside EXCEPT ![e] = @ \ {"inspect"}]
     /\ UNCHANGED <<maker, remover, tree, lock, cause, cancels>>

\* mark_validating, which works on rows only.
Marked(e) ==
  /\ At(e, "mark")
  /\ \/ Await(e, "validate")
     \/ /\ \E c \in {"NOT_CURRENT", "UNEXPECTED"} : Exit(e, c)
        /\ UNCHANGED inside

\* run_validation: the commands pass or one fails, one is not registered, or the
\* sandbox is missing, which has the code of a failed agent.
Validated(e) ==
  \E c \in {"OK", "VALIDATION", "POLICY", "CODEX_FAILED", "UNEXPECTED"} :
    Returns(e, "validate", c)

\* asyncio.timeout of the patch: the await ends, its thread does not.
PatchTimesOut(e) ==
  /\ Type[e] = "PATCH"
  /\ stage[e] \in {"inspect", "mark", "validate"}
  /\ Exit(e, "TIMEOUT")
  /\ UNCHANGED inside

Exited(e) ==
  /\ At(e, "exiting") /\ remover[e] = "over"
  /\ Goto(e, "ended")
  /\ UNCHANGED <<disk, cause, cancels>>

FaultyExitedCancelled(e) ==
  /\ At(e, "exitCancelled")
  /\ End(e, "CANCELLED")
  /\ UNCHANGED <<disk, cancels>>

\* Cancelled during the removal: it is awaited all the same, then the
\* cancellation takes the place of whatever the body had come to.
ExitedCancelled(e) ==
  /\ At(e, "exitCancelled") /\ remover[e] = "over"
  /\ End(e, "CANCELLED")
  /\ UNCHANGED <<disk, cancels>>

---------------------------------------------------------------------------------
(* task.cancel(), by keep_lease or by the cancelled run_one. *)

Cancelled(e) ==
  /\ cancels[e] < MaxCancels
  /\ cancels' = [cancels EXCEPT ![e] = @ + 1]
  /\ \/ At(e, "resolve") /\ End(e, "CANCELLED") /\ UNCHANGED disk
     \/ At(e, "entering") /\ Goto(e, "enterCancelled") /\ UNCHANGED <<disk, cause>>
     \/ At(e, "exiting") /\ Goto(e, "exitCancelled") /\ UNCHANGED <<disk, cause>>
     \/ \* The second one: the await is given up.  A thread not yet started is dropped.
        /\ stage[e] \in {"enterCancelled", "undo", "exitCancelled"}
        /\ End(e, "CANCELLED")
        /\ \/ UNCHANGED maker
           \/ maker[e] = "waiting" /\ maker' = [maker EXCEPT ![e] = "dropped"]
        /\ UNCHANGED <<remover, tree, inside, lock>>
     \/ /\ stage[e] \in {"agent", "inspect", "mark", "validate"}
        /\ Goto(e, "exiting")
        /\ Because(e, "CANCELLED")
        /\ remover' = [remover EXCEPT ![e] = "waiting"]
        /\ UNCHANGED <<maker, tree, inside, lock>>

Init ==
  /\ stage = [e \in Exec |-> "resolve"]
  /\ maker = [e \in Exec |-> "none"]
  /\ remover = [e \in Exec |-> "none"]
  /\ tree = [e \in Exec |-> "none"]
  /\ inside = [e \in Exec |-> {}]
  /\ cause = [e \in Exec |-> "NONE"]
  /\ cancels = [e \in Exec |-> 0]
  /\ lock = Nobody

Task(e) ==
  \/ Resolve(e) \/ Entered(e) \/ EnteredCancelled(e) \/ Undone(e)
  \/ AgentEnds(e) \/ Inspected(e) \/ Marked(e) \/ Validated(e) \/ PatchTimesOut(e)
  \/ Exited(e) \/ ExitedCancelled(e)

Locks(e) == MakerLocks(e) \/ RemoverLocks(e)
Threads(e) == MakerEnds(e) \/ RemoverEnds(e) \/ Collect(e) \/ ThreadLeaves(e)

Next == \E e \in Exec : Task(e) \/ Locks(e) \/ Threads(e) \/ MakerBreaks(e) \/ Cancelled(e)

Spec == Init /\ [][Next]_vars

\* Every Git command ends by itself or after 30 seconds, every await of the body
\* by its own timeout; the kernel does not starve a waiter on the lock file.
FairSpec ==
  Spec /\ \A e \in Exec : WF_vars(Task(e)) /\ WF_vars(Threads(e)) /\ SF_vars(Locks(e))

---------------------------------------------------------------------------------
(* Properties. *)

\* docs/implementation-plan.md:316: the worktree is gone (or its failed removal is
\* logged) before the outcome is reported, also when a lost lease or a shutdown
\* cancels the task while the worktree is being made or removed.
RemovedBeforeOutcome ==
  \A e \in Exec : At(e, "ended") /\ cancels[e] <= 1 => tree[e] # "present"

\* Cancelled by both, the task may end first, but no worktree stays for ever.
WorktreesGiveWay == \A e \in Exec : At(e, "ended") ~> tree[e] # "present"

\* Every execution ends, whatever its threads and the other executions do.
ExecutionEnds == \A e \in Exec : <>At(e, "ended")

\* docs/implementation-contracts.md:322: a worktree is removed when nobody works in
\* it any more.  Only the thread of an await that a timeout or a cancellation gave
\* up may still be there (threads of the worker: what a validation's command left
\* behind itself, ValidationRun's children, is not among them).
OnlyAbandonedInside ==
  \A e \in Exec :
    tree[e] = "removed" /\ inside[e] # {} => cause[e] \in {"TIMEOUT", "CANCELLED"}
================================================================================
