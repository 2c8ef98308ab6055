----------------------------- MODULE ExecutionProofs -----------------------------
(***************************************************************************)
(* Proofs about Execution, for any number of executions and cancellations: *)
(* no outcome is told of a task cancelled at most once while its worktree  *)
(* is still there, and only the thread of an await that was given up finds *)
(* its worktree removed under it.                                          *)
(*                                                                         *)
(* Neither property is inductive.  What is: at every await of execute, how *)
(* far the two threads of the worktree have come and how often the task    *)
(* was cancelled.                                                          *)
(***************************************************************************)
EXTENDS Execution, TLAPS

Body == {"agent", "inspect", "mark", "validate"}
Leaving == {"undo", "exiting", "exitCancelled"}
Stage == {"resolve", "entering", "enterCancelled", "ended"} \cup Body \cup Leaving
Thread == {"inspect", "validate"}
Maker == {"none", "waiting", "adding", "made", "invalid", "unavailable", "broken", "dropped"}
Remover == {"none", "waiting", "removing", "over"}
Tree == {"none", "part", "present", "removed", "logged"}

TypeOK ==
  /\ stage \in [Exec -> Stage]
  /\ maker \in [Exec -> Maker]
  /\ remover \in [Exec -> Remover]
  /\ tree \in [Exec -> Tree]
  /\ inside \in [Exec -> SUBSET Thread]
  /\ cause \in [Exec -> Causes]
  /\ cancels \in [Exec -> Nat]

\* The worktree is made before it is removed, and is there in between.
TreeSound(e) ==
  /\ remover[e] # "none" => maker[e] = "made"
  /\ tree[e] = "present" => maker[e] = "made" /\ remover[e] # "over"
  /\ tree[e] = "removed" => remover[e] = "over"

\* How far the threads are at each await.
StageSound(e) ==
  /\ stage[e] = "resolve" => maker[e] = "none"
  /\ stage[e] \in Body \cup Leaving => maker[e] = "made"
  /\ stage[e] \in Leaving => remover[e] # "none"
  /\ remover[e] # "none" => stage[e] \in Leaving \cup {"ended"}
  /\ stage[e] \in {"enterCancelled", "undo", "exitCancelled"} => cancels[e] >= 1

\* A task cancelled at most once ends with its threads done.
EndedClean(e) ==
  stage[e] = "ended" /\ cancels[e] <= 1 =>
    /\ maker[e] \notin {"waiting", "adding"}
    /\ maker[e] = "made" => remover[e] = "over"

\* In the worktree is the thread that is awaited; after it, only the thread of
\* an await given up.
InsideSound(e) ==
  /\ remover[e] = "none" => inside[e] \subseteq {stage[e]}
  /\ remover[e] # "none" /\ inside[e] # {} => cause[e] \in {"TIMEOUT", "CANCELLED"}

Sound(e) == TreeSound(e) /\ StageSound(e) /\ EndedClean(e) /\ InsideSound(e)

IInv == TypeOK /\ \A e \in Exec : Sound(e)

--------------------------------------------------------------------------------
(* What a step leaves alone *)

\* All that Execution knows of f, but for the lock.
RowKept(f) ==
  /\ stage'[f] = stage[f] /\ maker'[f] = maker[f] /\ remover'[f] = remover[f]
  /\ tree'[f] = tree[f] /\ inside'[f] = inside[f]
  /\ cause'[f] = cause[f] /\ cancels'[f] = cancels[f]

\* An execution nothing happened to is as sound as before.
LEMMA RowKeptSound ==
  ASSUME NEW f \in Exec, Sound(f), RowKept(f)
  PROVE  Sound(f)'
BY DEF Sound, RowKept, TreeSound, StageSound, EndedClean, InsideSound

\* A thread of an execution does not touch the others.
LEMMA ThreadsLocal ==
  ASSUME TypeOK, NEW e \in Exec, Locks(e) \/ Threads(e) \/ MakerBreaks(e)
  PROVE  TypeOK' /\ \A f \in Exec \ {e} : RowKept(f)
<1>1. CASE MakerLocks(e)
  BY <1>1 DEF MakerLocks, TypeOK, RowKept, Maker
<1>2. CASE RemoverLocks(e)
  BY <1>2 DEF RemoverLocks, TypeOK, RowKept, Remover
<1>3. CASE MakerEnds(e)
  BY <1>3 DEF MakerEnds, TypeOK, RowKept, Maker, Tree
<1>4. CASE RemoverEnds(e)
  BY <1>4 DEF RemoverEnds, TypeOK, RowKept, Remover, Tree
<1>5. CASE Collect(e)
  BY <1>5 DEF Collect, TypeOK, RowKept, Remover
<1>6. CASE ThreadLeaves(e)
  BY <1>6 DEF ThreadLeaves, TypeOK, RowKept
<1>7. CASE MakerBreaks(e)
  BY <1>7 DEF MakerBreaks, TypeOK, RowKept, Maker
<1> QED BY <1>1, <1>2, <1>3, <1>4, <1>5, <1>6, <1>7 DEF Locks, Threads

\* The ways a body stage hands over to the next or to __exit__.
LEMMA BodyLocal ==
  ASSUME TypeOK, NEW e \in Exec, NEW t \in Thread,
         \/ Await(e, t)
         \/ \E c \in Causes : Exit(e, c) /\ UNCHANGED inside
         \/ \E c \in Causes : Returns(e, t, c)
  PROVE  TypeOK' /\ \A f \in Exec \ {e} : RowKept(f)
<1>1. CASE Await(e, t)
  BY <1>1 DEF Await, Goto, TypeOK, RowKept, Stage, Body, Thread
<1>2. ASSUME NEW c \in Causes, Exit(e, c),
             inside' = inside \/ inside' = [inside EXCEPT ![e] = @ \ {t}]
      PROVE  TypeOK' /\ \A f \in Exec \ {e} : RowKept(f)
  BY <1>2 DEF Exit, Goto, Because, TypeOK, RowKept, Stage, Leaving, Remover
<1> QED BY <1>1, <1>2 DEF Returns

\* Nor does its task.
LEMMA TaskLocal ==
  ASSUME TypeOK, NEW e \in Exec, Task(e) \/ Cancelled(e)
  PROVE  TypeOK' /\ \A f \in Exec \ {e} : RowKept(f)
<1>1. CASE Resolve(e)
  BY <1>1 DEF Resolve, End, Goto, Because, disk, TypeOK, RowKept, Stage, Maker, Causes, Failures
<1>2. CASE Entered(e)
  BY <1>2 DEF Entered, MakerFailure, MakerFailures, MakerFailed, End, Goto, Because, disk, TypeOK, RowKept, Stage, Body, Causes, Failures
<1>3. CASE EnteredCancelled(e)
  BY <1>3 DEF EnteredCancelled, MakerFailure, MakerFailures, MakerFailed, End, Goto, Because, disk, TypeOK, RowKept, Stage,
              Leaving, Remover, Causes, Failures
<1>4. CASE Undone(e) \/ Exited(e) \/ ExitedCancelled(e)
  BY <1>4 DEF Undone, Exited, ExitedCancelled, End, Goto, Because, disk, TypeOK, RowKept, Stage, Causes
<1>5. CASE AgentEnds(e)
  BY <1>5, BodyLocal DEF AgentEnds, AnalyzeFailures, PatchFailures, Thread, Causes, Failures
<1>6. CASE Inspected(e)
  <2>1. CASE \E c \in Causes : Returns(e, "inspect", c)
    BY <2>1, BodyLocal DEF Thread
  <2>2. CASE /\ Goto(e, "mark")
             /\ inside' = [inside EXCEPT ![e] = @ \ {"inspect"}]
             /\ UNCHANGED <<maker, remover, tree, lock, cause, cancels>>
    BY <2>2 DEF Goto, TypeOK, RowKept, Stage, Body
  <2> QED BY <1>6, <2>1, <2>2 DEF Inspected, Causes, Failures
<1>7. CASE Marked(e)
  BY <1>7, BodyLocal DEF Marked, Thread, Causes, Failures
<1>8. CASE Validated(e)
  BY <1>8, BodyLocal DEF Validated, Thread, Causes, Failures
<1>9. CASE PatchTimesOut(e)
  BY <1>9, BodyLocal DEF PatchTimesOut, Thread, Causes, Failures
<1>10. CASE Cancelled(e)
  BY <1>10 DEF Cancelled, End, Goto, Because, disk, TypeOK, RowKept, Stage, Leaving, Maker, Remover, Causes
<1> QED BY <1>1, <1>2, <1>3, <1>4, <1>5, <1>6, <1>7, <1>8, <1>9, <1>10 DEF Task

--------------------------------------------------------------------------------
(* What a step does to its own execution *)

\* Making and removing the worktree, whoever still waits for it.
LEMMA ThreadsSound ==
  ASSUME TypeOK, NEW e \in Exec, Sound(e), Locks(e) \/ Threads(e) \/ MakerBreaks(e)
  PROVE  Sound(e)'
<1> USE DEF Sound, TreeSound, StageSound, EndedClean, InsideSound
<1>1. CASE MakerLocks(e)
  BY <1>1 DEF MakerLocks, TypeOK, Body, Leaving
<1>2. CASE RemoverLocks(e)
  BY <1>2 DEF RemoverLocks, TypeOK, Body, Leaving
<1>3. CASE MakerEnds(e)
  BY <1>3 DEF MakerEnds, TypeOK, Body, Leaving
<1>4. CASE RemoverEnds(e)
  BY <1>4 DEF RemoverEnds, TypeOK, Body, Leaving
<1>5. CASE Collect(e)
  BY <1>5 DEF Collect, At, TypeOK, Body, Leaving, Thread
<1>6. CASE ThreadLeaves(e)
  <2>1. inside'[e] \subseteq inside[e]
    BY <1>6 DEF ThreadLeaves, TypeOK
  <2>2. /\ UNCHANGED <<stage, maker, remover, tree, cause, cancels>>
    BY <1>6 DEF ThreadLeaves
  <2> QED BY <2>1, <2>2
<1>7. CASE MakerBreaks(e)
  BY <1>7 DEF MakerBreaks, TypeOK, Body, Leaving
<1> QED BY <1>1, <1>2, <1>3, <1>4, <1>5, <1>6, <1>7 DEF Locks, Threads

\* The body ends: its thread is done, or was given up by the timeout or the
\* cancellation that is the cause.
LEMMA ExitSound ==
  ASSUME TypeOK, NEW e \in Exec, Sound(e), stage[e] \in Body,
         NEW c, Exit(e, c),
         inside'[e] = {} \/ (inside'[e] = inside[e] /\ c \in {"TIMEOUT", "CANCELLED"})
  PROVE  Sound(e)'
<1>1. /\ stage'[e] = "exiting" /\ cause'[e] = c /\ remover'[e] = "waiting"
      /\ maker'[e] = maker[e] /\ tree'[e] = tree[e] /\ cancels'[e] = cancels[e]
      /\ maker[e] = "made" /\ remover[e] = "none"
  BY DEF Exit, Goto, Because, TypeOK, Sound, StageSound, Body, Leaving
<1> QED BY <1>1 DEF Sound, TreeSound, StageSound, EndedClean, InsideSound, Body, Leaving

\* The body goes on to its next await, with the thread of that await.
LEMMA NextAwaitSound ==
  ASSUME TypeOK, NEW e \in Exec, Sound(e), stage[e] \in Body,
         NEW t \in Body, Goto(e, t), inside'[e] \subseteq {t},
         UNCHANGED <<maker, remover, tree, cause, cancels>>
  PROVE  Sound(e)'
<1>1. stage'[e] = t /\ maker[e] = "made" /\ remover[e] = "none"
  BY DEF Goto, TypeOK, Sound, StageSound, Body, Leaving
<1> QED BY <1>1 DEF Sound, TreeSound, StageSound, EndedClean, InsideSound, Body, Leaving

\* The task inside the worktree.
LEMMA BodySound ==
  ASSUME TypeOK, NEW e \in Exec, Sound(e),
         AgentEnds(e) \/ Inspected(e) \/ Marked(e) \/ Validated(e) \/ PatchTimesOut(e)
  PROVE  Sound(e)'
<1>1. stage[e] \in Body /\ inside[e] \subseteq {stage[e]} /\ inside[e] \subseteq Thread
  BY DEF AgentEnds, Inspected, Marked, Validated, PatchTimesOut, Returns, At, TypeOK, Sound,
         StageSound, InsideSound, Body, Leaving
<1>2. ASSUME NEW t \in Thread, Await(e, t), inside[e] = {} PROVE Sound(e)'
  <2>1. inside'[e] = {t}
    BY <1>2 DEF Await, TypeOK
  <2> QED BY <1>1, <1>2, <2>1, NextAwaitSound DEF Await, Thread, Body
<1>3. ASSUME NEW t, NEW c, Returns(e, t, c) PROVE Sound(e)'
  <2>1. inside'[e] = {}
    BY <1>1, <1>3 DEF Returns, At, TypeOK
  <2> QED BY <1>1, <1>3, <2>1, ExitSound DEF Returns
<1>4. ASSUME NEW c, Exit(e, c), UNCHANGED inside, inside[e] = {} \/ c = "TIMEOUT" PROVE Sound(e)'
  BY <1>1, <1>4, ExitSound
<1>5. CASE AgentEnds(e)
  <2>1. inside[e] = {}
    BY <1>1, <1>5 DEF AgentEnds, At, Thread
  <2> QED BY <1>2, <1>4, <1>5, <2>1 DEF AgentEnds, Thread
<1>6. CASE Inspected(e)
  <2>1. ASSUME At(e, "inspect"), Goto(e, "mark"),
               inside' = [inside EXCEPT ![e] = @ \ {"inspect"}],
               UNCHANGED <<maker, remover, tree, lock, cause, cancels>>
        PROVE  Sound(e)'
    <3>1. inside'[e] = {}
      BY <1>1, <2>1 DEF At, TypeOK
    <3> QED BY <1>1, <2>1, <3>1, NextAwaitSound DEF Body
  <2> QED BY <1>3, <1>6, <2>1 DEF Inspected
<1>7. CASE Marked(e)
  <2>1. inside[e] = {}
    BY <1>1, <1>7 DEF Marked, At, Thread
  <2> QED BY <1>2, <1>4, <1>7, <2>1 DEF Marked, Thread
<1>8. CASE Validated(e)
  BY <1>3, <1>8 DEF Validated
<1>9. CASE PatchTimesOut(e)
  BY <1>4, <1>9 DEF PatchTimesOut
<1> QED BY <1>5, <1>6, <1>7, <1>8, <1>9

\* The task before and after the body, and its cancellations.
LEMMA TaskSound ==
  ASSUME TypeOK, NEW e \in Exec, Sound(e), Task(e) \/ Cancelled(e)
  PROVE  Sound(e)'
<1> USE DEF Sound, TreeSound, StageSound, EndedClean, InsideSound
<1>1. CASE Resolve(e)
  BY <1>1 DEF Resolve, End, At, Goto, Because, disk, TypeOK, Body, Leaving, Thread
<1>2. CASE Entered(e)
  BY <1>2 DEF Entered, MakerFailed, MakerFailures, End, At, Goto, Because, disk, TypeOK, Body, Leaving, Thread
<1>3. CASE EnteredCancelled(e)
  BY <1>3 DEF EnteredCancelled, MakerFailed, MakerFailures, End, At, Goto, Because, disk, TypeOK, Body, Leaving, Thread
<1>4. CASE Undone(e) \/ Exited(e) \/ ExitedCancelled(e)
  BY <1>4 DEF Undone, Exited, ExitedCancelled, End, At, Goto, Because, disk, TypeOK, Body, Leaving
<1>5. CASE AgentEnds(e) \/ Inspected(e) \/ Marked(e) \/ Validated(e) \/ PatchTimesOut(e)
  BY <1>5, BodySound
<1>6. CASE Cancelled(e)
  <2>1. cancels'[e] = cancels[e] + 1 /\ cancels[e] \in Nat
    BY <1>6 DEF Cancelled, TypeOK
  <2>2. CASE At(e, "resolve") /\ End(e, "CANCELLED") /\ UNCHANGED disk
    BY <2>1, <2>2 DEF End, At, Goto, Because, disk, TypeOK, Body, Leaving, Thread
  <2>3. CASE At(e, "entering") /\ Goto(e, "enterCancelled") /\ UNCHANGED <<disk, cause>>
    BY <2>1, <2>3 DEF At, Goto, disk, TypeOK, Body, Leaving, Thread
  <2>4. CASE At(e, "exiting") /\ Goto(e, "exitCancelled") /\ UNCHANGED <<disk, cause>>
    BY <2>1, <2>4 DEF At, Goto, disk, TypeOK, Body, Leaving
  <2>5. CASE /\ stage[e] \in {"enterCancelled", "undo", "exitCancelled"}
             /\ End(e, "CANCELLED")
             /\ \/ UNCHANGED maker
                \/ maker[e] = "waiting" /\ maker' = [maker EXCEPT ![e] = "dropped"]
             /\ UNCHANGED <<remover, tree, inside, lock>>
    BY <2>1, <2>5 DEF End, Goto, Because, TypeOK, Body, Leaving, Thread
  <2>6. CASE /\ stage[e] \in Body
             /\ Goto(e, "exiting")
             /\ Because(e, "CANCELLED")
             /\ remover' = [remover EXCEPT ![e] = "waiting"]
             /\ UNCHANGED <<maker, tree, inside, lock>>
    BY <2>1, <2>6 DEF Goto, Because, TypeOK, Body, Leaving
  <2> QED BY <1>6, <2>2, <2>3, <2>4, <2>5, <2>6 DEF Cancelled, Body
<1> QED BY <1>1, <1>2, <1>3, <1>4, <1>5, <1>6 DEF Task

--------------------------------------------------------------------------------
(* The theorems *)

\* The inductive invariant: every execution is sound, whatever the others and
\* the threads left behind do.
THEOREM ExecutionInvariant == Spec => []IInv
<1>1. Init => IInv
  BY DEF Init, IInv, TypeOK, Stage, Maker, Remover, Tree, Causes, Sound, TreeSound, StageSound,
         EndedClean, InsideSound, Body, Leaving
<1>2. IInv /\ [Next]_vars => IInv'
  <2> SUFFICES ASSUME IInv, [Next]_vars PROVE IInv'
    OBVIOUS
  <2>1. ASSUME NEW e \in Exec, Task(e) \/ Locks(e) \/ Threads(e) \/ MakerBreaks(e) \/ Cancelled(e)
        PROVE IInv'
    <3>1. TypeOK /\ Sound(e)
      BY DEF IInv
    <3>2. TypeOK' /\ \A f \in Exec \ {e} : RowKept(f)
      BY <2>1, <3>1, ThreadsLocal, TaskLocal
    <3>3. Sound(e)'
      BY <2>1, <3>1, ThreadsSound, TaskSound
    <3>4. \A f \in Exec \ {e} : Sound(f)'
      BY <3>2, RowKeptSound DEF IInv
    <3> QED BY <3>2, <3>3, <3>4 DEF IInv
  <2>2. CASE UNCHANGED vars
    <3>1. TypeOK' /\ \A f \in Exec : RowKept(f)
      BY <2>2 DEF vars, IInv, TypeOK, RowKept
    <3> QED BY <3>1, RowKeptSound DEF IInv
  <2> QED BY <2>1, <2>2 DEF Next
<1> QED BY <1>1, <1>2, PTL DEF Spec

\* A task cancelled at most once, at whichever await, gives its outcome only when
\* its worktree is gone or its failed removal is logged.
THEOREM AlwaysRemovedBeforeOutcome == Spec => []RemovedBeforeOutcome
<1>1. IInv => RemovedBeforeOutcome
  BY DEF IInv, Sound, TreeSound, EndedClean, RemovedBeforeOutcome, At
<1> QED BY <1>1, ExecutionInvariant, PTL

\* A worktree removed while a thread works in it is that of an execution that a
\* timeout or a cancellation ended: no result is read from under a removal.
THEOREM OnlyAbandonedStayInside == Spec => []OnlyAbandonedInside
<1>1. IInv => OnlyAbandonedInside
  BY DEF IInv, Sound, TreeSound, InsideSound, OnlyAbandonedInside
<1> QED BY <1>1, ExecutionInvariant, PTL
================================================================================
