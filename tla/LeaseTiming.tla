------------------------------ MODULE LeaseTiming ------------------------------
(***************************************************************************)
(* keep_lease (aeh/worker.py) in time: the distances between heartbeats    *)
(* against the lease that recover_expired measures on the row.             *)
(*                                                                         *)
(* The executions of one worker process share its thread pool: heartbeats  *)
(* and validations wait in one queue for a thread (asyncio.to_thread).     *)
(* Other processes recover expired jobs, by their own host's clock: Skew   *)
(* is how far it is ahead of this process' clock.                          *)
(*                                                                         *)
(* The event loop is assumed to be prompt: what is due happens before the  *)
(* clock goes on.  The database may be down for a while; a transaction     *)
(* ends, well or badly, within MaxAttempt ticks.                           *)
(***************************************************************************)
EXTENDS Integers, Sequences, FiniteSets, SequencesExt

CONSTANTS
  Job,            \* jobs executed by the process, one per loop
  Lease,          \* Limits.lease_seconds
  Beat,           \* Limits.heartbeat_seconds
  Retry,          \* the delay after a failed heartbeat
  MaxAttempt,     \* the longest a heartbeat transaction takes
  Outage,         \* how long the database may be down: its longest outage is one of them
  MaxOutages,     \* bound on the number of times it goes down
  Skew,           \* clock of the recovering host minus clock of this one
  Threads,        \* size of the default executor
  MaxValidation   \* the longest a validation occupies its thread

ASSUME JobAssumption == IsFiniteSet(Job)
ASSUME DistanceAssumption ==
  /\ Lease \in Nat /\ Beat \in 1..Lease /\ Retry \in 1..Beat
  /\ MaxAttempt \in Nat /\ Outage \subseteq Nat /\ MaxOutages \in Nat
  /\ Skew \in Int
ASSUME PoolAssumption == Threads \in Nat \ {0} /\ MaxValidation \in Nat

VARIABLES
  row,       \* "RUNNING" under this execution's token, or "TAKEN" by a recovery
  age,       \* ticks since locked_at was last stamped by this execution
  running,   \* the execution task is not done
  keeper,    \* keep_lease: "sleeping", "queued", "beating" or "over"
  sleep,     \* ticks left to sleep
  attempt,   \* ticks since the heartbeat under way was stamped
  left,      \* ticks to the deadline
  work,      \* "agent", "queued" or "thread": where the execution is; "over"
  held,      \* ticks the validation has had its thread
  queue,     \* work items waiting for a thread
  outage,    \* ticks the database has been down, 0 while it is up
  outages,   \* times it went down
  longest    \* the longest it is down in this behaviour

vars == <<row, age, running, keeper, sleep, attempt, left, work, held, queue,
          outage, outages, longest>>

\* How long a heartbeat may wait for a thread: not at all where every heartbeat and
\* every validation has one, otherwise for the heartbeats of the other executions,
\* one after the other.
Wait == IF Threads >= 2 * Cardinality(Job) THEN 0 ELSE (Cardinality(Job) - 1) * MaxAttempt

\* Ages are only told apart up to here.
MaxAge == Lease + Beat + Retry + 3 * MaxAttempt + 2 * Wait + 1

Least(m, n) == IF m < n THEN m ELSE n

Up == outage = 0
InUse == Cardinality({j \in Job : keeper[j] = "beating"})
           + Cardinality({j \in Job : work[j] = "thread"})

Set(f, j, v) == [f EXCEPT ![j] = v]

---------------------------------------------------------------------------------
(* keep_lease. *)

\* The sleep is over: a heartbeat is handed to the pool, if the task goes on.
Wake(j) ==
  /\ keeper[j] = "sleeping" /\ sleep[j] = 0
  /\ \/ /\ running[j]
        /\ keeper' = Set(keeper, j, "queued")
        /\ queue' = Append(queue, <<j, "beat">>)
     \/ /\ ~running[j]
        /\ keeper' = Set(keeper, j, "over")
        /\ UNCHANGED queue
  /\ UNCHANGED <<row, age, running, sleep, attempt, left, work, held, outage, outages, longest>>

SleepFor(j, ticks) ==
  /\ keeper' = Set(keeper, j, "sleeping")
  /\ sleep' = Set(sleep, j, ticks)

\* task.cancel() and the end of keep_lease.  A validation's thread goes on.
GiveUp(j) ==
  /\ running' = Set(running, j, FALSE)
  /\ keeper' = Set(keeper, j, "over")
  /\ UNCHANGED <<sleep, left>>

\* The row is still this token's, and the lease had not run out at the stamp.
Renewable(j) == row[j] = "RUNNING" /\ age[j] - attempt[j] < Lease

FaultyBeaten(j) ==
  /\ keeper[j] = "beating" /\ Up
  /\ Renewable(j)
  /\ age' = Set(age, j, attempt[j])
  /\ left' = Set(left, j, Lease)
  /\ keeper' = Set(keeper, j, "sleeping")
  /\ sleep' = Set(sleep, j, Beat + 2 * (MaxAttempt + 1))
  /\ UNCHANGED <<row, running, attempt, work, held, queue, outage, outages, longest>>

\* The heartbeat succeeded: locked_at is the time at which it was stamped, the
\* deadline counts from its return.
Beaten(j) ==
  /\ keeper[j] = "beating" /\ Up
  /\ Renewable(j)
  /\ age' = Set(age, j, attempt[j])
  /\ left' = Set(left, j, Lease)
  /\ SleepFor(j, Beat)
  /\ UNCHANGED <<row, running, attempt, work, held, queue, outage, outages, longest>>

\* No row was updated.
Refused(j) ==
  /\ keeper[j] = "beating" /\ Up
  /\ ~Renewable(j)
  /\ GiveUp(j)
  /\ UNCHANGED <<row, age, attempt, work, held, queue, outage, outages, longest>>

FaultyBackingOff(j) ==   \* as long again as since the last good heartbeat
  /\ keeper[j] = "beating" /\ ~Up
  /\ \/ left[j] > 0 /\ SleepFor(j, Lease - left[j]) /\ UNCHANGED <<running, left>>
     \/ left[j] = 0 /\ GiveUp(j)
  /\ UNCHANGED <<row, age, attempt, work, held, queue, outage, outages, longest>>

FaultyNewDeadline(j) ==
  /\ keeper[j] = "beating" /\ ~Up
  /\ \/ left[j] > 0 /\ SleepFor(j, Retry) /\ left' = Set(left, j, Lease) /\ UNCHANGED running
     \/ left[j] = 0 /\ GiveUp(j)
  /\ UNCHANGED <<row, age, attempt, work, held, queue, outage, outages, longest>>

\* SQLAlchemyError: again after Retry before the deadline, otherwise given up.
\* The deadline is looked at only here.
Failed(j) ==
  /\ keeper[j] = "beating" /\ ~Up
  /\ \/ left[j] > 0 /\ SleepFor(j, Retry) /\ UNCHANGED <<running, left>>
     \/ left[j] = 0 /\ GiveUp(j)
  /\ UNCHANGED <<row, age, attempt, work, held, queue, outage, outages, longest>>

---------------------------------------------------------------------------------
(* The execution and the pool. *)

\* run_validation is handed to the pool.
Validate(j) ==
  /\ running[j] /\ work[j] = "agent"
  /\ work' = Set(work, j, "queued")
  /\ queue' = Append(queue, <<j, "work">>)
  /\ UNCHANGED <<row, age, running, keeper, sleep, attempt, left, held, outage, outages, longest>>

\* The task is done without a validation.
Finish(j) ==
  /\ running[j] /\ work[j] = "agent"
  /\ running' = Set(running, j, FALSE)
  /\ UNCHANGED <<row, age, keeper, sleep, attempt, left, work, held, queue, outage, outages, longest>>

\* A free thread takes the first item; items whose await was cancelled are dropped.
Start ==
  /\ queue # <<>> /\ InUse < Threads
  /\ LET j == Head(queue)[1]
         kind == Head(queue)[2] IN
       \/ /\ kind = "beat" /\ running[j]
          /\ keeper' = Set(keeper, j, "beating")
          /\ attempt' = Set(attempt, j, 0)
          /\ UNCHANGED <<work, held>>
       \/ /\ kind = "beat" /\ ~running[j]
          /\ keeper' = Set(keeper, j, "over")
          /\ UNCHANGED <<attempt, work, held>>
       \/ /\ kind = "work"
          /\ work' = Set(work, j, IF running[j] THEN "thread" ELSE "over")
          /\ held' = Set(held, j, 0)
          /\ UNCHANGED <<keeper, attempt>>
  /\ queue' = Tail(queue)
  /\ UNCHANGED <<row, age, running, sleep, left, outage, outages, longest>>

\* The validation ends, and the task with it.
EndValidation(j) ==
  /\ work[j] = "thread"
  /\ work' = Set(work, j, "over")
  /\ running' = Set(running, j, FALSE)
  /\ UNCHANGED <<row, age, keeper, sleep, attempt, left, held, queue, outage, outages, longest>>

---------------------------------------------------------------------------------
(* The others. *)

\* recover_expired in another process, by that host's now().
Recover(j) ==
  /\ Up
  /\ row[j] = "RUNNING"
  /\ age[j] + Skew >= Lease
  /\ row' = Set(row, j, "TAKEN")
  /\ UNCHANGED <<age, running, keeper, sleep, attempt, left, work, held, queue, outage, outages, longest>>

GoDown ==
  /\ Up /\ longest > 0 /\ outages < MaxOutages
  /\ outage' = 1 /\ outages' = outages + 1
  /\ UNCHANGED <<row, age, running, keeper, sleep, attempt, left, work, held, queue, longest>>

ComeUp ==
  /\ ~Up
  /\ outage' = 0
  /\ UNCHANGED <<row, age, running, keeper, sleep, attempt, left, work, held, queue, outages, longest>>

\* Nothing is due: no sleep is over, no thread is free for a waiting item, no
\* transaction, validation or outage has reached its limit.
Idle ==
  /\ \A j \in Job : /\ keeper[j] = "sleeping" => sleep[j] > 0
                    /\ keeper[j] = "beating" => attempt[j] < MaxAttempt
                    /\ work[j] = "thread" => held[j] < MaxValidation
  /\ queue = <<>> \/ InUse = Threads
  /\ outage <= longest

Tick ==
  /\ Idle
  /\ age' = [j \in Job |-> IF running[j] THEN Least(age[j] + 1, MaxAge) ELSE age[j]]
  /\ sleep' = [j \in Job |-> IF keeper[j] = "sleeping" THEN sleep[j] - 1 ELSE sleep[j]]
  /\ attempt' = [j \in Job |-> IF keeper[j] = "beating" THEN attempt[j] + 1 ELSE attempt[j]]
  /\ left' = [j \in Job |-> IF left[j] > 0 THEN left[j] - 1 ELSE 0]
  /\ held' = [j \in Job |-> IF work[j] = "thread" THEN held[j] + 1 ELSE held[j]]
  /\ outage' = IF Up THEN 0 ELSE outage + 1
  /\ UNCHANGED <<row, running, keeper, work, queue, outages, longest>>

\* The loops of busy have just claimed a job; the others have none.
StartWith(busy) ==
  /\ age \in {f \in [Job -> 0..MaxAttempt] : \A j \in Job \ busy : f[j] = 0}
  /\ running = [j \in Job |-> j \in busy]
  /\ keeper = [j \in Job |-> IF j \in busy THEN "sleeping" ELSE "over"]
  /\ sleep = [j \in Job |-> IF j \in busy THEN Beat ELSE 0]
  /\ work = [j \in Job |-> IF j \in busy THEN "agent" ELSE "over"]

Init ==
  /\ \E busy \in SUBSET Job : StartWith(busy)
  /\ row = [j \in Job |-> IF running[j] THEN "RUNNING" ELSE "TAKEN"]
  /\ attempt = [j \in Job |-> 0]
  /\ left = [j \in Job |-> IF running[j] THEN Lease ELSE 0]
  /\ held = [j \in Job |-> 0]
  /\ queue = <<>>
  /\ outage = 0
  /\ outages = 0
  /\ longest \in Outage

Next ==
  \/ \E j \in Job : \/ Wake(j) \/ Beaten(j) \/ Refused(j) \/ Failed(j)
                    \/ Validate(j) \/ Finish(j) \/ EndValidation(j) \/ Recover(j)
  \/ Start \/ GoDown \/ ComeUp \/ Tick

Spec == Init /\ [][Next]_vars

---------------------------------------------------------------------------------
(* Properties. *)

\* docs/implementation-contracts.md:375: a job whose execution sends heartbeats is
\* not executed a second time, however long it takes.  It is only where a heartbeat
\* may return after the lease ended, by the clock of the host that recovers, or,
\* with an outage, where there is no room for one more attempt after it.
LiveNotRecovered ==
  \A j \in Job : running[j] /\ row[j] = "TAKEN" =>
    /\ outages = 0 => Beat + 2 * MaxAttempt + Wait + Skew >= Lease
    /\ outages <= 1 => longest + Beat + Retry + 3 * MaxAttempt + 2 * Wait + Skew >= Lease

\* An execution without a lease ends by itself: after its last good heartbeat it
\* goes on for one lease, the retry under way, its wait for a thread and the slack
\* between the stamp of a heartbeat and its return, whether the database refuses it
\* or is away.
OutlivesBounded ==
  \A j \in Job : running[j] => age[j] < Lease + Retry + 2 * MaxAttempt + Wait

\* docs/implementation-contracts.md:235: while the database is up, a running job is
\* renewed every interval, give or take two of its own transactions and the wait for
\* the other executions' ones.
BeatsOnTime ==
  \A j \in Job :
    running[j] /\ outages = 0 => age[j] <= Beat + 2 * MaxAttempt + Wait
================================================================================
