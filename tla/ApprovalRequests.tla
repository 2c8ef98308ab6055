----------------------------- MODULE ApprovalRequests -----------------------------
(***************************************************************************)
(* approve and _approve_once (aeh/service.py) statement by statement, for  *)
(* requests that run at once in the threads of the control API, under      *)
(* PostgreSQL's READ COMMITTED.  (SQLite runs them one at a time: BEGIN    *)
(* IMMEDIATE is the first statement.)                                      *)
(*                                                                         *)
(* The lock of FOR UPDATE and the advisory lock are kept until the end of  *)
(* the transaction, and a unique index makes an INSERT wait for another    *)
(* transaction's uncommitted row of its key.  The connection may break at  *)
(* any statement, also after the COMMIT and before the answer; the client  *)
(* then sends the request again.                                           *)
(***************************************************************************)
EXTENDS ApprovalDesk

CONSTANT MaxSends      \* bound on the times a client sends one request

ASSUME SendsAssumption == MaxSends \in Nat \ {0}

VARIABLES
  pc,        \* the next statement of each request
  retried,   \* it is the second _approve_once of approve
  sends      \* times the request was sent

requests == <<pc, retried, sends>>
all == <<desk, requests>>

InTransaction == {"key", "state", "capacity", "count", "insert", "commit"}
Goto(r, s) == pc' = [pc EXCEPT ![r] = s]

FaultyRowHolders(i) ==
  {r \in Request : Target[r] = i /\ (pc[r] \in InTransaction \/ answer[r] = "NOT_AWAITING")}

\* Who holds the row lock of an incident, and the advisory lock.
RowHolders(i) == {r \in Request : Target[r] = i /\ pc[r] \in InTransaction}
Advising == {r \in Request : pc[r] \in {"count", "insert", "commit"}}

\* The end of the request.
Finish(r, a) ==
  /\ Goto(r, "done")
  /\ Tell(r, a)
  /\ UNCHANGED <<state, approval, retried, sends>>

Go(r, s) == Goto(r, s) /\ UNCHANGED <<desk, retried, sends>>

---------------------------------------------------------------------------------
(* The statements. *)

FaultyRowFree(i) == TRUE

\* SELECT ... FOR UPDATE returns the row as last committed, and locks it.
RowFree(i) == RowHolders(i) = {}

LockIncident(r) ==
  /\ pc[r] = "begin"
  /\ RowFree(Target[r])
  /\ IF state[Target[r]] = "ABSENT" THEN Finish(r, "NOT_FOUND") ELSE Go(r, "key")

\* approval_by_key.
ByKey(r) ==
  /\ pc[r] = "key"
  /\ \/ approval[Target[r]] = KeyOf[r] /\ Finish(r, "DUPLICATE")
     \/ approval[Target[r]] # KeyOf[r] /\ KeyUsed(r) /\ Finish(r, "OTHER_INCIDENT")
     \/ ~KeyUsed(r) /\ Go(r, "state")

\* The incident's state, its one successful analysis, approval_for_incident: rows
\* that change only under the lock this transaction holds.
CheckState(r) ==
  /\ pc[r] = "state"
  /\ IF state[Target[r]] = "AWAITING_APPROVAL" /\ approval[Target[r]] = NoKey
     THEN Go(r, "capacity")
     ELSE Finish(r, "NOT_AWAITING")

AdvisoryFree == Advising = {}

\* _require_job_capacity: the lock, then the count.
Advise(r) == pc[r] = "capacity" /\ AdvisoryFree /\ Go(r, "count")

Count(r) ==
  /\ pc[r] = "count"
  /\ IF Cardinality(ActiveJobs) < JobLimit
     THEN Go(r, "insert")
     ELSE Finish(r, "JOB_LIMIT")

\* Other transactions with an uncommitted approval of the same key.
Inserting(r) == {q \in Request : pc[q] = "commit" /\ KeyOf[q] = KeyOf[r]}

\* db.flush of the approval.  approve catches the IntegrityError of its first
\* attempt only.
Insert(r) ==
  /\ pc[r] = "insert"
  /\ Inserting(r) = {}
  /\ \/ ~KeyUsed(r) /\ Go(r, "commit")
     \/ KeyUsed(r) /\ IF retried[r] THEN Finish(r, "INTERNAL") ELSE Go(r, "conflict")

Commit(r) ==
  /\ pc[r] = "commit"
  /\ Granted(r)
  /\ UNCHANGED <<retried, sends>>
  /\ \/ Goto(r, "done") /\ Tell(r, "APPROVED")
     \/ Goto(r, "lost") /\ UNCHANGED answer

\* The transaction has rolled back; approve looks the key up in a session of its own.
KeyElsewhere(r) == KeyUsed(r) /\ approval[Target[r]] # KeyOf[r]

Conflict(r) ==
  /\ pc[r] = "conflict"
  /\ IF KeyElsewhere(r)
     THEN Finish(r, "OTHER_INCIDENT")
     ELSE /\ Goto(r, "begin")
          /\ retried' = [retried EXCEPT ![r] = TRUE]
          /\ UNCHANGED <<desk, sends>>

Break(r) ==
  /\ pc[r] \in InTransaction \cup {"begin", "conflict"} /\ sends[r] < MaxSends
  /\ Go(r, "lost")

Send(r) ==
  /\ pc[r] = "lost"
  /\ Goto(r, IF sends[r] < MaxSends THEN "begin" ELSE "given up")
  /\ retried' = [retried EXCEPT ![r] = FALSE]
  /\ sends' = [sends EXCEPT ![r] = IF @ < MaxSends THEN @ + 1 ELSE @]
  /\ UNCHANGED desk

\* A worker writes the incidents' rows; an event takes the advisory lock.
WorkerEnds(ended) == (\A i \in ended : RowFree(i)) /\ JobsEnd(ended) /\ UNCHANGED requests
Event(i) == AdvisoryFree /\ Receive(i) /\ UNCHANGED requests

AllInit ==
  /\ Init
  /\ pc = [r \in Request |-> "begin"]
  /\ retried = [r \in Request |-> FALSE]
  /\ sends = [r \in Request |-> 1]

Statement(r) ==
  \/ LockIncident(r) \/ ByKey(r) \/ CheckState(r) \/ Advise(r) \/ Count(r)
  \/ Insert(r) \/ Commit(r) \/ Conflict(r) \/ Send(r)

AllNext ==
  \/ \E r \in Request : Statement(r) \/ Break(r)
  \/ \E i \in Incident : Event(i)
  \/ \E ended \in SUBSET ActiveJobs : WorkerEnds(ended)

AllSpec == AllInit /\ [][AllNext]_all

\* A statement that can run runs; locks are granted to those who wait.
FairSpec == AllSpec /\ \A r \in Request : SF_all(Statement(r))

---------------------------------------------------------------------------------
(* Properties. *)

\* service.py:305-388: whatever the statements of concurrent requests, workers and
\* events interleave to, every request is answered as if handled at one instant:
\* an approval is granted once, within the job limit, no reason given is stale, and
\* (docs/implementation-contracts.md:154) a request sent again after its approval was
\* stored gets that approval, however its first answer was lost and even when the
\* job table is full by then.
ImplementsDesk == Spec

\* Every request is answered, or its client gives up: the row locks, the advisory
\* lock and the unique index never wait for each other in a circle.
RequestsEnd == \A r \in Request : <>(pc[r] \in {"done", "given up"})
===================================================================================
