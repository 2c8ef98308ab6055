---------------------------------- MODULE Intake ----------------------------------
(***************************************************************************)
(* ingest and sync_services (aeh/service.py) statement by statement, with  *)
(* the locks each takes: on PostgreSQL under READ COMMITTED, on SQLite     *)
(* under BEGIN IMMEDIATE, which lets one write transaction run at a time.  *)
(*                                                                         *)
(* A transaction's inserts and its commit are one step: what it inserted   *)
(* is not seen before, whoever inserts the same key waits for the commit,  *)
(* and nobody waits while holding a lock that the waiting one needs.       *)
(* HEAD of a default branch is read as any commit of the repository.       *)
(***************************************************************************)
EXTENDS EventTables

CONSTANTS
  MaxTries,    \* how often ingest tries the transaction
  MaxSyncs     \* bound on the number of sync_services calls

ASSUME TriesAssumption == MaxTries \in Nat \ {0}

VARIABLES
  pc,      \* the next step of each request
  path,    \* repo_path, read before the transaction
  sha,     \* the resolved commit
  found,   \* the incident selected by open_incident
  count,   \* the occurrence_count read with it
  tries,   \* transactions begun
  sync     \* the sync_services call in progress: its plan, the services left

locals == <<pc, path, sha, found, count, tries>>
vars == <<tables, locals, sync>>

NotSyncing == [active |-> FALSE, plan |-> <<>>, left |-> {}, syncs |-> 0]

InTransaction == {"find", "lock", "join", "capacity", "create"}
Receiving == {r \in Request : pc[r] \in InTransaction}

\* Locks held: FOR SHARE on the service from the start of the transaction, the
\* row of the joined incident, and the advisory lock once capacity was checked.
Sharing(s) == {r \in Receiving : Body[r].service = s}
Joining(i) == {r \in Request : pc[r] = "join" /\ found[r] = i}
Advising == {r \in Request : pc[r] = "create"}

\* FOR UPDATE on the service rows sync_services has gone through.
SyncLocked(s) ==
  /\ sync.active
  /\ s \in DOMAIN sync.plan \ sync.left
  /\ service[s] # NoPath

\* BEGIN IMMEDIATE: one write transaction at a time.
MayWrite == Backend = "sqlite" => Receiving = {} /\ ~sync.active

Goto(r, step) == pc' = [pc EXCEPT ![r] = step]
Finish(r) == Goto(r, "done") /\ UNCHANGED <<path, sha, found, count, tries, sync>>

---------------------------------------------------------------------------------
(* Before the transaction. *)

\* An unlocked read of the service and of a stored event with this identity.
Look(r) ==
  LET s == Body[r].service IN
  /\ pc[r] = "new"
  /\ \/ service[s] = NoPath /\ Refuse(r, "UNKNOWN_SERVICE") /\ Finish(r)
     \/ service[s] # NoPath /\ AnswerFromStored(r) /\ Finish(r)
     \/ /\ service[s] # NoPath
        /\ StoredAs(r) = {}
        /\ path' = [path EXCEPT ![r] = service[s]]
        /\ Goto(r, "resolve")
        /\ UNCHANGED <<tables, sha, found, count, tries, sync>>

\* resolve_commit, outside of any transaction: Git may fail, and the commit may
\* not be one of the repository.
Resolve(r) ==
  /\ pc[r] = "resolve"
  /\ \/ \E commit \in Resolvable(r, path[r]) :
          /\ sha' = [sha EXCEPT ![r] = commit]
          /\ Goto(r, "begin")
          /\ UNCHANGED <<tables, path, found, count, tries, sync>>
     \/ Resolvable(r, path[r]) = {} /\ Refuse(r, "NO_COMMIT") /\ Finish(r)
     \/ Refuse(r, "GIT_UNAVAILABLE") /\ Finish(r)

---------------------------------------------------------------------------------
(* _ingest_resolved. *)

FaultyBegin(r) ==
  LET s == Body[r].service IN
  /\ pc[r] = "begin"
  /\ MayWrite /\ ~SyncLocked(s)
  /\ \/ AnswerFromStored(r) /\ Finish(r)
     \/ /\ StoredAs(r) = {}
        /\ tries' = [tries EXCEPT ![r] = @ + 1]
        /\ Goto(r, "find")
        /\ UNCHANGED <<tables, path, sha, found, count, sync>>

\* After a change of the path Git is asked again, but at the path read before.
FaultyBeginAgain(r) ==
  LET s == Body[r].service IN
  /\ pc[r] = "begin"
  /\ MayWrite /\ ~SyncLocked(s)
  /\ \/ AnswerFromStored(r) /\ Finish(r)
     \/ /\ StoredAs(r) = {}
        /\ Goto(r, IF service[s] = path[r] THEN "find" ELSE "resolve")
        /\ tries' = [tries EXCEPT ![r] = IF service[s] = path[r] THEN @ + 1 ELSE @]
        /\ UNCHANGED <<tables, path, sha, found, count, sync>>

\* The service row is locked FOR SHARE; then the duplicate check again, and
\* the path must still be the one that Git was asked at.
Begin(r) ==
  LET s == Body[r].service IN
  /\ pc[r] = "begin"
  /\ MayWrite /\ ~SyncLocked(s)
  /\ \/ AnswerFromStored(r) /\ Finish(r)
     \/ /\ StoredAs(r) = {}
        /\ service[s] # path[r]
        /\ Refuse(r, "REPOSITORY_CHANGED") /\ Finish(r)
     \/ /\ StoredAs(r) = {}
        /\ service[s] = path[r]
        /\ tries' = [tries EXCEPT ![r] = @ + 1]
        /\ Goto(r, "find")
        /\ UNCHANGED <<tables, path, sha, found, count, sync>>

\* open_incident, as its snapshot sees the incidents.
Find(r) ==
  /\ pc[r] = "find"
  /\ \/ \E i \in Grouped(r, sha[r]) : found' = [found EXCEPT ![r] = i] /\ Goto(r, "lock")
     \/ /\ Grouped(r, sha[r]) = {}
        /\ found' = [found EXCEPT ![r] = NoIncident]
        /\ Goto(r, "capacity")
  /\ UNCHANGED <<tables, path, sha, count, tries, sync>>

FaultyLockUnchecked(r) ==
  /\ pc[r] = "lock"
  /\ Joining(found[r]) = {}
  /\ count' = [count EXCEPT ![r] = incident[found[r]].count]
  /\ Goto(r, "join")
  /\ UNCHANGED <<tables, path, sha, found, tries, sync>>

\* FOR UPDATE waits for the row and checks the newest version of it: an
\* incident closed meanwhile is no longer selected.
Lock(r) ==
  LET i == found[r] IN
  /\ pc[r] = "lock"
  /\ Joining(i) = {}
  /\ \/ /\ incident[i].state \in OpenStates
        /\ count' = [count EXCEPT ![r] = incident[i].count]
        /\ Goto(r, "join")
        /\ UNCHANGED found
     \/ /\ incident[i].state \notin OpenStates
        /\ found' = [found EXCEPT ![r] = NoIncident]
        /\ Goto(r, "capacity")
        /\ UNCHANGED count
  /\ UNCHANGED <<tables, path, sha, tries, sync>>

\* _require_job_capacity: the advisory lock is kept until the commit.
Capacity(r) ==
  /\ pc[r] = "capacity"
  /\ Advising = {}
  /\ \/ Cardinality(ActiveJobs) >= JobLimit /\ Refuse(r, "JOB_LIMIT") /\ Finish(r)
     \/ /\ Cardinality(ActiveJobs) < JobLimit
        /\ Goto(r, "create")
        /\ UNCHANGED <<tables, path, sha, found, count, tries, sync>>

\* A unique index was violated: rolled back and tried again, MaxTries in all.
Conflict(r) ==
  \/ /\ tries[r] < MaxTries
     /\ Goto(r, "begin")
     /\ UNCHANGED <<tables, path, sha, found, count, tries, sync>>
  \/ tries[r] = MaxTries /\ Refuse(r, "UNSETTLED") /\ Finish(r)

FaultyEventIndexFree(r) == TRUE

\* uq_error_event_identity.
EventIndexFree(r) == StoredAs(r) = {}

FaultyGroupingIndexFree(r) == TRUE

\* uq_incidents_open_grouping.
GroupingIndexFree(r) == Grouped(r, sha[r]) = {}

\* Event, occurrence and the incremented count, and the commit.
Join(r) ==
  /\ pc[r] = "join"
  /\ \/ EventIndexFree(r) /\ JoinIncident(r, found[r], count[r]) /\ Finish(r)
     \/ ~EventIndexFree(r) /\ Conflict(r)

\* Event, incident, ANALYZE job and occurrence, and the commit.
Create(r) ==
  LET free == EventIndexFree(r) /\ GroupingIndexFree(r) IN
  /\ pc[r] = "create"
  /\ \/ free /\ OpenIncident(r, path[r], sha[r]) /\ Finish(r)
     \/ ~free /\ Conflict(r)

\* The database or the server fails: the transaction is rolled back, the client
\* gets an error or nothing.
Fail(r) ==
  /\ pc[r] \in InTransaction \cup {"resolve", "begin"}
  /\ Refuse(r, "FAILED") /\ Finish(r)

---------------------------------------------------------------------------------
(* sync_services: one transaction over all services of the file.  It is a command
   that the operator runs (cli.py:41), here one at a time: nothing in the code
   keeps two from overlapping on PostgreSQL.  They would meet at the row locks. *)

SyncBegin(plan) ==
  /\ ~sync.active
  /\ sync.syncs < MaxSyncs
  /\ MayWrite
  /\ sync' = [active |-> TRUE, plan |-> plan, left |-> DOMAIN plan, syncs |-> sync.syncs + 1]
  /\ UNCHANGED <<tables, locals>>

\* has_open_incident, read under the lock on the service.
MayMove(s) == MovesRepository(s, sync.plan[s]) => OpenOf(s) = {}

\* The row is locked FOR UPDATE, checked, and its new path is pending.
SyncOne(s) ==
  /\ sync.active
  /\ s \in sync.left
  /\ Sharing(s) = {}
  /\ MayMove(s)
  /\ sync' = [sync EXCEPT !.left = @ \ {s}]
  /\ UNCHANGED <<tables, locals>>

\* ValueError: a service with open incidents may not move.  Nothing is registered.
SyncAbort(s) ==
  /\ sync.active
  /\ s \in sync.left
  /\ Sharing(s) = {}
  /\ ~MayMove(s)
  /\ sync' = [NotSyncing EXCEPT !.syncs = sync.syncs]
  /\ UNCHANGED <<tables, locals>>

\* A reference outside of the root, or the command is killed.
SyncFail ==
  /\ sync.active
  /\ sync' = [NotSyncing EXCEPT !.syncs = sync.syncs]
  /\ UNCHANGED <<tables, locals>>

SyncCommit ==
  /\ sync.active
  /\ sync.left = {}
  /\ service' = Registered(sync.plan)
  /\ sync' = [NotSyncing EXCEPT !.syncs = sync.syncs]
  /\ UNCHANGED <<setting, incident, stored, answer, locals>>

---------------------------------------------------------------------------------
(* The transactions of the workers and of approve, whole: they wait for the
   incident's row, and approve for the advisory lock. *)

SettleIncident(i) ==
  /\ Joining(i) = {}
  /\ \E to \in {"AWAITING_APPROVAL", "CLOSED"} : Settle(i, to)
  /\ MayWrite
  /\ UNCHANGED <<locals, sync>>

ApproveIncident(i) ==
  /\ Joining(i) = {} /\ Advising = {}
  /\ Approve(i)
  /\ MayWrite
  /\ UNCHANGED <<locals, sync>>

Init ==
  /\ TablesInit
  /\ pc = [r \in Request |-> "new"]
  /\ path = [r \in Request |-> NoPath]
  /\ sha = [r \in Request |-> NoCommit]
  /\ found = [r \in Request |-> NoIncident]
  /\ count = [r \in Request |-> 0]
  /\ tries = [r \in Request |-> 0]
  /\ sync = NotSyncing

Continue(r) == \/ Resolve(r) \/ Begin(r) \/ Find(r) \/ Lock(r)
               \/ Capacity(r) \/ Join(r) \/ Create(r)

SyncStep == SyncCommit \/ \E s \in Service : SyncOne(s) \/ SyncAbort(s)

Next ==
  \/ \E r \in Request : Look(r) \/ Continue(r) \/ Fail(r)
  \/ \E plan \in Plan : SyncBegin(plan)
  \/ SyncStep \/ SyncFail
  \/ \E i \in Request : SettleIncident(i) \/ ApproveIncident(i)

Spec == Init /\ [][Next]_vars

\* A request that was received is worked on, and so is a started sync_services.
FairSpec == Spec /\ WF_vars(SyncStep) /\ \A r \in Request : WF_vars(Continue(r))

---------------------------------------------------------------------------------
(* Properties. *)

\* ADR-0001 item 3: events of one service, fingerprint and commit never have two
\* incidents open at the same time, however their receipts overlap.
OneOpenPerGrouping ==
  \A i, j \in Open :
    /\ Body[i].service = Body[j].service
    /\ Body[i].fingerprint = Body[j].fingerprint
    /\ incident[i].sha = incident[j].sha
    => i = j

\* All receipts of one event that are answered 202 name one incident, and at most
\* one of them says that it was not a duplicate.
ReceiptsAgree ==
  \A r, q \in Request :
    /\ SameEvent(r, q)
    /\ answer[r].incident # NoIncident
    /\ answer[q].incident # NoIncident
    => /\ answer[r].incident = answer[q].incident
       /\ answer[r].kind = "ACCEPTED" /\ answer[q].kind = "ACCEPTED" => r = q

\* ADR-0001 item 6: the repository of a service is the one of its open
\* incidents: incidents of one grouping never mix two repositories.
OpenKeepsRepository ==
  \A i \in Open :
    LET s == Body[i].service IN
    service[s] # NoPath /\ RepositoryAt[incident[i].path] = RepositoryAt[service[s]]

\* Every receipt is the ledger's, at one instant: joining, opening and repeating
\* are decided by the rows as they are when the transaction commits.
Ledger == INSTANCE EventLedger
ImplementsLedger == Ledger!Spec

\* A received request is answered: the locks and the retries cannot block it, or
\* send it round, for ever.
EveryRequestAnswered == \A r \in Request : pc[r] # "new" ~> answer[r] # Unanswered
================================================================================
