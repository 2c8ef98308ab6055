# Verification of auto-error-handler

The service receives error events, groups them into incidents, has an agent
analyse each incident, waits for a human approval, has an agent write a patch,
validates it in a sandbox, and keeps the result for review. This directory holds
TLA+ specifications of the parts where interleavings, crashes and time matter,
the TLC configurations that check them on small instances, and TLAPS proofs.

Run everything from this directory, for example

    tlc -config MCPipelineRetry.cfg MCPipeline.tla
    tlapm PipelineProofs.tla

`PROJECT.json` is the index: components, runs, theorems, hazards, disagreements
found, and for every definition the source lines it stands for.

## Inventory

| Part | State | Operations | Talks to |
|---|---|---|---|
| schema, transactions (`aeh/db.py`) | tables services, error_events, incidents, occurrences, analysis_runs, approvals, patch_runs, jobs | `write_transaction`: BEGIN IMMEDIATE on SQLite, row locks on PostgreSQL | everybody |
| job repository (`aeh/job_repository.py`) | jobs, runs, incidents | `claim_job`, `heartbeat`, `recover_expired`, `mark_validating`, `finalize`, one transaction each | worker |
| worker (`aeh/worker.py`) | per loop: claim, `version_ref`, outcome, the stop event; threads that outlive a cancelled await | `worker_loop`, `run_one`, `keep_lease`, `execute`, `isolated_worktree` | job repository, gateway, git, validation |
| intake and approval (`aeh/service.py`) | rows as above; per request: the resolved commit, the row it found, its locks | `sync_services` (a command of its own), `ingest`, `approve` | git (`resolve_commit`), control API |
| incident list (`aeh/service.py`, `aeh/repository.py`) | the cursor the client holds | `list_incidents` | control API, review web |
| validation (`aeh/validation.py`) | bwrap's monitor, the command, what it leaves behind, the pipe, the deadline, results | `run_validation` | worker, sandbox |
| git (`aeh/gitops.py`) | worktrees, one lock file per repository | `resolve_commit`, `worktree`, `check_diff` | worker, intake |
| gateway (`aeh/gateway.py`) | none kept | `analyze`, `patch` | Codex SDK |
| review web (`aeh/review_service.py`) | none | `list_page`, `detail_page`: several reads | tables |
| event contract, configuration, CLI, scripts, fixture | none | parsing, settings, start-up | |

What is hard here: several loops in several processes share the tables; a lease
is only time, so its holder may be late by any amount; what is awaited through
`asyncio.to_thread` is not stopped when the await is cancelled, and shares one
pool with the heartbeats; shutdown cancels a job wherever it is; processes die
between two transactions; requests arrive at once and are repeated; repositories
move and policies change under running jobs. `hazards` in `PROJECT.json` lists
these at their lines.

What makes each part correct:

- jobs: one owner at a time, decided by the owner or after its lease; attempts
  bounded; job, run and incident rows always agree; nothing settled changes.
- leases: an execution that can renew its lease keeps its job; one that cannot
  ends soon after.
- intake: every event is stored once and counted once; one open incident per
  grouping, of one repository; the answer names the incident of the event.
- approval: an approved incident has exactly one approval, patch run and PATCH
  job; a key approves one incident; the job limit holds; no answer is stale.
- execution: a worktree is gone before the outcome is reported, also when the task
  is cancelled while it is made or removed; no worktree stays; Git commands on one
  repository do not block each other for ever.
- the diff check: what it accepts is within the policy, what is within the
  policy it accepts; likewise the limits on `reproductionData`.
- the detail page: never behind the state it shows.
- worker: work that still owns its job is taken when it succeeded (a failure is
  not always: disagreement 1); every job ends.
- list: each incident once, none missed, the reading ends.
- validation: stops at the first failure, leaves neither bwrap nor a command
  running, ends in time.

## Modules

| Module | Stands for |
|---|---|
| `JobTables` | the rows of the pipeline as functions of the incident (the UNIQUE columns make at most one of each), and the clock |
| `JobRepository` | the five job transactions, each an atomic action |
| `Approval` | event receipt that opens an incident, approval, policy rewrite |
| `Worker` | `worker_loop` and `run_one` with everything that may interrupt them |
| `Pipeline` | all of these together; the specification, its fairness and its properties |
| `IncidentLifecycle` | the abstract promise: an incident moves along the edges of the state machine, one edge per step, and its version counts its moves |
| `PipelineInvariant` | the inductive invariant |
| `MCPipeline` | symmetry for the safety runs |
| `EventTables` | the rows of the intake: services, events with occurrences, incidents with counts |
| `EventLedger` | the abstract promise of the intake: each request handled at one instant |
| `Intake`, `MCIntake` | `ingest` and `sync_services` statement by statement, with PostgreSQL's locks or SQLite's |
| `ApprovalDesk` | the abstract promise of `approve`, in the same manner; and of the events and workers beside it, which `Pipeline` keeps |
| `ApprovalRequests`, `MCApprovalRequests` | `approve` statement by statement, with lost answers and requests sent again |
| `LeaseTiming`, `MCLeaseTiming` | `keep_lease` in time: intervals, outages, the thread pool, clocks |
| `Execution`, `MCExecution` | `execute` and `isolated_worktree` await by await, with the threads they leave |
| `ReviewPage`, `MCReviewPage` | the SELECTs of the detail page next to the pipeline |
| `DiffPolicy` | `check_diff` over every change of a small tree |
| `ReproductionData` | `check_reproduction_data` and `redact` over every small value |
| `MCChecks` | the run of these two and of `ValidationRun`, one of the three in each behaviour |
| `IncidentPages` | `list_incidents` against concurrent writers |
| `ValidationRun` | `run_validation` against bwrap's monitor, the command and the command's children |
| `PipelineProofs` | proofs: types, inductive invariant and safety invariants of `Pipeline` |
| `HistoryProofs` | proofs: what a step of `Pipeline` may never do, its two refinements, job limit and keys, the detail page |
| `IntakeProofs` | proofs: the invariants of `Intake`, that it implements `EventLedger` |
| `ApprovalRequestProofs` | proofs: that `ApprovalRequests` implements `ApprovalDesk` |
| `ExecutionProofs`, `LeaseTimingProofs`, `IncidentPagesProofs` | proofs about the module each is named for |
| `ChecksProofs` | proofs about `ValidationRun`, `DiffPolicy` and `ReproductionData` |

`JobRepository` and `Approval` extend `JobTables`; `Worker` extends
`JobRepository`; `Pipeline` extends `Worker` and `Approval`, and `ReviewPage`
extends `Pipeline`. `Intake` and `EventLedger` extend `EventTables`;
`ApprovalRequests` extends `ApprovalDesk`.

The others stand alone, each at the granularity its question needs, and are
linked to the pipeline by what they show or assume. `Pipeline` takes a receipt
and an approval for atomic: `ImplementsLedger` and `ImplementsDesk` show that
their statements are. In return `ApprovalRequests` takes workers and events for
what `ApprovalDesk` lets them do: incidents come up for approval by the end of
their analysis, one transaction may end the jobs of any number of incidents, only
a receipt or an approval adds a job. `ImplementsApprovals` shows that `Pipeline`
does no more than that. `Pipeline` lets a lease run out at any time and an awaited
transaction commit late: `LeaseTiming` and `Execution` look at when that happens,
and at the disk. In `Intake` and `ApprovalRequests` the workers are the
transactions that end a job, whole.

Definitions named `Faulty...` change one definition the way a plausible bug
would. No specification uses them; they document which property would notice.

### How state and actions correspond to the code

`pc[w]` is the await at which loop `w` stands: `recover`, `claim`, `execute` (the
analysis, or the patch up to its checked diff), `mark` (`mark_validating`
awaited), `validate`, `finalize`; `down` is no process. `claim`, `ref` and
`outcome` are the variables `claim`, `version_ref[0]` and `outcome` of `run_one`,
`stop` is the event, and `orphans` are `mark_validating` threads whose await was
given up. They may commit at any later time while their process lives.

Choices made in the abstraction:

- *Time.* A lease is an age in ticks, `available_at` a number of ticks to wait.
  `Tick` may happen at any moment, so a lease may expire between any two steps,
  heartbeats or not. `Heartbeat` renews it when the row allows.
- *Tokens.* A random UUID is the number of the attempt that drew it: what matters
  is that two claims of one job differ.
- *Claim order.* Any claimable job may be taken; no property rests on the order.
- *Recovery.* `recover_expired` handles every expired job in its transaction. Its
  `LIMIT 100` equals `Limits.job_limit`; a row that PostgreSQL skips because it is
  locked is a recovery that ran before the lease expired.
- *Row locks.* On PostgreSQL each transaction locks the rows it decides on before
  it reads what it decides by, so it is atomic with respect to the others here.
- *Lost leases.* `LeaseGivenUp` covers a refused heartbeat and database errors up
  to the deadline, the last of which may have committed unacknowledged.
- *Outcomes.* OK, FATAL, TRANSIENT (the codes `run_one` retries) and CANCELLED.
  Results, diffs, error texts and commit ids are payload.
- *Crash.* A killed process, or a database error in `recover_expired`, `claim_job`
  or `finalize`, which nothing in `worker_loop` catches.
- *Shutdown.* The stop event is kept per loop, which includes a process whose
  loops share it. A shutdown that cancels a loop while `finalize` is awaited ends
  the loop, but the transaction's thread runs to its end before the process does:
  for the tables this is `Finalize` followed by `Leave`.
- *Creation.* A new incident is RECEIVED in version 1; an analysis run is always
  created RUNNING, by the first claim.
- *Intake.* `pc[r]` is the next statement of a request. A transaction's inserts and
  its commit are one step, as nobody sees the inserts before and nobody who waits
  for them holds a lock the inserting one needs. An event row, its occurrence and
  the incident it opened carry the request's name. HEAD of a branch is any commit of
  the repository, read when it is resolved. ANALYZING is merged into RECEIVED and
  VALIDATING into PATCHING. `Path` values are references; two may reach one
  repository. `sync_services` takes the services of its file in any order, one call
  at a time: it is a command of the operator. Nothing in the code keeps two from
  overlapping on PostgreSQL; they would meet at the row locks or the unique key,
  where one waits, or fails as `SyncFail` does. A request that fails (`Fail`) may be
  sent again: that is another request.
- *Approval requests.* One step per statement. Row and advisory locks last to the
  end of the transaction; a unique index makes an INSERT wait for another
  transaction's uncommitted row. The connection may break at any statement, and
  after the COMMIT. SQLite runs these transactions one at a time, which is the
  abstract specification. The second `_approve_once` of `approve` never meets the
  index again (`INTERNAL` is never answered): the incident's row lock and the key
  check suffice.
- *Lease timing.* One tick is 10 seconds where `Beat = 3` and `Lease = 12`, the
  retry of 2 seconds rounded up. The event loop is prompt: what is due happens
  before the clock goes on. Recovery compares the row with its own host's clock
  (`Skew`). A pool of two or three threads stands for the default executor of
  `min(32, CPUs + 4)` threads, which has to serve up to eight loops and the
  validations that outlived theirs. The validation stands for every call of an
  execution that occupies a thread: it makes one at a time, and this is the
  longest. `Wait` is how long a heartbeat may wait for a thread: not at all where
  there are two threads per execution, otherwise for the heartbeats of the others.
- *Execution.* `stage[e]` is the await at which the task stands; `maker` and
  `remover` are the threads of the worktree manager, `inside` the worker's threads
  at work in the worktree; children that a validation command leaves behind are
  `ValidationRun`'s. A lock file that cannot be made at `__enter__` is
  `MakerBreaks`, and the execution ends UNEXPECTED; made once, it is taken to open
  again. `keep_lease` and a shutdown may cancel the task once each. When the task
  ends without `__exit__`, CPython closes the manager with its last reference, and
  the close runs the same removal (`Collect`); after two cancellations that is the
  only removal. A crash of the process is not here: it leaves the worktree on disk,
  and nothing at the start looks for it.
- *Review page.* Every SELECT sees what is committed; the identity map of the
  session answers the second read of a run with the row object of the first. The
  approval is read before the patch run, so a page may show a patch run without
  its approval; it may not when the incident it shows is approved already.
- *Diff.* `Becomes` lists what may happen to a path. Patterns are areas, contents
  are numbers of lines. Whether Git takes a deletion and a new file for a rename
  depends on contents and is any choice. The agent's sandbox cannot write the
  index, which lies in the repository's own `.git`. A name is checked once, in
  `check_diff`; the check before the agent runs that
  `docs/implementation-contracts.md:337` mentions is not in the code.
- *Reproduction data.* A value is a tree in the order `visit` walks it; texts are
  their lengths around the two limits, or a secret. Numbers, lists and objects
  without keys of interest are the node without text.
- *Pages.* Row ids are numbers, the clock has few values, so that rows share a
  time. `Backend` chooses how times compare: exactly on PostgreSQL; on SQLite the
  stored text ends at the second and is a proper prefix of the bound cursor text.
- *Validation.* bwrap is not in the repository and modelled as its options promise
  it: the process that `Popen` starts is a monitor, which keeps the inherited output
  open until the command has ended and hands on its exit code; the command has a
  session of its own, so that `killpg` reaches the monitor alone, and is signalled
  at the monitor's death. The command may end at any time or never, and start
  children; these may keep the output, outlive the command and the monitor, and end
  at any time or never. While the loop selects, time stops at the deadline, since
  `select` returns then; in `process.wait()` it runs on.

## Runs

| Run | Instance | Shows |
|---|---|---|
| `retry` | 1 incident, 2 workers, 2 policies, 3 attempts, lease 2 ticks, backoffs 1 and 2; 392,694 states | types; rows agree (`LifecycleConsistent`); no `RuntimeError` row (`NoPoisonJob`); a token names one execution; `finalize` refuses an owner only after a late `mark_validating` (`BehindByLateMarkOnly`); attempts bounded; settled rows stay; the owner decides; the policy stays; the life cycle is implemented; `IInv` holds |
| `several` | 3 incidents, 2 workers, 2 keys, 2 job slots, 1 attempt; 95,983 states | job limit, the approval desk is implemented (`ImplementsApprovals`; so a key approves one incident) |
| `live` | 1 incident, 2 attempts, lease 1 tick; either 2 workers, or 1 worker and every interleaving with the page's six SELECTs; 190,818 states | analysis and patch end; the page is not behind the state it shows |
| `pages` | 4 rows, 2 times, pages of 2, PostgreSQL; 20,828 states | once each, none missed, reading ends |
| `intake` | 3 requests, 2 services, 2 commits, 3 paths to 2 repositories, 2 job slots, 2 tries, 2 synchronisations, in four settings; 378,994 states | the ledger is implemented, one open incident per grouping, receipts of one event agree, no incident mixes repositories, every request is answered |
| `approvals` | 3 requests (one approval asked for twice, its key for another incident), 3 incidents, 1 job slot, 2 sends; 163,712 states | the desk is implemented, every request ends |
| `lease` | 2 loops with up to 2 jobs, 3 threads, validations, one outage of a tick or, with one job, up to 2 of at most 4 or 16 ticks; 6,249,337 states | a job is kept while a heartbeat with its waits fits into the lease, also through one outage; an execution outlives its lease by a retry, a wait and two transactions at most; heartbeats on time |
| `execution` | an analysis and a patch, 2 cancellations each; 29,415 states | a worktree is gone before the outcome, none stays, threads are left in a removed one only by timeouts and cancellations, both executions end |
| `checks` | 6 paths (plain, new, test, new test, closed, link), limits 2 files and 1 line; values of up to 5 nodes, depth limit 1, count limit 3; 3 commands, timeout 2, clock to 4; 1,349,237 states | the patch policy decides, the limits decide; the first failed command is the last; between commands and at the end at most children are left; no command runs past its timeout; only own success passes; the call ends whatever hangs |
| `failure`, `pages_sqlite`, `validation_timeout` | as small as shows it | the first three disagreements below |

*Runs that put several questions together.* A behaviour of `intake` keeps one of
four settings: three events of one grouping; one event sent twice and with another
payload, on PostgreSQL with a fixed service file, and on SQLite with service files
that move the repository; events of two services with such files on PostgreSQL. In
`lease` the database goes down for long, or twice, only where one loop has a job:
with two, whose heartbeats wait for each other, it goes down once for a tick. In
`live` a page is read while one worker runs (a restarted
loop recovers and claims like another one, and what a second loop finalizes late is
refused). Such a behaviour is not fair to
the other worker, so that the liveness properties are asked of those in which both
run. `checks` explores three modules that share no state side by side.

*Why the bounds are enough.* A stale execution, a live one and an abandoned thread
of the first can all exist with two workers and one incident. Three attempts give
a first retry, a later retry with the other backoff and an exhausted job; a lease
of two ticks distinguishes fresh, old and expired. Interference between incidents
exists only through the job limit, the keys and the one recovery for all, which
`several` exercises with one incident more than there are slots. Pages of two out
of four rows with two times have ties inside a page, across pages and at the end.
`MaxClock` in `ValidationRun` only has to exceed the timeout. Three overlapping
receipts are a winner of the unique index, a loser that retries and a third that
joins meanwhile; with two tries the last of them also fails. One job slot fewer
than incidents makes the limit bite, and a repeated event meets every state of its
first receipt. In `LeaseTiming` only the proportions of the
distances matter; `MaxAge` is where no comparison tells ages apart any more. Two
executions are enough for a lock held by one while the other makes, removes or is
cancelled, and two cancellations are all there are. The limits of `DiffPolicy` and
`ReproductionData` are small so that values lie below, at and above each.

*Fairness* (`live`). The clock goes on; the event loop goes on with whatever its
loop can do next, since every await of a running job ends by itself, by a timeout or
by a lost lease; a process that is down is started again; crashes and shutdowns are
finite. The repository's `compose.yaml` has no restart policy, so the restart is an
assumption about the operator. Nobody has to report, approve or synchronise.
`CallEnds` assumes the clock and the thread running the call, not that a command,
its monitor or a child ever ends. `ReadingEnds` assumes a client that asks for the
next page. `EveryRequestAnswered` assumes that a request under way goes on and so
does a started synchronisation; nobody has to send one. In `ApprovalRequests`
fairness is strong: PostgreSQL queues the waiters for a lock, so who waits is served
though the lock is taken again and again. `ExecutionEnds` and `WorktreesGiveWay`
assume that Git commands end (after 30 seconds by force), that awaits end by their
timeouts, and that the kernel serves every waiter on the lock file.

## Disagreements found

With a run that shows the code in it:

1. `failure`: the patch timeout during `mark_validating` makes `finalize` refuse
   the failure, and the job is run again; `docs/implementation-contracts.md:247`
   wants it FAILED at once. `BehindByLateMarkOnly` says how far it goes: nothing
   but that transaction, of the same execution, makes `finalize` refuse an owner,
   so no success and no transient failure is ever lost that way.
2. `pages_sqlite`: incidents of the cursor's second are listed again, against the
   order `docs/implementation-contracts.md:24` promises.
3. `validation_timeout`: what a timed-out command started is not terminated
   (`validation.py:81` reaches bwrap, and with it the command alone), against
   `docs/decisions/0002-frozen-policy-and-execution-network.md:39` and
   `docs/implementation-contracts.md:322`. `OnlyChildrenLeft` says that nothing
   else is left over.

Met while modelling, without a run of their own. The models do what the code does,
and their properties say what holds in spite of it:

4. A lost validation goes back VALIDATING → PATCHING (`job_repository.py:88`); the
   state machine of `docs/service-architecture.md:262-273` has no such edge.
   `IncidentLifecycle` has it.
5. A retry leaves the run row RUNNING or VALIDATING (`job_repository.py:211`);
   `docs/mvp-implementation-review-2026-09-12.tmp.md:193` wants it PENDING with its
   job. `LegalRows` lists the combinations.
6. A shutdown in the last attempt fails the job for good (`worker.py:176`);
   `docs/mvp-scope.md:104` wants it recoverable.
7. On PostgreSQL a duplicate that runs beside its first receipt is refused with 503
   when that receipt took the last job slot (`service.py:84`);
   `docs/implementation-contracts.md:231` wants its incident. `Decline` of
   `EventLedger` allows it.
8. While heartbeats fail an execution goes on past the end of its lease
   (`worker.py:154`: the deadline is looked at after a failure only and counts from
   the heartbeat's return), against `docs/implementation-contracts.md:237`.
   `OutlivesBounded` says for how long.
9. Leases are stamped and judged by the clocks of the hosts (`db.py:33`) and not by
   the database's, against `docs/implementation-contracts.md:235` and `:375`. In
   the instance of `lease`, with no outage at all, `LiveNotRecovered` promises a
   running job to its execution up to a `Skew` of 5 ticks out of a lease of 12; from
   6 on it is really taken from it.
10. Validations may occupy every thread of the pool and delay a heartbeat
    (`worker.py:151`), against `docs/implementation-contracts.md:235`. With
    `Threads = 2` and two executions `BeatsOnTime` fails; with one thread more than
    executions it is a theorem.
11. After a patch timeout or a cancellation the thread of `check_diff` or of the
    validation goes on while its worktree is removed (`worker.py:122`), against
    `docs/implementation-contracts.md:322`. `OnlyAbandonedInside` says that no
    other thread does; a command's children are disagreement 3.
12. A `git worktree add` killed by its timeout may leave a part behind
    (`gitops.py:75`), against `docs/mvp-scope.md:32`: the value "part" of `tree`.
13. A patch's timeout is stored under the policy's code (`worker.py:168`), against
    `docs/mvp-scope.md:100`.
14. A whitespace error in a patch is stored as a commit not found
    (`gitops.py:145`), against `docs/implementation-contracts.md:351`.
15. Harmless texts of 2,049 to 4,096 characters are refused (`contracts.py:98`,
    `errors.py:13`), against `docs/implementation-contracts.md:365`. `LimitsDecide`
    makes an exception of them.

## Proofs

Every invariant and action property of a passing run is a theorem, and so are the
four refinements. They hold for every set of
incidents, workers, requests, services, rows, paths and jobs, and all values of the
numbers, from the assumptions of the modules: at least one attempt, one lease tick
and one try, natural limits and distances, finite sets of paths and of a process'
jobs, sentinels outside the sets they mark. Two theorems need more, and say so:
`AlwaysShownOnce` is about PostgreSQL, and the theorems about leases ask for
`EnoughThreads`.

Apart from the types no property here is inductive: what a step does to the rows
depends on what its loop, request or thread found out earlier. Each module has one
inductive invariant that says what an actor may rely on at each of its awaits or
statements.

**The pipeline** (`PipelineProofs`). `TypeCorrect` is inductive alone. `IInv`
(`PipelineInvariant`, also checked by the run `retry`) adds

- `RowsAgree`: `LifecycleConsistent`, with an absent incident in version 0;
- `JobsCounted`: a running job's token is its attempt number, queued jobs have
  attempts left;
- `ClaimsSound`: no claim is ahead of its job or incident, and while a loop owns
  its job, its place tells the incident's state and the version it holds: the one
  of its claim until `mark_validating` returns, the incident's when it finalizes,
  except for `MarkedLate`, where an orphan of its own moved the incident;
- `OrphansSound`: an abandoned `mark_validating` that would be accepted finds
  PATCHING;
- `LoopsDistinct`, `OrphansDistinct`: executions are told apart by tokens.

First each transaction is shown to keep the table part and to leave every other
claim `Undisturbed`, owned or stale; then each step of a loop to keep `IInv`.

**What a step may never do** (`HistoryProofs`), from `IInv`. `GoesOn` says what one
transaction may do to one incident: nothing, or one edge of the life cycle counted
in the version, with what is settled and pinned kept. `SettledStaysForever`,
`PolicyStaysPinned` and `LifecycleRefined` follow. `JobLeft` says who may end a
job: nobody but its owner or a recovery, from which `OwnerAlwaysDecides`.
`CapacityAlwaysRespected` needs that only `ingest` and `approve` make jobs active,
one each, after they counted (`OnlyApiAdds`: a retry was active before). The same
lemma splits the steps for `ApprovalsRefined`: without a new job or approval every
incident stays at its stage or ends it (`StageEnds`), and the desk counts no more
jobs than `RequireJobCapacity` does (`DeskCounts`). For the detail page
`PageSound` keeps what was read so far: the tables move on only, so they never fall
behind the state that was read first.

**Intake** (`IntakeProofs`). `RequestSound` says what a request may rely on: from
`begin` on a path, in the transaction the service's own path, at `join` the
incident's count, at `create` that there is room for a job. A row lock or the
advisory lock has one holder, and that is why the others do not disturb it.
`LedgerRefined` maps the statement that writes and commits to the ledger's step and
every other one to a stutter. The proofs never use that SQLite lets one transaction
write at a time: the locks and unique indexes suffice.

**Approvals** (`ApprovalRequestProofs`), in the same manner. One part of the
invariant is a fact about the code: `approve` is never attempted a second time,
since who gets past the row lock and the key check can only fail on a key that
another incident's approval took, which is answered at once. So `INTERNAL` is never
answered.

**Executions** (`ExecutionProofs`). The await at which a task stands tells how far
its `__enter__` and `__exit__` threads are and whether its worktree is there. The
threads left in a worktree are those of the await it stands at or, once the
removal began, of a timeout or a cancellation.

**Leases** (`LeaseTimingProofs`). `DueBy(j, b)`: the next attempt of execution j
begins before its last good heartbeat is b ticks old. Waking up, waiting for a
thread and time keep it for every b; an attempt that ends sets a new one, in three
cases: no outage so far, one, and the deadline. `EnoughThreads` is one thread more
than executions, so that validations leave one. Then a heartbeat waits only behind
heartbeats: while nothing can be started one of them has a thread
(`SomeoneBeats`), and the executions served before it (`Ahead`) only get fewer.
`ServedFrom` counts `MaxAttempt` for each of them, less what one that has its
thread has used up; `WaitingKept` shows that every step keeps the sum. With two
threads per execution nobody waits (`NobodyWaits`). asyncio's default executor has
at least 5 threads and `worker_concurrency` is 1 by default (`config.py:108`), room
for the running execution and three whose validations outlived them; with more
loops it depends on the host (disagreement 10). The theorems cover the instance of
`lease`, which shows that they ask for no more time than needed: with another tick
of `Skew`, or one thread less, TLC finds the counterexample.

**List pages** (`IncidentPagesProofs`). A row's rank is the number of selected rows
ahead of it. Ranks grow along the order and leave no gap, so a page is the rows of
the ranks below the limit, its cursor is the row of the last of them, and what has
not been shown comes after it. `NothingEverMissed` holds on both databases, as
SQLite's comparison only ever repeats rows.

**Checks** (`ChecksProofs`). `PolicyAlwaysDecides`: the reports of the Git commands
that `check_diff` looks at leave out no changed path, whatever Git takes for a
rename. `InPolicy` says `~(sum > MaxLines)` as the code does: that the sum is a
number at all would take an induction over the set of paths. `CallInvariant` of
`run_validation`: there is a monitor only while the call selects or waits, a command
runs only under a running monitor, time passes the deadline only when no command
runs any more, and every result but the last one is PASSED. For `LimitsAlwaysDecide`
the tree is known to be in preorder with each node's parent before it, for any
number of nodes. What `Chain` computes recursively is shown without an induction
over data: a first node at which it fails would be a least natural number, and below
it the definition unfolds once (`LeastNatural`, `ChainsExist`, `ChainUnfolds`). So
`Depth` is what `visit` carries down (`DepthAlwaysCarried`).

Assumptions on constants that only the proofs need: `Path` and `Job` are finite,
`JobLimit` is a number, `NotRead` is no status. `LiveNotRecovered` counts `Skew`
among what has to fit into the lease, so that it holds for every `Skew`.

Only model-checked:

- liveness, for which fairness and ENABLED are needed: `AnalysisSettles`,
  `PatchSettles`, `ReadingEnds`, `EveryRequestAnswered`, `RequestsEnd`,
  `ExecutionEnds`, `WorktreesGiveWay`, `CallEnds`;
- what the `failure`, `pages_sqlite` and `validation_timeout` runs refute.

## Not modelled

- JSON parsing, the event schema and RFC 8785 are libraries; fingerprints and
  checksums are model values. `fnmatch` patterns are areas of paths. Settings and
  policy files are read once and validated.
- The SDK inside `gateway.py`, its sandbox and its home directory: only what
  `analyze` and `patch` return or raise is visible to the worker.
- The contents of results, diffs and diagnostics, and their size limits other than
  as a reason to fail.
- Health probes, single-row reads, error rendering, HTML templates, CLI, probe
  scripts, migrations: no state of their own, one read or one call each.

## Plan

Done: tables, job transactions, approval, worker, their composition and its
invariant, the abstract life cycle, list pages, validation, the intake and the
approvals statement by statement with their abstract specifications, the timing of
leases, executions and worktrees, the detail page, the diff check, the limits on
reproduction data; the proofs above. Next:

1. Leases in a pool with no more threads than executions: how long a heartbeat waits
   then follows from `MaxValidation` and the length of the queue.
2. Simplify: one lemma per fact where two modules of proofs state the same.
