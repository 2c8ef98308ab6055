------------------------------- MODULE EventTables -------------------------------
(***************************************************************************)
(* The rows an event receipt works on (aeh/db.py): services, error events  *)
(* with their occurrence, and incidents with their unfinished job.  A      *)
(* request stores at most one event, so the event and occurrence rows are  *)
(* named after the request that stored them, and an incident after the     *)
(* request that opened it.                                                 *)
(***************************************************************************)
EXTENDS Integers, FiniteSets

CONSTANTS
  Service,        \* service keys
  Request,        \* POST requests carrying an event
  Path,           \* values of services.repository_path
  Commit,         \* full commit ids
  RepositoryAt,   \* [Path -> repository]: two spellings may reach one repository
  CommitsOf,      \* [Path -> SUBSET Commit]: the commits of that repository
  Setting,        \* what a behaviour starts from: the requests' bodies, the service
                  \* files that may be registered, the database
  JobLimit,       \* Limits.job_limit
  NoPath, NoCommit, NoIncident

ASSUME RepositoryAssumption ==
  /\ \A p \in Path : CommitsOf[p] \subseteq Commit
  /\ \A p, q \in Path : RepositoryAt[p] = RepositoryAt[q] => CommitsOf[p] = CommitsOf[q]

\* A service file names some services: [SUBSET Service -> Path].
ASSUME SettingAssumption ==
  \A g \in Setting :
    /\ g.backend \in {"sqlite", "postgresql"}
    /\ \A r \in Request : /\ g.body[r].service \in Service
                          /\ g.body[r].commit \in Commit \cup {NoCommit}
    /\ \A plan \in g.plans : /\ DOMAIN plan \subseteq Service
                             /\ \A s \in DOMAIN plan : plan[s] \in Path

ASSUME LimitAssumption == JobLimit \in Nat

ASSUME NoneAssumption ==
  NoPath \notin Path /\ NoCommit \notin Commit /\ NoIncident \notin Request

VARIABLES
  setting,    \* the member of Setting, which no step changes
  service,    \* services.repository_path, NoPath while the row is missing
  incident,   \* incident rows
  stored,     \* the incident whose occurrence holds the request's event
  answer      \* what the request was answered

tables == <<setting, service, incident, stored, answer>>

Body == setting.body        \* [Request -> the parsed event]
Plan == setting.plans
Backend == setting.backend

\* The open states, RECEIVED standing for ANALYZING and PATCHING for VALIDATING.
OpenStates == {"RECEIVED", "AWAITING_APPROVAL", "PATCHING"}

NoRow == [state |-> "ABSENT", path |-> NoPath, sha |-> NoCommit, count |-> 0]

Unanswered == [kind |-> "NONE", incident |-> NoIncident]

\* The two answers of 202: duplicate is false, or true.
Received(kind, i) == [kind |-> kind, incident |-> i]

\* The answers without an incident: the error codes of ingest.
Refused(kind) == [kind |-> kind, incident |-> NoIncident]

Refusals == {"UNKNOWN_SERVICE", "OTHER_PAYLOAD", "NO_COMMIT", "GIT_UNAVAILABLE",
             "REPOSITORY_CHANGED", "JOB_LIMIT", "UNSETTLED", "FAILED"}

Open == {i \in Request : incident[i].state \in OpenStates}

\* The PENDING and RUNNING jobs: an incident has one unfinished job exactly in
\* the states that wait for a job.
ActiveJobs == {i \in Request : incident[i].state \in {"RECEIVED", "PATCHING"}}

\* The error_events row with the identity of r's event (uq_error_event_identity).
SameEvent(r, q) == Body[r].service = Body[q].service /\ Body[r].event = Body[q].event
StoredAs(r) == {q \in Request : stored[q] # NoIncident /\ SameEvent(r, q)}

\* The incidents of r's service and fingerprint at sha that are open
\* (uq_incidents_open_grouping).
Grouped(r, sha) ==
  {i \in Open : /\ Body[i].service = Body[r].service
                /\ Body[i].fingerprint = Body[r].fingerprint
                /\ incident[i].sha = sha}

\* What resolve_commit may return for r in the repository at path: the given
\* commit, or, without one, whatever the default branch points at when read.
Resolvable(r, path) ==
  CommitsOf[path] \cap (IF Body[r].commit = NoCommit THEN Commit ELSE {Body[r].commit})

\* A registered path that reaches another repository than the stored one.
MovesRepository(s, path) ==
  service[s] # NoPath /\ RepositoryAt[service[s]] # RepositoryAt[path]

OpenOf(s) == {i \in Open : Body[i].service = s}

\* A plan as it is committed: every service named in it gets its path.
Registered(plan) ==
  [s \in Service |-> IF s \in DOMAIN plan THEN plan[s] ELSE service[s]]

\* The event and occurrence rows, and the incident that they open or join.
OpenIncident(r, path, sha) ==
  /\ incident' = [incident EXCEPT ![r] =
                    [state |-> "RECEIVED", path |-> path, sha |-> sha, count |-> 1]]
  /\ stored' = [stored EXCEPT ![r] = r]
  /\ answer' = [answer EXCEPT ![r] = Received("ACCEPTED", r)]
  /\ UNCHANGED <<setting, service>>

JoinIncident(r, i, count) ==
  /\ incident' = [incident EXCEPT ![i].count = count + 1]
  /\ stored' = [stored EXCEPT ![r] = i]
  /\ answer' = [answer EXCEPT ![r] = Received("ACCEPTED", i)]
  /\ UNCHANGED <<setting, service>>

\* _duplicate: the stored event decides between its incident and 409.
AnswerFromStored(r) ==
  \E q \in StoredAs(r) :
    /\ answer' = [answer EXCEPT ![r] =
                    IF Body[q].checksum = Body[r].checksum
                    THEN Received("DUPLICATE", stored[q])
                    ELSE Refused("OTHER_PAYLOAD")]
    /\ UNCHANGED <<setting, service, incident, stored>>

Refuse(r, kind) ==
  /\ answer' = [answer EXCEPT ![r] = Refused(kind)]
  /\ UNCHANGED <<setting, service, incident, stored>>

\* A finished ANALYZE or PATCH job moves its incident on, in one transaction.
Settle(i, to) ==
  /\ \/ incident[i].state = "RECEIVED" /\ to \in {"AWAITING_APPROVAL", "CLOSED"}
     \/ incident[i].state = "PATCHING" /\ to = "CLOSED"
  /\ incident' = [incident EXCEPT ![i].state = to]
  /\ UNCHANGED <<setting, service, stored, answer>>

\* An approval adds a PATCH job, below the limit only.
Approve(i) ==
  /\ incident[i].state = "AWAITING_APPROVAL"
  /\ Cardinality(ActiveJobs) < JobLimit
  /\ incident' = [incident EXCEPT ![i].state = "PATCHING"]
  /\ UNCHANGED <<setting, service, stored, answer>>

TablesInit ==
  /\ setting \in Setting
  /\ service = [s \in Service |-> NoPath]
  /\ incident = [i \in Request |-> NoRow]
  /\ stored = [r \in Request |-> NoIncident]
  /\ answer = [r \in Request |-> Unanswered]
================================================================================
