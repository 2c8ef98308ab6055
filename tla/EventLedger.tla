------------------------------- MODULE EventLedger -------------------------------
(***************************************************************************)
(* What the intake promises: every request is answered as if it had been   *)
(* handled at one instant, and a service file is registered at one         *)
(* instant, as under BEGIN IMMEDIATE in SQLite.                            *)
(***************************************************************************)
EXTENDS EventTables

\* A new event joins the open incident of its grouping if there is one, and
\* otherwise opens one, below the job limit, in the repository of its service.
Accept(r, sha) ==
  LET path == service[Body[r].service]
      group == Grouped(r, sha) IN
  /\ answer[r] = Unanswered
  /\ path # NoPath
  /\ StoredAs(r) = {}
  /\ sha \in Resolvable(r, path)
  /\ \/ \E i \in group : JoinIncident(r, i, incident[i].count)
     \/ /\ group = {}
        /\ Cardinality(ActiveJobs) < JobLimit
        /\ OpenIncident(r, path, sha)

Repeat(r) == answer[r] = Unanswered /\ AnswerFromStored(r)

\* Refusals store nothing.  A full job table is a reason only while it is full,
\* and an unknown service only while its row is missing.
Decline(r, kind) ==
  /\ answer[r] = Unanswered
  /\ kind = "JOB_LIMIT" => Cardinality(ActiveJobs) >= JobLimit
  /\ kind = "UNKNOWN_SERVICE" => service[Body[r].service] = NoPath
  /\ Refuse(r, kind)

Register(plan) ==
  /\ \A s \in DOMAIN plan : MovesRepository(s, plan[s]) => OpenOf(s) = {}
  /\ service' = Registered(plan)
  /\ UNCHANGED <<setting, incident, stored, answer>>

Next ==
  \/ \E r \in Request : \/ \E sha \in Commit : Accept(r, sha)
                        \/ Repeat(r)
                        \/ \E kind \in Refusals \ {"OTHER_PAYLOAD"} : Decline(r, kind)
  \/ \E i \in Request : Approve(i) \/ \E to \in {"AWAITING_APPROVAL", "CLOSED"} : Settle(i, to)
  \/ \E plan \in Plan : Register(plan)

Spec == TablesInit /\ [][Next]_tables
================================================================================
