------------------------------- MODULE ApprovalDesk -------------------------------
(***************************************************************************)
(* What the approval of incidents promises its clients: every request is   *)
(* answered as if it had been handled at the instant of its answer, and    *)
(* the approval's rows appear at one instant with it.                      *)
(***************************************************************************)
EXTENDS Integers, FiniteSets

CONSTANTS
  Request,      \* POST /v1/incidents/{id}/approve, resent until answered
  Incident,
  Key,
  Target,       \* [Request -> Incident]
  KeyOf,        \* [Request -> Key], the Idempotency-Key
  NoKey,        \* no approval row
  JobLimit      \* Limits.job_limit

ASSUME TargetAssumption == Target \in [Request -> Incident] /\ KeyOf \in [Request -> Key]
ASSUME LimitAssumption == JobLimit \in Nat /\ NoKey \notin Key

VARIABLES
  state,       \* incidents.state; "ABSENT" without a row
  approval,    \* the key of the incident's approval row
  answer       \* what the client of each request was told

desk == <<state, approval, answer>>

\* Incidents by the job they have waiting or running: one stage of each job.
States == {"ABSENT", "ANALYZING", "AWAITING_APPROVAL", "PATCHING", "CLOSED"}
ActiveJobs == {i \in Incident : state[i] \in {"ANALYZING", "PATCHING"}}

Answers == {"NONE", "APPROVED", "DUPLICATE", "NOT_FOUND", "OTHER_INCIDENT",
            "NOT_AWAITING", "JOB_LIMIT", "INTERNAL"}

Open(r) == answer[r] = "NONE"
Tell(r, a) == answer' = [answer EXCEPT ![r] = a]

KeyUsed(r) == \E i \in Incident : approval[i] = KeyOf[r]

\* The approval, its patch run and its job.
Granted(r) ==
  /\ approval' = [approval EXCEPT ![Target[r]] = KeyOf[r]]
  /\ state' = [state EXCEPT ![Target[r]] = "PATCHING"]

Approve(r) ==
  /\ Open(r) /\ ~KeyUsed(r)
  /\ state[Target[r]] = "AWAITING_APPROVAL" /\ approval[Target[r]] = NoKey
  /\ Cardinality(ActiveJobs) < JobLimit
  /\ Granted(r)
  /\ answer' \in {answer, [answer EXCEPT ![r] = "APPROVED"]}   \* the answer may be lost

\* A reason a request is answered otherwise, true at that instant.
Reason(r, a) ==
  LET mine == approval[Target[r]] = KeyOf[r] IN
  CASE a = "DUPLICATE" -> mine
    [] a = "NOT_FOUND" -> state[Target[r]] = "ABSENT"
    [] a = "OTHER_INCIDENT" -> \E i \in Incident \ {Target[r]} : approval[i] = KeyOf[r]
    [] a = "NOT_AWAITING" -> ~mine /\ state[Target[r]] # "AWAITING_APPROVAL"
    [] a = "JOB_LIMIT" -> ~mine /\ Cardinality(ActiveJobs) >= JobLimit
    [] OTHER -> FALSE

Decline(r, a) == Open(r) /\ Reason(r, a) /\ Tell(r, a) /\ UNCHANGED <<state, approval>>

\* Events open incidents below the limit; workers end analyses and patches.
Receive(i) ==
  /\ state[i] = "ABSENT" /\ Cardinality(ActiveJobs) < JobLimit
  /\ state' = [state EXCEPT ![i] = "ANALYZING"]
  /\ UNCHANGED <<approval, answer>>

\* The jobs of some incidents end at once, as in a recovery: some of the analyses
\* with something to approve.
JobsEnd(ended) ==
  /\ ended \subseteq ActiveJobs
  /\ \E analysed \in SUBSET {i \in ended : state[i] = "ANALYZING"} :
       state' = [i \in Incident |-> IF i \in analysed THEN "AWAITING_APPROVAL"
                                    ELSE IF i \in ended THEN "CLOSED" ELSE state[i]]
  /\ UNCHANGED <<approval, answer>>

Init ==
  /\ state \in [Incident -> {"ABSENT", "AWAITING_APPROVAL"}]
  /\ approval = [i \in Incident |-> NoKey]
  /\ answer = [r \in Request |-> "NONE"]

Next ==
  \/ \E r \in Request : Approve(r) \/ \E a \in Answers : Decline(r, a)
  \/ \E i \in Incident : Receive(i)
  \/ \E ended \in SUBSET ActiveJobs : JobsEnd(ended)

Spec == Init /\ [][Next]_desk
===================================================================================
