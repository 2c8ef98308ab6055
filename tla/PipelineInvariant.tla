--------------------------- MODULE PipelineInvariant ---------------------------
(***************************************************************************)
(* The inductive invariant of Pipeline.  The safety properties speak of    *)
(* what the tables show; that they survive every step depends on what the  *)
(* loops and the abandoned threads still hold, which is stated here.       *)
(***************************************************************************)
EXTENDS Pipeline

\* A job nobody created was never attempted, the token of a running job is the
\* number of its attempt, and attempts remain to a queued job.
JobsCounted ==
  \A i \in Incident, t \in JobType :
    /\ job[i][t].status = "ABSENT" => job[i][t].attempt = 0
    /\ job[i][t].status = "RUNNING" => job[i][t].token = job[i][t].attempt
    /\ job[i][t].status = "PENDING" => job[i][t].attempt < MaxAttempts
    /\ job[i][t].attempt <= MaxAttempts

\* A claim is never ahead of its job and its incident.
ClaimPast(c) ==
  /\ c.token <= JobOf(c).attempt
  /\ c.version <= incident[c.incident].version

SameExecution(c, d) == c.incident = d.incident /\ c.type = d.type /\ c.token = d.token

\* The mark_validating that loop w gave up on has committed since.
MarkedLate(w) ==
  LET row == incident[claim[w].incident] IN
  /\ outcome[w] \in {"FATAL", "CANCELLED"}
  /\ row.state = "VALIDATING" /\ row.version = ref[w] + 1

\* As long as loop w owns its job, nobody else has moved the incident: where w
\* is tells the incident's state and version.
StageKnown(w) ==
  LET c == claim[w]
      row == incident[c.incident]
  IN /\ pc[w] \in {"mark", "validate"} => c.type = "PATCH"
     /\ Owns(c) =>
          /\ c.type = "ANALYZE" => row.version = c.version /\ ref[w] = c.version
          /\ c.type = "PATCH" /\ pc[w] \in {"execute", "mark"}
               => row.version = c.version /\ ref[w] = c.version /\ row.state = "PATCHING"
          /\ c.type = "PATCH" /\ (pc[w] = "validate" \/ (pc[w] = "finalize" /\ outcome[w] = "OK"))
               => row.version = ref[w] /\ row.state = "VALIDATING"
          /\ c.type = "PATCH" /\ pc[w] = "finalize"
               => row.version = ref[w] \/ MarkedLate(w)

ClaimsSound ==
  \A w \in Worker : pc[w] \in Holding => ClaimPast(claim[w]) /\ StageKnown(w)

\* An abandoned mark_validating that would still be accepted finds the incident
\* in PATCHING.
OrphanSound(c) ==
  /\ c.type = "PATCH"
  /\ ClaimPast(c)
  /\ Owns(c) /\ incident[c.incident].version = c.version
       => incident[c.incident].state = "PATCHING"

OrphansSound == \A w \in Worker : \A c \in orphans[w] : OrphanSound(c)

LoopsDistinct ==
  \A v, w \in Worker :
    v # w /\ pc[v] \in Holding /\ pc[w] \in Holding => ~SameExecution(claim[v], claim[w])

\* An abandoned thread shares its execution only with the loop that gave up on it.
OrphansDistinct ==
  \A v, w \in Worker : \A c \in orphans[w] :
    pc[v] \in Holding /\ SameExecution(c, claim[v])
      => v = w /\ pc[v] = "finalize" /\ outcome[v] \in {"FATAL", "CANCELLED"}

\* The inductive invariant: the tables agree, the claims know their place, and
\* executions are told apart by their tokens.
IInv ==
  /\ TypeOK
  /\ LifecycleConsistent
  /\ JobsCounted
  /\ ClaimsSound
  /\ OrphansSound
  /\ LoopsDistinct
  /\ OrphansDistinct
================================================================================
