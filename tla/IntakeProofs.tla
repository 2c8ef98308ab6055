------------------------------ MODULE IntakeProofs ------------------------------
(***************************************************************************)
(* Proofs about Intake, for any number of requests, services, incidents    *)
(* and tries: the three invariants, and that every receipt and every       *)
(* registration is EventLedger's.                                          *)
(*                                                                         *)
(* The inductive invariant says what a request may rely on at each of its  *)
(* statements, because a lock it holds keeps the others from changing it.  *)
(* Nothing in the proofs uses MayWrite: the row locks, the advisory lock   *)
(* and the unique indexes are enough without SQLite's BEGIN IMMEDIATE.     *)
(***************************************************************************)
EXTENDS Intake, FiniteSetTheorems, TLAPS

IncidentStates == OpenStates \cup {"ABSENT", "CLOSED"}
IncidentRow == [state : IncidentStates, path : Path \cup {NoPath},
                sha : Commit \cup {NoCommit}, count : Nat]
AnswerRow == [kind : {"NONE", "ACCEPTED", "DUPLICATE"} \cup Refusals,
              incident : Request \cup {NoIncident}]
Statement == {"new", "resolve", "begin", "done"} \cup InTransaction
SyncRow == [active : BOOLEAN, plan : Plan \cup {<<>>}, left : SUBSET Service, syncs : Nat]

TablesTyped ==
  /\ setting \in Setting
  /\ service \in [Service -> Path \cup {NoPath}]
  /\ incident \in [Request -> IncidentRow]
  /\ stored \in [Request -> Request \cup {NoIncident}]
  /\ answer \in [Request -> AnswerRow]

LocalsTyped ==
  /\ pc \in [Request -> Statement]
  /\ path \in [Request -> Path \cup {NoPath}]
  /\ sha \in [Request -> Commit \cup {NoCommit}]
  /\ found \in [Request -> Request \cup {NoIncident}]
  /\ count \in [Request -> Nat]
  /\ tries \in [Request -> Nat]

SyncTyped == sync \in SyncRow /\ (sync.active => sync.plan \in Plan)

TypeOK == TablesTyped /\ LocalsTyped /\ SyncTyped

\* An event is stored once, an incident by the event that opened it, and what a
\* client was told is what is stored.
StoredSound ==
  /\ \A r \in Request : incident[r].state # "ABSENT" => stored[r] = r
  /\ \A r, q \in Request :
       SameEvent(r, q) /\ stored[r] # NoIncident /\ stored[q] # NoIncident => r = q
  /\ \A r \in Request : answer[r].incident # NoIncident =>
       \E q \in StoredAs(r) : /\ answer[r].incident = stored[q]
                              /\ answer[r].kind = "ACCEPTED" => q = r

\* An incident that r's event may belong to: it was open when r looked for it.
Candidate(r, i) ==
  /\ i \in Request
  /\ incident[i].state # "ABSENT"
  /\ Body[i].service = Body[r].service
  /\ Body[i].fingerprint = Body[r].fingerprint
  /\ incident[i].sha = sha[r]

\* What request r may rely on at its next statement.
RequestSound(r) ==
  /\ pc[r] # "done" => answer[r] = Unanswered
  /\ pc[r] \in {"resolve", "begin"} \cup InTransaction => path[r] \in Path
  /\ pc[r] \in {"begin"} \cup InTransaction => sha[r] \in Resolvable(r, path[r])
  /\ pc[r] \in InTransaction => service[Body[r].service] = path[r]
  /\ pc[r] \in {"lock", "join"} => Candidate(r, found[r])
  /\ pc[r] = "join" => /\ incident[found[r]].state \in OpenStates
                       /\ incident[found[r]].count = count[r]
  /\ pc[r] = "create" => Cardinality(ActiveJobs) < JobLimit

\* An incident's row and the advisory lock have one holder.
LocksSound ==
  /\ \A r, q \in Request : pc[r] = "join" /\ pc[q] = "join" /\ found[r] = found[q] => r = q
  /\ \A r, q \in Request : pc[r] = "create" /\ pc[q] = "create" => r = q

\* The services that sync_services has gone through: nobody is receiving for
\* them, and none of them is moved away from an open incident.
SyncSound ==
  sync.active =>
    \A s \in DOMAIN sync.plan \ sync.left : Sharing(s) = {} /\ MayMove(s)

IInv ==
  /\ TypeOK
  /\ StoredSound
  /\ \A r \in Request : RequestSound(r)
  /\ LocksSound
  /\ SyncSound
  /\ IsFiniteSet(ActiveJobs)
  /\ OneOpenPerGrouping
  /\ OpenKeepsRepository

--------------------------------------------------------------------------------
(* What the writes do to the stored events *)

\* A request is for a known kind of service, and a file names only known ones.
LEMMA SettingTyped ==
  ASSUME TablesTyped
  PROVE  /\ \A r \in Request : Body[r].service \in Service
         /\ \A plan \in Plan : DOMAIN plan \subseteq Service /\ \A s \in DOMAIN plan : plan[s] \in Path
BY SettingAssumption DEF TablesTyped, Body, Plan

\* An answer taken from a stored event, or without one, agrees with it.
LEMMA AnswerAgrees ==
  ASSUME TablesTyped, StoredSound, NEW r \in Request,
         (\E kind \in Refusals : Refuse(r, kind)) \/ AnswerFromStored(r)
  PROVE  /\ TablesTyped' /\ StoredSound'
         /\ UNCHANGED <<setting, service, incident, stored>>
         /\ \A q \in Request \ {r} : answer'[q] = answer[q]
<1>1. UNCHANGED <<setting, service, incident, stored>>
  BY DEF Refuse, AnswerFromStored
<1>2. \A q \in Request : StoredAs(q)' = StoredAs(q)
  BY <1>1 DEF StoredAs, SameEvent, Body
<1>3. PICK a \in AnswerRow :
        /\ answer' = [answer EXCEPT ![r] = a]
        /\ a.incident # NoIncident =>
             a.kind # "ACCEPTED" /\ \E q \in StoredAs(r) : a.incident = stored[q]
  <2>1. CASE \E kind \in Refusals : Refuse(r, kind)
    <3>1. PICK kind \in Refusals : answer' = [answer EXCEPT ![r] = Refused(kind)]
      BY <2>1 DEF Refuse
    <3>2. Refused(kind) \in AnswerRow /\ Refused(kind).incident = NoIncident
      BY DEF Refused, AnswerRow
    <3> QED BY <3>1, <3>2
  <2>2. CASE AnswerFromStored(r)
    <3>1. PICK q \in StoredAs(r) :
            answer' = [answer EXCEPT ![r] = IF Body[q].checksum = Body[r].checksum
                                            THEN Received("DUPLICATE", stored[q])
                                            ELSE Refused("OTHER_PAYLOAD")]
      BY <2>2 DEF AnswerFromStored
    <3>2. stored[q] \in Request \cup {NoIncident}
      BY DEF StoredAs, TablesTyped
    <3> DEFINE b == IF Body[q].checksum = Body[r].checksum
                    THEN Received("DUPLICATE", stored[q])
                    ELSE Refused("OTHER_PAYLOAD")
    <3>3. /\ b \in AnswerRow
          /\ b.incident # NoIncident => b.kind # "ACCEPTED" /\ b.incident = stored[q]
      BY <3>2 DEF Received, Refused, Refusals, AnswerRow
    <3> HIDE DEF b
    <3>4. answer' = [answer EXCEPT ![r] = b]
      BY <3>1 DEF b
    <3> QED BY <3>3, <3>4
  <2> QED BY <2>1, <2>2
<1>4. TablesTyped'
  BY <1>1, <1>3 DEF TablesTyped
<1>5. \A q \in Request \ {r} : answer'[q] = answer[q]
  BY <1>3 DEF TablesTyped
<1>6. answer'[r] = a
  BY <1>3 DEF TablesTyped
<1>7. \A x \in Request : answer'[x].incident # NoIncident =>
        \E q \in StoredAs(x) : /\ answer'[x].incident = stored[q]
                               /\ answer'[x].kind = "ACCEPTED" => q = x
  BY <1>3, <1>5, <1>6 DEF StoredSound
<1>8. StoredSound'
  BY <1>1, <1>2, <1>7 DEF StoredSound, SameEvent, Body
<1> QED BY <1>1, <1>4, <1>5, <1>8

\* A first event of its identity is stored: what was told of others stays true.
LEMMA StoringAgrees ==
  ASSUME TablesTyped, StoredSound, NEW r \in Request, StoredAs(r) = {},
         NEW i \in Request, stored' = [stored EXCEPT ![r] = i],
         answer' = [answer EXCEPT ![r] = Received("ACCEPTED", i)],
         setting' = setting
  PROVE  /\ stored[r] = NoIncident
         /\ \A x, q \in Request :
              SameEvent(x, q)' /\ stored'[x] # NoIncident /\ stored'[q] # NoIncident => x = q
         /\ \A x \in Request : answer'[x].incident # NoIncident =>
              \E q \in StoredAs(x)' : /\ answer'[x].incident = stored'[q]
                                      /\ answer'[x].kind = "ACCEPTED" => q = x
<1>1. \A x, q \in Request : SameEvent(x, q)' <=> SameEvent(x, q)
  BY DEF SameEvent, Body
<1>2. stored[r] = NoIncident
  BY DEF StoredAs, SameEvent
<1>3. \A q \in Request : SameEvent(r, q) => stored[q] = NoIncident
  BY DEF StoredAs
<1>4. \A q \in Request : SameEvent(q, r) => stored[q] = NoIncident
  BY <1>3 DEF SameEvent
<1>5. stored'[r] = i /\ \A q \in Request \ {r} : stored'[q] = stored[q]
  BY DEF TablesTyped
<1>6. i # NoIncident
  BY NoneAssumption
<1>7. \A x, q \in Request :
        SameEvent(x, q)' /\ stored'[x] # NoIncident /\ stored'[q] # NoIncident => x = q
  BY <1>1, <1>3, <1>4, <1>5 DEF StoredSound
<1>8. ASSUME NEW x \in Request, answer'[x].incident # NoIncident
      PROVE  \E q \in StoredAs(x)' : /\ answer'[x].incident = stored'[q]
                                     /\ answer'[x].kind = "ACCEPTED" => q = x
  <2>1. CASE x = r
    <3>1. r \in StoredAs(r)'
      BY <1>5, <1>6 DEF StoredAs, SameEvent
    <3>2. answer'[r].incident = stored'[r]
      BY <1>5 DEF TablesTyped, Received
    <3> QED BY <2>1, <3>1, <3>2
  <2>2. CASE x # r
    <3>1. answer'[x] = answer[x]
      BY <2>2 DEF TablesTyped
    <3>2. PICK q \in StoredAs(x) : /\ answer[x].incident = stored[q]
                                   /\ answer[x].kind = "ACCEPTED" => q = x
      BY <1>8, <3>1 DEF StoredSound
    <3>3. q \in Request /\ q # r /\ stored'[q] = stored[q]
      BY <1>2, <1>5, <3>2 DEF StoredAs
    <3>4. q \in StoredAs(x)'
      BY <1>1, <3>3 DEF StoredAs
    <3> QED BY <3>1, <3>2, <3>3, <3>4
  <2> QED BY <2>1, <2>2
<1> QED BY <1>2, <1>7, <1>8

\* The event opens an incident, which did not exist.
LEMMA OpeningAgrees ==
  ASSUME TablesTyped, StoredSound, NEW r \in Request, StoredAs(r) = {},
         NEW p \in Path, NEW c \in Commit, OpenIncident(r, p, c)
  PROVE  TablesTyped' /\ StoredSound' /\ incident[r].state = "ABSENT"
<1>1. stored[r] = NoIncident /\ incident[r].state = "ABSENT"
  BY NoneAssumption DEF StoredAs, SameEvent, StoredSound
<1>2. TablesTyped'
  BY DEF OpenIncident, TablesTyped, IncidentRow, IncidentStates, OpenStates, Received, AnswerRow
<1>3. \A x \in Request : incident'[x].state # "ABSENT" => stored'[x] = x
  BY DEF OpenIncident, TablesTyped, StoredSound
<1> QED BY <1>1, <1>2, <1>3, StoringAgrees DEF OpenIncident, StoredSound

\* The event joins an incident.
LEMMA JoiningAgrees ==
  ASSUME TablesTyped, StoredSound, NEW r \in Request, StoredAs(r) = {},
         NEW i \in Request, incident[i].state # "ABSENT", NEW n \in Nat, JoinIncident(r, i, n)
  PROVE  TablesTyped' /\ StoredSound'
<1>1. TablesTyped'
  <2>1. incident' \in [Request -> IncidentRow]
    BY DEF JoinIncident, TablesTyped, IncidentRow
  <2>2. answer' \in [Request -> AnswerRow]
    BY DEF JoinIncident, TablesTyped, Received, AnswerRow
  <2> QED BY <2>1, <2>2 DEF JoinIncident, TablesTyped
<1>2. stored[r] = NoIncident
  BY DEF StoredAs, SameEvent
<1>3. \A x \in Request : incident'[x].state = incident[x].state
  BY DEF JoinIncident, TablesTyped, IncidentRow
<1>4. \A x \in Request : incident'[x].state # "ABSENT" => stored'[x] = x
  BY <1>2, <1>3, NoneAssumption DEF JoinIncident, TablesTyped, StoredSound
<1> QED BY <1>1, <1>4, StoringAgrees DEF JoinIncident, StoredSound

\* A job's end and an approval change an incident's state only.
LEMMA MovingAgrees ==
  ASSUME TablesTyped, StoredSound, NEW i \in Request,
         Approve(i) \/ \E to \in {"AWAITING_APPROVAL", "CLOSED"} : Settle(i, to)
  PROVE  /\ TablesTyped' /\ StoredSound'
         /\ incident[i].state # "ABSENT" /\ incident'[i].state # "ABSENT"
         /\ \A x \in Request : /\ incident'[x].sha = incident[x].sha
                               /\ incident'[x].path = incident[x].path
                               /\ x # i => incident'[x] = incident[x]
         /\ UNCHANGED <<setting, service, stored, answer>>
<1>1. PICK s \in IncidentStates \ {"ABSENT"} :
        /\ incident' = [incident EXCEPT ![i].state = s]
        /\ incident[i].state # "ABSENT"
        /\ UNCHANGED <<setting, service, stored, answer>>
  BY DEF Approve, Settle, IncidentStates, OpenStates
<1>2. TablesTyped'
  BY <1>1 DEF TablesTyped, IncidentRow
<1>3. /\ incident'[i].state = s
      /\ \A x \in Request : /\ incident'[x].sha = incident[x].sha
                            /\ incident'[x].path = incident[x].path
                            /\ x # i => incident'[x] = incident[x]
  BY <1>1 DEF TablesTyped, IncidentRow
<1>4. \A x \in Request : StoredAs(x)' = StoredAs(x)
  BY <1>1 DEF StoredAs, SameEvent, Body
<1>5. \A x \in Request : incident'[x].state # "ABSENT" => stored'[x] = x
  BY <1>1, <1>3 DEF StoredSound
<1>6. StoredSound'
  BY <1>1, <1>4, <1>5 DEF StoredSound, SameEvent, Body
<1> QED BY <1>1, <1>2, <1>3, <1>6

--------------------------------------------------------------------------------
(* The requests between their writes *)

\* A step of another request, a worker or a registration that leaves q alone.
LocalsKept(q) ==
  /\ pc'[q] = pc[q] /\ path'[q] = path[q] /\ sha'[q] = sha[q]
  /\ found'[q] = found[q] /\ count'[q] = count[q]

\* What q relies on stays true while its answer, the service it has locked and
\* the incident it has locked do, no incident vanishes, and the jobs stay below
\* the limit that q has checked.
LEMMA StillSound ==
  ASSUME NEW q \in Request, RequestSound(q), LocalsKept(q), setting' = setting,
         pc[q] # "done" => answer'[q] = answer[q],
         pc[q] \in InTransaction => service'[Body[q].service] = service[Body[q].service],
         \A i \in Request : incident[i].state # "ABSENT" =>
           incident'[i].state # "ABSENT" /\ incident'[i].sha = incident[i].sha,
         pc[q] = "join" => incident'[found[q]] = incident[found[q]],
         pc[q] = "create" => Cardinality(ActiveJobs') < JobLimit
  PROVE  RequestSound(q)'
<1>1. Body' = Body /\ \A p \in Path : Resolvable(q, p)' = Resolvable(q, p)
  BY DEF Body, Resolvable
<1>2. pc[q] \in {"lock", "join"} => Candidate(q, found[q])'
  BY <1>1 DEF RequestSound, Candidate, LocalsKept
<1>3. pc[q] \in {"begin"} \cup InTransaction => (sha[q] \in Resolvable(q, path[q]))'
  BY <1>1 DEF RequestSound, LocalsKept, InTransaction
<1> QED BY <1>1, <1>2, <1>3 DEF RequestSound, LocalsKept

\* A statement that only reads, and takes the lock that the next one needs.
Reads(r) ==
  /\ UNCHANGED <<tables, sync>> /\ LocalsTyped'
  /\ \A q \in Request \ {r} : LocalsKept(q)
  /\ RequestSound(r)'
  /\ pc'[r] = "join" => Joining(found'[r]) = {}
  /\ pc'[r] = "create" => Advising = {}
  /\ pc'[r] \in InTransaction =>
       \/ pc[r] \in InTransaction
       \/ ~(sync.active /\ Body[r].service \in DOMAIN sync.plan \ sync.left)

\* A statement that only reads takes nothing from the others.
LEMMA ReadSound ==
  ASSUME IInv, NEW r \in Request, Reads(r)
  PROVE  IInv'
<1> USE DEF Reads
<1>1. TypeOK' /\ StoredSound' /\ IsFiniteSet(ActiveJobs)' /\ OneOpenPerGrouping' /\ OpenKeepsRepository'
  <2> QED BY DEF IInv, tables, TypeOK, TablesTyped, SyncTyped, SyncRow, Plan, StoredSound, StoredAs,
                 SameEvent, Body, ActiveJobs, Open, OneOpenPerGrouping, OpenKeepsRepository
<1>2. ASSUME NEW q \in Request, q # r PROVE RequestSound(q)'
  BY <1>2, StillSound DEF IInv, tables, ActiveJobs, RequestSound
<1>3. LocksSound'
  BY DEF IInv, LocksSound, LocalsKept, Joining, Advising
<1>4. SyncSound'
  <2> SUFFICES ASSUME sync.active, NEW s \in DOMAIN sync.plan \ sync.left
               PROVE  Sharing(s)' = {} /\ MayMove(s)'
    BY DEF SyncSound
  <2>1. Sharing(s) = {} /\ MayMove(s)
    BY DEF IInv, SyncSound
  <2>2. MayMove(s)'
    BY <2>1 DEF MayMove, MovesRepository, OpenOf, Open, Body, tables
  <2>3. \A q \in Request : pc'[q] \in InTransaction => Body'[q].service # s
    BY <2>1 DEF Sharing, Receiving, LocalsKept, Body, tables
  <2> QED BY <2>2, <2>3 DEF Sharing, Receiving
<1> QED BY <1>1, <1>2, <1>3, <1>4 DEF IInv

\* The end of a request: its locks are released.
LEMMA FinishTyped ==
  ASSUME LocalsTyped, NEW r \in Request, Finish(r)
  PROVE  /\ LocalsTyped' /\ pc'[r] = "done" /\ sync' = sync
         /\ \A q \in Request \ {r} : LocalsKept(q)
BY DEF Finish, Goto, LocalsTyped, LocalsKept, Statement

\* Fewer locks, the same services and incidents open.
LEMMA FinishUnlocks ==
  ASSUME IInv, NEW r \in Request, Finish(r), setting' = setting
  PROVE  /\ LocksSound'
         /\ \A s \in Service : Sharing(s)' \subseteq Sharing(s)
<1>1. /\ pc'[r] = "done" /\ \A q \in Request \ {r} : LocalsKept(q)
  BY FinishTyped DEF IInv, TypeOK
<1> QED BY <1>1 DEF IInv, LocksSound, LocalsKept, Sharing, Receiving, InTransaction, Body

\* A request answered without a write to the other tables.
LEMMA AnswerSound ==
  ASSUME IInv, NEW r \in Request, Finish(r),
         (\E kind \in Refusals : Refuse(r, kind)) \/ AnswerFromStored(r)
  PROVE  IInv'
<1>1. /\ TablesTyped' /\ StoredSound'
      /\ UNCHANGED <<setting, service, incident, stored>>
      /\ \A q \in Request \ {r} : answer'[q] = answer[q]
  BY AnswerAgrees DEF IInv, TypeOK
<1>2. /\ LocalsTyped' /\ pc'[r] = "done" /\ sync' = sync
      /\ \A q \in Request \ {r} : LocalsKept(q)
  BY FinishTyped DEF IInv, TypeOK
<1>3. TypeOK'
  BY <1>1, <1>2 DEF IInv, TypeOK, SyncTyped, SyncRow, Plan
<1>4. IsFiniteSet(ActiveJobs)' /\ OneOpenPerGrouping' /\ OpenKeepsRepository'
  BY <1>1 DEF IInv, ActiveJobs, Open, OneOpenPerGrouping, OpenKeepsRepository, Body
<1>5. \A q \in Request \ {r} : RequestSound(q)'
  BY <1>1, <1>2, StillSound DEF IInv, ActiveJobs, RequestSound
<1>6. RequestSound(r)'
  BY <1>2 DEF RequestSound, InTransaction
<1>7. LocksSound' /\ \A s \in Service : Sharing(s)' \subseteq Sharing(s)
  BY <1>1, FinishUnlocks
<1>8. SyncSound'
  <2>1. sync.active => DOMAIN sync.plan \subseteq Service
    BY SettingTyped DEF IInv, TypeOK, SyncTyped
  <2>2. \A s \in Service : MayMove(s)' = MayMove(s)
    BY <1>1, <1>2 DEF MayMove, MovesRepository, OpenOf, Open, Body
  <2> QED BY <1>2, <1>7, <2>1, <2>2 DEF IInv, SyncSound
<1> QED BY <1>1, <1>3, <1>4, <1>5, <1>6, <1>7, <1>8 DEF IInv

--------------------------------------------------------------------------------
(* The writes *)

\* The states and the commits of incidents decide which jobs are active, which
\* incidents are open and where; the count and a request's answer do not.
LEMMA JoinSound ==
  ASSUME IInv, NEW r \in Request, pc[r] = "join", EventIndexFree(r),
         JoinIncident(r, found[r], count[r]), Finish(r)
  PROVE  IInv'
<1>0. /\ TablesTyped /\ StoredSound /\ RequestSound(r) /\ StoredAs(r) = {}
      /\ count[r] \in Nat /\ found[r] \in Request /\ incident[found[r]].state # "ABSENT"
  BY DEF IInv, TypeOK, LocalsTyped, RequestSound, Candidate, EventIndexFree
<1>1. TablesTyped' /\ StoredSound'
  BY <1>0, JoiningAgrees
<1>2. /\ LocalsTyped' /\ pc'[r] = "done" /\ sync' = sync
      /\ \A q \in Request \ {r} : LocalsKept(q)
  BY FinishTyped DEF IInv, TypeOK
<1>3. /\ setting' = setting /\ service' = service
      /\ \A q \in Request \ {r} : answer'[q] = answer[q]
      /\ \A i \in Request : /\ incident'[i].state = incident[i].state
                            /\ incident'[i].sha = incident[i].sha
                            /\ incident'[i].path = incident[i].path
                            /\ i # found[r] => incident'[i] = incident[i]
  BY <1>0 DEF JoinIncident, TablesTyped, IncidentRow
<1>4. Open' = Open /\ ActiveJobs' = ActiveJobs /\ Body' = Body
  BY <1>3 DEF Open, ActiveJobs, Body
<1>5. TypeOK'
  BY <1>1, <1>2, <1>3 DEF IInv, TypeOK, SyncTyped, SyncRow, Plan
<1>6. IsFiniteSet(ActiveJobs)' /\ OneOpenPerGrouping' /\ OpenKeepsRepository'
  <2>1. \A i \in Open : i \in Request
    BY DEF Open
  <2> QED BY <1>3, <1>4, <2>1 DEF IInv, OneOpenPerGrouping, OpenKeepsRepository
<1>7. ASSUME NEW q \in Request, q # r PROVE RequestSound(q)'
  <2>1. pc[q] = "join" => found[q] # found[r] /\ found[q] \in Request
    BY <1>7 DEF IInv, LocksSound, RequestSound, Candidate
  <2> QED BY <1>2, <1>3, <1>4, <1>7, <2>1, StillSound DEF IInv, RequestSound
<1>8. RequestSound(r)'
  BY <1>2 DEF RequestSound, InTransaction
<1>9. LocksSound' /\ \A s \in Service : Sharing(s)' \subseteq Sharing(s)
  BY <1>3, FinishUnlocks
<1>10. SyncSound'
  <2>1. sync.active => DOMAIN sync.plan \subseteq Service
    BY SettingTyped DEF IInv, TypeOK, SyncTyped
  <2>2. \A s \in Service : MayMove(s)' = MayMove(s)
    BY <1>2, <1>3, <1>4 DEF MayMove, MovesRepository, OpenOf
  <2> QED BY <1>2, <1>9, <2>1, <2>2 DEF IInv, SyncSound
<1> QED BY <1>1, <1>5, <1>6, <1>7, <1>8, <1>9, <1>10 DEF IInv

\* The incident that is opened is the only one of its grouping, in the repository
\* its service has at the commit, and not of a service about to be moved.
LEMMA CreateSound ==
  ASSUME IInv, NEW r \in Request, pc[r] = "create", EventIndexFree(r), GroupingIndexFree(r),
         OpenIncident(r, path[r], sha[r]), Finish(r)
  PROVE  IInv'
<1>0. /\ TablesTyped /\ StoredSound /\ RequestSound(r) /\ StoredAs(r) = {}
      /\ path[r] \in Path /\ sha[r] \in Commit
      /\ service[Body[r].service] = path[r]
  BY DEF IInv, TypeOK, LocalsTyped, RequestSound, EventIndexFree, InTransaction, Resolvable
<1>1. TablesTyped' /\ StoredSound' /\ incident[r].state = "ABSENT"
  BY <1>0, OpeningAgrees
<1>2. /\ LocalsTyped' /\ pc'[r] = "done" /\ sync' = sync
      /\ \A q \in Request \ {r} : LocalsKept(q)
  BY FinishTyped DEF IInv, TypeOK
<1>3. /\ setting' = setting /\ service' = service
      /\ \A q \in Request \ {r} : answer'[q] = answer[q]
      /\ \A i \in Request : i # r => incident'[i] = incident[i]
      /\ incident'[r].state = "RECEIVED" /\ incident'[r].sha = sha[r] /\ incident'[r].path = path[r]
  BY <1>0 DEF OpenIncident, TablesTyped
<1>4. Open' = Open \cup {r} /\ ActiveJobs' = ActiveJobs \cup {r} /\ Body' = Body
  BY <1>3 DEF Open, OpenStates, ActiveJobs, Body
<1>5. TypeOK'
  BY <1>1, <1>2, <1>3 DEF IInv, TypeOK, SyncTyped, SyncRow, Plan
<1>6. IsFiniteSet(ActiveJobs)'
  BY <1>4, FS_AddElement DEF IInv
<1>7. OneOpenPerGrouping'
  <2>1. \A i \in Open : /\ i \in Request /\ i # r
                        /\ ~(/\ Body[i].service = Body[r].service
                             /\ Body[i].fingerprint = Body[r].fingerprint
                             /\ incident[i].sha = sha[r])
    BY <1>1 DEF GroupingIndexFree, Grouped, Open, OpenStates
  <2> QED BY <1>3, <1>4, <2>1 DEF IInv, OneOpenPerGrouping
<1>8. OpenKeepsRepository'
  <2>1. \A i \in Open : i \in Request /\ i # r
    BY <1>1 DEF Open, OpenStates
  <2> QED BY <1>0, <1>3, <1>4, <2>1, NoneAssumption DEF IInv, OpenKeepsRepository
<1>9. ASSUME NEW q \in Request, q # r PROVE RequestSound(q)'
  <2>1. pc[q] = "join" => incident[found[q]].state # "ABSENT" /\ found[q] \in Request
    BY <1>9 DEF IInv, RequestSound, Candidate
  <2>2. pc[q] # "create"
    BY <1>9 DEF IInv, LocksSound
  <2> QED BY <1>1, <1>2, <1>3, <1>9, <2>1, <2>2, StillSound DEF IInv, RequestSound
<1>10. RequestSound(r)'
  BY <1>2 DEF RequestSound, InTransaction
<1>11. LocksSound' /\ \A s \in Service : Sharing(s)' \subseteq Sharing(s)
  BY <1>3, FinishUnlocks
<1>12. SyncSound'
  <2>1. sync.active => DOMAIN sync.plan \subseteq Service
    BY SettingTyped DEF IInv, TypeOK, SyncTyped
  <2>2. \A s \in Service : Sharing(s) = {} => Body[r].service # s
    BY DEF Sharing, Receiving, InTransaction
  <2>3. \A s \in Service : Body[r].service # s => MayMove(s)' = MayMove(s)
    BY <1>2, <1>3, <1>4 DEF MayMove, MovesRepository, OpenOf
  <2> QED BY <1>2, <1>11, <2>1, <2>2, <2>3 DEF IInv, SyncSound
<1> QED BY <1>1, <1>5, <1>6, <1>7, <1>8, <1>9, <1>10, <1>11, <1>12 DEF IInv

\* A job's end or an approval waits for who has locked the incident, and an
\* approval for who has counted the jobs.
LEMMA MoveSound ==
  ASSUME IInv, NEW i \in Request, SettleIncident(i) \/ ApproveIncident(i)
  PROVE  IInv'
<1>0. /\ TablesTyped /\ StoredSound /\ UNCHANGED <<locals, sync>> /\ Joining(i) = {}
      /\ Approve(i) \/ \E to \in {"AWAITING_APPROVAL", "CLOSED"} : Settle(i, to)
  BY DEF IInv, TypeOK, SettleIncident, ApproveIncident
<1>1. /\ TablesTyped' /\ StoredSound'
      /\ incident[i].state # "ABSENT" /\ incident'[i].state # "ABSENT"
      /\ \A x \in Request : /\ incident'[x].sha = incident[x].sha
                            /\ incident'[x].path = incident[x].path
                            /\ x # i => incident'[x] = incident[x]
      /\ UNCHANGED <<setting, service, stored, answer>>
  BY <1>0, MovingAgrees
<1>2. TypeOK' /\ \A q \in Request : LocalsKept(q)
  BY <1>0, <1>1 DEF IInv, TypeOK, LocalsTyped, SyncTyped, SyncRow, Plan, LocalsKept, locals
<1>3. Open' \subseteq Open /\ Open \subseteq Request /\ Body' = Body
  <2>1. incident'[i].state \in OpenStates => incident[i].state \in OpenStates
    BY <1>0 DEF Approve, Settle, OpenStates
  <2> QED BY <1>1, <2>1 DEF Open, Body
<1>4. /\ IsFiniteSet(ActiveJobs)'
      /\ Advising # {} => Cardinality(ActiveJobs') <= Cardinality(ActiveJobs)
  <2>1. CASE Approve(i)
    <3>1. ActiveJobs' \subseteq ActiveJobs \cup {i}
      BY <1>1 DEF ActiveJobs
    <3>2. IsFiniteSet(ActiveJobs \cup {i})
      BY FS_AddElement DEF IInv
    <3>3. IsFiniteSet(ActiveJobs')
      BY <3>1, <3>2, FS_Subset
    <3>4. Advising = {}
      <4>1. CASE SettleIncident(i)
        BY <2>1, <4>1 DEF SettleIncident, Settle, Approve, TablesTyped, IncidentRow, IInv, TypeOK
      <4> QED BY <4>1 DEF ApproveIncident
    <3> QED BY <3>3, <3>4
  <2>2. CASE \E to \in {"AWAITING_APPROVAL", "CLOSED"} : Settle(i, to)
    <3>1. incident'[i].state \notin {"RECEIVED", "PATCHING"}
      BY <2>2 DEF Settle, TablesTyped, IncidentRow, IInv, TypeOK
    <3>2. ActiveJobs' \subseteq ActiveJobs
      BY <1>1, <3>1 DEF ActiveJobs
    <3> QED BY <3>2, FS_Subset DEF IInv
  <2> QED BY <1>0, <2>1, <2>2
<1>5. OneOpenPerGrouping' /\ OpenKeepsRepository'
  BY <1>1, <1>3 DEF IInv, OneOpenPerGrouping, OpenKeepsRepository
<1>6. ASSUME NEW q \in Request PROVE RequestSound(q)'
  <2>1. pc[q] = "join" => incident'[found[q]] = incident[found[q]]
    BY <1>0, <1>1 DEF Joining, IInv, RequestSound, Candidate
  <2>2. pc[q] = "create" => Cardinality(ActiveJobs') < JobLimit
    <3> SUFFICES ASSUME pc[q] = "create" PROVE Cardinality(ActiveJobs') < JobLimit
      OBVIOUS
    <3>1. Cardinality(ActiveJobs') <= Cardinality(ActiveJobs) /\ Cardinality(ActiveJobs) < JobLimit
      BY <1>4 DEF Advising, IInv, RequestSound
    <3>2. Cardinality(ActiveJobs') \in Nat /\ Cardinality(ActiveJobs) \in Nat
      BY <1>4, FS_CardinalityType DEF IInv
    <3> QED BY <3>1, <3>2, LimitAssumption
  <2> QED BY <1>1, <1>2, <2>1, <2>2, StillSound DEF IInv, RequestSound
<1>7. LocksSound' /\ \A s \in Service : Sharing(s)' = Sharing(s)
  BY <1>0, <1>3 DEF IInv, LocksSound, locals, Sharing, Receiving
<1>8. SyncSound'
  <2>1. sync.active => DOMAIN sync.plan \subseteq Service
    BY SettingTyped DEF IInv, TypeOK, SyncTyped
  <2>2. \A s \in Service : MayMove(s) => MayMove(s)'
    BY <1>0, <1>1, <1>3 DEF MayMove, MovesRepository, OpenOf
  <2> QED BY <1>0, <1>7, <2>1, <2>2 DEF IInv, SyncSound
<1> QED BY <1>1, <1>2, <1>4, <1>5, <1>6, <1>7, <1>8 DEF IInv

--------------------------------------------------------------------------------
(* Every statement of ingest is one of four things *)

\* The request is answered, for a reason that is true, and nothing is stored.
Answers(r) ==
  /\ pc[r] # "done" /\ Finish(r)
  /\ \/ AnswerFromStored(r)
     \/ \E kind \in Refusals \ {"OTHER_PAYLOAD"} :
          /\ Refuse(r, kind)
          /\ kind = "JOB_LIMIT" => Cardinality(ActiveJobs) >= JobLimit
          /\ kind = "UNKNOWN_SERVICE" => service[Body[r].service] = NoPath

Joins(r) == /\ pc[r] = "join" /\ EventIndexFree(r)
            /\ JoinIncident(r, found[r], count[r]) /\ Finish(r)

Creates(r) == /\ pc[r] = "create" /\ EventIndexFree(r) /\ GroupingIndexFree(r)
              /\ OpenIncident(r, path[r], sha[r]) /\ Finish(r)

Handles(r) == Answers(r) \/ Reads(r) \/ Joins(r) \/ Creates(r)

\* Before the transaction.
LEMMA BeforeHandles ==
  ASSUME IInv, NEW r \in Request, Look(r) \/ Resolve(r)
  PROVE  Handles(r)
<1>0. LocalsTyped /\ RequestSound(r) /\ Body[r].service \in Service /\ TablesTyped
  BY SettingTyped DEF IInv, TypeOK
<1>1. CASE Look(r)
  <2>1. CASE /\ service[Body[r].service] # NoPath
             /\ path' = [path EXCEPT ![r] = service[Body[r].service]]
             /\ Goto(r, "resolve")
             /\ UNCHANGED <<tables, sha, found, count, tries, sync>>
    <3>1. /\ pc'[r] = "resolve" /\ path'[r] \in Path /\ LocalsTyped'
          /\ \A q \in Request \ {r} : LocalsKept(q)
      BY <1>0, <2>1 DEF Goto, LocalsTyped, LocalsKept, Statement, TablesTyped
    <3>2. RequestSound(r)'
      BY <1>0, <1>1, <2>1, <3>1 DEF RequestSound, Look, InTransaction, tables
    <3> QED BY <2>1, <3>1, <3>2 DEF Handles, Reads, InTransaction
  <2> QED BY <1>1, <2>1 DEF Look, Handles, Answers, Refusals
<1>2. CASE Resolve(r)
  <2>1. ASSUME NEW c \in Resolvable(r, path[r]), sha' = [sha EXCEPT ![r] = c], Goto(r, "begin"),
               UNCHANGED <<tables, path, found, count, tries, sync>>
        PROVE  Handles(r)
    <3>0. c \in Commit
      BY <1>0, <1>2, RepositoryAssumption DEF RequestSound, Resolve, Resolvable
    <3>1. /\ pc'[r] = "begin" /\ sha'[r] = c /\ LocalsTyped'
          /\ \A q \in Request \ {r} : LocalsKept(q)
      BY <1>0, <2>1, <3>0 DEF Goto, LocalsTyped, LocalsKept, Statement
    <3>2. sha'[r] \in Resolvable(r, path[r])'
      BY <2>1, <3>1 DEF Resolvable, Body, tables
    <3>3. RequestSound(r)'
      BY <1>0, <1>2, <2>1, <3>1, <3>2 DEF RequestSound, Resolve, InTransaction, tables
    <3> QED BY <2>1, <3>1, <3>3 DEF Handles, Reads, InTransaction
  <2> QED BY <1>2, <2>1 DEF Resolve, Handles, Answers, Refusals
<1> QED BY <1>1, <1>2

\* A statement that leaves what r has read of the repository as it is.
LEMMA StepHandles ==
  ASSUME IInv, NEW r \in Request, UNCHANGED <<tables, path, sha, sync>>, LocalsTyped',
         \A q \in Request \ {r} : LocalsKept(q),
         pc[r] \in {"begin"} \cup InTransaction,
         NEW s \in {"begin"} \cup InTransaction, pc'[r] = s,
         s \in InTransaction => service[Body[r].service] = path[r],
         s \in {"lock", "join"} => Candidate(r, found'[r]),
         s = "join" => /\ incident[found'[r]].state \in OpenStates
                       /\ incident[found'[r]].count = count'[r]
                       /\ Joining(found'[r]) = {},
         s = "create" => Cardinality(ActiveJobs) < JobLimit /\ Advising = {},
         pc[r] = "begin" =>
           ~(sync.active /\ Body[r].service \in DOMAIN sync.plan \ sync.left)
  PROVE  Handles(r)
<1>1. Body' = Body /\ ActiveJobs' = ActiveJobs
      /\ Resolvable(r, path[r])' = Resolvable(r, path[r])
  BY DEF Body, ActiveJobs, Resolvable, tables
<1>2. Candidate(r, found'[r]) => Candidate(r, found[r])'
  BY <1>1 DEF Candidate, tables
<1>3. RequestSound(r)'
  BY <1>1, <1>2 DEF IInv, RequestSound, InTransaction, tables
<1> QED BY <1>3 DEF Handles, Reads

\* A rolled back transaction is tried again or given up.
LEMMA ConflictHandles ==
  ASSUME IInv, NEW r \in Request, pc[r] \in InTransaction, Conflict(r)
  PROVE  Handles(r)
<1>1. CASE Goto(r, "begin") /\ UNCHANGED <<tables, path, sha, found, count, tries, sync>>
  <2>1. /\ pc'[r] = "begin" /\ LocalsTyped'
        /\ \A q \in Request \ {r} : LocalsKept(q)
    BY <1>1 DEF IInv, TypeOK, Goto, LocalsTyped, LocalsKept, Statement
  <2> QED BY <1>1, <2>1, StepHandles DEF InTransaction
<1>2. CASE Refuse(r, "UNSETTLED") /\ Finish(r)
  BY <1>2 DEF Handles, Answers, Refusals, InTransaction
<1> QED BY <1>1, <1>2 DEF Conflict

\* The transaction, statement by statement.
LEMMA TransactionHandles ==
  ASSUME IInv, NEW r \in Request,
         Begin(r) \/ Find(r) \/ Lock(r) \/ Capacity(r) \/ Join(r) \/ Create(r) \/ Fail(r)
  PROVE  Handles(r)
<1>0. LocalsTyped /\ RequestSound(r) /\ TablesTyped
  BY DEF IInv, TypeOK
<1>1. CASE Begin(r)
  <2>1. CASE /\ service[Body[r].service] = path[r]
             /\ tries' = [tries EXCEPT ![r] = @ + 1]
             /\ Goto(r, "find")
             /\ UNCHANGED <<tables, path, sha, found, count, sync>>
    <3>1. /\ pc'[r] = "find" /\ LocalsTyped'
          /\ \A q \in Request \ {r} : LocalsKept(q)
      BY <1>0, <2>1 DEF Goto, LocalsTyped, LocalsKept, Statement, InTransaction
    <3>2. pc[r] = "begin" /\ path[r] # NoPath
      BY <1>0, <1>1, NoneAssumption DEF Begin, RequestSound
    <3>3. ~(sync.active /\ Body[r].service \in DOMAIN sync.plan \ sync.left)
      BY <1>1, <2>1, <3>2 DEF Begin, SyncLocked
    <3> QED BY <2>1, <3>1, <3>2, <3>3, StepHandles DEF InTransaction
  <2> QED BY <1>1, <2>1 DEF Begin, Handles, Answers, Refusals
<1>2. CASE Find(r)
  <2>1. /\ LocalsTyped' /\ pc[r] = "find" /\ \A q \in Request \ {r} : LocalsKept(q)
        /\ \/ pc'[r] = "lock" /\ found'[r] \in Grouped(r, sha[r])
           \/ pc'[r] = "capacity"
        /\ UNCHANGED <<tables, path, sha, sync>>
    BY <1>0, <1>2 DEF Find, Grouped, Open, Goto, LocalsTyped, LocalsKept, Statement, InTransaction
  <2>2. found'[r] \in Grouped(r, sha[r]) => Candidate(r, found'[r])
    BY DEF Grouped, Open, OpenStates, Candidate
  <2> QED BY <1>0, <2>1, <2>2, StepHandles DEF InTransaction, RequestSound
<1>3. CASE Lock(r)
  <2>1. /\ LocalsTyped' /\ pc[r] = "lock" /\ \A q \in Request \ {r} : LocalsKept(q)
        /\ UNCHANGED <<tables, path, sha, sync>> /\ Joining(found[r]) = {}
        /\ \/ /\ pc'[r] = "join" /\ incident[found[r]].state \in OpenStates
              /\ count'[r] = incident[found[r]].count /\ found' = found
           \/ pc'[r] = "capacity"
    BY <1>0, <1>3 DEF Lock, Goto, LocalsTyped, TablesTyped, IncidentRow, LocalsKept, Statement,
                      InTransaction, RequestSound, Candidate
  <2> QED BY <1>0, <2>1, StepHandles DEF InTransaction, RequestSound
<1>4. CASE Capacity(r)
  <2>1. CASE Cardinality(ActiveJobs) >= JobLimit /\ Refuse(r, "JOB_LIMIT") /\ Finish(r)
    BY <1>4, <2>1 DEF Capacity, Handles, Answers, Refusals
  <2>2. CASE /\ Cardinality(ActiveJobs) < JobLimit
             /\ Goto(r, "create")
             /\ UNCHANGED <<tables, path, sha, found, count, tries, sync>>
    <3>1. /\ pc'[r] = "create" /\ LocalsTyped' /\ pc[r] = "capacity" /\ Advising = {}
          /\ \A q \in Request \ {r} : LocalsKept(q)
      BY <1>0, <1>4, <2>2 DEF Capacity, Goto, LocalsTyped, LocalsKept, Statement, InTransaction
    <3> QED BY <1>0, <2>2, <3>1, StepHandles DEF InTransaction, RequestSound
  <2> QED BY <1>4, <2>1, <2>2 DEF Capacity
<1>5. CASE Join(r)
  BY <1>5, ConflictHandles DEF Join, Handles, Joins, InTransaction
<1>6. CASE Create(r)
  BY <1>6, ConflictHandles DEF Create, Handles, Creates, InTransaction
<1>7. CASE Fail(r)
  BY <1>7 DEF Fail, Handles, Answers, Refusals, InTransaction
<1> QED BY <1>1, <1>2, <1>3, <1>4, <1>5, <1>6, <1>7

\* So every step of a request keeps the invariant.
LEMMA HandlesSound ==
  ASSUME IInv, NEW r \in Request, Handles(r)
  PROVE  IInv'
<1>1. CASE Answers(r)
  BY <1>1, AnswerSound DEF Answers
<1> QED BY <1>1, ReadSound, JoinSound, CreateSound DEF Handles, Joins, Creates

--------------------------------------------------------------------------------
(* sync_services *)

\* No step of sync_services but its commit touches a table.
LEMMA SyncReadSound ==
  ASSUME IInv,
         \/ \E plan \in Plan : SyncBegin(plan)
         \/ \E s \in Service : SyncOne(s) \/ SyncAbort(s)
         \/ SyncFail
  PROVE  IInv' /\ UNCHANGED tables
<1>1. UNCHANGED <<tables, locals>>
  BY DEF SyncBegin, SyncOne, SyncAbort, SyncFail
<1>2. SyncTyped' /\ SyncSound'
  <2>0. SyncTyped /\ SyncSound /\ Plan' = Plan
    BY <1>1 DEF IInv, TypeOK, Plan, tables
  <2>1. ASSUME NEW plan \in Plan, SyncBegin(plan) PROVE SyncTyped' /\ SyncSound'
    <3>1. DOMAIN plan \subseteq Service
      BY SettingTyped DEF IInv, TypeOK
    <3> QED BY <2>0, <2>1, <3>1 DEF SyncBegin, SyncTyped, SyncRow, SyncSound
  <2>2. ASSUME NEW s \in Service, SyncOne(s) PROVE SyncTyped' /\ SyncSound'
    <3>1. /\ sync' = [sync EXCEPT !.left = sync.left \ {s}] /\ sync.active
          /\ Sharing(s) = {} /\ MayMove(s) /\ SyncTyped'
      BY <2>0, <2>2 DEF SyncOne, SyncTyped, SyncRow
    <3>2. sync'.plan = sync.plan /\ sync'.left = sync.left \ {s}
      BY <2>0, <3>1 DEF SyncTyped, SyncRow
    <3>3. \A x : Sharing(x)' = Sharing(x) /\ MayMove(x)' = MayMove(x)
      BY <1>1, <3>2 DEF Sharing, Receiving, MayMove, MovesRepository, OpenOf, Open, Body, tables, locals
    <3> QED BY <2>0, <3>1, <3>2, <3>3 DEF SyncSound
  <2>3. ASSUME sync' = [NotSyncing EXCEPT !.syncs = sync.syncs] PROVE SyncTyped' /\ SyncSound'
    BY <2>0, <2>3 DEF NotSyncing, SyncTyped, SyncRow, SyncSound
  <2> QED BY <2>1, <2>2, <2>3 DEF SyncAbort, SyncFail
<1> QED
  BY <1>1, <1>2
     DEF IInv, TypeOK, TablesTyped, LocalsTyped, StoredSound, StoredAs, SameEvent, RequestSound,
         Candidate, Resolvable, LocksSound, ActiveJobs, Open, OneOpenPerGrouping,
         OpenKeepsRepository, Body, tables, locals

\* The commit moves only services nobody is receiving for, and away from no open
\* incident.
LEMMA SyncCommitSound ==
  ASSUME IInv, SyncCommit
  PROVE  /\ IInv'
         /\ \A s \in DOMAIN sync.plan : MovesRepository(s, sync.plan[s]) => OpenOf(s) = {}
<1>1. /\ UNCHANGED <<setting, incident, stored, answer, locals>>
      /\ sync.plan \in Plan /\ DOMAIN sync.plan \subseteq Service
      /\ \A s \in DOMAIN sync.plan : sync.plan[s] \in Path
      /\ \A s \in DOMAIN sync.plan : Sharing(s) = {} /\ MayMove(s)
      /\ service' = [s \in Service |-> IF s \in DOMAIN sync.plan THEN sync.plan[s] ELSE service[s]]
  BY SettingTyped DEF IInv, TypeOK, SyncTyped, SyncSound, SyncCommit, Registered
<1>2. TypeOK' /\ SyncSound'
  BY <1>1 DEF IInv, TypeOK, TablesTyped, LocalsTyped, SyncTyped, SyncRow, SyncSound, SyncCommit,
              NotSyncing, Plan, locals
<1>3. /\ StoredSound' /\ LocksSound' /\ IsFiniteSet(ActiveJobs)' /\ OneOpenPerGrouping'
      /\ Open' = Open /\ Body' = Body /\ ActiveJobs' = ActiveJobs
  BY <1>1 DEF IInv, StoredSound, StoredAs, SameEvent, LocksSound, ActiveJobs, Open,
              OneOpenPerGrouping, Body, locals
<1>4. ASSUME NEW q \in Request PROVE RequestSound(q)'
  <2>1. Body[q].service \in Service /\ LocalsKept(q)
    BY <1>1, SettingTyped DEF IInv, TypeOK, LocalsKept, locals
  <2>2. pc[q] \in InTransaction => Body[q].service \notin DOMAIN sync.plan
    BY <1>1 DEF Sharing, Receiving
  <2>3. pc[q] \in InTransaction => service'[Body[q].service] = service[Body[q].service]
    BY <1>1, <2>1, <2>2
  <2> QED BY <1>1, <1>3, <2>1, <2>3, StillSound DEF IInv, RequestSound
<1>5. OpenKeepsRepository'
  <2> SUFFICES ASSUME NEW i \in Open
               PROVE  /\ service'[Body[i].service] # NoPath
                      /\ RepositoryAt[incident[i].path] = RepositoryAt[service'[Body[i].service]]
    BY <1>1, <1>3 DEF OpenKeepsRepository
  <2> DEFINE s == Body[i].service
  <2>1. s \in Service /\ i \in OpenOf(s)
    BY SettingTyped DEF IInv, TypeOK, Open, OpenOf
  <2>2. service[s] # NoPath /\ RepositoryAt[incident[i].path] = RepositoryAt[service[s]]
    BY DEF IInv, OpenKeepsRepository
  <2>3. s \in DOMAIN sync.plan => RepositoryAt[service[s]] = RepositoryAt[sync.plan[s]]
    BY <1>1, <2>1, <2>2 DEF MayMove, MovesRepository
  <2> QED BY <1>1, <2>1, <2>2, <2>3, NoneAssumption
<1> QED BY <1>1, <1>2, <1>3, <1>4, <1>5 DEF IInv, MayMove

--------------------------------------------------------------------------------
(* The theorems *)

\* A step that changes nothing.
LEMMA StutterSound == IInv /\ UNCHANGED vars => IInv'
BY DEF IInv, TypeOK, TablesTyped, LocalsTyped, SyncTyped, SyncRow, Plan, StoredSound, StoredAs,
       SameEvent, RequestSound, Candidate, Resolvable, LocksSound, SyncSound, Sharing, Receiving,
       MayMove, MovesRepository, OpenOf, ActiveJobs, Open, OneOpenPerGrouping, OpenKeepsRepository,
       Body, tables, locals, vars

\* What a step is.
LEMMA StepCases ==
  ASSUME IInv, [Next]_vars
  PROVE  \/ \E r \in Request : Handles(r)
         \/ \E i \in Request : SettleIncident(i) \/ ApproveIncident(i)
         \/ \E plan \in Plan : SyncBegin(plan)
         \/ \E s \in Service : SyncOne(s) \/ SyncAbort(s)
         \/ SyncFail \/ SyncCommit \/ UNCHANGED vars
BY BeforeHandles, TransactionHandles DEF Next, Continue, SyncStep

\* The inductive invariant: stored events agree with the answers, and every
\* request finds at its next statement what it read and locked before.
THEOREM IntakeInvariant == Spec => []IInv
<1>1. Init => IInv
  <2> SUFFICES ASSUME Init PROVE IInv
    OBVIOUS
  <2>1. TypeOK
    BY DEF Init, TablesInit, NoRow, Unanswered, NotSyncing, TypeOK, TablesTyped, LocalsTyped,
           SyncTyped, SyncRow, IncidentRow, IncidentStates, AnswerRow, Statement
  <2>2. Open = {} /\ ActiveJobs = {}
    BY DEF Init, TablesInit, NoRow, Open, OpenStates, ActiveJobs
  <2>3. StoredSound /\ LocksSound /\ SyncSound /\ \A r \in Request : RequestSound(r)
    BY DEF Init, TablesInit, NoRow, Unanswered, NotSyncing, StoredSound, LocksSound, SyncSound,
           RequestSound, InTransaction
  <2> QED BY <2>1, <2>2, <2>3, FS_EmptySet DEF IInv, OneOpenPerGrouping, OpenKeepsRepository
<1>2. IInv /\ [Next]_vars => IInv'
  BY StepCases, HandlesSound, MoveSound, SyncReadSound, SyncCommitSound, StutterSound
<1> QED BY <1>1, <1>2, PTL DEF Spec

\* Receipts of one service, fingerprint and commit never have two incidents open,
\* however they overlap.
THEOREM AlwaysOneOpenPerGrouping == Spec => []OneOpenPerGrouping
<1>1. IInv => OneOpenPerGrouping
  BY DEF IInv
<1> QED BY <1>1, IntakeInvariant, PTL

\* A registration never moves a service away from the repository of its open
\* incidents, and no receipt opens one in a repository its service has left.
THEOREM OpenAlwaysKeepsRepository == Spec => []OpenKeepsRepository
<1>1. IInv => OpenKeepsRepository
  BY DEF IInv
<1> QED BY <1>1, IntakeInvariant, PTL

\* The receipts of one event name one incident; one of them stored it.
THEOREM ReceiptsAlwaysAgree == Spec => []ReceiptsAgree
<1>1. IInv => ReceiptsAgree
  <2> SUFFICES ASSUME StoredSound, NEW r \in Request, NEW q \in Request, SameEvent(r, q),
                      answer[r].incident # NoIncident, answer[q].incident # NoIncident
               PROVE  /\ answer[r].incident = answer[q].incident
                      /\ answer[r].kind = "ACCEPTED" /\ answer[q].kind = "ACCEPTED" => r = q
    BY DEF IInv, ReceiptsAgree
  <2>1. PICK x \in StoredAs(r) : /\ answer[r].incident = stored[x]
                                 /\ answer[r].kind = "ACCEPTED" => x = r
    BY DEF StoredSound
  <2>2. PICK y \in StoredAs(q) : /\ answer[q].incident = stored[y]
                                 /\ answer[q].kind = "ACCEPTED" => y = q
    BY DEF StoredSound
  <2>3. x = y
    BY <2>1, <2>2 DEF StoredSound, StoredAs, SameEvent
  <2> QED BY <2>1, <2>2, <2>3
<1> QED BY <1>1, IntakeInvariant, PTL

--------------------------------------------------------------------------------
(* The refinement of EventLedger *)

\* Both modules read the same rows.
LEMMA SameReading ==
  /\ \A r \in Request : Ledger!StoredAs(r) = StoredAs(r) /\ Ledger!Body[r] = Body[r]
  /\ \A r, c : Ledger!Grouped(r, c) = Grouped(r, c)
  /\ \A r, p : Ledger!Resolvable(r, p) = Resolvable(r, p)
  /\ \A s, p : Ledger!MovesRepository(s, p) <=> MovesRepository(s, p)
  /\ \A s : Ledger!OpenOf(s) = OpenOf(s)
  /\ \A plan : Ledger!Registered(plan) = Registered(plan)
  /\ Ledger!ActiveJobs = ActiveJobs /\ Ledger!Plan = Plan /\ Ledger!Unanswered = Unanswered
BY DEF Ledger!StoredAs, StoredAs, Ledger!SameEvent, SameEvent, Ledger!Body, Body, Ledger!Grouped,
       Grouped, Ledger!Open, Open, Ledger!OpenStates, OpenStates, Ledger!Resolvable, Resolvable,
       Ledger!MovesRepository, MovesRepository, Ledger!OpenOf, OpenOf, Ledger!Registered, Registered,
       Ledger!ActiveJobs, ActiveJobs, Ledger!Plan, Plan, Ledger!Unanswered, Unanswered

\* They count alike.
LEMMA SameCounting == Ledger!Cardinality(Ledger!ActiveJobs) = Cardinality(ActiveJobs)
<1>1. Ledger!Cardinality(ActiveJobs) = Cardinality(ActiveJobs)
  BY DEF Cardinality, Ledger!Cardinality
<1> QED BY <1>1, SameReading

\* And write them alike.
LEMMA SameWriting ==
  /\ \A r, p, c : OpenIncident(r, p, c) => Ledger!OpenIncident(r, p, c)
  /\ \A r, i, n : JoinIncident(r, i, n) => Ledger!JoinIncident(r, i, n)
  /\ \A r \in Request : AnswerFromStored(r) => Ledger!AnswerFromStored(r)
  /\ \A r, kind : Refuse(r, kind) => Ledger!Refuse(r, kind)
  /\ \A i, to : Settle(i, to) => Ledger!Settle(i, to)
  /\ \A i : Approve(i) => Ledger!Approve(i)
  /\ Ledger!Refusals = Refusals
<1>1. \A r, p, c : OpenIncident(r, p, c) => Ledger!OpenIncident(r, p, c)
  BY DEF OpenIncident, Ledger!OpenIncident, Received, Ledger!Received
<1>2. \A r, i, n : JoinIncident(r, i, n) => Ledger!JoinIncident(r, i, n)
  BY DEF JoinIncident, Ledger!JoinIncident, Received, Ledger!Received
<1>3. \A r \in Request : AnswerFromStored(r) => Ledger!AnswerFromStored(r)
  BY SameReading DEF AnswerFromStored, Ledger!AnswerFromStored, Received, Ledger!Received,
     Refused, Ledger!Refused, Body, Ledger!Body
<1>4. \A r, kind : Refuse(r, kind) => Ledger!Refuse(r, kind)
  BY DEF Refuse, Ledger!Refuse, Refused, Ledger!Refused
<1>5. \A i, to : Settle(i, to) => Ledger!Settle(i, to)
  BY DEF Settle, Ledger!Settle
<1>6. \A i : Approve(i) => Ledger!Approve(i)
  BY SameCounting DEF Approve, Ledger!Approve
<1>7. Ledger!Refusals = Refusals
  BY DEF Refusals, Ledger!Refusals
<1> QED BY <1>1, <1>2, <1>3, <1>4, <1>5, <1>6, <1>7

\* A request's step is the ledger's: what was read before still decides the same.
LEMMA HandlesRefines ==
  ASSUME IInv, NEW r \in Request, Handles(r)
  PROVE  Ledger!Next \/ UNCHANGED tables
<1>0. RequestSound(r) /\ Body[r].service \in Service
  BY SettingTyped DEF IInv, TypeOK
<1>1. CASE Answers(r)
  <2>1. answer[r] = Unanswered
    BY <1>0, <1>1 DEF Answers, RequestSound
  <2>2. CASE AnswerFromStored(r)
    <3>1. Ledger!Repeat(r)
      BY <2>1, <2>2, SameReading, SameWriting DEF Ledger!Repeat
    <3> QED BY <3>1 DEF Ledger!Next
  <2>3. ASSUME NEW kind \in Refusals \ {"OTHER_PAYLOAD"}, Refuse(r, kind),
               kind = "JOB_LIMIT" => Cardinality(ActiveJobs) >= JobLimit,
               kind = "UNKNOWN_SERVICE" => service[Body[r].service] = NoPath
        PROVE  Ledger!Next
    <3>0. Ledger!Body[r] = Body[r] /\ Ledger!Unanswered = Unanswered
      BY SameReading
    <3>1. Ledger!Refuse(r, kind)
      BY <2>3, SameWriting
    <3>2. Ledger!Decline(r, kind)
      BY <2>1, <2>3, <3>0, <3>1, SameCounting DEF Ledger!Decline
    <3> QED BY <3>2, SameWriting DEF Ledger!Next
  <2> QED BY <1>1, <2>2, <2>3 DEF Answers
<1>2. ASSUME pc[r] \in {"join", "create"}, StoredAs(r) = {}
      PROVE  /\ answer[r] = Unanswered /\ sha[r] \in Commit
             /\ service[Body[r].service] = path[r] /\ path[r] # NoPath
             /\ sha[r] \in Resolvable(r, service[Body[r].service])
  BY <1>0, <1>2, NoneAssumption, RepositoryAssumption
     DEF RequestSound, InTransaction, Resolvable, IInv, TypeOK, LocalsTyped
<1> DEFINE c == sha[r]
           p == service[Body[r].service]
<1>r. /\ Ledger!StoredAs(r) = StoredAs(r) /\ Ledger!Body[r] = Body[r]
      /\ Ledger!Unanswered = Unanswered
      /\ Ledger!Grouped(r, c) = Grouped(r, c)
      /\ Ledger!Resolvable(r, p) = Resolvable(r, p)
  BY SameReading
<1>3. CASE Joins(r)
  <2>1. found[r] \in Grouped(r, sha[r]) /\ incident[found[r]].count = count[r]
    BY <1>0, <1>3 DEF Joins, RequestSound, Candidate, Grouped, Open
  <2>2. Ledger!Accept(r, sha[r])
    <3>1. Ledger!JoinIncident(r, found[r], incident[found[r]].count)
      BY <1>3, <2>1, SameWriting DEF Joins
    <3> QED BY <1>2, <1>3, <1>r, <2>1, <3>1 DEF Joins, EventIndexFree, Ledger!Accept
  <2> QED BY <1>2, <1>3, <2>2 DEF Ledger!Next, Joins, EventIndexFree
<1>4. CASE Creates(r)
  <2>1. Cardinality(ActiveJobs) < JobLimit
    BY <1>0, <1>4 DEF Creates, RequestSound
  <2>2. Ledger!Accept(r, sha[r])
    <3>1. Ledger!OpenIncident(r, service[Body[r].service], sha[r])
      BY <1>2, <1>4, SameWriting DEF Creates, EventIndexFree
    <3> QED BY <1>2, <1>4, <1>r, <2>1, <3>1, SameCounting
            DEF Creates, EventIndexFree, GroupingIndexFree, Ledger!Accept
  <2> QED BY <1>2, <1>4, <2>2 DEF Ledger!Next, Creates, EventIndexFree
<1> QED BY <1>1, <1>3, <1>4 DEF Handles, Reads

\* Intake implements EventLedger: whatever the statements of receipts,
\* registrations, approvals and workers interleave to, every receipt is handled,
\* and every service file registered, at the instant of its commit.
THEOREM LedgerRefined == Spec => ImplementsLedger
<1>1. Init => Ledger!TablesInit
  BY DEF Init, TablesInit, Ledger!TablesInit, NoRow, Ledger!NoRow, Unanswered, Ledger!Unanswered
<1>2. IInv /\ [Next]_vars => [Ledger!Next]_(Ledger!tables)
  <2> SUFFICES ASSUME IInv, [Next]_vars PROVE Ledger!Next \/ UNCHANGED tables
    BY DEF tables, Ledger!tables
  <2>1. ASSUME NEW r \in Request, Handles(r) PROVE Ledger!Next \/ UNCHANGED tables
    BY <2>1, HandlesRefines
  <2>2. ASSUME NEW i \in Request, SettleIncident(i) \/ ApproveIncident(i) PROVE Ledger!Next
    BY <2>2, SameWriting DEF SettleIncident, ApproveIncident, Ledger!Next
  <2>3. CASE SyncCommit
    <3>1. sync.plan \in Plan
      BY <2>3 DEF IInv, TypeOK, SyncTyped, SyncCommit
    <3>2. Ledger!Register(sync.plan)
      BY <2>3, SyncCommitSound, SameReading DEF SyncCommit, Ledger!Register
    <3> QED BY <3>1, <3>2, SameReading DEF Ledger!Next
  <2>4. CASE UNCHANGED vars
    BY <2>4 DEF vars
  <2> QED BY <2>1, <2>2, <2>3, <2>4, StepCases, SyncReadSound
<1> QED BY <1>1, <1>2, IntakeInvariant, PTL DEF Spec, ImplementsLedger, Ledger!Spec
================================================================================
