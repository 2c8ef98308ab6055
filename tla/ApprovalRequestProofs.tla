-------------------------- MODULE ApprovalRequestProofs --------------------------
(***************************************************************************)
(* Proof that ApprovalRequests implements ApprovalDesk, for any number of  *)
(* requests, incidents, keys and sends: whatever the statements of         *)
(* concurrent approvals, workers and events interleave to, each answer is  *)
(* true at the instant it is given.                                        *)
(*                                                                         *)
(* What a request found out stays true until it answers because of a lock  *)
(* it holds: the incident's row from its first statement on, the advisory  *)
(* lock from the count of the jobs on.  The invariant says what each lock  *)
(* keeps, and that a unique key lost to another incident is lost for good, *)
(* so that approve never needs its second attempt.                         *)
(***************************************************************************)
EXTENDS ApprovalRequests, FiniteSetTheorems, TLAPS

Pc == {"begin", "conflict", "lost", "given up", "done"} \cup InTransaction

TypeOK ==
  /\ state \in [Incident -> States]
  /\ approval \in [Incident -> Key \cup {NoKey}]
  /\ answer \in [Request -> Answers]
  /\ pc \in [Request -> Pc]
  /\ retried \in [Request -> BOOLEAN]
  /\ sends \in [Request -> Nat]

\* A key approves one incident, which is past its approval.
ApprovalsSound ==
  /\ \A i \in Incident : approval[i] # NoKey => state[i] \in {"PATCHING", "CLOSED"}
  /\ \A i, j \in Incident : approval[i] = approval[j] /\ approval[i] # NoKey => i = j

\* What request r may rely on at its next statement.
RequestSound(r) ==
  /\ pc[r] # "done" => answer[r] = "NONE"
  /\ ~retried[r]
  /\ pc[r] = "state" => approval[Target[r]] # KeyOf[r]
  /\ pc[r] \in {"capacity", "count", "insert", "commit"} =>
       state[Target[r]] = "AWAITING_APPROVAL" /\ approval[Target[r]] = NoKey
  /\ pc[r] \in {"insert", "commit"} => Cardinality(ActiveJobs) < JobLimit
  /\ pc[r] = "commit" => ~KeyUsed(r)
  /\ pc[r] = "conflict" => \E i \in Incident \ {Target[r]} : approval[i] = KeyOf[r]

\* An incident's row and the advisory lock have one holder.
LocksSound ==
  /\ \A r, q \in Request :
       pc[r] \in InTransaction /\ pc[q] \in InTransaction /\ Target[r] = Target[q] => r = q
  /\ \A r, q \in Advising : r = q

IInv ==
  /\ TypeOK
  /\ ApprovalsSound
  /\ \A r \in Request : RequestSound(r)
  /\ LocksSound
  /\ IsFiniteSet(ActiveJobs)

--------------------------------------------------------------------------------
(* What a step of another leaves *)

\* What q relies on stays true while the incident it has locked stays as it is,
\* the jobs stay below the limit that q has checked, and no approval is undone.
LEMMA StillSound ==
  ASSUME NEW q \in Request, RequestSound(q), pc'[q] = pc[q], ~retried'[q],
         pc[q] # "done" => answer'[q] = answer[q],
         pc[q] \in {"state", "capacity", "count", "insert", "commit"} =>
           approval'[Target[q]] = approval[Target[q]],
         pc[q] \in {"capacity", "count", "insert", "commit"} =>
           state'[Target[q]] = state[Target[q]],
         pc[q] \in {"insert", "commit"} => Cardinality(ActiveJobs') < JobLimit,
         pc[q] = "commit" => approval' = approval,
         \A i \in Incident : approval[i] # NoKey => approval'[i] = approval[i]
  PROVE  RequestSound(q)'
<1>1. KeyOf[q] # NoKey
  BY TargetAssumption, LimitAssumption
<1>2. pc[q] = "commit" => ~KeyUsed(q)'
  BY DEF RequestSound, KeyUsed
<1>3. pc[q] = "conflict" => \E i \in Incident \ {Target[q]} : approval'[i] = KeyOf[q]
  BY <1>1 DEF RequestSound
<1> QED BY <1>2, <1>3 DEF RequestSound

\* A statement that only reads, takes a lock that is free, or rolls back.
Reads(r) ==
  /\ UNCHANGED desk /\ TypeOK'
  /\ \A q \in Request \ {r} : pc'[q] = pc[q] /\ retried'[q] = retried[q]
  /\ RequestSound(r)'
  /\ pc'[r] \in InTransaction => pc[r] \in InTransaction \/ RowFree(Target[r])
  /\ pc'[r] \in {"count", "insert", "commit"} =>
       pc[r] \in {"count", "insert", "commit"} \/ AdvisoryFree

\* A statement that only reads takes nothing from the others.
LEMMA ReadSound ==
  ASSUME IInv, NEW r \in Request, Reads(r)
  PROVE  IInv'
<1>1. TypeOK' /\ ApprovalsSound' /\ IsFiniteSet(ActiveJobs)'
  BY DEF Reads, IInv, ApprovalsSound, ActiveJobs, desk
<1>2. ASSUME NEW q \in Request, q # r PROVE RequestSound(q)'
  BY <1>2, StillSound DEF Reads, IInv, RequestSound, ActiveJobs, desk
<1>3. LocksSound'
  BY DEF Reads, IInv, LocksSound, RowFree, RowHolders, AdvisoryFree, Advising
<1> QED BY <1>1, <1>2, <1>3 DEF Reads, IInv

\* A request is answered with a reason that is true.
Tells(r) == pc[r] # "done" /\ \E a \in Answers : Finish(r, a) /\ Reason(r, a)

\* Nor does an answer that changes no row.
LEMMA TellSound ==
  ASSUME IInv, NEW r \in Request, Tells(r)
  PROVE  IInv'
<1>1. PICK a \in Answers : Finish(r, a)
  BY DEF Tells
<1>2. /\ TypeOK' /\ UNCHANGED <<state, approval, retried>> /\ pc'[r] = "done"
      /\ \A q \in Request \ {r} : pc'[q] = pc[q] /\ answer'[q] = answer[q]
  BY <1>1 DEF IInv, TypeOK, Finish, Goto, Tell, Pc
<1>3. ApprovalsSound' /\ IsFiniteSet(ActiveJobs)'
  BY <1>2 DEF IInv, ApprovalsSound, ActiveJobs
<1>4. ASSUME NEW q \in Request, q # r PROVE RequestSound(q)'
  BY <1>2, <1>4, StillSound DEF IInv, RequestSound, ActiveJobs
<1>5. RequestSound(r)'
  BY <1>2 DEF IInv, RequestSound
<1>6. LocksSound'
  BY <1>2 DEF IInv, LocksSound, Advising, InTransaction
<1> QED BY <1>2, <1>3, <1>4, <1>5, <1>6 DEF IInv

\* The approval is stored: nobody else has the incident, the key or the count.
LEMMA CommitSound ==
  ASSUME IInv, NEW r \in Request, Commit(r)
  PROVE  IInv'
<1> DEFINE i == Target[r]
<1>0. /\ i \in Incident /\ KeyOf[r] \in Key /\ KeyOf[r] # NoKey
      /\ state[i] = "AWAITING_APPROVAL" /\ approval[i] = NoKey /\ ~KeyUsed(r)
      /\ pc[r] = "commit"
  BY TargetAssumption, LimitAssumption DEF IInv, RequestSound, Commit
<1>1. /\ TypeOK' /\ retried' = retried /\ pc'[r] \in {"done", "lost"}
      /\ pc'[r] = "lost" => answer'[r] = answer[r]
      /\ \A q \in Request \ {r} : pc'[q] = pc[q] /\ answer'[q] = answer[q]
  BY <1>0 DEF IInv, TypeOK, Commit, Granted, Goto, Tell, Pc, States, Answers
<1>2. /\ state'[i] = "PATCHING" /\ approval'[i] = KeyOf[r]
      /\ \A j \in Incident \ {i} : state'[j] = state[j] /\ approval'[j] = approval[j]
  BY <1>0 DEF IInv, TypeOK, Commit, Granted
<1>3. ApprovalsSound'
  BY <1>0, <1>2 DEF IInv, ApprovalsSound, KeyUsed
<1>4. IsFiniteSet(ActiveJobs)'
  <2>1. ActiveJobs' \subseteq ActiveJobs \cup {i}
    BY <1>2 DEF ActiveJobs
  <2>2. IsFiniteSet(ActiveJobs \cup {i})
    BY FS_AddElement DEF IInv
  <2> QED BY <2>1, <2>2, FS_Subset
<1>5. ASSUME NEW q \in Request, q # r PROVE RequestSound(q)'
  <2>1. pc[q] \notin {"insert", "commit"}
    BY <1>0, <1>5 DEF IInv, LocksSound, Advising
  <2>2. pc[q] \in InTransaction => Target[q] # i /\ Target[q] \in Incident
    BY <1>0, <1>5, TargetAssumption DEF IInv, LocksSound, InTransaction
  <2> QED BY <1>0, <1>1, <1>2, <1>5, <2>1, <2>2, StillSound DEF IInv, RequestSound, InTransaction
<1>6. RequestSound(r)'
  BY <1>0, <1>1 DEF IInv, RequestSound
<1>7. LocksSound'
  BY <1>1 DEF IInv, LocksSound, Advising, InTransaction
<1> QED BY <1>1, <1>3, <1>4, <1>5, <1>6, <1>7 DEF IInv

\* Workers end jobs, which takes no incident that awaits its approval elsewhere; an
\* event waits for the advisory lock.
LEMMA OthersSound ==
  ASSUME IInv,
         \/ \E ended \in SUBSET ActiveJobs : WorkerEnds(ended)
         \/ \E i \in Incident : Event(i)
  PROVE  IInv'
<1> DEFINE LeaveWaiting ==
             /\ UNCHANGED <<approval, answer, requests>>
             /\ \A j \in Incident :
                  state'[j] = state[j] \/ state[j] \in {"ABSENT", "ANALYZING", "PATCHING"}
             /\ \A j \in Incident :
                  state[j] \in {"PATCHING", "CLOSED"} => state'[j] \in {"PATCHING", "CLOSED"}
             /\ state' \in [Incident -> States]
<1>1. LeaveWaiting
  <2>1. ASSUME NEW ended \in SUBSET ActiveJobs, WorkerEnds(ended)
        PROVE  LeaveWaiting
    <3>1. PICK analysed \in SUBSET {i \in ended : state[i] = "ANALYZING"} :
            state' = [i \in Incident |-> IF i \in analysed THEN "AWAITING_APPROVAL"
                                         ELSE IF i \in ended THEN "CLOSED" ELSE state[i]]
      BY <2>1 DEF WorkerEnds, JobsEnd
    <3> QED BY <2>1, <3>1 DEF WorkerEnds, JobsEnd, ActiveJobs, IInv, TypeOK, States
  <2>2. ASSUME NEW i \in Incident, Event(i)
        PROVE  LeaveWaiting
    BY <2>2 DEF Event, Receive, IInv, TypeOK, States
  <2> QED BY <2>1, <2>2
<1>2. TypeOK' /\ ApprovalsSound' /\ LocksSound'
  BY <1>1 DEF IInv, TypeOK, ApprovalsSound, LocksSound, Advising, requests
<1>3. IsFiniteSet(ActiveJobs') /\ (Advising # {} => Cardinality(ActiveJobs') <= Cardinality(ActiveJobs))
  <2>1. ASSUME NEW ended \in SUBSET ActiveJobs, WorkerEnds(ended)
        PROVE  ActiveJobs' \subseteq ActiveJobs
    BY <2>1 DEF WorkerEnds, JobsEnd, ActiveJobs
  <2>2. ASSUME NEW i \in Incident, Event(i)
        PROVE  Advising = {} /\ ActiveJobs' \subseteq ActiveJobs \cup {i}
    BY <2>2 DEF Event, AdvisoryFree, Receive, ActiveJobs, IInv, TypeOK
  <2>3. \A i : IsFiniteSet(ActiveJobs \cup {i})
    BY FS_AddElement DEF IInv
  <2> QED BY <2>1, <2>2, <2>3, FS_Subset DEF IInv
<1>4. ASSUME NEW q \in Request PROVE RequestSound(q)'
  <2>1. pc[q] \in {"insert", "commit"} => Cardinality(ActiveJobs') < JobLimit
    <3> SUFFICES ASSUME pc[q] \in {"insert", "commit"} PROVE Cardinality(ActiveJobs') < JobLimit
      OBVIOUS
    <3>1. /\ Cardinality(ActiveJobs') <= Cardinality(ActiveJobs)
          /\ Cardinality(ActiveJobs) < JobLimit
      BY <1>3 DEF Advising, IInv, RequestSound
    <3>2. Cardinality(ActiveJobs') \in Nat /\ Cardinality(ActiveJobs) \in Nat
      BY <1>3, FS_CardinalityType DEF IInv
    <3> QED BY <3>1, <3>2, LimitAssumption
  <2>2. pc[q] \in {"capacity", "count", "insert", "commit"} =>
          state'[Target[q]] = state[Target[q]]
    BY <1>1, TargetAssumption DEF IInv, RequestSound
  <2> QED BY <1>1, <2>1, <2>2, StillSound DEF IInv, RequestSound, requests
<1> QED BY <1>2, <1>3, <1>4 DEF IInv

--------------------------------------------------------------------------------
(* Every statement of a request is one of three things *)

\* What a statement does to its own request.
LEMMA GoReads ==
  ASSUME IInv, NEW r \in Request, NEW s \in Pc \ {"done"}, Go(r, s), pc[r] # "done",
         s = "state" => approval[Target[r]] # KeyOf[r],
         s \in {"capacity", "count", "insert", "commit"} =>
           state[Target[r]] = "AWAITING_APPROVAL" /\ approval[Target[r]] = NoKey,
         s \in {"insert", "commit"} => Cardinality(ActiveJobs) < JobLimit,
         s = "commit" => ~KeyUsed(r),
         s = "conflict" => \E i \in Incident \ {Target[r]} : approval[i] = KeyOf[r],
         s \in InTransaction => pc[r] \in InTransaction \/ RowFree(Target[r]),
         s \in {"count", "insert", "commit"} =>
           pc[r] \in {"count", "insert", "commit"} \/ AdvisoryFree
  PROVE  Reads(r)
<1>1. /\ UNCHANGED <<desk, retried, sends>> /\ pc'[r] = s /\ TypeOK'
      /\ \A q \in Request \ {r} : pc'[q] = pc[q]
  BY DEF IInv, TypeOK, Go, Goto, desk
<1>2. RequestSound(r)'
  BY <1>1 DEF IInv, RequestSound, KeyUsed, ActiveJobs, desk
<1> QED BY <1>1, <1>2 DEF Reads

\* A statement of a request reads, answers or commits; no other kind exists.
LEMMA StatementCases ==
  ASSUME IInv, NEW r \in Request, Statement(r) \/ Break(r)
  PROVE  Reads(r) \/ Tells(r) \/ Commit(r)
<1>0. /\ RequestSound(r) /\ Target[r] \in Incident /\ KeyOf[r] \in Key /\ KeyOf[r] # NoKey
      /\ TypeOK
  BY TargetAssumption, LimitAssumption DEF IInv
<1>1. CASE LockIncident(r)
  <2>1. CASE Finish(r, "NOT_FOUND") /\ state[Target[r]] = "ABSENT"
    BY <1>1, <2>1 DEF LockIncident, Tells, Reason, Answers
  <2>2. CASE Go(r, "key")
    BY <1>1, <2>2, GoReads DEF LockIncident, Pc, InTransaction
  <2> QED BY <1>1, <2>1, <2>2 DEF LockIncident
<1>2. CASE ByKey(r)
  <2>1. CASE approval[Target[r]] = KeyOf[r] /\ Finish(r, "DUPLICATE")
    BY <1>2, <2>1 DEF ByKey, Tells, Reason, Answers
  <2>2. CASE approval[Target[r]] # KeyOf[r] /\ KeyUsed(r) /\ Finish(r, "OTHER_INCIDENT")
    <3>1. Reason(r, "OTHER_INCIDENT")
      BY <2>2 DEF KeyUsed, Reason
    <3> QED BY <1>2, <2>2, <3>1 DEF ByKey, Tells, Answers
  <2>3. CASE ~KeyUsed(r) /\ Go(r, "state")
    BY <1>0, <1>2, <2>3, GoReads DEF ByKey, KeyUsed, Pc, InTransaction
  <2> QED BY <1>2, <2>1, <2>2, <2>3 DEF ByKey
<1>3. CASE CheckState(r)
  <2>1. CASE /\ state[Target[r]] = "AWAITING_APPROVAL" /\ approval[Target[r]] = NoKey
             /\ Go(r, "capacity")
    BY <1>0, <1>3, <2>1, GoReads DEF CheckState, Pc, InTransaction
  <2>2. CASE /\ ~(state[Target[r]] = "AWAITING_APPROVAL" /\ approval[Target[r]] = NoKey)
             /\ Finish(r, "NOT_AWAITING")
    <3>1. approval[Target[r]] # KeyOf[r] /\ state[Target[r]] # "AWAITING_APPROVAL"
      BY <1>0, <1>3, <2>2 DEF CheckState, IInv, RequestSound, ApprovalsSound
    <3> QED BY <1>3, <2>2, <3>1 DEF CheckState, Tells, Reason, Answers
  <2> QED BY <1>3, <2>1, <2>2 DEF CheckState
<1>4. CASE Advise(r)
  BY <1>0, <1>4, GoReads DEF Advise, RequestSound, Pc, InTransaction
<1>5. CASE Count(r)
  <2>1. CASE Cardinality(ActiveJobs) < JobLimit /\ Go(r, "insert")
    BY <1>0, <1>5, <2>1, GoReads DEF Count, RequestSound, Pc, InTransaction
  <2>2. CASE ~(Cardinality(ActiveJobs) < JobLimit) /\ Finish(r, "JOB_LIMIT")
    <3>1. approval[Target[r]] # KeyOf[r]
      BY <1>0, <1>5 DEF Count, RequestSound
    <3>2. Cardinality(ActiveJobs) >= JobLimit
      BY <2>2, FS_CardinalityType, LimitAssumption DEF IInv
    <3> QED BY <1>5, <2>2, <3>1, <3>2 DEF Count, Tells, Reason, Answers
  <2> QED BY <1>5, <2>1, <2>2 DEF Count
<1>6. CASE Insert(r)
  <2>1. CASE ~KeyUsed(r) /\ Go(r, "commit")
    BY <1>0, <1>6, <2>1, GoReads DEF Insert, RequestSound, Pc, InTransaction
  <2>2. CASE KeyUsed(r) /\ Go(r, "conflict")
    <3>1. \E i \in Incident \ {Target[r]} : approval[i] = KeyOf[r]
      BY <1>0, <1>6, <2>2 DEF Insert, RequestSound, KeyUsed
    <3> QED BY <1>0, <1>6, <2>2, <3>1, GoReads DEF Insert, Pc, InTransaction
  <2> QED BY <1>0, <1>6, <2>1, <2>2 DEF Insert, RequestSound
<1>7. CASE Conflict(r)
  <2>1. PICK i \in Incident \ {Target[r]} : approval[i] = KeyOf[r]
    BY <1>0, <1>7 DEF Conflict, RequestSound
  <2>2. KeyElsewhere(r)
    BY <1>0, <2>1 DEF IInv, ApprovalsSound, KeyElsewhere, KeyUsed
  <2>3. Finish(r, "OTHER_INCIDENT")
    BY <1>7, <2>2 DEF Conflict
  <2> QED BY <1>7, <2>1, <2>3 DEF Conflict, Tells, Reason, Answers
<1>8. CASE Send(r)
  <2>1. /\ UNCHANGED desk /\ pc'[r] \in {"begin", "given up"} /\ ~retried'[r] /\ TypeOK'
        /\ \A q \in Request \ {r} : pc'[q] = pc[q] /\ retried'[q] = retried[q]
        /\ pc[r] = "lost"
    <3>1. sends' \in [Request -> Nat]
      <4> DEFINE n == IF sends[r] < MaxSends THEN sends[r] + 1 ELSE sends[r]
      <4>1. sends[r] \in Nat
        BY <1>0 DEF TypeOK
      <4>2. n \in Nat
        BY <4>1
      <4>3. sends' = [sends EXCEPT ![r] = n]
        BY <1>8 DEF Send
      <4> HIDE DEF n
      <4> QED BY <1>0, <4>2, <4>3 DEF TypeOK
    <3>r. retried' \in [Request -> BOOLEAN] /\ ~retried'[r]
      BY <1>0, <1>8 DEF Send, TypeOK
    <3>2. pc' \in [Request -> Pc]
      BY <1>0, <1>8 DEF Send, Goto, TypeOK, Pc
    <3>3. TypeOK'
      BY <1>0, <1>8, <3>1, <3>2, <3>r DEF Send, TypeOK, desk
    <3> QED BY <1>0, <1>8, <3>3, <3>r DEF Send, Goto, TypeOK, desk
  <2>2. RequestSound(r)'
    BY <1>0, <2>1 DEF RequestSound, desk
  <2> QED BY <2>1, <2>2 DEF Reads, InTransaction
<1>9. CASE Break(r)
  BY <1>9, GoReads DEF Break, Pc, InTransaction
<1> QED BY <1>1, <1>2, <1>3, <1>4, <1>5, <1>6, <1>7, <1>8, <1>9 DEF Statement

--------------------------------------------------------------------------------
(* The theorems *)

\* The inductive invariant: what a request found out is still so when it answers,
\* and the second attempt of approve is never made.
THEOREM RequestsInvariant == AllSpec => []IInv
<1>1. AllInit => IInv
  <2> SUFFICES ASSUME AllInit PROVE IInv
    OBVIOUS
  <2>1. TypeOK /\ ApprovalsSound
    BY DEF AllInit, Init, TypeOK, ApprovalsSound, States, Answers, Pc
  <2>2. LocksSound /\ \A r \in Request : RequestSound(r)
    BY DEF AllInit, Init, LocksSound, RequestSound, Advising, InTransaction
  <2>3. ActiveJobs = {}
    BY DEF AllInit, Init, ActiveJobs
  <2> QED BY <2>1, <2>2, <2>3, FS_EmptySet DEF IInv
<1>2. IInv /\ [AllNext]_all => IInv'
  <2> SUFFICES ASSUME IInv, [AllNext]_all PROVE IInv'
    OBVIOUS
  <2>1. ASSUME NEW r \in Request, Statement(r) \/ Break(r) PROVE IInv'
    BY <2>1, StatementCases, ReadSound, TellSound, CommitSound
  <2>2. CASE UNCHANGED all
    <3>1. /\ UNCHANGED <<state, approval, answer, pc, retried, sends>> /\ ActiveJobs' = ActiveJobs
      BY <2>2 DEF all, desk, requests, ActiveJobs
    <3>2. \A r \in Request : RequestSound(r)'
      BY <3>1, StillSound DEF IInv, RequestSound
    <3> QED BY <3>1, <3>2 DEF IInv, TypeOK, ApprovalsSound, LocksSound, Advising
  <2> QED BY <2>1, <2>2, OthersSound DEF AllNext
<1> QED BY <1>1, <1>2, PTL DEF AllSpec

\* The approval of incidents keeps its promise: a request is answered once as if
\* handled at one instant, an approval is granted once and within the job limit,
\* and a request sent again after its approval was stored gets that approval.
THEOREM DeskRefined == AllSpec => ImplementsDesk
<1>1. AllInit => Init
  BY DEF AllInit
<1>2. IInv /\ [AllNext]_all => [Next]_desk
  <2> SUFFICES ASSUME IInv, [AllNext]_all PROVE Next \/ UNCHANGED desk
    OBVIOUS
  <2>1. ASSUME NEW r \in Request, Tells(r) PROVE Next
    <3>1. PICK a \in Answers : Finish(r, a) /\ Reason(r, a)
      BY <2>1 DEF Tells
    <3>2. Decline(r, a)
      BY <2>1, <3>1 DEF Tells, IInv, RequestSound, Finish, Decline, Open
    <3> QED BY <3>2 DEF Next
  <2>2. ASSUME NEW r \in Request, Commit(r) PROVE Next
    <3>1. Approve(r)
      BY <2>2 DEF IInv, RequestSound, Commit, Tell, Approve, Open
    <3> QED BY <3>1 DEF Next
  <2>3. ASSUME NEW r \in Request, Statement(r) \/ Break(r) PROVE Next \/ UNCHANGED desk
    BY <2>1, <2>2, <2>3, StatementCases DEF Reads
  <2>4. /\ \A ended \in SUBSET ActiveJobs : WorkerEnds(ended) => Next
        /\ \A i \in Incident : Event(i) => Next
    BY DEF WorkerEnds, Event, Next
  <2>5. CASE UNCHANGED all
    BY <2>5 DEF all
  <2> QED BY <2>3, <2>4, <2>5 DEF AllNext
<1> QED BY <1>1, <1>2, RequestsInvariant, PTL DEF AllSpec, ImplementsDesk, Spec
================================================================================
