---------------------------- MODULE LeaseTimingProofs ----------------------------
(***************************************************************************)
(* Proofs about LeaseTiming: how old the last good heartbeat of a running  *)
(* execution can get, for any intervals, outages and clocks, in a process  *)
(* whose thread pool has a thread more than it has executions.             *)
(*                                                                         *)
(* One notion carries the three theorems: the next attempt of an execution *)
(* begins before its last good heartbeat is b ticks old.  Waking up, being *)
(* queued and the passing of time keep it, for every b.  Only an attempt   *)
(* that ends sets a new one, and there are three things to say about it:   *)
(* for no outage, for one, and for the deadline.                           *)
(***************************************************************************)
EXTENDS LeaseTiming, FiniteSetTheorems, TLAPS

\* Validations cannot occupy every thread.  asyncio's default executor has at least 5
\* threads: enough for four executions, those that ended before their validation did
\* included.
EnoughThreads == Threads > Cardinality(Job)

\* A thread for the heartbeat and one for the validation of every execution.
Roomy == Threads >= 2 * Cardinality(Job)

Item == Job \X {"beat", "work"}

TypesSound ==
  /\ row \in [Job -> {"RUNNING", "TAKEN"}]
  /\ age \in [Job -> Nat]
  /\ running \in [Job -> BOOLEAN]
  /\ keeper \in [Job -> {"sleeping", "queued", "beating", "over"}]
  /\ sleep \in [Job -> Nat]
  /\ attempt \in [Job -> Nat]
  /\ left \in [Job -> Nat]
  /\ work \in [Job -> {"agent", "queued", "thread", "over"}]
  /\ held \in [Job -> Nat]
  /\ queue \in Seq(Item)
  /\ outage \in Nat /\ outages \in Nat /\ longest \in Nat

\* Who waits has one item in the queue, and every item is of one who waits.
QueueSound ==
  /\ \A k \in 1..Len(queue) :
       /\ queue[k][2] = "beat" => keeper[queue[k][1]] = "queued"
       /\ queue[k][2] = "work" => work[queue[k][1]] = "queued"
  /\ \A k, l \in 1..Len(queue) : queue[k] = queue[l] => k = l
  /\ \A j \in Job : keeper[j] = "queued" => \E k \in 1..Len(queue) : queue[k] = <<j, "beat">>

\* A heartbeat that has its thread ends in time.
AttemptsSound == \A j \in Job : keeper[j] = "beating" => attempt[j] <= MaxAttempt

\* The other executions whose heartbeats are served before the item at place p.
Ahead(j, p) ==
  {i \in Job \ {j} : keeper[i] = "beating" \/ \E q \in 1..(p - 1) : queue[q] = <<i, "beat">>}

\* How long the heartbeats of a set of executions take, one after the other.
Delay(S) == Cardinality(S) * MaxAttempt

\* What is left of them ends, and j's turn comes, before j is b ticks old.
ServedFrom(j, p, b) ==
  /\ queue[p] = <<j, "beat">>
  /\ \/ age[j] + Delay(Ahead(j, p)) <= b
     \/ \E i \in Ahead(j, p) :
          keeper[i] = "beating" /\ age[j] + Delay(Ahead(j, p)) - attempt[i] <= b

ServedBy(j, b) ==
  IF Roomy THEN age[j] <= b ELSE \E p \in 1..Len(queue) : ServedFrom(j, p, b)

\* The next attempt begins before the last good heartbeat is b ticks old.
DueBy(j, b) ==
  running[j] =>
    /\ keeper[j] # "over"
    /\ keeper[j] = "sleeping" => age[j] + sleep[j] + Wait <= b
    /\ keeper[j] = "queued" => ServedBy(j, b)
    /\ keeper[j] = "beating" => age[j] <= b + attempt[j]

\* Without an outage, through one, and at the deadline.
UsuallyDue == Beat + MaxAttempt + Wait
DueThroughOutage == Beat + Retry + 2 * MaxAttempt + 2 * Wait + longest
DueLatest == Lease + Retry + MaxAttempt - 1 + Wait

OutagesSound ==
  /\ outage <= longest + 1
  /\ outages = 0 => Up

TimingSound(j) ==
  /\ running[j] /\ left[j] > 0 => age[j] + left[j] <= Lease + MaxAttempt
  /\ DueBy(j, DueLatest)
  /\ outages = 0 => DueBy(j, UsuallyDue)
  /\ outages <= 1 => DueBy(j, DueThroughOutage)
  /\ running[j] /\ outages <= 1 /\ ~Up => age[j] <= Beat + 2 * MaxAttempt + Wait + outage - 1

LeaseSound ==
  /\ TypesSound /\ QueueSound /\ AttemptsSound /\ OutagesSound
  /\ \A j \in Job : TimingSound(j)
  /\ LiveNotRecovered

--------------------------------------------------------------------------------
(* The pool *)

\* More executions take longer, by an attempt at least.
LEMMA DelayGrows ==
  ASSUME NEW T \in SUBSET Job, NEW S \in SUBSET T
  PROVE  /\ Delay(S) \in Nat /\ Delay(T) \in Nat
         /\ Delay(S) <= Delay(T)
         /\ \A i \in T \ S : Delay(S) + MaxAttempt <= Delay(T)
<1>1. /\ IsFiniteSet(T) /\ Cardinality(S) \in Nat /\ Cardinality(T) \in Nat
      /\ Cardinality(S) <= Cardinality(T)
      /\ Cardinality(S) = Cardinality(T) => S = T
  BY JobAssumption, FS_Subset, FS_CardinalityType
<1>2. \A m, n \in Nat : m <= n => m * MaxAttempt <= n * MaxAttempt /\ m * MaxAttempt \in Nat
  BY DistanceAssumption
<1>3. \A m, n \in Nat : m < n => m * MaxAttempt + MaxAttempt <= n * MaxAttempt
  <2>1. \A m, n \in Nat : m < n => (m + 1) * MaxAttempt <= n * MaxAttempt
    BY <1>2
  <2>2. \A m \in Nat : (m + 1) * MaxAttempt = m * MaxAttempt + MaxAttempt
    BY DistanceAssumption
  <2> QED BY <2>1, <2>2
<1>4. \A i \in T \ S : Cardinality(S) < Cardinality(T)
  BY <1>1
<1> QED BY <1>1, <1>2, <1>3, <1>4 DEF Delay

\* Wait is the time for the heartbeats of all the others.
LEMMA WaitCovers ==
  ASSUME NEW j \in Job
  PROVE  Wait \in Nat /\ (~Roomy => Wait = Delay(Job \ {j})) /\ (Roomy => Wait = 0)
<1>1. Cardinality(Job \ {j}) = Cardinality(Job) - 1 /\ Cardinality(Job) \in Nat
  BY JobAssumption, FS_RemoveElement, FS_CardinalityType
<1>2. Delay(Job \ {j}) \in Nat
  BY DelayGrows
<1> QED BY <1>1, <1>2 DEF Wait, Roomy, Delay

\* Every step keeps the types.
LEMMA StepKeepsTypes ==
  ASSUME TypesSound, [Next]_vars
  PROVE  TypesSound'
<1> USE DistanceAssumption DEF Set
<1>1. ASSUME NEW j \in Job, Wake(j) \/ Validate(j) PROVE TypesSound'
  <2>1. \A kind \in {"beat", "work"} : Append(queue, <<j, kind>>) \in Seq(Item)
    BY DEF TypesSound, Item
  <2> QED BY <1>1, <2>1 DEF Wake, Validate, TypesSound
<1>2. ASSUME NEW j \in Job, Beaten(j) \/ Refused(j) \/ Failed(j) PROVE TypesSound'
  <2>1. CASE Beaten(j)
    BY <2>1 DEF Beaten, SleepFor, TypesSound
  <2>2. CASE GiveUp(j) /\ UNCHANGED <<row, age, attempt, work, held, queue, outage, outages, longest>>
    BY <2>2 DEF GiveUp, TypesSound
  <2>3. CASE /\ SleepFor(j, Retry)
             /\ UNCHANGED <<row, age, running, attempt, left, work, held, queue,
                            outage, outages, longest>>
    BY <2>3 DEF SleepFor, TypesSound
  <2> QED BY <1>2, <2>1, <2>2, <2>3 DEF Refused, Failed
<1>3. ASSUME NEW j \in Job, Finish(j) \/ EndValidation(j) \/ Recover(j) PROVE TypesSound'
  BY <1>3 DEF Finish, EndValidation, Recover, TypesSound
<1>4. CASE Start
  <2> DEFINE j == Head(queue)[1]
  <2>1. Tail(queue) \in Seq(Item) /\ j \in Job
    BY <1>4 DEF Start, TypesSound, Item
  <2>2. /\ queue' = Tail(queue)
        /\ UNCHANGED <<row, age, running, sleep, left, outage, outages, longest>>
    BY <1>4 DEF Start
  <2>3. \/ keeper' = keeper
        \/ keeper' = [keeper EXCEPT ![j] = "beating"]
        \/ keeper' = [keeper EXCEPT ![j] = "over"]
    BY <1>4 DEF Start
  <2>4. attempt' = attempt \/ attempt' = [attempt EXCEPT ![j] = 0]
    BY <1>4 DEF Start
  <2>5. \/ work' = work /\ held' = held
        \/ /\ work' = [work EXCEPT ![j] = IF running[j] THEN "thread" ELSE "over"]
           /\ held' = [held EXCEPT ![j] = 0]
    BY <1>4 DEF Start
  <2> HIDE DEF j
  <2>6. keeper' \in [Job -> {"sleeping", "queued", "beating", "over"}]
    BY <2>1, <2>3 DEF TypesSound
  <2>7. attempt' \in [Job -> Nat]
    <3>1. attempt \in [Job -> Nat] /\ 0 \in Nat
      BY DEF TypesSound
    <3> QED BY <2>4, <3>1, Zenon
  <2>8. work' \in [Job -> {"agent", "queued", "thread", "over"}] /\ held' \in [Job -> Nat]
    <3>1. /\ work \in [Job -> {"agent", "queued", "thread", "over"}]
          /\ held \in [Job -> Nat] /\ 0 \in Nat
      BY DEF TypesSound
    <3>2. (IF running[j] THEN "thread" ELSE "over") \in {"agent", "queued", "thread", "over"}
      OBVIOUS
    <3> QED BY <2>5, <3>1, <3>2, Zenon
  <2> QED BY <2>1, <2>2, <2>6, <2>7, <2>8 DEF TypesSound
<1>5. CASE GoDown \/ ComeUp \/ UNCHANGED vars
  BY <1>5 DEF GoDown, ComeUp, vars, TypesSound
<1>6. CASE Tick
  <2>1. ASSUME NEW j \in Job PROVE Least(age[j] + 1, MaxAge) \in Nat
    <3>1. Wait \in Nat /\ age[j] \in Nat
      BY WaitCovers DEF TypesSound
    <3> QED BY <3>1 DEF Least, MaxAge
  <2> QED BY <1>6, <2>1 DEF Tick, Idle, TypesSound
<1> QED BY <1>1, <1>2, <1>3, <1>4, <1>5, <1>6 DEF Next

\* Every step keeps the queue sound.
LEMMA StepKeepsQueue ==
  ASSUME TypesSound, QueueSound, [Next]_vars
  PROVE  QueueSound'
<1> USE DEF Set
<1>1. ASSUME NEW j \in Job, NEW kind \in {"beat", "work"}, queue' = Append(queue, <<j, kind>>),
             \/ kind = "beat" /\ keeper[j] = "sleeping" /\ keeper' = [keeper EXCEPT ![j] = "queued"]
                  /\ work' = work
             \/ kind = "work" /\ work[j] = "agent" /\ work' = [work EXCEPT ![j] = "queued"]
                  /\ keeper' = keeper
      PROVE  QueueSound'
  <2>1. /\ Len(queue') = Len(queue) + 1 /\ Len(queue) \in Nat
        /\ queue'[Len(queue) + 1] = <<j, kind>>
        /\ \A k \in 1..Len(queue) : queue'[k] = queue[k] /\ queue[k] \in Item
    BY <1>1 DEF TypesSound, Item
  <2>2. \A k \in 1..Len(queue) : queue[k] # <<j, kind>>
    BY <1>1 DEF QueueSound
  <2>3. \A k \in 1..Len(queue') : k \in 1..Len(queue) \/ k = Len(queue) + 1
    BY <2>1
  <2>4. \A k \in 1..Len(queue') :
          /\ queue'[k][2] = "beat" => keeper'[queue'[k][1]] = "queued"
          /\ queue'[k][2] = "work" => work'[queue'[k][1]] = "queued"
    <3> SUFFICES ASSUME NEW k \in 1..Len(queue')
                 PROVE  /\ queue'[k][2] = "beat" => keeper'[queue'[k][1]] = "queued"
                        /\ queue'[k][2] = "work" => work'[queue'[k][1]] = "queued"
      OBVIOUS
    <3>1. CASE k = Len(queue) + 1
      BY <1>1, <2>1, <3>1 DEF TypesSound
    <3>2. CASE k \in 1..Len(queue)
      <4>1. PICK i \in Job, q \in {"beat", "work"} : queue[k] = <<i, q>>
        BY <2>1, <3>2 DEF Item
      <4>2. /\ q = "beat" => keeper[i] = "queued"
            /\ q = "work" => work[i] = "queued"
        BY <3>2, <4>1 DEF QueueSound
      <4>3. /\ q = "beat" => keeper'[i] = "queued"
            /\ q = "work" => work'[i] = "queued"
        BY <1>1, <4>2 DEF TypesSound
      <4> QED BY <2>1, <3>2, <4>1, <4>3
    <3> QED BY <2>3, <3>1, <3>2
  <2>5. \A k, l \in 1..Len(queue') : queue'[k] = queue'[l] => k = l
    BY <2>1, <2>2, <2>3 DEF QueueSound
  <2>6. ASSUME NEW i \in Job, keeper'[i] = "queued"
        PROVE  \E k \in 1..Len(queue') : queue'[k] = <<i, "beat">>
    <3>1. CASE kind = "beat" /\ i = j
      BY <2>1, <3>1
    <3>2. CASE keeper[i] = "queued"
      <4>1. PICK k \in 1..Len(queue) : queue[k] = <<i, "beat">>
        BY <3>2 DEF QueueSound
      <4> QED BY <2>1, <4>1
    <3> QED BY <1>1, <2>6, <3>1, <3>2 DEF TypesSound
  <2> QED BY <2>4, <2>5, <2>6 DEF QueueSound
<1>2. CASE Start
  <2> DEFINE j == Head(queue)[1]
             kind == Head(queue)[2]
  <2>1. /\ Len(queue) \in Nat \ {0} /\ Len(queue') = Len(queue) - 1
        /\ Head(queue) = queue[1] /\ Head(queue) = <<j, kind>>
        /\ j \in Job /\ kind \in {"beat", "work"}
        /\ \A k \in 1..Len(queue') :
             k + 1 \in 1..Len(queue) /\ queue'[k] = queue[k + 1] /\ queue[k + 1] \in Item
    BY <1>2 DEF Start, TypesSound, Item
  <2>2. \A k \in 1..Len(queue') : queue'[k] # <<j, kind>>
    BY <2>1 DEF QueueSound
  <2>3. /\ \A i \in Job : ~(kind = "beat" /\ i = j) => keeper'[i] = keeper[i]
        /\ \A i \in Job : ~(kind = "work" /\ i = j) => work'[i] = work[i]
        /\ kind = "beat" => keeper'[j] # "queued"
    BY <1>2, <2>1 DEF Start, TypesSound
  <2> HIDE DEF j, kind
  <2>4. \A k \in 1..Len(queue') :
          /\ queue'[k][2] = "beat" => keeper'[queue'[k][1]] = "queued"
          /\ queue'[k][2] = "work" => work'[queue'[k][1]] = "queued"
    BY <2>1, <2>2, <2>3 DEF QueueSound, Item
  <2>5. \A k, l \in 1..Len(queue') : queue'[k] = queue'[l] => k = l
    BY <2>1 DEF QueueSound
  <2>6. ASSUME NEW i \in Job, keeper'[i] = "queued"
        PROVE  \E k \in 1..Len(queue') : queue'[k] = <<i, "beat">>
    <3>1. keeper[i] = "queued" /\ <<i, "beat">> # <<j, kind>>
      BY <2>3, <2>6
    <3>2. PICK k \in 1..Len(queue) : queue[k] = <<i, "beat">>
      BY <3>1 DEF QueueSound
    <3>3. k - 1 \in 1..Len(queue') /\ queue'[k - 1] = queue[k]
      BY <2>1, <3>1, <3>2
    <3> QED BY <3>2, <3>3
  <2> QED BY <2>4, <2>5, <2>6 DEF QueueSound
<1>3. CASE /\ queue' = queue
           /\ \A i \in Job : keeper'[i] = "queued" <=> keeper[i] = "queued"
           /\ \A i \in Job : work'[i] = "queued" <=> work[i] = "queued"
  <2>1. \A k \in 1..Len(queue) : queue[k][1] \in Job
    BY DEF TypesSound, Item
  <2> QED BY <1>3, <2>1 DEF QueueSound
<1>4. ASSUME NEW j \in Job, Wake(j) \/ Validate(j) PROVE QueueSound'
  <2>1. CASE Wake(j) /\ running[j]
    BY <1>1, <2>1 DEF Wake
  <2>2. CASE Wake(j) /\ ~running[j]
    BY <1>3, <2>2 DEF Wake, TypesSound
  <2>3. CASE Validate(j)
    BY <1>1, <2>3 DEF Validate
  <2> QED BY <1>4, <2>1, <2>2, <2>3
<1>5. ASSUME NEW j \in Job, Beaten(j) \/ Refused(j) \/ Failed(j) PROVE QueueSound'
  BY <1>3, <1>5 DEF Beaten, Refused, Failed, SleepFor, GiveUp, TypesSound
<1>6. ASSUME NEW j \in Job, Finish(j) \/ EndValidation(j) \/ Recover(j) PROVE QueueSound'
  BY <1>3, <1>6 DEF Finish, EndValidation, Recover, TypesSound
<1>7. CASE GoDown \/ ComeUp \/ Tick \/ UNCHANGED vars
  BY <1>3, <1>7 DEF GoDown, ComeUp, Tick, vars
<1> QED BY <1>2, <1>4, <1>5, <1>6, <1>7 DEF Next

\* When nothing is due and there is room for all, nobody waits for a thread.
LEMMA NobodyWaits ==
  ASSUME Roomy, TypesSound, QueueSound, Idle
  PROVE  \A j \in Job : keeper[j] # "queued"
<1> DEFINE Beating == {j \in Job : keeper[j] = "beating"}
           Validating == {j \in Job : work[j] = "thread"}
<1>1. /\ IsFiniteSet(Beating) /\ IsFiniteSet(Validating)
      /\ Cardinality(Beating) \in Nat /\ Cardinality(Validating) \in Nat /\ Cardinality(Job) \in Nat
      /\ Cardinality(Beating) <= Cardinality(Job)
      /\ Cardinality(Validating) <= Cardinality(Job)
      /\ Cardinality(Validating) = Cardinality(Job) => Validating = Job
      /\ Cardinality(Beating) = Cardinality(Job) => Beating = Job
  BY JobAssumption, FS_Subset, FS_CardinalityType
<1>2. ASSUME queue # <<>> PROVE FALSE
  <2>1. InUse = Threads
    BY <1>2 DEF Idle
  <2>2. Beating = Job /\ Validating = Job
    BY <1>1, <2>1, PoolAssumption DEF InUse, Roomy
  <2>3. /\ 1 \in 1..Len(queue) /\ queue[1] \in Item
    BY <1>2 DEF TypesSound
  <2>4. \/ keeper[queue[1][1]] = "queued"
        \/ work[queue[1][1]] = "queued"
    BY <2>3 DEF QueueSound, Item
  <2> QED BY <2>2, <2>3, <2>4 DEF Item
<1> QED BY <1>2 DEF QueueSound

\* Otherwise who waits for a thread waits for a heartbeat: the validations leave one.
LEMMA SomeoneBeats ==
  ASSUME EnoughThreads, TypesSound, QueueSound, Idle, NEW j \in Job, keeper[j] = "queued"
  PROVE  \E i \in Job : keeper[i] = "beating"
<1> DEFINE Beating == {i \in Job : keeper[i] = "beating"}
           Validating == {i \in Job : work[i] = "thread"}
<1>1. /\ Cardinality(Validating) \in Nat /\ Cardinality(Job) \in Nat
      /\ Cardinality(Validating) <= Cardinality(Job)
  BY JobAssumption, FS_Subset, FS_CardinalityType
<1>2. queue # <<>>
  BY DEF QueueSound, TypesSound
<1>3. InUse = Threads
  BY <1>2 DEF Idle
<1>4. CASE Beating = {}
  <2>1. Cardinality(Beating) = 0
    BY <1>4, FS_EmptySet
  <2> QED BY <1>1, <1>3, <2>1, PoolAssumption DEF InUse, EnoughThreads
<1> QED BY <1>4

--------------------------------------------------------------------------------
(* Waiting for a thread *)

\* Who is served by then is not older now.
LEMMA ServedLater ==
  ASSUME TypesSound, AttemptsSound, NEW j \in Job, NEW b \in Int, ServedBy(j, b)
  PROVE  age[j] <= b
<1>1. CASE ~Roomy
  <2>1. PICK p \in 1..Len(queue) : ServedFrom(j, p, b)
    BY <1>1 DEF ServedBy
  <2>2. Ahead(j, p) \in SUBSET Job /\ age[j] \in Nat
    BY DEF Ahead, TypesSound
  <2>3. Delay(Ahead(j, p)) \in Nat
    BY <2>2, DelayGrows
  <2>4. ASSUME NEW i \in Ahead(j, p), keeper[i] = "beating"
        PROVE  attempt[i] \in Nat /\ attempt[i] <= Delay(Ahead(j, p))
    <3>1. Delay({}) \in Nat /\ Delay({}) + MaxAttempt <= Delay(Ahead(j, p))
      BY <2>2, DelayGrows
    <3> QED BY <2>2, <2>3, <2>4, <3>1, DistanceAssumption DEF TypesSound, AttemptsSound
  <2> QED BY <2>1, <2>2, <2>3, <2>4 DEF ServedFrom
<1> QED BY <1>1 DEF ServedBy

\* Nobody gets ahead of an item, and who leaves takes the rest of an attempt along.
LEMMA ServedKept ==
  ASSUME TypesSound, TypesSound', AttemptsSound, NEW j \in Job, NEW b \in Int,
         NEW p \in 1..Len(queue), ServedFrom(j, p, b),
         NEW r \in 1..Len(queue'), queue'[r] = queue[p], age'[j] = age[j],
         Ahead(j, r)' \subseteq Ahead(j, p),
         \A i \in Job : keeper[i] = "beating" =>
           \/ keeper'[i] = "beating" /\ attempt'[i] = attempt[i]
           \/ i \notin Ahead(j, r)'
  PROVE  ServedFrom(j, r, b)'
<1> DEFINE A == Ahead(j, p)
           B == Ahead(j, r)'
<1>1. A \in SUBSET Job /\ B \in SUBSET A /\ age[j] \in Nat
  BY DEF Ahead, TypesSound
<1>2. /\ Delay(A) \in Nat /\ Delay(B) \in Nat /\ Delay(B) <= Delay(A)
      /\ \A i \in A \ B : Delay(B) + MaxAttempt <= Delay(A)
  BY <1>1, DelayGrows
<1>3. ASSUME NEW S PROVE Delay(S)' = Delay(S')
  BY DEF Delay
<1> SUFFICES \/ age[j] + Delay(B) <= b
             \/ \E i \in B : keeper'[i] = "beating" /\ age[j] + Delay(B) - attempt'[i] <= b
  BY <1>3 DEF ServedFrom
<1>4. CASE age[j] + Delay(A) <= b
  BY <1>1, <1>2, <1>4
<1>5. ASSUME NEW i \in A, keeper[i] = "beating", age[j] + Delay(A) - attempt[i] <= b
      PROVE  \/ age[j] + Delay(B) <= b
             \/ \E k \in B : keeper'[k] = "beating" /\ age[j] + Delay(B) - attempt'[k] <= b
  <2>1. attempt[i] \in Nat /\ attempt[i] <= MaxAttempt
    BY <1>1, <1>5 DEF TypesSound, AttemptsSound
  <2>2. CASE i \in B
    <3>1. keeper'[i] = "beating" /\ attempt'[i] = attempt[i]
      BY <1>1, <1>5, <2>2
    <3> QED BY <1>1, <1>2, <1>5, <2>1, <2>2, <3>1
  <2>3. CASE i \notin B
    BY <1>1, <1>2, <1>5, <2>1, <2>3, DistanceAssumption
  <2> QED BY <2>2, <2>3
<1> QED BY <1>4, <1>5 DEF ServedFrom

--------------------------------------------------------------------------------
(* Time *)

\* What no step does.
LEMMA NeverReturns ==
  ASSUME TypesSound, [Next]_vars
  PROVE  /\ \A j \in Job : running'[j] => running[j]
         /\ longest' = longest
         /\ outages' = outages \/ outages' = outages + 1
<1>1. longest' = longest /\ (outages' = outages \/ outages' = outages + 1)
  BY DEF Next, Wake, Beaten, Refused, Failed, SleepFor, GiveUp, Validate, Finish, EndValidation,
         Recover, Start, GoDown, ComeUp, Tick, vars
<1>2. running' = running \/ \E i \in Job : running' = [running EXCEPT ![i] = FALSE]
  BY DEF Next, Wake, Beaten, Refused, Failed, SleepFor, GiveUp, Validate, Finish, EndValidation,
         Recover, Start, GoDown, ComeUp, Tick, vars, Set
<1>3. \A j \in Job : running'[j] => running[j]
  BY <1>2 DEF TypesSound
<1> QED BY <1>1, <1>3

\* The age grows only with the clock, the deadline comes nearer with it.
LEMMA AgeKept ==
  ASSUME TypesSound, [Next]_vars, NEW j \in Job, ~Beaten(j), running'[j]
  PROVE  \/ age'[j] = age[j] /\ left'[j] = left[j]
         \/ /\ Tick /\ age'[j] <= age[j] + 1
            /\ left'[j] = IF left[j] > 0 THEN left[j] - 1 ELSE 0
<1>1. CASE Tick
  <2>1. Wait \in Nat /\ age[j] \in Nat /\ running[j]
    BY NeverReturns, WaitCovers DEF TypesSound
  <2> QED BY <1>1, <2>1, DistanceAssumption DEF Tick, Least, MaxAge
<1>2. ASSUME NEW i \in Job, Beaten(i) PROVE age'[j] = age[j] /\ left'[j] = left[j]
  BY <1>2 DEF Beaten, Set, TypesSound
<1>3. \/ age' = age /\ left' = left
      \/ Tick \/ \E i \in Job : Beaten(i)
  BY DEF Next, Wake, Refused, Failed, SleepFor, GiveUp, Validate, Finish, EndValidation,
         Recover, Start, GoDown, ComeUp, vars
<1> QED BY <1>1, <1>2, <1>3

\* What the thread that takes the first item does to the keeper of job i.
Takes(i) ==
  /\ UNCHANGED <<row, age, running, sleep, left, outage, outages, longest>>
  /\ \/ keeper' = keeper /\ attempt' = attempt
     \/ /\ keeper[i] = "queued"
        /\ keeper' = [keeper EXCEPT ![i] = "beating"] /\ attempt' = [attempt EXCEPT ![i] = 0]
     \/ ~running[i] /\ keeper' = [keeper EXCEPT ![i] = "over"] /\ attempt' = attempt

\* The first item of the queue is of one who waits.
LEMMA StartTakes ==
  ASSUME TypesSound, QueueSound, Start
  PROVE  \E i \in Job : Takes(i)
<1> DEFINE i == Head(queue)[1]
           kind == Head(queue)[2]
<1>1. /\ i \in Job /\ kind \in {"beat", "work"}
      /\ 1 \in 1..Len(queue) /\ queue[1] = Head(queue)
  BY DEF Start, TypesSound, Item
<1>2. kind = "beat" => keeper[i] = "queued"
  BY <1>1 DEF QueueSound
<1>3. /\ UNCHANGED <<row, age, running, sleep, left, outage, outages, longest>>
      /\ \/ keeper' = keeper /\ attempt' = attempt
         \/ /\ kind = "beat"
            /\ keeper' = [keeper EXCEPT ![i] = "beating"] /\ attempt' = [attempt EXCEPT ![i] = 0]
         \/ ~running[i] /\ keeper' = [keeper EXCEPT ![i] = "over"] /\ attempt' = attempt
  BY DEF Start, Set
<1> HIDE DEF i, kind
<1> QED BY <1>1, <1>2, <1>3 DEF Takes

\* Every step keeps the attempts within their time.
LEMMA StepKeepsAttempts ==
  ASSUME TypesSound, QueueSound, AttemptsSound, [Next]_vars
  PROVE  AttemptsSound'
<1> USE DistanceAssumption DEF AttemptsSound
<1>1. ASSUME NEW j \in Job, Wake(j) \/ Beaten(j) \/ Refused(j) \/ Failed(j)
      PROVE  AttemptsSound'
  BY <1>1 DEF Wake, Beaten, Refused, Failed, SleepFor, GiveUp, Set, TypesSound
<1>2. ASSUME NEW j \in Job, Validate(j) \/ Finish(j) \/ EndValidation(j) \/ Recover(j)
      PROVE  AttemptsSound'
  BY <1>2 DEF Validate, Finish, EndValidation, Recover
<1>3. CASE Start
  <2>1. PICK i \in Job : Takes(i)
    BY <1>3, StartTakes
  <2> QED BY <2>1 DEF Takes, TypesSound
<1>4. CASE Tick
  BY <1>4 DEF Tick, Idle, TypesSound
<1>5. CASE GoDown \/ ComeUp \/ UNCHANGED vars
  BY <1>5 DEF GoDown, ComeUp, vars
<1> QED BY <1>1, <1>2, <1>3, <1>4, <1>5 DEF Next

\* Who waits for a thread is served by the time it was told: the items before its
\* own get fewer, and while it waits a heartbeat has a thread and gets on.
LEMMA WaitingKept ==
  ASSUME EnoughThreads, TypesSound, TypesSound', QueueSound, AttemptsSound, [Next]_vars,
         NEW j \in Job, keeper[j] = "queued", keeper'[j] = "queued", running'[j],
         NEW b \in Int, ServedBy(j, b)
  PROVE  ServedBy(j, b)'
<1>1. \/ age'[j] = age[j]
      \/ Tick /\ age'[j] <= age[j] + 1
  BY AgeKept DEF Beaten
<1>2. CASE Roomy
  <2>1. ~Tick
    BY <1>2, NobodyWaits DEF Tick
  <2>2. Roomy'
    BY <1>2 DEF Roomy
  <2> QED BY <1>1, <1>2, <2>1, <2>2 DEF ServedBy
<1>3. CASE ~Roomy
  <2>1. PICK p \in 1..Len(queue) : ServedFrom(j, p, b)
    BY <1>3 DEF ServedBy
  <2>2. queue[p] = <<j, "beat">> /\ Len(queue) \in Nat /\ p \in Nat
    BY <2>1 DEF ServedFrom, TypesSound
  <2>3. ~Roomy'
    BY <1>3 DEF Roomy
  <2> SUFFICES \E r \in 1..Len(queue') : ServedFrom(j, r, b)'
    BY <2>3 DEF ServedBy
  <2>4. ASSUME NEW i \in Job, Wake(i) \/ Validate(i)
        PROVE  \E r \in 1..Len(queue') : ServedFrom(j, r, b)'
    <3>1. /\ queue' = queue \/ \E kind \in {"beat", "work"} : queue' = Append(queue, <<i, kind>>)
          /\ age' = age /\ attempt' = attempt
          /\ \A k \in Job : keeper'[k] = "beating" <=> keeper[k] = "beating"
      BY <2>4 DEF Wake, Validate, Set, TypesSound
    <3>2. p \in 1..Len(queue') /\ \A q \in 1..Len(queue) : queue'[q] = queue[q]
      <4>1. CASE queue' = queue
        BY <4>1
      <4>2. ASSUME NEW kind \in {"beat", "work"}, queue' = Append(queue, <<i, kind>>)
            PROVE  p \in 1..Len(queue') /\ \A q \in 1..Len(queue) : queue'[q] = queue[q]
        <5>1. <<i, kind>> \in Item /\ queue \in Seq(Item)
          BY DEF Item, TypesSound
        <5> QED BY <2>2, <4>2, <5>1
      <4> QED BY <3>1, <4>1, <4>2
    <3>3. \A q \in 1..(p - 1) : queue'[q] = queue[q]
      BY <2>2, <3>2
    <3>4. Ahead(j, p)' \subseteq Ahead(j, p)
      BY <3>1, <3>3 DEF Ahead
    <3> QED BY <2>1, <3>1, <3>2, <3>4, ServedKept
  <2>5. ASSUME NEW i \in Job, Beaten(i) \/ Refused(i) \/ Failed(i)
        PROVE  \E r \in 1..Len(queue') : ServedFrom(j, r, b)'
    <3>1. /\ queue' = queue /\ attempt' = attempt
          /\ keeper[i] = "beating" /\ keeper'[i] # "beating"
          /\ \A k \in Job : k # i => keeper'[k] = keeper[k]
      BY <2>5 DEF Beaten, Refused, Failed, SleepFor, GiveUp, Set, TypesSound
    <3>2. age'[j] = age[j]
      BY <2>5, <3>1 DEF Beaten, Refused, Failed, Set, TypesSound
    <3>3. Ahead(j, p)' \subseteq Ahead(j, p)
      BY <2>2, <3>1 DEF Ahead
    <3>4. i \notin Ahead(j, p)'
      BY <2>2, <3>1 DEF Ahead, QueueSound
    <3> QED BY <2>1, <3>1, <3>2, <3>3, <3>4, ServedKept
  <2>6. CASE /\ UNCHANGED <<age, keeper, attempt, queue>>
    <3>1. Ahead(j, p)' \subseteq Ahead(j, p)
      BY <2>6 DEF Ahead
    <3> QED BY <2>1, <2>6, <3>1, ServedKept
  <2>7. CASE Start
    <3> DEFINE i == Head(queue)[1]
               kind == Head(queue)[2]
    <3>1. /\ i \in Job /\ kind \in {"beat", "work"} /\ queue[1] = <<i, kind>>
          /\ queue' = Tail(queue) /\ 1 \in 1..Len(queue)
      <4>1. queue' = Tail(queue) /\ queue # <<>> /\ queue \in Seq(Item)
        BY <2>7 DEF Start, TypesSound
      <4>2. Head(queue) \in Item /\ queue[1] = Head(queue) /\ 1 \in 1..Len(queue)
        BY <4>1
      <4> QED BY <4>1, <4>2 DEF Item
    <3>2. /\ age' = age
          /\ kind = "work" => keeper' = keeper /\ attempt' = attempt
          /\ kind = "beat" =>
               /\ keeper'[i] # "queued"
               /\ \A k \in Job \ {i} : keeper'[k] = keeper[k] /\ attempt'[k] = attempt[k]
      <4>1. /\ age' = age
            /\ \/ kind = "beat" /\ keeper' = [keeper EXCEPT ![i] = "beating"]
                               /\ attempt' = [attempt EXCEPT ![i] = 0]
               \/ kind = "beat" /\ keeper' = [keeper EXCEPT ![i] = "over"] /\ attempt' = attempt
               \/ kind = "work" /\ keeper' = keeper /\ attempt' = attempt
        BY <2>7 DEF Start, Set
      <4> HIDE DEF i, kind
      <4> QED BY <3>1, <4>1 DEF TypesSound
    <3>3. kind = "beat" => keeper[i] = "queued"
      BY <3>1 DEF QueueSound
    <3> HIDE DEF i, kind
    <3>4. p # 1
      BY <2>2, <3>1, <3>2
    <3>5. /\ p - 1 \in 1..Len(queue') /\ queue'[p - 1] = queue[p]
          /\ \A q \in 1..(p - 2) : q + 1 \in 1..(p - 1) /\ queue'[q] = queue[q + 1]
      <4>1. \A q \in 1..(p - 1) : q \in 1..Len(queue') /\ queue'[q] = queue[q + 1]
        BY <2>1, <2>2, <3>1 DEF TypesSound
      <4> QED BY <2>1, <2>2, <3>4, <4>1
    <3>6. Ahead(j, p - 1)' \subseteq Ahead(j, p)
      <4> SUFFICES ASSUME NEW k \in Ahead(j, p - 1)' PROVE k \in Ahead(j, p)
        OBVIOUS
      <4>1. /\ k \in Job \ {j}
            /\ keeper'[k] = "beating" \/ \E q \in 1..(p - 2) : queue'[q] = <<k, "beat">>
        BY <2>2 DEF Ahead
      <4>2. CASE \E q \in 1..(p - 2) : queue'[q] = <<k, "beat">>
        BY <3>5, <4>1, <4>2 DEF Ahead
      <4>3. CASE keeper'[k] = "beating" /\ keeper[k] # "beating"
        <5>1. k = i /\ kind = "beat"
          BY <3>1, <3>2, <4>1, <4>3
        <5>2. 1 \in 1..(p - 1)
          BY <2>2, <3>4
        <5> QED BY <3>1, <4>1, <5>1, <5>2 DEF Ahead
      <4> QED BY <4>1, <4>2, <4>3 DEF Ahead
    <3>7. \A k \in Job : keeper[k] = "beating" =>
             keeper'[k] = "beating" /\ attempt'[k] = attempt[k]
      BY <3>1, <3>2, <3>3
    <3> QED BY <2>1, <3>2, <3>5, <3>6, <3>7, ServedKept
  <2>8. CASE Tick
    <3>1. PICK i \in Job : keeper[i] = "beating"
      BY <2>8, SomeoneBeats DEF Tick
    <3>2. /\ UNCHANGED <<keeper, queue>>
          /\ \A k \in Job : keeper[k] = "beating" => attempt'[k] = attempt[k] + 1
      BY <2>8 DEF Tick
    <3>3. Ahead(j, p)' = Ahead(j, p)
      BY <3>2 DEF Ahead
    <3> DEFINE D == Delay(Ahead(j, p))
    <3>4. D \in Nat /\ Delay(Ahead(j, p))' = D
      <4>1. Ahead(j, p) \in SUBSET Job
        BY DEF Ahead
      <4> QED BY <3>3, <4>1, DelayGrows DEF Delay
    <3>5. i \in Ahead(j, p)
      BY <3>1 DEF Ahead
    <3>6. /\ age[j] \in Nat /\ age'[j] \in Nat /\ age'[j] <= age[j] + 1
          /\ \A k \in Job : attempt[k] \in Nat
      <4>1. age[j] \in Nat /\ age'[j] \in Nat /\ \A k \in Job : attempt[k] \in Nat
        BY DEF TypesSound
      <4> QED BY <1>1, <4>1
    <3>7. \E k \in Ahead(j, p) : keeper[k] = "beating" /\ age[j] + D - attempt[k] <= b
      <4>1. CASE age[j] + D <= b
        BY <3>1, <3>4, <3>5, <3>6, <4>1
      <4> QED BY <2>1, <4>1 DEF ServedFrom
    <3>8. PICK k \in Ahead(j, p) : keeper[k] = "beating" /\ age[j] + D - attempt[k] <= b
      BY <3>7
    <3>9. k \in Job /\ attempt'[k] = attempt[k] + 1
      BY <3>2, <3>8 DEF Ahead
    <3>10. age'[j] + D - attempt'[k] <= b
      BY <3>4, <3>6, <3>8, <3>9
    <3>11. ServedFrom(j, p, b)'
      BY <2>2, <3>2, <3>3, <3>4, <3>8, <3>10 DEF ServedFrom
    <3> QED BY <3>2, <3>11
  <2> QED
    BY <2>4, <2>5, <2>6, <2>7, <2>8
       DEF Next, Finish, EndValidation, Recover, GoDown, ComeUp, vars
<1> QED BY <1>2, <1>3

\* Nothing but the end of an attempt puts the next one off.
LEMMA DueKept ==
  ASSUME EnoughThreads, TypesSound, TypesSound', QueueSound, AttemptsSound, [Next]_vars,
         NEW j \in Job, ~Beaten(j), ~(Failed(j) /\ running'[j]),
         NEW b \in Int, DueBy(j, b)
  PROVE  DueBy(j, b)'
<1> USE DistanceAssumption DEF Set
<1> SUFFICES ASSUME running'[j] PROVE DueBy(j, b)'
  BY DEF DueBy
<1>0. running[j] /\ Wait \in Nat /\ Wait' = Wait
  BY NeverReturns, WaitCovers DEF Wait
<1>6. CASE keeper[j] = "queued" /\ keeper'[j] = "queued"
  BY <1>0, <1>6, WaitingKept DEF DueBy
<1>7. CASE ~(keeper[j] = "queued" /\ keeper'[j] = "queued") /\ Wake(j)
  <2>1. /\ keeper[j] = "sleeping" /\ sleep[j] = 0 /\ keeper'[j] = "queued" /\ age' = age
        /\ queue' = Append(queue, <<j, "beat">>)
        /\ keeper' = [keeper EXCEPT ![j] = "queued"]
    BY <1>0, <1>7 DEF Wake, TypesSound
  <2>2. age[j] + Wait <= b /\ age[j] \in Nat
    BY <1>0, <2>1 DEF DueBy, TypesSound
  <2>3. ServedBy(j, b)'
    <3>1. CASE Roomy
      BY <1>0, <2>1, <2>2, <3>1 DEF ServedBy, Roomy
    <3>2. CASE ~Roomy
      <4>1. PICK r \in 1..Len(queue') : queue'[r] = <<j, "beat">>
        <5>1. Len(queue') \in 1..Len(queue') /\ queue'[Len(queue')] = <<j, "beat">>
          BY <2>1 DEF TypesSound, Item
        <5> QED BY <5>1
      <4>2. Ahead(j, r)' \in SUBSET (Job \ {j})
        BY DEF Ahead
      <4>3. Delay(Ahead(j, r)') \in Nat /\ Delay(Ahead(j, r)') <= Wait
        BY <3>2, <4>2, DelayGrows, WaitCovers
      <4>4. Delay(Ahead(j, r))' = Delay(Ahead(j, r)')
        BY DEF Delay
      <4>5. age'[j] + Delay(Ahead(j, r))' <= b
        BY <1>0, <2>1, <2>2, <4>3, <4>4
      <4>6. ServedFrom(j, r, b)'
        BY <4>1, <4>5 DEF ServedFrom
      <4> QED BY <3>2, <4>1, <4>6 DEF ServedBy, Roomy
    <3> QED BY <3>1, <3>2
  <2> QED BY <2>1, <2>3 DEF DueBy
<1>8. keeper[j] = "queued" => age[j] <= b
  BY <1>0, ServedLater DEF DueBy
<1>1. ASSUME NEW i \in Job, Wake(i) \/ Validate(i) \/ Finish(i) \/ EndValidation(i) \/ Recover(i),
             ~Wake(j), keeper[j] # "queued"
      PROVE  DueBy(j, b)'
  <2>1. /\ keeper'[j] = keeper[j]
        /\ UNCHANGED <<age, sleep, attempt>>
    BY <1>1 DEF Wake, Validate, Recover, Finish, EndValidation, TypesSound
  <2> QED BY <1>0, <1>1, <2>1 DEF DueBy
<1>2. ASSUME NEW i \in Job, Beaten(i) \/ Refused(i) \/ Failed(i), keeper[j] # "queued"
      PROVE  DueBy(j, b)'
  <2>1. CASE i # j
    <3>1. /\ keeper'[j] = keeper[j] /\ age'[j] = age[j] /\ sleep'[j] = sleep[j]
          /\ attempt' = attempt
      BY <1>2, <2>1 DEF Beaten, Refused, Failed, SleepFor, GiveUp, TypesSound
    <3> QED BY <1>0, <1>2, <3>1 DEF DueBy
  <2>2. CASE i = j
    BY <1>2, <2>2 DEF Refused, GiveUp, DueBy, TypesSound
  <2> QED BY <2>1, <2>2
<1>3. CASE Start /\ ~(keeper[j] = "queued" /\ keeper'[j] = "queued")
  <2>1. PICK i \in Job : Takes(i)
    BY <1>3, StartTakes
  <2>2. CASE i = j /\ keeper' # keeper
    BY <1>0, <1>8, <2>1, <2>2 DEF Takes, DueBy, TypesSound
  <2>3. CASE ~(i = j /\ keeper' # keeper)
    <3>1. /\ keeper'[j] = keeper[j] /\ attempt'[j] = attempt[j] /\ UNCHANGED <<age, sleep>>
      BY <2>1, <2>3 DEF Takes, TypesSound
    <3> QED BY <1>0, <1>3, <3>1 DEF DueBy
  <2> QED BY <2>2, <2>3
<1>4. CASE Tick /\ keeper[j] # "queued"
  <2>2. /\ UNCHANGED <<running, keeper>>
        /\ age'[j] \in Nat /\ age'[j] <= age[j] + 1
    BY <1>0, <1>4, WaitCovers DEF Tick, Least, MaxAge, TypesSound
  <2>3. keeper[j] = "sleeping" => sleep'[j] = sleep[j] - 1
    BY <1>4 DEF Tick
  <2>4. keeper[j] = "beating" => attempt'[j] = attempt[j] + 1
    BY <1>4 DEF Tick
  <2>5. age[j] \in Nat /\ sleep[j] \in Nat /\ attempt[j] \in Nat
    BY DEF TypesSound
  <2> QED BY <1>0, <1>4, <2>2, <2>3, <2>4, <2>5 DEF DueBy
<1>5. CASE (GoDown \/ ComeUp \/ UNCHANGED vars) /\ keeper[j] # "queued"
  BY <1>0, <1>5 DEF GoDown, ComeUp, vars, DueBy
<1>9. CASE keeper[j] = "queued" /\ keeper'[j] # "queued"
  <2>1. ASSUME NEW i \in Job, Wake(i) \/ Beaten(i) \/ Refused(i) \/ Failed(i) PROVE FALSE
    <3>1. keeper[i] # "queued" /\ \A k \in Job \ {i} : keeper'[k] = keeper[k]
      BY <2>1 DEF Wake, Beaten, Refused, Failed, SleepFor, GiveUp, TypesSound
    <3> QED BY <1>9, <3>1
  <2>2. Start \/ keeper' = keeper
    BY <2>1 DEF Next, Validate, Finish, EndValidation, Recover, GoDown, ComeUp, Tick, vars
  <2> QED BY <1>3, <1>9, <2>2
<1> QED BY <1>1, <1>2, <1>3, <1>4, <1>5, <1>6, <1>7, <1>9 DEF Next


\* An attempt that ends puts the next one off by an interval or by the retry's delay.
LEMMA AttemptEnds ==
  ASSUME TypesSound, NEW j \in Job, running[j]
  PROVE  /\ Beaten(j) =>
              /\ Up /\ outage' = outage /\ outages' = outages
              /\ keeper[j] = "beating" /\ keeper'[j] = "sleeping" /\ sleep'[j] = Beat
              /\ age'[j] = attempt[j] /\ left'[j] = Lease
         /\ Failed(j) /\ running'[j] =>
              /\ ~Up /\ outage' = outage /\ outages' = outages
              /\ keeper'[j] = "sleeping" /\ sleep'[j] = Retry
              /\ age'[j] = age[j] /\ left[j] > 0
<1>1. ASSUME Beaten(j)
      PROVE  /\ Up /\ outage' = outage /\ outages' = outages
             /\ keeper[j] = "beating" /\ keeper'[j] = "sleeping" /\ sleep'[j] = Beat
             /\ age'[j] = attempt[j] /\ left'[j] = Lease
  BY <1>1 DEF Beaten, SleepFor, Set, TypesSound
<1>2. ASSUME Failed(j), running'[j]
      PROVE  /\ ~Up /\ outage' = outage /\ outages' = outages
             /\ keeper'[j] = "sleeping" /\ sleep'[j] = Retry
             /\ age'[j] = age[j] /\ left[j] > 0
  BY <1>2 DEF Failed, SleepFor, GiveUp, Set, TypesSound
<1> QED BY <1>1, <1>2

\* Outages begin one by one and end in time.
LEMMA StepKeepsOutages ==
  ASSUME TypesSound, OutagesSound, [Next]_vars
  PROVE  /\ OutagesSound'
         /\ outages' <= 1 /\ ~Up' =>
              \/ outages = 0 /\ outage' = 1 /\ ~Tick
              \/ outages <= 1 /\ ~Up /\ (outage' = outage \/ (Tick /\ outage' = outage + 1))
<1>1. \/ outage' = outage /\ outages' = outages /\ ~GoDown
      \/ GoDown \/ ComeUp \/ Tick
  BY DEF Next, Wake, Beaten, Refused, Failed, SleepFor, GiveUp, Validate, Finish, EndValidation,
         Recover, Start, GoDown, ComeUp, vars, Up
<1>2. longest' = longest
  BY NeverReturns
<1>3. CASE outage' = outage /\ outages' = outages
  BY <1>2, <1>3 DEF OutagesSound, Up, TypesSound
<1>4. CASE GoDown
  BY <1>2, <1>4 DEF GoDown, OutagesSound, Up, TypesSound, Tick
<1>5. CASE ComeUp
  BY <1>2, <1>5 DEF ComeUp, OutagesSound, Up, TypesSound
<1>6. CASE Tick
  BY <1>2, <1>6 DEF Tick, Idle, OutagesSound, Up, TypesSound
<1> QED BY <1>1, <1>3, <1>4, <1>5, <1>6

\* How old a running execution's last good heartbeat gets, given when the next
\* attempt is due.
LEMMA AgeOfDue ==
  ASSUME TypesSound, AttemptsSound, NEW j \in Job, running[j], NEW b \in Int, DueBy(j, b)
  PROVE  age[j] <= b + MaxAttempt
<1>1. /\ keeper[j] \in {"sleeping", "queued", "beating", "over"}
      /\ age[j] \in Nat /\ sleep[j] \in Nat /\ attempt[j] \in Nat /\ Wait \in Nat
  BY WaitCovers DEF TypesSound
<1>2. keeper[j] = "queued" => age[j] <= b
  BY ServedLater DEF DueBy
<1>3. keeper[j] = "beating" => attempt[j] <= MaxAttempt
  BY DEF AttemptsSound
<1> QED BY <1>1, <1>2, <1>3, DistanceAssumption DEF DueBy

\* Every step keeps an execution's time.
LEMMA StepKeepsTime ==
  ASSUME EnoughThreads, LeaseSound, [Next]_vars, NEW j \in Job
  PROVE  TimingSound(j)'
<1> USE DistanceAssumption
<1>0. Wait \in Nat /\ Wait' = Wait
  BY WaitCovers DEF Wait
<1>1. /\ TypesSound /\ TypesSound' /\ QueueSound /\ AttemptsSound /\ OutagesSound /\ OutagesSound' /\ TimingSound(j)
  BY StepKeepsTypes, StepKeepsOutages DEF LeaseSound
<1>2. longest' = longest /\ (outages' = outages \/ outages' = outages + 1)
  BY <1>1, NeverReturns
<1>3. CASE ~running'[j]
  BY <1>3 DEF TimingSound, DueBy
<1>4. CASE running'[j] /\ Beaten(j)
  <2>1. running[j]
    BY <1>1, <1>4, NeverReturns
  <2>2. /\ Up /\ outage' = outage /\ outages' = outages
        /\ keeper[j] = "beating" /\ keeper'[j] = "sleeping" /\ sleep'[j] = Beat
        /\ age'[j] = attempt[j] /\ left'[j] = Lease
    BY <1>1, <1>4, <2>1, AttemptEnds
  <2>3. attempt[j] \in 0..MaxAttempt
    BY <1>1, <2>2 DEF AttemptsSound, TypesSound
  <2>4. longest \in Nat /\ Up'
    BY <1>1, <2>2 DEF TypesSound, Up
  <2> QED
    BY <1>0, <1>2, <2>2, <2>3, <2>4
       DEF TimingSound, DueBy, UsuallyDue, DueThroughOutage, DueLatest
<1>5. CASE running'[j] /\ Failed(j)
  <2>1. running[j]
    BY <1>1, <1>5, NeverReturns
  <2>2. /\ ~Up /\ outage' = outage /\ outages' = outages
        /\ keeper'[j] = "sleeping" /\ sleep'[j] = Retry
        /\ age'[j] = age[j] /\ left[j] > 0
    BY <1>1, <1>5, <2>1, AttemptEnds
  <2>3. left' = left
    BY <1>5 DEF Failed, GiveUp
  <2>4. /\ age[j] \in Nat /\ left[j] \in Nat /\ longest \in Nat /\ outage \in Nat
        /\ outages # 0 /\ ~Up' /\ outage <= longest + 1
        /\ age[j] + left[j] <= Lease + MaxAttempt
        /\ outages <= 1 => age[j] <= Beat + 2 * MaxAttempt + Wait + outage - 1
    BY <1>1, <2>1, <2>2, <2>3 DEF TypesSound, OutagesSound, TimingSound, Up
  <2> QED
    BY <1>0, <1>2, <2>1, <2>2, <2>3, <2>4
       DEF TimingSound, DueBy, UsuallyDue, DueThroughOutage, DueLatest
<1>6. CASE running'[j] /\ ~Beaten(j) /\ ~Failed(j)
  <2>1. running[j]
    BY <1>1, <1>6, NeverReturns
  <2>2. \A b \in Int : DueBy(j, b) => DueBy(j, b)'
    BY <1>1, <1>6, DueKept
  <2>3. \/ age'[j] = age[j] /\ left'[j] = left[j]
        \/ /\ Tick /\ age'[j] <= age[j] + 1
           /\ left'[j] = IF left[j] > 0 THEN left[j] - 1 ELSE 0
    BY <1>1, <1>6, AgeKept
  <2>4. /\ DueLatest \in Int /\ UsuallyDue \in Int /\ DueThroughOutage \in Int
        /\ DueLatest' = DueLatest /\ UsuallyDue' = UsuallyDue
        /\ DueThroughOutage' = DueThroughOutage
    BY <1>0, <1>1, <1>2 DEF DueLatest, UsuallyDue, DueThroughOutage, TypesSound
  <2>5. /\ DueBy(j, DueLatest)'
        /\ outages' = 0 => DueBy(j, UsuallyDue)'
        /\ outages' <= 1 => DueBy(j, DueThroughOutage)'
    <3>1. DueBy(j, DueLatest)'
      BY <1>1, <2>2, <2>4 DEF TimingSound, DueBy
    <3>2. outages \in Nat
      BY <1>1 DEF TypesSound
    <3>3. outages' = 0 => DueBy(j, UsuallyDue)'
      BY <1>1, <1>2, <2>2, <2>4, <3>2 DEF TimingSound, DueBy
    <3>4. outages' <= 1 => DueBy(j, DueThroughOutage)'
      BY <1>1, <1>2, <2>2, <2>4, <3>2 DEF TimingSound, DueBy
    <3> QED BY <3>1, <3>3, <3>4
  <2>6. /\ age[j] \in Nat /\ left[j] \in Nat /\ outage \in Nat /\ outages \in Nat
        /\ age'[j] \in Nat
        /\ left[j] > 0 => age[j] + left[j] <= Lease + MaxAttempt
        /\ outages = 0 => DueBy(j, UsuallyDue)
        /\ outages <= 1 /\ ~Up => age[j] <= Beat + 2 * MaxAttempt + Wait + outage - 1
    BY <1>1, <2>1 DEF TimingSound, TypesSound
  <2>7. left'[j] > 0 => age'[j] + left'[j] <= Lease + MaxAttempt
    BY <2>3, <2>6
  <2>8. ASSUME outages' <= 1, ~Up' PROVE age'[j] <= Beat + 2 * MaxAttempt + Wait + outage' - 1
    <3>1. CASE outages = 0 /\ outage' = 1 /\ ~Tick
      <4>1. DueBy(j, UsuallyDue) /\ age'[j] = age[j]
        BY <2>3, <2>6, <3>1
      <4>2. age[j] <= UsuallyDue + MaxAttempt
        BY <1>1, <2>1, <2>4, <4>1, AgeOfDue
      <4> QED BY <1>0, <2>6, <3>1, <4>1, <4>2 DEF UsuallyDue
    <3>2. CASE outages <= 1 /\ ~Up /\ (outage' = outage \/ (Tick /\ outage' = outage + 1))
      <4>1. Tick => outage' = outage + 1
        BY <3>2 DEF Tick
      <4>2. outage' \in Nat
        BY <1>1 DEF TypesSound
      <4> QED BY <1>0, <2>3, <2>6, <3>2, <4>1, <4>2
    <3> QED BY <1>1, <2>8, <3>1, <3>2, StepKeepsOutages
  <2> QED BY <2>5, <2>7, <2>8 DEF TimingSound
<1> QED BY <1>3, <1>4, <1>5, <1>6

\* No step lets another host take the job of a running execution.
LEMMA NeverRecovered ==
  ASSUME LeaseSound, [Next]_vars
  PROVE  LiveNotRecovered'
<1> USE DistanceAssumption
<1> SUFFICES ASSUME NEW j \in Job, running'[j], row'[j] = "TAKEN"
             PROVE  /\ outages' = 0 => Beat + 2 * MaxAttempt + Wait + Skew >= Lease
                    /\ outages' <= 1 =>
                         longest' + Beat + Retry + 3 * MaxAttempt + 2 * Wait + Skew >= Lease
  BY DEF LiveNotRecovered, Wait
<1>1. /\ running[j] /\ longest' = longest /\ outages \in Nat /\ longest \in Nat
      /\ outages' = outages \/ outages' = outages + 1
  BY NeverReturns DEF LeaseSound, TypesSound
<1>2. Wait \in Nat /\ age[j] \in Nat
  BY WaitCovers DEF LeaseSound, TypesSound
<1>3. CASE row[j] = "TAKEN"
  BY <1>1, <1>3 DEF LeaseSound, LiveNotRecovered
<1>4. CASE row[j] = "RUNNING"
  <2>1. Recover(j)
    <3>1. row' = row \/ \E i \in Job : Recover(i)
      BY DEF Next, Wake, Beaten, Refused, Failed, Validate, Finish, EndValidation, Start, GoDown,
             ComeUp, Tick, vars
    <3>2. ASSUME NEW i \in Job, Recover(i) PROVE i = j
      BY <1>4, <3>2 DEF Recover, Set, LeaseSound, TypesSound
    <3> QED BY <1>4, <3>1, <3>2
  <2>2. age[j] + Skew >= Lease /\ outages' = outages
    BY <2>1 DEF Recover
  <2>3. outages = 0 => age[j] <= UsuallyDue + MaxAttempt
    <3>1. UsuallyDue \in Int
      BY <1>2 DEF UsuallyDue
    <3> QED BY <1>1, <3>1, AgeOfDue DEF LeaseSound, TimingSound
  <2>4. outages <= 1 => age[j] <= DueThroughOutage + MaxAttempt
    <3>1. DueThroughOutage \in Int
      BY <1>1, <1>2 DEF DueThroughOutage
    <3> QED BY <1>1, <3>1, AgeOfDue DEF LeaseSound, TimingSound
  <2> QED BY <1>1, <1>2, <2>2, <2>3, <2>4 DEF UsuallyDue, DueThroughOutage
<1> QED BY <1>3, <1>4 DEF LeaseSound, TypesSound

\* In a process whose pool has a thread more than it has executions the leases are
\* sound in every reachable state.
THEOREM LeaseInvariant ==
  ASSUME EnoughThreads
  PROVE  Spec => []LeaseSound
<1>1. Init => LeaseSound
  <2> SUFFICES ASSUME Init PROVE LeaseSound
    OBVIOUS
  <2> USE DistanceAssumption
  <2>1. PICK busy \in SUBSET Job : StartWith(busy)
    BY DEF Init
  <2>2. /\ age \in [Job -> 0..MaxAttempt]
        /\ running = [j \in Job |-> j \in busy]
        /\ keeper = [j \in Job |-> IF j \in busy THEN "sleeping" ELSE "over"]
        /\ sleep = [j \in Job |-> IF j \in busy THEN Beat ELSE 0]
        /\ work = [j \in Job |-> IF j \in busy THEN "agent" ELSE "over"]
    BY <2>1 DEF StartWith
  <2>3. /\ queue = <<>> /\ Len(queue) = 0 /\ queue \in Seq(Item)
        /\ outage = 0 /\ outages = 0 /\ longest \in Nat
    BY DEF Init
  <2>4. TypesSound
    BY <2>2, <2>3 DEF Init, TypesSound
  <2>5. QueueSound /\ AttemptsSound /\ OutagesSound
    BY <2>2, <2>3 DEF QueueSound, AttemptsSound, OutagesSound, Up
  <2>6. ASSUME NEW j \in Job PROVE TimingSound(j)
    <3>1. running[j] => /\ keeper[j] = "sleeping" /\ sleep[j] = Beat
                        /\ age[j] \in 0..MaxAttempt /\ left[j] = Lease
      BY <2>2 DEF Init
    <3>2. Wait \in Nat
      BY WaitCovers
    <3> QED
      BY <2>3, <3>1, <3>2
         DEF TimingSound, DueBy, UsuallyDue, DueThroughOutage, DueLatest, Up
  <2>7. LiveNotRecovered
    BY DEF Init, LiveNotRecovered
  <2> QED BY <2>4, <2>5, <2>6, <2>7 DEF LeaseSound
<1>2. LeaseSound /\ [Next]_vars => LeaseSound'
  BY StepKeepsTypes, StepKeepsQueue, StepKeepsAttempts, StepKeepsOutages, StepKeepsTime,
     NeverRecovered
     DEF LeaseSound
<1> QED BY <1>1, <1>2, PTL DEF Spec

\* A running job stays its execution's, for every choice of intervals, outages and
\* clocks with room for a heartbeat before the lease ends: one interval with its waits
\* and its transactions while the database is up, and a retry more through one outage.
THEOREM LiveNeverRecovered ==
  ASSUME EnoughThreads
  PROVE  Spec => []LiveNotRecovered
<1>1. LeaseSound => LiveNotRecovered
  BY DEF LeaseSound
<1> QED BY <1>1, LeaseInvariant, PTL

\* Without the database an execution ends by itself, a retry, a wait for a thread and
\* two transactions after its lease at the latest.
THEOREM OutlivingBounded ==
  ASSUME EnoughThreads
  PROVE  Spec => []OutlivesBounded
<1>1. LeaseSound => OutlivesBounded
  <2> SUFFICES ASSUME LeaseSound, NEW j \in Job, running[j]
               PROVE  age[j] < Lease + Retry + 2 * MaxAttempt + Wait
    BY DEF OutlivesBounded
  <2>1. Wait \in Nat /\ age[j] \in Nat
    BY WaitCovers DEF LeaseSound, TypesSound
  <2>2. DueLatest \in Int
    BY <2>1, DistanceAssumption DEF DueLatest
  <2>3. age[j] <= DueLatest + MaxAttempt
    BY <2>2, AgeOfDue DEF LeaseSound, TimingSound
  <2> QED BY <2>1, <2>3, DistanceAssumption DEF DueLatest
<1> QED BY <1>1, LeaseInvariant, PTL

\* While the database is up, a running job is renewed every interval, also where its
\* heartbeats wait for a thread that another execution's heartbeat has.
THEOREM AlwaysBeatsOnTime ==
  ASSUME EnoughThreads
  PROVE  Spec => []BeatsOnTime
<1>1. LeaseSound => BeatsOnTime
  <2> SUFFICES ASSUME LeaseSound, NEW j \in Job, running[j], outages = 0
               PROVE  age[j] <= Beat + 2 * MaxAttempt + Wait
    BY DEF BeatsOnTime
  <2>1. Wait \in Nat /\ age[j] \in Nat
    BY WaitCovers DEF LeaseSound, TypesSound
  <2>2. UsuallyDue \in Int
    BY <2>1, DistanceAssumption DEF UsuallyDue
  <2>3. age[j] <= UsuallyDue + MaxAttempt
    BY <2>2, AgeOfDue DEF LeaseSound, TimingSound
  <2> QED BY <2>1, <2>3, DistanceAssumption DEF UsuallyDue
<1> QED BY <1>1, LeaseInvariant, PTL
================================================================================
