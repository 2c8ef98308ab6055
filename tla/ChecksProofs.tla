------------------------------ MODULE ChecksProofs ------------------------------
(***************************************************************************)
(* Proofs about the checks of what comes from outside: the two a patch has *)
(* to pass, DiffPolicy and ValidationRun, and that of an event's           *)
(* reproduction data, ReproductionData.  They share nothing but this       *)
(* module.                                                                 *)
(*                                                                         *)
(* check_diff never looks at the worktree, only at what several Git        *)
(* commands report of it; the proof is that these reports, taken together, *)
(* leave out nothing.  Of run_validation: however the ends of a command,   *)
(* of its children and of bwrap meet the deadline, no command runs past    *)
(* its turn or its timeout or after one that did not pass, and PASSED is   *)
(* recorded only of one that ended by itself and in time.  Of              *)
(* check_reproduction_data: the depth it carries down, node by node, is    *)
(* the depth the limit is about.                                           *)
(***************************************************************************)
EXTENDS ValidationRun, DiffPolicy, ReproductionData, FiniteSetTheorems,
        NaturalsInduction, TLAPS

--------------------------------------------------------------------------------
(* check_diff *)

\* The change is one of those enumerated, and a verdict is its own.
DiffSound ==
  /\ now \in [Path -> {"same", "file", "link", "binary", "special", "gone", "ignored"}]
  /\ flaw \in {"none", "whitespace", "encoding", "size"}
  /\ verdict # "none" => verdict = CheckDiff(flaw)

\* Without a rename the names that Git reports are the paths that changed.
LEMMA NamesWithoutRenames ==
  ASSUME DOMAIN moved = {}
  PROVE  Names = Changed /\ Entries = {<<p>> : p \in Changed} /\ Untracked \subseteq Changed
BY DEF Names, Entries, Range, Untracked

\* A change that passes every check is within the policy.
LEMMA AcceptedInPolicy ==
  ASSUME DiffSound, ~OutOfPolicy
  PROVE  InPolicy /\ Names = Changed
<1>1. DOMAIN moved = {}
  <2> SUFFICES ASSUME NEW p \in DOMAIN moved PROVE FALSE
    OBVIOUS
  <2>1. <<p, moved[p]>> \in Entries /\ Len(<<p, moved[p]>>) = 2
    BY DEF Entries
  <2> QED BY <2>1 DEF OutOfPolicy, EntryRefused
<1>2. Names = Changed /\ Entries = {<<p>> : p \in Changed} /\ Changed \subseteq Path
  BY <1>1, NamesWithoutRenames DEF Changed
<1>3. Cardinality(Changed) \in 1..MaxFiles
  <2>1. Changed # {} /\ ~(Cardinality(Changed) > MaxFiles)
    BY <1>2 DEF OutOfPolicy, CountInvalid
  <2>2. IsFiniteSet(Changed) /\ Cardinality(Changed) \in Nat
    BY <1>2, PathAssumption, FS_Subset, FS_CardinalityType
  <2> QED BY <2>1, <2>2, FS_EmptySet, DiffLimitAssumption
<1>4. ASSUME NEW p \in Changed
      PROVE  Plain(p) /\ Area[p] # "closed" /\ (Area[p] = "tests" => Base[p] = "none")
  <2>1. ~NameRefused(p)
    BY <1>2 DEF OutOfPolicy
  <2>2. now[p] # "binary"
    <3>1. <<p>> \in Entries /\ <<p>>[1] = p
      BY <1>2
    <3> QED BY <3>1 DEF OutOfPolicy, EntryRefused
  <2>3. /\ Base[p] \in {"none", "file", "link", "module"}
        /\ now[p] \in {"file", "link", "binary", "special", "gone"}
    BY <1>2, BaseAssumption DEF DiffSound, Changed
  <2> QED BY <2>1, <2>2, <2>3 DEF NameRefused, StagedMode, Untracked, Plain
<1> QED BY <1>2, <1>3, <1>4 DEF InPolicy, OutOfPolicy, TooManyLines, TotalLines

\* What is refused without a rename is out of the policy.
LEMMA RefusedOutOfPolicy ==
  ASSUME DiffSound, OutOfPolicy, DOMAIN moved = {}
  PROVE  ~InPolicy
<1> SUFFICES ASSUME InPolicy PROVE FALSE
  OBVIOUS
<1>1. Names = Changed /\ Entries = {<<p>> : p \in Changed} /\ Untracked \subseteq Changed
  BY NamesWithoutRenames
<1>2. \A p \in Changed : ~NameRefused(p) /\ now[p] # "binary" /\ ~NotAddable(p)
  BY DEF InPolicy, Plain, NameRefused, StagedMode, Untracked, NotAddable
<1>3. \A e \in Entries : ~EntryRefused(e)
  BY <1>1, <1>2 DEF EntryRefused
<1>4. ~CountInvalid
  BY <1>1, FS_EmptySet, DiffLimitAssumption DEF InPolicy, CountInvalid
<1> QED
  BY <1>1, <1>2, <1>3, <1>4 DEF OutOfPolicy, InPolicy, TooManyLines, TotalLines

\* What check_diff accepts is within the policy and stored whole, what it refuses
\* is not, whatever the tree, the patterns, the limits and the renames Git finds.
THEOREM PolicyAlwaysDecides == DiffSpec => []PolicyDecides
<1>1. DiffInit => DiffSound
  BY DEF DiffInit, DiffSound
<1>2. DiffSound /\ [DiffNext]_diffVars => DiffSound'
  <2> SUFFICES ASSUME DiffSound, [DiffNext]_diffVars PROVE DiffSound'
    OBVIOUS
  <2>1. UNCHANGED <<now, lines, moved>>
    BY DEF DiffNext, diffVars
  <2>2. OutOfPolicy' <=> OutOfPolicy
    BY <2>1 DEF OutOfPolicy, Ignored, Untracked, Changed, NotAddable, CountInvalid, Names,
                NameRefused, StagedMode, Entries, EntryRefused, TooManyLines, TotalLines
  <2> QED BY <2>1, <2>2 DEF DiffNext, diffVars, DiffSound, CheckDiff, TextVerdict
<1>3. DiffSound => PolicyDecides
  <2> SUFFICES ASSUME DiffSound PROVE PolicyDecides
    OBVIOUS
  <2>1. verdict = "accepted" => ~OutOfPolicy
    BY DEF DiffSound, CheckDiff
  <2>2. verdict = "AEH-POLICY-422-001" => OutOfPolicy \/ flaw = "size"
    BY DEF DiffSound, CheckDiff, TextVerdict
  <2>3. moved = <<>> => DOMAIN moved = {}
    OBVIOUS
  <2> QED BY <2>1, <2>2, <2>3, AcceptedInPolicy, RefusedOutOfPolicy DEF PolicyDecides
<1> QED BY <1>1, <1>2, <1>3, PTL DEF DiffSpec

--------------------------------------------------------------------------------
(* run_validation *)

\* A monitor is there exactly while the call selects or waits, and a command runs
\* only under a running one.  The select loop ends in time: with the deadline,
\* which kills the monitor, or after the monitor, when no writer is left.
ProcessSound ==
  /\ loop \in {"start", "select", "wait"} \cup Ended
  /\ monitor \in {"none", "running", "exited", "killed"}
  /\ loop \in {"select", "wait"} <=> monitor # "none"
  /\ monitor = "running" =>
       loop = "select" /\ (command = "running" \/ (command = "ended" /\ code # ""))
  /\ monitor = "killed" => timed_out
  /\ monitor = "exited" => command = "ended" /\ code # ""
  /\ command = "running" => monitor = "running" /\ code = ""
  /\ clock \in Nat /\ lasted \in Nat /\ writer \in BOOLEAN
  /\ loop = "select" => clock <= Timeout /\ ~timed_out
  /\ code # "" => lasted <= Timeout
  /\ loop = "wait" /\ ~timed_out => monitor = "exited" /\ ~writer

\* Commands passed up to here; only a failed call ends with one that did not.
ResultsSound ==
  /\ results \in Seq(Status)
  /\ \A k \in 1..Len(results) : results[k] # "PASSED" => loop = "ValidationFailure" /\ k = Len(results)
  /\ loop = "ValidationFailure" => results # <<>> /\ Last(results) # "PASSED"
  /\ loop \in {"select", "wait"} => Len(results) < Commands
  /\ loop = "start" => Len(results) <= Commands
  /\ loop = "returned" => Len(results) = Commands

CallSound == ProcessSound /\ ResultsSound

\* Recording a status appends it: the results before it stay.
LEMMA Recorded ==
  ASSUME CallSound, Record
  PROVE  /\ StatusOf \in Status
         /\ results' \in Seq(Status) /\ Len(results') = Len(results) + 1
         /\ Last(results') = StatusOf
         /\ \A k \in 1..Len(results) : results'[k] = results[k] /\ results[k] = "PASSED"
<1>1. StatusOf \in Status /\ results' = Append(results, StatusOf) /\ results \in Seq(Status)
  BY DEF StatusOf, Status, Record, CallSound, ResultsSound
<1>2. loop # "ValidationFailure"
  BY DEF Record
<1> QED BY <1>1, <1>2 DEF CallSound, ResultsSound, Last

\* Every step keeps the call sound.
LEMMA StepKeepsCall ==
  ASSUME CallSound, [Next]_vars
  PROVE  CallSound'
<1>1. CASE \/ LeaveChild \/ CommandEnds \/ MonitorExits \/ CommandDies \/ ChildCloses
           \/ \E k \in 1..Commands : ChildrenEnd(k)
           \/ Tick \/ UNCHANGED vars
  <2>1. loop' = loop /\ results' = results
    BY <1>1, Zenon DEF LeaveChild, CommandEnds, MonitorExits, CommandDies, ChildCloses, ChildrenEnd,
                Tick, vars
  <2>2. ResultsSound'
    BY <2>1 DEF CallSound, ResultsSound
  <2>3. CASE LeaveChild \/ ChildCloses \/ \E k \in 1..Commands : ChildrenEnd(k)
    <3>1. /\ monitor' = monitor /\ command' = command /\ code' = code /\ lasted' = lasted
          /\ clock' = clock /\ timed_out' = timed_out
          /\ writer' \in BOOLEAN /\ (writer' => writer \/ command = "running")
      BY <2>3 DEF LeaveChild, ChildCloses, ChildrenEnd, CallSound, ProcessSound
    <3> QED BY <2>1, <2>2, <3>1 DEF CallSound, ProcessSound
  <2>4. CASE CommandEnds
    BY <2>2, <2>4 DEF CommandEnds, CallSound, ProcessSound
  <2>5. CASE MonitorExits \/ CommandDies
    <3>1. CASE MonitorExits
      BY <2>1, <2>2, <3>1 DEF MonitorExits, CallSound, ProcessSound
    <3>2. CASE CommandDies
      BY <2>1, <2>2, <3>2 DEF CommandDies, CallSound, ProcessSound
    <3> QED BY <2>5, <3>1, <3>2
  <2>6. CASE Tick
    <3>1. /\ monitor' = monitor /\ command' = command /\ code' = code /\ lasted' = lasted
          /\ writer' = writer /\ timed_out' = timed_out /\ clock' = clock + 1
          /\ loop = "select" => clock < Timeout
      BY <2>6 DEF Tick, processes
    <3>2. clock' \in Nat /\ (loop' = "select" => clock' <= Timeout)
      <4>1. clock \in Nat
        BY DEF CallSound, ProcessSound
      <4> QED BY <2>1, <3>1, <4>1, TimeoutAssumption
    <3> QED BY <2>1, <2>2, <3>1, <3>2 DEF CallSound, ProcessSound
  <2>7. CASE UNCHANGED vars
    BY <2>2, <2>7 DEF vars, processes, CallSound, ProcessSound
  <2> QED BY <1>1, <2>3, <2>4, <2>5, <2>6, <2>7
<1>2. CASE Refuse \/ Start \/ EndOfOutput \/ Deadline \/ Return
  <2>1. ProcessSound'
    <3>1. CASE Refuse \/ Return
      BY <3>1 DEF Refuse, Return, processes, CallSound, ProcessSound, Ended
    <3>2. CASE EndOfOutput
      BY <3>2 DEF EndOfOutput, processes, CallSound, ProcessSound, Ended
    <3>3. CASE Start
      <4>1. /\ loop' = "select" /\ monitor' = "running" /\ command' = "running" /\ code' = ""
            /\ lasted' = 0 /\ clock' = 0 /\ timed_out' = FALSE /\ writer' = writer
        BY <3>3 DEF Start
      <4>2. 0 \in Nat /\ 0 <= Timeout
        BY TimeoutAssumption
      <4>3. writer \in BOOLEAN
        BY DEF CallSound, ProcessSound
      <4>4. ~timed_out'
        BY <4>1, Zenon
      <4> QED BY <4>1, <4>2, <4>3, <4>4 DEF ProcessSound
    <3>4. CASE Deadline
      BY <3>4 DEF Deadline, Killed, CommandAfterKill, CallSound, ProcessSound, Ended
    <3> QED BY <1>2, <3>1, <3>2, <3>3, <3>4
  <2>2. results' = results /\ loop \in {"start", "select"}
    BY <1>2 DEF Refuse, Start, EndOfOutput, Deadline, Return
  <2>3. results \in Seq(Status) /\ Len(results) \in Nat
    BY DEF CallSound, ResultsSound
  <2>4. ResultsSound'
    <3>1. \/ loop = "start" /\ Item <= Commands /\ loop' \in {"refused", "select"}
          \/ loop = "select" /\ loop' = "wait"
          \/ loop = "start" /\ Item > Commands /\ loop' = "returned"
      BY <1>2, Zenon DEF Refuse, Start, EndOfOutput, Deadline, Return
    <3> QED BY <2>2, <2>3, <3>1, CommandsAssumption DEF Item, CallSound, ResultsSound
  <2> QED BY <2>1, <2>4 DEF CallSound
<1>3. CASE Record
  <2>1. ProcessSound'
    BY <1>3 DEF Record, AfterResult, CallSound, ProcessSound, Ended
  <2>2. loop' = IF StatusOf # "PASSED" THEN "ValidationFailure" ELSE "start"
    BY <1>3 DEF Record, AfterResult
  <2>3. Len(results) \in Nat /\ Len(results) < Commands
    BY <1>3 DEF Record, CallSound, ResultsSound
  <2>4. results'[Len(results')] = StatusOf
    BY <1>3, Recorded DEF Last
  <2> QED
    BY <1>3, <2>1, <2>2, <2>3, <2>4, Recorded, CommandsAssumption DEF CallSound, ResultsSound
<1> QED BY <1>1, <1>2, <1>3 DEF Next, Call

\* The call is sound in every reachable state, for any number of commands and
\* any timeout.
THEOREM CallInvariant == Spec => []CallSound
<1>1. Init => CallSound
  <2> SUFFICES ASSUME Init PROVE CallSound
    OBVIOUS
  <2>1. ProcessSound
    BY TimeoutAssumption DEF Init, ProcessSound
  <2>2. results = <<>> /\ loop = "start"
    BY DEF Init
  <2>3. ResultsSound
    BY <2>2, CommandsAssumption DEF ResultsSound
  <2> QED BY <2>1, <2>3 DEF CallSound
<1> QED BY <1>1, StepKeepsCall, PTL DEF Spec

\* Between two commands and after the last one neither bwrap nor a command runs:
\* what a command left behind is all that may.
THEOREM OnlyChildrenEverLeft == Spec => []OnlyChildrenLeft
<1>1. CallSound => OnlyChildrenLeft
  BY DEF CallSound, ProcessSound, OnlyChildrenLeft
<1> QED BY <1>1, CallInvariant, PTL

\* No command runs past its timeout, though the deadline is looked at only while
\* somebody holds the output: the monitor holds it as long as the command runs.
THEOREM NeverPastTimeout == Spec => []RunsAtMostTimeout
<1>1. CallSound => RunsAtMostTimeout
  BY DEF CallSound, ProcessSound, RunsAtMostTimeout
<1> QED BY <1>1, CallInvariant, PTL

\* No command runs or is recorded after one that did not pass, and the call
\* returns only when every command passed.
THEOREM NothingRunsAfterFailure == Spec => []NothingAfterFailure
<1>1. CallSound => NothingAfterFailure
  BY DEF CallSound, ProcessSound, ResultsSound, NothingAfterFailure
<1> QED BY <1>1, CallInvariant, PTL

\* PASSED is recorded only of a command that ended by itself with code 0, within
\* its timeout, and of whose output no writer was left.
THEOREM AlwaysPassedByItself == Spec => PassedByItself
<1>1. CallSound /\ [Next]_vars =>
        [(Len(results') > Len(results) /\ Last(results') = "PASSED")
           => command = "ended" /\ code = "zero" /\ lasted <= Timeout /\ ~writer]_vars
  <2> SUFFICES ASSUME CallSound, [Next]_vars, Len(results') > Len(results),
                      Last(results') = "PASSED"
               PROVE  command = "ended" /\ code = "zero" /\ lasted <= Timeout /\ ~writer
    OBVIOUS
  <2>1. Len(results) \in Nat
    BY DEF CallSound, ResultsSound
  <2>2. Record \/ results' = results
    BY Zenon DEF Next, Call, LeaveChild, CommandEnds, MonitorExits, CommandDies, ChildCloses,
                 ChildrenEnd, Tick, vars, Refuse, Start, EndOfOutput, Deadline, Return
  <2>3. Record
    BY <2>1, <2>2
  <2>4. StatusOf = "PASSED"
    BY <2>3, Recorded
  <2> QED BY <2>3, <2>4 DEF StatusOf, Record, CallSound, ProcessSound
<1> QED BY <1>1, CallInvariant, PTL DEF Spec, PassedByItself
--------------------------------------------------------------------------------
(* check_reproduction_data *)

\* A set of natural numbers has a least one.
LEMMA LeastNatural ==
  ASSUME NEW S \in SUBSET Nat, S # {}
  PROVE  \E n \in S : \A m \in S : n <= m
<1>1. PICK n \in S : \A m \in S : ~(<<m, n>> \in OpToRel(<, Nat))
  BY NatLessThanWellFounded, WFMin
<1>2. \A m \in S : ~(m < n)
  BY <1>1, ZenonT(30) DEF OpToRel
<1> QED BY <1>2

\* The fields of a node.
LEMMA NodeFields ==
  ASSUME NEW node \in Node
  PROVE  node.up \in 0..MaxNodes /\ node.text.length \in Nat
<1>1. node.up \in 0..MaxNodes /\ node.text \in Text \cup {NoText}
  BY DEF Node
<1>2. \A t \in Text \cup {NoText} : t.length \in Nat
  <2> DEFINE Lengths == {1, ScrubbedText, ScrubbedText + 1, MaxText}
  <2>1. Lengths \subseteq Nat
    BY DataLimitAssumption
  <2>2. \A t \in [length : Lengths, secret : {FALSE}] : t.length \in Lengths
    OBVIOUS
  <2>3. \A t \in [length : {1}, secret : {TRUE}] : t.length = 1
    OBVIOUS
  <2>4. NoText.length = 0
    BY DEF NoText
  <2> HIDE DEF Lengths
  <2>5. \A t \in Text : t.length \in Nat
    BY <2>1, <2>2, <2>3 DEF Text, Lengths
  <2> QED BY <2>4, <2>5
<1> QED BY <1>1, <1>2

\* Its nodes are numbered so that a parent comes before its children.
Preorder(v, size) ==
  /\ v \in [1..size -> Node]
  /\ \A n \in 1..size : v[n].up < n

\* A function that gives the nodes up to a given one their chains.
ChainsUpTo(v, k, f) ==
  /\ f \in [0..k -> SUBSET (1..k)]
  /\ \A m \in 0..k : f[m] = IF m = 0 THEN {} ELSE {m} \cup f[v[m].up]

\* A tree's nodes have chains: the first node without would have a parent with one.
LEMMA ChainsExist ==
  ASSUME NEW size \in Nat, NEW v, Preorder(v, size)
  PROVE  \E f : ChainsUpTo(v, size, f)
<1> DEFINE Missing == {k \in 0..size : ~\E f : ChainsUpTo(v, k, f)}
<1>1. SUFFICES ASSUME Missing # {} PROVE FALSE
  OBVIOUS
<1>2. PICK k \in Missing : \A m \in Missing : k <= m
  <2>1. Missing \in SUBSET Nat
    OBVIOUS
  <2> QED BY <1>1, <2>1, LeastNatural
<1>3. k \in 0..size /\ \A m \in 0..size : m < k => \E f : ChainsUpTo(v, m, f)
  BY <1>2
<1>4. k # 0
  <2>1. ChainsUpTo(v, 0, [m \in 0..0 |-> {}])
    BY DEF ChainsUpTo
  <2> QED BY <2>1
<1>5. PICK f : ChainsUpTo(v, k - 1, f)
  BY <1>3, <1>4
<1> DEFINE g == [m \in 0..k |-> IF m = k THEN {k} \cup f[v[k].up] ELSE f[m]]
<1>6. ChainsUpTo(v, k, g)
  <2>1. k \in 1..size /\ v[k].up \in 0..(k - 1)
    BY <1>4 DEF Preorder, Node
  <2>2. ASSUME NEW m \in 1..(k - 1) PROVE v[m].up \in 0..(k - 1)
    BY <2>1 DEF Preorder, Node
  <2>3. g \in [0..k -> SUBSET (1..k)]
    BY <1>5, <2>1 DEF ChainsUpTo
  <2>4. ASSUME NEW m \in 0..k
        PROVE  g[m] = IF m = 0 THEN {} ELSE {m} \cup g[v[m].up]
    <3>1. CASE m = k
      BY <1>5, <2>1, <3>1 DEF ChainsUpTo
    <3>2. CASE m # k
      <4>1. m \in 0..(k - 1) /\ g[m] = f[m]
        BY <2>1, <3>2
      <4>2. f[m] = IF m = 0 THEN {} ELSE {m} \cup f[v[m].up]
        BY <1>5, <4>1 DEF ChainsUpTo
      <4>3. CASE m = 0
        BY <4>1, <4>2, <4>3
      <4>4. CASE m # 0
        <5>1. v[m].up \in 0..(k - 1)
          BY <2>2, <4>1, <4>4
        <5>2. g[v[m].up] = f[v[m].up]
          BY <2>1, <5>1
        <5> QED BY <4>1, <4>2, <4>4, <5>2
      <4> QED BY <4>3, <4>4
    <3> QED BY <3>1, <3>2
  <2> QED BY <2>3, <2>4 DEF ChainsUpTo
<1> QED BY <1>6

\* What visit hands down: the chain of a node is its parent's and itself.
LEMMA ChainUnfolds ==
  ASSUME NEW size \in Nat, NEW v, Preorder(v, size)
  PROVE  /\ Chain(v, 0) = {}
         /\ \A n \in 1..size : Chain(v, n) = {n} \cup Chain(v, v[n].up)
<1> DEFINE Unfolds(f) ==
             f = [m \in {0} \cup DOMAIN v |-> IF m = 0 THEN {} ELSE {m} \cup f[v[m].up]]
<1>1. {0} \cup DOMAIN v = 0..size
  BY DEF Preorder
<1>2. PICK f : ChainsUpTo(v, size, f)
  BY ChainsExist
<1>3. Unfolds(f)
  BY <1>1, <1>2 DEF ChainsUpTo
<1>4. Chains(v) = CHOOSE g : Unfolds(g)
  BY DEF Chains
<1>5. Unfolds(Chains(v))
  BY <1>3, <1>4
<1> HIDE DEF Unfolds
<1>6. ASSUME NEW m \in 0..size
      PROVE  Chains(v)[m] = IF m = 0 THEN {} ELSE {m} \cup Chains(v)[v[m].up]
  <2> DEFINE u == Chains(v)
  <2>1. u = [i \in 0..size |-> IF i = 0 THEN {} ELSE {i} \cup u[v[i].up]]
    BY <1>1, <1>5 DEF Unfolds
  <2> HIDE DEF u
  <2>2. u[m] = IF m = 0 THEN {} ELSE {m} \cup u[v[m].up]
    BY <2>1
  <2> QED BY <2>2 DEF u
<1>7. Chains(v)[0] = {}
  <2>1. 0 \in 0..size
    OBVIOUS
  <2> QED BY <1>6, <2>1, Zenon
<1>8. ASSUME NEW n \in 1..size PROVE Chains(v)[n] = {n} \cup Chains(v)[v[n].up]
  <2>1. n \in 0..size /\ n # 0
    OBVIOUS
  <2> QED BY <1>6, <2>1, Zenon
<1> QED BY <1>7, <1>8 DEF Chain

\* A chain is of the node and of earlier ones; it is one longer than the parent's.
LEMMA ChainLonger ==
  ASSUME NEW size \in Nat, NEW v, Preorder(v, size)
  PROVE  \A n \in 1..size :
           /\ Chain(v, n) \in SUBSET (1..n) /\ n \in Chain(v, n)
           /\ Cardinality(Chain(v, n)) \in Nat
           /\ Cardinality(Chain(v, n)) = Cardinality(Chain(v, v[n].up)) + 1
<1> DEFINE Upward(n) == Chain(v, n) \in SUBSET (1..n)
<1> DEFINE Wrong == {n \in 0..size : ~Upward(n)}
<1>1. ASSUME NEW n \in 1..size PROVE v[n].up \in 0..(n - 1)
  BY DEF Preorder, Node
<1>2. \A n \in 0..size : Upward(n)
  <2>1. SUFFICES ASSUME Wrong # {} PROVE FALSE
    OBVIOUS
  <2>2. PICK n \in Wrong : \A m \in Wrong : n <= m
    <3>1. Wrong \in SUBSET Nat
      OBVIOUS
    <3> QED BY <2>1, <3>1, LeastNatural
  <2>3. n \in 0..size /\ \A m \in 0..size : m < n => Upward(m)
    BY <2>2
  <2>4. n # 0
    <3>1. Upward(0)
      BY ChainUnfolds
    <3> QED BY <3>1
  <2>5. Upward(v[n].up) /\ v[n].up \in 0..(n - 1)
    BY <1>1, <2>3, <2>4
  <2>6. Chain(v, n) = {n} \cup Chain(v, v[n].up)
    BY <2>4, ChainUnfolds
  <2>7. Upward(n)
    BY <2>5, <2>6
  <2> QED BY <2>7
<1>3. SUFFICES ASSUME NEW n \in 1..size
               PROVE  /\ Upward(n) /\ n \in Chain(v, n)
                      /\ Cardinality(Chain(v, n)) \in Nat
                      /\ Cardinality(Chain(v, n)) = Cardinality(Chain(v, v[n].up)) + 1
  OBVIOUS
<1>4. Chain(v, n) = {n} \cup Chain(v, v[n].up)
  BY ChainUnfolds
<1>5. Chain(v, v[n].up) \in SUBSET (1..(n - 1)) /\ n \notin Chain(v, v[n].up)
  <2>1. v[n].up \in 0..(n - 1) /\ Upward(v[n].up)
    BY <1>1, <1>2
  <2>2. n \notin 1..v[n].up
    BY <2>1
  <2> QED BY <2>1, <2>2
<1>6. IsFiniteSet(Chain(v, v[n].up))
  <2>1. IsFiniteSet(1..(n - 1))
    BY FS_Interval
  <2> QED BY <1>5, <2>1, FS_Subset
<1>7. Cardinality(Chain(v, n)) = Cardinality(Chain(v, v[n].up)) + 1
  <2> DEFINE up == Chain(v, v[n].up)
  <2>1. Cardinality(up \cup {n}) = Cardinality(up) + 1
    BY <1>5, <1>6, FS_AddElement
  <2>2. Chain(v, n) = up \cup {n}
    BY <1>4
  <2> QED BY <2>1, <2>2
<1>8. Cardinality(Chain(v, v[n].up)) \in Nat
  BY <1>6, FS_CardinalityType
<1> QED BY <1>2, <1>4, <1>7, <1>8

Size == Cardinality(DOMAIN value)

\* The value is a tree as it is visited, only its root without a parent.
TreeSound ==
  /\ Size \in Nat /\ Preorder(value, Size)
  /\ \A n \in Nodes : value[n].up = 0 => n = 1

Passed(n) == ~value[n].sensitive /\ ~TooDeep(n) /\ ~TextRefused(value[n].text)

\* What has been visited has passed; a refusal has its reason.
DataSound ==
  /\ TreeSound
  /\ count \in 0..Size
  /\ outcome \in {"arriving", "checking", "accepted", "refused"}
  /\ outcome = "arriving" => count = 0
  /\ outcome # "refused" => count <= MaxValues /\ \A n \in 1..count : Passed(n)
  /\ outcome = "accepted" => count = Size
  /\ outcome = "refused" =>
       ~InLimits \/ \E n \in Nodes : value[n].text.length > ScrubbedText

\* A value grows by a node at its end, under a node it has.
LEMMA Grown ==
  ASSUME TreeSound, NEW node \in Node, Grows(value, node),
         value' = [n \in 1..(Size + 1) |-> IF n \in DOMAIN value THEN value[n] ELSE node]
  PROVE  TreeSound' /\ Size' = Size + 1
<1>1. Size \in Nat /\ Preorder(value, Size) /\ DOMAIN value = 1..Size
  BY DEF TreeSound, Preorder
<1>2. DOMAIN value' = 1..(Size + 1) /\ Size' = Size + 1
  <2>1. Cardinality(1..(Size + 1)) = Size + 1
    BY <1>1, FS_Interval
  <2> QED BY <2>1 DEF Size
<1>3. node.up < Size + 1 /\ (node.up = 0 => Size = 0)
  <2>1. CASE value = <<>>
    <3>1. Size = 0
      BY <2>1, FS_EmptySet DEF Size
    <3> QED BY <2>1, <3>1 DEF Grows
  <2>2. CASE value # <<>>
    <3>1. Size \in 1..Size
      <4>1. Size # 0
        BY <1>1, <2>2 DEF Preorder
      <4> QED BY <1>1, <4>1
    <3>2. node.up \in Chain(value, Size)
      BY <2>2 DEF Grows, Size
    <3> QED BY <1>1, <3>1, <3>2, ChainLonger
  <2> QED BY <2>1, <2>2
<1>4. Preorder(value', Size + 1)
  BY <1>1, <1>2, <1>3 DEF Preorder
<1> QED BY <1>1, <1>2, <1>3, <1>4 DEF TreeSound, Nodes

\* A value arrives as a tree, and nothing of it is visited.
LEMMA DataStart == DataInit => DataSound
<1>1. SUFFICES ASSUME DataInit PROVE DataSound
  OBVIOUS
<1>2. DOMAIN value = {} /\ Size = 0
  BY <1>1, FS_EmptySet DEF DataInit, Size
<1>3. TreeSound
  <2>1. value = [n \in 1..0 |-> value[n]]
    BY <1>1 DEF DataInit
  <2> QED BY <1>2, <2>1 DEF TreeSound, Preorder, Nodes
<1> QED BY <1>1, <1>2, <1>3, DataLimitAssumption DEF DataInit, DataSound

\* A visit counts its node if it passes, and refuses for a reason if not.
LEMMA VisitJudges ==
  ASSUME DataSound, Visit
  PROVE  DataSound'
<1> DEFINE n == count + 1
<1>1. n \in Nodes /\ outcome = "checking" /\ value' = value
  BY DEF Visit, Nodes
<1>2. /\ Size \in Nat /\ Nodes = 1..Size /\ TreeSound'
      /\ Size' = Size /\ Nodes' = Nodes
  BY <1>1 DEF DataSound, TreeSound, Preorder, Size, Nodes
<1>3. n \in 1..Size /\ count \in Nat
  BY <1>1, <1>2 DEF DataSound
<1>4. (\A m \in Nodes : Passed(m)' <=> Passed(m)) /\ (InLimits' <=> InLimits)
  BY <1>1 DEF Passed, TooDeep, Depth, InLimits, Nodes
<1>5. Depth(value, n) \in Int
  BY <1>2, <1>3, ChainLonger DEF Depth, DataSound, TreeSound
<1>6. CASE outcome' # "refused"
  <2>1. Passed(n) /\ count' = n /\ outcome' = "checking" /\ ~(count' > MaxValues)
    BY <1>1, <1>6 DEF Visit, Passed, TooMany
  <2>2. \A m \in 1..count' : Passed(m)
    BY <1>1, <1>3, <2>1 DEF DataSound
  <2> QED BY <1>2, <1>3, <1>4, <2>1, <2>2, DataLimitAssumption DEF DataSound
<1>7. CASE outcome' = "refused"
  <2>1. count' \in {count, n}
    BY <1>7 DEF Visit
  <2>2. value[n].text.length \in Int
    <3>1. value[n] \in Node
      BY <1>2, <1>3 DEF DataSound, TreeSound, Preorder
    <3> QED BY <3>1, NodeFields
  <2>3. \/ value[n].sensitive
        \/ Depth(value, n) > MaxDepth
        \/ n > MaxValues
        \/ value[n].text.length > MaxText
        \/ value[n].text.secret
        \/ value[n].text.length > ScrubbedText
    BY <1>1, <1>7 DEF Visit, TooDeep, TooMany, TextRefused, Scrubs
  <2>4. Cardinality(Nodes) = Size
    BY DEF Nodes, Size
  <2>5. ~InLimits \/ \E m \in Nodes : value[m].text.length > ScrubbedText
    BY <1>1, <1>2, <1>3, <1>5, <2>2, <2>3, <2>4, DataLimitAssumption DEF InLimits
  <2> QED BY <1>1, <1>2, <1>3, <1>4, <1>7, <2>1, <2>5 DEF DataSound
<1> QED BY <1>6, <1>7

\* Each node adds its own parent below it, and each visit its own verdict.
LEMMA DataStays == DataSound /\ [DataNext]_dataVars => DataSound'
<1> SUFFICES ASSUME DataSound, [DataNext]_dataVars PROVE DataSound'
  OBVIOUS
<1>1. ASSUME value' = value
      PROVE  /\ TreeSound' /\ Size' = Size /\ Nodes' = Nodes /\ (InLimits' <=> InLimits)
             /\ \A m \in Nodes : Passed(m)' <=> Passed(m)
             /\ Nodes = 1..Size
  BY <1>1 DEF DataSound, TreeSound, Preorder, Size, Nodes, Passed, TooDeep, Depth, InLimits
<1>2. CASE Arrive
  <2>1. CASE outcome' = "checking" /\ UNCHANGED <<value, count>>
    BY <1>1, <1>2, <2>1, DataLimitAssumption DEF Arrive, DataSound
  <2>2. CASE /\ UNCHANGED <<count, outcome>>
             /\ \E node \in Node :
                  /\ Grows(value, node)
                  /\ value' = [n \in 1..(Size + 1) |->
                                 IF n \in DOMAIN value THEN value[n] ELSE node]
    <3>1. TreeSound' /\ Size' = Size + 1 /\ Size \in Nat
      BY <2>2, Grown DEF DataSound, TreeSound
    <3>2. outcome = "arriving" /\ count = 0
      BY <1>2 DEF Arrive, DataSound
    <3> QED BY <2>2, <3>1, <3>2, DataLimitAssumption DEF DataSound
  <2> QED BY <1>2, <2>1, <2>2 DEF Arrive, Size
<1>3. CASE Visit
  BY <1>3, VisitJudges
<1>4. CASE Accept
  <2>1. outcome = "checking" /\ count = Size /\ outcome' = "accepted" /\ count' = count
        /\ value' = value
    BY <1>4 DEF Accept, Size
  <2> QED BY <1>1, <2>1 DEF DataSound
<1>5. CASE UNCHANGED dataVars
  <2>1. value' = value /\ count' = count /\ outcome' = outcome
    BY <1>5 DEF dataVars
  <2>2. ASSUME NEW n \in 1..count PROVE Passed(n)' <=> Passed(n)
    BY <2>1 DEF Passed, TooDeep, Depth
  <2>3. /\ outcome # "refused" => \A n \in 1..count : Passed(n)'
        /\ outcome = "refused" =>
             ~InLimits \/ \E n \in Nodes : value[n].text.length > ScrubbedText
    BY <2>2 DEF DataSound
  <2> QED BY <1>1, <2>1, <2>3 DEF DataSound
<1> QED BY <1>2, <1>3, <1>4, <1>5 DEF DataNext

\* So the value is a tree, visited up to the node that comes next.
LEMMA DataAlwaysSound == DataSpec => []DataSound
<1> QED BY DataStart, DataStays, PTL DEF DataSpec

\* The limits are what decides on an event's data, whatever its tree: what is
\* accepted is within all of them and unchanged by redaction, and what is refused
\* is beyond one, or has a text that scrub cuts (contracts.py:75-106).
THEOREM LimitsAlwaysDecide == DataSpec => []LimitsDecide
<1>1. ASSUME DataSound PROVE LimitsDecide
  <2>1. SUFFICES ASSUME outcome = "accepted"
                 PROVE  InLimits /\ \A n \in Nodes : ~Redacted(n)
    BY <1>1 DEF DataSound, LimitsDecide
  <2>2. /\ Size \in Nat /\ Nodes = 1..Size /\ Size <= MaxValues
        /\ Preorder(value, Size) /\ \A n \in Nodes : Passed(n)
    BY <1>1, <2>1 DEF DataSound, TreeSound, Preorder, Nodes
  <2>3. ASSUME NEW n \in Nodes
        PROVE  /\ Depth(value, n) <= MaxDepth /\ value[n].text.length <= MaxText
               /\ ~value[n].sensitive /\ ~value[n].text.secret
    <3>1. Depth(value, n) \in Int
      BY <2>2, ChainLonger DEF Depth
    <3>2. value[n].text.length \in Int
      BY <2>2, NodeFields DEF Preorder
    <3> QED BY <2>2, <3>1, <3>2, DataLimitAssumption
            DEF Passed, TooDeep, TextRefused, Scrubs
  <2>4. ASSUME NEW n \in Nodes PROVE ~Redacted(n)
    <3>1. Chain(value, n) \subseteq Nodes
      BY <2>2, ChainLonger
    <3> QED BY <2>3, <3>1 DEF Redacted
  <2> QED BY <2>2, <2>3, <2>4 DEF InLimits, Nodes, Size
<1> QED BY <1>1, DataAlwaysSound, PTL

\* The depth that the limit is about is the one that visit carries: 0 at the value
\* itself, and one more at each node than at its parent (contracts.py:75-106).
DepthCarried ==
  \A n \in Nodes : Depth(value, n) = IF n = 1 THEN 0 ELSE Depth(value, value[n].up) + 1

\* The ancestors counted by Depth are what visit's own depth argument counts.
THEOREM DepthAlwaysCarried == DataSpec => []DepthCarried
<1>1. ASSUME DataSound PROVE DepthCarried
  <2>1. SUFFICES ASSUME NEW n \in Nodes
                 PROVE  Depth(value, n) =
                          IF n = 1 THEN 0 ELSE Depth(value, value[n].up) + 1
    BY DEF DepthCarried
  <2>2. Size \in Nat /\ Nodes = 1..Size /\ Preorder(value, Size)
    BY <1>1 DEF DataSound, TreeSound, Preorder, Nodes
  <2>3. Cardinality(Chain(value, n)) = Cardinality(Chain(value, value[n].up)) + 1
    BY <2>1, <2>2, ChainLonger
  <2>4. CASE n = 1
    <3>1. value[n].up = 0
      BY <2>1, <2>2, <2>4 DEF Preorder, Node
    <3>2. Chain(value, value[n].up) = {}
      BY <2>2, <3>1, ChainUnfolds
    <3>3. Cardinality(Chain(value, n)) = 1
      BY <2>3, <3>2, FS_EmptySet
    <3> QED BY <2>4, <3>3 DEF Depth
  <2>5. CASE n # 1
    <3>1. value[n].up \in 1..Size
      BY <1>1, <2>1, <2>2, <2>5 DEF DataSound, TreeSound, Preorder, Node
    <3>2. Cardinality(Chain(value, value[n].up)) \in Nat
      BY <2>2, <3>1, ChainLonger
    <3> QED BY <2>3, <2>5, <3>2 DEF Depth
  <2> QED BY <2>4, <2>5
<1> QED BY <1>1, DataAlwaysSound, PTL
================================================================================
