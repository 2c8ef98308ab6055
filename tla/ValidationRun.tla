----------------------------- MODULE ValidationRun -----------------------------
(***************************************************************************)
(* One call of run_validation (aeh/validation.py): the registered commands *)
(* run one after the other in the sandbox, and a select loop reads the     *)
(* output of each until the pipe closes or the deadline passes.            *)
(*                                                                         *)
(* What Popen starts is bwrap, whose monitor waits for the command, keeps  *)
(* the inherited output open until it ends itself, and hands on the        *)
(* command's exit code.  The command runs in a session of its own          *)
(* (--new-session): the call's SIGKILL reaches the monitor alone, and the  *)
(* command dies with it (--die-with-parent).  What the command started     *)
(* itself, its children, shares no process namespace that would end with   *)
(* it: they may go on, and hold its output.  This behaviour of bwrap is    *)
(* external to src/ and modelled as its options promise it.                *)
(*                                                                         *)
(* The captured text, its limit and its redaction are payload and left     *)
(* out; all commands share one timeout, min(timeoutSeconds,                *)
(* Limits.command_seconds), in ticks.                                      *)
(***************************************************************************)
EXTENDS Naturals, SequencesExt

CONSTANTS
  Commands,   \* how many commands the policy lists
  Timeout,    \* the timeout of each command, in ticks
  MaxClock    \* bound on the ticks counted for one command

ASSUME CommandsAssumption == Commands \in Nat \ {0}
ASSUME TimeoutAssumption == Timeout \in Nat \ {0} /\ MaxClock \in Nat /\ Timeout < MaxClock

VARIABLES
  sandbox,      \* whether bwrap is installed
  registered,   \* the commands whose argv[0] is allowed
  loop,         \* where the call stands
  monitor,      \* the process that Popen started: bwrap's monitor
  command,      \* the process that runs the current command
  code,         \* how the command ended by itself: "zero", "nonzero", or ""
  lasted,       \* the tick at which it did
  children,     \* the commands of which some child is still running
  writer,       \* whether a child holds the current command's output
  clock,        \* ticks since the current command was started
  timed_out,    \* the call's variable
  results       \* the statuses of the finished commands

processes == <<monitor, command, code, lasted, children, writer>>
vars == <<sandbox, registered, loop, processes, clock, timed_out, results>>

Status == {"PASSED", "FAILED", "TIMED_OUT"}
Ended == {"returned", "ValidationFailure", "refused"}

Init ==
  /\ sandbox \in BOOLEAN
  /\ registered \in SUBSET (1..Commands)
  /\ loop = "start"
  /\ monitor = "none" /\ command = "none"
  /\ code = "" /\ lasted = 0
  /\ children = {} /\ writer = FALSE
  /\ clock = 0
  /\ timed_out = FALSE
  /\ results = <<>>

Item == Len(results) + 1

--------------------------------------------------------------------------------
(* The processes *)

\* The command starts a process that may outlive it, with its output or without.
LeaveChild ==
  /\ command = "running"
  /\ children' = children \cup {Item}
  /\ writer' \in {writer, TRUE}
  /\ UNCHANGED <<sandbox, registered, loop, monitor, command, code, lasted, clock,
                 timed_out, results>>

CommandEnds ==
  /\ command = "running"
  /\ command' = "ended"
  /\ code' \in {"zero", "nonzero"}
  /\ lasted' = clock
  /\ UNCHANGED <<sandbox, registered, loop, monitor, children, writer, clock, timed_out,
                 results>>

\* The monitor ends after its command, and its end of the pipe with it.
MonitorExits ==
  /\ monitor = "running" /\ command = "ended"
  /\ monitor' = "exited"
  /\ UNCHANGED <<sandbox, registered, loop, command, code, lasted, children, writer, clock,
                 timed_out, results>>

\* The signal that a command gets at its monitor's death takes effect.
CommandDies ==
  /\ command = "signalled"
  /\ command' = "ended"
  /\ UNCHANGED <<sandbox, registered, loop, monitor, code, lasted, children, writer, clock,
                 timed_out, results>>

ChildCloses ==
  /\ writer
  /\ writer' = FALSE
  /\ UNCHANGED <<sandbox, registered, loop, monitor, command, code, lasted, children, clock,
                 timed_out, results>>

ChildrenEnd(k) ==
  /\ k \in children
  /\ children' = children \ {k}
  /\ writer' = (writer /\ k # Item)
  /\ UNCHANGED <<sandbox, registered, loop, monitor, command, code, lasted, clock, timed_out,
                 results>>

\* While the loop selects, it wakes up at the deadline and time does not run
\* past it; nothing bounds the wait that follows.
Tick ==
  /\ \/ loop = "select" /\ clock < Timeout
     \/ loop = "wait" /\ clock < MaxClock
  /\ clock' = clock + 1
  /\ UNCHANGED <<sandbox, registered, loop, processes, timed_out, results>>

--------------------------------------------------------------------------------
(* run_validation *)

\* An unregistered argv or a missing bwrap raises before anything is started.
Refuse ==
  /\ loop = "start" /\ Item <= Commands
  /\ Item \notin registered \/ ~sandbox
  /\ loop' = "refused"
  /\ UNCHANGED <<sandbox, registered, processes, clock, timed_out, results>>

Start ==
  /\ loop = "start" /\ Item <= Commands
  /\ Item \in registered /\ sandbox
  /\ loop' = "select"
  /\ monitor' = "running" /\ command' = "running"
  /\ code' = "" /\ lasted' = 0
  /\ clock' = 0
  /\ timed_out' = FALSE
  /\ UNCHANGED <<sandbox, registered, children, writer, results>>

\* The read returns no bytes: nobody is left to write, nothing to select on.
EndOfOutput ==
  /\ loop = "select" /\ monitor # "running" /\ ~writer
  /\ loop' = "wait"
  /\ UNCHANGED <<sandbox, registered, processes, clock, timed_out, results>>

FaultyDue == clock >= Timeout /\ monitor = "running"
\* The deadline passed with the pipe still registered, whoever holds it.
Due == clock >= Timeout

FaultyKilled == monitor
\* SIGKILL to the process group of the monitor.
Killed == IF monitor = "running" THEN "killed" ELSE monitor

FaultyCommandAfterKill == command
\* --die-with-parent: a command is signalled when its monitor is killed.
CommandAfterKill ==
  IF Killed = "killed" /\ command = "running" THEN "signalled" ELSE command

Deadline ==
  /\ loop = "select" /\ Due
  /\ timed_out' = TRUE
  /\ monitor' = Killed
  /\ command' = CommandAfterKill
  /\ loop' = "wait"
  /\ UNCHANGED <<sandbox, registered, code, lasted, children, writer, clock, results>>

FaultyStatus == IF code = "nonzero" THEN "FAILED" ELSE "PASSED"
StatusOf ==
  IF timed_out THEN "TIMED_OUT" ELSE IF code = "zero" THEN "PASSED" ELSE "FAILED"

FaultyAfterResult(s) == "start"
AfterResult(s) == IF s # "PASSED" THEN "ValidationFailure" ELSE "start"

\* process.wait() returns once the monitor has ended, and the pipe is closed.
Record ==
  /\ loop = "wait" /\ monitor \in {"exited", "killed"}
  /\ results' = Append(results, StatusOf)
  /\ loop' = AfterResult(StatusOf)
  /\ monitor' = "none"
  /\ writer' = FALSE
  /\ UNCHANGED <<sandbox, registered, command, code, lasted, children, clock, timed_out>>

Return ==
  /\ loop = "start" /\ Item > Commands
  /\ loop' = "returned"
  /\ UNCHANGED <<sandbox, registered, processes, clock, timed_out, results>>

--------------------------------------------------------------------------------
Call == Refuse \/ Start \/ EndOfOutput \/ Deadline \/ Record \/ Return

Next ==
  \/ LeaveChild \/ CommandEnds \/ MonitorExits \/ CommandDies \/ ChildCloses
  \/ \E k \in 1..Commands : ChildrenEnd(k)
  \/ Tick
  \/ Call

Spec == Init /\ [][Next]_vars

\* The thread that runs the call and the clock go on.  No process is assumed to
\* end by itself, or to close anything.
FairSpec == Spec /\ WF_vars(Tick) /\ WF_vars(Call)

--------------------------------------------------------------------------------
(* Properties *)

\* No command runs, or is recorded, after one that failed or timed out, and the
\* call returns only when every command passed (docs/mvp-scope.md:31: the
\* patch becomes PATCH_READY only if all validation passed).
NothingAfterFailure ==
  /\ (\E k \in 1..Len(results) : results[k] # "PASSED")
       => monitor = "none" /\ loop = "ValidationFailure" /\ Last(results) # "PASSED"
  /\ loop = "returned" => Len(results) = Commands

\* Between commands, and when the call has ended whichever way, neither bwrap nor
\* a command of it runs, though the kill reaches the command only through the
\* monitor (a signalled command may still be dying).  Children that commands
\* left behind are not excluded: they may meet the next command and the removal
\* of the worktree.
OnlyChildrenLeft ==
  loop \notin {"select", "wait"} => monitor = "none" /\ command # "running"

\* Only a command is recorded as PASSED that ended by itself with exit code 0
\* within its timeout and of whose output no writer is left, however its end, its
\* children, its monitor's end and the deadline interleave.
PassedByItself ==
  [][(Len(results') > Len(results) /\ Last(results') = "PASSED")
       => command = "ended" /\ code = "zero" /\ lasted <= Timeout /\ ~writer]_vars

\* docs/implementation-contracts.md:368: each validation command runs for at most
\* 300 seconds.  It holds though the deadline is looked at only while somebody
\* holds the output, and process.wait() has no limit (validation.py:77-89).
RunsAtMostTimeout == command = "running" => clock <= Timeout

\* A started command can not hold the call: whether it never ends, or ends and
\* leaves its output to a child, the call comes to an end.
CallEnds == loop = "select" ~> loop \in Ended

\* docs/decisions/0002-frozen-policy-and-execution-network.md:39: after a timeout
\* the child processes are terminated.  Nothing terminates those of a command
\* that ran out of its time (validation.py:81).
ChildrenTerminated ==
  (results # <<>> /\ Last(results) = "TIMED_OUT" /\ code = "") ~> Len(results) \notin children
================================================================================
