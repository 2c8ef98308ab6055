--------------------------------- MODULE MCChecks ---------------------------------
(***************************************************************************)
(* The three checks that judge what others hand in, on small instances:    *)
(* every change of a repository of a few paths, every event's data of a    *)
(* few nodes, every course of a validation.  They share no state: a        *)
(* behaviour runs one of them, and the other two do nothing.               *)
(***************************************************************************)
EXTENDS ValidationRun, DiffPolicy, ReproductionData

VARIABLE check     \* "diff", "data" or "commands"

checks == <<check, vars, diffVars, dataVars>>

Tree ==
  [p \in Path |-> CASE p \in {"a", "t", "c"} -> "file" [] p = "l" -> "link" [] OTHER -> "none"]
Rules ==
  [p \in Path |-> CASE p \in {"t", "u"} -> "tests" [] p = "c" -> "closed" [] OTHER -> "open"]

NoDiff ==
  /\ now = [p \in Path |-> "same"] /\ lines = [p \in Path |-> 0]
  /\ moved = <<>> /\ flaw = "none" /\ verdict = "none"

NoCommands ==
  /\ sandbox = FALSE /\ registered = {} /\ loop = "start" /\ monitor = "none"
  /\ command = "none" /\ code = "" /\ lasted = 0 /\ children = {} /\ writer = FALSE
  /\ clock = 0 /\ timed_out = FALSE /\ results = <<>>

MCInit ==
  /\ DataInit
  /\ \/ check = "diff" /\ DiffInit /\ NoCommands
     \/ check = "data" /\ NoDiff /\ NoCommands
     \/ check = "commands" /\ NoDiff /\ Init

MCNext ==
  \/ check = "diff" /\ DiffNext /\ UNCHANGED <<check, vars, dataVars>>
  \/ check = "data" /\ DataNext /\ UNCHANGED <<check, vars, diffVars>>
  \/ check = "commands" /\ Next /\ UNCHANGED <<check, diffVars, dataVars>>

Run == check = "commands" /\ Call /\ UNCHANGED <<check, diffVars, dataVars>>
Clock == check = "commands" /\ Tick /\ UNCHANGED <<check, diffVars, dataVars>>

\* ValidationRun's fairness, where its commands run.
MCSpec == MCInit /\ [][MCNext]_checks /\ WF_checks(Run) /\ WF_checks(Clock)
================================================================================
