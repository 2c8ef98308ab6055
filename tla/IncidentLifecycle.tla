--------------------------- MODULE IncidentLifecycle ---------------------------
(***************************************************************************)
(* What the pipeline promises about its incidents, whatever the workers    *)
(* do: each one moves along the edges of the state machine, never twice in *)
(* one step, and its version, the number optimistic updates compare,       *)
(* counts its moves exactly.  A step may move several incidents, since one *)
(* recovery settles every exhausted job.                                   *)
(***************************************************************************)
EXTENDS Naturals

CONSTANT Incident

VARIABLES
  state,    \* where each incident is in its life
  version   \* how many moves it has made

\* The edge back from VALIDATING is a patch job claimed again after its worker
\* was lost during validation.
Edges == { <<"ABSENT", "RECEIVED">>,
           <<"RECEIVED", "ANALYZING">>,
           <<"ANALYZING", "AWAITING_APPROVAL">>,
           <<"ANALYZING", "ANALYSIS_FAILED">>,
           <<"AWAITING_APPROVAL", "PATCHING">>,
           <<"PATCHING", "VALIDATING">>,
           <<"VALIDATING", "PATCHING">>,
           <<"PATCHING", "PATCH_FAILED">>,
           <<"VALIDATING", "PATCH_FAILED">>,
           <<"VALIDATING", "PATCH_READY">> }

Init ==
  /\ state = [i \in Incident |-> "ABSENT"]
  /\ version = [i \in Incident |-> 0]

Stays(i) == state'[i] = state[i] /\ version'[i] = version[i]
Moves(i) == <<state[i], state'[i]>> \in Edges /\ version'[i] = version[i] + 1

Next ==
  /\ DOMAIN state' = Incident /\ DOMAIN version' = Incident
  /\ \A i \in Incident : Stays(i) \/ Moves(i)

Spec == Init /\ [][Next]_<<state, version>>
================================================================================
