------------------------------- MODULE MCPipeline -------------------------------
(***************************************************************************)
(* Pipeline on small instances: symmetry for the safety runs.              *)
(***************************************************************************)
EXTENDS PipelineInvariant, TLC

\* Incidents, workers, keys and policies are interchangeable.
Symmetry == Permutations(Incident) \cup Permutations(Worker)
              \cup Permutations(Key) \cup Permutations(Policy)
================================================================================
