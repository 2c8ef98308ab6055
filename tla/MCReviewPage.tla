------------------------------ MODULE MCReviewPage ------------------------------
(***************************************************************************)
(* ReviewPage on a small instance: either nobody asks for the page and all *)
(* workers run, or the page is read while one of them does.                *)
(***************************************************************************)
EXTENDS ReviewPage

NotAsked == 0

OneRuns ==
  \A w \in Worker \ {CHOOSE v \in Worker : TRUE} : pc'[w] = pc[w] /\ stop'[w] = stop[w]

MCInit == Init /\ page = [p \in Parts |-> NotRead] /\ part \in {NotAsked, 1}

MCNext == PageNext /\ (part # NotAsked => OneRuns)

\* A behaviour in which one worker runs is not fair to the others: liveness is
\* asked of those where all run.
MCSpec == MCInit /\ [][MCNext]_<<vars, pageVars>> /\ Fairness /\ EventuallyCalm
================================================================================
