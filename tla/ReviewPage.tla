------------------------------- MODULE ReviewPage -------------------------------
(***************************************************************************)
(* The detail page of one incident (aeh/review_service.py, detail_page),   *)
(* put together from several SELECTs while the pipeline goes on.  Under    *)
(* PostgreSQL's READ COMMITTED, and on SQLite outside a write transaction, *)
(* every SELECT sees what is committed when it runs.                       *)
(*                                                                         *)
(* The page reads the analysis and the patch run twice: detail_page reads  *)
(* them for the sections, incident_detail for the incident's summary.  The *)
(* session's identity map answers the second SELECT with the row object of *)
(* the first one, as it was, unless the first one found no row.            *)
(***************************************************************************)
EXTENDS Pipeline, Sequences

CONSTANTS
  Shown,       \* the incident the page is asked for
  NotRead      \* a part of the page not read so far

ASSUME ShownAssumption == Shown \in Incident
ASSUME NotReadAssumption == NotRead \notin AnalysisStatus \cup PatchStatus

VARIABLES
  page,      \* the parts read so far
  part       \* index in Reads of the next SELECT

pageVars == <<page, part>>

FaultyReads == <<"analysis", "approval", "patch", "incident", "latestAnalysis", "latestPatch">>

\* The SELECTs in their order.  The first event and the occurrences never change
\* in a way the other parts could contradict.
Reads == <<"incident", "analysis", "approval", "patch", "latestAnalysis", "latestPatch">>

Parts == {Reads[n] : n \in DOMAIN Reads}

\* What a SELECT for the part sees.
Committed(p, i) ==
  CASE p = "incident" -> incident[i].state
    [] p \in {"analysis", "latestAnalysis"} -> analysis[i].status
    [] p = "approval" -> IF approval[i] = NoKey THEN "ABSENT" ELSE "PRESENT"
    [] p \in {"patch", "latestPatch"} -> patch[i]

\* The part whose row object the session already holds.
EarlierPart(p) ==
  CASE p = "latestAnalysis" -> "analysis"
    [] p = "latestPatch" -> "patch"
    [] OTHER -> p

\* The identity map, external to src/: the objects of detail_page's first reads
\* are still referenced when incident_detail reads them again.
RowShown(p, i) ==
  IF page[EarlierPart(p)] \in {NotRead, "ABSENT"} THEN Committed(p, i) ELSE page[EarlierPart(p)]

\* One SELECT of detail_page about incident i.
Select(i) ==
  /\ part \in DOMAIN Reads
  /\ Reads[part] = "incident" => incident[i].state # "ABSENT"
  /\ page' = [page EXCEPT ![Reads[part]] = RowShown(Reads[part], i)]
  /\ part' = part + 1
  /\ UNCHANGED vars

PageInit == page = [p \in Parts |-> NotRead] /\ part = 1

PageNext ==
  \/ Next /\ UNCHANGED pageVars
  \/ Select(Shown)

PageSpec == Init /\ PageInit /\ [][PageNext]_<<vars, pageVars>>

---------------------------------------------------------------------------------
(* Properties *)

Complete == part > Len(Reads)

\* The runs a page may show under an incident's state: those of that state, or
\* of a state the incident reached while the page was read.
RunsExpected(s) ==
  CASE s = "RECEIVED" -> {"ABSENT", "RUNNING", "SUCCEEDED", "FAILED"}
    [] s = "ANALYZING" -> {"RUNNING", "SUCCEEDED", "FAILED"}
    [] s = "ANALYSIS_FAILED" -> {"FAILED"}
    [] OTHER -> {"SUCCEEDED"}

PatchesExpected(s) ==
  CASE s = "ANALYSIS_FAILED" -> {"ABSENT"}
    [] s = "PATCHING" -> PatchStatus \ {"ABSENT"}
    [] s = "VALIDATING" -> {"RUNNING", "VALIDATING", "PATCH_READY", "PATCH_FAILED"}
    [] s \in {"PATCH_READY", "PATCH_FAILED"} -> {s}
    [] OTHER -> PatchStatus

\* A page is never behind the incident state it shows: under AWAITING_APPROVAL
\* stands the successful analysis a person is to judge, under PATCHING and later
\* states the approval and the patch run, under an end state the run that ended
\* there, in its section as in the incident's summary, whatever claims, outcomes,
\* recoveries and approvals commit between the page's SELECTs
\* (review_service.py:48-71).
PageNotBehind ==
  Complete =>
    /\ {page["analysis"], page["latestAnalysis"]} \subseteq RunsExpected(page["incident"])
    /\ {page["patch"], page["latestPatch"]} \subseteq PatchesExpected(page["incident"])
    /\ page["incident"] \in {"PATCHING", "VALIDATING", "PATCH_READY", "PATCH_FAILED"}
         => page["approval"] = "PRESENT"
================================================================================
