----------------------------- MODULE MeetingApi ------------------------------
(***************************************************************************)
(* What the browser sees of the API and the workers: the status of a       *)
(* meeting and of its analysis, and the two requests that queue work. How  *)
(* the rows get there is MeetingJobs; here a worker takes them one by one. *)
(*                                                                         *)
(* A request of the browser is answered or fails. When it fails the        *)
(* handler may or may not have done its work. `faults` counts failures of  *)
(* every kind, of the modules that extend this one too.                    *)
(***************************************************************************)
EXTENDS Naturals, FiniteSets

CONSTANTS
    MaxTakes,    \* bound on the recordings of one visit to the panel
    MaxFaults    \* bound on failures of any kind

ASSUME ApiAssumption == MaxTakes \in Nat \ {0} /\ MaxFaults \in Nat

Takes == 1 .. MaxTakes   \* the recordings, and the meetings made of them

InFlight == {"queued", "processing"}
Statuses == InFlight \cup {"none", "uploaded", "completed", "failed"}
AnalysisStatuses == InFlight \cup {"none", "completed", "failed"}

VARIABLES
    row,           \* the status of each meeting, "none" before its upload
    analysisRow,   \* the status of its analysis, "none" without one
    faults         \* failures so far

apiVars == <<row, analysisRow, faults>>

ApiInit ==
    /\ row = [r \in Takes |-> "none"]
    /\ analysisRow = [r \in Takes |-> "none"]
    /\ faults = 0

\* One more failure, within the bound.
Fault == faults < MaxFaults /\ faults' = faults + 1

\* POST /process: work that is done or under way is reported as it is.
AfterProcess(r) ==
    IF row[r] \in {"uploaded", "failed"} THEN [row EXCEPT ![r] = "queued"] ELSE row

\* POST /analyze without refresh, for a completed meeting; others are refused.
AfterAnalyze(r) ==
    IF analysisRow[r] \in {"none", "failed"} THEN [analysisRow EXCEPT ![r] = "queued"]
    ELSE analysisRow

\* POST /analyze?refresh=true; a running analysis is refused.
AfterRefresh(r) ==
    IF analysisRow[r] \in InFlight THEN analysisRow ELSE [analysisRow EXCEPT ![r] = "queued"]

WorkerTakes(r) ==
    \/ /\ row[r] = "queued"
       /\ row' = [row EXCEPT ![r] = "processing"]
       /\ UNCHANGED <<analysisRow, faults>>
    \/ /\ analysisRow[r] = "queued"
       /\ analysisRow' = [analysisRow EXCEPT ![r] = "processing"]
       /\ UNCHANGED <<row, faults>>

WorkerCompletes(r) ==
    \/ /\ row[r] = "processing"
       /\ row' = [row EXCEPT ![r] = "completed"]
       /\ UNCHANGED <<analysisRow, faults>>
    \/ /\ analysisRow[r] = "processing"
       /\ analysisRow' = [analysisRow EXCEPT ![r] = "completed"]
       /\ UNCHANGED <<row, faults>>

WorkerFails(r) ==
    /\ Fault
    /\ \/ /\ row[r] = "processing"
          /\ row' = [row EXCEPT ![r] = "failed"]
          /\ UNCHANGED analysisRow
       \/ /\ analysisRow[r] = "processing"
          /\ analysisRow' = [analysisRow EXCEPT ![r] = "failed"]
          /\ UNCHANGED row

Worker(r) == WorkerTakes(r) \/ WorkerCompletes(r) \/ WorkerFails(r)
==============================================================================
