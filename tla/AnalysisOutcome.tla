--------------------------- MODULE AnalysisOutcome ---------------------------
(* What a run of the analysis promises: it ends once, with an analysis that  *)
(* is grounded in the transcript and at most one repair, or with an error.   *)
CONSTANTS Analyses, Nothing

VARIABLES
    status,    \* of the analysis row
    stored,    \* the analysis that was written
    repairs    \* the repairs reported with it

Init ==
    /\ status = "processing"
    /\ stored = Nothing
    /\ repairs = 0

Complete(a, r) ==
    /\ status = "processing"
    /\ status' = "completed"
    /\ stored' = a
    /\ repairs' = r

Fail(r) ==
    /\ status = "processing"
    /\ status' = "failed"
    /\ repairs' = r
    /\ UNCHANGED stored

Next == \E r \in {0, 1} :
    \/ \E a \in Analyses : Complete(a, r)
    \/ Fail(r)

Spec == Init /\ [][Next]_<<status, stored, repairs>>
==============================================================================
