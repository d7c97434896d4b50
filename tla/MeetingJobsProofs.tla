-------------------------- MODULE MeetingJobsProofs --------------------------
(* What holds of MeetingJobs for every number of meetings, slots, processes  *)
(* and requests, and every lease.                                            *)
EXTENDS MeetingJobs, TLAPS

USE JobsAssumption

-----------------------------------------------------------------------------
(* Type correctness: each part of TypeOK is disturbed by few actions.       *)

LEMMA TypeInit == Init => TypeOK
BY DEF Init, TypeOK, MeetingsTyped, AnalysesTyped, SlotsTyped, RequestsTyped,
       ProcsTyped, NoRequest, Meetings, Places, MeetingStatuses, AnalysisStatuses

LEMMA BusyHandler ==
    ASSUME RequestsTyped, NEW r \in Requests, req[r].op # "none"
    PROVE  req[r].meeting \in Meetings /\ req[r] # NoRequest
BY DEF RequestsTyped, NoRequest

LEMMA BusySlot ==
    ASSUME SlotsTyped, NEW s \in Slots, pc[s] \notin {"idle", "noMeeting"}
    PROVE  job[s] \in Meetings
BY DEF SlotsTyped

LEMMA MeetingsStayTyped == TypeOK /\ [Next]_vars => MeetingsTyped'
<1> SUFFICES ASSUME MeetingsTyped, RequestsTyped, SlotsTyped, [Next]_vars PROVE MeetingsTyped'
  BY DEF TypeOK
<1> USE DEF MeetingsTyped, MeetingStatuses
<1>1. ASSUME NEW m \in Meetings, CreateRecording(m) PROVE MeetingsTyped'
  BY <1>1 DEF CreateRecording
<1>2. ASSUME NEW r \in Requests, WriteProcess(r) PROVE MeetingsTyped'
  BY <1>2, BusyHandler DEF WriteProcess, Exists
<1>3. ASSUME NEW r \in Requests, WriteDelete(r) PROVE MeetingsTyped'
  BY <1>3, BusyHandler DEF WriteDelete
<1>4. ASSUME NEW s \in Slots, ClaimMeeting(s) PROVE MeetingsTyped'
  BY <1>4, BusySlot DEF ClaimMeeting
<1>5. ASSUME NEW s \in Slots, NEW t \in Transcripts, CompleteMeeting(s, t) PROVE MeetingsTyped'
  BY <1>5, BusySlot DEF CompleteMeeting, Exists
<1>6. ASSUME NEW s \in Slots, FailMeeting(s) PROVE MeetingsTyped'
  BY <1>6, BusySlot DEF FailMeeting, Exists
<1>7. ASSUME NEW p \in Procs, RecoverMeetings(p) PROVE MeetingsTyped'
  BY <1>7 DEF RecoverMeetings
<1>8. ASSUME Tick PROVE MeetingsTyped'
  BY <1>8 DEF Tick, Older
<1>9. ASSUME UNCHANGED meetingVars PROVE MeetingsTyped'
  BY <1>9 DEF meetingVars
<1> QED
  BY <1>1, <1>2, <1>3, <1>4, <1>5, <1>6, <1>7, <1>8, <1>9
     DEF Next, vars, Handler, ReadProcess, ReadAnalyze, ReadDelete, Decide,
         WriteInsert, WriteRequeue, SlotStep, MeetingStep, AnalysisStep, SelectMeeting,
         LoadMeeting, SelectAnalysis, ClaimAnalysis, LoadAnalysis, CompleteAnalysis,
         FailAnalysis, ProcStep, Start, RecoverAnalyses, Crash

LEMMA AnalysesStayTyped == TypeOK /\ [Next]_vars => AnalysesTyped'
<1> SUFFICES ASSUME AnalysesTyped, RequestsTyped, SlotsTyped, [Next]_vars PROVE AnalysesTyped'
  BY DEF TypeOK
<1> USE DEF AnalysesTyped, AnalysisStatuses
<1>1. ASSUME NEW r \in Requests, WriteInsert(r) PROVE AnalysesTyped'
  BY <1>1, BusyHandler DEF WriteInsert
<1>2. ASSUME NEW r \in Requests, WriteRequeue(r) PROVE AnalysesTyped'
  BY <1>2, BusyHandler DEF WriteRequeue, HasAnalysis
<1>3. ASSUME NEW r \in Requests, WriteDelete(r) PROVE AnalysesTyped'
  BY <1>3, BusyHandler DEF WriteDelete
<1>4. ASSUME NEW s \in Slots, ClaimAnalysis(s) PROVE AnalysesTyped'
  <2> DEFINE m == job[s]
  <2>1. m \in Meetings /\ UNCHANGED <<basis, anOrder>>
    BY <1>4, BusySlot DEF ClaimAnalysis
  <2>2. CASE anStatus[m] = "queued"
    <3>1. /\ anStatus' = [anStatus EXCEPT ![m] = "processing"]
          /\ anAge' = [anAge EXCEPT ![m] = 0]
      BY <1>4, <2>2 DEF ClaimAnalysis
    <3> QED
      BY <2>1, <3>1
  <2>3. CASE anStatus[m] # "queued"
    BY <1>4, <2>1, <2>3 DEF ClaimAnalysis
  <2> QED
    BY <2>2, <2>3
<1>5. ASSUME NEW s \in Slots, CompleteAnalysis(s) PROVE AnalysesTyped'
  <2> DEFINE m == job[s]
             stored == IF seen[s] = "completed" THEN anStatus[m] ELSE "completed"
  <2>1. m \in Meetings /\ input[s] \in Transcripts \cup {NoTurns} /\ UNCHANGED anOrder
    BY <1>5, BusySlot DEF CompleteAnalysis, SlotsTyped
  <2>2. /\ anStatus' = [anStatus EXCEPT ![m] = stored]
        /\ anAge' = [anAge EXCEPT ![m] = IF stored = "processing" THEN @ ELSE 0]
        /\ basis' = [basis EXCEPT ![m] = input[s]]
    BY <1>5 DEF CompleteAnalysis
  <2> QED
    BY <2>1, <2>2
<1>6. ASSUME NEW s \in Slots, FailAnalysis(s) PROVE AnalysesTyped'
  <2> DEFINE m == job[s]
  <2>1. m \in Meetings /\ UNCHANGED <<basis, anOrder>>
    BY <1>6, BusySlot DEF FailAnalysis
  <2>2. /\ anStatus' = [anStatus EXCEPT ![m] = IF HasAnalysis(m) THEN "failed" ELSE @]
        /\ anAge' = [anAge EXCEPT ![m] = 0]
    BY <1>6 DEF FailAnalysis
  <2> QED
    BY <2>1, <2>2
<1>7. ASSUME NEW p \in Procs, RecoverAnalyses(p) PROVE AnalysesTyped'
  BY <1>7 DEF RecoverAnalyses
<1>8. ASSUME Tick PROVE AnalysesTyped'
  BY <1>8 DEF Tick, Older
<1>9. ASSUME UNCHANGED analysisVars PROVE AnalysesTyped'
  BY <1>9 DEF analysisVars
<1> QED
  BY <1>1, <1>2, <1>3, <1>4, <1>5, <1>6, <1>7, <1>8, <1>9
     DEF Next, vars, CreateRecording, Handler, ReadProcess, ReadAnalyze, ReadDelete,
         Decide, WriteProcess, SlotStep, MeetingStep, AnalysisStep, SelectMeeting,
         ClaimMeeting, LoadMeeting, CompleteMeeting, FailMeeting, SelectAnalysis,
         LoadAnalysis, ProcStep, Start, RecoverMeetings, Crash

LEMMA SlotsStayTyped == TypeOK /\ [Next]_vars => SlotsTyped'
<1> SUFFICES ASSUME MeetingsTyped, AnalysesTyped, SlotsTyped, [Next]_vars PROVE SlotsTyped'
  BY DEF TypeOK
<1> USE DEF SlotsTyped, Places, Goto
<1>1. ASSUME NEW s \in Slots, SelectMeeting(s) PROVE SlotsTyped'
  BY <1>1 DEF SelectMeeting, Queued, Meetings
<1>2. ASSUME NEW s \in Slots, ClaimMeeting(s) PROVE SlotsTyped'
  BY <1>2 DEF ClaimMeeting, Meetings
<1>3. ASSUME NEW s \in Slots, LoadMeeting(s) PROVE SlotsTyped'
  BY <1>3 DEF LoadMeeting, Exists, Meetings
<1>4. ASSUME NEW s \in Slots, Release(s) PROVE SlotsTyped'
  BY <1>4 DEF Release, Meetings
<1>5. ASSUME NEW s \in Slots, SelectAnalysis(s) PROVE SlotsTyped'
  <2>1. \A i \in QueuedAnalyses : anOrder[i] \in Meetings
    BY DEF QueuedAnalyses, AnalysesTyped
  <2> QED
    BY <1>5, <2>1 DEF SelectAnalysis, Meetings
<1>6. ASSUME NEW s \in Slots, ClaimAnalysis(s) PROVE SlotsTyped'
  BY <1>6 DEF ClaimAnalysis, Meetings
<1>7. ASSUME NEW s \in Slots, LoadAnalysis(s) PROVE SlotsTyped'
  <2> DEFINE m == job[s]
  <2>1. /\ m \in Meetings
        /\ turns[m] \in Transcripts \cup {NoTurns}
        /\ anStatus[m] # "absent" => anStatus[m] \in MeetingStatuses
    BY <1>7 DEF LoadAnalysis, MeetingsTyped, AnalysesTyped, AnalysisStatuses, MeetingStatuses
  <2>2. CASE HasAnalysis(m)
    <3>1. /\ Goto(s, "analyzing", m)
          /\ seen' = [seen EXCEPT ![s] = anStatus[m]]
          /\ \E t \in Transcripts \cup {NoTurns, NoInput} : input' = [input EXCEPT ![s] = t]
      BY <1>7, <2>1, <2>2 DEF LoadAnalysis
    <3> QED
      BY <2>1, <2>2, <3>1 DEF HasAnalysis, Meetings
  <2>3. CASE ~HasAnalysis(m)
    BY <1>7, <2>3 DEF LoadAnalysis, Meetings
  <2> QED
    BY <2>2, <2>3
<1>8. ASSUME NEW p \in Procs, Crash(p) PROVE SlotsTyped'
  BY <1>8 DEF Crash, Meetings
<1>9. ASSUME UNCHANGED slotVars PROVE SlotsTyped'
  BY <1>9 DEF slotVars
<1> QED
  BY <1>1, <1>2, <1>3, <1>4, <1>5, <1>6, <1>7, <1>8, <1>9
     DEF Next, vars, CreateRecording, Handler, ReadProcess, ReadAnalyze, ReadDelete,
         Decide, WriteProcess, WriteInsert, WriteRequeue, WriteDelete, SlotStep,
         MeetingStep, AnalysisStep, CompleteMeeting, FailMeeting, CompleteAnalysis,
         FailAnalysis, ProcStep, Start, RecoverMeetings, RecoverAnalyses, Tick

LEMMA RequestsStayTyped == TypeOK /\ [Next]_vars => RequestsTyped'
<1> SUFFICES ASSUME RequestsTyped, [Next]_vars PROVE RequestsTyped'
  BY DEF TypeOK
<1> USE DEF RequestsTyped
<1>1. ASSUME NEW r \in Requests, NEW m \in Meetings, NEW op \in Operations, Decide(r, m, op)
      PROVE RequestsTyped'
  BY <1>1 DEF Decide
<1>2. ASSUME NEW r \in Requests, req' = [req EXCEPT ![r] = NoRequest] PROVE RequestsTyped'
  BY <1>2
<1>3. ASSUME UNCHANGED req PROVE RequestsTyped'
  BY <1>3
<1> QED
  BY <1>1, <1>2, <1>3
     DEF Next, vars, CreateRecording, Handler, ReadProcess, ReadAnalyze, ReadDelete,
         Operations, WriteProcess, WriteInsert, WriteRequeue, WriteDelete, SlotStep,
         MeetingStep, AnalysisStep, SelectMeeting, ClaimMeeting, LoadMeeting,
         CompleteMeeting, FailMeeting, SelectAnalysis, ClaimAnalysis, LoadAnalysis,
         CompleteAnalysis, FailAnalysis, ProcStep, Start, RecoverMeetings,
         RecoverAnalyses, Crash, Tick

LEMMA ProcsStayTyped == TypeOK /\ [Next]_vars => ProcsTyped'
<1> SUFFICES ASSUME ProcsTyped, [Next]_vars PROVE ProcsTyped'
  BY DEF TypeOK
<1> USE DEF ProcsTyped
<1>1. ASSUME NEW p \in Procs, ProcStep(p) \/ Crash(p) PROVE ProcsTyped'
  BY <1>1 DEF ProcStep, Start, RecoverMeetings, RecoverAnalyses, Crash
<1>2. ASSUME UNCHANGED proc PROVE ProcsTyped'
  BY <1>2
<1> QED
  BY <1>1, <1>2
     DEF Next, vars, CreateRecording, Handler, ReadProcess, ReadAnalyze, ReadDelete, Decide,
         WriteProcess, WriteInsert, WriteRequeue, WriteDelete, SlotStep,
         MeetingStep, AnalysisStep, SelectMeeting, ClaimMeeting, LoadMeeting,
         CompleteMeeting, FailMeeting, SelectAnalysis, ClaimAnalysis, LoadAnalysis,
         CompleteAnalysis, FailAnalysis, Tick

LEMMA TypeStep == TypeOK /\ [Next]_vars => TypeOK'
BY MeetingsStayTyped, AnalysesStayTyped, SlotsStayTyped, RequestsStayTyped,
   ProcsStayTyped DEF TypeOK

\* Every variable keeps its type, whatever the constants: in particular a slot
\* that has selected, claimed or loaded a job works for an existing id.
THEOREM TypeCorrect == Spec => []TypeOK
BY TypeInit, TypeStep, PTL DEF Spec

-----------------------------------------------------------------------------
(* Without any assumption on requests and leases.                           *)

LEMMA RowsStep == TypeOK /\ RowsHaveMeeting /\ [Next]_vars => RowsHaveMeeting'
<1> SUFFICES ASSUME MeetingsTyped, AnalysesTyped, RequestsTyped, SlotsTyped,
                    RowsHaveMeeting, [Next]_vars
             PROVE  RowsHaveMeeting'
  BY DEF TypeOK
<1> USE DEF RowsHaveMeeting, Exists, HasAnalysis, MeetingStatuses, MeetingsTyped,
            AnalysesTyped
<1>1. ASSUME NEW m \in Meetings, CreateRecording(m) PROVE RowsHaveMeeting'
  BY <1>1 DEF CreateRecording, analysisVars
<1>2. ASSUME NEW r \in Requests, WriteProcess(r) PROVE RowsHaveMeeting'
  BY <1>2, BusyHandler DEF WriteProcess, analysisVars
<1>3. ASSUME NEW r \in Requests, WriteInsert(r) PROVE RowsHaveMeeting'
  BY <1>3, BusyHandler DEF WriteInsert, meetingVars
<1>4. ASSUME NEW r \in Requests, WriteRequeue(r) PROVE RowsHaveMeeting'
  BY <1>4, BusyHandler DEF WriteRequeue, meetingVars
<1>5. ASSUME NEW r \in Requests, WriteDelete(r) PROVE RowsHaveMeeting'
  BY <1>5, BusyHandler DEF WriteDelete
<1>6. ASSUME NEW s \in Slots, ClaimMeeting(s) PROVE RowsHaveMeeting'
  BY <1>6, BusySlot DEF ClaimMeeting, analysisVars
<1>7. ASSUME NEW s \in Slots, NEW t \in Transcripts, CompleteMeeting(s, t)
      PROVE  RowsHaveMeeting'
  BY <1>7, BusySlot DEF CompleteMeeting, analysisVars
<1>8. ASSUME NEW s \in Slots, FailMeeting(s) PROVE RowsHaveMeeting'
  BY <1>8, BusySlot DEF FailMeeting, analysisVars
<1>9. ASSUME NEW s \in Slots, ClaimAnalysis(s) PROVE RowsHaveMeeting'
  BY <1>9, BusySlot DEF ClaimAnalysis, meetingVars
<1>10. ASSUME NEW s \in Slots, CompleteAnalysis(s) PROVE RowsHaveMeeting'
  BY <1>10, BusySlot DEF CompleteAnalysis, meetingVars
<1>11. ASSUME NEW s \in Slots, FailAnalysis(s) PROVE RowsHaveMeeting'
  BY <1>11, BusySlot DEF FailAnalysis, meetingVars
<1>12. ASSUME NEW p \in Procs, RecoverMeetings(p) PROVE RowsHaveMeeting'
  BY <1>12 DEF RecoverMeetings, StaleMeetings, analysisVars
<1>13. ASSUME NEW p \in Procs, RecoverAnalyses(p) PROVE RowsHaveMeeting'
  BY <1>13 DEF RecoverAnalyses, StaleAnalyses, meetingVars
<1>14. ASSUME UNCHANGED <<status, turns, anStatus>> PROVE RowsHaveMeeting'
  BY <1>14
<1> QED
  BY <1>1, <1>2, <1>3, <1>4, <1>5, <1>6, <1>7, <1>8, <1>9, <1>10, <1>11, <1>12,
     <1>13, <1>14
     DEF Next, vars, meetingVars, analysisVars, Handler, ReadProcess, ReadAnalyze,
         ReadDelete, Decide, SlotStep, MeetingStep, AnalysisStep, SelectMeeting,
         LoadMeeting, SelectAnalysis, LoadAnalysis, ProcStep, Start, Crash, Tick

LEMMA RowsInit == Init => RowsHaveMeeting
BY DEF Init, RowsHaveMeeting, HasAnalysis

\* A row that has been deleted never comes back.
LEMMA DeletedStays ==
    ASSUME TypeOK, [Next]_vars, NEW m \in Meetings, status[m] = "deleted"
    PROVE  status'[m] = "deleted"
<1> USE DEF TypeOK, MeetingsTyped, Exists, MeetingStatuses
<1>1. ASSUME NEW k \in Meetings, CreateRecording(k) PROVE status'[m] = "deleted"
  BY <1>1 DEF CreateRecording
<1>2. ASSUME NEW r \in Requests, WriteProcess(r) PROVE status'[m] = "deleted"
  BY <1>2, BusyHandler DEF WriteProcess
<1>3. ASSUME NEW r \in Requests, WriteDelete(r) PROVE status'[m] = "deleted"
  BY <1>3, BusyHandler DEF WriteDelete
<1>4. ASSUME NEW s \in Slots, ClaimMeeting(s) PROVE status'[m] = "deleted"
  BY <1>4, BusySlot DEF ClaimMeeting
<1>5. ASSUME NEW s \in Slots, NEW t \in Transcripts, CompleteMeeting(s, t)
      PROVE  status'[m] = "deleted"
  BY <1>5, BusySlot DEF CompleteMeeting
<1>6. ASSUME NEW s \in Slots, FailMeeting(s) PROVE status'[m] = "deleted"
  BY <1>6, BusySlot DEF FailMeeting
<1>7. ASSUME NEW p \in Procs, RecoverMeetings(p) PROVE status'[m] = "deleted"
  BY <1>7 DEF RecoverMeetings, StaleMeetings
<1>8. ASSUME UNCHANGED status PROVE status'[m] = "deleted"
  BY <1>8
<1> QED
  BY <1>1, <1>2, <1>3, <1>4, <1>5, <1>6, <1>7, <1>8
     DEF Next, vars, meetingVars, analysisVars, Handler, ReadProcess, ReadAnalyze,
         ReadDelete, Decide, WriteInsert, WriteRequeue, SlotStep, MeetingStep, AnalysisStep,
         SelectMeeting, LoadMeeting, SelectAnalysis, ClaimAnalysis, LoadAnalysis,
         CompleteAnalysis, FailAnalysis, ProcStep, Start, RecoverAnalyses, Crash, Tick

\* A row that is there does not go back to before its creation.
LEMMA NeverNone ==
    ASSUME TypeOK, [Next]_vars, NEW m \in Meetings, status[m] # "none"
    PROVE  status'[m] # "none"
<1> USE DEF TypeOK, MeetingsTyped
<1>1. ASSUME NEW k \in Meetings, CreateRecording(k) PROVE status'[m] # "none"
  BY <1>1 DEF CreateRecording
<1>2. ASSUME NEW r \in Requests, WriteProcess(r) PROVE status'[m] # "none"
  BY <1>2, BusyHandler DEF WriteProcess
<1>3. ASSUME NEW r \in Requests, WriteDelete(r) PROVE status'[m] # "none"
  BY <1>3, BusyHandler DEF WriteDelete
<1>4. ASSUME NEW s \in Slots, ClaimMeeting(s) PROVE status'[m] # "none"
  BY <1>4, BusySlot DEF ClaimMeeting
<1>5. ASSUME NEW s \in Slots, NEW t \in Transcripts, CompleteMeeting(s, t)
      PROVE  status'[m] # "none"
  BY <1>5, BusySlot DEF CompleteMeeting
<1>6. ASSUME NEW s \in Slots, FailMeeting(s) PROVE status'[m] # "none"
  BY <1>6, BusySlot DEF FailMeeting
<1>7. ASSUME NEW p \in Procs, RecoverMeetings(p) PROVE status'[m] # "none"
  BY <1>7 DEF RecoverMeetings
<1>8. ASSUME UNCHANGED status PROVE status'[m] # "none"
  BY <1>8
<1> QED
  BY <1>1, <1>2, <1>3, <1>4, <1>5, <1>6, <1>7, <1>8
     DEF Next, vars, meetingVars, analysisVars, Handler, ReadProcess, ReadAnalyze,
         ReadDelete, Decide, WriteInsert, WriteRequeue, SlotStep, MeetingStep, AnalysisStep,
         SelectMeeting, LoadMeeting, SelectAnalysis, ClaimAnalysis, LoadAnalysis,
         CompleteAnalysis, FailAnalysis, ProcStep, Start, RecoverAnalyses, Crash, Tick

\* However requests overlap and however long jobs run, a handler that decided or a
\* worker that claimed before a deletion writes nothing for the deleted meeting
\* (process_meeting, process_analysis, queue_processing, queue_analysis).
THEOREM DeleteTheorem == Spec => NothingOutlivesDelete
<1> DEFINE Gone ==
        \A m \in Meetings :
            /\ status[m] = "deleted" => status'[m] = "deleted"
            /\ status'[m] = "deleted" => turns'[m] = NoTurns /\ anStatus'[m] = "absent"
<1>1. RowsHaveMeeting' => \A m \in Meetings :
                             status'[m] = "deleted" => turns'[m] = NoTurns /\ anStatus'[m] = "absent"
  BY DEF RowsHaveMeeting, Exists, HasAnalysis, MeetingStatuses
<1>2. TypeOK /\ RowsHaveMeeting /\ [Next]_vars => RowsHaveMeeting' /\ [Gone]_vars
  BY <1>1, RowsStep, DeletedStays
<1> QED
  BY <1>2, RowsInit, TypeCorrect, PTL DEF Spec, NothingOutlivesDelete

-----------------------------------------------------------------------------
(* In the safe regime: the inductive invariant.                             *)

\* A slot comes to hold a meeting only by the guarded UPDATE of its claim.
LEMMA NewHolder ==
    ASSUME TypeOK, [Next]_vars, NEW s \in Slots, NEW m \in Meetings,
           HoldsMeeting(s, m)', ~HoldsMeeting(s, m)
    PROVE  ClaimMeeting(s) /\ job[s] = m /\ status[m] = "queued"
<1> USE DEF HoldsMeeting, Goto, TypeOK, SlotsTyped
<1>1. ASSUME NEW t \in Slots, SlotStep(t)
      PROVE  ClaimMeeting(s) /\ job[s] = m /\ status[m] = "queued"
  <2>1. t = s /\ ~SelectMeeting(s) /\ ~SelectAnalysis(s)
    BY <1>1 DEF SlotStep, MeetingStep, AnalysisStep, SelectMeeting, ClaimMeeting,
                LoadMeeting, CompleteMeeting, FailMeeting, SelectAnalysis, ClaimAnalysis,
                LoadAnalysis, CompleteAnalysis, FailAnalysis, Release
  <2> QED
    BY <1>1, <2>1 DEF SlotStep, MeetingStep, AnalysisStep, ClaimMeeting,
                LoadMeeting, CompleteMeeting, FailMeeting, ClaimAnalysis,
                LoadAnalysis, CompleteAnalysis, FailAnalysis, Release
<1>2. ASSUME NEW p \in Procs, Crash(p) PROVE FALSE
  BY <1>2 DEF Crash
<1>3. ASSUME UNCHANGED slotVars PROVE FALSE
  BY <1>3 DEF slotVars
<1> QED
  BY <1>1, <1>2, <1>3
     DEF Next, vars, CreateRecording, Handler, ReadProcess, ReadAnalyze, ReadDelete, Decide,
         WriteProcess, WriteInsert, WriteRequeue, WriteDelete, ProcStep, Start,
         RecoverMeetings, RecoverAnalyses, Tick

LEMMA NewAnalysisHolder ==
    ASSUME TypeOK, [Next]_vars, NEW s \in Slots, NEW m \in Meetings,
           HoldsAnalysis(s, m)', ~HoldsAnalysis(s, m)
    PROVE  ClaimAnalysis(s) /\ job[s] = m /\ anStatus[m] = "queued"
<1> USE DEF HoldsAnalysis, Goto, TypeOK, SlotsTyped
<1>1. ASSUME NEW t \in Slots, SlotStep(t)
      PROVE  ClaimAnalysis(s) /\ job[s] = m /\ anStatus[m] = "queued"
  <2>1. t = s /\ ~SelectMeeting(s) /\ ~SelectAnalysis(s)
    BY <1>1 DEF SlotStep, MeetingStep, AnalysisStep, SelectMeeting, ClaimMeeting,
                LoadMeeting, CompleteMeeting, FailMeeting, SelectAnalysis, ClaimAnalysis,
                LoadAnalysis, CompleteAnalysis, FailAnalysis, Release
  <2> QED
    BY <1>1, <2>1 DEF SlotStep, MeetingStep, AnalysisStep, ClaimMeeting,
                LoadMeeting, CompleteMeeting, FailMeeting, ClaimAnalysis,
                LoadAnalysis, CompleteAnalysis, FailAnalysis, Release
<1>2. ASSUME NEW p \in Procs, Crash(p) PROVE FALSE
  BY <1>2 DEF Crash
<1>3. ASSUME UNCHANGED slotVars PROVE FALSE
  BY <1>3 DEF slotVars
<1> QED
  BY <1>1, <1>2, <1>3
     DEF Next, vars, CreateRecording, Handler, ReadProcess, ReadAnalyze, ReadDelete, Decide,
         WriteProcess, WriteInsert, WriteRequeue, WriteDelete, ProcStep, Start,
         RecoverMeetings, RecoverAnalyses, Tick

\* The second claim of a job finds it no longer queued.
LEMMA OneWorkerStep == TypeOK /\ JobsInv /\ [Next]_vars => OneWorkerPerJob'
<1> SUFFICES ASSUME TypeOK, JobsInv, [Next]_vars, NEW m \in Meetings,
                    NEW s \in Slots, NEW t \in Slots
             PROVE  /\ HoldsMeeting(s, m)' /\ HoldsMeeting(t, m)' => s = t
                    /\ HoldsAnalysis(s, m)' /\ HoldsAnalysis(t, m)' => s = t
  BY DEF OneWorkerPerJob
<1> USE DEF JobsInv, OneWorkerPerJob, SlotsOwn, Deleted, AnalysesGrounded, HasAnalysis
<1>1. ASSUME HoldsMeeting(s, m)', HoldsMeeting(t, m)' PROVE s = t
  <2>1. CASE HoldsMeeting(s, m) /\ HoldsMeeting(t, m)
    BY <2>1
  <2>2. CASE ~HoldsMeeting(s, m)
    <3>1. ClaimMeeting(s) /\ job[s] = m /\ status[m] = "queued"
      BY <1>1, <2>2, NewHolder
    <3>2. ~HoldsMeeting(t, m)
      BY <3>1
    <3> QED
      BY <1>1, <3>1, <3>2 DEF ClaimMeeting, HoldsMeeting, Goto, TypeOK, SlotsTyped
  <2>3. CASE ~HoldsMeeting(t, m)
    <3>1. ClaimMeeting(t) /\ job[t] = m /\ status[m] = "queued"
      BY <1>1, <2>3, NewHolder
    <3>2. ~HoldsMeeting(s, m)
      BY <3>1
    <3> QED
      BY <1>1, <3>1, <3>2 DEF ClaimMeeting, HoldsMeeting, Goto, TypeOK, SlotsTyped
  <2> QED
    BY <2>1, <2>2, <2>3
<1>2. ASSUME HoldsAnalysis(s, m)', HoldsAnalysis(t, m)' PROVE s = t
  <2>1. CASE HoldsAnalysis(s, m) /\ HoldsAnalysis(t, m)
    BY <2>1
  <2>2. CASE ~HoldsAnalysis(s, m)
    <3>1. ClaimAnalysis(s) /\ job[s] = m /\ anStatus[m] = "queued"
      BY <1>2, <2>2, NewAnalysisHolder
    <3>2. ~HoldsAnalysis(t, m)
      BY <3>1
    <3> QED
      BY <1>2, <3>1, <3>2 DEF ClaimAnalysis, HoldsAnalysis, Goto, TypeOK, SlotsTyped
  <2>3. CASE ~HoldsAnalysis(t, m)
    <3>1. ClaimAnalysis(t) /\ job[t] = m /\ anStatus[m] = "queued"
      BY <1>2, <2>3, NewAnalysisHolder
    <3>2. ~HoldsAnalysis(s, m)
      BY <3>1
    <3> QED
      BY <1>2, <3>1, <3>2 DEF ClaimAnalysis, HoldsAnalysis, Goto, TypeOK, SlotsTyped
  <2> QED
    BY <2>1, <2>2, <2>3
<1> QED
  BY <1>1, <1>2

\* While a slot holds a meeting only a deletion touches its row, and the lease lasts.
LEMMA HeldRowStays ==
    ASSUME TypeOK, JobsInv, SafeRegime, [Next]_vars, NEW s \in Slots, NEW m \in Meetings,
           HoldsMeeting(s, m), HoldsMeeting(s, m)', ~Deleted(m)'
    PROVE  status'[m] = "processing" /\ age'[m] <= Lease
<1> USE DEF TypeOK, MeetingsTyped
<1>1. status[m] = "processing" /\ age[m] <= Lease
  BY DeletedStays DEF JobsInv, SlotsOwn, Deleted
<1>2. ASSUME NEW k \in Meetings, CreateRecording(k) PROVE status'[m] = "processing" /\ UNCHANGED age
  BY <1>1, <1>2 DEF CreateRecording
<1>3. ASSUME NEW r \in Requests, WriteProcess(r) \/ WriteDelete(r)
      PROVE  status'[m] = "processing" /\ age'[m] = age[m]
  <2>1. req[r].meeting \in Meetings /\ StillValid(req[r].op, req[r].meeting)
    BY <1>3, BusyHandler DEF JobsInv, HandlersKnow, WriteProcess, WriteDelete
  <2>2. ASSUME WriteDelete(r) PROVE status'[req[r].meeting] = "deleted"
    BY <2>1, <2>2 DEF WriteDelete
  <2>3. req[r].meeting # m
    BY <1>1, <1>3, <2>1, <2>2 DEF StillValid, Processable, Deleted, WriteProcess
  <2> QED
    BY <1>1, <1>3, <2>1, <2>3 DEF WriteProcess, WriteDelete
<1>4. ASSUME NEW t \in Slots, ClaimMeeting(t) PROVE status'[m] = "processing" /\ age'[m] = age[m]
  <2>1. job[t] \in Meetings
    BY <1>4, BusySlot DEF ClaimMeeting
  <2> QED
    BY <1>1, <1>4, <2>1 DEF ClaimMeeting
<1>5. ASSUME NEW t \in Slots, FailMeeting(t) \/ \E x \in Transcripts : CompleteMeeting(t, x)
      PROVE  status'[m] = "processing" /\ age'[m] = age[m]
  <2>1. HoldsMeeting(t, job[t]) /\ job[t] \in Meetings /\ pc'[t] = "idle"
    BY <1>5, BusySlot DEF FailMeeting, CompleteMeeting, HoldsMeeting, Release, Goto, SlotsTyped
  <2>2. job[t] # m
    BY <2>1 DEF JobsInv, OneWorkerPerJob, HoldsMeeting
  <2> QED
    BY <1>1, <1>5, <2>1, <2>2 DEF FailMeeting, CompleteMeeting
<1>6. ASSUME NEW p \in Procs, RecoverMeetings(p)
      PROVE  status'[m] = "processing" /\ age'[m] = age[m]
  BY <1>1, <1>6 DEF RecoverMeetings, StaleMeetings
<1>7. ASSUME Tick PROVE status'[m] = "processing" /\ age'[m] <= Lease
  <2>1. age[m] < Lease
    BY <1>7 DEF Tick, SafeRegime
  <2> QED
    BY <1>1, <1>7, <2>1 DEF Tick, Older
<1>8. ASSUME UNCHANGED <<status, age>> PROVE status'[m] = "processing" /\ age'[m] <= Lease
  BY <1>1, <1>8
<1> QED
  BY <1>1, <1>2, <1>3, <1>4, <1>5, <1>6, <1>7, <1>8
     DEF Next, vars, meetingVars, Handler, ReadProcess, ReadAnalyze, ReadDelete, Decide,
         WriteInsert, WriteRequeue, SlotStep, MeetingStep, AnalysisStep, SelectMeeting,
         LoadMeeting, SelectAnalysis, ClaimAnalysis, LoadAnalysis, CompleteAnalysis,
         FailAnalysis, ProcStep, Start, RecoverAnalyses, Crash

LEMMA HeldAnalysisStays ==
    ASSUME TypeOK, JobsInv, SafeRegime, [Next]_vars, NEW s \in Slots, NEW m \in Meetings,
           HoldsAnalysis(s, m), HoldsAnalysis(s, m)', ~Deleted(m)'
    PROVE  anStatus'[m] = "processing" /\ anAge'[m] <= Lease
<1> USE DEF TypeOK, AnalysesTyped
<1>1. anStatus[m] = "processing" /\ anAge[m] <= Lease
  BY DeletedStays DEF JobsInv, SlotsOwn, Deleted
<1>2. ASSUME NEW r \in Requests, WriteInsert(r) \/ WriteRequeue(r) \/ WriteDelete(r)
      PROVE  anStatus'[m] = "processing" /\ anAge'[m] = anAge[m]
  <2>1. req[r].meeting \in Meetings /\ StillValid(req[r].op, req[r].meeting)
    BY <1>2, BusyHandler DEF JobsInv, HandlersKnow, WriteInsert, WriteRequeue, WriteDelete
  <2>2. ASSUME WriteDelete(r) PROVE status'[req[r].meeting] = "deleted"
    BY <2>1, <2>2 DEF WriteDelete, TypeOK, MeetingsTyped
  <2>3. ~Deleted(m)
    BY DeletedStays DEF Deleted
  <2>4. req[r].meeting # m
    BY <1>1, <1>2, <2>1, <2>2, <2>3 DEF StillValid, HasAnalysis, WriteInsert, WriteRequeue,
                                             Deleted
  <2> QED
    BY <1>1, <1>2, <2>1, <2>4 DEF WriteInsert, WriteRequeue, WriteDelete
<1>3. ASSUME NEW t \in Slots, ClaimAnalysis(t)
      PROVE  anStatus'[m] = "processing" /\ anAge'[m] = anAge[m]
  <2>1. job[t] \in Meetings
    BY <1>3, BusySlot DEF ClaimAnalysis
  <2> QED
    BY <1>1, <1>3, <2>1 DEF ClaimAnalysis
<1>4. ASSUME NEW t \in Slots, FailAnalysis(t) \/ CompleteAnalysis(t)
      PROVE  anStatus'[m] = "processing" /\ anAge'[m] = anAge[m]
  <2>1. HoldsAnalysis(t, job[t]) /\ job[t] \in Meetings /\ pc'[t] = "idle"
    BY <1>4, BusySlot DEF FailAnalysis, CompleteAnalysis, HoldsAnalysis, Release, Goto, SlotsTyped
  <2>2. job[t] # m
    BY <2>1 DEF JobsInv, OneWorkerPerJob, HoldsAnalysis
  <2> QED
    BY <1>1, <1>4, <2>1, <2>2 DEF FailAnalysis, CompleteAnalysis
<1>5. ASSUME NEW p \in Procs, RecoverAnalyses(p)
      PROVE  anStatus'[m] = "processing" /\ anAge'[m] = anAge[m]
  BY <1>1, <1>5 DEF RecoverAnalyses, StaleAnalyses
<1>6. ASSUME Tick PROVE anStatus'[m] = "processing" /\ anAge'[m] <= Lease
  <2>1. anAge[m] < Lease
    BY <1>6 DEF Tick, SafeRegime
  <2> QED
    BY <1>1, <1>6, <2>1 DEF Tick, Older
<1>7. ASSUME UNCHANGED <<anStatus, anAge>> PROVE anStatus'[m] = "processing" /\ anAge'[m] <= Lease
  BY <1>1, <1>7
<1> QED
  BY <1>1, <1>2, <1>3, <1>4, <1>5, <1>6, <1>7
     DEF Next, vars, analysisVars, CreateRecording, Handler, ReadProcess, ReadAnalyze,
         ReadDelete, Decide, WriteProcess, SlotStep, MeetingStep, AnalysisStep,
         SelectMeeting, ClaimMeeting, LoadMeeting, CompleteMeeting, FailMeeting,
         SelectAnalysis, LoadAnalysis, ProcStep, Start, RecoverMeetings, Crash

LEMMA SlotsOwnStep == TypeOK /\ JobsInv /\ SafeRegime /\ [Next]_vars => SlotsOwn'
<1> SUFFICES ASSUME TypeOK, JobsInv, SafeRegime, [Next]_vars,
                    NEW s \in Slots, NEW m \in Meetings
             PROVE  ~Deleted(m)' =>
                      /\ HoldsMeeting(s, m)' => status'[m] = "processing" /\ age'[m] <= Lease
                      /\ HoldsAnalysis(s, m)' =>
                            anStatus'[m] = "processing" /\ anAge'[m] <= Lease
  BY DEF SlotsOwn
<1>1. ASSUME HoldsMeeting(s, m)', ~HoldsMeeting(s, m)
      PROVE  status'[m] = "processing" /\ age'[m] <= Lease
  BY <1>1, NewHolder DEF ClaimMeeting, TypeOK, MeetingsTyped
<1>2. ASSUME HoldsAnalysis(s, m)', ~HoldsAnalysis(s, m)
      PROVE  anStatus'[m] = "processing" /\ anAge'[m] <= Lease
  <2>1. ClaimAnalysis(s) /\ job[s] = m /\ anStatus[m] = "queued"
    BY <1>2, NewAnalysisHolder
  <2> QED
    BY <2>1 DEF ClaimAnalysis, TypeOK, AnalysesTyped
<1> QED
  BY <1>1, <1>2, HeldRowStays, HeldAnalysisStays

\* The transcript of a meeting whose analysis is running does not change.
LEMMA AnalyzedTurnsStay ==
    ASSUME TypeOK, JobsInv, [Next]_vars, NEW m \in Meetings, anStatus[m] = "processing",
           ~Deleted(m)'
    PROVE  turns'[m] = turns[m]
<1> USE DEF TypeOK, MeetingsTyped
<1>1. status[m] = "completed"
  BY DEF JobsInv, AnalysesGrounded, HasAnalysis
<1>2. ASSUME NEW r \in Requests, WriteDelete(r) PROVE turns'[m] = turns[m]
  <2>1. req[r].meeting \in Meetings /\ status'[req[r].meeting] = "deleted"
    BY <1>2, BusyHandler DEF WriteDelete
  <2> QED
    BY <1>2, <2>1 DEF WriteDelete, Deleted
<1>3. ASSUME NEW t \in Slots, FailMeeting(t) \/ \E x \in Transcripts : CompleteMeeting(t, x)
      PROVE  turns'[m] = turns[m]
  <2>1. job[t] \in Meetings /\ status[job[t]] \in {"processing", "deleted"}
    BY <1>3, BusySlot DEF FailMeeting, CompleteMeeting, JobsInv, SlotsOwn, HoldsMeeting, Deleted
  <2> QED
    BY <1>1, <1>3, <2>1 DEF FailMeeting, CompleteMeeting
<1>4. ASSUME UNCHANGED turns PROVE turns'[m] = turns[m]
  BY <1>4
<1> QED
  BY <1>2, <1>3, <1>4
     DEF Next, vars, meetingVars, CreateRecording, Handler, ReadProcess, ReadAnalyze,
         ReadDelete, Decide, WriteProcess, WriteInsert, WriteRequeue, SlotStep,
         MeetingStep, AnalysisStep, SelectMeeting, ClaimMeeting, LoadMeeting,
         SelectAnalysis, ClaimAnalysis, LoadAnalysis, CompleteAnalysis, FailAnalysis,
         ProcStep, Start, RecoverMeetings, RecoverAnalyses, Crash, Tick

LEMMA SlotsKnowStep == TypeOK /\ JobsInv /\ [Next]_vars => SlotsKnow'
<1> SUFFICES ASSUME TypeOK, JobsInv, [Next]_vars, NEW s \in Slots
             PROVE  /\ pc'[s] \in {"transcribing", "analyzing"} => seen'[s] = "processing"
                    /\ pc'[s] = "analyzing" /\ ~Deleted(job[s])' =>
                          input'[s] = turns'[job'[s]]
  BY DEF SlotsKnow
<1> USE DEF TypeOK, SlotsTyped, Goto
<1>1. CASE LoadMeeting(s)
  BY <1>1, BusySlot DEF LoadMeeting, JobsInv, SlotsOwn, HoldsMeeting, Exists, Deleted,
                        MeetingStatuses
<1>2. CASE LoadAnalysis(s)
  <2> DEFINE m == job[s]
  <2>1. m \in Meetings
    BY <1>2, BusySlot DEF LoadAnalysis
  <2>2. CASE HasAnalysis(m)
    <3>1. status[m] = "completed"
      BY <2>1, <2>2 DEF JobsInv, AnalysesGrounded
    <3>2. anStatus[m] = "processing"
      BY <1>2, <2>1, <3>1 DEF LoadAnalysis, JobsInv, SlotsOwn, HoldsAnalysis, Deleted
    <3> QED
      BY <1>2, <2>1, <2>2, <3>1, <3>2 DEF LoadAnalysis, meetingVars
  <2>3. CASE ~HasAnalysis(m)
    BY <1>2, <2>3 DEF LoadAnalysis
  <2> QED
    BY <2>2, <2>3
<1>3. CASE pc'[s] \notin {"transcribing", "analyzing"}
  BY <1>3
<1>4. CASE /\ pc'[s] = pc[s] /\ job'[s] = job[s]
           /\ seen'[s] = seen[s] /\ input'[s] = input[s]
  <2>1. CASE pc[s] = "analyzing" /\ ~Deleted(job[s])'
    <3>1. job[s] \in Meetings
      BY <2>1, BusySlot
    <3>2. ~Deleted(job[s]) /\ status'[job[s]] # "deleted"
      BY <1>4, <2>1, <3>1, DeletedStays DEF Deleted
    <3>3. anStatus[job[s]] = "processing"
      BY <2>1, <3>1, <3>2 DEF JobsInv, SlotsOwn, HoldsAnalysis
    <3>4. turns'[job[s]] = turns[job[s]]
      BY <3>1, <3>2, <3>3, AnalyzedTurnsStay DEF Deleted
    <3> QED
      BY <1>4, <2>1, <3>2, <3>4 DEF JobsInv, SlotsKnow
  <2>2. CASE ~(pc[s] = "analyzing" /\ ~Deleted(job[s])')
    BY <1>4, <2>2 DEF JobsInv, SlotsKnow
  <2> QED
    BY <2>1, <2>2
<1>5. ASSUME NEW t \in Slots, SlotStep(t), t # s
      PROVE  /\ pc'[s] = pc[s] /\ job'[s] = job[s]
             /\ seen'[s] = seen[s] /\ input'[s] = input[s]
  BY <1>5 DEF SlotStep, MeetingStep, AnalysisStep, SelectMeeting, ClaimMeeting,
              LoadMeeting, CompleteMeeting, FailMeeting, SelectAnalysis, ClaimAnalysis,
              LoadAnalysis, CompleteAnalysis, FailAnalysis, Release
<1>6. ASSUME SlotStep(s), ~LoadMeeting(s), ~LoadAnalysis(s)
      PROVE  pc'[s] \notin {"transcribing", "analyzing"}
  BY <1>6 DEF SlotStep, MeetingStep, AnalysisStep, SelectMeeting, ClaimMeeting,
              CompleteMeeting, FailMeeting, SelectAnalysis, ClaimAnalysis,
              CompleteAnalysis, FailAnalysis, Release
<1>7. ASSUME NEW p \in Procs, Crash(p)
      PROVE  \/ pc'[s] = "idle"
             \/ /\ pc'[s] = pc[s] /\ job'[s] = job[s]
                /\ seen'[s] = seen[s] /\ input'[s] = input[s]
  BY <1>7 DEF Crash
<1>8. ASSUME UNCHANGED slotVars
      PROVE  /\ pc'[s] = pc[s] /\ job'[s] = job[s]
             /\ seen'[s] = seen[s] /\ input'[s] = input[s]
  BY <1>8 DEF slotVars
<1> QED
  BY <1>1, <1>2, <1>3, <1>4, <1>5, <1>6, <1>7, <1>8
     DEF Next, vars, CreateRecording, Handler, ReadProcess, ReadAnalyze, ReadDelete, Decide,
         WriteProcess, WriteInsert, WriteRequeue, WriteDelete, ProcStep, Start,
         RecoverMeetings, RecoverAnalyses, Tick

\* Nobody but a handler that has decided so touches a meeting that is neither
\* queued nor in progress.
LEMMA SettledRow ==
    ASSUME TypeOK, JobsInv, [Next]_vars, NEW m \in Meetings,
           status[m] \in {"uploaded", "completed", "failed"}
    PROVE  \/ status'[m] = status[m] /\ turns'[m] = turns[m]
           \/ \E r \in Requests : WriteProcess(r) /\ req[r].meeting = m
           \/ \E r \in Requests : /\ WriteDelete(r)
                                  /\ req[r].meeting = m
                                  /\ status'[m] = "deleted"
<1> DEFINE Stays == status'[m] = status[m] /\ turns'[m] = turns[m]
           Decided == \/ \E r \in Requests : WriteProcess(r) /\ req[r].meeting = m
                      \/ \E r \in Requests : /\ WriteDelete(r)
                                             /\ req[r].meeting = m
                                             /\ status'[m] = "deleted"
<1> USE DEF TypeOK, MeetingsTyped
<1>1. ASSUME NEW k \in Meetings, CreateRecording(k) PROVE Stays
  BY <1>1 DEF CreateRecording
<1>2. ASSUME NEW r \in Requests, WriteProcess(r) PROVE Stays \/ Decided
  BY <1>2, BusyHandler DEF WriteProcess
<1>3. ASSUME NEW r \in Requests, WriteDelete(r) PROVE Stays \/ Decided
  <2>1. req[r].meeting \in Meetings
    BY <1>3, BusyHandler DEF WriteDelete
  <2>2. CASE req[r].meeting = m
    BY <1>3, <2>1, <2>2 DEF WriteDelete
  <2>3. CASE req[r].meeting # m
    BY <1>3, <2>1, <2>3 DEF WriteDelete
  <2> QED
    BY <2>2, <2>3
<1>4. ASSUME NEW s \in Slots, ClaimMeeting(s) PROVE Stays
  BY <1>4, BusySlot DEF ClaimMeeting
<1>5. ASSUME NEW s \in Slots, FailMeeting(s) \/ \E x \in Transcripts : CompleteMeeting(s, x)
      PROVE  Stays
  <2>1. job[s] \in Meetings /\ status[job[s]] \in {"processing", "deleted"}
    BY <1>5, BusySlot DEF FailMeeting, CompleteMeeting, JobsInv, SlotsOwn, HoldsMeeting, Deleted
  <2> QED
    BY <1>5, <2>1 DEF FailMeeting, CompleteMeeting
<1>6. ASSUME NEW p \in Procs, RecoverMeetings(p) PROVE Stays
  BY <1>6 DEF RecoverMeetings, StaleMeetings
<1>7. ASSUME UNCHANGED <<status, turns>> PROVE Stays
  BY <1>7
<1> HIDE DEF Stays, Decided
<1>8. Stays \/ Decided
  BY <1>1, <1>2, <1>3, <1>4, <1>5, <1>6, <1>7
     DEF Next, vars, meetingVars, Handler, ReadProcess, ReadAnalyze, ReadDelete, Decide,
         WriteInsert, WriteRequeue, SlotStep, MeetingStep, AnalysisStep, SelectMeeting,
         LoadMeeting, SelectAnalysis, ClaimAnalysis, LoadAnalysis, CompleteAnalysis,
         FailAnalysis, ProcStep, Start, RecoverAnalyses, Crash, Tick
<1> QED
  BY <1>8 DEF Stays, Decided

\* The same for the row of an analysis.
LEMMA SettledAnalysis ==
    ASSUME TypeOK, JobsInv, [Next]_vars, NEW m \in Meetings,
           anStatus[m] \in {"absent", "completed", "failed"}
    PROVE  \/ anStatus'[m] = anStatus[m] /\ basis'[m] = basis[m]
           \/ \E r \in Requests : /\ WriteInsert(r) \/ WriteRequeue(r) \/ WriteDelete(r)
                                  /\ req[r].meeting = m
<1> DEFINE Stays == anStatus'[m] = anStatus[m] /\ basis'[m] = basis[m]
           Decided == \E r \in Requests :
                          /\ WriteInsert(r) \/ WriteRequeue(r) \/ WriteDelete(r)
                          /\ req[r].meeting = m
<1> USE DEF TypeOK, AnalysesTyped
<1>1. ASSUME NEW r \in Requests, WriteInsert(r) \/ WriteRequeue(r) \/ WriteDelete(r)
      PROVE  Stays \/ Decided
  <2>1. req[r].meeting \in Meetings
    BY <1>1, BusyHandler DEF WriteInsert, WriteRequeue, WriteDelete
  <2>2. CASE req[r].meeting = m
    BY <1>1, <2>2
  <2>3. CASE req[r].meeting # m
    BY <1>1, <2>1, <2>3 DEF WriteInsert, WriteRequeue, WriteDelete
  <2> QED
    BY <2>2, <2>3
<1>2. ASSUME NEW s \in Slots, ClaimAnalysis(s) PROVE Stays
  BY <1>2, BusySlot DEF ClaimAnalysis
<1>3. ASSUME NEW s \in Slots, FailAnalysis(s) \/ CompleteAnalysis(s) PROVE Stays
  <2>1. job[s] \in Meetings
    BY <1>3, BusySlot DEF FailAnalysis, CompleteAnalysis
  <2>2. CASE HasAnalysis(job[s])
    <3>1. ~Deleted(job[s])
      BY <2>1, <2>2 DEF JobsInv, AnalysesGrounded, Deleted
    <3>2. anStatus[job[s]] = "processing"
      BY <1>3, <2>1, <3>1 DEF FailAnalysis, CompleteAnalysis, JobsInv, SlotsOwn, HoldsAnalysis
    <3> QED
      BY <1>3, <2>1, <3>2 DEF FailAnalysis, CompleteAnalysis
  <2>3. CASE ~HasAnalysis(job[s])
    BY <1>3, <2>1, <2>3 DEF FailAnalysis, CompleteAnalysis
  <2> QED
    BY <2>2, <2>3
<1>4. ASSUME NEW p \in Procs, RecoverAnalyses(p) PROVE Stays
  BY <1>4 DEF RecoverAnalyses, StaleAnalyses
<1>5. ASSUME UNCHANGED <<anStatus, basis>> PROVE Stays
  BY <1>5
<1> HIDE DEF Stays, Decided
<1>6. Stays \/ Decided
  BY <1>1, <1>2, <1>3, <1>4, <1>5
     DEF Next, vars, analysisVars, CreateRecording, Handler, ReadProcess, ReadAnalyze,
         ReadDelete, Decide, WriteProcess, SlotStep, MeetingStep, AnalysisStep,
         SelectMeeting, ClaimMeeting, LoadMeeting, CompleteMeeting, FailMeeting,
         SelectAnalysis, LoadAnalysis, ProcStep, Start, RecoverMeetings, Crash, Tick
<1> QED
  BY <1>6 DEF Stays, Decided

\* A completed meeting keeps its status and its transcript until it is deleted.
LEMMA CompletedRowStays ==
    ASSUME TypeOK, JobsInv, [Next]_vars, NEW m \in Meetings, status[m] = "completed"
    PROVE  \/ status'[m] = "deleted"
           \/ status'[m] = "completed" /\ turns'[m] = turns[m]
<1>1. ASSUME NEW r \in Requests, WriteProcess(r), req[r].meeting = m PROVE FALSE
  BY <1>1 DEF WriteProcess, JobsInv, HandlersKnow, StillValid, Processable, Deleted
<1> QED
  BY <1>1, SettledRow

\* An analysis comes into being only by the insert of a handler.
LEMMA NewAnalysis ==
    ASSUME TypeOK, [Next]_vars, JobsInv, NEW m \in Meetings, ~HasAnalysis(m), HasAnalysis(m)'
    PROVE  status'[m] = "completed" /\ anStatus'[m] = "queued"
<1>1. anStatus[m] = "absent" /\ anStatus'[m] # "absent"
  BY DEF HasAnalysis
<1>2. PICK r \in Requests : /\ WriteInsert(r) \/ WriteRequeue(r) \/ WriteDelete(r)
                           /\ req[r].meeting = m
  BY <1>1, SettledAnalysis
<1>3. WriteInsert(r)
  BY <1>1, <1>2 DEF WriteRequeue, WriteDelete, HasAnalysis, TypeOK, AnalysesTyped
<1> QED
  BY <1>1, <1>2, <1>3 DEF WriteInsert, JobsInv, HandlersKnow, StillValid, meetingVars,
                          TypeOK, AnalysesTyped, Exists, Deleted, MeetingStatuses

\* An analysis becomes completed only by the slot that holds it, which has read
\* the turns the meeting still has.
LEMMA NewlyCompleted ==
    ASSUME TypeOK, JobsInv, [Next]_vars, NEW m \in Meetings,
           anStatus[m] # "completed", anStatus'[m] = "completed"
    PROVE  basis'[m] = turns'[m]
<1> USE DEF TypeOK, AnalysesTyped
<1>1. ASSUME NEW r \in Requests, WriteInsert(r) \/ WriteRequeue(r) \/ WriteDelete(r)
      PROVE  FALSE
  <2>1. req[r].meeting \in Meetings
    BY <1>1, BusyHandler DEF WriteInsert, WriteRequeue, WriteDelete
  <2> QED
    BY <1>1, <2>1 DEF WriteInsert, WriteRequeue, WriteDelete
<1>2. ASSUME NEW s \in Slots, ClaimAnalysis(s) PROVE FALSE
  BY <1>2, BusySlot DEF ClaimAnalysis
<1>3. ASSUME NEW s \in Slots, FailAnalysis(s) PROVE FALSE
  BY <1>3, BusySlot DEF FailAnalysis
<1>4. ASSUME NEW s \in Slots, CompleteAnalysis(s) PROVE basis'[m] = turns'[m]
  <2>1. job[s] \in Meetings /\ ~Deleted(job[s])
    BY <1>4, BusySlot DEF CompleteAnalysis, JobsInv, AnalysesGrounded, Deleted
  <2>2. job[s] = m
    BY <1>4, <2>1 DEF CompleteAnalysis
  <2>3. input[s] = turns[m]
    BY <1>4, <2>1, <2>2 DEF CompleteAnalysis, JobsInv, SlotsKnow
  <2> QED
    BY <1>4, <2>1, <2>2, <2>3 DEF CompleteAnalysis, meetingVars
<1>5. ASSUME NEW p \in Procs, RecoverAnalyses(p) PROVE FALSE
  BY <1>5 DEF RecoverAnalyses
<1>6. ASSUME UNCHANGED anStatus PROVE FALSE
  BY <1>6
<1> QED
  BY <1>1, <1>2, <1>3, <1>4, <1>5, <1>6
     DEF Next, vars, analysisVars, CreateRecording, Handler, ReadProcess, ReadAnalyze,
         ReadDelete, Decide, WriteProcess, SlotStep, MeetingStep, AnalysisStep,
         SelectMeeting, ClaimMeeting, LoadMeeting, CompleteMeeting, FailMeeting,
         SelectAnalysis, LoadAnalysis, ProcStep, Start, RecoverMeetings, Crash, Tick

LEMMA GroundedStep == TypeOK /\ JobsInv /\ [Next]_vars => AnalysesGrounded'
<1> SUFFICES ASSUME TypeOK, JobsInv, [Next]_vars, NEW m \in Meetings, HasAnalysis(m)'
             PROVE  /\ status'[m] = "completed"
                    /\ anStatus'[m] = "completed" => basis'[m] = turns'[m]
  BY DEF AnalysesGrounded, HasAnalysis
<1>1. CASE ~HasAnalysis(m)
  BY <1>1, NewAnalysis
<1>2. CASE HasAnalysis(m)
  <2>1. status[m] = "completed"
    BY <1>2 DEF JobsInv, AnalysesGrounded
  <2>2. status'[m] # "deleted"
    BY RowsStep DEF JobsInv, RowsHaveMeeting, Exists, MeetingStatuses
  <2>3. status'[m] = "completed" /\ turns'[m] = turns[m]
    BY <2>1, <2>2, CompletedRowStays
  <2>4. ASSUME anStatus'[m] = "completed", anStatus[m] = "completed"
        PROVE  basis'[m] = turns'[m]
    <3>1. basis[m] = turns[m]
      BY <2>4 DEF JobsInv, AnalysesGrounded
    <3>2. ASSUME NEW r \in Requests, req[r].meeting = m,
                 WriteInsert(r) \/ WriteRequeue(r) \/ WriteDelete(r)
          PROVE  basis'[m] = basis[m]
      BY <1>2, <2>2, <3>2 DEF WriteInsert, WriteRequeue, WriteDelete, TypeOK, MeetingsTyped
    <3> QED
      BY <2>3, <2>4, <3>1, <3>2, SettledAnalysis
  <2> QED
    BY <2>3, <2>4, NewlyCompleted
<1> QED
  BY <1>1, <1>2

\* A handler's write ends its request.
LEMMA WriteEnds ==
    ASSUME RequestsTyped, NEW r \in Requests,
           WriteProcess(r) \/ WriteInsert(r) \/ WriteRequeue(r) \/ WriteDelete(r)
    PROVE  /\ req' = [req EXCEPT ![r] = NoRequest]
           /\ req[r] # NoRequest
           /\ req[r].meeting \in Meetings
BY BusyHandler DEF WriteProcess, WriteInsert, WriteRequeue, WriteDelete

\* What can happen to the requests in a step: a handler decides, a handler ends,
\* or nothing.
LEMMA RequestStep ==
    ASSUME [Next]_vars
    PROVE  \/ \E r \in Requests, m \in Meetings, op \in Operations :
                 /\ op = "delete" \/ MayStart(r, m)
                 /\ StillValid(op, m)
                 /\ Decide(r, m, op)
           \/ \E r \in Requests : \/ WriteProcess(r) \/ WriteInsert(r)
                                  \/ WriteRequeue(r) \/ WriteDelete(r)
           \/ req' = req
<1>1. ASSUME NEW r \in Requests, NEW m \in Meetings,
             ReadProcess(r, m) \/ ReadAnalyze(r, m) \/ ReadDelete(r, m)
      PROVE  \E op \in Operations : /\ op = "delete" \/ MayStart(r, m)
                                    /\ StillValid(op, m)
                                    /\ Decide(r, m, op)
  BY <1>1 DEF ReadProcess, ReadAnalyze, ReadDelete, Processable, Deletable, StillValid,
              Operations, HasAnalysis
<1> QED
  BY <1>1 DEF Next, vars, CreateRecording, Handler, SlotStep, MeetingStep, AnalysisStep,
              SelectMeeting, ClaimMeeting, LoadMeeting, CompleteMeeting, FailMeeting,
              SelectAnalysis, ClaimAnalysis, LoadAnalysis, CompleteAnalysis, FailAnalysis,
              ProcStep, Start, RecoverMeetings, RecoverAnalyses, Crash, Tick

LEMMA HandlersApartStep ==
    TypeOK /\ JobsInv /\ SafeRegime /\ [Next]_vars => HandlersApart'
<1> SUFFICES ASSUME RequestsTyped, HandlersApart, SafeRegime, [Next]_vars PROVE HandlersApart'
  BY DEF TypeOK, JobsInv
<1> USE DEF HandlersApart, RequestsTyped
<1>1. ASSUME NEW r \in Requests, NEW m \in Meetings, NEW op \in Operations,
             op = "delete" \/ MayStart(r, m), Decide(r, m, op)
      PROVE  HandlersApart'
  <2>1. op = "delete" \/ \A q \in Requests : req[q].meeting = m => req[q].op = "delete"
    BY <1>1 DEF MayStart, SafeRegime
  <2>2. /\ req'[r].op = op /\ req'[r].meeting = m
        /\ \A q \in Requests : q # r => req'[q] = req[q]
    BY <1>1 DEF Decide
  <2> QED
    BY <2>1, <2>2
<1>2. ASSUME NEW r \in Requests,
             WriteProcess(r) \/ WriteInsert(r) \/ WriteRequeue(r) \/ WriteDelete(r)
      PROVE  HandlersApart'
  <2>1. req'[r].op = "none" /\ \A q \in Requests : q # r => req'[q] = req[q]
    BY <1>2, WriteEnds DEF NoRequest
  <2> QED
    BY <2>1
<1>3. ASSUME UNCHANGED req PROVE HandlersApart'
  BY <1>3
<1> QED
  BY <1>1, <1>2, <1>3, RequestStep

LEMMA HandlersKnowStep == TypeOK /\ JobsInv /\ [Next]_vars => HandlersKnow'
<1> SUFFICES ASSUME TypeOK, JobsInv, [Next]_vars, NEW r \in Requests, req'[r].op # "none"
             PROVE  StillValid(req[r].op, req[r].meeting)'
  BY DEF HandlersKnow
<1> USE DEF TypeOK, RequestsTyped
<1>1. ASSUME NEW m \in Meetings, NEW op \in Operations,
             StillValid(op, m), Decide(r, m, op)
      PROVE  StillValid(req[r].op, req[r].meeting)'
  <2>1. req'[r] = [op |-> op, meeting |-> m] /\ UNCHANGED <<status, anStatus>>
    BY <1>1 DEF Decide, meetingVars, analysisVars
  <2>2. req'[r].op = op /\ req'[r].meeting = m
    BY <2>1
  <2>3. StillValid(op, m)'
    BY <1>1, <2>1 DEF StillValid, Processable, HasAnalysis, Deleted
  <2> QED
    BY <2>2, <2>3 DEF StillValid, Processable, HasAnalysis, Deleted
<1>2. CASE req'[r] = req[r] /\ req[r] # NoRequest
  <2>1. PICK m \in Meetings, op \in Operations : req[r] = [op |-> op, meeting |-> m]
    BY <1>2
  <2>2. req[r].op = op /\ req[r].meeting = m
    BY <2>1
  <2>3. StillValid(op, m)
    BY <2>2 DEF JobsInv, HandlersKnow, Operations
  <2>4. status'[m] # "none"
    BY <2>3, NeverNone DEF StillValid
  <2>5. CASE Deleted(m)' \/ op = "delete"
    BY <1>2, <2>2, <2>4, <2>5 DEF StillValid, Deleted
  <2>6. CASE ~Deleted(m)' /\ op # "delete"
    <3>1. ~Deleted(m)
      BY <2>6, DeletedStays DEF Deleted
    <3>2. ASSUME NEW q \in Requests, req[q].meeting = m,
                 WriteProcess(q) \/ WriteInsert(q) \/ WriteRequeue(q) \/ WriteDelete(q)
          PROVE  FALSE
      <4>1. ~WriteDelete(q)
        BY <2>6, <3>2 DEF WriteDelete, Deleted, MeetingsTyped
      <4>2. q = r
        BY <2>2, <2>6, <3>2, <4>1
           DEF JobsInv, HandlersApart, Operations, WriteProcess, WriteInsert, WriteRequeue
      <4> QED
        BY <1>2, <3>2, <4>2, WriteEnds
    <3>3. status[m] \in {"uploaded", "completed", "failed"} => status'[m] = status[m]
      BY <3>2, SettledRow
    <3>4. anStatus[m] \in {"absent", "completed", "failed"} => anStatus'[m] = anStatus[m]
      BY <3>2, SettledAnalysis
    <3>5. StillValid(op, m)'
      BY <2>3, <2>4, <3>1, <3>3, <3>4 DEF StillValid, Processable, HasAnalysis
    <3> QED
      BY <1>2, <2>2, <3>5 DEF StillValid, Processable, HasAnalysis, Deleted
  <2> QED
    BY <2>5, <2>6
<1>3. \/ req'[r] = NoRequest
      \/ req'[r] = req[r]
      \/ \E m \in Meetings, op \in Operations : StillValid(op, m) /\ Decide(r, m, op)
  <2>1. ASSUME NEW q \in Requests, NEW m \in Meetings, NEW op \in Operations,
               q # r, Decide(q, m, op)
        PROVE  req'[r] = req[r]
    BY <2>1 DEF Decide
  <2>2. ASSUME NEW q \in Requests,
               WriteProcess(q) \/ WriteInsert(q) \/ WriteRequeue(q) \/ WriteDelete(q)
        PROVE  req'[r] = NoRequest \/ req'[r] = req[r]
    BY <2>2, WriteEnds
  <2> QED
    BY <2>1, <2>2, RequestStep
<1> QED
  BY <1>1, <1>2, <1>3 DEF NoRequest

LEMMA JobsStep == TypeOK /\ JobsInv /\ SafeRegime /\ [Next]_vars => JobsInv'
BY RowsStep, OneWorkerStep, SlotsOwnStep, SlotsKnowStep, GroundedStep,
   HandlersKnowStep, HandlersApartStep DEF JobsInv

LEMMA JobsInit == Init => JobsInv
<1> SUFFICES ASSUME Init PROVE JobsInv
  OBVIOUS
<1>1. \A r \in Requests : req[r].op = "none"
  BY DEF Init, NoRequest
<1>2. HandlersKnow /\ HandlersApart
  BY <1>1 DEF HandlersKnow, HandlersApart
<1>3. OneWorkerPerJob /\ SlotsOwn /\ SlotsKnow /\ AnalysesGrounded
  BY DEF Init, OneWorkerPerJob, SlotsOwn, SlotsKnow, AnalysesGrounded, HasAnalysis,
         HoldsMeeting, HoldsAnalysis
<1> QED
  BY <1>2, <1>3, RowsInit DEF JobsInv

\* When two handlers do not queue work for one meeting at a time and jobs end within
\* their lease, whoever has decided to change a row finds it as it was at the decision,
\* or deleted (the guarded claims, the lease, the checks of the handlers together).
THEOREM JobsTheorem ==
    ASSUME SafeRegime
    PROVE  Spec => []JobsInv
<1>1. TypeOK /\ JobsInv /\ [Next]_vars => JobsInv'
  BY JobsStep
<1> QED
  BY <1>1, JobsInit, TypeCorrect, PTL DEF Spec

\* "A job can not be processed twice": no two slots ever hold one meeting or one
\* analysis (claim_next_meeting, claim_next_analysis).
THEOREM OneWorkerTheorem ==
    ASSUME SafeRegime
    PROVE  Spec => []OneWorkerPerJob
<1>1. JobsInv => OneWorkerPerJob
  BY DEF JobsInv
<1> QED
  BY <1>1, JobsTheorem, PTL

\* A completed analysis always refers to the turns its meeting has now, so the
\* evidence ordinals of _analysis_response resolve.
THEOREM AnalysisTheorem ==
    ASSUME SafeRegime
    PROVE  Spec => []AnalysisMatchesTranscript
<1>1. JobsInv => AnalysisMatchesTranscript
  BY DEF JobsInv, AnalysesGrounded, AnalysisMatchesTranscript
<1> QED
  BY <1>1, JobsTheorem, PTL

\* A completed meeting keeps its transcript and its status until it is deleted.
THEOREM FinalTheorem ==
    ASSUME SafeRegime
    PROVE  Spec => TranscriptIsFinal
<1> DEFINE Final == \A m \in Meetings : status[m] = "completed" =>
              status'[m] = "deleted" \/ (status'[m] = "completed" /\ turns'[m] = turns[m])
<1>1. TypeOK /\ JobsInv /\ [Next]_vars => [Final]_vars
  BY CompletedRowStays
<1> QED
  BY <1>1, JobsTheorem, TypeCorrect, PTL DEF Spec, TranscriptIsFinal

-----------------------------------------------------------------------------
(* The queue implements the abstract lifecycle.                             *)

LEMMA LifecycleInit == Init => Lifecycle!Init
BY DEF Init, Lifecycle!Init, Owners, Owns, HoldsMeeting

\* A slot owns what it holds, unless it has been deleted.
LEMMA OwnersStay ==
    ASSUME \A s \in Slots, m \in Meetings : Owns(s, m)' <=> Owns(s, m)
    PROVE  Owners' = Owners
BY DEF Owners

\* A deletion is the only way to lose a meeting that one goes on to hold.
LEMMA OwnsBy ==
    ASSUME NEW m \in Meetings, NEW s \in Slots,
           HoldsMeeting(s, m)' <=> HoldsMeeting(s, m), Deleted(m)' <=> Deleted(m)
    PROVE  Owns(s, m)' <=> Owns(s, m)
BY DEF Owns

LEMMA LifecycleClaim ==
    ASSUME TypeOK, JobsInv, NEW s \in Slots, ClaimMeeting(s), status[job[s]] = "queued"
    PROVE  job[s] \in Meetings /\ Lifecycle!Claim(job[s], s)
<1> USE DEF TypeOK, MeetingsTyped, SlotsTyped
<1>1. job[s] \in Meetings /\ \A t \in Slots : ~HoldsMeeting(t, job[s])
  BY BusySlot DEF ClaimMeeting, JobsInv, SlotsOwn, Deleted
<1>2. /\ status' = [status EXCEPT ![job[s]] = "processing"]
      /\ turns' = turns
      /\ Goto(s, "claimed", job[s])
      /\ pc[s] = "selected"
  BY DEF ClaimMeeting
<1>3. Owners' = [Owners EXCEPT ![job[s]] = {s}]
  <2>1. \A t \in Slots, m \in Meetings :
            HoldsMeeting(t, m)' <=> HoldsMeeting(t, m) \/ (t = s /\ m = job[s])
    BY <1>1, <1>2 DEF HoldsMeeting, Goto
  <2>2. \A m \in Meetings : (Deleted(m)' <=> Deleted(m)) /\ ~Deleted(job[s])
    BY <1>1, <1>2 DEF Deleted
  <2>3. \A m \in Meetings : {t \in Slots : Owns(t, m)'} =
            IF m = job[s] THEN {s} ELSE {t \in Slots : Owns(t, m)}
    BY <1>1, <2>1, <2>2 DEF Owns
  <2> QED
    BY <1>1, <2>3 DEF Owners
<1>4. Owners[job[s]] = {}
  BY <1>1 DEF Owners, Owns
<1> QED
  BY <1>1, <1>2, <1>3, <1>4 DEF Lifecycle!Claim, Lifecycle!Move

\* The end of a job whose meeting is still there.
LEMMA LifecycleEnd ==
    ASSUME TypeOK, JobsInv, NEW s \in Slots, pc[s] = "transcribing", Release(s),
           ~Deleted(job[s]),
           \A m \in Meetings : m # job[s] => status'[m] = status[m]
    PROVE  /\ job[s] \in Meetings
           /\ status[job[s]] = "processing"
           /\ Owners[job[s]] = {s}
           /\ Owners' = [Owners EXCEPT ![job[s]] = {}]
<1> USE DEF TypeOK, SlotsTyped
<1>1. job[s] \in Meetings /\ HoldsMeeting(s, job[s])
  BY BusySlot DEF HoldsMeeting
<1>2. /\ status[job[s]] = "processing"
      /\ \A t \in Slots : HoldsMeeting(t, job[s]) <=> t = s
  BY <1>1 DEF JobsInv, SlotsOwn, OneWorkerPerJob
<1>3. Owners[job[s]] = {s}
  BY <1>1, <1>2 DEF Owners, Owns
<1>4. \A m \in Meetings, t \in Slots : HoldsMeeting(t, m)' <=> HoldsMeeting(t, m) /\ t # s
  BY DEF HoldsMeeting, Release, Goto
<1>5. \A m \in Meetings : HoldsMeeting(s, m) => m = job[s]
  BY DEF HoldsMeeting
<1>6. Owners' = [Owners EXCEPT ![job[s]] = {}]
  <2>1. \A m \in Meetings : m # job[s] => (Deleted(m)' <=> Deleted(m))
    BY DEF Deleted
  <2>2. \A m \in Meetings : {t \in Slots : Owns(t, m)'} =
            IF m = job[s] THEN {} ELSE {t \in Slots : Owns(t, m)}
    BY <1>2, <1>4, <1>5, <2>1 DEF Owns
  <2> QED
    BY <1>1, <2>2 DEF Owners
<1> QED
  BY <1>1, <1>2, <1>3, <1>6

LEMMA LifecycleFail ==
    ASSUME TypeOK, JobsInv, NEW s \in Slots, FailMeeting(s)
    PROVE  Lifecycle!Next \/ UNCHANGED <<status, Owners, turns>>
<1> USE DEF TypeOK, MeetingsTyped, SlotsTyped
<1>1. job[s] \in Meetings /\ HoldsMeeting(s, job[s])
  BY BusySlot DEF FailMeeting, HoldsMeeting
<1>2. CASE Deleted(job[s])
  <2>1. ~Exists(job[s])
    BY <1>2 DEF Exists, Deleted, MeetingStatuses
  <2>2. turns[job[s]] = NoTurns
    BY <1>1, <2>1 DEF JobsInv, RowsHaveMeeting
  <2>3. status' = status /\ turns' = turns
    BY <1>1, <2>1, <2>2 DEF FailMeeting
  <2>4. \A t \in Slots, m \in Meetings :
            HoldsMeeting(t, m)' <=> HoldsMeeting(t, m) /\ (t # s \/ m # job[s])
    BY DEF FailMeeting, HoldsMeeting, Release, Goto
  <2>5. \A t \in Slots, m \in Meetings : Owns(t, m)' <=> Owns(t, m)
    BY <1>2, <2>3, <2>4 DEF Owns, Deleted
  <2> QED
    BY <2>3, <2>5, OwnersStay
<1>3. CASE ~Deleted(job[s])
  <2>1. Exists(job[s])
    BY <1>1, <1>3 DEF JobsInv, SlotsOwn, Exists, MeetingStatuses
  <2>2. /\ status' = [status EXCEPT ![job[s]] = "failed"]
        /\ turns' = [turns EXCEPT ![job[s]] = NoTurns]
        /\ pc[s] = "transcribing" /\ Release(s)
    BY <2>1 DEF FailMeeting
  <2>3. /\ status[job[s]] = "processing"
        /\ Owners[job[s]] = {s} /\ Owners' = [Owners EXCEPT ![job[s]] = {}]
    BY <1>3, <2>2, LifecycleEnd
  <2>4. Lifecycle!Fail(job[s], s)
    BY <2>2, <2>3 DEF Lifecycle!Fail, Lifecycle!End, Lifecycle!Move
  <2> QED
    BY <1>1, <2>4 DEF Lifecycle!Next
<1> QED
  BY <1>2, <1>3

LEMMA LifecycleStep ==
    TypeOK /\ JobsInv /\ [Next]_vars => [Lifecycle!Next]_<<status, Owners, turns>>
<1> SUFFICES ASSUME TypeOK, JobsInv, [Next]_vars
             PROVE  Lifecycle!Next \/ UNCHANGED <<status, Owners, turns>>
  OBVIOUS
<1> USE DEF TypeOK, MeetingsTyped, SlotsTyped
<1>1. ASSUME NEW m \in Meetings, CreateRecording(m) PROVE Lifecycle!Next
  <2>1. Owners' = Owners
    <3>1. \A k \in Meetings : Deleted(k)' <=> Deleted(k)
      BY <1>1 DEF CreateRecording, Deleted
    <3> QED
      BY <1>1, <3>1, OwnersStay, OwnsBy DEF CreateRecording, slotVars, HoldsMeeting
  <2>2. Lifecycle!Submit(m)
    BY <1>1, <2>1 DEF CreateRecording, Lifecycle!Submit, Lifecycle!Move
  <2> QED
    BY <2>2 DEF Lifecycle!Next
<1>2. ASSUME NEW r \in Requests, WriteProcess(r)
      PROVE  Lifecycle!Next \/ UNCHANGED <<status, Owners, turns>>
  <2> DEFINE m == req[r].meeting
  <2>1. m \in Meetings /\ (Deleted(m) \/ Processable(m))
    BY <1>2, BusyHandler DEF WriteProcess, JobsInv, HandlersKnow, StillValid
  <2>2. /\ status' = [status EXCEPT ![m] = IF Exists(m) THEN "queued" ELSE @]
        /\ turns' = turns /\ UNCHANGED slotVars
    BY <1>2 DEF WriteProcess
  <2>3. Owners' = Owners
    <3>1. \A k \in Meetings : Deleted(k)' <=> Deleted(k)
      BY <2>1, <2>2 DEF Deleted, Exists, MeetingStatuses
    <3> QED
      BY <2>2, <3>1, OwnersStay, OwnsBy DEF slotVars, HoldsMeeting
  <2>4. CASE Deleted(m)
    BY <2>1, <2>2, <2>3, <2>4 DEF Deleted, Exists, MeetingStatuses
  <2>5. CASE Processable(m)
    <3>1. Lifecycle!Enqueue(m)
      BY <2>1, <2>2, <2>3, <2>5 DEF Processable, Exists, MeetingStatuses,
                                   Lifecycle!Enqueue, Lifecycle!Move
    <3> QED
      BY <2>1, <3>1 DEF Lifecycle!Next
  <2> QED
    BY <2>1, <2>4, <2>5
<1>3. ASSUME NEW r \in Requests, WriteDelete(r) PROVE Lifecycle!Next
  <2> DEFINE m == req[r].meeting
  <2>1. m \in Meetings /\ status[m] # "none"
    BY <1>3, BusyHandler DEF WriteDelete, JobsInv, HandlersKnow, StillValid
  <2>2. /\ status' = [status EXCEPT ![m] = "deleted"]
        /\ turns' = [turns EXCEPT ![m] = NoTurns] /\ UNCHANGED slotVars
    BY <1>3 DEF WriteDelete
  <2>3. Owners' = [Owners EXCEPT ![m] = {}]
    <3>1. \A t \in Slots, k \in Meetings : HoldsMeeting(t, k)' <=> HoldsMeeting(t, k)
      BY <2>2 DEF slotVars, HoldsMeeting
    <3>2. \A k \in Meetings : Deleted(k)' <=> Deleted(k) \/ k = m
      BY <2>1, <2>2 DEF Deleted
    <3>3. \A k \in Meetings : {t \in Slots : Owns(t, k)'} =
              IF k = m THEN {} ELSE {t \in Slots : Owns(t, k)}
      BY <3>1, <3>2 DEF Owns
    <3> QED
      BY <2>1, <3>3 DEF Owners
  <2>4. Lifecycle!Discard(m)
    BY <2>1, <2>2, <2>3 DEF Lifecycle!Discard
  <2> QED
    BY <2>1, <2>4 DEF Lifecycle!Next
<1>4. ASSUME NEW s \in Slots, ClaimMeeting(s)
      PROVE  Lifecycle!Next \/ UNCHANGED <<status, Owners, turns>>
  <2>1. CASE status[job[s]] = "queued"
    BY <1>4, <2>1, LifecycleClaim DEF Lifecycle!Next
  <2>2. CASE status[job[s]] # "queued"
    <3>1. UNCHANGED <<status, turns>> /\ pc[s] = "selected" /\ Goto(s, "noMeeting", 0)
      BY <1>4, <2>2 DEF ClaimMeeting
    <3>2. Owners' = Owners
      BY <3>1, OwnersStay DEF Owns, Deleted, HoldsMeeting, Goto
    <3> QED
      BY <3>1, <3>2
  <2> QED
    BY <2>1, <2>2
<1>5. ASSUME NEW s \in Slots, LoadMeeting(s) PROVE UNCHANGED <<status, Owners, turns>>
  <2>1. status' = status /\ turns' = turns
    BY <1>5 DEF LoadMeeting, meetingVars
  <2>2. job[s] \in Meetings /\ HoldsMeeting(s, job[s])
    BY <1>5, BusySlot DEF LoadMeeting, HoldsMeeting
  <2>3. CASE Exists(job[s])
    BY <1>5, <2>1, <2>3, OwnersStay DEF LoadMeeting, Owns, Deleted, HoldsMeeting, Goto
  <2>4. CASE ~Exists(job[s])
    <3>1. Deleted(job[s])
      BY <2>2, <2>4 DEF JobsInv, SlotsOwn, Exists, MeetingStatuses
    <3>2. \A t \in Slots, m \in Meetings :
              HoldsMeeting(t, m)' <=> HoldsMeeting(t, m) /\ (t # s \/ m # job[s])
      BY <1>5, <2>4 DEF LoadMeeting, HoldsMeeting, Goto
    <3>3. \A t \in Slots, m \in Meetings : Owns(t, m)' <=> Owns(t, m)
      BY <2>1, <3>1, <3>2 DEF Owns, Deleted
    <3> QED
      BY <2>1, <3>3, OwnersStay
  <2> QED
    BY <2>3, <2>4
<1>6. ASSUME NEW s \in Slots, NEW t \in Transcripts, CompleteMeeting(s, t)
      PROVE  Lifecycle!Next
  <2>1. seen[s] = "processing"
    BY <1>6 DEF CompleteMeeting, JobsInv, SlotsKnow
  <2>2. /\ status' = [status EXCEPT ![job[s]] = "completed"]
        /\ turns' = [turns EXCEPT ![job[s]] = t]
        /\ pc[s] = "transcribing" /\ Release(s) /\ ~Deleted(job[s])
    BY <1>6, <2>1 DEF CompleteMeeting, Exists, Deleted, MeetingStatuses
  <2>3. /\ job[s] \in Meetings /\ status[job[s]] = "processing"
        /\ Owners[job[s]] = {s} /\ Owners' = [Owners EXCEPT ![job[s]] = {}]
    BY <2>2, LifecycleEnd
  <2>4. Lifecycle!Complete(job[s], s, t)
    BY <2>2, <2>3 DEF Lifecycle!Complete, Lifecycle!End, Lifecycle!Move
  <2> QED
    BY <2>3, <2>4 DEF Lifecycle!Next
<1>7. ASSUME NEW s \in Slots, FailMeeting(s)
      PROVE  Lifecycle!Next \/ UNCHANGED <<status, Owners, turns>>
  BY <1>7, LifecycleFail
<1>8. ASSUME NEW s \in Slots, SelectMeeting(s) \/ AnalysisStep(s)
      PROVE  UNCHANGED <<status, Owners, turns>>
  <2>1. \A t \in Slots, m \in Meetings : HoldsMeeting(t, m)' <=> HoldsMeeting(t, m)
    BY <1>8 DEF SelectMeeting, AnalysisStep, SelectAnalysis, ClaimAnalysis, LoadAnalysis,
                CompleteAnalysis, FailAnalysis, Release, Goto, HoldsMeeting
  <2>2. status' = status /\ turns' = turns
    BY <1>8 DEF meetingVars, SelectMeeting, AnalysisStep, SelectAnalysis,
       ClaimAnalysis, LoadAnalysis, CompleteAnalysis, FailAnalysis
  <2> QED
    BY <2>1, <2>2, OwnersStay DEF Owns, Deleted
<1>9. ASSUME NEW p \in Procs, RecoverMeetings(p) PROVE Lifecycle!Next
  <2>1. Owners' = Owners
    <3>1. \A k \in Meetings : Deleted(k)' <=> Deleted(k)
      BY <1>9 DEF RecoverMeetings, StaleMeetings, Deleted
    <3> QED
      BY <1>9, <3>1, OwnersStay, OwnsBy DEF RecoverMeetings, slotVars, HoldsMeeting
  <2>2. \A m \in StaleMeetings : status[m] = "processing" /\ Owners[m] = {}
    BY DEF StaleMeetings, Owners, Owns, JobsInv, SlotsOwn, Meetings
  <2>3. Lifecycle!Recover(StaleMeetings)
    BY <1>9, <2>1, <2>2 DEF RecoverMeetings, Lifecycle!Recover
  <2>4. StaleMeetings \in SUBSET Meetings
    BY DEF StaleMeetings
  <2> QED
    BY <2>3, <2>4 DEF Lifecycle!Next
<1>10. ASSUME NEW p \in Procs, Crash(p) PROVE Lifecycle!Next
  <2> DEFINE W == {s \in Slots : ProcOf[s] = p}
  <2>1. \A s \in Slots, m \in Meetings : HoldsMeeting(s, m)' <=> HoldsMeeting(s, m) /\ s \notin W
    BY <1>10 DEF Crash, HoldsMeeting
  <2>2. status' = status /\ turns' = turns
    BY <1>10 DEF Crash, meetingVars
  <2>3. Owners' = [m \in Meetings |-> Owners[m] \ W]
    BY <2>1, <2>2 DEF Owners, Owns, Deleted
  <2>4. Lifecycle!Die(W)
    BY <2>2, <2>3 DEF Lifecycle!Die
  <2> QED
    BY <2>4 DEF Lifecycle!Next
<1>11. ASSUME UNCHANGED <<status, turns, pc, job>> PROVE UNCHANGED <<status, Owners, turns>>
  BY <1>11, OwnersStay DEF Owns, Deleted, HoldsMeeting
<1> QED
  BY <1>1, <1>2, <1>3, <1>4, <1>5, <1>6, <1>7, <1>8, <1>9, <1>10, <1>11
     DEF Next, vars, meetingVars, slotVars, Handler, ReadProcess, ReadAnalyze, ReadDelete,
         Decide, WriteInsert, WriteRequeue, SlotStep, MeetingStep, ProcStep, Start,
         RecoverAnalyses, Tick

\* The queue of meetings, its claims, results, crashes and recoveries, is the
\* abstract lifecycle: one owner per job, results only from the owner, back to
\* the queue only without an owner.
THEOREM LifecycleTheorem ==
    ASSUME SafeRegime
    PROVE  Spec => ImplementsLifecycle
<1>1. TypeOK /\ JobsInv /\ [Next]_vars => [Lifecycle!Next]_<<status, Owners, turns>>
  BY LifecycleStep
<1> QED
  BY <1>1, LifecycleInit, JobsTheorem, TypeCorrect, PTL
     DEF Spec, ImplementsLifecycle, Lifecycle!Spec
==============================================================================
