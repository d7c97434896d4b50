----------------------------- MODULE MeetingJobs -----------------------------
(***************************************************************************)
(* The shared job queue of the backend: the `meetings` and                 *)
(* `meeting_analyses` tables, the HTTP handlers that queue and delete      *)
(* work, and the worker processes that claim it, run it and store results. *)
(*                                                                         *)
(* A handler or worker reads with autocommitted SELECTs and writes later   *)
(* by primary key, so every read and every committed write is an action of *)
(* its own and anything may happen in between.                             *)
(*   - `processing_started_at` is kept as its age, capped just above the   *)
(*     lease, and only while the row is `processing`: the next claim       *)
(*     overwrites it before anything reads it again.                       *)
(*   - A refused request (early return, 4xx, 503) changes nothing and is   *)
(*     no step: the guards of the Read actions are the handlers' checks.   *)
(***************************************************************************)
EXTENDS Naturals, FiniteSets, Sequences

CONSTANTS
    NumMeetings,       \* meetings are 1..NumMeetings, in order of created_at
    Slots,             \* worker slots (coroutines running _worker_slot)
    Procs,             \* worker processes
    ProcOf,            \* the process a slot belongs to
    Requests,          \* concurrent request handlers of the API process
    Transcripts,       \* what transcribing a recording can yield
    NoTurns,           \* no transcript rows: also the result when no word is heard
    NoInput,           \* the input of an analysis that may not go on
    Lease,             \* worker_lease_seconds, in ticks
    JobsOutliveLease,  \* may a running job be older than the lease?
    RequestsOverlap    \* may two handlers queue work for one meeting at a time?

Meetings == 1 .. NumMeetings

ASSUME JobsAssumption ==
    /\ NumMeetings \in Nat
    /\ Lease \in Nat
    /\ ProcOf \in [Slots -> Procs]
    /\ NoInput \notin Transcripts \cup {NoTurns}
    /\ JobsOutliveLease \in BOOLEAN
    /\ RequestsOverlap \in BOOLEAN

VARIABLES
    status,    \* meetings.status, "none" before and "deleted" after the row
    age,       \* time since meetings.processing_started_at
    turns,     \* the transcript_turns rows of a meeting, as one value
    anStatus,  \* meeting_analyses.status, "absent" when there is no row
    anAge,     \* time since meeting_analyses.processing_started_at
    basis,     \* the transcript the stored analysis refers to
    anOrder,   \* the analyses ever inserted, in order of created_at
    proc,      \* the life of a worker process
    pc,        \* where a slot is in run_once
    job,       \* the meeting a slot works for, 0 when none
    seen,      \* the status in the row object a slot has loaded
    input,     \* the transcript an analysis has been given, or NoInput
    req        \* what a handler has decided to write

meetingVars  == <<status, age, turns>>
analysisVars == <<anStatus, anAge, basis, anOrder>>
slotVars     == <<pc, job, seen, input>>
vars == <<meetingVars, analysisVars, proc, slotVars, req>>

MeetingStatuses  == {"uploaded", "queued", "processing", "completed", "failed"}
AnalysisStatuses == {"queued", "processing", "completed", "failed"}
Operations       == {"process", "insert", "requeue", "delete"}

Exists(m)      == status[m] \in MeetingStatuses
Deleted(m)     == status[m] = "deleted"
HasAnalysis(m) == anStatus[m] # "absent"
NoRequest      == [op |-> "none", meeting |-> 0]

\* A slot between the commit of its claim and the end of the job.
HoldsMeeting(s, m)  == pc[s] \in {"claimed", "transcribing"} /\ job[s] = m
HoldsAnalysis(s, m) == pc[s] \in {"claimedAnalysis", "analyzing"} /\ job[s] = m

Init ==
    /\ status = [m \in Meetings |-> "none"]
    /\ age = [m \in Meetings |-> 0]
    /\ turns = [m \in Meetings |-> NoTurns]
    /\ anStatus = [m \in Meetings |-> "absent"]
    /\ anAge = [m \in Meetings |-> 0]
    /\ basis = [m \in Meetings |-> NoTurns]
    /\ anOrder = <<>>
    /\ proc = [p \in Procs |-> "down"]
    /\ pc = [s \in Slots |-> "idle"]
    /\ job = [s \in Slots |-> 0]
    /\ seen = [s \in Slots |-> "none"]
    /\ input = [s \in Slots |-> NoInput]
    /\ req = [r \in Requests |-> NoRequest]

-----------------------------------------------------------------------------
(* The API process.                                                        *)

\* create_recording: the row is inserted once the audio has been converted.
CreateRecording(m) ==
    /\ status[m] = "none"
    /\ \A k \in Meetings : k < m => status[k] # "none"
    /\ status' = [status EXCEPT ![m] = "uploaded"]
    /\ UNCHANGED <<age, turns, analysisVars, proc, slotVars, req>>

\* A deletion overlaps with whatever else goes on.
MayStart(r, m) ==
    /\ req[r] = NoRequest
    /\ RequestsOverlap \/ \A q \in Requests : req[q].meeting = m => req[q].op = "delete"

Decide(r, m, op) ==
    /\ req' = [req EXCEPT ![r] = [op |-> op, meeting |-> m]]
    /\ UNCHANGED <<meetingVars, analysisVars, proc, slotVars>>

\* Fault: the early return forgets completed meetings.
ProcessableAgain(m) == status[m] \in {"uploaded", "completed", "failed"}

\* queue_processing returns completed, processing and queued meetings unchanged.
Processable(m) == status[m] \in {"uploaded", "failed"}

\* delete_meeting refuses while the transcript or the analysis is in flight.
Deletable(m) ==
    /\ status[m] \in {"uploaded", "completed", "failed"}
    /\ anStatus[m] \notin {"queued", "processing"}

ReadProcess(r, m) ==
    /\ MayStart(r, m)
    /\ Processable(m)
    /\ Decide(r, m, "process")

\* queue_analysis: the first request inserts the row, a refresh of a finished
\* analysis or the retry of a failed one queues it again.
ReadAnalyze(r, m) ==
    /\ MayStart(r, m)
    /\ status[m] = "completed"
    /\ \/ anStatus[m] = "absent" /\ Decide(r, m, "insert")
       \/ anStatus[m] \in {"completed", "failed"} /\ Decide(r, m, "requeue")

ReadDelete(r, m) ==
    /\ req[r] = NoRequest
    /\ Deletable(m)
    /\ Decide(r, m, "delete")

\* UPDATE ... WHERE id = ?: whatever the status is by now. A row that has gone
\* makes the statement match nothing and the request fail.
WriteProcess(r) ==
    LET m == req[r].meeting IN
    /\ req[r].op = "process"
    /\ status' = [status EXCEPT ![m] = IF Exists(m) THEN "queued" ELSE @]
    /\ age' = [age EXCEPT ![m] = 0]
    /\ req' = [req EXCEPT ![r] = NoRequest]
    /\ UNCHANGED <<turns, analysisVars, proc, slotVars>>

\* The foreign key and the unique meeting_id refuse every other insert.
WriteInsert(r) ==
    LET m == req[r].meeting
        inserted == Exists(m) /\ ~HasAnalysis(m)
    IN
    /\ req[r].op = "insert"
    /\ anStatus' = [anStatus EXCEPT ![m] = IF inserted THEN "queued" ELSE @]
    /\ anOrder' = IF inserted THEN Append(anOrder, m) ELSE anOrder
    /\ req' = [req EXCEPT ![r] = NoRequest]
    /\ UNCHANGED <<meetingVars, anAge, basis, proc, slotVars>>

WriteRequeue(r) ==
    LET m == req[r].meeting IN
    /\ req[r].op = "requeue"
    /\ anStatus' = [anStatus EXCEPT ![m] = IF HasAnalysis(m) THEN "queued" ELSE @]
    /\ anAge' = [anAge EXCEPT ![m] = 0]
    /\ req' = [req EXCEPT ![r] = NoRequest]
    /\ UNCHANGED <<meetingVars, basis, anOrder, proc, slotVars>>

\* One transaction removes the meeting with its turns and its analysis.
WriteDelete(r) ==
    LET m == req[r].meeting IN
    /\ req[r].op = "delete"
    /\ status' = [status EXCEPT ![m] = "deleted"]
    /\ age' = [age EXCEPT ![m] = 0]
    /\ turns' = [turns EXCEPT ![m] = NoTurns]
    /\ anStatus' = [anStatus EXCEPT ![m] = "absent"]
    /\ anAge' = [anAge EXCEPT ![m] = 0]
    /\ basis' = [basis EXCEPT ![m] = NoTurns]
    /\ req' = [req EXCEPT ![r] = NoRequest]
    /\ UNCHANGED <<anOrder, proc, slotVars>>

Handler(r) ==
    \/ \E m \in Meetings : ReadProcess(r, m) \/ ReadAnalyze(r, m) \/ ReadDelete(r, m)
    \/ WriteProcess(r) \/ WriteInsert(r) \/ WriteRequeue(r) \/ WriteDelete(r)

-----------------------------------------------------------------------------
(* A slot of a worker process: run_once.                                   *)

Running(s) == proc[ProcOf[s]] = "up"

Goto(s, place, m) ==
    /\ pc' = [pc EXCEPT ![s] = place]
    /\ job' = [job EXCEPT ![s] = m]

Release(s) ==
    /\ Goto(s, "idle", 0)
    /\ seen' = [seen EXCEPT ![s] = "none"]
    /\ input' = [input EXCEPT ![s] = NoInput]

Queued == {m \in Meetings : status[m] = "queued"}

\* claim_next_meeting, the SELECT.
SelectMeeting(s) ==
    /\ Running(s)
    /\ pc[s] = "idle"
    /\ \/ \E m \in Queued : (\A k \in Queued : m <= k) /\ Goto(s, "selected", m)
       \/ Queued = {} /\ Goto(s, "noMeeting", 0)
    /\ UNCHANGED <<meetingVars, analysisVars, proc, seen, input, req>>

\* Fault: the UPDATE does not look at the status again.
ClaimUnguarded(s) ==
    LET m == job[s] IN
    /\ Running(s)
    /\ pc[s] = "selected"
    /\ \/ /\ status[m] # "none"
          /\ status' = [status EXCEPT ![m] = "processing"]
          /\ age' = [age EXCEPT ![m] = 0]
          /\ Goto(s, "claimed", m)
       \/ /\ status[m] = "none"
          /\ Goto(s, "noMeeting", 0)
          /\ UNCHANGED <<status, age>>
    /\ UNCHANGED <<turns, analysisVars, proc, seen, input, req>>

\* claim_next_meeting, the guarded UPDATE: the loser of a race gets None and
\* run_once goes on to the analyses.
ClaimMeeting(s) ==
    LET m == job[s] IN
    /\ Running(s)
    /\ pc[s] = "selected"
    /\ \/ /\ status[m] = "queued"
          /\ status' = [status EXCEPT ![m] = "processing"]
          /\ age' = [age EXCEPT ![m] = 0]
          /\ Goto(s, "claimed", m)
       \/ /\ status[m] # "queued"
          /\ Goto(s, "noMeeting", 0)
          /\ UNCHANGED <<status, age>>
    /\ UNCHANGED <<turns, analysisVars, proc, seen, input, req>>

\* session.get after the claim, and the reads process_meeting starts with.
LoadMeeting(s) ==
    LET m == job[s] IN
    /\ Running(s)
    /\ pc[s] = "claimed"
    /\ \/ /\ Exists(m)
          /\ Goto(s, "transcribing", m)
          /\ seen' = [seen EXCEPT ![s] = status[m]]
       \/ /\ ~Exists(m)
          /\ Goto(s, "noMeeting", 0)
          /\ UNCHANGED seen
    /\ UNCHANGED <<meetingVars, analysisVars, proc, input, req>>

\* process_meeting stores a transcript, which is empty when the local provider has
\* heard no word: old turns out, new turns in, completed.
\* The ORM writes only changed attributes, so a row that was already loaded as
\* completed keeps whatever status it has.
CompleteMeeting(s, t) ==
    LET m == job[s]
        stored == IF seen[s] = "completed" THEN status[m] ELSE "completed"
    IN
    /\ Running(s)
    /\ pc[s] = "transcribing"
    /\ Exists(m)
    /\ turns' = [turns EXCEPT ![m] = t]
    /\ status' = [status EXCEPT ![m] = stored]
    /\ age' = [age EXCEPT ![m] = IF stored = "processing" THEN @ ELSE 0]
    /\ Release(s)
    /\ UNCHANGED <<analysisVars, proc, req>>

\* Fault: the row that failed is merged into the session, not looked up again.
FailAnyway(s) ==
    LET m == job[s] IN
    /\ Running(s)
    /\ pc[s] = "transcribing"
    /\ turns' = [turns EXCEPT ![m] = NoTurns]
    /\ status' = [status EXCEPT ![m] = "failed"]
    /\ age' = [age EXCEPT ![m] = 0]
    /\ Release(s)
    /\ UNCHANGED <<analysisVars, proc, req>>

\* process_meeting's except branch, for a failure anywhere in it: partial turns
\* out, failed. Nothing is left to write when the row has been deleted.
FailMeeting(s) ==
    LET m == job[s] IN
    /\ Running(s)
    /\ pc[s] = "transcribing"
    /\ turns' = [turns EXCEPT ![m] = NoTurns]
    /\ status' = [status EXCEPT ![m] = IF Exists(m) THEN "failed" ELSE @]
    /\ age' = [age EXCEPT ![m] = 0]
    /\ Release(s)
    /\ UNCHANGED <<analysisVars, proc, req>>

QueuedAnalyses == {i \in 1 .. Len(anOrder) : anStatus[anOrder[i]] = "queued"}

\* Fault: the slot keeps polling for analyses once it has turned to them.
SelectAnalysisForever(s) ==
    /\ Running(s)
    /\ pc[s] = "noMeeting"
    /\ \E i \in QueuedAnalyses :
          (\A k \in QueuedAnalyses : i <= k) /\ Goto(s, "selectedAnalysis", anOrder[i])
    /\ UNCHANGED <<meetingVars, analysisVars, proc, seen, input, req>>

\* claim_next_analysis, the SELECT; with nothing to do the slot sleeps and polls.
SelectAnalysis(s) ==
    /\ Running(s)
    /\ pc[s] = "noMeeting"
    /\ \/ \E i \in QueuedAnalyses :
             (\A k \in QueuedAnalyses : i <= k) /\ Goto(s, "selectedAnalysis", anOrder[i])
       \/ QueuedAnalyses = {} /\ Goto(s, "idle", 0)
    /\ UNCHANGED <<meetingVars, analysisVars, proc, seen, input, req>>

ClaimAnalysis(s) ==
    LET m == job[s] IN
    /\ Running(s)
    /\ pc[s] = "selectedAnalysis"
    /\ \/ /\ anStatus[m] = "queued"
          /\ anStatus' = [anStatus EXCEPT ![m] = "processing"]
          /\ anAge' = [anAge EXCEPT ![m] = 0]
          /\ Goto(s, "claimedAnalysis", m)
       \/ /\ anStatus[m] # "queued"
          /\ Goto(s, "idle", 0)
          /\ UNCHANGED <<anStatus, anAge>>
    /\ UNCHANGED <<meetingVars, basis, anOrder, proc, seen, input, req>>

\* session.get after the claim, and the reads process_analysis starts with: the
\* meeting must be completed, and its turns go into the prompt.
LoadAnalysis(s) ==
    LET m == job[s] IN
    /\ Running(s)
    /\ pc[s] = "claimedAnalysis"
    /\ \/ /\ HasAnalysis(m)
          /\ Goto(s, "analyzing", m)
          /\ seen' = [seen EXCEPT ![s] = anStatus[m]]
          /\ input' = [input EXCEPT ![s] = IF status[m] = "completed" THEN turns[m] ELSE NoInput]
       \/ /\ ~HasAnalysis(m)
          /\ Goto(s, "idle", 0)
          /\ UNCHANGED <<seen, input>>
    /\ UNCHANGED <<meetingVars, analysisVars, proc, req>>

CompleteAnalysis(s) ==
    LET m == job[s]
        stored == IF seen[s] = "completed" THEN anStatus[m] ELSE "completed"
    IN
    /\ Running(s)
    /\ pc[s] = "analyzing"
    /\ input[s] # NoInput
    /\ HasAnalysis(m)
    /\ anStatus' = [anStatus EXCEPT ![m] = stored]
    /\ anAge' = [anAge EXCEPT ![m] = IF stored = "processing" THEN @ ELSE 0]
    /\ basis' = [basis EXCEPT ![m] = input[s]]
    /\ Release(s)
    /\ UNCHANGED <<meetingVars, anOrder, proc, req>>

\* A failed analysis keeps the summary of an earlier success.
FailAnalysis(s) ==
    LET m == job[s] IN
    /\ Running(s)
    /\ pc[s] = "analyzing"
    /\ anStatus' = [anStatus EXCEPT ![m] = IF HasAnalysis(m) THEN "failed" ELSE @]
    /\ anAge' = [anAge EXCEPT ![m] = 0]
    /\ Release(s)
    /\ UNCHANGED <<meetingVars, basis, anOrder, proc, req>>

MeetingStep(s) ==
    \/ SelectMeeting(s) \/ ClaimMeeting(s) \/ LoadMeeting(s)
    \/ (\E t \in Transcripts : CompleteMeeting(s, t)) \/ FailMeeting(s)

AnalysisStep(s) ==
    \/ SelectAnalysis(s) \/ ClaimAnalysis(s) \/ LoadAnalysis(s)
    \/ CompleteAnalysis(s) \/ FailAnalysis(s)

SlotStep(s) == MeetingStep(s) \/ AnalysisStep(s)

-----------------------------------------------------------------------------
(* Worker processes and time.                                              *)

Start(p) ==
    /\ proc[p] = "down"
    /\ proc' = [proc EXCEPT ![p] = "starting"]
    /\ UNCHANGED <<meetingVars, analysisVars, slotVars, req>>

\* Faults: every processing row is requeued at start; the cutoff is compared the
\* wrong way round.
AllProcessing == {m \in Meetings : status[m] = "processing"}
FreshMeetings == {m \in Meetings : status[m] = "processing" /\ age[m] < Lease}

StaleMeetings == {m \in Meetings : status[m] = "processing" /\ age[m] > Lease}
StaleAnalyses == {m \in Meetings : anStatus[m] = "processing" /\ anAge[m] > Lease}

\* recover_stale_jobs runs once, before the slots start, in two transactions.
RecoverMeetings(p) ==
    /\ proc[p] = "starting"
    /\ status' = [m \in Meetings |-> IF m \in StaleMeetings THEN "queued" ELSE status[m]]
    /\ age' = [m \in Meetings |-> IF m \in StaleMeetings THEN 0 ELSE age[m]]
    /\ proc' = [proc EXCEPT ![p] = "recovering"]
    /\ UNCHANGED <<turns, analysisVars, slotVars, req>>

RecoverAnalyses(p) ==
    /\ proc[p] = "recovering"
    /\ anStatus' = [m \in Meetings |-> IF m \in StaleAnalyses THEN "queued" ELSE anStatus[m]]
    /\ anAge' = [m \in Meetings |-> IF m \in StaleAnalyses THEN 0 ELSE anAge[m]]
    /\ proc' = [proc EXCEPT ![p] = "up"]
    /\ UNCHANGED <<meetingVars, basis, anOrder, slotVars, req>>

\* The process dies; what its slots had not committed is lost.
Crash(p) ==
    /\ proc[p] # "down"
    /\ proc' = [proc EXCEPT ![p] = "down"]
    /\ pc' = [s \in Slots |-> IF ProcOf[s] = p THEN "idle" ELSE pc[s]]
    /\ job' = [s \in Slots |-> IF ProcOf[s] = p THEN 0 ELSE job[s]]
    /\ seen' = [s \in Slots |-> IF ProcOf[s] = p THEN "none" ELSE seen[s]]
    /\ input' = [s \in Slots |-> IF ProcOf[s] = p THEN NoInput ELSE input[s]]
    /\ UNCHANGED <<meetingVars, analysisVars, req>>

ProcStep(p) == Start(p) \/ RecoverMeetings(p) \/ RecoverAnalyses(p)

Older(a) == IF a > Lease THEN a ELSE a + 1

\* Unless jobs outlive their lease, a job ends before its row gets stale.
Tick ==
    /\ JobsOutliveLease \/ \A s \in Slots : \A m \in Meetings :
          /\ HoldsMeeting(s, m) => age[m] < Lease
          /\ HoldsAnalysis(s, m) => anAge[m] < Lease
    /\ age' = [m \in Meetings |-> IF status[m] = "processing" THEN Older(age[m]) ELSE age[m]]
    /\ anAge' = [m \in Meetings |->
                    IF anStatus[m] = "processing" THEN Older(anAge[m]) ELSE anAge[m]]
    /\ UNCHANGED <<status, turns, anStatus, basis, anOrder, proc, slotVars, req>>

Next ==
    \/ \E m \in Meetings : CreateRecording(m)
    \/ \E r \in Requests : Handler(r)
    \/ \E s \in Slots : SlotStep(s)
    \/ \E p \in Procs : ProcStep(p) \/ Crash(p)
    \/ Tick

Spec == Init /\ [][Next]_vars

\* A running process keeps executing its slots, a started process finishes its
\* start-up, time passes; requests and crashes owe nothing.
Fairness ==
    /\ \A s \in Slots : WF_vars(SlotStep(s))
    /\ \A p \in Procs : WF_vars(ProcStep(p))
    /\ WF_vars(Tick)

FairSpec == Spec /\ Fairness

-----------------------------------------------------------------------------
(* Types.                                                                  *)

Places == {"idle", "selected", "claimed", "transcribing", "noMeeting",
           "selectedAnalysis", "claimedAnalysis", "analyzing"}

MeetingsTyped ==
    /\ status \in [Meetings -> MeetingStatuses \cup {"none", "deleted"}]
    /\ age \in [Meetings -> 0 .. Lease + 1]
    /\ turns \in [Meetings -> Transcripts \cup {NoTurns}]

AnalysesTyped ==
    /\ anStatus \in [Meetings -> AnalysisStatuses \cup {"absent"}]
    /\ anAge \in [Meetings -> 0 .. Lease + 1]
    /\ basis \in [Meetings -> Transcripts \cup {NoTurns}]
    /\ anOrder \in Seq(Meetings)

SlotsTyped ==
    /\ pc \in [Slots -> Places]
    /\ job \in [Slots -> 0 .. NumMeetings]
    /\ \A s \in Slots : pc[s] \notin {"idle", "noMeeting"} => job[s] \in Meetings
    /\ seen \in [Slots -> MeetingStatuses \cup {"none"}]
    /\ input \in [Slots -> Transcripts \cup {NoTurns, NoInput}]

RequestsTyped ==
    req \in [Requests -> [op : Operations, meeting : Meetings] \cup {NoRequest}]

ProcsTyped == proc \in [Procs -> {"down", "starting", "recovering", "up"}]

\* Every variable has its type, and a slot that is past the SELECT of a claim
\* works for a meeting (app.models statuses, run_once).
TypeOK ==
    MeetingsTyped /\ AnalysesTyped /\ SlotsTyped /\ RequestsTyped /\ ProcsTyped

-----------------------------------------------------------------------------
(* What holds however requests overlap and however long a job runs.        *)

\* "So no worker writes into a deleted row" (delete_meeting): deletion takes the turns
\* and the analysis along and is final. The refusals of the handler do not ensure it:
\* a worker or another handler may have decided to write before the deletion commits.
\* It holds because their inserts and updates then find no row to refer to
\* (process_meeting, process_analysis, queue_processing, queue_analysis).
NothingOutlivesDelete ==
    [][\A m \in Meetings :
          /\ status[m] = "deleted" => status'[m] = "deleted"
          /\ status'[m] = "deleted" => turns'[m] = NoTurns /\ anStatus'[m] = "absent"]_vars

-----------------------------------------------------------------------------
(* What holds when two handlers do not queue work for one meeting at a time *)
(* and every job ends within its lease; deletions may come at any time.     *)

SafeRegime == ~JobsOutliveLease /\ ~RequestsOverlap

\* "No duplicate work is created" (queue_processing), "a meeting another worker is
\* actively processing is never stolen" (requeue_stale_meetings): at most one slot
\* works for a meeting and at most one for its analysis. Either assumption is needed.
OneWorkerPerJob ==
    \A m \in Meetings : \A s, t \in Slots :
        /\ HoldsMeeting(s, m) /\ HoldsMeeting(t, m) => s = t
        /\ HoldsAnalysis(s, m) /\ HoldsAnalysis(t, m) => s = t

\* A completed analysis refers to the transcript the meeting has now, so the
\* ordinals it stores resolve to the turns it was made from (_analysis_response).
AnalysisMatchesTranscript ==
    \A m \in Meetings : anStatus[m] = "completed" => basis[m] = turns[m]

\* Once a meeting is completed its transcript never changes and its status never
\* goes back; the only way out is deletion (queue_processing's early return,
\* the claims and the lease together).
TranscriptIsFinal ==
    [][\A m \in Meetings : status[m] = "completed" =>
          status'[m] = "deleted" \/ (status'[m] = "completed" /\ turns'[m] = turns[m])]_vars

\* A slot goes on with a meeting that has been deleted, but owns nothing any more.
Owns(s, m) == HoldsMeeting(s, m) /\ ~Deleted(m)
Owners     == [m \in Meetings |-> {s \in Slots : Owns(s, m)}]

\* The transcription queue is the job lifecycle of JobLifecycle, a slot owning
\* the meeting between its claim and its result.
Lifecycle == INSTANCE JobLifecycle WITH
    Jobs <- Meetings, Workers <- Slots, Results <- Transcripts, NoResult <- NoTurns,
    state <- status, result <- turns, owners <- Owners

\* Every step of the queue is a step its abstract lifecycle allows, or leaves it
\* alone.
ImplementsLifecycle == Lifecycle!Spec

-----------------------------------------------------------------------------
(* The inductive invariants behind these.                                  *)

\* Turns and analyses belong to a meeting that is there, in any regime.
RowsHaveMeeting ==
    \A m \in Meetings : ~Exists(m) => turns[m] = NoTurns /\ ~HasAnalysis(m)

SlotsOwn ==
    \A s \in Slots : \A m \in Meetings : ~Deleted(m) =>
        /\ HoldsMeeting(s, m) => status[m] = "processing" /\ age[m] <= Lease
        /\ HoldsAnalysis(s, m) => anStatus[m] = "processing" /\ anAge[m] <= Lease

SlotsKnow ==
    \A s \in Slots :
        /\ pc[s] \in {"transcribing", "analyzing"} => seen[s] = "processing"
        /\ pc[s] = "analyzing" /\ ~Deleted(job[s]) => input[s] = turns[job[s]]

AnalysesGrounded ==
    \A m \in Meetings :
        /\ HasAnalysis(m) => status[m] = "completed"
        /\ anStatus[m] = "completed" => basis[m] = turns[m]

\* What the handler of a decided write has checked still holds, unless the meeting
\* has been deleted in the meantime; a deletion counts on nothing.
StillValid(op, m) ==
    /\ status[m] # "none"
    /\ ~Deleted(m) =>
        /\ op = "process" => Processable(m)
        /\ op = "insert" => status[m] = "completed" /\ ~HasAnalysis(m)
        /\ op = "requeue" => anStatus[m] \in {"completed", "failed"}

HandlersKnow ==
    \A r \in Requests : req[r].op # "none" => StillValid(req[r].op, req[r].meeting)

HandlersApart ==
    \A r, q \in Requests :
        /\ {req[r].op, req[q].op} \cap {"none", "delete"} = {}
        /\ req[q].meeting = req[r].meeting
        => q = r

\* In the safe regime whoever has decided to change a row, a slot by its claim
\* or a handler by its read, still finds the row as it was when it decided, or
\* finds it deleted; and no two slots, no two handlers that queue work are at the
\* same row (claims, lease, handlers).
JobsInv ==
    /\ RowsHaveMeeting
    /\ OneWorkerPerJob
    /\ SlotsOwn
    /\ SlotsKnow
    /\ AnalysesGrounded
    /\ HandlersKnow
    /\ HandlersApart

-----------------------------------------------------------------------------
(* Liveness.                                                               *)

Finished(m) == status[m] \in {"completed", "failed", "deleted"}

\* The owner of the claim is gone.
Orphaned(m) == status[m] = "processing" /\ \A s \in Slots : ~HoldsMeeting(s, m)

Quiet  == \A r \in Requests : req[r] = NoRequest
AllUp  == \A p \in Procs : proc[p] = "up"
Steady == <>[](Quiet /\ AllUp)

\* Once requests and crashes have stopped, no queued job waits for ever: a meeting is
\* finished, or was claimed by a worker that then died (the oldest-first claim, which
\* gives transcription priority), and an analysis is run when no meeting is queued.
QueuedWorkRuns ==
    Steady => \A m \in Meetings :
        /\ status[m] = "queued" ~> (Finished(m) \/ Orphaned(m))
        /\ anStatus[m] = "queued" ~> (anStatus[m] # "queued" \/ status[m] = "deleted")

\* A job whose owner died is put back into the queue by a worker that starts
\* when its lease is over, even if that worker dies on the way (recover_stale_jobs).
ExpiredJobsRecovered ==
    Steady => \A m \in Meetings :
        (Orphaned(m) /\ age[m] > Lease /\ \E p \in Procs : proc[p] = "starting")
            ~> ~Orphaned(m)
==============================================================================
