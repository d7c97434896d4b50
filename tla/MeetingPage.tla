----------------------------- MODULE MeetingPage -----------------------------
(***************************************************************************)
(* The page of a meeting (components/meeting-detail.tsx): the first load,  *)
(* the polls while work is under way, and the buttons that start it.       *)
(*                                                                         *)
(* A setter of React changes what is shown only with the next rendering,   *)
(* which also cleans up the effects that depend on it and sets them up     *)
(* again: `stale` is a meeting that has been set and not rendered yet. The *)
(* names, the chat and the capabilities are loaded beside this and stop    *)
(* nothing; they are left out.                                             *)
(***************************************************************************)
EXTENDS MeetingApi

CONSTANT MaxRefreshes    \* bound on the refreshes of an analysis

\* meeting    the meeting the page is about, 0 when no page is open
\* load       the request the first load waits for; "done", or "error" for loadError
\* shown      meeting.status, "none" before the first answer
\* transcript is the transcript there?
\* analysis   analysis.status
\* auto       autoAnalyzeRef
\* chain      the processing poll: where it is, and whether its effect still stands
\* apoll      the analysis poll
\* post       the process request: from which button; "then" when it goes on to analyse
\* ask        the analysis request
\* missed     history: an answer has not reached the page
\* started    history: the run was started with the button of this page
VARIABLES page, refreshes

pageVars == <<page, refreshes>>

NoChain == [at |-> "off", stands |-> FALSE]
Blank(m) ==
    [meeting |-> m, load |-> "meeting", shown |-> "none", stale |-> FALSE,
     transcript |-> FALSE, analysis |-> "none", auto |-> FALSE, chain |-> NoChain,
     apoll |-> "off", post |-> "none", ask |-> "none", missed |-> FALSE, started |-> FALSE]

NoPage == page = Blank(0) /\ refreshes = 0

\* The page of a meeting whose work is in any state; only a transcript is analysed.
PageInit ==
    /\ page = Blank(1) /\ refreshes = 0
    /\ row \in [Takes -> Statuses]
    /\ analysisRow \in [Takes -> AnalysisStatuses]
    /\ \A m \in Takes : /\ row[m] = "none" <=> m # 1
                        /\ row[m] # "completed" => analysisRow[m] = "none"
    /\ faults = 0

Mine == page.meeting

\* setMeeting: the effects follow with the next rendering.
Set(p, s) == [p EXCEPT !.shown = s, !.stale = TRUE]

\* setAnalysis: its effect has one timer while the analysis is in flight.
SetAnalysis(p, s) ==
    [p EXCEPT !.analysis = s, !.apoll = IF s \in InFlight THEN "timer" ELSE "off"]

Only(p) == page' = p /\ UNCHANGED <<row, analysisRow, refreshes, faults>>

-----------------------------------------------------------------------------
(* The first load: the meeting, the transcript of a completed one, the analysis. *)

MeetingLoads ==
    /\ Mine # 0 /\ page.load = "meeting"
    /\ Only([Set(page, row[Mine]) EXCEPT
               !.load = IF row[Mine] = "completed" THEN "transcript" ELSE "analysis"])

TranscriptLoads ==
    /\ page.load = "transcript"
    /\ Only([page EXCEPT !.transcript = TRUE, !.load = "analysis"])

AnalysisLoads ==
    /\ page.load = "analysis"
    /\ Only([SetAnalysis(page, analysisRow[Mine]) EXCEPT !.load = "done"])

\* Without its meeting or its transcript the page is an error, without its analysis not.
LoadFails ==
    /\ Mine # 0 /\ page.load \in {"meeting", "transcript", "analysis"}
    /\ Fault
    /\ page' = [page EXCEPT !.load = IF @ = "analysis" THEN "done" ELSE "error",
                            !.missed = TRUE]
    /\ UNCHANGED <<row, analysisRow, refreshes>>

Load == MeetingLoads \/ TranscriptLoads \/ AnalysisLoads \/ LoadFails

-----------------------------------------------------------------------------
(* The polls.                                                               *)

\* Fault: a meeting that is being processed is not polled.
PollsQueuedOnly(p) == IF p.shown = "queued" THEN [at |-> "timer", stands |-> TRUE] ELSE NoChain

\* The effect of the processing poll: it is cleaned up, and there is a timer while the
\* meeting is in flight. A poll that reads the transcript goes on without it.
SetUp(p) ==
    IF p.shown \in InFlight THEN [at |-> "timer", stands |-> TRUE]
    ELSE IF p.chain.at = "reading" THEN [at |-> "reading", stands |-> FALSE]
    ELSE NoChain

Render ==
    /\ page.stale
    /\ Only([page EXCEPT !.stale = FALSE, !.chain = SetUp(page)])

PollDue ==
    /\ page.chain.at = "timer"
    /\ Only([page EXCEPT !.chain.at = "asked"])

\* The answer is set; of a completed meeting the transcript is read at once.
PollShows ==
    /\ page.chain.at = "asked"
    /\ Only([Set(page, row[Mine]) EXCEPT
               !.chain = IF row[Mine] = "completed" THEN [@ EXCEPT !.at = "reading"]
                         ELSE NoChain])

\* The catch keeps everything as it is, and with it the effect: there is no next poll.
PollMissed ==
    /\ page.chain.at \in {"asked", "reading"}
    /\ Fault
    /\ page' = [page EXCEPT !.chain = NoChain, !.missed = TRUE]
    /\ UNCHANGED <<row, analysisRow, refreshes>>

\* The transcript is there. What follows is for an effect that still stands; the ref
\* is cleared in any case.
TranscriptRead ==
    /\ page.chain.at = "reading"
    /\ Only([page EXCEPT !.chain = NoChain,
                         !.transcript = @ \/ page.chain.stands,
                         !.auto = FALSE,
                         !.ask = IF page.auto /\ page.chain.stands THEN "queue" ELSE @])

AnalysisDue ==
    /\ page.apoll = "timer"
    /\ Only([page EXCEPT !.apoll = "asked"])

AnalysisShows ==
    /\ page.apoll = "asked"
    /\ Only(SetAnalysis(page, analysisRow[Mine]))

AnalysisMissed ==
    /\ page.apoll = "asked"
    /\ Fault
    /\ page' = [page EXCEPT !.apoll = "off", !.missed = TRUE]
    /\ UNCHANGED <<row, analysisRow, refreshes>>

Polls ==
    PollDue \/ PollShows \/ PollMissed \/ TranscriptRead
    \/ AnalysisDue \/ AnalysisShows \/ AnalysisMissed

-----------------------------------------------------------------------------
(* The buttons.                                                             *)

Loaded == Mine # 0 /\ page.load = "done"

\* handleStartTranscription, handleRetryWithLocal
StartTranscription ==
    /\ Loaded /\ page.shown = "uploaded" /\ page.post = "none"
    /\ Only([page EXCEPT !.post = "start"])

RetryWithLocal ==
    /\ Loaded /\ page.shown = "failed" /\ page.post = "none"
    /\ Only([page EXCEPT !.post = "retry"])

\* A started run is remembered for its analysis; one that is already complete is
\* analysed first and shown then.
ProcessAnswered ==
    /\ page.post \in {"start", "retry"}
    /\ row' = AfterProcess(Mine)
    /\ page' = IF page.post = "start" /\ row'[Mine] = "completed"
               THEN [page EXCEPT !.post = "then", !.ask = "queue"]
               ELSE [Set(page, row'[Mine]) EXCEPT
                        !.post = "none",
                        !.auto = @ \/ page.post = "start",
                        !.started = @ \/ page.post = "start"]
    /\ UNCHANGED <<analysisRow, refreshes, faults>>

\* A failed start is an error beside the button, a failed retry one of the whole page.
ProcessRefused ==
    /\ page.post \in {"start", "retry"}
    /\ Fault
    /\ row' = AfterProcess(Mine) \/ UNCHANGED row
    /\ page' = [page EXCEPT !.post = "none", !.missed = TRUE,
                            !.load = IF page.post = "retry" THEN "error" ELSE @]
    /\ UNCHANGED <<analysisRow, refreshes>>

\* handleAnalyze; handleRefreshAnalysis, after a rename. Two requests at a time are
\* answered like one.
Analyze ==
    /\ Loaded /\ page.shown = "completed" /\ page.analysis \in {"none", "failed"}
    /\ page.ask = "none"
    /\ Only([page EXCEPT !.ask = "queue"])

RefreshAnalysis ==
    /\ Loaded /\ page.shown = "completed" /\ page.analysis = "completed"
    /\ page.ask = "none" /\ refreshes < MaxRefreshes
    /\ refreshes' = refreshes + 1
    /\ page' = [page EXCEPT !.ask = "refresh"]
    /\ UNCHANGED apiVars

\* What waits behind an analysis request goes on after it, answered or not.
Asked(p) ==
    IF p.post = "then" THEN [Set(p, "completed") EXCEPT !.post = "none", !.ask = "none"]
    ELSE [p EXCEPT !.ask = "none"]

AskAnswered ==
    /\ page.ask # "none"
    /\ analysisRow' = IF page.ask = "refresh" THEN AfterRefresh(Mine) ELSE AfterAnalyze(Mine)
    /\ page' = Asked(SetAnalysis(page, analysisRow'[Mine]))
    /\ UNCHANGED <<row, refreshes, faults>>

AskRefused ==
    /\ page.ask # "none"
    /\ Fault
    /\ \/ UNCHANGED analysisRow
       \/ analysisRow' = IF page.ask = "refresh" THEN AfterRefresh(Mine) ELSE AfterAnalyze(Mine)
    /\ page' = [Asked(page) EXCEPT !.missed = TRUE]
    /\ UNCHANGED <<row, refreshes>>

Buttons == StartTranscription \/ RetryWithLocal \/ Analyze \/ RefreshAnalysis
Answers == ProcessAnswered \/ ProcessRefused \/ AskAnswered \/ AskRefused

PageStep ==
    Load \/ Render \/ Polls \/ Buttons \/ Answers
PageWorker(r) == Worker(r) /\ UNCHANGED pageVars

-----------------------------------------------------------------------------
Agrees(s, actual) == s \notin InFlight /\ s = actual[Mine]

\* What the page shows as under way settles and is then what the workers made of it
\* (the two polling effects), as long as every answer has reached the page.
PageCatchesUp ==
    /\ page.shown \in InFlight ~> Mine # 0 /\ (page.missed \/ Agrees(page.shown, row))
    /\ page.analysis \in InFlight ~>
           Mine # 0 /\ (page.missed \/ Agrees(page.analysis, analysisRow))

\* "The user started this run from here: finish the job by analysing."
\* (meeting-detail.tsx, in the processing poll.)
FinishesByAnalysing ==
    page.started /\ page.shown = "completed" ~> Mine # 0 /\ analysisRow[Mine] # "none"
=============================================================================
