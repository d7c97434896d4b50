------------------------------ MODULE Browser -------------------------------
(***************************************************************************)
(* One tab of the browser against the API and the workers: a visit to the  *)
(* recording panel, or one to the page of a meeting, which finds the work  *)
(* on its meeting in any state. The two pages share the API and nothing    *)
(* else.                                                                   *)
(***************************************************************************)
EXTENDS RecordingPanel, MeetingPage

browserVars == <<apiVars, panelVars, pageVars>>

BrowserInit ==
    \/ ApiInit /\ PanelInit("idle") /\ NoPage
    \/ PanelInit("gone") /\ PageInit

Next ==
    \/ PanelStep /\ UNCHANGED pageVars
    \/ PageStep /\ UNCHANGED panelVars
    \/ \E r \in Takes : PanelWorker(r) /\ PageWorker(r)

BrowserSpec == BrowserInit /\ [][Next]_browserVars

\* Events, timers, answers and renderings come; a job that is claimed ends (MeetingJobs).
\* Nobody has to click or to answer the prompt of the microphone, and nothing has to fail.
FairSpec ==
    /\ BrowserSpec
    /\ WF_browserVars(Stopped /\ UNCHANGED pageVars)
    /\ WF_browserVars(Uploaded /\ UNCHANGED pageVars)
    /\ WF_browserVars(Processing /\ UNCHANGED pageVars)
    /\ WF_browserVars((PollAsks \/ PollAnswered) /\ UNCHANGED pageVars)
    /\ WF_browserVars(Load /\ UNCHANGED panelVars)
    /\ WF_browserVars(Render /\ UNCHANGED panelVars)
    /\ WF_browserVars((PollDue \/ PollShows \/ TranscriptRead) /\ UNCHANGED panelVars)
    /\ WF_browserVars((AnalysisDue \/ AnalysisShows) /\ UNCHANGED panelVars)
    /\ WF_browserVars(ProcessAnswered /\ UNCHANGED panelVars)
    /\ WF_browserVars(AskAnswered /\ UNCHANGED panelVars)
    /\ \A r \in Takes : WF_browserVars((WorkerTakes(r) \/ WorkerCompletes(r))
                                        /\ UNCHANGED <<panelVars, pageVars>>)
=============================================================================
