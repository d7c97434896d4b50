----------------------------- MODULE LiveWindows -----------------------------
(***************************************************************************)
(* The rolling speaker windows of one live recording: the tracker in the   *)
(* browser (lib/rolling-speaker.ts), which sends one window at a time,     *)
(* retries it once and then skips it, and the handler of the server        *)
(* (routers/live_transcription.py), which accepts only the sequence number *)
(* it expects and moves on only when a window has been diarized.           *)
(*                                                                         *)
(* Time is counted in steps of STEP_SECONDS; a window is named by its end. *)
(* Every request the tracker has made stays in `requests`: the fetch the   *)
(* tracker awaits may break while the handler, which is not told, goes on. *)
(***************************************************************************)
EXTENDS Naturals, Sequences

CONSTANTS
    MaxSteps,           \* length of the recording, in steps
    MaxProviderFaults,  \* bound on failures of the diarization provider
    MaxCuts,            \* bound on connections that break
    CutsWhileHandled    \* may a connection break before the handler is done?

ASSUME WindowsAssumption ==
    /\ MaxSteps \in Nat \ {0}
    /\ MaxProviderFaults \in Nat
    /\ MaxCuts \in Nat
    /\ CutsWhileHandled \in BOOLEAN

FirstAttempt == 2       \* FIRST_ATTEMPT_MULTIPLIER
MaxWindowRetries == 2   \* MAX_WINDOW_RETRIES

VARIABLES
    heard,     \* steps of audio captured
    attempt,   \* nextAttempt: the end of the next window to send
    seq,       \* sequence of the tracker
    failures,  \* failureCount
    timer,     \* retryTimer is set
    waiting,   \* the request in flight, 0 when none
    stopped,   \* stop() has been called
    labelled,  \* the windows whose results reached onResult, in order
    requests,  \* every request made, with the place of its handler
    expected,  \* session.next_sequence
    applied,   \* the requests folded into the session, in order
    faults     \* provider failures and cuts so far

trackerVars == <<attempt, seq, failures, timer, waiting, stopped, labelled>>
serverVars  == <<expected, applied>>
vars == <<heard, trackerVars, requests, serverVars, faults>>

Init ==
    /\ heard = 0
    /\ attempt = FirstAttempt
    /\ seq = 1
    /\ failures = 0
    /\ timer = FALSE
    /\ waiting = 0
    /\ stopped = FALSE
    /\ labelled = <<>>
    /\ requests = <<>>
    /\ expected = 1
    /\ applied = <<>>
    /\ faults = [provider |-> 0, cut |-> 0]

-----------------------------------------------------------------------------
(* The tracker.                                                             *)

\* maybeSend with nothing in flight and no timer: window a goes out as number n
\* once h steps have been heard.
SendNext(h, a, n) ==
    IF h >= a
    THEN /\ requests' = Append(requests, [seq |-> n, end |-> a, at |-> "sent", cut |-> FALSE])
         /\ waiting' = Len(requests) + 1
    ELSE /\ waiting' = 0
         /\ UNCHANGED requests

\* push: audio arrives; maybeSend does nothing while a request or a timer is out.
Push ==
    /\ ~stopped
    /\ heard < MaxSteps
    /\ heard' = heard + 1
    /\ IF waiting = 0 /\ ~timer
       THEN SendNext(heard + 1, attempt, seq)
       ELSE UNCHANGED <<waiting, requests>>
    /\ UNCHANGED <<attempt, seq, failures, timer, stopped, labelled, serverVars, faults>>

Answered(i) == requests[i].at \in {"done", "refused", "failed"}
Rejected(i) == requests[i].cut \/ requests[i].at \in {"refused", "failed"}

\* The promise of send resolves: the next window, the next number.
Success ==
    /\ waiting # 0
    /\ requests[waiting].at = "done" /\ ~requests[waiting].cut
    /\ ~stopped
    /\ failures' = 0
    /\ seq' = seq + 1
    /\ attempt' = attempt + 1
    /\ labelled' = Append(labelled, requests[waiting].end)
    /\ SendNext(heard, attempt + 1, seq + 1)
    /\ UNCHANGED <<heard, timer, stopped, serverVars, faults>>

\* The window in flight has had its retries.
GivesUp == failures + 1 >= MaxWindowRetries

\* Fault: a skipped window leaves its number to the next one.
FailureKeepsNumber ==
    /\ waiting # 0
    /\ Rejected(waiting)
    /\ ~stopped
    /\ IF GivesUp
       THEN /\ failures' = 0
            /\ attempt' = attempt + 1
            /\ SendNext(heard, attempt + 1, seq)
            /\ UNCHANGED <<seq, timer>>
       ELSE /\ failures' = failures + 1
            /\ timer' = TRUE
            /\ waiting' = 0
            /\ UNCHANGED <<seq, attempt, requests>>
    /\ UNCHANGED <<heard, stopped, labelled, serverVars, faults>>

\* It rejects: once the window is kept for the retry timer, then it is skipped.
Failure ==
    /\ waiting # 0
    /\ Rejected(waiting)
    /\ ~stopped
    /\ IF GivesUp
       THEN /\ failures' = 0
            /\ seq' = seq + 1
            /\ attempt' = attempt + 1
            /\ SendNext(heard, attempt + 1, seq + 1)
            /\ UNCHANGED timer
       ELSE /\ failures' = failures + 1
            /\ timer' = TRUE
            /\ waiting' = 0
            /\ UNCHANGED <<seq, attempt, requests>>
    /\ UNCHANGED <<heard, stopped, labelled, serverVars, faults>>

\* Fault: the timer is not reset when it fires.
RetryTimerStays ==
    /\ timer
    /\ ~stopped
    /\ UNCHANGED vars

\* The retry timer fires.
Retry ==
    /\ timer
    /\ ~stopped
    /\ timer' = FALSE
    /\ SendNext(heard, attempt, seq)
    /\ UNCHANGED <<heard, attempt, seq, failures, stopped, labelled, serverVars, faults>>

Stop ==
    /\ ~stopped
    /\ stopped' = TRUE
    /\ timer' = FALSE
    /\ UNCHANGED <<heard, attempt, seq, failures, waiting, labelled, requests,
                   serverVars, faults>>

\* An answer after stop() only ends the flight.
LateAnswer ==
    /\ stopped
    /\ waiting # 0
    /\ Answered(waiting) \/ requests[waiting].cut
    /\ waiting' = 0
    /\ UNCHANGED <<heard, attempt, seq, failures, timer, stopped, labelled, requests,
                   serverVars, faults>>

Tracker == Push \/ Success \/ Failure \/ Retry \/ LateAnswer

-----------------------------------------------------------------------------
(* The server.                                                              *)

Place(i, place) == requests' = [requests EXCEPT ![i].at = place]

\* Fault: a window the tracker has already passed is accepted as well.
AcceptOld(i) == requests[i].seq <= expected

\* The sequence check of submit_speaker_window.
Accept(i) == requests[i].seq = expected

Arrive(i) ==
    /\ requests[i].at = "sent"
    /\ Place(i, IF Accept(i) THEN "diarizing" ELSE "refused")
    /\ UNCHANGED <<heard, trackerVars, serverVars, faults>>

\* The provider has answered: the window is folded in and the next one expected,
\* in one piece of the event loop.
Apply(i) ==
    /\ requests[i].at = "diarizing"
    /\ Place(i, "done")
    /\ applied' = Append(applied, i)
    /\ expected' = requests[i].seq + 1
    /\ UNCHANGED <<heard, trackerVars, faults>>

\* 503 or 502: the sequence stays where it is.
ProviderFails(i) ==
    /\ requests[i].at = "diarizing"
    /\ faults.provider < MaxProviderFaults
    /\ Place(i, "failed")
    /\ faults' = [faults EXCEPT !.provider = @ + 1]
    /\ UNCHANGED <<heard, trackerVars, serverVars>>

\* The connection breaks: the tracker sees its fetch reject, the handler does
\* not notice; a request that has not arrived may be lost altogether.
Cut(i) ==
    /\ i = waiting
    /\ ~requests[i].cut
    /\ faults.cut < MaxCuts
    /\ CutsWhileHandled \/ Answered(i)
    /\ \E place \in {requests[i].at} \cup (IF requests[i].at = "sent" THEN {"refused"} ELSE {}) :
           requests' = [requests EXCEPT ![i].cut = TRUE, ![i].at = place]
    /\ faults' = [faults EXCEPT !.cut = @ + 1]
    /\ UNCHANGED <<heard, trackerVars, serverVars>>

Handle(i) == Arrive(i) \/ Apply(i)

Next ==
    \/ Tracker
    \/ Stop
    \/ \E i \in 1 .. Len(requests) : Handle(i) \/ ProviderFails(i) \/ Cut(i)

Spec == Init /\ [][Next]_vars

\* Audio keeps coming, timers fire, promises settle, handlers run to their end;
\* nobody has to stop the recording and nothing has to fail.
MaxRequests == MaxWindowRetries * MaxSteps
Fairness ==
    /\ WF_vars(Tracker)
    /\ \A i \in 1 .. MaxRequests : WF_vars(i <= Len(requests) /\ Handle(i))

FairSpec == Spec /\ Fairness

-----------------------------------------------------------------------------
Windows  == FirstAttempt .. MaxSteps + 1
Places   == {"sent", "diarizing", "done", "refused", "failed"}
Sendings == [seq : 1 .. MaxSteps, end : Windows, at : Places, cut : BOOLEAN]

\* Every variable has its type; the tracker sends a window at most twice and
\* waits for its last request (rolling-speaker.ts fields).
TypeOK ==
    /\ heard \in 0 .. MaxSteps
    /\ attempt \in Windows
    /\ seq \in 1 .. MaxSteps + 1
    /\ failures \in 0 .. MaxWindowRetries - 1
    /\ timer \in BOOLEAN /\ stopped \in BOOLEAN
    /\ waiting \in {0, Len(requests)}
    /\ timer => waiting = 0
    /\ labelled \in Seq(Windows)
    /\ requests \in Seq(Sendings)
    /\ Len(requests) <= MaxRequests
    /\ expected \in 1 .. MaxSteps + 1
    /\ applied \in Seq(1 .. Len(requests))
    /\ faults \in [provider : 0 .. MaxProviderFaults, cut : 0 .. MaxCuts]

\* The session takes the windows in the order of the audio, each number once,
\* and only a window that has been taken labels lines: so evidence from two
\* snapshots is evidence from two different snapshots (submit_speaker_window,
\* apply_window). It needs every connection to last until its handler is done.
AppliedInOrder ==
    /\ \A j \in 1 .. Len(applied) :
           /\ requests[applied[j]].seq = j
           /\ \A k \in 1 .. j - 1 : requests[applied[k]].end < requests[applied[j]].end
    /\ \A w \in 1 .. Len(labelled) :
           \E j \in 1 .. Len(applied) : requests[applied[j]].end = labelled[w]

\* The tracker never settles at a window: as long as the recording goes on, it
\* gets through every window it has audio for, whatever fails (retry timer,
\* bounded retries, the finally of maybeSend).
TrackerProgresses ==
    \A w \in Windows : (heard >= w /\ attempt = w) ~> (attempt > w \/ stopped)

\* A response that is lost after the window has been applied costs at most one
\* window: the refused retry brings the two counters together again, as long as the
\* provider does not fail as well.
LostResponseHeals ==
    \A w \in Windows : (faults.cut = MaxCuts /\ attempt = w /\ w < MaxSteps) ~>
        \/ stopped
        \/ faults.provider > 0
        \/ \E j \in 1 .. Len(applied) : requests[applied[j]].end > w

\* "Bounded: skip this snapshot and continue with the next one" (maybeSend): when
\* the provider has recovered, a later window is diarized again.
SkipContinues ==
    \A w \in Windows : (faults.provider = MaxProviderFaults /\ attempt = w /\ w < MaxSteps) ~>
        (stopped \/ \E j \in 1 .. Len(applied) : requests[applied[j]].end > w)
==============================================================================
