--------------------------- MODULE RecordingPanel ----------------------------
(***************************************************************************)
(* The recording panel (components/recording-panel.tsx) with the recorder  *)
(* (lib/audio-recorder.ts), the capture (lib/pcm-capture.ts) and the live  *)
(* pipeline it drives: one visit to the page, from the first click to the  *)
(* moment the user leaves, and what is still on its way then.              *)
(*                                                                         *)
(* The event loop runs one callback at a time; an action is what a click,  *)
(* an answer or an event of the browser sets off until the next await.     *)
(* A state update is seen at once by the next click. `hosted` stands for   *)
(* ElevenLabs chosen and acknowledged. What the windows of the tracker and *)
(* the names do is LiveWindows and SpeakerNames.                           *)
(***************************************************************************)
EXTENDS ScribeRealtime

CONSTANT MaxPosts    \* bound on process requests at a time, from impatient clicks

ASSUME PanelAssumption == MaxPosts \in Nat

None == [take |-> 0, session |-> 0]
Uploads == [take : Takes, session : 0 .. MaxTakes] \cup {None}

VARIABLES
    status,       \* what the panel shows; "gone" when the user has left
    choice,       \* the provider that is chosen now
    wants,        \* wantsLive of the last start
    take,         \* the last recording begun, 0 before the first
    gen,          \* liveGenerationRef
    error,        \* is an error shown?
    asking,       \* is the microphone being asked for?
    stream,       \* the recording whose microphone stream is open, 0 when none is
    media,        \* this.recorder: "none", "recording" or "inactive"
    stopping,     \* the recording that waits for the stop event of the recorder
    upload,       \* the upload on its way
    meeting,      \* meetingId, 0 for null
    posts,        \* process requests on their way
    poll,         \* the poll of a meeting: "off", "timer" or "asked"
    live,         \* startLivePipeline of each recording: [at, gen]
    session,      \* the live session of each recording on the server
    liveSession,  \* liveSessionId, 0 for null
    pipe,         \* the tracker and the capture that run: [take, tracker, capture]
    broken,       \* history: the recorder of this recording has failed
    excused       \* history: ways in which this recording may leave something running

recorderVars == <<asking, stream, media, stopping, broken>>
liveVars == <<live, session, liveSession, pipe, socket>>
workVars == <<upload, meeting, posts, poll>>
shownVars == <<status, choice, wants, take, error>>
panelVars == <<shownVars, gen, recorderVars, liveVars, workVars, excused>>

NoPipe == [take |-> 0, tracker |-> FALSE, capture |-> "none"]

PanelInit(s) ==
    /\ status = s /\ choice \in {"local", "hosted"} /\ wants = FALSE
    /\ take = 0 /\ gen = 0 /\ error = FALSE
    /\ asking = FALSE /\ stream = 0 /\ media = "none" /\ stopping = None /\ broken = FALSE
    /\ upload = None /\ meeting = 0 /\ posts = 0 /\ poll = "off"
    /\ live = [r \in Takes |-> [at |-> "none", gen |-> 0]]
    /\ session = [r \in Takes |-> "none"]
    /\ liveSession = 0 /\ pipe = NoPipe /\ socket = NewSocket
    /\ excused = {}

\* A page that is gone shows nothing any more: its setters do nothing.
Shows(s) == status' = IF status = "gone" THEN "gone" ELSE s
ShowsError(s) == Shows(s) /\ error' = TRUE

\* dispose(): the stream is closed and the recorder forgotten.
Disposed == stream' = 0 /\ media' = "none"

\* The tracker, the capture and the socket the refs point to are ended.
PipeEnded == [pipe EXCEPT !.tracker = FALSE, !.capture = IF @ = "none" THEN @ ELSE "stopped"]
EndPipe == pipe' = PipeEnded /\ socket' = Closed(socket)

-----------------------------------------------------------------------------
(* Recording.                                                               *)

\* The provider can be chosen again while the browser asks for the microphone.
Choose(c) ==
    /\ status \in {"idle", "requesting"} /\ choice # c
    /\ choice' = c
    /\ UNCHANGED <<status, wants, take, error, gen, recorderVars, liveVars, workVars, excused>>
    /\ UNCHANGED apiVars

\* handleStart as far as getUserMedia.
Start ==
    /\ status = "idle" /\ take < MaxTakes
    /\ stream = 0 /\ media = "none"
    /\ status' = "requesting" /\ take' = take + 1 /\ gen' = gen + 1
    /\ wants' = (choice = "hosted")
    /\ error' = FALSE /\ meeting' = 0 /\ liveSession' = 0
    /\ asking' = TRUE /\ broken' = FALSE /\ excused' = {}
    /\ EndPipe
    /\ UNCHANGED <<choice, stream, media, stopping, upload, posts, poll, live, session>>
    /\ UNCHANGED apiVars

\* A recorder that has stopped is not forgotten before dispose(): start() refuses, and
\* the catch disposes of it.
StartRefused ==
    /\ status = "idle"
    /\ stream # 0 \/ media # "none"
    /\ gen' = gen + 1
    /\ error' = TRUE /\ meeting' = 0 /\ liveSession' = 0
    /\ Disposed
    /\ excused' = {}
    /\ EndPipe
    /\ UNCHANGED <<status, choice, wants, take, asking, stopping, broken>>
    /\ UNCHANGED <<upload, posts, poll, live, session>>
    /\ UNCHANGED apiVars

\* The user allows the microphone: the recorder runs, and the live pipeline begins.
Granted ==
    /\ asking
    /\ asking' = FALSE
    /\ stream' = take /\ media' = "recording"
    /\ Shows("recording")
    /\ live' = IF wants THEN [live EXCEPT ![take] = [at |-> "creating", gen |-> gen]] ELSE live
    /\ UNCHANGED <<choice, wants, take, error, gen, stopping, broken, session, liveSession>>
    /\ UNCHANGED <<pipe, socket, workVars, excused>>
    /\ UNCHANGED apiVars

\* No permission, no microphone, or no recorder for it.
Denied ==
    /\ asking
    /\ asking' = FALSE
    /\ Disposed
    /\ ShowsError("idle")
    /\ UNCHANGED <<choice, wants, take, gen, stopping, broken, liveVars, workVars, excused>>
    /\ UNCHANGED apiVars

\* The stop and error events of the recorder close the stream.
ClosesStream == media' = "inactive" /\ stream' = 0

\* The recorder fails or its microphone is unplugged. Nobody is told unless a stop
\* is under way.
RecorderFails ==
    /\ media = "recording"
    /\ Fault
    /\ ClosesStream
    /\ broken' = TRUE
    /\ stopping' = None
    /\ IF stopping # None THEN ShowsError("idle") ELSE UNCHANGED <<status, error>>
    /\ UNCHANGED <<choice, wants, take, asking, gen, liveVars, workVars, excused>>
    /\ UNCHANGED <<row, analysisRow>>

\* handleStop as far as the stop event. Only a panel that shows the hosted provider
\* stops the live pipeline.
Stop ==
    /\ status = "recording"
    /\ IF choice = "hosted"
       THEN gen' = gen + 1 /\ EndPipe /\ UNCHANGED excused
       ELSE /\ excused' = IF wants THEN excused \cup {"switched"} ELSE excused
            /\ UNCHANGED <<gen, pipe, socket>>
    /\ IF media = "recording"
       THEN /\ stopping' = [take |-> take, session |-> liveSession]
            /\ status' = "uploading" /\ error' = FALSE
       ELSE /\ UNCHANGED stopping
            /\ status' = "idle" /\ error' = TRUE
    /\ UNCHANGED <<choice, wants, take, asking, stream, media, broken>>
    /\ UNCHANGED <<live, session, liveSession, workVars>>
    /\ UNCHANGED apiVars

\* The stop event: the recording is complete and is sent.
Stopped ==
    /\ stopping # None
    /\ ClosesStream
    /\ upload' = stopping /\ stopping' = None
    /\ UNCHANGED <<shownVars, gen, asking, broken, liveVars, meeting, posts, poll, excused>>
    /\ UNCHANGED apiVars

-----------------------------------------------------------------------------
(* The live pipeline.                                                       *)

\* Fault: an answer is taken whatever recording it was asked for.
AnyIsCurrent(r) == TRUE

\* isCurrent() in startLivePipeline of recording r.
IsCurrent(r) == live[r].gen = gen

Over(r) == live' = [live EXCEPT ![r].at = "over"]

\* createLiveSession is answered: the tracker, the client and the capture are made, or
\* the session is given back when the panel has moved on. (A session that cannot be given
\* back, or that nobody learns of, expires on its own.)
SessionCreated(r) ==
    /\ live[r].at = "creating"
    /\ IF IsCurrent(r)
       THEN /\ session' = [session EXCEPT ![r] = "open"]
            /\ liveSession' = r
            /\ pipe' = [take |-> r, tracker |-> TRUE, capture |-> "starting"]
            /\ socket' = NewSocket
            /\ live' = [live EXCEPT ![r].at = "capturing"]
       ELSE /\ session' = [session EXCEPT ![r] = "deleted"]
            /\ Over(r)
            /\ UNCHANGED <<liveSession, pipe, socket>>
    /\ UNCHANGED <<shownVars, gen, recorderVars, workVars, excused>>
    /\ UNCHANGED apiVars

\* Fault: a failure of the live pipeline reaches the catch of handleStart.
LiveFailsLoudly(r) == Disposed /\ ShowsError("idle") /\ UNCHANGED liveSession

\* The catch of startLivePipeline: the recording goes on.
LiveFails(r) ==
    /\ liveSession' = IF IsCurrent(r) THEN 0 ELSE liveSession
    /\ UNCHANGED <<status, error, stream, media>>

SessionRefused(r) ==
    /\ live[r].at = "creating"
    /\ Fault
    /\ Over(r)
    /\ LiveFails(r)
    /\ UNCHANGED <<choice, wants, take, gen, asking, stopping, broken>>
    /\ UNCHANGED <<session, pipe, socket, workVars, excused>>
    /\ UNCHANGED <<row, analysisRow>>

\* capture.start() is done, perhaps on a capture that has been stopped meanwhile; the
\* client opens its socket.
CaptureStarted(r) ==
    /\ live[r].at = "capturing"
    /\ Over(r)
    /\ pipe' = IF pipe.take = r /\ pipe.capture = "starting"
               THEN [pipe EXCEPT !.capture = "running"] ELSE pipe
    /\ socket' = IF IsCurrent(r) THEN Opened(socket) ELSE socket
    /\ UNCHANGED <<shownVars, gen, recorderVars, session, liveSession, workVars, excused>>
    /\ UNCHANGED apiVars

\* capture.start() fails, as it may when its audio context has been closed: the session
\* is given back, unless an upload has taken it.
CaptureFails(r) ==
    /\ live[r].at = "capturing"
    /\ Fault
    /\ Over(r)
    /\ LiveFails(r)
    /\ session' = [session EXCEPT ![r] = IF @ = "open" THEN "deleted" ELSE @]
    /\ pipe' = IF pipe.take = r /\ pipe.capture = "starting"
               THEN [pipe EXCEPT !.capture = "stopped"] ELSE pipe
    /\ UNCHANGED <<choice, wants, take, gen, asking, stopping, broken, socket, workVars, excused>>
    /\ UNCHANGED <<row, analysisRow>>

LiveStep(r) ==
    SessionCreated(r) \/ SessionRefused(r) \/ CaptureStarted(r) \/ CaptureFails(r)

PanelSocketStep ==
    /\ SocketStep
    /\ UNCHANGED <<shownVars, gen, recorderVars, live, session, liveSession, pipe>>
    /\ UNCHANGED <<workVars, excused, row, analysisRow>>

-----------------------------------------------------------------------------
(* Upload, processing and the poll.                                         *)

\* The meeting is made of the upload and of the names of its live session.
MeetingMade(u) ==
    /\ row' = [row EXCEPT ![u.take] = "uploaded"]
    /\ session' = [r \in Takes |-> IF r = u.session /\ session[r] = "open" THEN "bound"
                                   ELSE session[r]]

Uploaded ==
    /\ upload # None
    /\ MeetingMade(upload)
    /\ upload' = None
    /\ meeting' = IF status = "gone" THEN meeting ELSE upload.take
    /\ Shows("uploaded")
    /\ UNCHANGED <<choice, wants, take, error, gen, recorderVars, live, liveSession, pipe>>
    /\ UNCHANGED <<socket, posts, poll, excused, analysisRow, faults>>

\* The upload fails before or after the meeting has been made.
UploadFails ==
    /\ upload # None
    /\ Fault
    /\ MeetingMade(upload) \/ UNCHANGED <<row, session>>
    /\ upload' = None
    /\ ShowsError("idle")
    /\ UNCHANGED <<choice, wants, take, gen, recorderVars, live, liveSession, pipe, socket>>
    /\ UNCHANGED <<meeting, posts, poll, excused, analysisRow>>

\* handleProcess. The button stays until the answer is there.
Process ==
    /\ status = "uploaded" /\ posts < MaxPosts
    /\ posts' = posts + 1 /\ error' = FALSE
    /\ UNCHANGED <<status, choice, wants, take, gen, recorderVars, liveVars>>
    /\ UNCHANGED <<upload, meeting, poll, excused>>
    /\ UNCHANGED apiVars

\* The effect on status: a poll runs while it is "processing".
PollFor(s) == poll' = IF s # "processing" THEN "off"
                      ELSE IF status = "processing" THEN poll ELSE "timer"

Processing ==
    /\ posts > 0 /\ posts' = posts - 1
    /\ row' = AfterProcess(meeting)
    /\ Shows("processing") /\ PollFor(status')
    /\ UNCHANGED <<choice, wants, take, error, gen, recorderVars, liveVars, upload, meeting>>
    /\ UNCHANGED <<excused, analysisRow, faults>>

\* A request that fails takes the panel back to the button, even from a poll another
\* request has begun.
ProcessFails ==
    /\ posts > 0 /\ posts' = posts - 1
    /\ Fault
    /\ row' = AfterProcess(meeting) \/ UNCHANGED row
    /\ ShowsError("uploaded") /\ PollFor(status')
    /\ UNCHANGED <<choice, wants, take, gen, recorderVars, liveVars, upload, meeting>>
    /\ UNCHANGED <<excused, analysisRow>>

PollAsks ==
    /\ poll = "timer" /\ poll' = "asked"
    /\ UNCHANGED <<shownVars, gen, recorderVars, liveVars, upload, meeting, posts, excused>>
    /\ UNCHANGED apiVars

\* Fault: the poll is not set up again.
StopsPolling == poll' = "off" /\ UNCHANGED <<status, error>>

KeepsPolling == poll' = "timer" /\ UNCHANGED <<status, error>>

PollAnswered ==
    /\ poll = "asked"
    /\ \/ /\ row[meeting] = "completed"
          /\ status' = "completed" /\ poll' = "off"
          /\ UNCHANGED error
       \/ /\ row[meeting] = "failed"
          /\ status' = "failed" /\ poll' = "off" /\ error' = TRUE
       \/ row[meeting] \in InFlight /\ KeepsPolling
    /\ UNCHANGED <<choice, wants, take, gen, recorderVars, liveVars>>
    /\ UNCHANGED <<upload, meeting, posts, excused>>
    /\ UNCHANGED apiVars

\* A poll that fails ends the waiting with an error.
PollFails ==
    /\ poll = "asked"
    /\ Fault
    /\ status' = "failed" /\ poll' = "off" /\ error' = TRUE
    /\ UNCHANGED <<choice, wants, take, gen, recorderVars, liveVars>>
    /\ UNCHANGED <<upload, meeting, posts, excused, row, analysisRow>>

\* The user leaves the page. What is on its way goes on: nothing tells the callbacks,
\* which compare generations only.
Leave ==
    /\ status # "gone"
    /\ status' = "gone"
    /\ Disposed /\ stopping' = None
    /\ EndPipe
    /\ poll' = "off"
    /\ excused' = IF asking \/ \E r \in Takes : live[r].at \in {"creating", "capturing"}
                                                /\ IsCurrent(r)
                  THEN excused \cup {"left"} ELSE excused
    /\ UNCHANGED <<choice, wants, take, error, gen, asking, broken>>
    /\ UNCHANGED <<live, session, liveSession, upload, meeting, posts>>
    /\ UNCHANGED apiVars

Click ==
    \/ \E c \in {"local", "hosted"} : Choose(c)
    \/ Start \/ StartRefused \/ Stop \/ Process \/ Leave
RecorderStep == Granted \/ Denied \/ RecorderFails \/ Stopped
RequestStep ==
    Uploaded \/ UploadFails \/ Processing \/ ProcessFails \/ PollAsks \/ PollAnswered \/ PollFails

PanelStep ==
    \/ Click \/ RecorderStep \/ RequestStep \/ PanelSocketStep
    \/ \E r \in Takes : LiveStep(r)
PanelWorker(r) == Worker(r) /\ UNCHANGED panelVars

-----------------------------------------------------------------------------
ShownTyped ==
    /\ status \in {"idle", "requesting", "recording", "uploading", "uploaded", "processing",
                   "completed", "failed", "gone"}
    /\ choice \in {"local", "hosted"} /\ wants \in BOOLEAN
    /\ take \in 0 .. MaxTakes /\ error \in BOOLEAN
    /\ excused \subseteq {"switched", "left"}

RecorderTyped ==
    /\ asking \in BOOLEAN /\ stream \in 0 .. MaxTakes
    /\ media \in {"none", "recording", "inactive"} /\ broken \in BOOLEAN
    /\ stopping \in Uploads

WorkTyped ==
    /\ upload \in Uploads
    /\ meeting \in 0 .. MaxTakes /\ posts \in 0 .. MaxPosts
    /\ poll \in {"off", "timer", "asked"}

LiveTyped ==
    /\ gen \in Nat
    /\ live \in [Takes -> [at : {"none", "creating", "capturing", "over"}, gen : Nat]]
    /\ session \in [Takes -> {"none", "open", "deleted", "bound"}]
    /\ liveSession \in 0 .. MaxTakes

PipeTyped ==
    /\ pipe \in [take : 0 .. MaxTakes, tracker : BOOLEAN,
                 capture : {"none", "starting", "running", "stopped"}]
    /\ socket \in [at : {"idle", "token", "shaking", "open", "waiting", "failed", "closed"},
                   tries : 0 .. MaxReconnects, ended : BOOLEAN]

PanelTypeOK == ShownTyped /\ RecorderTyped /\ WorkTyped /\ LiveTyped /\ PipeTyped

\* "Live failure never stops the recording" (README.md, handleStart): a recorder that
\* runs stops only because the user stops it or leaves, or because it fails itself.
LiveNeverStopsRecording ==
    [][media = "recording" /\ media' # "recording" =>
           stopping # None \/ broken' \/ status' = "gone"]_<<panelVars, apiVars>>

\* A recording is sent with its own live session and no other, and with none only when
\* it has none that could hold names: whatever answers of earlier recordings come in
\* late (liveGenerationRef). The exception is a recording begun as hosted and stopped as
\* local, whose session may be created behind the back of the upload.
OwnSession ==
    \A u \in {stopping, upload} \ {None} :
        /\ u.session \in {0, u.take}
        /\ u.session = 0 => session[u.take] # "open" \/ "switched" \in excused

\* "Every track is stopped on stop() and dispose(), so no stream leaks"
\* (MeetingRecorder), and the live pipeline ends with its recording: nothing listens
\* and no connection is kept once the panel is no longer recording. The exceptions are
\* a recording that was stopped with the other provider chosen, and a panel that was left
\* while the microphone or the live session was still being asked for.
NothingLeftRunning ==
    status \notin {"recording", "uploading"} /\ excused = {} =>
        stream = 0 /\ ~pipe.tracker /\ pipe.capture # "running" /\ ~Busy(socket)

\* Every recording the user stops ends as a meeting or as an error, and every wait for
\* the worker ends, unless the user leaves (handleStop, the polling loop).
PanelAnswers ==
    /\ status = "uploading" ~>
           \/ status = "idle" /\ error
           \/ status = "uploaded" /\ row[meeting] # "none"
           \/ status = "gone"
    /\ status = "processing" ~> status # "processing"
==============================================================================
