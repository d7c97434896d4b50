--------------------------- MODULE BrowserProofs -----------------------------
(***************************************************************************)
(* Proofs about the recording panel in its tab: what is sent belongs       *)
(* together, and nothing is left running, for any number of recordings,    *)
(* failures and clicks.                                                    *)
(***************************************************************************)
EXTENDS Browser, TLAPS

Pending == {stopping, upload} \ {None}

\* The live pipeline of recording r is being made for the panel as it is now.
Coming(r) == live[r].at \in {"creating", "capturing"} /\ IsCurrent(r)

\* Nothing of a live pipeline runs, and none is on its way that would be kept.
Quiet ==
    /\ \A r \in Takes : ~Coming(r)
    /\ ~pipe.tracker /\ pipe.capture \notin {"starting", "running"}
    /\ ~Busy(socket)

\* What the status says of the recorder, of the upload and of the requests.
Phases ==
    /\ asking => status \in {"requesting", "gone"} /\ take \in Takes /\ upload = None
    /\ asking /\ status = "gone" => excused # {}
    /\ status = "recording" => take \in Takes
    /\ stopping # None => status = "uploading" /\ upload = None
    /\ upload # None => status \in {"uploading", "gone"}
    /\ posts > 0 => status \in {"uploaded", "processing", "completed", "failed", "gone"}
    /\ poll # "off" => status = "processing"

\* The generations tell the recordings apart.
Generations ==
    /\ \A r \in Takes :
           /\ live[r].at = "none" => session[r] = "none"
           /\ live[r].at # "none" =>
                  /\ live[r].gen =< gen
                  /\ r =< take
                  /\ r # take \/ asking => live[r].gen < gen
                  /\ r = take => wants /\ ~asking

Sessions ==
    /\ liveSession \in {0, take}
    /\ \A r \in Takes : live[r].at = "creating" => session[r] = "none"
    /\ status = "recording" /\ session[take] = "open" => liveSession = take

\* What is being sent keeps its session: the one it lacks cannot appear any more.
Sending ==
    \A u \in Pending :
        /\ u.session \in {0, u.take}
        /\ "switched" \notin excused =>
               /\ u.session = 0 => session[u.take] # "open"
               /\ live[u.take].at = "creating" => live[u.take].gen < gen

Streams ==
    /\ media # "recording" => stream = 0
    /\ stream # 0 /\ excused = {} =>
           status = "recording" \/ stopping # None
    /\ media = "recording" =>
           ~asking /\ (status \in {"recording", "gone"} \/ stopping # None)

Silent == excused = {} /\ (status # "recording" \/ ~wants) => Quiet

PanelInv ==
    PanelTypeOK /\ Phases /\ Generations /\ Sessions /\ Sending /\ Streams /\ Silent

-----------------------------------------------------------------------------
(* Helpers.                                                                 *)

Sockets ==
    [at : {"idle", "token", "shaking", "open", "waiting", "failed", "closed"},
     tries : 0 .. 2, ended : BOOLEAN]

\* A step of the socket that moves it and sets its tries.
LEMMA SocketMoves ==
    ASSUME socket \in Sockets, NEW n \in 0 .. 2,
           NEW a \in {"token", "shaking", "open", "waiting", "failed", "closed"},
           socket' = [socket EXCEPT !.at = a, !.tries = n]
    PROVE  socket' \in Sockets
<1>1. socket' = [at |-> a, tries |-> n, ended |-> socket.ended]
  BY DEF Sockets
<1> QED BY <1>1 DEF Sockets

\* Ending the pipeline leaves nothing of it running.
LEMMA PipeEnds ==
    ASSUME PipeTyped, EndPipe
    PROVE  /\ ~pipe'.tracker /\ pipe'.capture \notin {"starting", "running"}
           /\ ~Busy(socket')
  BY DEF PipeTyped, EndPipe, PipeEnded, Closed, Busy, MaxReconnects

-----------------------------------------------------------------------------
(* One lemma for each action of the panel.                                  *)

LEMMA ChooseKeeps == ASSUME PanelInv, NEW c \in {"local", "hosted"}, Choose(c) PROVE PanelInv'
<1>1. ShownTyped'
  BY DEF PanelInv, PanelTypeOK, ShownTyped, Choose
<1>2. RecorderTyped'
  BY DEF PanelInv, PanelTypeOK, RecorderTyped, Choose, recorderVars
<1>3. WorkTyped'
  BY DEF PanelInv, PanelTypeOK, WorkTyped, Choose, workVars
<1>4. LiveTyped'
  BY DEF PanelInv, PanelTypeOK, LiveTyped, Choose, liveVars
<1>5. PipeTyped'
  BY DEF PanelInv, PanelTypeOK, PipeTyped, Choose, liveVars
<1>6. Phases'
  BY DEF PanelInv, Phases, Choose, recorderVars, workVars
<1>7. Generations'
  BY DEF PanelInv, Generations, Choose, recorderVars, liveVars
<1>8. Sessions'
  BY DEF PanelInv, Sessions, Choose, liveVars
<1>9. Sending'
  BY DEF PanelInv, Sending, Choose, recorderVars, liveVars, workVars, Pending
<1>10. Streams'
  BY DEF PanelInv, PanelTypeOK, Streams, Choose, recorderVars
<1>11. Silent'
  BY DEF PanelInv, Silent, Choose, liveVars, Quiet, Coming, Busy, IsCurrent
<1> QED
  BY <1>1, <1>2, <1>3, <1>4, <1>5, <1>6, <1>7, <1>8, <1>9, <1>10, <1>11 DEF PanelInv,
    PanelTypeOK

LEMMA StartKeeps == ASSUME PanelInv, Start PROVE PanelInv'
<1>1. ShownTyped'
  <2>1. wants' \in BOOLEAN BY Zenon DEF Start
  <2>2. take' \in 0 .. MaxTakes BY ApiAssumption DEF Start, PanelInv, PanelTypeOK, ShownTyped
  <2>3. status' = "requesting" /\ choice' = choice /\ error' = FALSE /\ excused' = {}
     BY DEF Start
  <2> QED BY <2>1, <2>2, <2>3 DEF PanelInv, PanelTypeOK, ShownTyped
<1>2. RecorderTyped'
  BY DEF PanelInv, PanelTypeOK, RecorderTyped, Start
<1>3. WorkTyped'
  BY ApiAssumption DEF PanelInv, PanelTypeOK, WorkTyped, Start
<1>4. LiveTyped'
  BY ApiAssumption DEF PanelInv, PanelTypeOK, LiveTyped, Start
<1>5. PipeTyped'
  BY DEF PanelInv, PanelTypeOK, PipeTyped, Start, EndPipe, PipeEnded, Closed
<1>6. Phases'
  BY ApiAssumption DEF PanelInv, PanelTypeOK, ShownTyped, Phases, Start, Takes
<1>7. Generations'
  BY DEF PanelInv, PanelTypeOK, ShownTyped, LiveTyped, Generations, Start, Takes
<1>8. Sessions'
  BY DEF PanelInv, Sessions, Start
<1>9. Sending'
  BY DEF PanelInv, Phases, Sending, Start, Pending
<1>10. Streams'
  BY DEF PanelInv, PanelTypeOK, Streams, Start
<1>11. Silent'
  BY DEF PanelInv, PanelTypeOK, LiveTyped, Generations, Silent, Start, EndPipe,
    PipeEnded, Closed, Quiet, Coming, Busy, IsCurrent
<1> QED
  BY <1>1, <1>2, <1>3, <1>4, <1>5, <1>6, <1>7, <1>8, <1>9, <1>10, <1>11 DEF PanelInv,
    PanelTypeOK

LEMMA StartRefusedKeeps == ASSUME PanelInv, StartRefused PROVE PanelInv'
<1>1. ShownTyped'
  BY DEF PanelInv, PanelTypeOK, ShownTyped, StartRefused
<1>2. RecorderTyped'
  BY ApiAssumption DEF PanelInv, PanelTypeOK, RecorderTyped, StartRefused, Disposed
<1>3. WorkTyped'
  BY ApiAssumption DEF PanelInv, PanelTypeOK, WorkTyped, StartRefused
<1>4. LiveTyped'
  BY ApiAssumption DEF PanelInv, PanelTypeOK, LiveTyped, StartRefused
<1>5. PipeTyped'
  BY DEF PanelInv, PanelTypeOK, PipeTyped, StartRefused, EndPipe, PipeEnded, Closed
<1>6. Phases'
  BY DEF PanelInv, Phases, StartRefused
<1>7. Generations'
  BY DEF PanelInv, PanelTypeOK, LiveTyped, Generations, StartRefused
<1>8. Sessions'
  BY DEF PanelInv, Sessions, StartRefused
<1>9. Sending'
  BY DEF PanelInv, Phases, Sending, StartRefused, Pending
<1>10. Streams'
  BY DEF PanelInv, PanelTypeOK, Streams, StartRefused, Disposed
<1>11. Silent'
  BY DEF PanelInv, PanelTypeOK, LiveTyped, Generations, Silent, StartRefused, EndPipe,
    PipeEnded, Closed, Quiet, Coming, Busy, IsCurrent
<1> QED
  BY <1>1, <1>2, <1>3, <1>4, <1>5, <1>6, <1>7, <1>8, <1>9, <1>10, <1>11 DEF PanelInv,
    PanelTypeOK

LEMMA StopKeeps == ASSUME PanelInv, Stop PROVE PanelInv'
<1>1. ShownTyped'
  BY DEF PanelInv, PanelTypeOK, ShownTyped, Stop
<1>2. RecorderTyped'
  BY ApiAssumption DEF PanelInv, PanelTypeOK, RecorderTyped, Phases, Sessions, Stop,
    Uploads, Takes
<1>3. WorkTyped'
  BY DEF PanelInv, PanelTypeOK, WorkTyped, Stop, workVars
<1>4. LiveTyped'
  BY DEF PanelInv, PanelTypeOK, LiveTyped, Stop
<1>5. PipeTyped'
  BY DEF PanelInv, PanelTypeOK, PipeTyped, Stop, EndPipe, PipeEnded, Closed
<1>6. Phases'
  BY DEF PanelInv, Phases, Stop, workVars
<1>7. Generations'
  BY DEF PanelInv, PanelTypeOK, LiveTyped, Generations, Stop
<1>8. Sessions'
  BY DEF PanelInv, Sessions, Stop
<1>9. Sending'
  BY DEF PanelInv, PanelTypeOK, LiveTyped, Phases, Generations, Sessions, Sending, Stop,
    workVars, Pending, None
<1>10. Streams'
  BY DEF PanelInv, PanelTypeOK, Phases, Streams, Stop, None, Takes
<1>11. Silent'
  <2>1. /\ live' = live /\ status' # "recording" /\ wants' = wants /\ PipeTyped
      BY DEF Stop, liveVars, PanelInv, PanelTypeOK
  <2>2. CASE choice = "hosted"
    <3>1. EndPipe /\ gen' = gen + 1
      BY <2>2 DEF Stop
    <3>2. \A r \in Takes : live[r].at # "none" => live[r].gen < gen'
      BY <3>1 DEF PanelInv, PanelTypeOK, LiveTyped, Generations
    <3> QED BY <2>1, <3>1, <3>2, PipeEnds DEF Silent, Quiet, Coming, IsCurrent
  <2>3. CASE choice # "hosted"
    <3>1. /\ UNCHANGED <<gen, pipe, socket, live>>
          /\ excused' = IF wants THEN excused \cup {"switched"} ELSE excused
      BY <2>1, <2>3 DEF Stop
    <3>2. Quiet => Quiet'
      BY <3>1 DEF Quiet, Coming, IsCurrent, Busy
    <3> QED BY <2>1, <3>1, <3>2 DEF Silent, PanelInv
  <2> QED BY <2>2, <2>3
<1> QED
  BY <1>1, <1>2, <1>3, <1>4, <1>5, <1>6, <1>7, <1>8, <1>9, <1>10, <1>11 DEF PanelInv,
    PanelTypeOK

LEMMA ProcessKeeps == ASSUME PanelInv, Process PROVE PanelInv'
<1>1. ShownTyped'
  BY DEF PanelInv, PanelTypeOK, ShownTyped, Process
<1>2. RecorderTyped'
  BY DEF PanelInv, PanelTypeOK, RecorderTyped, Process, recorderVars
<1>3. WorkTyped'
  BY PanelAssumption DEF PanelInv, PanelTypeOK, WorkTyped, Process
<1>4. LiveTyped'
  BY DEF PanelInv, PanelTypeOK, LiveTyped, Process, liveVars
<1>5. PipeTyped'
  BY DEF PanelInv, PanelTypeOK, PipeTyped, Process, liveVars
<1>6. Phases'
  BY DEF PanelInv, Phases, Process, recorderVars
<1>7. Generations'
  BY DEF PanelInv, Generations, Process, recorderVars, liveVars
<1>8. Sessions'
  BY DEF PanelInv, Sessions, Process, liveVars
<1>9. Sending'
  BY DEF PanelInv, Sending, Process, recorderVars, liveVars, Pending
<1>10. Streams'
  BY DEF PanelInv, PanelTypeOK, Streams, Process, recorderVars
<1>11. Silent'
  BY DEF PanelInv, Silent, Process, liveVars, Quiet, Coming, Busy, IsCurrent
<1> QED
  BY <1>1, <1>2, <1>3, <1>4, <1>5, <1>6, <1>7, <1>8, <1>9, <1>10, <1>11 DEF PanelInv,
    PanelTypeOK

LEMMA LeaveKeeps == ASSUME PanelInv, Leave PROVE PanelInv'
<1>1. ShownTyped'
  BY DEF PanelInv, PanelTypeOK, ShownTyped, Leave
<1>2. RecorderTyped'
  BY ApiAssumption DEF PanelInv, PanelTypeOK, RecorderTyped, Leave, Disposed, Uploads
<1>3. WorkTyped'
  BY DEF PanelInv, PanelTypeOK, WorkTyped, Leave
<1>4. LiveTyped'
  BY DEF PanelInv, PanelTypeOK, LiveTyped, Leave
<1>5. PipeTyped'
  BY DEF PanelInv, PanelTypeOK, PipeTyped, Leave, EndPipe, PipeEnded, Closed
<1>6. Phases'
  BY DEF PanelInv, Phases, Leave
<1>7. Generations'
  BY DEF PanelInv, Generations, Leave
<1>8. Sessions'
  BY DEF PanelInv, Sessions, Leave
<1>9. Sending'
  BY DEF PanelInv, Sending, Leave, Pending
<1>10. Streams'
  BY DEF PanelInv, PanelTypeOK, Streams, Leave, Disposed
<1>11. Silent'
  BY DEF Silent, Leave, EndPipe, IsCurrent, PipeEnded, Closed, Quiet, Coming, Busy
<1> QED
  BY <1>1, <1>2, <1>3, <1>4, <1>5, <1>6, <1>7, <1>8, <1>9, <1>10, <1>11 DEF PanelInv,
    PanelTypeOK

LEMMA GrantedKeeps == ASSUME PanelInv, Granted PROVE PanelInv'
<1>1. ShownTyped'
  BY DEF PanelInv, PanelTypeOK, ShownTyped, Granted, Shows
<1>2. RecorderTyped'
  BY DEF PanelInv, PanelTypeOK, ShownTyped, RecorderTyped, Granted
<1>3. WorkTyped'
  BY DEF PanelInv, PanelTypeOK, WorkTyped, Granted, workVars
<1>4. LiveTyped'
  BY DEF PanelInv, PanelTypeOK, LiveTyped, Granted
<1>5. PipeTyped'
  BY DEF PanelInv, PanelTypeOK, PipeTyped, Granted
<1>6. Phases'
  BY DEF PanelInv, Phases, Granted, Shows, workVars
<1>7. Generations'
  BY DEF PanelInv, PanelTypeOK, LiveTyped, Generations, Granted, Takes
<1>8. Sessions'
  BY DEF PanelInv, Phases, Generations, Sessions, Granted
<1>9. Sending'
  <2>1. stopping' = stopping /\ upload' = upload /\ session' = session /\ gen' = gen /\ excused' = excused
      BY DEF Granted, recorderVars, workVars
  <2>2. \A r \in Takes : live'[r].at = "creating" => r = take \/ live'[r] = live[r]
      BY DEF Granted, PanelInv, PanelTypeOK, LiveTyped
  <2>3. live' = live \/ (wants /\ take \in Takes /\ \A u \in Pending : u.take # take)
      BY DEF Granted, PanelInv, Phases, Pending, None
  <2>4. \A u \in Pending : u.take \in Takes
      BY DEF PanelInv, PanelTypeOK, RecorderTyped, WorkTyped, Pending, Uploads, None
  <2> QED BY <2>1, <2>2, <2>3, <2>4 DEF PanelInv, Sending, Pending
<1>10. Streams'
  BY DEF PanelInv, PanelTypeOK, Phases, Streams, Granted, Shows
<1>11. Silent'
  BY DEF PanelInv, Phases, Silent, Granted, Shows, Quiet, Coming, Busy, IsCurrent
<1> QED
  BY <1>1, <1>2, <1>3, <1>4, <1>5, <1>6, <1>7, <1>8, <1>9, <1>10, <1>11 DEF PanelInv,
    PanelTypeOK

LEMMA DeniedKeeps == ASSUME PanelInv, Denied PROVE PanelInv'
<1>1. ShownTyped'
  BY DEF PanelInv, PanelTypeOK, ShownTyped, Denied, ShowsError, Shows
<1>2. RecorderTyped'
  <2>1. asking' \in BOOLEAN /\ stream' \in 0 .. MaxTakes /\ media' = "none"
    <3>1. asking' \in BOOLEAN BY Zenon DEF Denied
    <3>2. stream' = 0 /\ media' = "none" BY DEF Denied, Disposed
    <3> QED BY <3>1, <3>2, ApiAssumption
  <2>2. stopping' = stopping /\ broken' = broken
      BY DEF Denied
  <2> QED BY <2>1, <2>2 DEF PanelInv, PanelTypeOK, RecorderTyped
<1>3. WorkTyped'
  BY DEF PanelInv, PanelTypeOK, WorkTyped, Denied, workVars
<1>4. LiveTyped'
  BY DEF PanelInv, PanelTypeOK, LiveTyped, Denied, liveVars
<1>5. PipeTyped'
  BY DEF PanelInv, PanelTypeOK, PipeTyped, Denied, liveVars
<1>6. Phases'
  BY DEF PanelInv, Phases, Denied, ShowsError, workVars, Shows
<1>7. Generations'
  BY DEF PanelInv, Generations, Denied, liveVars
<1>8. Sessions'
  BY DEF PanelInv, Sessions, Denied, ShowsError, liveVars, Shows
<1>9. Sending'
  BY DEF PanelInv, Sending, Denied, liveVars, workVars, Pending
<1>10. Streams'
  BY DEF PanelInv, PanelTypeOK, Streams, Denied, Disposed, Shows
<1>11. Silent'
  BY DEF PanelInv, Phases, Silent, Denied, liveVars, Quiet, Coming, Busy, IsCurrent
<1> QED
  BY <1>1, <1>2, <1>3, <1>4, <1>5, <1>6, <1>7, <1>8, <1>9, <1>10, <1>11 DEF PanelInv,
    PanelTypeOK

LEMMA RecorderFailsKeeps == ASSUME PanelInv, RecorderFails PROVE PanelInv'
<1>1. ShownTyped'
  BY DEF PanelInv, PanelTypeOK, ShownTyped, RecorderFails, ShowsError, Shows
<1>2. RecorderTyped'
  BY ApiAssumption DEF PanelInv, PanelTypeOK, RecorderTyped, RecorderFails,
    ClosesStream, Uploads
<1>3. WorkTyped'
  BY DEF PanelInv, PanelTypeOK, WorkTyped, RecorderFails, workVars
<1>4. LiveTyped'
  BY DEF PanelInv, PanelTypeOK, LiveTyped, RecorderFails, liveVars
<1>5. PipeTyped'
  BY DEF PanelInv, PanelTypeOK, PipeTyped, RecorderFails, liveVars
<1>6. Phases'
  BY DEF PanelInv, Phases, RecorderFails, ShowsError, workVars, Shows
<1>7. Generations'
  BY DEF PanelInv, Generations, RecorderFails, liveVars
<1>8. Sessions'
  BY DEF PanelInv, Sessions, RecorderFails, ShowsError, liveVars, Shows
<1>9. Sending'
  BY DEF PanelInv, Sending, RecorderFails, liveVars, workVars, Pending
<1>10. Streams'
  BY DEF PanelInv, PanelTypeOK, Streams, RecorderFails, ClosesStream, Shows
<1>11. Silent'
  BY DEF PanelInv, Phases, Silent, RecorderFails, liveVars, Quiet, Coming, Busy,
    IsCurrent
<1> QED
  BY <1>1, <1>2, <1>3, <1>4, <1>5, <1>6, <1>7, <1>8, <1>9, <1>10, <1>11 DEF PanelInv,
    PanelTypeOK

LEMMA StoppedKeeps == ASSUME PanelInv, Stopped PROVE PanelInv'
<1>1. ShownTyped'
  BY DEF PanelInv, PanelTypeOK, ShownTyped, Stopped, shownVars
<1>2. RecorderTyped'
  BY ApiAssumption DEF PanelInv, PanelTypeOK, RecorderTyped, Stopped, ClosesStream,
    Uploads
<1>3. WorkTyped'
  BY DEF PanelInv, PanelTypeOK, RecorderTyped, WorkTyped, Stopped
<1>4. LiveTyped'
  BY DEF PanelInv, PanelTypeOK, LiveTyped, Stopped, liveVars
<1>5. PipeTyped'
  BY DEF PanelInv, PanelTypeOK, PipeTyped, Stopped, liveVars
<1>6. Phases'
  BY DEF PanelInv, Phases, Stopped, shownVars
<1>7. Generations'
  BY DEF PanelInv, Generations, Stopped, shownVars, liveVars
<1>8. Sessions'
  BY DEF PanelInv, Sessions, Stopped, shownVars, liveVars
<1>9. Sending'
  BY DEF PanelInv, Sending, Stopped, liveVars, Pending
<1>10. Streams'
  BY DEF PanelInv, PanelTypeOK, Streams, Stopped, ClosesStream
<1>11. Silent'
  BY DEF PanelInv, Silent, Stopped, shownVars, liveVars, Quiet, Coming, Busy, IsCurrent
<1> QED
  BY <1>1, <1>2, <1>3, <1>4, <1>5, <1>6, <1>7, <1>8, <1>9, <1>10, <1>11 DEF PanelInv,
    PanelTypeOK

LEMMA UploadedKeeps == ASSUME PanelInv, Uploaded PROVE PanelInv'
<1>1. ShownTyped'
  BY DEF PanelInv, PanelTypeOK, ShownTyped, Uploaded, Shows
<1>2. RecorderTyped'
  BY DEF PanelInv, PanelTypeOK, RecorderTyped, Uploaded, recorderVars
<1>3. WorkTyped'
  BY DEF PanelInv, PanelTypeOK, WorkTyped, Uploaded, Takes, Uploads
<1>4. LiveTyped'
  BY DEF PanelInv, PanelTypeOK, LiveTyped, Uploaded, MeetingMade
<1>5. PipeTyped'
  BY DEF PanelInv, PanelTypeOK, PipeTyped, Uploaded
<1>6. Phases'
  BY DEF PanelInv, Phases, Uploaded, Shows, recorderVars
<1>7. Generations'
  BY DEF PanelInv, Generations, Uploaded, MeetingMade, recorderVars
<1>8. Sessions'
  BY DEF PanelInv, Sessions, Uploaded, MeetingMade, Shows
<1>9. Sending'
  BY DEF PanelInv, Phases, Sending, Uploaded, recorderVars, Pending
<1>10. Streams'
  BY DEF PanelInv, PanelTypeOK, Phases, Streams, Uploaded, Shows, recorderVars
<1>11. Silent'
  BY DEF PanelInv, Phases, Silent, Uploaded, Quiet, Coming, Busy, IsCurrent
<1> QED
  BY <1>1, <1>2, <1>3, <1>4, <1>5, <1>6, <1>7, <1>8, <1>9, <1>10, <1>11 DEF PanelInv,
    PanelTypeOK

LEMMA UploadFailsKeeps == ASSUME PanelInv, UploadFails PROVE PanelInv'
<1>1. ShownTyped'
  BY DEF PanelInv, PanelTypeOK, ShownTyped, UploadFails, ShowsError, Shows
<1>2. RecorderTyped'
  BY DEF PanelInv, PanelTypeOK, RecorderTyped, UploadFails, recorderVars
<1>3. WorkTyped'
  BY DEF PanelInv, PanelTypeOK, WorkTyped, UploadFails, Uploads
<1>4. LiveTyped'
  BY DEF PanelInv, PanelTypeOK, LiveTyped, UploadFails, MeetingMade
<1>5. PipeTyped'
  BY DEF PanelInv, PanelTypeOK, PipeTyped, UploadFails
<1>6. Phases'
  BY DEF PanelInv, Phases, UploadFails, ShowsError, recorderVars, Shows
<1>7. Generations'
  BY DEF PanelInv, Generations, UploadFails, MeetingMade, recorderVars
<1>8. Sessions'
  BY DEF PanelInv, Sessions, UploadFails, MeetingMade, ShowsError, Shows
<1>9. Sending'
  BY DEF PanelInv, Phases, Sending, UploadFails, recorderVars, Pending
<1>10. Streams'
  BY DEF PanelInv, PanelTypeOK, Phases, Streams, UploadFails, ShowsError, recorderVars,
    Shows
<1>11. Silent'
  BY DEF PanelInv, Phases, Silent, UploadFails, Quiet, Coming, Busy, IsCurrent
<1> QED
  BY <1>1, <1>2, <1>3, <1>4, <1>5, <1>6, <1>7, <1>8, <1>9, <1>10, <1>11 DEF PanelInv,
    PanelTypeOK

LEMMA ProcessingKeeps == ASSUME PanelInv, Processing PROVE PanelInv'
<1>1. ShownTyped'
  BY DEF PanelInv, PanelTypeOK, ShownTyped, Processing, Shows
<1>2. RecorderTyped'
  BY DEF PanelInv, PanelTypeOK, RecorderTyped, Processing, recorderVars
<1>3. WorkTyped'
  BY PanelAssumption DEF PanelInv, PanelTypeOK, WorkTyped, Processing, PollFor
<1>4. LiveTyped'
  BY DEF PanelInv, PanelTypeOK, LiveTyped, Processing, liveVars
<1>5. PipeTyped'
  BY DEF PanelInv, PanelTypeOK, PipeTyped, Processing, liveVars
<1>6. Phases'
  BY DEF PanelInv, Phases, Processing, Shows, PollFor, recorderVars
<1>7. Generations'
  BY DEF PanelInv, Generations, Processing, recorderVars, liveVars
<1>8. Sessions'
  BY DEF PanelInv, Sessions, Processing, Shows, liveVars
<1>9. Sending'
  BY DEF PanelInv, Sending, Processing, recorderVars, liveVars, Pending
<1>10. Streams'
  BY DEF PanelInv, PanelTypeOK, Phases, Streams, Processing, Shows, recorderVars
<1>11. Silent'
  BY DEF PanelInv, Phases, Silent, Processing, liveVars, Quiet, Coming, Busy, IsCurrent
<1> QED
  BY <1>1, <1>2, <1>3, <1>4, <1>5, <1>6, <1>7, <1>8, <1>9, <1>10, <1>11 DEF PanelInv,
    PanelTypeOK

LEMMA ProcessFailsKeeps == ASSUME PanelInv, ProcessFails PROVE PanelInv'
<1>1. ShownTyped'
  BY DEF PanelInv, PanelTypeOK, ShownTyped, ProcessFails, ShowsError, Shows
<1>2. RecorderTyped'
  BY DEF PanelInv, PanelTypeOK, RecorderTyped, ProcessFails, recorderVars
<1>3. WorkTyped'
  BY PanelAssumption DEF PanelInv, PanelTypeOK, WorkTyped, ProcessFails, PollFor
<1>4. LiveTyped'
  BY DEF PanelInv, PanelTypeOK, LiveTyped, ProcessFails, liveVars
<1>5. PipeTyped'
  BY DEF PanelInv, PanelTypeOK, PipeTyped, ProcessFails, liveVars
<1>6. Phases'
  BY DEF PanelInv, Phases, ProcessFails, ShowsError, PollFor, recorderVars, Shows
<1>7. Generations'
  BY DEF PanelInv, Generations, ProcessFails, recorderVars, liveVars
<1>8. Sessions'
  BY DEF PanelInv, Sessions, ProcessFails, ShowsError, liveVars, Shows
<1>9. Sending'
  BY DEF PanelInv, Sending, ProcessFails, recorderVars, liveVars, Pending
<1>10. Streams'
  BY DEF PanelInv, PanelTypeOK, Phases, Streams, ProcessFails, ShowsError, recorderVars,
    Shows
<1>11. Silent'
  BY DEF PanelInv, Phases, Silent, ProcessFails, liveVars, Quiet, Coming, Busy,
    IsCurrent
<1> QED
  BY <1>1, <1>2, <1>3, <1>4, <1>5, <1>6, <1>7, <1>8, <1>9, <1>10, <1>11 DEF PanelInv,
    PanelTypeOK

LEMMA PollAsksKeeps == ASSUME PanelInv, PollAsks PROVE PanelInv'
<1>1. ShownTyped'
  BY DEF PanelInv, PanelTypeOK, ShownTyped, PollAsks, shownVars
<1>2. RecorderTyped'
  BY DEF PanelInv, PanelTypeOK, RecorderTyped, PollAsks, recorderVars
<1>3. WorkTyped'
  BY DEF PanelInv, PanelTypeOK, WorkTyped, PollAsks
<1>4. LiveTyped'
  BY DEF PanelInv, PanelTypeOK, LiveTyped, PollAsks, liveVars
<1>5. PipeTyped'
  BY DEF PanelInv, PanelTypeOK, PipeTyped, PollAsks, liveVars
<1>6. Phases'
  BY DEF PanelInv, Phases, PollAsks, shownVars, recorderVars
<1>7. Generations'
  BY DEF PanelInv, Generations, PollAsks, shownVars, recorderVars, liveVars
<1>8. Sessions'
  BY DEF PanelInv, Sessions, PollAsks, shownVars, liveVars
<1>9. Sending'
  BY DEF PanelInv, Sending, PollAsks, recorderVars, liveVars, Pending
<1>10. Streams'
  BY DEF PanelInv, PanelTypeOK, Streams, PollAsks, shownVars, recorderVars
<1>11. Silent'
  BY DEF PanelInv, Silent, PollAsks, shownVars, liveVars, Quiet, Coming, Busy, IsCurrent
<1> QED
  BY <1>1, <1>2, <1>3, <1>4, <1>5, <1>6, <1>7, <1>8, <1>9, <1>10, <1>11 DEF PanelInv,
    PanelTypeOK

LEMMA PollAnsweredKeeps == ASSUME PanelInv, PollAnswered PROVE PanelInv'
<1>1. ShownTyped'
  BY DEF PanelInv, PanelTypeOK, ShownTyped, PollAnswered, KeepsPolling
<1>2. RecorderTyped'
  BY DEF PanelInv, PanelTypeOK, RecorderTyped, PollAnswered, recorderVars
<1>3. WorkTyped'
  BY DEF PanelInv, PanelTypeOK, WorkTyped, PollAnswered, KeepsPolling
<1>4. LiveTyped'
  BY DEF PanelInv, PanelTypeOK, LiveTyped, PollAnswered, liveVars
<1>5. PipeTyped'
  BY DEF PanelInv, PanelTypeOK, PipeTyped, PollAnswered, liveVars
<1>6. Phases'
  BY DEF PanelInv, Phases, PollAnswered, KeepsPolling, recorderVars
<1>7. Generations'
  BY DEF PanelInv, Generations, PollAnswered, recorderVars, liveVars
<1>8. Sessions'
  BY DEF PanelInv, Sessions, PollAnswered, KeepsPolling, liveVars
<1>9. Sending'
  BY DEF PanelInv, Sending, PollAnswered, recorderVars, liveVars, Pending
<1>10. Streams'
  BY DEF PanelInv, PanelTypeOK, Phases, Streams, PollAnswered, recorderVars
<1>11. Silent'
  BY DEF PanelInv, Phases, Silent, PollAnswered, liveVars, Quiet, Coming, Busy,
    IsCurrent
<1> QED
  BY <1>1, <1>2, <1>3, <1>4, <1>5, <1>6, <1>7, <1>8, <1>9, <1>10, <1>11 DEF PanelInv,
    PanelTypeOK

LEMMA PollFailsKeeps == ASSUME PanelInv, PollFails PROVE PanelInv'
<1>1. ShownTyped'
  BY DEF PanelInv, PanelTypeOK, ShownTyped, PollFails
<1>2. RecorderTyped'
  BY DEF PanelInv, PanelTypeOK, RecorderTyped, PollFails, recorderVars
<1>3. WorkTyped'
  BY DEF PanelInv, PanelTypeOK, WorkTyped, PollFails
<1>4. LiveTyped'
  BY DEF PanelInv, PanelTypeOK, LiveTyped, PollFails, liveVars
<1>5. PipeTyped'
  BY DEF PanelInv, PanelTypeOK, PipeTyped, PollFails, liveVars
<1>6. Phases'
  BY DEF PanelInv, Phases, PollFails, recorderVars
<1>7. Generations'
  BY DEF PanelInv, Generations, PollFails, recorderVars, liveVars
<1>8. Sessions'
  BY DEF PanelInv, Sessions, PollFails, liveVars
<1>9. Sending'
  BY DEF PanelInv, Sending, PollFails, recorderVars, liveVars, Pending
<1>10. Streams'
  BY DEF PanelInv, PanelTypeOK, Phases, Streams, PollFails, recorderVars
<1>11. Silent'
  BY DEF PanelInv, Phases, Silent, PollFails, liveVars, Quiet, Coming, Busy, IsCurrent
<1> QED
  BY <1>1, <1>2, <1>3, <1>4, <1>5, <1>6, <1>7, <1>8, <1>9, <1>10, <1>11 DEF PanelInv,
    PanelTypeOK

LEMMA PanelSocketStepKeeps == ASSUME PanelInv, PanelSocketStep PROVE PanelInv'
<1>1. ShownTyped'
  BY DEF PanelInv, PanelTypeOK, ShownTyped, PanelSocketStep, shownVars, TokenFails,
    Connects, Drops, Reconnects
<1>2. RecorderTyped'
  BY DEF PanelInv, PanelTypeOK, RecorderTyped, PanelSocketStep, recorderVars,
    TokenFails, Connects, Drops, Reconnects
<1>3. WorkTyped'
  BY DEF PanelInv, PanelTypeOK, WorkTyped, PanelSocketStep, workVars, TokenFails,
    Connects, Drops, Reconnects
<1>4. LiveTyped'
  BY DEF PanelInv, PanelTypeOK, LiveTyped, PanelSocketStep, TokenFails, Connects, Drops,
    Reconnects
<1>5. PipeTyped'
  <2>1. socket \in Sockets
      BY DEF PanelInv, PanelTypeOK, PipeTyped, MaxReconnects, Sockets
  <2>2. socket' \in Sockets
    <3>1. CASE TokenArrives BY <2>1, <3>1 DEF TokenArrives, Sockets
    <3>2. CASE TokenFails BY <2>1, <3>2 DEF TokenFails, Sockets
    <3>3. CASE Connects BY <2>1, <3>3, SocketMoves DEF Connects
    <3>4. CASE Drops
      <4>1. CASE socket.tries < 2
        <5>1. socket' = [socket EXCEPT !.at = "waiting", !.tries = socket.tries + 1]
          BY <3>4, <4>1 DEF Drops, MaxReconnects
        <5>2. socket.tries + 1 \in 0 .. 2
          BY <2>1, <4>1 DEF Sockets
        <5> QED BY <2>1, <5>1, <5>2, SocketMoves
      <4>2. CASE ~(socket.tries < 2)
        BY <2>1, <3>4, <4>2 DEF Drops, MaxReconnects, Sockets
      <4> QED BY <4>1, <4>2
    <3>5. CASE Reconnects BY <2>1, <3>5 DEF Reconnects, Sockets
    <3> QED BY <3>1, <3>2, <3>3, <3>4, <3>5 DEF PanelSocketStep, SocketStep
  <2> QED BY <2>2 DEF PanelSocketStep, PanelInv, PanelTypeOK, PipeTyped, MaxReconnects, Sockets
<1>6. Phases'
  BY DEF PanelInv, Phases, PanelSocketStep, shownVars, recorderVars, workVars,
    TokenFails, Connects, Drops, Reconnects
<1>7. Generations'
  BY DEF PanelInv, Generations, PanelSocketStep, shownVars, recorderVars, TokenFails,
    Connects, Drops, Reconnects
<1>8. Sessions'
  BY DEF PanelInv, Sessions, PanelSocketStep, shownVars, TokenFails, Connects, Drops,
    Reconnects
<1>9. Sending'
  BY DEF PanelInv, Sending, PanelSocketStep, recorderVars, workVars, TokenFails,
    Connects, Drops, Reconnects, Pending
<1>10. Streams'
  BY DEF PanelInv, PanelTypeOK, Streams, PanelSocketStep, shownVars, recorderVars,
    TokenFails, Connects, Drops, Reconnects
<1>11. Silent'
  BY DEF PanelInv, PanelTypeOK, PipeTyped, Silent, PanelSocketStep, SocketStep,
    shownVars, TokenArrives, TokenFails, Connects, Drops, Reconnects, Quiet, Coming,
    Busy, IsCurrent
<1> QED
  BY <1>1, <1>2, <1>3, <1>4, <1>5, <1>6, <1>7, <1>8, <1>9, <1>10, <1>11 DEF PanelInv,
    PanelTypeOK

LEMMA SessionCreatedKeeps == ASSUME PanelInv, NEW r \in Takes, SessionCreated(r) PROVE PanelInv'
<1>1. status' = status /\ wants' = wants /\ take' = take /\ gen' = gen /\ asking' = asking
      /\ stopping' = stopping /\ upload' = upload /\ excused' = excused
    BY DEF SessionCreated, shownVars, recorderVars, workVars
<1>2. live[r].at = "creating" /\ session[r] = "none" /\ LiveTyped /\ PipeTyped
    BY DEF SessionCreated, PanelInv, PanelTypeOK, Sessions
<1>3. IsCurrent(r) =>
      LiveTyped' /\ PipeTyped' /\ Generations' /\ Sessions' /\ Sending' /\ Silent'
  <2> HAVE IsCurrent(r)
  <2>1. /\ session' = [session EXCEPT ![r] = "open"] /\ liveSession' = r
        /\ pipe' = [take |-> r, tracker |-> TRUE, capture |-> "starting"]
        /\ socket' = [at |-> "idle", tries |-> 0, ended |-> FALSE]
        /\ live' = [live EXCEPT ![r].at = "capturing"]
    BY DEF SessionCreated, NewSocket
  <2>2. r = take /\ wants /\ ~asking /\ gen = live[r].gen
    BY <1>2 DEF PanelInv, Generations, IsCurrent, LiveTyped
  <2>3. excused # {} \/ status = "recording"
    BY <1>2 DEF PanelInv, Silent, Quiet, Coming
  <2>4. LiveTyped'
    <3>1. live' \in [Takes -> [at : {"none", "creating", "capturing", "over"}, gen : Nat]]
      BY <1>2, <2>1 DEF LiveTyped
    <3>2. session' \in [Takes -> {"none", "open", "deleted", "bound"}]
      BY <1>2, <2>1 DEF LiveTyped
    <3>3. liveSession' \in 0 .. MaxTakes
      BY <1>2, <2>1, ApiAssumption DEF LiveTyped, Takes
    <3> QED BY <1>1, <1>2, <3>1, <3>2, <3>3 DEF LiveTyped
  <2>5. PipeTyped'
    BY <2>1 DEF PipeTyped, Takes, MaxReconnects
  <2>6. Generations'
    BY <1>1, <1>2, <2>1, <2>2 DEF PanelInv, Generations, LiveTyped
  <2>7. Sessions'
    BY <1>1, <1>2, <2>1, <2>2 DEF PanelInv, Sessions, LiveTyped
  <2>8. Sending'
    <3>1. \A u \in Pending : u.take = r => "switched" \in excused
      BY <1>2, <2>2 DEF PanelInv, Sending, Pending, LiveTyped
    <3> QED BY <1>1, <1>2, <2>1, <3>1 DEF PanelInv, Sending, Pending, LiveTyped
  <2>9. Silent'
    BY <1>1, <2>2, <2>3 DEF Silent
  <2> QED
    BY <2>4, <2>5, <2>6, <2>7, <2>8, <2>9
<1>4. ~IsCurrent(r) =>
      LiveTyped' /\ PipeTyped' /\ Generations' /\ Sessions' /\ Sending' /\ Silent'
  <2> HAVE ~IsCurrent(r)
  <2>1. /\ session' = [session EXCEPT ![r] = "deleted"]
        /\ live' = [live EXCEPT ![r].at = "over"]
        /\ UNCHANGED <<liveSession, pipe, socket>>
    BY DEF SessionCreated, Over
  <2>2. LiveTyped'
    BY <1>1, <1>2, <2>1, ApiAssumption DEF LiveTyped, Takes
  <2>3. PipeTyped'
    BY <1>2, <2>1 DEF PipeTyped, Takes, MaxReconnects
  <2>4. Generations'
    BY <1>1, <1>2, <2>1 DEF PanelInv, Generations, LiveTyped
  <2>5. Sessions'
    BY <1>1, <1>2, <2>1 DEF PanelInv, Sessions, LiveTyped
  <2>6. Sending'
     BY <1>1, <1>2, <2>1 DEF PanelInv, Sending, Pending, LiveTyped
  <2>7. Silent'
    BY <1>1, <1>2, <2>1 DEF PanelInv, Silent, Quiet, Coming, IsCurrent, Busy, LiveTyped
  <2> QED
    BY <2>2, <2>3, <2>4, <2>5, <2>6, <2>7
<1>5. ShownTyped'
  BY DEF PanelInv, PanelTypeOK, ShownTyped, SessionCreated, shownVars
<1>6. RecorderTyped'
  BY DEF PanelInv, PanelTypeOK, RecorderTyped, SessionCreated, recorderVars
<1>7. WorkTyped'
  BY DEF PanelInv, PanelTypeOK, WorkTyped, SessionCreated, workVars
<1>8. Phases'
  BY DEF PanelInv, Phases, SessionCreated, shownVars, recorderVars, workVars
<1>9. Streams'
  BY DEF PanelInv, PanelTypeOK, Streams, SessionCreated, shownVars, recorderVars
<1> QED
  BY <1>3, <1>4, <1>5, <1>6, <1>7, <1>8, <1>9 DEF PanelInv, PanelTypeOK


LEMMA SessionRefusedKeeps == ASSUME PanelInv, NEW r \in Takes, SessionRefused(r) PROVE PanelInv'
<1>1. /\ live' = [live EXCEPT ![r].at = "over"] /\ session' = session
      /\ gen' = gen /\ take' = take /\ status' = status
    BY DEF SessionRefused, Over, LiveFails
<1>2. liveSession' \in {0, liveSession}
    BY DEF SessionRefused, LiveFails
<1>3. liveSession' # liveSession => r = take /\ session[r] = "none"
    BY DEF SessionRefused, LiveFails, IsCurrent, PanelInv, PanelTypeOK, LiveTyped, Generations,
       Sessions
<1>4. LiveTyped'
    BY <1>1, <1>2, ApiAssumption DEF PanelInv, PanelTypeOK, LiveTyped
<1>5. Sessions'
    BY <1>1, <1>2, <1>3 DEF PanelInv, PanelTypeOK, LiveTyped, Sessions
<1>6. ShownTyped'
  BY DEF PanelInv, PanelTypeOK, ShownTyped, SessionRefused, LiveFails
<1>7. RecorderTyped'
  BY DEF PanelInv, PanelTypeOK, RecorderTyped, SessionRefused, LiveFails
<1>8. WorkTyped'
  BY DEF PanelInv, PanelTypeOK, WorkTyped, SessionRefused, workVars
<1>9. PipeTyped'
  BY DEF PanelInv, PanelTypeOK, PipeTyped, SessionRefused
<1>10. Phases'
  BY DEF PanelInv, Phases, SessionRefused, LiveFails, workVars
<1>11. Generations'
  BY DEF PanelInv, Generations, SessionRefused, Over
<1>12. Sending'
  BY DEF PanelInv, Sending, SessionRefused, Over, workVars, Pending
<1>13. Streams'
  BY DEF PanelInv, PanelTypeOK, Streams, SessionRefused, LiveFails
<1>14. Silent'
  BY DEF PanelInv, Silent, SessionRefused, Over, LiveFails, IsCurrent, Quiet, Coming,
    Busy
<1> QED
  BY <1>4, <1>5, <1>6, <1>7, <1>8, <1>9, <1>10, <1>11, <1>12, <1>13, <1>14 DEF PanelInv,
    PanelTypeOK

LEMMA CaptureStartedKeeps == ASSUME PanelInv, NEW r \in Takes, CaptureStarted(r) PROVE PanelInv'
<1>1. ShownTyped'
  BY DEF PanelInv, PanelTypeOK, ShownTyped, CaptureStarted, shownVars
<1>2. RecorderTyped'
  BY DEF PanelInv, PanelTypeOK, RecorderTyped, CaptureStarted, recorderVars
<1>3. WorkTyped'
  BY DEF PanelInv, PanelTypeOK, WorkTyped, CaptureStarted, workVars
<1>4. LiveTyped'
  BY DEF PanelInv, PanelTypeOK, LiveTyped, CaptureStarted, Over
<1>5. PipeTyped'
  <2>1. pipe' \in [take : 0 .. MaxTakes, tracker : BOOLEAN,
                   capture : {"none", "starting", "running", "stopped"}]
      BY DEF CaptureStarted, PanelInv, PanelTypeOK, PipeTyped
  <2>2. socket' \in Sockets
    <3>1. CASE IsCurrent(r) BY <3>1 DEF CaptureStarted, Opened, Sockets
    <3>2. CASE ~IsCurrent(r)
       BY <3>2 DEF CaptureStarted, Sockets, PanelInv, PanelTypeOK, PipeTyped, MaxReconnects
    <3> QED BY <3>1, <3>2
  <2> QED BY <2>1, <2>2 DEF PipeTyped, MaxReconnects, Sockets
<1>6. Phases'
  BY DEF PanelInv, Phases, CaptureStarted, shownVars, recorderVars, workVars
<1>7. Generations'
  BY DEF PanelInv, Generations, CaptureStarted, Over, shownVars, recorderVars
<1>8. Sessions'
  BY DEF PanelInv, Sessions, CaptureStarted, Over, shownVars
<1>9. Sending'
  BY DEF PanelInv, Sending, CaptureStarted, Over, recorderVars, workVars, Pending
<1>10. Streams'
  BY DEF PanelInv, PanelTypeOK, Streams, CaptureStarted, shownVars, recorderVars
<1>11. Silent'
  BY DEF PanelInv, Silent, CaptureStarted, Over, IsCurrent, shownVars, Quiet, Coming,
    Busy
<1> QED
  BY <1>1, <1>2, <1>3, <1>4, <1>5, <1>6, <1>7, <1>8, <1>9, <1>10, <1>11 DEF PanelInv,
    PanelTypeOK

LEMMA CaptureFailsKeeps == ASSUME PanelInv, NEW r \in Takes, CaptureFails(r) PROVE PanelInv'
<1>1. ShownTyped'
  BY DEF PanelInv, PanelTypeOK, ShownTyped, CaptureFails, LiveFails
<1>2. RecorderTyped'
  BY DEF PanelInv, PanelTypeOK, RecorderTyped, CaptureFails, LiveFails
<1>3. WorkTyped'
  BY DEF PanelInv, PanelTypeOK, WorkTyped, CaptureFails, workVars
<1>4. LiveTyped'
  BY ApiAssumption DEF PanelInv, PanelTypeOK, LiveTyped, CaptureFails, Over, LiveFails
<1>5. PipeTyped'
  BY DEF PanelInv, PanelTypeOK, PipeTyped, CaptureFails
<1>6. Phases'
  BY DEF PanelInv, Phases, CaptureFails, LiveFails, workVars
<1>7. Generations'
  BY DEF PanelInv, Generations, CaptureFails, Over
<1>8. Sessions'
  BY DEF PanelInv, PanelTypeOK, LiveTyped, Generations, Sessions, CaptureFails, Over,
    LiveFails, IsCurrent
<1>9. Sending'
  BY DEF PanelInv, Sending, CaptureFails, Over, workVars, Pending
<1>10. Streams'
  BY DEF PanelInv, PanelTypeOK, Streams, CaptureFails, LiveFails
<1>11. Silent'
  BY DEF PanelInv, Silent, CaptureFails, Over, LiveFails, IsCurrent, Quiet, Coming, Busy
<1> QED
  BY <1>1, <1>2, <1>3, <1>4, <1>5, <1>6, <1>7, <1>8, <1>9, <1>10, <1>11 DEF PanelInv,
    PanelTypeOK

-----------------------------------------------------------------------------
(* The theorems.                                                            *)

LEMMA PanelInvInit == BrowserInit => PanelInv
<1> SUFFICES ASSUME NEW s \in {"idle", "gone"}, PanelInit(s) PROVE PanelInv
  BY DEF BrowserInit
<1>1. PanelTypeOK
  <2>1. ShownTyped
    <3>1. wants \in BOOLEAN /\ error \in BOOLEAN
      BY Zenon DEF PanelInit
    <3>2. status \in {"idle", "gone"} /\ choice \in {"local", "hosted"} /\ take = 0 /\ excused = {}
      BY DEF PanelInit
    <3> QED
      BY <3>1, <3>2, ApiAssumption DEF ShownTyped
  <2>2. RecorderTyped /\ WorkTyped
    <3>1. asking \in BOOLEAN /\ broken \in BOOLEAN
      BY Zenon DEF PanelInit
    <3>2. /\ stream = 0 /\ media = "none" /\ stopping = None
          /\ upload = None /\ meeting = 0 /\ posts = 0 /\ poll = "off"
      BY DEF PanelInit
    <3> QED
      BY <3>1, <3>2, ApiAssumption, PanelAssumption DEF RecorderTyped, WorkTyped, Uploads
  <2>3. LiveTyped
    BY ApiAssumption DEF PanelInit, LiveTyped
  <2>4. PipeTyped
    BY ApiAssumption DEF PanelInit, PipeTyped, NoPipe, NewSocket, MaxReconnects
  <2> QED
    BY <2>1, <2>2, <2>3, <2>4 DEF PanelTypeOK
<1>2. Phases /\ Sending /\ Streams
  BY DEF PanelInit, Phases, Sending, Streams, Pending
<1>3. Generations /\ Sessions
  BY DEF PanelInit, Generations, Sessions
<1>4. Silent
  BY DEF PanelInit, Silent, Quiet, Coming, NoPipe, NewSocket, Busy
<1> QED
  BY <1>1, <1>2, <1>3, <1>4 DEF PanelInv

LEMMA PanelStutters == ASSUME PanelInv, UNCHANGED panelVars PROVE PanelInv'
  BY DEF PanelInv, PanelTypeOK, ShownTyped, RecorderTyped, WorkTyped, LiveTyped, PipeTyped,
     Phases, Generations, Sessions, Sending, Pending, Streams, Silent, Quiet, Coming, IsCurrent,
     Busy, panelVars, shownVars, recorderVars, liveVars, workVars

LEMMA PanelStepKeeps == ASSUME PanelInv, PanelStep PROVE PanelInv'
<1>1. CASE Click
  BY <1>1, ChooseKeeps, StartKeeps, StartRefusedKeeps, StopKeeps, ProcessKeeps, LeaveKeeps
     DEF Click
<1>2. CASE RecorderStep
  BY <1>2, GrantedKeeps, DeniedKeeps, RecorderFailsKeeps, StoppedKeeps DEF RecorderStep
<1>3. CASE RequestStep
  BY <1>3, UploadedKeeps, UploadFailsKeeps, ProcessingKeeps, ProcessFailsKeeps, PollAsksKeeps,
     PollAnsweredKeeps, PollFailsKeeps DEF RequestStep
<1>4. CASE PanelSocketStep
  BY <1>4, PanelSocketStepKeeps
<1>5. ASSUME NEW r \in Takes, LiveStep(r) PROVE PanelInv'
  BY <1>5, SessionCreatedKeeps, SessionRefusedKeeps, CaptureStartedKeeps, CaptureFailsKeeps
     DEF LiveStep
<1> QED
  BY <1>1, <1>2, <1>3, <1>4, <1>5 DEF PanelStep

LEMMA PanelInvNext == PanelInv /\ [Next]_browserVars => PanelInv'
<1> SUFFICES ASSUME PanelInv, [Next]_browserVars PROVE PanelInv'
  OBVIOUS
<1>1. PanelStep \/ UNCHANGED panelVars
  BY DEF Next, PanelWorker, browserVars
<1> QED
  BY <1>1, PanelStepKeeps, PanelStutters

LEMMA PanelInvAlways == BrowserSpec => []PanelInv
  BY PanelInvInit, PanelInvNext, PTL DEF BrowserSpec

\* Every variable of the panel keeps its type.
THEOREM TypeCorrect == BrowserSpec => []PanelTypeOK
<1>1. PanelInv => PanelTypeOK
  BY DEF PanelInv
<1> QED
  BY <1>1, PanelInvAlways, PTL

\* A recording is sent with its own live session or, when it has none that could hold
\* names, with none (OwnSession): handleStop, and the generations of startLivePipeline.
THEOREM OwnSessionTheorem == BrowserSpec => []OwnSession
<1>1. PanelInv => OwnSession
  BY DEF PanelInv, Sending, Pending, OwnSession
<1> QED
  BY <1>1, PanelInvAlways, PTL

\* No stream, tracker, capture or connection outlives its recording, but in the two named
\* cases (NothingLeftRunning): handleStop, the unmount effect, dispose() and close().
THEOREM NothingLeftTheorem == BrowserSpec => []NothingLeftRunning
<1>1. PanelInv => NothingLeftRunning
  BY DEF PanelInv, Phases, Streams, Silent, Quiet, NothingLeftRunning, None
<1> QED
  BY <1>1, PanelInvAlways, PTL

\* The recorder stops only for the reasons named (LiveNeverStopsRecording): no failure of
\* the live pipeline reaches it.
THEOREM LiveNeverStopsTheorem == BrowserSpec => LiveNeverStopsRecording
<1>1. PanelInv /\ [Next]_browserVars =>
          [media = "recording" /\ media' # "recording" =>
               stopping # None \/ broken' \/ status' = "gone"]_<<panelVars, apiVars>>
  <2> SUFFICES ASSUME PanelInv, [Next]_browserVars, media = "recording", media' # "recording"
               PROVE  stopping # None \/ broken' \/ status' = "gone"
    OBVIOUS
  <2>1. PanelStep
    BY DEF Next, PanelWorker, browserVars, panelVars, recorderVars
  <2>2. ~asking /\ (status \in {"recording", "gone"} \/ stopping # None)
    BY DEF PanelInv, Streams
  <2>3. CASE Click
    BY <2>2, <2>3 DEF Click, Choose, Start, StartRefused, Stop, Process, Leave, recorderVars, PanelInv, Phases
  <2>4. CASE RecorderStep
    BY <2>2, <2>4 DEF RecorderStep, Granted, Denied, RecorderFails, Stopped
  <2>5. media' = media \/ Click \/ RecorderStep
    <3>1. CASE RequestStep
      BY <3>1 DEF RequestStep, Uploaded, UploadFails, Processing, ProcessFails, PollAsks,
         PollAnswered, PollFails, recorderVars
    <3>2. CASE PanelSocketStep
      BY <3>2 DEF PanelSocketStep, recorderVars
    <3>3. ASSUME NEW r \in Takes, LiveStep(r) PROVE media' = media
      BY <3>3 DEF LiveStep, SessionCreated, SessionRefused, CaptureStarted, CaptureFails,
         LiveFails, recorderVars
    <3> QED
      BY <2>1, <3>1, <3>2, <3>3 DEF PanelStep
  <2> QED
    BY <2>3, <2>4, <2>5
<1> QED
  BY <1>1, PanelInvAlways, PTL DEF BrowserSpec, LiveNeverStopsRecording
==============================================================================
