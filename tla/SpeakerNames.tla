---------------------------- MODULE SpeakerNames -----------------------------
(***************************************************************************)
(* The way of a speaker's name: typed in the recording panel for a live    *)
(* label, kept in the live session (services/live_sessions.py, in the      *)
(* memory of the API), copied to the meeting when the recording is         *)
(* uploaded (routers/recordings.py), read and replaced by the final pass   *)
(* (services/pipeline.py), edited on the meeting page.                     *)
(*                                                                         *)
(* The rename dialog is modal, so the panel has one rename at a time and   *)
(* none when Stop is pressed; a rename whose connection broke may still    *)
(* reach its handler at any later time.                                    *)
(***************************************************************************)
EXTENDS Naturals, FiniteSets

CONSTANTS
    Recordings,   \* recordings, with their live session and their meeting
    Uploads,      \* those that are stopped and uploaded; the others' tabs are closed
    Labels,       \* canonical labels
    LabelsOf,     \* the labels the live pipeline finds in each recording
    Names,        \* display names
    NoName,
    MaxSessions,  \* MAX_SESSIONS of the store
    TTL,          \* DEFAULT_TTL_SECONDS, in ticks
    MaxClock,     \* bound on time
    MaxRenames,   \* bound on renames in the panel
    MaxLate,      \* bound on renames whose connection breaks
    MaxEdits,     \* bound on renames on the meeting page
    MaxRestarts,  \* bound on restarts of the API
    MaxRuns       \* bound on claims of a meeting

ASSUME NamesAssumption ==
    /\ Uploads \subseteq Recordings
    /\ LabelsOf \in [Recordings -> SUBSET Labels]
    /\ IsFiniteSet(Recordings) /\ IsFiniteSet(Labels)
    /\ NoName \notin Names
    /\ MaxSessions \in Nat \ {0}
    /\ {TTL, MaxClock, MaxRenames, MaxLate, MaxEdits, MaxRestarts, MaxRuns} \subseteq Nat

VARIABLES
    clock,
    session,  \* the live session of each recording; the object outlives its place in the store
    panel,    \* what the panel is doing with each recording
    upload,   \* the handler of create_recording: where it stands, what it has to copy
    meeting,  \* the meeting row with its aliases, timelines and transcript labels
    worker,   \* the run of the final pass: where it stands, what it has read
    late,     \* renames whose connection broke before they were handled
    used,     \* bounded counters
    history   \* what was acknowledged, and what may have come between

vars == <<clock, session, panel, upload, meeting, worker, late, used, history>>

Naming   == [Labels -> Names \cup {NoName}]
NoNames  == [l \in Labels |-> NoName]
Named(n) == {l \in Labels : n[l] # NoName}

Init ==
    /\ clock = 0
    /\ session = [r \in Recordings |->
                     [stored |-> FALSE, seen |-> 0, names |-> NoNames, confirmed |-> {}]]
    /\ panel = [r \in Recordings |-> "idle"]
    /\ upload = [r \in Recordings |-> [at |-> "none", todo |-> {}, size |-> 0]]
    /\ meeting = [r \in Recordings |->
                     [status |-> "none", names |-> NoNames, lines |-> {}, labels |-> {}]]
    /\ worker = [r \in Recordings |-> [at |-> "idle", lines |-> {}, names |-> NoNames]]
    /\ late = {}
    /\ used = [renames |-> 0, late |-> 0, edits |-> 0, restarts |-> 0, runs |-> 0]
    /\ history = [r \in Recordings |->
                     [latest |-> NoNames,  \* the last name acknowledged for each label
                      lastUse |-> 0,       \* when the session was last asked for
                      lost |-> FALSE,      \* the session was gone before it was copied
                      doubtful |-> {},     \* labels renamed without acknowledgement, or edited
                                           \* while the meeting was being written
                      dropped |-> {}]]     \* labels without evidence in the final pass

Count(what) == used' = [used EXCEPT ![what] = @ + 1]
Note(r, what, value) == history' = [history EXCEPT ![r][what] = value]

Tick ==
    /\ clock < MaxClock
    /\ clock' = clock + 1
    /\ UNCHANGED <<session, panel, upload, meeting, worker, late, used, history>>

-----------------------------------------------------------------------------
(* The store of live sessions.                                              *)

Fresh(r) == clock - session[r].seen <= TTL

\* _prune_locked: sessions nobody asked for within the TTL go.
Pruned == [r \in Recordings |-> [session[r] EXCEPT !.stored = @ /\ Fresh(r)]]

Stored(s) == {r \in Recordings : s[r].stored}

\* Fault: get forgets to note that the session is in use.
TouchedNot(r) == Pruned

\* get: prune, then note that the session is in use.
Touched(r) == [Pruned EXCEPT ![r].seen = IF Pruned[r].stored THEN clock ELSE @]

\* Fault: the youngest session makes room.
MakesRoomYoungest(s, r) == \A q \in Stored(s) : s[q].seen <= s[r].seen

\* create: the session asked for longest ago makes room in a full store.
MakesRoom(s, r) == \A q \in Stored(s) : s[r].seen <= s[q].seen

Full(s) == Cardinality(Stored(s)) >= MaxSessions

Without(s, r) == [s EXCEPT ![r].stored = FALSE]

-----------------------------------------------------------------------------
(* The panel and the live handlers.                                         *)

\* handleStart, create_live_session.
Start(r) ==
    /\ panel[r] = "idle"
    /\ panel' = [panel EXCEPT ![r] = "recording"]
    /\ \E o \in Stored(Pruned) \cup {r} :
           LET room == IF Full(Pruned) THEN Without(Pruned, o) ELSE Pruned
           IN  /\ IF Full(Pruned) THEN o \in Stored(Pruned) /\ MakesRoom(Pruned, o) ELSE o = r
               /\ session' = [room EXCEPT ![r].stored = TRUE, ![r].seen = clock]
    /\ Note(r, "lastUse", clock)
    /\ UNCHANGED <<clock, upload, meeting, worker, late, used>>

\* The live pipeline fails before its first window: the panel deletes the session
\* and uploads without it (startLivePipeline, delete_live_session).
LiveFails(r) ==
    /\ panel[r] = "recording"
    /\ session[r].stored /\ session[r].confirmed = {}
    /\ session' = Without(session, r)
    /\ panel' = [panel EXCEPT ![r] = "plain"]
    /\ UNCHANGED <<clock, upload, meeting, worker, late, used, history>>

\* Any other request for the session: a window that confirms nobody, a look at it.
Ask(r) ==
    /\ panel[r] = "recording"
    /\ session' = Touched(r)
    /\ Note(r, "lastUse", clock)
    /\ UNCHANGED <<clock, panel, upload, meeting, worker, late, used>>

\* A speaker window confirms a label (submit_speaker_window, apply_window).
Hear(r, l) ==
    /\ panel[r] = "recording"
    /\ l \in LabelsOf[r] \ session[r].confirmed
    /\ session' = [Touched(r) EXCEPT ![r].confirmed = IF Pruned[r].stored THEN @ \cup {l} ELSE @]
    /\ Note(r, "lastUse", clock)
    /\ UNCHANGED <<clock, panel, upload, meeting, worker, late, used>>

Accepted(r, l, n) == Pruned[r].stored /\ (n = NoName \/ l \in session[r].confirmed)

\* set_live_alias, clear_live_alias.
SetLive(r, l, n) ==
    session' = [Touched(r) EXCEPT ![r].names[l] = IF Accepted(r, l, n) THEN n ELSE @]

Rename(r, l, n) ==
    /\ panel[r] = "recording"
    /\ l \in session[r].confirmed /\ n # session[r].names[l]
    /\ used.renames < MaxRenames
    /\ Count("renames")
    /\ SetLive(r, l, n)
    /\ history' = [history EXCEPT ![r].lastUse = clock,
                                  ![r].latest[l] = IF Accepted(r, l, n) THEN n ELSE @]
    /\ UNCHANGED <<clock, panel, upload, meeting, worker, late>>

\* The connection of a rename breaks: the panel shows an error, the user goes on.
Break(r, l, n) ==
    /\ panel[r] = "recording"
    /\ l \in session[r].confirmed /\ n # session[r].names[l]
    /\ used.late < MaxLate
    /\ Count("late")
    /\ late' = late \cup {[rec |-> r, label |-> l, name |-> n]}
    /\ Note(r, "doubtful", history[r].doubtful \cup {l})
    /\ UNCHANGED <<clock, session, panel, upload, meeting, worker>>

ArriveLate(q) ==
    /\ q \in late
    /\ late' = late \ {q}
    /\ SetLive(q.rec, q.label, q.name)
    /\ Note(q.rec, "lastUse", clock)
    /\ UNCHANGED <<clock, panel, upload, meeting, worker, used>>

\* handleStop: the recording is sent, with its session unless the pipeline failed.
Stop(r) ==
    /\ r \in Uploads
    /\ panel[r] \in {"recording", "plain"}
    /\ panel' = [panel EXCEPT ![r] = "uploading"]
    /\ upload' = [upload EXCEPT ![r].at = IF panel[r] = "plain" THEN "alone"
                                                              ELSE "converting"]
    /\ UNCHANGED <<clock, session, meeting, worker, late, used, history>>

-----------------------------------------------------------------------------
(* The upload.                                                              *)

Answer(r, to) == panel' = [panel EXCEPT ![r] = to]
Move(r, to) == upload' = [upload EXCEPT ![r] = [at |-> to, todo |-> {}, size |-> 0]]

\* process_recording refuses the file: there is no meeting.
Refuse(r) ==
    /\ upload[r].at \in {"converting", "alone"}
    /\ Move(r, "over")
    /\ Answer(r, "failed")
    /\ UNCHANGED <<clock, session, meeting, worker, late, used, history>>

\* The meeting row is committed; from here on it can be queued and edited.
Register(r) ==
    /\ upload[r].at \in {"converting", "alone"}
    /\ meeting' = [meeting EXCEPT ![r].status = "uploaded"]
    /\ IF upload[r].at = "converting"
       THEN Move(r, "registered") /\ UNCHANGED panel
       ELSE Move(r, "over") /\ Answer(r, "done")
    /\ UNCHANGED <<clock, session, worker, late, used, history>>

\* _finalize_live_session: the session is looked up.
Finalize(r) ==
    /\ upload[r].at = "registered"
    /\ session' = Touched(r)
    /\ history' = [history EXCEPT ![r].lastUse = clock, ![r].lost = ~Pruned[r].stored]
    /\ IF Pruned[r].stored
       THEN /\ upload' = [upload EXCEPT ![r] = [at |-> "copying", todo |-> Named(session[r].names),
                                                size |-> Cardinality(Named(session[r].names))]]
            /\ UNCHANGED panel
       ELSE Move(r, "over") /\ Answer(r, "done")
    /\ UNCHANGED <<clock, meeting, worker, late, used>>

Resized(r) == upload[r].size \notin {0, Cardinality(Named(session[r].names))}

\* migrate_aliases: one commit for each name, read from the session when its turn comes.
CopyName(r, l) ==
    /\ upload[r].at = "copying" /\ ~Resized(r)
    /\ l \in upload[r].todo
    /\ meeting' = [meeting EXCEPT ![r].names[l] = session[r].names[l]]
    /\ upload' = [upload EXCEPT ![r].todo = @ \ {l}]
    /\ UNCHANGED <<clock, session, panel, worker, late, used, history>>

\* A name has come or gone while the dictionary was iterated: the handler ends with
\* an error, the meeting stays as it is.
CopyFails(r) ==
    /\ upload[r].at = "copying" /\ Resized(r)
    /\ Move(r, "over")
    /\ Answer(r, "failed")
    /\ UNCHANGED <<clock, session, meeting, worker, late, used, history>>

\* Fault: the timelines are committed before the names.
CopyLinesFirst(r) ==
    /\ upload[r].at = "copying" /\ ~Resized(r)
    /\ meeting' = [meeting EXCEPT ![r].lines = session[r].confirmed]
    /\ IF upload[r].todo = {}
       THEN session' = Without(session, r) /\ Move(r, "over") /\ Answer(r, "done")
       ELSE UNCHANGED <<session, upload, panel>>
    /\ UNCHANGED <<clock, worker, late, used, history>>

\* The timelines follow in one commit, and the session is no longer needed. The code
\* stores every speaker with committed spans: these are the confirmed ones, which
\* have stable speech (SpeakersHaveSpeech of LiveSpeakers).
CopyLines(r) ==
    /\ upload[r].at = "copying" /\ ~Resized(r)
    /\ upload[r].todo = {}
    /\ meeting' = [meeting EXCEPT ![r].lines = session[r].confirmed]
    /\ session' = Without(session, r)
    /\ Move(r, "over")
    /\ Answer(r, "done")
    /\ UNCHANGED <<clock, worker, late, used, history>>

\* The API restarts: the store is empty, the handlers are gone.
Restart ==
    /\ used.restarts < MaxRestarts
    /\ Count("restarts")
    /\ session' = [r \in Recordings |-> [session[r] EXCEPT !.stored = FALSE]]
    /\ upload' = [r \in Recordings |->
                     IF upload[r].at = "none" THEN upload[r]
                                              ELSE [at |-> "over", todo |-> {}, size |-> 0]]
    /\ panel' = [r \in Recordings |-> IF panel[r] = "uploading" THEN "failed" ELSE panel[r]]
    /\ late' = {}
    /\ UNCHANGED <<clock, meeting, worker, history>>

-----------------------------------------------------------------------------
(* The meeting.                                                             *)

\* queue_processing and the claim of a worker.
Claim(r) ==
    /\ meeting[r].status \in {"uploaded", "failed"}
    /\ worker[r].at = "idle"
    /\ used.runs < MaxRuns
    /\ Count("runs")
    /\ meeting' = [meeting EXCEPT ![r].status = "processing"]
    /\ worker' = [worker EXCEPT ![r].at = "claimed"]
    /\ UNCHANGED <<clock, session, panel, upload, late, history>>

\* _load_live_timelines.
ReadLines(r) ==
    /\ worker[r].at = "claimed"
    /\ worker' = [worker EXCEPT ![r].at = "reading", ![r].lines = meeting[r].lines]
    /\ UNCHANGED <<clock, session, panel, upload, meeting, late, used, history>>

\* list_aliases, when there are timelines; then the inference runs.
ReadNames(r) ==
    /\ worker[r].at = "reading"
    /\ worker' = [worker EXCEPT ![r].at = "inferring",
                     ![r].names = IF worker[r].lines # {} THEN meeting[r].names ELSE NoNames]
    /\ UNCHANGED <<clock, session, panel, upload, meeting, late, used, history>>

Idle(r) == worker' = [worker EXCEPT ![r] = [at |-> "idle", lines |-> {}, names |-> NoNames]]

\* Fault: names without evidence are deleted also when nothing was reconciled.
ReconciledAlways(r, K) == [l \in Labels |-> IF l \in K THEN worker[r].names[l] ELSE NoName]

\* The names after the final pass: those read for the labels of K, which have
\* evidence, when a hosted result was reconciled; otherwise as they are.
Reconciled(r, K) ==
    IF worker[r].lines # {}
    THEN [l \in Labels |-> IF l \in K THEN worker[r].names[l] ELSE NoName]
    ELSE meeting[r].names

\* The result is written in one commit; a local result leaves the names alone.
Finish(r, K, T, hosted) ==
    /\ worker[r].at = "inferring"
    /\ Idle(r)
    /\ meeting' = [meeting EXCEPT ![r].status = "completed", ![r].labels = T,
                      ![r].names = IF hosted THEN Reconciled(r, K) ELSE @]
    /\ history' = [history EXCEPT ![r].dropped =
                      IF hosted /\ worker[r].lines # {} THEN @ \cup (Labels \ K) ELSE @]
    /\ UNCHANGED <<clock, session, panel, upload, late, used>>

Fail(r) ==
    /\ worker[r].at # "idle"
    /\ Idle(r)
    /\ meeting' = [meeting EXCEPT ![r].status = "failed", ![r].labels = {}]
    /\ UNCHANGED <<clock, session, panel, upload, late, used, history>>

\* The names of the meeting are being written or are about to be replaced.
BeingWritten(r, l) ==
    \/ upload[r].at = "registered"
    \/ upload[r].at = "copying" /\ l \in upload[r].todo
    \/ worker[r].at = "inferring"

\* set_meeting_speaker_alias, reset_meeting_speaker_alias.
Edit(r, l, n) ==
    /\ meeting[r].status # "none"
    /\ used.edits < MaxEdits
    /\ Count("edits")
    /\ n = NoName \/ meeting[r].labels = {} \/ l \in meeting[r].labels \cup Named(meeting[r].names)
    /\ meeting' = [meeting EXCEPT ![r].names[l] = n]
    /\ history' = [history EXCEPT ![r].latest[l] = n,
                      ![r].doubtful = IF BeingWritten(r, l) THEN @ \cup {l} ELSE @,
                      ![r].dropped = @ \ {l}]
    /\ UNCHANGED <<clock, session, panel, upload, worker, late>>

-----------------------------------------------------------------------------
Next ==
    \/ Tick
    \/ Restart
    \/ \E q \in late : ArriveLate(q)
    \/ \E r \in Recordings :
          \/ Start(r) \/ LiveFails(r) \/ Ask(r) \/ Stop(r)
          \/ Refuse(r) \/ Register(r) \/ Finalize(r) \/ CopyFails(r) \/ CopyLines(r)
          \/ Claim(r) \/ ReadLines(r) \/ ReadNames(r) \/ Fail(r)
          \/ \E l \in Labels :
                \/ Hear(r, l) \/ CopyName(r, l)
                \/ \E n \in Names \cup {NoName} : Rename(r, l, n) \/ Break(r, l, n) \/ Edit(r, l, n)
          \/ \E K, T \in SUBSET Labels, hosted \in BOOLEAN : Finish(r, K, T, hosted)

Spec == Init /\ [][Next]_vars

-----------------------------------------------------------------------------
\* Every variable has its type, and a recording has a meeting only once its upload
\* has got that far.
TypeOK ==
    /\ clock \in 0 .. MaxClock
    /\ session \in [Recordings -> [stored : BOOLEAN, seen : 0 .. MaxClock, names : Naming,
                                   confirmed : SUBSET Labels]]
    /\ Cardinality(Stored(session)) <= MaxSessions
    /\ panel \in [Recordings -> {"idle", "recording", "plain", "uploading", "done", "failed"}]
    /\ upload \in [Recordings ->
                      [at : {"none", "converting", "alone", "registered", "copying", "over"},
                       todo : SUBSET Labels, size : 0 .. Cardinality(Labels)]]
    /\ meeting \in [Recordings ->
                       [status : {"none", "uploaded", "processing", "completed", "failed"},
                        names : Naming, lines : SUBSET Labels, labels : SUBSET Labels]]
    /\ worker \in [Recordings -> [at : {"idle", "claimed", "reading", "inferring"},
                                  lines : SUBSET Labels, names : Naming]]
    /\ late \subseteq [rec : Recordings, label : Labels, name : Names \cup {NoName}]
    /\ used \in [renames : 0 .. MaxRenames, late : 0 .. MaxLate, edits : 0 .. MaxEdits,
                 restarts : 0 .. MaxRestarts, runs : 0 .. MaxRuns]
    /\ history \in [Recordings -> [latest : Naming, lastUse : 0 .. MaxClock, lost : BOOLEAN,
                                   doubtful : SUBSET Labels, dropped : SUBSET Labels]]

\* A final pass that finds timelines finds all the names as well, although it may
\* start at any time after the meeting row is there: the timelines are committed
\* after the last name (_finalize_live_session, process_meeting).
ReadsAllNames ==
    \A r \in Recordings : worker[r].at = "inferring" /\ worker[r].lines # {} =>
        \A l \in Labels \ history[r].doubtful :
            worker[r].names[l] \in {history[r].latest[l]} \cup
                                   (IF l \in history[r].dropped THEN {NoName} ELSE {})

\* "Speaker names typed during recording migrate to the meeting on upload": when
\* nobody is at work on a meeting it carries the last name acknowledged for each
\* label, in the panel or on its page, unless the session was gone by then, the label
\* has no evidence in the final pass, a rename went astray, or an edit met the upload
\* or the final pass while they were writing.
NamesKept ==
    \A r \in Recordings : panel[r] = "done" /\ worker[r].at = "idle" /\ ~history[r].lost =>
        \A l \in Labels \ (history[r].doubtful \cup history[r].dropped) :
            meeting[r].names[l] = history[r].latest[l]

\* A session leaves the store, before it has been copied, only when nobody asked for
\* it for longer than the TTL, when it is the one longest out of use in a full store,
\* when its own panel gives it up, or when the API restarts.
LeavesForAReason(r) ==
    session[r].stored /\ ~session'[r].stored =>
        \/ clock - history[r].lastUse > TTL
        \/ /\ \E q \in Recordings : ~session[q].stored /\ session'[q].stored
           /\ Cardinality(Stored(session)) >= MaxSessions
           /\ \A q \in Stored(session) : history[r].lastUse <= history[q].lastUse
        \/ panel'[r] \in {"plain", "done"}
        \/ used'.restarts > used.restarts

\* Sessions stay in the store while they are used, and the store never holds more
\* than its limit (LiveSessionStore).
SessionsLastWhileUsed ==
    [][/\ Cardinality(Stored(session')) <= MaxSessions
       /\ \A r \in Recordings : LeavesForAReason(r)]_vars
==============================================================================
