# A verification project for Meeting Intelligence

The repository is a meeting recorder: a browser front end records audio and
shows a live transcript, a FastAPI process stores recordings and serves
meetings, and one or more worker processes transcribe, diarize and analyse them.
API process and workers share one SQLite database (WAL, foreign keys on) and a
directory of audio artifacts. This directory holds TLA+ models of the parts that
carry the program's own logic, the TLC runs that check them and the TLAPS proofs
about them.

## 1. Inventory

| Part | State it keeps | Operations | Talks to | Modelled by |
|---|---|---|---|---|
| Job queue (`worker.py`, `services/pipeline.py`, `services/analysis_pipeline.py`) | `meetings.status`, `processing_started_at`, turns; `meeting_analyses.status`; the ORM row a slot has loaded | claim, load, complete, fail, recover, crash | the database, handlers only through it | `MeetingJobs`, `JobLifecycle` |
| Meeting handlers (`routers/meetings.py`) | none between requests | queue processing, queue or refresh analysis, delete, aliases, chat | the database, artifacts | `MeetingJobs`, `MeetingFiles`, `MeetingChat`, `SpeakerNames` |
| Recording upload (`routers/recordings.py`, `services/recordings.py`) | files of a meeting being created, the live session being copied | upload, convert, insert, roll back files, copy names | ffmpeg, live sessions, database | `MeetingFiles`, `SpeakerNames` |
| Artifacts (`delete_meeting`, `scripts/create_comparison_meeting.py`) | directories, shared between a meeting and its comparisons | reference check, unlink, share | database, file system | `MeetingFiles` |
| Live sessions (`services/live_sessions.py`) | sessions by id, speaker registry, intervals, candidates, names, last use | create, window, rename, delete, expire, evict | live router, upload | `LiveSpeakers`, `LiveVoices` (what is heard), `SpeakerNames` (the store) |
| Live window protocol (`lib/rolling-speaker.ts`, `routers/live_transcription.py`) | client and server sequence numbers, buffers, one window in flight | push, send, retry, skip, stop; sequence check, apply | HTTP, ElevenLabs | `LiveWindows` |
| Speaker names (`services/speaker_aliases.py` and everybody above) | names in the session, names of the meeting, names an upload or a final pass holds | type, copy, read, replace, edit | panel, session, meeting | `SpeakerNames` |
| Speaker matching (`services/speaker_matching.py`) | none (pure) | scoring, assignment, canonical labels, remap, aliases | live sessions, pipeline | `SpeakerMatching` |
| Transcript assembly (`services/merge.py`, the end of `process_meeting`) | none (pure) | final labels, names and turns | pipeline | `FinalSpeakers` |
| Analysis of one meeting (`services/analysis_pipeline.py`, `services/llm_provider.py`, `services/analysis_schema.py`) | none between runs | models, retries, validation, one repair, names in the prose | LLM, pipeline | `AnalysisRun`, `AnalysisOutcome` |
| Chat (`services/meeting_chat.py`) | chat messages | ask, store, clear, show | LLM, database | `MeetingChat` |
| Recording panel (`components/recording-panel.tsx`, `lib/audio-recorder.ts`, `lib/pcm-capture.ts`) | recorder, capture, live pipeline, upload, poll | start, stop, process, leave; every answer and event | browser media, API | `RecordingPanel` |
| Realtime transcript client (`lib/scribe-realtime.ts`) | one socket, its attempts | open, close, reconnect | hosted realtime service | `ScribeRealtime` |
| Meeting page (`components/meeting-detail.tsx`) | meeting, transcript, analysis, two polls, a ref | load, poll, start, retry, analyse, refresh | API | `MeetingPage` |

Hard behaviours, with the line where each bites, are the `hazards` of
`PROJECT.json`. The recurring ones:

- *Read, check, write in separate transactions.* The database driver autocommits
  SELECTs and opens a transaction at the first DML statement; the ORM then writes
  `UPDATE ... WHERE id = ?`. Every handler and worker decision is therefore made
  on a state that may have changed when it is carried out. Only the two claims
  re-check the status in the statement itself.
- *Crashes and leases.* A worker that dies leaves its row in `processing`. Rows
  are recovered by age, once, when a worker starts. An API that dies forgets
  every live session, every pending answer and every half-made directory.
- *Two sequence counters.* The browser numbers its windows, the server accepts
  only the number it expects, and either side can fail between the two.
- *Awaits with state in hand.* The panel, the page, the upload, the chat and the
  live routes read state before an `await` and use it afterwards; the front end
  guards some of these with generations, refs and `cancelled` flags.
- *Several commits for one thing.* The upload commits the row before the names
  and the names before the timelines; a deletion commits the row before it
  removes the files.

What makes each part correct, in short: the queue runs every job, never twice at
a time, and never mixes the results of two runs; a live window is folded in at
most once and in order, and one bad window does not end live diarization; a
label stands for one voice from its first window to the final transcript, and a
name stays with the voice it was typed for; a session in use is not thrown out of
the store; every recording the user stops ends as a meeting or as an error the
user sees, and nothing listens afterwards; a meeting keeps its files and files
have a meeting; a valid analysis or an error, never a half-valid one; a stored
chat is a sequence of answered questions about the transcript that is shown.

## 2. Modules

| Module | Models | State | Actions |
|---|---|---|---|
| `MeetingJobs` | the two job tables, the handlers that queue and delete, the workers | rows (`status`, `age`, `turns`, `anStatus`, `anAge`, `basis`), worker slots (`pc`, `job`, `seen`, `input`), processes (`proc`), handlers (`req`) | one per SELECT that decides something and one per committed write |
| `JobLifecycle` | what the queue promises: one owner per job, results from the owner only, recovery only of jobs nobody owns | `state`, `owners`, `result` | Submit, Enqueue, Claim, Complete, Fail, Die, Recover, Discard |
| `AnalysisRun` | one run of `process_analysis` with its LLM calls | the place of the loops (`call`, `index`, `attempt`), the accepted answer, the row | read, try again, next model, give up, break, reply, store |
| `AnalysisOutcome` | what a run promises: one result, with an answer or with an error | `row` | Complete, Fail |
| `LiveWindows` | the tracker of the browser and the sequence check of the server | counters of both sides, every request made and where its handler is | push, answer, failure, retry, stop; arrive, apply, provider failure, broken connection |
| `SpeakerMatching` | `speaker_matching.py` as pure operators on exact times | none | none |
| `LiveSpeakers` | `apply_window`: what a diarized window does to the speakers of a session | speakers, confirmed labels, candidates, last snapshot | hear a window, hear the last one again |
| `LiveVoices` | the machine over `LiveSpeakers`: any clustering, or a provider that hears the voices as they are | the voice of each turn | next window |
| `FinalSpeakers` | the final labels, names and turns of a meeting | timelines, names, words, labels, turns | finish with or without live evidence |
| `SpeakerNames` | the way of a name, and the store of live sessions | sessions, panels, uploads, meetings, workers, late requests | start, rename, stop, register, copy name by name, copy lines, claim, read, finish, edit, expire, evict, restart |
| `MeetingFiles` | directories and rows: upload, deletion with its reference check, the comparison script | rows, directories, handlers | one per commit and one per file operation that can be interrupted |
| `MeetingChat` | `MeetingFiles` with the chat | messages, pending questions | ask, answer, fail, clear, follow the meeting |
| `MeetingApi` | what the browser sees of the rows, abstractly | `row`, `analysisRow` | a worker takes, completes or fails a job |
| `ScribeRealtime` | the socket of the live transcript | `socket` | token, connect, drop, reconnect |
| `RecordingPanel` | one visit to the recording panel | recorder, live pipeline of each recording, upload, poll | one per click, answer and event |
| `MeetingPage` | one visit to the page of a meeting | the page and what is on its way | load, render, the steps of both polls, buttons, answers |
| `Browser` | a tab: the panel or the page, against the API | all of the above | their steps |
| `Folding` | a loop over a list, as `FoldLeft` defines it, and the rules to reason about one | | |
| `...Proofs` | theorems and their proofs | | |

`MCJobs`, `MCAnalysis`, `MCWindows`, `MCLive`, `MCFinal`, `MCNames` and `MCData`
give the constants their values. `SpeakerMatching` is used by both `LiveSpeakers`
and `FinalSpeakers`; `MeetingJobs` instantiates `JobLifecycle`, `AnalysisRun`
instantiates `AnalysisOutcome`. The line of the code each definition stands for
is in `PROJECT.json` under `map`. Definitions whose comment starts with *Fault:*
are not part of a specification: they are plausible mistakes, and putting one in
the place of the definition it resembles breaks the property `PROJECT.json` names
beside it.

### MeetingJobs

The grain of atomicity is what the database gives. pysqlite autocommits SELECTs
and SQLAlchemy writes at commit, so a handler is two steps: `ReadProcess`,
`ReadAnalyze` or `ReadDelete` evaluates all checks of the handler and remembers
in `req` what it will write; the `Write...` action writes by primary key without
looking again. A slot selects a candidate (`SelectMeeting`), claims it with
`UPDATE ... WHERE id = ? AND status = 'queued'` (`ClaimMeeting`, which may find
no row), loads the row into an ORM object (`LoadMeeting`; `seen` is the status
in that object, since an attribute set to the value it already had is not
written), and ends in `CompleteMeeting` or `FailMeeting`. The write of a result
is one transaction: turns, aliases and status appear together, and a row that is
gone makes the UPDATE fail. The analysis pipeline has the same shape, and starts
only where no meeting is queued. `Start`, `RecoverMeetings` and
`RecoverAnalyses` are the start of a worker process; `Crash` may come at any
point and takes all slots of the process with it; `Tick` lets leases age. What
transcription or the LLM produces is a model value; a transcript may be empty, since
the local provider completes a meeting in which it has heard no word.

Two constants name the assumptions under which the design is sound:
`JobsOutliveLease` (may a job run longer than `worker_lease_seconds`?) and
`RequestsOverlap` (may two handlers that queue work be between read and write of one
meeting?). Nothing in the code enforces either, and the panel's Process button can send
two requests. `SafeRegime` is that both are false. Deletions are not part of the
assumption: in either regime one may begin and commit while a handler or a worker is
between any two of its steps (`ReadDelete`, `WriteDelete`).

### AnalysisRun

The three nested loops are one action per outcome of a request: `TryAgain` (the
connection failed, or a status is worth a retry), `GiveUpModel`, `Break`
(an exception `analyze` does not catch, which ends the run with models left) and
`Reply`. A text of an answer is only what it says about the speakers: a label, a
name, neither, or nothing. `InProse` replaces the labels by names one after the
other, as `_apply_display_names` does. `asked` and `dropped` are history.

### LiveWindows

`Push`, `Success`, `Failure`, `Retry`, `Stop` and `LateAnswer` are the methods
and callbacks of the tracker, which the event loop runs one at a time; each
includes the `maybeSend` it ends with (`SendNext`). `Arrive` is the handler up
to its await of the provider, with the check of the sequence number; `Apply` or
`ProviderFails` is the rest. `Cut` breaks the connection of the request in
flight: the tracker sees a rejection and the handler goes on.

### SpeakerMatching, LiveSpeakers, LiveVoices, FinalSpeakers

Times are whole tenths of seconds, so sums and thresholds are exact. What float
rounding does precisely at a threshold is abstracted. `MaximumWeightMatching` is
the search of the code, row by row, with its own value for infinity;
`MatchWindow` and `MatchFinal` are the two uses of `match_speakers`. A final
speaker that has no live label is filled in by speaking time, as in
`remap_final_speakers`. The guard on `CONTINUATION_GAP_SECONDS` is kept although
it can never decide anything while it equals the gap tolerance.

`LiveSpeakers` takes a clustering of the turns of each window. `LiveVoices` says
which: in a talk that is not faithful any clustering (the provider may split a
voice, merge two, or hear nobody), in a faithful one the truth, so that only the
linking of windows can go wrong. `HearAgain` folds in the last window once more,
which happens when a connection breaks during diarization; `Shows` keeps which voices
the confirmed labels of an answer have been shown for.

`FinalSpeakers` starts from any timelines, any names and any assignment of words
to provider speakers and takes the step of `process_meeting`. A name is known by
the live label it was typed for, so that its way can be followed.

### SpeakerNames

One record per recording for each of the session, the panel, the upload handler,
the meeting and the final pass. The copy of `migrate_aliases` is one step per name,
since it commits one name at a time and iterates over the dictionary of the
session itself: a rename that arrives meanwhile makes the loop raise (`CopyFails`).
`_finalize_live_session` copies the timelines in the last commit. The store evicts
the session longest out of use when it is full and expires by last use; `clock` is
the time, and `lastUse` in `history` says independently of the store's own
bookkeeping when a session was used. A rename whose connection breaks stays in
`late` and may reach its handler at any later time. `doubtful` and `dropped`
remember which labels nobody could say the right name of: a rename went astray, an
edit met a write, or the final pass found no evidence for the label.

### MeetingFiles, MeetingChat

Directories are named after the recording they were made for. `DeleteReads`
collects the paths, `DeleteCommits` removes the row, `CleanLooks` is the
reference check of one file and `CleanUnlinks` the unlinking, so that two deletions
and a script can come between any two. `FilesCrash` stops the API anywhere.
Removing is best effort in the code: `Discard` leaves what `rmtree` cannot remove,
`UnlinkSource` may fail (and the request with it), and `CleanUnlinks` may leave its file
and goes on with the next one. `stuck` remembers which files these were.
`Ask` remembers the turns the question was asked about; `Answered` checks the
ordinals against these turns and stores question and answer in one commit, if the
meeting is still there. `Shown` resolves the stored ordinals against the turns the
meeting has when the page is opened.

### Browser

The event loop runs one callback at a time: an action is everything from an
event to the next `await`. `RecordingPanel` gives each recording a record of its
`startLivePipeline` (`live`), with the generation it was started under; `pipe` and
`socket` are what the refs of the panel point to. `Leave` is the unmount effect.
`MeetingPage` separates a setter (`Set`) from the rendering that follows
(`Render`), since an effect that depends on the state is cleaned up only
then, and the poll goes on in between. A request that fails may have had its effect
on the server. `MeetingApi` is `MeetingJobs` seen through its rows: the pages only
read statuses and post two requests.

## 3. Runs

| Run | What it asks | Outcome |
|---|---|---|
| `jobs_safe` | two processes, two handlers, two meetings in the safe regime, deletions at any time: one worker per job, analyses of the transcript there is, nothing written for a deleted meeting, final transcripts, refinement of `JobLifecycle` | holds |
| `jobs_live` | one process with two slots, crashes and restarts, jobs of any length: queued work runs and expired jobs are recovered at a start | holds |
| `analysis_run` | two settings, two names, two calls: no model is asked once it has refused, the provider is blamed only when every model has been tried, what is stored is grounded in the transcript and under the names typed, the run ends, refinement of `AnalysisOutcome` | holds |
| `windows_run` | provider failures and lost responses: order, progress, recovery of the counters | holds |
| `windows_skip` | "skip this snapshot and continue with the next one" (`rolling-speaker.ts:120`) | violated: the server still waits for the skipped number |
| `live_registry` | four windows with any clustering, one repeated: dense and bounded labels, promotion on two windows, one voice per confirmed label, no empty speaker; seven windows of two voices heard correctly, one perhaps applied twice: a label never changes hands; eight windows around a long silence with any clustering: no new label while a speaker is missing, and still no empty one | holds |
| `final_names` | any words, timelines of three labels: dense labels, exact turns, names only on evidence, a maximum matching when the edges are of similar weight | holds |
| `final_matching` | "maximum-weight one-to-one matching" (`speaker_matching.py:115`) | violated: see below |
| `names_run` | a name against late requests, a restart, expiry, eviction, the copy, the final pass and an edit: acknowledged names reach the meeting, a final pass sees all names or no timelines, a session in use stays in the store | holds |
| `meeting_data` | two uploads, two deletions, a script that shares files, a crash, a file that cannot be removed and a chat: files and meetings stay together, a conversation is answered questions about the transcript shown | holds |
| `browser_run` | a visit to the panel with two recordings or to a meeting page: an upload takes its own session, nothing is left running, a live failure does not end a recording, both pages end on what the workers have done | holds |
| `page_analysis` | "finish the job by analysing" (`meeting-detail.tsx:304`) | violated: see below |

The disagreements in detail are the `findings` of `PROJECT.json`.

- `final_matching`: `maximum_weight_matching` uses costs with a factor
  `size * size + 1` and an infinity without it, so with a strong and a weak edge
  the search believes that it has reached the end and leaves the weak pair
  unmatched although both ends are free. `MaximumWhenClose` says when this does not
  happen.
- `windows_skip`: after two failures of one window the browser counts on and the
  server does not; all later windows of the recording are refused.
- `page_analysis`: the poll of the meeting page sets the completed meeting, then
  awaits the transcript. Setting the meeting makes React render, which cleans up the
  very effect the poll belongs to, so when the transcript arrives it is dropped
  (`cancelled`) and the analysis that was promised is not queued. The ref that
  remembers the promise is cleared all the same. The component test of this passes
  because its mocked answers resolve before React renders.

Met while modelling and not the subject of a run:

*Queue*

- The lease is never renewed. With `JobsOutliveLease = TRUE` a worker that starts
  takes a job somebody is still running, although "a meeting another worker is
  actively processing is never stolen" (`pipeline.py:43`). `OneWorkerPerJob` fails.
- With `RequestsOverlap = TRUE` a second `POST /process` that has read `failed`
  overwrites `processing` with `queued`, and two workers run the meeting, although
  "no duplicate work is created" (`meetings.py:214-215`).
- Jobs are put back only when a worker starts (`worker.py:74`): a worker that comes
  back within the lease finds its own job too young, and nobody looks again, although
  "a job stuck in processing longer than this ... is requeued" (`config.py:74-75`).
  `ExpiredJobsRecovered` therefore speaks of the next start after the lease.
- `delete_meeting` refuses a queued or processing meeting "so no worker writes
  into a deleted row" (`meetings.py:373-374`). Its check does not ensure that: a second
  request can queue the meeting after the check, a worker can claim it before the
  DELETE and go on after it, which `jobs_safe` allows. What ensures it is that the
  worker's write then finds no row (`NothingOutlivesDelete`). The job is run for nothing.
- Meetings are claimed by `created_at`: as long as older meetings are retried, a
  newer one waits. `QueuedWorkRuns` therefore starts where requests end.

*Speakers and names*

- Silence before a new speaker is measured from the last committed speech to the
  *start* of the window (`live_sessions.py:497`), so the new speech may be up to
  two horizons after the old; `NoNewSpeakerInSilence` states what is done.
- Spans in the stable part of several windows are committed once per window and
  weigh several times in the final evidence (`live_sessions.py:263`).
- With `CutsWhileHandled = TRUE` two handlers can pass the sequence check for the
  same number, and `AppliedInOrder` fails; the registry survives it
  (`HearAgain` in `live_registry`).
- When breaks between turns are shorter than the gap tolerance of two seconds,
  labels can change hands even with a truthful provider; a voice that is silent
  for ten seconds or more can come back under a second label.
- A local result is not reconciled with the live labels (`pipeline.py:228`), although
  "stable Kişi numbers and aliases survive the final pass" (`pipeline.py:205`): the
  names stay on labels another provider has numbered (`FinishPlain`).
- A rename that arrives while the upload copies the names changes the dictionary that
  is iterated over (`speaker_aliases.py:111`): the upload answers 500, although the
  meeting is there and can be queued. The panel shows a failed upload and the
  timelines are not copied.
- An edit on the meeting page during a final pass is replaced by the names read before
  the inference (`pipeline.py:135`). `NamesKept` counts it as doubtful.

*Analysis and chat*

- Labels in the prose are replaced one after the other, so a display name that is
  itself another label of the meeting is replaced in its turn, which the docstring
  (`analysis_pipeline.py:232-237`) does not expect. `ProseNamesSpeakers` is about names
  that are no labels.
- A name is used as a replacement template of a regular expression
  (`analysis_pipeline.py:248`): one with a backslash fails the analysis of the meeting.
- The row names the model of the first answer even when another one has repaired it.
- The timeout of a request bounds each read, not the request; an exception that
  `analyze` does not catch skips the remaining models (`Break`).
- A conversation that is cleared while an answer is pending gets that answer
  afterwards; it is still a complete pair (`CompletePairs`).

*Files*

- A crash, a source that cannot be unlinked or a commit that fails, between conversion
  and row, leaves a directory that nothing looks for. (When ffmpeg fails half-way the
  handler removes the directory.) The comparison script, given another source for an
  existing comparison, leaves the old files when nobody else refers to them. A comparison
  committed between the reference check of a deletion and its unlinking has no audio.
  These are the exceptions `leaked` and `orphaned` of `FilesHaveOwners` and `AudioKept`.
- A file that cannot be removed stays for good, without a row: "filesystem cleanup is best
  effort" (`meetings.py:380`). This is the exception `stuck`, which is file by file: the
  other files of the directory do go.

*Recording panel*

- Leaving the page while the browser asks for the microphone: `getUserMedia` resolves
  into a recorder that has been disposed of, and the stream stays open
  (`audio-recorder.ts:85`). The unmount does not advance `liveGenerationRef` either, so
  a live session that is being created is set up for a page that is gone. Excused as
  `left`.
- The provider can be switched while the prompt is open: the live pipeline starts for
  the provider chosen before, and Stop does not end it when the other one is shown.
  Excused as `switched`.
- The recorder is not forgotten when it stops, so the next Start after an upload that
  failed is refused once (`StartRefused`).
- A microphone that is unplugged leaves the panel "recording"; the recording is lost at
  Stop. An upload that fails loses the recording as well: nothing keeps the blob.
- Two clicks on Process are two requests; if the second one fails the panel goes back to
  the button although the work is under way. No token for the transcript client means no
  further attempt, while a dropped socket gets two.

*Meeting page*

- A poll that fails is followed by none: the catch says "the next poll retries", but the
  effect sets the next timer only when the meeting changes. `PageCatchesUp` asks nothing
  after a missed answer.
- A start that is answered "completed" shows the meeting as completed without reading its
  transcript.

### Bounds and why they are enough

- `jobs_*`: two slots in two processes are two competitors for every claim, two
  handlers are two competitors for every write, a transcript with turns and an empty one
  tell "the same" from "another". A second meeting shows the priority of transcription
  over analysis and oldest-first order. `Lease = 1` distinguishes a fresh, an
  expiring and an expired claim, and `age` is capped one above it because only
  the comparison is read.
- `analysis_run`: one setting has a single model, the other a list in which a name
  repeats and one is rewritten to another for opencode.ai. Two retries tell the first
  attempt, a middle one and the last apart. The answers have one of every mistake the
  checks know, and valid ones that mention a label, a name and nobody.
- `windows_*`: six steps give five windows, so a window can fail, be retried, be
  skipped and be followed by others; two provider failures are what skips a
  window and three cuts more than that.
- `live_registry`: four windows with turns of 1.4 to 3.7 seconds and breaks of
  0.2, 1.5 and 2.5 seconds lie on both sides of the thresholds of 0.3 s (merge), 0.4 s
  (overlap), 1 s (fragment, confirmation margin) and 2 s (gap). Two speakers at most are
  reached and four spans cut in the middle of a window. The faithful talk needs breaks
  over 2 s and a recording longer than the horizon of 12 s: seven windows reach
  32 s; the limit of three speakers is never met there.
  A third talk has a speaker silent beyond the horizon before three more turns
  that the provider hears in any way, so that candidates are kept waiting for good.
- `final_*`: three labels against three clusters give matchings with conflicts of
  every kind; words of 0.5, 0.8, 2 and 8 seconds give strong and weak edges. Below
  ten labels the numeric order used here and the string order of the code are the
  same.
- `names_run`: three recordings for two places in the store, of which one is uploaded
  and two only compete for places; one label and one name, since the labels do not
  interact but in the order of the copy, which is any; two renames, so that a second
  one can follow the first and one of them be late; one restart, one edit and one
  claim, each against every step of the others.
- `meeting_data`: two recordings and one comparison are what can share and exchange a
  directory; two deletions are the competitors for the last reference; two script runs
  re-point a comparison; one failure comes anywhere
  (`OneFailure`): a crash, or a file that cannot be removed, which leaves others to show that
  the clean-up goes on. The answers of the chat cite one turn twice, one that is never there
  and one that only the longer transcript has. One asker suffices for the chat,
  since an answer is stored whole; two messages are one pair that can be cleared while the
  next is on its way.
- `browser_run`: two recordings, so that answers meant for the first arrive during the
  second; two failures, so that one thing can fail because another one did; two process
  requests at a time and one refresh. The visit to the meeting page starts in any state of
  the meeting and its analysis. `page_analysis` needs none of it: the smallest instance,
  without failures.

Deadlock is checked in the runs of the queue. The other models really stop: a
recording ends, a meeting is finished, a page is left.

### Fairness

`jobs_live`: weak fairness of every slot (coroutines that poll for ever, and jobs
that end), of the start-up of a process (a supervisor restarts it; a start-up goes
through recovery once) and of time. Requests, handlers and crashes owe nothing: the
properties start where both have stopped (`Steady`). Failing is as good an end of a
job as completing.

`analysis_run`: weak fairness of reading, of a request being answered in some way (an
HTTP client with timeouts) and of storing. Which answer comes is free.

`windows_run` and `windows_skip`: weak fairness of the tracker as a whole
(audio keeps coming, timers fire, promises settle) and of each handler. Stop,
provider failures and cuts are not fair, and are bounded.

`browser_run` and `page_analysis`: the event loop delivers the stop event, answers and
timers, React renders what has been set, and each meeting's job ends. Clicks, the
permission prompt and failures owe nothing.

## 4. Proofs

Each proof module states what holds for every value of the constants, from the named
assumptions of the module it is about. In each of them one invariant is proved
inductive, by one lemma per action or per conjunct, and the theorems follow from it.
The type invariants are proved and not run.

**`MeetingJobsProofs`**, for any number of meetings, slots, processes, handlers,
transcripts and any lease:

- `TypeCorrect`, and `DeleteTheorem` (an action property): in *every* regime a deleted
  meeting stays deleted and nothing is written for it, whoever had decided or claimed
  before. Overlapping requests and stolen leases change nothing about it, because every
  write finds its row by key, turns and analyses refer to the row of their meeting, and a
  deletion takes them along in one commit (`RowsHaveMeeting`, `DeletedStays`).
- With `SafeRegime`: `JobsTheorem` (the inductive invariant), `OneWorkerTheorem`,
  `AnalysisTheorem`, `FinalTheorem` (an action property) and `LifecycleTheorem`:
  `MeetingJobs` implements `JobLifecycle`, with the slots between claim and result as
  owners of the meetings that have not been deleted under them.

None of these safety properties is inductive. That no two slots hold a
meeting needs that a held meeting is `processing` (`SlotsOwn`), so that no claim
finds it `queued`. That it stays `processing` needs the lease (a held job is not
older than it, so recovery passes it by) and the handlers: whoever has decided to
write still finds what it decided on, or finds the meeting deleted (`HandlersKnow`), which
in turn needs that no two handlers that queue work are at one meeting (`HandlersApart`). An analysis refers to the current
turns because it exists only for a completed meeting (`AnalysesGrounded`) and
its slot has read the turns that are still there (`SlotsKnow`). Their
conjunction is `JobsInv`.

**`AnalysisRunProofs`**, for any settings, answers and retry limit: `DisciplineTheorem`,
`ExhaustionTheorem`, `RepairTheorem` and `OutcomeTheorem` (the refinement of
`AnalysisOutcome`). `RunInv` adds to `CallDiscipline` where the loops are (`Trying`: the
models before the one being tried are exhausted, those after it untouched), what a second
call means (`Repairing`) and what the row says meanwhile (`Reporting`).
The results of its loops are proved with `Folding`: `OneNameTheorem` (the list of models
has no name twice, so no call asks one twice), `GroundedTheorem` (what is stored has passed
the checks) and `ProseTheorem`: every text names a speaker by that speaker's name. The last
one assumes that no display name is itself a label: with a speaker named "Kişi 2" the code
would rename the name again, since it replaces the labels one after the other. That
an endpoint's form of a model's name is a name of a model is the assumption
`EndpointAssumption`, which TLC evaluates.

**`LiveWindowsProofs`**, for recordings of any length and any number of failures:
`TypeCorrect`, whose `Pace` counts the requests against the windows heard, and
`OrderTheorem`, when no connection breaks while its window is handled. `OrderInv` says
that every request carries the number of its window and all but the one the tracker waits
for have been answered (`Orderly`), that the window being diarized is the one the session
expects and the applied ones are numbered without a gap (`Counted`), and that a window
whose labels the browser shows has been applied (`Labelled`).

**`SpeakerNamesProofs`**: `ReadsAllTheorem`, `KeptTheorem` and `StoreTheorem`. `NamesInv`
follows a name through its stations (`NamesOf`): what each phase of panel, upload,
meeting and worker implies of the others (`Phases`), the last acknowledged name is the one
in the session (`Remembered`), a copy that goes on still has every name to copy or has
copied it (`Copied`), timelines are there only after all the names (`AllThere`); late
renames make their label doubtful (`LateDoubtful`). `StoreInv` is a separate, smaller one: the
store's own bookkeeping of use agrees with the history, and it holds no more than its
limit.

**`MeetingDataProofs`**: `AudioTheorem`, `OwnersTheorem`, `PairsTheorem` and
`SourcesTheorem`. In `FilesInv`
rows and handlers refer to settled directories only, an upload has the files of its phase,
no row that counts holds a directory that is being emptied (`EmptiedUnheld`, the heart of
it: the reference check has found none, and only an orphaned comparison can appear since),
and each file has a row, a deletion that will come to it, or a reason to be left (`Owned`);
a file that cannot be removed is such a reason for itself alone (`stuck`).
`SourcesTheorem` follows the cited turns from the answer of the model through the filter
of the parser and that of the display, whatever ordinals the model gives.

**`SpeakersProofs`**, for every recording, every grouping of its turns, any number of
windows, clusters, labels and words:

- `DenseTheorem`, `TwoWindowsTheorem`, `OneVoiceTheorem` and `SilenceTheorem` (an action
  property) about the registry, from `RegistryTheorem`. `RegistryInv` is small; the work is
  in `apply_window`, whose loops are followed one after the other: what a session is
  (`IsSession`), what the links leave of it, what the waiting clusters add, what each
  promotion may do (`IsStage`), and what the removal of the promoted candidates keeps.
  A candidate's windows are distinct because a pass of the loop skips the candidates of
  its own window; that is why a window applied twice is no second one.
- `OneVoiceTheorem` needs that `maximum_weight_matching` is one-to-one. It is for every
  cost matrix, also where it is not of maximum weight (`final_matching`): the search for a
  row never changes the assignment, a step back along the path moves a row and leaves its
  old column to be overwritten, and at the end no two columns hold one row (`Apart`,
  `OneToOne`).
- `SpeechTheorem`: nobody takes one of the places of `max_speakers` without committed
  speech, in every recording with room (`HasRoom`: a candidate can hold the spans that are
  heard in two windows; the code's cap is 4000). The code only commits what lies in the
  stable part of the window that promotes, and says nothing of there being any. Two facts
  make it so. A candidate heard again in a later window reaches into the stable part: it
  ends where the last step begins at the latest, and the pause is shorter than the step
  (`Reaches`). And no candidate is promoted in a window that does not hear it: if it has
  to wait although it has its evidence, it waits for good (`IsClosed`), because there is no
  place left or because a speaker has been silent beyond the horizon, whom no later
  window can link again: it is not in the reference of the last window, and too far from
  everything that is heard (`SilentIsUnlinked`). `HasSpeech` is the invariant between
  windows, `IsSpoken` the one inside `apply_window`. What `Clip` leaves of spans is proved
  piece by piece (`Pieces`). With less room the newest spans can displace the ones that
  reach into the stable part.
- `VoiceTheorem`: a label never changes hands (`PureLabels`), for any number of voices and
  turns of any length, as long as the breaks between turns are longer than the gap tolerance
  (`Breaks`). The speech of two voices then lies further apart than the tolerance
  (`IsTalk`), and so do the pieces that are cut out of it, which is all a registry ever
  holds. Every score of the matching needs common time or a gap within the tolerance
  (`NearHasPair`), so whichever links the assignment chooses join speech of one voice
  (`LinkIsOne`, `NearestIsOne`), and so does a candidate that goes on in a later window
  (`ContinuousIsOne`). The invariant `VoiceInv` gives each label one voice, of which are its
  spans, its piece of the last window and all that was ever shown under it (`Sounds`); the
  voice is not stored anywhere, so each window has to find it again for the labels it makes
  (`NewVoices`). That a window may be applied twice changes nothing. In recordings with
  shorter breaks a label can change hands (section 3).
- `TranscriptTheorem` and `EvidenceTheorem` about the final pass, from `FinalTheorem`.
  That the labels are a bijection to 1 .. n is counting: the labels kept and the free
  ones are as many as the speakers, and the place of a speaker in an order is a number
  of its own (`Ranks`). The turns are maximal runs after every word (`IsRuns`). A name
  moves along an edge that is the best one of its speaker, strong enough and not too
  close (`ClearIsStrong`), whichever of these edges the matching keeps.
- `MaximumTheorem`: when the weakest edge still costs less than the infinity the search
  starts from, the links are a maximum-weight matching, for any number of speakers and
  scores. What makes it provable is that `match_speakers` hands over one edge for each
  provider speaker at most (`IsSingle`): every column of the matrix has one owner, the only
  row that reaches it below infinity (`IsStar`). So a row with a column takes its cheapest
  one in the first round of the search (`OwnColumn`), and a row of padding walks over the
  taken columns in order, without changing a potential, to a free one (`WalkGoesOn`,
  `FreeColumn`); neither moves an earlier row (`RowServed`). The tie-break never outweighs
  a tenth of a second of speech (`CellCosts`), so each canonical speaker ends with its best
  edge (`BestLinks`). Each link of any other matching is then outweighed by the link its
  canonical speaker has here (`SingleMaximum`, with sums compared by `SumsCompare`).

The assumptions on the data are `LiveAssumption` and `FinalAssumption`: spans are pairs of
numbers, limits are positive, labels are finitely many. Nothing is assumed about the order
or the length of spans.

**`Folding`** is how facts about loops over data are proved. The library's induction
theorems take an operator as a parameter, which no prover here can instantiate; `Induct`
is the same rule with a set in place of the predicate. From it follow that the recursion
in the library's fold has a solution (`Solvable`), that a fold runs through its list
(`FoldRuns`), and that what a loop keeps holds after it (`FoldStays`, `FoldReaches`). A proof
module takes one instance per loop, with the body of the loop for `Op`. Only
`WellFoundedInduction` stands behind it.

**`BrowserProofs`**, for any number of recordings, failures and overlapping requests:
`OwnSessionTheorem`, `NothingLeftTheorem` and `LiveNeverStopsTheorem` (an action
property). `PanelInv` rests on `Generations`: the generation tells recordings apart, since
the live pipeline of an earlier recording always carries a smaller one. `Sending` says that
the session an upload lacks cannot appear any more, `Silent` that nothing of a live pipeline
runs, or is on its way to being kept, once the panel is not recording with one, `Streams` to
which status an open stream belongs, `Phases` what the status says of everything else.

Only model-checked:

- liveness everywhere, and of the front end what is about rendering; the violations;
- `SpeakersHaveSpeech` in recordings without room (the first one of `live_registry` has
  none and the property holds there; with a cap of one span TLC finds it violated).

Neither checked nor proved: what `maximum_weight_matching` finds for edges that
`match_speakers` never hands it, several to one provider speaker. The proofs follow the
potentials of the Hungarian method only as far as one edge for each speaker needs it.

## 5. Limits and plan

Not modelled, for good: audio conversion, native inference and HTTP clients
(their answers are arbitrary values or failures elsewhere), presentation,
settings and logging, benchmarks and maintenance scripts but the one that shares
files. Left out of modelled parts, as not told apart by any property: texts and
their limits, the samples between microphone and window, what a message of the
transcript socket says, float rounding at thresholds, calibration numbers.

Left out although a property could tell: a live window whose connection broke and whose
handler ends only after a *later* window has been folded in. `HearAgain` repeats the last
window at once; an older one would make a candidate of old speech, which may then be
promoted without any speech in the stable part, so `SpeakersHaveSpeech` is not claimed
there. `CopyLines` copies the confirmed labels where the code copies every speaker with
committed spans (`routers/recordings.py:163-166`); by `SpeakersHaveSpeech` these are the same.

What could come next is proof rather than model: that the meeting page shows no status the
API has not had.
