----------------------------- MODULE MeetingFiles -----------------------------
(***************************************************************************)
(* The files of meetings beside their rows: an upload is converted in a    *)
(* directory of its own before its row is committed                        *)
(* (services/recordings.py, routers/recordings.py), a deleted meeting's    *)
(* files are removed after its row, unless another meeting refers to them  *)
(* (delete_meeting in routers/meetings.py), and a script makes comparison  *)
(* meetings that share the files of their source                           *)
(* (scripts/create_comparison_meeting.py).                                 *)
(*                                                                         *)
(* A directory is named after the recording it was made for; it is there   *)
(* when it has files.  The queue between upload and transcript is          *)
(* MeetingJobs; here a meeting is only busy for a while.                   *)
(***************************************************************************)
EXTENDS Naturals, Sequences, FiniteSets

CONSTANTS
    Recordings,   \* uploads, each with its meeting and its directory
    Comparisons,  \* ids given to the script
    Deletes,      \* handlers of delete_meeting
    Transcripts,  \* what the worker or the script may write: sequences of turns
    None,
    MaxScripts,   \* bound on runs of the script
    MaxCrashes,   \* bound on crashes of the API
    MaxStuck      \* bound on files that cannot be removed

ASSUME FilesAssumption ==
    /\ Recordings \cap Comparisons = {}
    /\ None \notin Recordings \cup Comparisons
    /\ {MaxScripts, MaxCrashes, MaxStuck} \subseteq Nat

VARIABLES
    meeting,  \* the row of each meeting with its transcript
    disk,     \* the files in each directory
    upload,   \* the handler of create_recording for each recording
    delete,   \* the handlers of delete_meeting
    script,   \* the run of the script
    crashes,  \* crashes so far
    leaked,   \* history: directories that have been left behind
    orphaned, \* history: comparisons committed when no meeting held their directory
    stuck,    \* history: the files in each directory that could not be removed
    written   \* history: how often the script has written a meeting

filesVars == <<meeting, disk, upload, delete, script, crashes, leaked, orphaned, stuck, written>>

Meetings == Recordings \cup Comparisons
NoMeeting == [status |-> "none", dir |-> None, turns |-> <<>>]
Exists(m) == meeting[m].status # "none"
Audio == {"mp3", "wav"}
Files == {"source"} \cup Audio

\* Some row refers to directory d (the reference check of the clean-up).
Referenced(d) == \E m \in Meetings : Exists(m) /\ meeting[m].dir = d

\* The directories left behind when meeting m lets go of its own.
LeftBy(m) ==
    {meeting[m].dir} \ ({None} \cup {meeting[n].dir : n \in Meetings \ {m}})

IdleDelete == [at |-> "idle", meeting |-> None, dir |-> None, todo |-> {}]
IdleScript == [at |-> "idle", source |-> None, target |-> None, dir |-> None, fresh |-> FALSE]

FilesInit ==
    /\ meeting = [m \in Meetings |-> NoMeeting]
    /\ disk = [r \in Recordings |-> {}]
    /\ upload = [r \in Recordings |-> "none"]
    /\ delete = [d \in Deletes |-> IdleDelete]
    /\ script = IdleScript
    /\ crashes = 0
    /\ leaked = {}
    /\ orphaned = {}
    /\ stuck = [r \in Recordings |-> {}]
    /\ written = [m \in Comparisons |-> 0]

Stuck == {p \in Recordings \X Files : p[2] \in stuck[p[1]]}

\* The system refuses to remove some files of directory r.
CannotRemove(r, files) ==
    /\ stuck' = [stuck EXCEPT ![r] = @ \cup files]
    /\ Cardinality(Stuck') <= MaxStuck

-----------------------------------------------------------------------------
(* The upload.                                                              *)

UploadTo(r, to) == upload' = [upload EXCEPT ![r] = to]

\* copy_upload_to_disk makes the directory and writes the source into it.
Receive(r) ==
    /\ upload[r] = "none"
    /\ UploadTo(r, "received")
    /\ disk' = [disk EXCEPT ![r] = {"source"}]
    /\ UNCHANGED <<meeting, delete, script, crashes, leaked, orphaned, stuck, written>>

\* ffmpeg writes both files, or has written some when it fails or times out.
Convert(r) ==
    /\ upload[r] = "received"
    /\ \E made \in SUBSET Audio :
           /\ disk' = [disk EXCEPT ![r] = {"source"} \cup made]
           /\ \/ made = Audio /\ UploadTo(r, "converted")
              \/ UploadTo(r, "refused")
    /\ UNCHANGED <<meeting, delete, script, crashes, leaked, orphaned, stuck, written>>

\* A refused recording (empty, undecodable, not convertible) leaves no directory, or
\* what rmtree cannot remove: its errors are ignored.
Discard(r) ==
    /\ upload[r] = "refused"
    /\ UploadTo(r, "over")
    /\ \E left \in SUBSET disk[r] :
           /\ disk' = [disk EXCEPT ![r] = left]
           /\ CannotRemove(r, left)
    /\ UNCHANGED <<meeting, delete, script, crashes, leaked, orphaned, written>>

\* The source is unlinked when the conversion has succeeded.  If it cannot be, the
\* request fails and nothing is removed.
UnlinkSource(r) ==
    /\ upload[r] = "converted"
    /\ \/ /\ UploadTo(r, "stored")
          /\ disk' = [disk EXCEPT ![r] = @ \ {"source"}]
          /\ UNCHANGED leaked
       \/ /\ UploadTo(r, "over")
          /\ leaked' = leaked \cup {r}
          /\ UNCHANGED disk
    /\ UNCHANGED <<meeting, delete, script, crashes, orphaned, stuck, written>>

\* create_recording commits the row; the database may refuse, and the files stay.
Register(r) ==
    /\ upload[r] = "stored"
    /\ UploadTo(r, "over")
    /\ \/ /\ meeting' = [meeting EXCEPT ![r] =
                            [status |-> "uploaded", dir |-> r, turns |-> <<>>]]
          /\ UNCHANGED leaked
       \/ leaked' = leaked \cup {r} /\ UNCHANGED meeting
    /\ UNCHANGED <<disk, delete, script, crashes, orphaned, stuck, written>>

-----------------------------------------------------------------------------
(* The processing of a meeting.                                             *)

\* Fault: a completed meeting can be processed again.
ProcessAgain(m) ==
    /\ meeting[m].status \in {"uploaded", "completed"}
    /\ meeting' = [meeting EXCEPT ![m].status = "busy"]
    /\ UNCHANGED <<disk, upload, delete, script, crashes, leaked, orphaned, stuck, written>>

\* queue_processing and the claim; neither touches a completed meeting.
Process(m) ==
    /\ meeting[m].status = "uploaded"
    /\ meeting' = [meeting EXCEPT ![m].status = "busy"]
    /\ UNCHANGED <<disk, upload, delete, script, crashes, leaked, orphaned, stuck, written>>

\* The transcript and the status are one commit; after a failure the meeting can be
\* queued again.  The worker cannot complete a meeting whose wav file is gone.
Processed(m) ==
    /\ meeting[m].status = "busy"
    /\ \/ /\ "wav" \in disk[meeting[m].dir]
          /\ \E t \in Transcripts :
                 meeting' = [meeting EXCEPT ![m].status = "completed", ![m].turns = t]
       \/ meeting' = [meeting EXCEPT ![m].status = "uploaded"]
    /\ UNCHANGED <<disk, upload, delete, script, crashes, leaked, orphaned, stuck, written>>

-----------------------------------------------------------------------------
(* The deletion.                                                            *)

\* The row is read: a busy meeting is refused.
DeleteReads(d, m) ==
    /\ delete[d].at = "idle"
    /\ meeting[m].status \in {"uploaded", "completed"}
    /\ delete' = [delete EXCEPT ![d] =
                     [at |-> "reading", meeting |-> m, dir |-> meeting[m].dir, todo |-> Audio]]
    /\ UNCHANGED <<meeting, disk, upload, script, crashes, leaked, orphaned, stuck, written>>

\* Turns, analysis, chat and row go in one commit, whatever has happened to the row.
DeleteCommits(d) ==
    /\ delete[d].at = "reading"
    /\ delete' = [delete EXCEPT ![d].at = "cleaning"]
    /\ meeting' = [meeting EXCEPT ![delete[d].meeting] = NoMeeting]
    /\ leaked' = leaked \cup (LeftBy(delete[d].meeting) \ {delete[d].dir})
    /\ UNCHANGED <<disk, upload, script, crashes, orphaned, stuck, written>>

\* The paths are cleaned up in alphabetical order.
NextFile(d) == IF "mp3" \in delete[d].todo THEN "mp3" ELSE "wav"

Cleaned(d) ==
    LET rest == delete[d].todo \ {NextFile(d)}
    IN  delete' = [delete EXCEPT ![d] =
                      IF rest = {}
                      THEN IdleDelete
                      ELSE [at |-> "cleaning", meeting |-> delete[d].meeting,
                            dir |-> delete[d].dir, todo |-> rest]]

\* Fault: the files are taken for the meeting's own.
StillReferencedNever(d) == FALSE

StillReferenced(d) == Referenced(delete[d].dir)

\* The reference check; a file that is shared stays.
CleanLooks(d) ==
    /\ delete[d].at = "cleaning"
    /\ IF StillReferenced(d)
       THEN Cleaned(d)
       ELSE delete' = [delete EXCEPT ![d].at = "unlinking"]
    /\ UNCHANGED <<meeting, disk, upload, script, crashes, leaked, orphaned, stuck, written>>

\* Fault: the first file that cannot be removed ends the clean-up.
CleanUnlinksOrStops(d) ==
    /\ delete[d].at = "unlinking"
    /\ \/ /\ disk' = [disk EXCEPT ![delete[d].dir] = @ \ {NextFile(d)}]
          /\ Cleaned(d)
          /\ UNCHANGED stuck
       \/ /\ NextFile(d) \in disk[delete[d].dir]
          /\ CannotRemove(delete[d].dir, {NextFile(d)})
          /\ delete' = [delete EXCEPT ![d] = IdleDelete]
          /\ UNCHANGED disk
    /\ UNCHANGED <<meeting, upload, script, crashes, leaked, orphaned, written>>

\* The file goes, if it is still there; so does the directory with its last file.  If
\* it cannot be removed it stays, and the clean-up goes on with the next path.
CleanUnlinks(d) ==
    /\ delete[d].at = "unlinking"
    /\ \/ /\ disk' = [disk EXCEPT ![delete[d].dir] = @ \ {NextFile(d)}]
          /\ UNCHANGED stuck
       \/ /\ NextFile(d) \in disk[delete[d].dir]
          /\ CannotRemove(delete[d].dir, {NextFile(d)})
          /\ UNCHANGED disk
    /\ Cleaned(d)
    /\ UNCHANGED <<meeting, upload, script, crashes, leaked, orphaned, written>>

-----------------------------------------------------------------------------
(* The script.                                                              *)

\* It reads the source and the target, and makes sure the source has its mp3 file.
ScriptReads(s, t) ==
    /\ script.at = "idle"
    /\ s # t /\ Exists(s)
    /\ "mp3" \in disk[meeting[s].dir]
    /\ written[t] < MaxScripts
    /\ script' = [at |-> "reading", source |-> s, target |-> t, dir |-> meeting[s].dir,
                  fresh |-> ~Exists(t)]
    /\ UNCHANGED <<meeting, disk, upload, delete, crashes, leaked, orphaned, stuck, written>>

\* A meeting the script has not orphaned holds directory d.
Held(d) == \E m \in Meetings \ orphaned : Exists(m) /\ meeting[m].dir = d

\* The comparison and its turns are one commit.  A row that was read and has gone
\* meanwhile cannot be updated.
ScriptCommits ==
    LET t == script.target
    IN  /\ script.at = "reading"
        /\ script' = IdleScript
        /\ IF script.fresh \/ Exists(t)
           THEN /\ \E turns \in Transcripts :
                       meeting' = [meeting EXCEPT ![t] =
                                      [status |-> "completed", dir |-> script.dir, turns |-> turns]]
                /\ written' = [written EXCEPT ![t] = @ + 1]
                /\ orphaned' = IF Held(script.dir) THEN orphaned \ {t} ELSE orphaned \cup {t}
                /\ leaked' = leaked \cup (LeftBy(t) \ {script.dir})
           ELSE UNCHANGED <<meeting, written, orphaned, leaked>>
        /\ UNCHANGED <<disk, upload, delete, crashes, stuck>>

-----------------------------------------------------------------------------
\* The directories a handler is at work on.
AtWork ==
    {r \in Recordings : upload[r] \notin {"none", "over"}}
    \cup {delete[d].dir : d \in {e \in Deletes : delete[e].at \in {"cleaning", "unlinking"}}}

\* The API stops in the middle of everything; nothing looks for what it left behind.
FilesCrash ==
    /\ crashes < MaxCrashes
    /\ crashes' = crashes + 1
    /\ leaked' = leaked \cup AtWork
    /\ upload' = [r \in Recordings |-> IF upload[r] = "none" THEN "none" ELSE "over"]
    /\ delete' = [d \in Deletes |-> IdleDelete]
    /\ UNCHANGED <<meeting, disk, script, orphaned, stuck, written>>

FilesStep ==
    \/ \E r \in Recordings :
           Receive(r) \/ Convert(r) \/ Discard(r) \/ UnlinkSource(r) \/ Register(r)
    \/ \E m \in Meetings : Process(m) \/ Processed(m) \/ \E d \in Deletes : DeleteReads(d, m)
    \/ \E d \in Deletes : DeleteCommits(d) \/ CleanLooks(d) \/ CleanUnlinks(d)
    \/ \E s \in Meetings, t \in Comparisons : ScriptReads(s, t)
    \/ ScriptCommits

-----------------------------------------------------------------------------
\* Every variable has its type.
FilesTypeOK ==
    /\ meeting \in [Meetings -> [status : {"none", "uploaded", "busy", "completed"},
                                 dir : Recordings \cup {None},
                                 turns : Transcripts \cup {<<>>}]]
    /\ \A m \in Meetings : Exists(m) <=> meeting[m].dir # None
    /\ disk \in [Recordings -> SUBSET Files]
    /\ upload \in [Recordings ->
                      {"none", "received", "converted", "refused", "stored", "over"}]
    /\ delete \in [Deletes -> [at : {"idle", "reading", "cleaning", "unlinking"},
                               meeting : Meetings \cup {None}, dir : Recordings \cup {None},
                               todo : SUBSET Audio]]
    /\ \A d \in Deletes : delete[d].at # "idle" => delete[d].todo # {}
    /\ script \in [at : {"idle", "reading"}, source : Meetings \cup {None},
                   target : Comparisons \cup {None}, dir : Recordings \cup {None},
                   fresh : BOOLEAN]
    /\ crashes \in 0 .. MaxCrashes
    /\ leaked \subseteq Recordings
    /\ orphaned \subseteq Comparisons
    /\ stuck \in [Recordings -> SUBSET Files]
    /\ written \in [Comparisons -> 0 .. MaxScripts]

\* "Artifacts are only removed ... when no other meeting still references the same
\* relative path" (delete_meeting): a meeting has both its files and no source beside
\* them, whatever is deleted around it.  The exception is a comparison whose row the
\* script commits when the last meeting that held the files has been deleted since
\* the script looked.
AudioKept ==
    \A m \in Meetings \ orphaned : Exists(m) => disk[meeting[m].dir] = Audio

\* "No orphan or partial files remain" (process_recording), "artifacts are only
\* removed after the DB commit", "filesystem cleanup is best effort" (delete_meeting): a
\* file in a directory no meeting refers to is one that could not be removed itself; one
\* failure leaves no second file.  Else the directory is being worked on, or was left by
\* a crash, by a request that failed between the conversion and the commit of its row,
\* or by a comparison when the script gave it another source, before it was deleted or
\* after the deletion had read its paths.
FilesHaveOwners ==
    \A r \in Recordings :
        disk[r] \subseteq stuck[r] \/ Referenced(r) \/ r \in AtWork \cup leaked
==============================================================================
