-------------------------- MODULE MeetingDataProofs --------------------------
(* What holds of files and conversations for every number of recordings,     *)
(* comparisons, deletions and questions, and every bound on crashes and on   *)
(* runs of the script.                                                       *)
EXTENDS MeetingChat, TLAPS, SequenceTheorems

\* The loops over the ordinals of an answer.
KeepLoop == INSTANCE Folding WITH Op <- Keep
ShowLoop == INSTANCE Folding WITH Op <- Show

-----------------------------------------------------------------------------
(* The inductive invariant of the files.                                     *)

\* The upload into directory r is over, and its source is gone.
Settled(r) == upload[r] = "over" /\ disk[r] \subseteq Audio

\* What a deletion carries with it.
DeleteStates ==
    {IdleDelete} \cup
    [at : {"reading"}, meeting : Meetings, dir : Recordings, todo : {Audio}] \cup
    [at : {"cleaning", "unlinking"}, meeting : Meetings, dir : Recordings, todo : {Audio, {"wav"}}]

ScriptStates ==
    {IdleScript} \cup
    [at : {"reading"}, source : Meetings, target : Comparisons, dir : Recordings, fresh : BOOLEAN]

\* Rows and handlers refer to settled directories only.
RefersToSettled ==
    /\ \A m \in Meetings : Exists(m) => meeting[m].dir \in Recordings /\ Settled(meeting[m].dir)
    /\ \A r \in Recordings : Exists(r) => meeting[r].dir = r
    /\ \A d \in Deletes : delete[d] \in DeleteStates
    /\ \A d \in Deletes : delete[d].at # "idle" => Settled(delete[d].dir)
    /\ script \in ScriptStates
    /\ script.at # "idle" => Settled(script.dir) /\ written[script.target] < MaxScripts

\* What an upload has on disk while it is going on.
Uploading ==
    \A r \in Recordings :
        /\ upload[r] = "none" => disk[r] = {}
        /\ upload[r] = "converted" => disk[r] = {"source"} \cup Audio
        /\ upload[r] = "stored" => disk[r] = Audio

\* Nobody who counts holds a directory that is being emptied.
EmptiedUnheld == \A d \in Deletes : delete[d].at = "unlinking" => ~Held(delete[d].dir)

\* Every file left by an upload has a meeting, a clean-up that will come to it, could
\* not be removed, or is known to be left behind.
FileOwned(r, f) ==
    \/ Referenced(r)
    \/ r \in leaked
    \/ f \in stuck[r]
    \/ \E d \in Deletes :
           delete[d].at \in {"cleaning", "unlinking"} /\ delete[d].dir = r /\ f \in delete[d].todo

Owned == \A r \in Recordings : upload[r] = "over" => \A f \in disk[r] : FileOwned(r, f)

FilesInv ==
    /\ FilesTypeOK
    /\ RefersToSettled
    /\ Uploading
    /\ EmptiedUnheld
    /\ AudioKept
    /\ Owned

-----------------------------------------------------------------------------
\* The clean-up goes from both files to the second, and from there to its end.
LEMMA CleanedResult ==
    ASSUME FilesTypeOK, RefersToSettled, NEW d \in Deletes,
           delete[d].at \in {"cleaning", "unlinking"}, Cleaned(d)
    PROVE  \/ /\ delete[d].todo = {"wav"} /\ NextFile(d) = "wav"
              /\ delete' = [delete EXCEPT ![d] = IdleDelete]
           \/ /\ delete[d].todo = Audio /\ NextFile(d) = "mp3"
              /\ delete' = [delete EXCEPT ![d] = [at |-> "cleaning", meeting |-> delete[d].meeting,
                                                  dir |-> delete[d].dir, todo |-> {"wav"}]]
<1>1. delete[d].todo \in {Audio, {"wav"}}
  BY DEF RefersToSettled, DeleteStates, IdleDelete
<1>2. CASE delete[d].todo = {"wav"}
  <2>1. NextFile(d) = "wav" /\ delete[d].todo \ {NextFile(d)} = {}
    BY <1>2 DEF NextFile
  <2> QED
    BY <1>2, <2>1 DEF Cleaned
<1>3. CASE delete[d].todo = Audio
  <2>1. NextFile(d) = "mp3" /\ delete[d].todo \ {NextFile(d)} = {"wav"}
    BY <1>3 DEF Audio, NextFile
  <2> QED
    BY <1>3, <2>1 DEF Cleaned
<1> QED
  BY <1>1, <1>2, <1>3

\* The types the proofs need of one handler at a time.
LEMMA HandlerTypes ==
    ASSUME FilesInv, NEW d \in Deletes
    PROVE  /\ delete[d].at = "reading" =>
                  delete[d].meeting \in Meetings /\ delete[d].dir \in Recordings
                  /\ delete[d].todo = Audio
           /\ delete[d].at \in {"cleaning", "unlinking"} =>
                  delete[d].meeting \in Meetings /\ delete[d].dir \in Recordings
                  /\ delete[d].todo \in {Audio, {"wav"}}
           /\ delete[d].at \notin {"idle", "reading", "cleaning", "unlinking"} => FALSE
BY DEF FilesInv, RefersToSettled, DeleteStates, IdleDelete

LEMMA ScriptTypes ==
    ASSUME FilesInv, script.at = "reading"
    PROVE  /\ script.target \in Comparisons /\ script.dir \in Recordings
           /\ Settled(script.dir)
           /\ written[script.target] \in 0 .. MaxScripts /\ written[script.target] < MaxScripts
BY DEF FilesInv, FilesTypeOK, RefersToSettled, ScriptStates, IdleScript

\* What becomes of the row of a meeting in one step.
Row == [status : {"none", "uploaded", "busy", "completed"},
        dir : Recordings \cup {None}, turns : Transcripts \cup {<<>>}]

Rewritten(m, x) == x \in Row /\ meeting' = [meeting EXCEPT ![m] = x]

Registered(r) ==
    /\ upload[r] = "stored" /\ UploadTo(r, "over") /\ UNCHANGED <<disk, written>>
    /\ Rewritten(r, [status |-> "uploaded", dir |-> r, turns |-> <<>>])

Moved(m, x) ==
    /\ Exists(m) /\ meeting[m].status # "completed"
    /\ x.status # "none" /\ x.dir = meeting[m].dir
    /\ UNCHANGED written
    /\ Rewritten(m, x)

Compared(t, x) ==
    /\ script.at = "reading" /\ t = script.target
    /\ x.status = "completed" /\ x.dir = script.dir
    /\ written' = [written EXCEPT ![t] = @ + 1]
    /\ Rewritten(t, x)

FilesMove == FilesStep \/ FilesCrash \/ UNCHANGED filesVars

LEMMA Typed ==
    ASSUME FilesInv, NEW m \in Meetings
    PROVE  /\ meeting[m] \in Row
           /\ meeting[m].status \in {"none", "uploaded", "busy", "completed"}
           /\ meeting[m].dir \in Recordings \cup {None}
           /\ meeting[m].turns \in Transcripts \cup {<<>>}
           /\ m \in DOMAIN meeting
BY DEF FilesInv, FilesTypeOK, Row

\* The five ways a step changes rows.
LEMMA RowChanges ==
    ASSUME FilesInv, FilesMove
    PROVE  \/ UNCHANGED <<meeting, written>>
           \/ \E r \in Recordings : Registered(r)
           \/ \E m \in Meetings, x \in Row : Moved(m, x)
           \/ \E d \in Deletes : DeleteCommits(d)
           \/ \E x \in Row : Compared(script.target, x)
<1>1. ASSUME NEW r \in Recordings, Register(r)
      PROVE  UNCHANGED <<meeting, written>> \/ Registered(r)
  BY <1>1 DEF Register, Registered, Rewritten, Row
<1>2. ASSUME NEW m \in Meetings, Process(m) PROVE \E x \in Row : Moved(m, x)
  <2> DEFINE x == [meeting[m] EXCEPT !.status = "busy"]
  <2>1. x \in Row /\ x.status = "busy" /\ x.dir = meeting[m].dir
    BY Typed DEF Row
  <2>2. meeting' = [meeting EXCEPT ![m] = x]
    BY <1>2 DEF Process
  <2>3. Exists(m) /\ meeting[m].status # "completed"
    BY <1>2 DEF Process, Exists
  <2>4. UNCHANGED written
    BY <1>2 DEF Process
  <2> QED
    BY <2>1, <2>2, <2>3, <2>4 DEF Moved, Rewritten
<1>3. ASSUME NEW m \in Meetings, Processed(m) PROVE \E x \in Row : Moved(m, x)
  <2>1. Exists(m) /\ meeting[m].status # "completed"
    BY <1>3 DEF Processed, Exists
  <2>2. ASSUME NEW t \in Transcripts,
               meeting' = [meeting EXCEPT ![m].status = "completed", ![m].turns = t]
        PROVE  \E x \in Row : Moved(m, x)
    <3> DEFINE x == [meeting[m] EXCEPT !.status = "completed", !.turns = t]
    <3>1. x \in Row /\ x.status = "completed" /\ x.dir = meeting[m].dir
      BY Typed DEF Row
    <3>2. meeting' = [meeting EXCEPT ![m] = x]
      BY <2>2
    <3>3. UNCHANGED written
      BY <1>3 DEF Processed
    <3> QED
      BY <2>1, <3>1, <3>2, <3>3 DEF Moved, Rewritten
  <2>3. ASSUME meeting' = [meeting EXCEPT ![m].status = "uploaded"]
        PROVE  \E x \in Row : Moved(m, x)
    <3> DEFINE x == [meeting[m] EXCEPT !.status = "uploaded"]
    <3>1. x \in Row /\ x.status = "uploaded" /\ x.dir = meeting[m].dir
      BY Typed DEF Row
    <3>2. meeting' = [meeting EXCEPT ![m] = x]
      BY <2>3
    <3>3. UNCHANGED written
      BY <1>3 DEF Processed
    <3> QED
      BY <2>1, <3>1, <3>2, <3>3 DEF Moved, Rewritten
  <2> QED
    BY <1>3, <2>2, <2>3 DEF Processed
<1>4. ASSUME ScriptCommits PROVE UNCHANGED <<meeting, written>> \/ \E x \in Row : Compared(script.target, x)
  <2>1. ASSUME NEW turns \in Transcripts, written' = [written EXCEPT ![script.target] = @ + 1],
               meeting' = [meeting EXCEPT ![script.target] =
                              [status |-> "completed", dir |-> script.dir, turns |-> turns]]
        PROVE  \E x \in Row : Compared(script.target, x)
    <3> DEFINE x == [status |-> "completed", dir |-> script.dir, turns |-> turns]
    <3>1. x \in Row /\ script.at = "reading"
      BY <1>4, ScriptTypes DEF Row, ScriptCommits
    <3> QED
      BY <2>1, <3>1 DEF Compared, Rewritten
  <2> QED
    BY <1>4, <2>1 DEF ScriptCommits
<1>5. CASE FilesCrash \/ UNCHANGED filesVars
  BY <1>5 DEF FilesCrash, filesVars
<1>6. ASSUME NEW r \in Recordings, Receive(r) \/ Convert(r) \/ Discard(r) \/ UnlinkSource(r)
      PROVE  UNCHANGED <<meeting, written>>
  BY <1>6 DEF Receive, Convert, Discard, UnlinkSource
<1>7. ASSUME NEW d \in Deletes, CleanLooks(d) \/ CleanUnlinks(d) \/ \E m \in Meetings : DeleteReads(d, m)
      PROVE  UNCHANGED <<meeting, written>>
  BY <1>7 DEF CleanLooks, CleanUnlinks, DeleteReads
<1>8. ASSUME NEW m \in Meetings, NEW t \in Comparisons, ScriptReads(m, t) PROVE UNCHANGED <<meeting, written>>
  BY <1>8 DEF ScriptReads
<1> QED
  BY <1>1, <1>2, <1>3, <1>4, <1>5, <1>6, <1>7, <1>8 DEF FilesMove, FilesStep

LEMMA RowsStep ==
    ASSUME FilesInv, FilesMove
    PROVE  /\ meeting' \in [Meetings -> Row]
           /\ (\A m \in Meetings : Exists(m) <=> meeting[m].dir # None)'
<1>1. meeting \in [Meetings -> Row] /\ \A m \in Meetings : Exists(m) <=> meeting[m].dir # None
  BY DEF FilesInv, FilesTypeOK, Row
<1>2. ASSUME NEW m \in Meetings, NEW x \in Row, x.status # "none" <=> x.dir # None,
             meeting' = [meeting EXCEPT ![m] = x]
      PROVE  /\ meeting' \in [Meetings -> Row]
             /\ (\A n \in Meetings : Exists(n) <=> meeting[n].dir # None)'
  BY <1>1, <1>2 DEF Exists
<1>3. CASE UNCHANGED meeting
  BY <1>1, <1>3 DEF Exists
<1>4. CASE \E r \in Recordings : Registered(r)
  BY <1>2, <1>4, FilesAssumption DEF Registered, Rewritten, Meetings
<1>5. CASE \E m \in Meetings, x \in Row : Moved(m, x)
  BY <1>1, <1>2, <1>5 DEF Moved, Rewritten, Exists
<1>6. CASE \E d \in Deletes : DeleteCommits(d)
  BY <1>2, <1>6, HandlerTypes DEF DeleteCommits, NoMeeting, Row
<1>7. CASE \E x \in Row : Compared(script.target, x)
  BY <1>2, <1>7, ScriptTypes, FilesAssumption DEF Compared, Rewritten, Meetings
<1> QED
  BY <1>3, <1>4, <1>5, <1>6, <1>7, RowChanges

\* Disks and uploads keep their types, and a settled directory only loses files.
LEMMA DisksStep ==
    ASSUME FilesInv, FilesMove
    PROVE  /\ disk' \in [Recordings -> SUBSET Files]
           /\ upload' \in [Recordings -> {"none", "received", "converted", "refused", "stored", "over"}]
           /\ \A r \in Recordings : Settled(r) => Settled(r)' /\ disk'[r] \subseteq disk[r]
           /\ Uploading'
<1>1. /\ disk \in [Recordings -> SUBSET Files]
      /\ upload \in [Recordings -> {"none", "received", "converted", "refused", "stored", "over"}]
      /\ Uploading
  BY DEF FilesInv, FilesTypeOK
<1>2. ASSUME NEW r \in Recordings, NEW files \in SUBSET Files,
             NEW to \in {"received", "converted", "refused", "stored", "over"},
             disk' = [disk EXCEPT ![r] = files], UploadTo(r, to), upload[r] # "over",
             to = "converted" => files = {"source"} \cup Audio,
             to = "stored" => files = Audio
      PROVE  /\ disk' \in [Recordings -> SUBSET Files]
             /\ upload' \in [Recordings -> {"none", "received", "converted", "refused", "stored", "over"}]
             /\ \A q \in Recordings : Settled(q) => Settled(q)' /\ disk'[q] \subseteq disk[q]
             /\ Uploading'
  BY <1>1, <1>2 DEF UploadTo, Settled, Uploading, Files
<1>3. ASSUME UNCHANGED <<disk, upload>>
      PROVE  /\ \A q \in Recordings : Settled(q) => Settled(q)' /\ disk'[q] \subseteq disk[q]
             /\ Uploading'
  BY <1>1, <1>3 DEF Settled, Uploading
<1>4. ASSUME NEW r \in Recordings, Receive(r) \/ Discard(r) \/ UnlinkSource(r) \/ Register(r) \/ Convert(r)
      PROVE  /\ disk' \in [Recordings -> SUBSET Files]
             /\ upload' \in [Recordings -> {"none", "received", "converted", "refused", "stored", "over"}]
             /\ \A q \in Recordings : Settled(q) => Settled(q)' /\ disk'[q] \subseteq disk[q]
             /\ Uploading'
  <2>1. CASE Receive(r)
    BY <1>2, <2>1 DEF Receive, Files
  <2>2. CASE Discard(r)
    <3>1. PICK left \in SUBSET disk[r] : disk' = [disk EXCEPT ![r] = left]
      BY <2>2 DEF Discard
    <3>2. left \in SUBSET Files /\ UploadTo(r, "over") /\ upload[r] # "over"
      BY <1>1, <2>2 DEF Discard
    <3> QED
      BY <1>2, <3>1, <3>2
  <2>3. CASE UnlinkSource(r)
    <3>1. disk[r] \ {"source"} = Audio /\ Audio \in SUBSET Files
      BY <1>1, <2>3 DEF UnlinkSource, Uploading, Audio, Files
    <3>2. CASE UploadTo(r, "stored") /\ disk' = [disk EXCEPT ![r] = @ \ {"source"}]
      <4>1. disk' = [disk EXCEPT ![r] = Audio]
        BY <3>1, <3>2
      <4> QED
        BY <1>2, <2>3, <3>1, <3>2, <4>1 DEF UnlinkSource
    <3>3. CASE UploadTo(r, "over") /\ UNCHANGED disk
      <4>1. disk' = [disk EXCEPT ![r] = disk[r]] /\ disk[r] \in SUBSET Files
        BY <1>1, <3>3
      <4> QED
        BY <1>2, <2>3, <3>3, <4>1 DEF UnlinkSource
    <3> QED
      BY <2>3, <3>2, <3>3 DEF UnlinkSource
  <2>4. CASE Register(r)
    <3>1. disk' = [disk EXCEPT ![r] = disk[r]]
      BY <1>1, <2>4 DEF Register
    <3> QED
      BY <1>1, <1>2, <2>4, <3>1 DEF Register
  <2>5. CASE Convert(r)
    <3>1. PICK made \in SUBSET Audio :
              /\ disk' = [disk EXCEPT ![r] = {"source"} \cup made]
              /\ \/ made = Audio /\ UploadTo(r, "converted")
                 \/ UploadTo(r, "refused")
      BY <2>5 DEF Convert
    <3>2. {"source"} \cup made \in SUBSET Files
      BY DEF Files
    <3>3. upload[r] = "received"
      BY <2>5 DEF Convert
    <3> QED
      BY <1>2, <3>1, <3>2, <3>3
  <2> QED
    BY <1>4, <2>1, <2>2, <2>3, <2>4, <2>5
<1>5. ASSUME NEW m \in Meetings, Process(m) \/ Processed(m) PROVE UNCHANGED <<disk, upload>>
  BY <1>5 DEF Process, Processed
<1>6. ASSUME NEW d \in Deletes,
             (\E m \in Meetings : DeleteReads(d, m)) \/ DeleteCommits(d) \/ CleanLooks(d)
      PROVE  UNCHANGED <<disk, upload>>
  BY <1>6 DEF DeleteReads, DeleteCommits, CleanLooks
<1>7. ASSUME ScriptCommits \/ (\E m \in Meetings, t \in Comparisons : ScriptReads(m, t))
      PROVE  UNCHANGED <<disk, upload>>
  BY <1>7 DEF ScriptCommits, ScriptReads
<1>8. ASSUME NEW d \in Deletes, CleanUnlinks(d)
      PROVE  /\ disk' \in [Recordings -> SUBSET Files]
             /\ \A r \in Recordings : Settled(r) => Settled(r)' /\ disk'[r] \subseteq disk[r]
             /\ Uploading'
  <2>1. delete[d].dir \in Recordings /\ Settled(delete[d].dir)
    BY <1>8, HandlerTypes DEF CleanUnlinks, FilesInv, RefersToSettled
  <2>2. upload' = upload /\ \E f : disk' = [disk EXCEPT ![delete[d].dir] = @ \ {f}] \/ disk' = disk
    BY <1>8 DEF CleanUnlinks
  <2> QED
    BY <1>1, <2>1, <2>2 DEF Settled, Uploading
<1>9. CASE FilesCrash
  BY <1>1, <1>9 DEF FilesCrash, Settled, Uploading
<1>10. CASE UNCHANGED filesVars
  BY <1>1, <1>3, <1>10 DEF filesVars
<1>11. ASSUME NEW d \in Deletes, CleanUnlinks(d) PROVE UNCHANGED upload
  BY <1>11 DEF CleanUnlinks
<1> QED
  BY <1>1, <1>3, <1>4, <1>5, <1>6, <1>7, <1>8, <1>9, <1>10, <1>11 DEF FilesMove, FilesStep

LEMMA ReferencesStep ==
    ASSUME FilesInv, FilesMove, NEW m \in Meetings, Exists(m)'
    PROVE  meeting'[m].dir \in Recordings /\ Settled(meeting[m].dir)'
<1>1. \A r \in Recordings : Settled(r) => Settled(r)'
  BY DisksStep
<1>2. \A n \in Meetings : Exists(n) => meeting[n].dir \in Recordings /\ Settled(meeting[n].dir)
  BY DEF FilesInv, RefersToSettled
<1>3. \A D : D \in Recordings /\ D = meeting'[m].dir /\ Settled(D)' => Settled(meeting[m].dir)'
  BY DEF Settled
<1>4. SUFFICES meeting'[m].dir \in Recordings /\ \A D : D = meeting'[m].dir => Settled(D)'
  BY <1>3
<1>5. CASE UNCHANGED meeting
  BY <1>1, <1>2, <1>5 DEF Exists
<1>6. ASSUME NEW r \in Recordings, Registered(r)
      PROVE  meeting'[m].dir \in Recordings /\ \A D : D = meeting'[m].dir => Settled(D)'
  <2>1. upload' = [upload EXCEPT ![r] = "over"] /\ disk' = disk /\ disk[r] = Audio
    BY <1>6 DEF Registered, UploadTo, FilesInv, Uploading
  <2>2. upload'[r] = "over"
    BY <2>1 DEF FilesInv, FilesTypeOK
  <2>3. Settled(r)'
    BY <2>1, <2>2 DEF Settled
  <2>4. meeting' = [meeting EXCEPT ![r] = [status |-> "uploaded", dir |-> r, turns |-> <<>>]]
    BY <1>6 DEF Registered, Rewritten
  <2>5. CASE m = r
    BY <2>3, <2>4, <2>5, Typed
  <2>6. CASE m # r
    BY <1>1, <1>2, <2>4, <2>6, Typed DEF Exists
  <2> QED
    BY <2>5, <2>6
<1>7. CASE \E n \in Meetings, x \in Row : Moved(n, x)
  BY <1>1, <1>2, <1>7, Typed DEF Moved, Rewritten, Exists
<1>8. CASE \E d \in Deletes : DeleteCommits(d)
  BY <1>1, <1>2, <1>8, Typed, HandlerTypes DEF DeleteCommits, Exists, NoMeeting
<1>9. CASE \E x \in Row : Compared(script.target, x)
  BY <1>1, <1>2, <1>9, Typed, ScriptTypes DEF Compared, Rewritten, Exists
<1> QED
  BY <1>5, <1>6, <1>7, <1>8, <1>9, RowChanges

LEMMA OwnDirectoryStep ==
    ASSUME FilesInv, FilesMove, NEW r \in Recordings, Exists(r)'
    PROVE  meeting'[r].dir = r
<1>1. Exists(r) => meeting[r].dir = r
  BY DEF FilesInv, RefersToSettled
<1>2. r \in Meetings /\ r \notin Comparisons
  BY FilesAssumption DEF Meetings
<1>3. CASE UNCHANGED meeting
  BY <1>1, <1>3 DEF Exists
<1>4. CASE \E q \in Recordings : Registered(q)
  BY <1>1, <1>2, <1>4, Typed DEF Registered, Rewritten, Exists
<1>5. CASE \E n \in Meetings, x \in Row : Moved(n, x)
  BY <1>1, <1>2, <1>5, Typed DEF Moved, Rewritten, Exists
<1>6. CASE \E d \in Deletes : DeleteCommits(d)
  BY <1>1, <1>2, <1>6, Typed DEF DeleteCommits, Exists, NoMeeting
<1>7. CASE \E x \in Row : Compared(script.target, x)
  BY <1>1, <1>2, <1>7, ScriptTypes DEF Compared, Rewritten, Exists
<1> QED
  BY <1>3, <1>4, <1>5, <1>6, <1>7, RowChanges

\* A step changes one deletion, or a crash ends them all.
LEMMA DeleteChanges ==
    ASSUME FilesInv, FilesMove
    PROVE  \/ UNCHANGED delete
           \/ delete' = [d \in Deletes |-> IdleDelete]
           \/ \E d \in Deletes, x \in DeleteStates :
                 /\ delete' = [delete EXCEPT ![d] = x]
                 /\ x.at # "idle" => Settled(x.dir)
<1>1. ASSUME NEW d \in Deletes, NEW m \in Meetings, DeleteReads(d, m)
      PROVE  \E x \in DeleteStates : /\ delete' = [delete EXCEPT ![d] = x]
                                     /\ x.at # "idle" => Settled(x.dir)
  <2> DEFINE x == [at |-> "reading", meeting |-> m, dir |-> meeting[m].dir, todo |-> Audio]
  <2>1. meeting[m].dir \in Recordings /\ Settled(meeting[m].dir)
    BY <1>1 DEF DeleteReads, FilesInv, RefersToSettled, Exists
  <2>2. x \in DeleteStates /\ x.dir = meeting[m].dir
    BY <2>1 DEF DeleteStates
  <2>3. Settled(x.dir)
    BY <2>1, <2>2
  <2>4. delete' = [delete EXCEPT ![d] = x]
    BY <1>1 DEF DeleteReads
  <2> HIDE DEF x
  <2> QED
    BY <2>2, <2>3, <2>4
<1>2. ASSUME NEW d \in Deletes, NEW at \in {"cleaning", "unlinking"}, delete[d].at \in {"reading", "cleaning"},
             delete' = [delete EXCEPT ![d].at = at]
      PROVE  \E x \in DeleteStates : /\ delete' = [delete EXCEPT ![d] = x]
                                     /\ x.at # "idle" => Settled(x.dir)
  <2> DEFINE x == [delete[d] EXCEPT !.at = at]
  <2>1. delete' = [delete EXCEPT ![d] = x]
    BY <1>2
  <2>2. delete[d] \in [at : {"reading", "cleaning", "unlinking"}, meeting : Meetings,
                       dir : Recordings, todo : {Audio, {"wav"}}]
    BY <1>2 DEF FilesInv, RefersToSettled, DeleteStates, IdleDelete
  <2>3. x \in DeleteStates /\ x.dir = delete[d].dir
    BY <2>2 DEF DeleteStates
  <2>4. Settled(x.dir)
    BY <1>2, <2>3 DEF FilesInv, RefersToSettled
  <2> HIDE DEF x
  <2> QED
    BY <2>1, <2>3, <2>4
<1>3. ASSUME NEW d \in Deletes, delete[d].at \in {"cleaning", "unlinking"}, Cleaned(d)
      PROVE  \E x \in DeleteStates : /\ delete' = [delete EXCEPT ![d] = x]
                                     /\ x.at # "idle" => Settled(x.dir)
  <2>1. CASE delete' = [delete EXCEPT ![d] = IdleDelete]
    <3>1. IdleDelete \in DeleteStates /\ IdleDelete.at = "idle"
      BY DEF DeleteStates, IdleDelete
    <3> QED
      BY <2>1, <3>1
  <2>2. CASE delete' = [delete EXCEPT ![d] = [at |-> "cleaning", meeting |-> delete[d].meeting,
                                              dir |-> delete[d].dir, todo |-> {"wav"}]]
    <3> DEFINE x == [at |-> "cleaning", meeting |-> delete[d].meeting,
                     dir |-> delete[d].dir, todo |-> {"wav"}]
    <3>1. x \in DeleteStates
      BY <1>3, HandlerTypes DEF DeleteStates
    <3>2. Settled(x.dir)
      BY <1>3 DEF FilesInv, RefersToSettled
    <3>3. delete' = [delete EXCEPT ![d] = x]
      BY <2>2
    <3> HIDE DEF x
    <3> QED
      BY <3>1, <3>2, <3>3
  <2> QED
    BY <1>3, <2>1, <2>2, CleanedResult DEF FilesInv
<1>4. ASSUME NEW r \in Recordings,
             Receive(r) \/ Convert(r) \/ Discard(r) \/ UnlinkSource(r) \/ Register(r)
      PROVE  UNCHANGED delete
  BY <1>4 DEF Receive, Convert, Discard, UnlinkSource, Register
<1>5. ASSUME NEW m \in Meetings, Process(m) \/ Processed(m) PROVE UNCHANGED delete
  BY <1>5 DEF Process, Processed
<1>6. ASSUME ScriptCommits \/ (\E m \in Meetings, t \in Comparisons : ScriptReads(m, t))
      PROVE  UNCHANGED delete
  BY <1>6 DEF ScriptCommits, ScriptReads
<1>7. ASSUME NEW d \in Deletes, DeleteCommits(d)
      PROVE  \E x \in DeleteStates : /\ delete' = [delete EXCEPT ![d] = x]
                                     /\ x.at # "idle" => Settled(x.dir)
  BY <1>2, <1>7 DEF DeleteCommits
<1>8. ASSUME NEW d \in Deletes, CleanLooks(d)
      PROVE  \E x \in DeleteStates : /\ delete' = [delete EXCEPT ![d] = x]
                                     /\ x.at # "idle" => Settled(x.dir)
  BY <1>2, <1>3, <1>8 DEF CleanLooks
<1>9. ASSUME NEW d \in Deletes, CleanUnlinks(d)
      PROVE  \E x \in DeleteStates : /\ delete' = [delete EXCEPT ![d] = x]
                                     /\ x.at # "idle" => Settled(x.dir)
  BY <1>3, <1>9 DEF CleanUnlinks
<1>10. CASE FilesCrash \/ UNCHANGED filesVars
  BY <1>10 DEF FilesCrash, filesVars
<1> QED
  BY <1>1, <1>4, <1>5, <1>6, <1>7, <1>8, <1>9, <1>10 DEF FilesMove, FilesStep

LEMMA DeleteStatesTyped ==
    ASSUME NEW x \in DeleteStates
    PROVE  /\ x \in [at : {"idle", "reading", "cleaning", "unlinking"},
                     meeting : Meetings \cup {None}, dir : Recordings \cup {None},
                     todo : SUBSET Audio]
           /\ x.at # "idle" => x.todo # {} /\ x.dir \in Recordings
BY DEF DeleteStates, IdleDelete, Audio

LEMMA ScriptStatesTyped ==
    ASSUME NEW x \in ScriptStates
    PROVE  x \in [at : {"idle", "reading"}, source : Meetings \cup {None},
                 target : Comparisons \cup {None}, dir : Recordings \cup {None},
                 fresh : BOOLEAN]
<1>1. CASE x = IdleScript
  BY <1>1 DEF IdleScript
<1>2. CASE x \in [at : {"reading"}, source : Meetings, target : Comparisons,
                  dir : Recordings, fresh : BOOLEAN]
  BY <1>2
<1> QED
  BY <1>1, <1>2 DEF ScriptStates

LEMMA DeletesStep ==
    ASSUME FilesInv, FilesMove
    PROVE  /\ delete' \in [Deletes -> DeleteStates]
           /\ (\A d \in Deletes : delete[d].at # "idle" => Settled(delete[d].dir))'
<1>1. delete \in [Deletes -> DeleteStates]
  BY DEF FilesInv, FilesTypeOK, RefersToSettled
<1>2. \A d \in Deletes : delete[d].at # "idle" => delete[d].dir \in Recordings /\ Settled(delete[d].dir)
  BY <1>1, DeleteStatesTyped DEF FilesInv, RefersToSettled
<1>3. \A r \in Recordings : Settled(r) => Settled(r)'
  BY DisksStep
<1>4. delete' \in [Deletes -> DeleteStates]
  BY <1>1, DeleteChanges DEF DeleteStates
<1>5. ASSUME NEW d \in Deletes, delete'[d].at # "idle"
      PROVE  delete'[d].dir \in Recordings /\ Settled(delete'[d].dir)
  <2>1. CASE UNCHANGED delete
    BY <1>2, <1>5, <2>1
  <2>2. CASE delete' = [e \in Deletes |-> IdleDelete]
    BY <1>5, <2>2 DEF IdleDelete
  <2>3. ASSUME NEW e \in Deletes, NEW x \in DeleteStates, delete' = [delete EXCEPT ![e] = x],
               x.at # "idle" => Settled(x.dir)
        PROVE  delete'[d].dir \in Recordings /\ Settled(delete'[d].dir)
    BY <1>1, <1>2, <1>5, <2>3, DeleteStatesTyped
  <2> QED
    BY <2>1, <2>2, <2>3, DeleteChanges
<1> QED
  BY <1>3, <1>4, <1>5 DEF Settled

LEMMA ScriptStep ==
    ASSUME FilesInv, FilesMove
    PROVE  /\ script' \in ScriptStates
           /\ (script.at # "idle" => Settled(script.dir) /\ written[script.target] < MaxScripts)'
           /\ written' \in [Comparisons -> 0 .. MaxScripts]
<1>1. /\ script \in ScriptStates
      /\ script.at # "idle" => Settled(script.dir) /\ written[script.target] < MaxScripts
      /\ script.at # "idle" => script.dir \in Recordings /\ script.target \in Comparisons
      /\ written \in [Comparisons -> 0 .. MaxScripts]
  BY DEF FilesInv, FilesTypeOK, RefersToSettled, ScriptStates, IdleScript
<1>2. \A r \in Recordings : Settled(r) => Settled(r)'
  BY DisksStep
<1>3. CASE UNCHANGED <<script, written>>
  BY <1>1, <1>2, <1>3 DEF Settled
<1>4. ASSUME NEW s \in Meetings, NEW t \in Comparisons, ScriptReads(s, t)
      PROVE  /\ script' \in ScriptStates
             /\ (script.at # "idle" => Settled(script.dir) /\ written[script.target] < MaxScripts)'
             /\ written' \in [Comparisons -> 0 .. MaxScripts]
  <2>1. meeting[s].dir \in Recordings /\ Settled(meeting[s].dir)
    BY <1>4 DEF ScriptReads, FilesInv, RefersToSettled
  <2>2. script' = [at |-> "reading", source |-> s, target |-> t, dir |-> meeting[s].dir,
                   fresh |-> ~Exists(t)]
        /\ UNCHANGED <<written, disk, upload>> /\ written[t] < MaxScripts
    BY <1>4 DEF ScriptReads
  <2>3. (~Exists(t)) \in BOOLEAN
    BY DEF Exists
  <2>4. script' \in ScriptStates
    BY <2>1, <2>2, <2>3 DEF ScriptStates
  <2> QED
    BY <1>1, <2>1, <2>2, <2>4 DEF Settled
<1>5. CASE ScriptCommits
  <2>1. script' = IdleScript /\ (written' = written \/ written' = [written EXCEPT ![script.target] = @ + 1])
    BY <1>5 DEF ScriptCommits
  <2>2. written[script.target] + 1 \in 0 .. MaxScripts
    BY <1>5, ScriptTypes, FilesAssumption DEF ScriptCommits
  <2> QED
    BY <1>1, <2>1, <2>2 DEF ScriptStates, IdleScript
<1>6. ASSUME NEW r \in Recordings,
             Receive(r) \/ Convert(r) \/ Discard(r) \/ UnlinkSource(r) \/ Register(r)
      PROVE  UNCHANGED <<script, written>>
  BY <1>6 DEF Receive, Convert, Discard, UnlinkSource, Register
<1>7. ASSUME NEW m \in Meetings, Process(m) \/ Processed(m) PROVE UNCHANGED <<script, written>>
  BY <1>7 DEF Process, Processed
<1>8. ASSUME NEW d \in Deletes,
             (\E m \in Meetings : DeleteReads(d, m)) \/ DeleteCommits(d) \/ CleanLooks(d) \/ CleanUnlinks(d)
      PROVE  UNCHANGED <<script, written>>
  BY <1>8 DEF DeleteReads, DeleteCommits, CleanLooks, CleanUnlinks
<1>9. CASE FilesCrash \/ UNCHANGED filesVars
  BY <1>3, <1>9 DEF FilesCrash, filesVars
<1> QED
  BY <1>3, <1>4, <1>5, <1>6, <1>7, <1>8, <1>9 DEF FilesMove, FilesStep

-----------------------------------------------------------------------------
(* The audio of a meeting.                                                   *)

\* The step gives no meeting that counts a directory it did not have.
NoNewHolders ==
    \A m \in Meetings \ orphaned' :
        meeting'[m].status # "none" =>
            m \notin orphaned /\ Exists(m) /\ meeting'[m].dir = meeting[m].dir

LEMMA AudioStays ==
    ASSUME AudioKept, NoNewHolders,
           \A m \in Meetings \ orphaned : Exists(m) => disk'[meeting[m].dir] = disk[meeting[m].dir]
    PROVE  AudioKept'
BY DEF AudioKept, NoNewHolders, Exists

LEMMA UnheldStays ==
    ASSUME NoNewHolders,
           \A d \in Deletes : delete'[d].at = "unlinking" => ~Held(delete'[d].dir)
    PROVE  EmptiedUnheld'
BY DEF EmptiedUnheld, NoNewHolders, Held, Exists

LEMMA AudioStep ==
    ASSUME FilesInv, FilesMove
    PROVE  AudioKept' /\ EmptiedUnheld'
<1>1. AudioKept /\ EmptiedUnheld
  BY DEF FilesInv
<1>2. \A m \in Meetings : Exists(m) => meeting[m].dir \in Recordings /\ Settled(meeting[m].dir)
  BY DEF FilesInv, RefersToSettled
<1>3. \A d \in Deletes : delete[d].at # "idle" => delete[d].dir \in Recordings /\ Settled(delete[d].dir)
  BY DeleteStatesTyped DEF FilesInv, RefersToSettled
<1>4. /\ disk \in [Recordings -> SUBSET Files] /\ delete \in [Deletes -> DeleteStates]
      /\ meeting \in [Meetings -> Row] /\ orphaned \subseteq Comparisons
  BY DEF FilesInv, FilesTypeOK, RefersToSettled, Row
<1>5. CASE UNCHANGED <<meeting, orphaned, delete>> /\
           \A m \in Meetings : Exists(m) => disk'[meeting[m].dir] = disk[meeting[m].dir]
  <2>1. NoNewHolders
    BY <1>5 DEF NoNewHolders, Exists
  <2> QED
    BY <1>1, <1>5, <2>1, AudioStays, UnheldStays DEF EmptiedUnheld
<1>6. ASSUME NEW r \in Recordings, Receive(r) \/ Convert(r) \/ Discard(r) \/ UnlinkSource(r)
      PROVE  AudioKept' /\ EmptiedUnheld'
  <2>1. UNCHANGED <<meeting, orphaned, delete>> /\ upload[r] # "over"
    BY <1>6 DEF Receive, Convert, Discard, UnlinkSource
  <2>2. disk' = disk \/ \E files : disk' = [disk EXCEPT ![r] = files]
    BY <1>6 DEF Receive, Convert, Discard, UnlinkSource
  <2>3. \A m \in Meetings : Exists(m) => disk'[meeting[m].dir] = disk[meeting[m].dir]
    BY <1>2, <1>4, <2>1, <2>2 DEF Settled
  <2> QED
    BY <1>5, <2>1, <2>3
<1>7. ASSUME NEW r \in Recordings, Register(r) PROVE AudioKept' /\ EmptiedUnheld'
  <2>1. CASE UNCHANGED meeting
    BY <1>5, <1>7, <2>1 DEF Register
  <2>2. CASE meeting' = [meeting EXCEPT ![r] = [status |-> "uploaded", dir |-> r, turns |-> <<>>]]
    <3>1. disk[r] = Audio /\ upload[r] # "over" /\ UNCHANGED <<disk, delete, orphaned>>
      BY <1>7 DEF Register, FilesInv, Uploading
    <3>2. \A m \in Meetings : m # r => meeting'[m] = meeting[m]
      BY <2>2
    <3>3. meeting'[r].dir = r /\ r \in Meetings
      BY <1>4, <2>2 DEF Meetings
    <3>4. AudioKept'
      BY <1>1, <3>1, <3>2, <3>3 DEF AudioKept, Exists
    <3>5. \A d \in Deletes : delete[d].at = "unlinking" => delete[d].dir # r
      BY <1>3, <3>1 DEF Settled
    <3>6. EmptiedUnheld'
      BY <1>1, <3>1, <3>2, <3>3, <3>5 DEF EmptiedUnheld, Held, Exists
    <3> QED
      BY <3>4, <3>6
  <2> QED
    BY <1>7, <2>1, <2>2 DEF Register
<1>8. ASSUME NEW m \in Meetings, Process(m) \/ Processed(m) PROVE AudioKept' /\ EmptiedUnheld'
  <2>1. UNCHANGED <<disk, orphaned, delete>> /\ Exists(m)
    BY <1>8 DEF Process, Processed, Exists
  <2>2. \A n \in Meetings : meeting'[n].dir = meeting[n].dir
    BY <1>4, <1>8 DEF Process, Processed, Row
  <2>3. \A n \in Meetings : n # m => meeting'[n] = meeting[n]
    BY <1>4, <1>8 DEF Process, Processed
  <2>4. NoNewHolders
    BY <2>1, <2>2, <2>3 DEF NoNewHolders, Exists
  <2> QED
    BY <1>1, <2>1, <2>4, AudioStays, UnheldStays DEF EmptiedUnheld
<1>9. ASSUME NEW d \in Deletes, NEW m \in Meetings, DeleteReads(d, m) PROVE AudioKept' /\ EmptiedUnheld'
  <2>1. UNCHANGED <<meeting, orphaned, disk>>
    BY <1>9 DEF DeleteReads
  <2>2. NoNewHolders
    BY <2>1 DEF NoNewHolders, Exists
  <2>3. \A e \in Deletes : delete'[e].at = "unlinking" => delete'[e] = delete[e]
    BY <1>4, <1>9 DEF DeleteReads
  <2> QED
    BY <1>1, <2>1, <2>2, <2>3, AudioStays, UnheldStays DEF EmptiedUnheld
<1>10. ASSUME NEW d \in Deletes, DeleteCommits(d) PROVE AudioKept' /\ EmptiedUnheld'
  <2>1. UNCHANGED <<orphaned, disk>>
    BY <1>10 DEF DeleteCommits
  <2>2. NoNewHolders
    BY <1>4, <1>10 DEF DeleteCommits, NoNewHolders, NoMeeting, Exists
  <2>3. \A e \in Deletes : delete'[e].at = "unlinking" => delete'[e] = delete[e]
    BY <1>4, <1>10 DEF DeleteCommits, DeleteStates, IdleDelete
  <2> QED
    BY <1>1, <2>1, <2>2, <2>3, AudioStays, UnheldStays DEF EmptiedUnheld
<1>11. ASSUME NEW d \in Deletes, CleanLooks(d) PROVE AudioKept' /\ EmptiedUnheld'
  <2>1. UNCHANGED <<meeting, orphaned, disk>>
    BY <1>11 DEF CleanLooks
  <2>2. NoNewHolders
    BY <2>1 DEF NoNewHolders, Exists
  <2>3. CASE StillReferenced(d)
    <3>1. Cleaned(d) /\ delete[d].at = "cleaning"
      BY <1>11, <2>3 DEF CleanLooks
    <3>2. \A e \in Deletes : delete'[e].at = "unlinking" => delete'[e] = delete[e]
      BY <1>4, <3>1, CleanedResult DEF FilesInv, IdleDelete
    <3> QED
      BY <1>1, <2>1, <2>2, <3>2, AudioStays, UnheldStays DEF EmptiedUnheld
  <2>4. CASE ~StillReferenced(d)
    <3>1. delete' = [delete EXCEPT ![d].at = "unlinking"] /\ ~Referenced(delete[d].dir)
      BY <1>11, <2>4 DEF CleanLooks, StillReferenced
    <3>2. ~Held(delete[d].dir)
      BY <3>1 DEF Held, Referenced
    <3>3. delete'[d].dir = delete[d].dir
      BY <1>4, <3>1 DEF DeleteStates, IdleDelete
    <3>4. \A e \in Deletes : e # d => delete'[e] = delete[e]
      BY <1>4, <3>1
    <3>5. \A e \in Deletes : delete'[e].at = "unlinking" => ~Held(delete'[e].dir)
      BY <1>1, <3>2, <3>3, <3>4 DEF EmptiedUnheld
    <3> QED
      BY <1>1, <2>1, <2>2, <3>5, AudioStays, UnheldStays
  <2> QED
    BY <2>3, <2>4
<1>12. ASSUME NEW d \in Deletes, CleanUnlinks(d) PROVE AudioKept' /\ EmptiedUnheld'
  <2>1. UNCHANGED <<meeting, orphaned>> /\ delete[d].at = "unlinking" /\ Cleaned(d)
    BY <1>12 DEF CleanUnlinks
  <2>2. NoNewHolders
    BY <2>1 DEF NoNewHolders, Exists
  <2>3. \A e \in Deletes : delete'[e].at = "unlinking" => delete'[e] = delete[e]
    BY <1>4, <2>1, CleanedResult DEF FilesInv, IdleDelete
  <2>4. \A m \in Meetings \ orphaned : Exists(m) => meeting[m].dir # delete[d].dir
    BY <1>1, <2>1 DEF EmptiedUnheld, Held
  <2>5. \A m \in Meetings \ orphaned : Exists(m) => disk'[meeting[m].dir] = disk[meeting[m].dir]
    BY <1>2, <1>4, <1>12, <2>4 DEF CleanUnlinks
  <2> QED
    BY <1>1, <2>1, <2>2, <2>3, <2>5, AudioStays, UnheldStays DEF EmptiedUnheld
<1>13. ASSUME ScriptCommits PROVE AudioKept' /\ EmptiedUnheld'
  <2> DEFINE t == script.target
  <2>1. /\ t \in Meetings /\ script.dir \in Recordings
        /\ UNCHANGED <<disk, delete>>
    BY <1>13, ScriptTypes DEF ScriptCommits, Meetings
  <2>2. CASE UNCHANGED <<meeting, orphaned>>
    BY <1>5, <2>1, <2>2
  <2>3. ASSUME NEW turns \in Transcripts,
               meeting' = [meeting EXCEPT ![t] =
                              [status |-> "completed", dir |-> script.dir, turns |-> turns]],
               orphaned' = IF Held(script.dir) THEN orphaned \ {t} ELSE orphaned \cup {t}
        PROVE  AudioKept' /\ EmptiedUnheld'
    <3>1. \A m \in Meetings : m # t => meeting'[m] = meeting[m]
      BY <2>3
    <3>2. meeting'[t].dir = script.dir
      BY <1>4, <2>1, <2>3
    <3>3. CASE Held(script.dir)
      <4>1. orphaned' = orphaned \ {t} /\ disk[script.dir] = Audio
        BY <1>1, <2>3, <3>3 DEF AudioKept, Held
      <4>2. \A d \in Deletes : delete[d].at = "unlinking" => delete[d].dir # script.dir
        BY <1>1, <3>3 DEF EmptiedUnheld
      <4>3. AudioKept'
        BY <1>1, <2>1, <3>1, <3>2, <4>1 DEF AudioKept, Exists
      <4>4. EmptiedUnheld'
        BY <1>1, <2>1, <3>1, <3>2, <4>1, <4>2 DEF EmptiedUnheld, Held, Exists
      <4> QED
        BY <4>3, <4>4
    <3>4. CASE ~Held(script.dir)
      <4>1. NoNewHolders
        BY <2>3, <3>1, <3>4 DEF NoNewHolders, Exists
      <4> QED
        BY <1>1, <2>1, <4>1, AudioStays, UnheldStays DEF EmptiedUnheld
    <3> QED
      BY <3>3, <3>4
  <2> QED
    BY <1>13, <2>2, <2>3 DEF ScriptCommits
<1>14. ASSUME NEW s \in Meetings, NEW t \in Comparisons, ScriptReads(s, t) PROVE AudioKept' /\ EmptiedUnheld'
  BY <1>5, <1>14 DEF ScriptReads
<1>15. CASE FilesCrash
  <2>1. UNCHANGED <<meeting, orphaned, disk>> /\ \A d \in Deletes : delete'[d].at # "unlinking"
    BY <1>15 DEF FilesCrash, IdleDelete
  <2>2. NoNewHolders
    BY <2>1 DEF NoNewHolders, Exists
  <2> QED
    BY <1>1, <2>1, <2>2, AudioStays, UnheldStays
<1>16. CASE UNCHANGED filesVars
  BY <1>5, <1>16 DEF filesVars
<1> QED
  BY <1>6, <1>7, <1>8, <1>9, <1>10, <1>11, <1>12, <1>13, <1>14, <1>15, <1>16 DEF FilesMove, FilesStep

-----------------------------------------------------------------------------
(* The owners of files.                                                      *)

\* Whatever is not touched keeps its owner.
LEMMA OwnersStay ==
    ASSUME NEW r, NEW f, FileOwned(r, f),
           Referenced(r) => Referenced(r)' \/ r \in leaked',
           leaked \subseteq leaked', stuck[r] \subseteq stuck'[r],
           \A d \in Deletes : delete[d].at \in {"cleaning", "unlinking"} /\ delete[d].dir = r =>
               delete'[d] = delete[d]
    PROVE  FileOwned(r, f)'
BY DEF FileOwned

\* A directory whose reference goes with the row of m is left behind by it.
LEMMA LeftBehind ==
    ASSUME FilesInv, NEW m \in Meetings, NEW r \in Recordings, Referenced(r),
           \A n \in Meetings : n # m => meeting'[n] = meeting[n]
    PROVE  Referenced(r)' \/ r \in LeftBy(m)
<1>1. \A n \in Meetings : Exists(n) <=> meeting[n].dir # None
  BY DEF FilesInv, FilesTypeOK
<1>2. r # None
  BY FilesAssumption
<1>3. CASE \E n \in Meetings : n # m /\ meeting[n].dir = r
  BY <1>1, <1>2, <1>3 DEF Referenced, Exists
<1>4. CASE ~ \E n \in Meetings : n # m /\ meeting[n].dir = r
  BY <1>2, <1>4 DEF Referenced, LeftBy
<1> QED
  BY <1>3, <1>4

LEMMA OwnedStep ==
    ASSUME FilesInv, FilesMove
    PROVE  Owned'
<1> SUFFICES ASSUME NEW r \in Recordings, upload'[r] = "over", NEW f \in disk'[r]
             PROVE  FileOwned(r, f)'
  BY DEF Owned
<1>1. upload[r] = "over" /\ f \in disk[r] => FileOwned(r, f)
  BY DEF FilesInv, Owned
<1>2. /\ disk \in [Recordings -> SUBSET Files] /\ delete \in [Deletes -> DeleteStates]
      /\ upload \in [Recordings -> {"none", "received", "converted", "refused", "stored", "over"}]
      /\ meeting \in [Meetings -> Row]
  BY DEF FilesInv, FilesTypeOK, RefersToSettled, Row
<1>3. CASE /\ UNCHANGED <<meeting, leaked, delete>> /\ stuck[r] \subseteq stuck'[r]
           /\ upload[r] = "over" /\ f \in disk[r]
  BY <1>1, <1>3, OwnersStay DEF Referenced, Exists
<1>0. stuck \in [Recordings -> SUBSET Files]
  BY DEF FilesInv, FilesTypeOK
<1>4. ASSUME NEW q \in Recordings, Receive(q) \/ Convert(q) \/ Discard(q) \/ UnlinkSource(q)
      PROVE  FileOwned(r, f)'
  <2>1. /\ UNCHANGED <<meeting, delete>> /\ leaked \subseteq leaked'
        /\ stuck[r] \subseteq stuck'[r]
    BY <1>0, <1>4 DEF Receive, Convert, Discard, UnlinkSource, CannotRemove
  <2>2. CASE q # r
    <3>1. upload[r] = "over" /\ f \in disk[r]
      BY <1>2, <1>4, <2>2 DEF Receive, Convert, Discard, UnlinkSource, UploadTo
    <3> QED
      BY <1>1, <2>1, <3>1, OwnersStay DEF Referenced, Exists
  <2>3. CASE q = r
    <3>1. Discard(r) \/ (UnlinkSource(r) /\ r \in leaked')
      BY <1>2, <1>4, <2>3 DEF Receive, Convert, Discard, UnlinkSource, UploadTo
    <3>2. ASSUME Discard(r) PROVE f \in stuck'[r]
      <4>1. PICK left \in SUBSET disk[r] : disk' = [disk EXCEPT ![r] = left] /\ CannotRemove(r, left)
        BY <3>2 DEF Discard
      <4> QED
        BY <1>0, <1>2, <4>1 DEF CannotRemove
    <3> QED
      BY <3>1, <3>2 DEF FileOwned
  <2> QED
    BY <2>2, <2>3
<1>5. ASSUME NEW q \in Recordings, Register(q) PROVE FileOwned(r, f)'
  <2>1. UNCHANGED <<disk, delete, stuck>> /\ leaked \subseteq leaked' /\ q \in Meetings
    BY <1>5 DEF Register, Meetings
  <2>2. CASE q = r
    BY <1>2, <1>5, <2>1, <2>2 DEF Register, FileOwned, Referenced, Exists
  <2>3. CASE q # r
    <3>1. FileOwned(r, f)
      BY <1>1, <1>2, <1>5, <2>1, <2>3 DEF Register, UploadTo
    <3>2. ~Exists(q)
      BY <1>5, <2>1 DEF Register, FilesInv, RefersToSettled, Settled
    <3>3. \A n \in Meetings : n # q => meeting'[n] = meeting[n]
      BY <1>2, <1>5 DEF Register
    <3>4. Referenced(r) => Referenced(r)'
      BY <3>2, <3>3 DEF Referenced, Exists
    <3> QED
      BY <2>1, <3>1, <3>4, OwnersStay
  <2> QED
    BY <2>2, <2>3
<1>6. ASSUME NEW m \in Meetings, Process(m) \/ Processed(m) PROVE FileOwned(r, f)'
  <2>1. UNCHANGED <<disk, upload, leaked, delete, stuck>> /\ Exists(m)
    BY <1>6 DEF Process, Processed, Exists
  <2>2. \A n \in Meetings : meeting'[n].dir = meeting[n].dir
    BY <1>2, <1>6 DEF Process, Processed, Row
  <2>3. \A n \in Meetings : Exists(n) => meeting'[n].status # "none"
    BY <1>2, <1>6 DEF Process, Processed, Row, Exists
  <2>4. Referenced(r) => Referenced(r)'
    BY <2>2, <2>3 DEF Referenced, Exists
  <2> QED
    BY <1>1, <2>1, <2>4, OwnersStay
<1>7. ASSUME NEW d \in Deletes, NEW m \in Meetings, DeleteReads(d, m) PROVE FileOwned(r, f)'
  <2>1. UNCHANGED <<meeting, disk, upload, leaked, stuck>>
    BY <1>7 DEF DeleteReads
  <2>2. \A e \in Deletes : delete[e].at \in {"cleaning", "unlinking"} => delete'[e] = delete[e]
    BY <1>2, <1>7 DEF DeleteReads
  <2> QED
    BY <1>1, <2>1, <2>2, OwnersStay DEF Referenced, Exists
<1>8. ASSUME NEW d \in Deletes, DeleteCommits(d) PROVE FileOwned(r, f)'
  <2> DEFINE m == delete[d].meeting
  <2>1. /\ UNCHANGED <<disk, upload, stuck>> /\ m \in Meetings /\ delete[d].at = "reading"
        /\ delete[d].todo = Audio /\ Settled(delete[d].dir)
    BY <1>8, HandlerTypes DEF DeleteCommits, FilesInv, RefersToSettled
  <2>2. leaked' = leaked \cup (LeftBy(m) \ {delete[d].dir})
    BY <1>8 DEF DeleteCommits
  <2>3. \A n \in Meetings : n # m => meeting'[n] = meeting[n]
    BY <1>2, <1>8 DEF DeleteCommits
  <2>4. Referenced(r) => Referenced(r)' \/ r \in LeftBy(m)
    BY <2>1, <2>3, LeftBehind
  <2>5. CASE r = delete[d].dir
    <3>1. f \in Audio
      BY <2>1, <2>5 DEF Settled
    <3>2. delete'[d].at = "cleaning" /\ delete'[d].dir = r /\ delete'[d].todo = Audio
      BY <1>2, <1>8, <2>1, <2>5 DEF DeleteCommits, DeleteStates, IdleDelete
    <3> QED
      BY <3>1, <3>2 DEF FileOwned
  <2>6. CASE r # delete[d].dir
    <3>1. \A e \in Deletes : delete[e].at \in {"cleaning", "unlinking"} => delete'[e] = delete[e]
      BY <1>2, <1>8 DEF DeleteCommits
    <3> QED
      BY <1>1, <2>1, <2>2, <2>4, <2>6, <3>1, OwnersStay
  <2> QED
    BY <2>5, <2>6
<1>9. ASSUME NEW d \in Deletes, CleanLooks(d) PROVE FileOwned(r, f)'
  <2>1. UNCHANGED <<meeting, disk, upload, leaked, stuck>> /\ delete[d].at = "cleaning"
    BY <1>9 DEF CleanLooks
  <2>2. CASE StillReferenced(d)
    <3>1. \E x : delete' = [delete EXCEPT ![d] = x]
      BY <1>9, <2>2, CleanedResult DEF CleanLooks, FilesInv
    <3>2. \A e \in Deletes : e # d => delete'[e] = delete[e]
      BY <1>2, <3>1
    <3>3. CASE r = delete[d].dir
      BY <2>1, <2>2, <3>3 DEF StillReferenced, FileOwned, Referenced, Exists
    <3>4. CASE r # delete[d].dir
      BY <1>1, <2>1, <3>2, <3>4, OwnersStay DEF Referenced, Exists
    <3> QED
      BY <3>3, <3>4
  <2>3. CASE ~StillReferenced(d)
    <3>1. delete' = [delete EXCEPT ![d].at = "unlinking"]
      BY <1>9, <2>3 DEF CleanLooks
    <3>2. \A e \in Deletes : e # d => delete'[e] = delete[e]
      BY <1>2, <3>1
    <3>3. /\ delete'[d].at = "unlinking" /\ delete'[d].dir = delete[d].dir
          /\ delete'[d].todo = delete[d].todo
      BY <1>2, <2>1, <3>1 DEF DeleteStates, IdleDelete
    <3> QED
      BY <1>1, <2>1, <3>2, <3>3 DEF FileOwned, Referenced, Exists
  <2> QED
    BY <2>2, <2>3
<1>10. ASSUME NEW d \in Deletes, CleanUnlinks(d) PROVE FileOwned(r, f)'
  <2>1. UNCHANGED <<meeting, upload, leaked>> /\ Cleaned(d) /\ delete[d].at = "unlinking"
    BY <1>10 DEF CleanUnlinks
  <2>2. /\ stuck[r] \subseteq stuck'[r]
        /\ \/ disk' = [disk EXCEPT ![delete[d].dir] = @ \ {NextFile(d)}]
           \/ disk' = disk /\ CannotRemove(delete[d].dir, {NextFile(d)})
    BY <1>0, <1>10 DEF CleanUnlinks, CannotRemove
  <2>3. FileOwned(r, f) /\ (r = delete[d].dir => f # NextFile(d) \/ f \in stuck'[r])
    BY <1>0, <1>1, <1>2, <2>1, <2>2 DEF CannotRemove
  <2>6. CASE f \in stuck'[r]
    BY <2>6 DEF FileOwned
  <2>4. CASE f \notin stuck'[r] /\ r = delete[d].dir /\ f \in delete[d].todo
    <3>1. delete[d].todo = Audio /\ NextFile(d) = "mp3" /\ f = "wav"
      BY <2>1, <2>3, <2>4, CleanedResult DEF FilesInv, Audio
    <3>2. delete' = [delete EXCEPT ![d] = [at |-> "cleaning", meeting |-> delete[d].meeting,
                                           dir |-> delete[d].dir, todo |-> {"wav"}]]
      BY <2>1, <3>1, CleanedResult DEF FilesInv
    <3>3. delete'[d].at = "cleaning" /\ delete'[d].dir = r /\ delete'[d].todo = {"wav"}
      BY <1>2, <2>4, <3>2
    <3> QED
      BY <3>1, <3>3 DEF FileOwned
  <2>5. CASE f \notin stuck'[r] /\ ~(r = delete[d].dir /\ f \in delete[d].todo)
    <3>1. \E x : delete' = [delete EXCEPT ![d] = x]
      BY <2>1, CleanedResult DEF FilesInv
    <3>2. \A e \in Deletes : e # d => delete'[e] = delete[e]
      BY <1>2, <3>1
    <3> QED
      BY <2>1, <2>2, <2>3, <2>5, <3>2 DEF FileOwned, Referenced, Exists
  <2> QED
    BY <2>4, <2>5, <2>6
<1>11. ASSUME NEW s \in Meetings, NEW t \in Comparisons, ScriptReads(s, t) PROVE FileOwned(r, f)'
  BY <1>3, <1>11 DEF ScriptReads
<1>12. CASE ScriptCommits
  <2> DEFINE t == script.target
  <2>1. UNCHANGED <<disk, upload, delete, stuck>> /\ t \in Meetings /\ script.dir \in Recordings
    BY <1>12, ScriptTypes DEF ScriptCommits, Meetings
  <2>2. CASE UNCHANGED <<meeting, leaked>>
    BY <1>3, <2>1, <2>2
  <2>3. ASSUME NEW turns \in Transcripts,
               meeting' = [meeting EXCEPT ![t] =
                              [status |-> "completed", dir |-> script.dir, turns |-> turns]],
               leaked' = leaked \cup (LeftBy(t) \ {script.dir})
        PROVE  FileOwned(r, f)'
    <3>1. \A n \in Meetings : n # t => meeting'[n] = meeting[n]
      BY <1>2, <2>3
    <3>2. Referenced(r) => Referenced(r)' \/ r \in LeftBy(t)
      BY <2>1, <3>1, LeftBehind
    <3>3. CASE r = script.dir
      <4>1. meeting'[t].status = "completed" /\ meeting'[t].dir = r
        BY <1>2, <2>1, <2>3, <3>3
      <4> QED
        BY <2>1, <4>1 DEF FileOwned, Referenced, Exists
    <3>4. CASE r # script.dir
      BY <1>1, <2>1, <2>3, <3>2, <3>4, OwnersStay
    <3> QED
      BY <3>3, <3>4
  <2> QED
    BY <1>12, <2>2, <2>3 DEF ScriptCommits
<1>13. CASE FilesCrash
  <2>1. UNCHANGED <<meeting, disk, stuck>> /\ leaked' = leaked \cup AtWork
    BY <1>13 DEF FilesCrash
  <2>2. CASE upload[r] = "over"
    BY <1>1, <2>1, <2>2 DEF FileOwned, Referenced, Exists, AtWork
  <2>3. CASE upload[r] # "over"
    <3>1. upload[r] # "none"
      BY <1>2, <1>13 DEF FilesCrash
    <3> QED
      BY <2>1, <2>3, <3>1 DEF FileOwned, AtWork
  <2> QED
    BY <2>2, <2>3
<1>14. CASE UNCHANGED filesVars
  BY <1>3, <1>14 DEF filesVars
<1> QED
  BY <1>4, <1>5, <1>6, <1>7, <1>8, <1>9, <1>10, <1>11, <1>12, <1>13, <1>14 DEF FilesMove, FilesStep

-----------------------------------------------------------------------------
(* The files, together.                                                      *)

LEMMA HistoryStep ==
    ASSUME FilesInv, FilesMove
    PROVE  crashes' \in 0 .. MaxCrashes /\ leaked' \subseteq Recordings /\ orphaned' \subseteq Comparisons
<1>1. crashes \in 0 .. MaxCrashes /\ leaked \subseteq Recordings /\ orphaned \subseteq Comparisons
  BY DEF FilesInv, FilesTypeOK
<1>2. CASE UNCHANGED <<crashes, leaked, orphaned>>
  BY <1>1, <1>2
<1>3. \A m \in Meetings : LeftBy(m) \subseteq Recordings
  BY Typed DEF LeftBy
<1>4. ASSUME NEW r \in Recordings,
             Receive(r) \/ Convert(r) \/ Discard(r) \/ UnlinkSource(r) \/ Register(r)
      PROVE  UNCHANGED <<crashes, orphaned>> /\ leaked' \subseteq Recordings
  BY <1>1, <1>4 DEF Receive, Convert, Discard, UnlinkSource, Register
<1>5. ASSUME NEW m \in Meetings, Process(m) \/ Processed(m) PROVE UNCHANGED <<crashes, leaked, orphaned>>
  BY <1>5 DEF Process, Processed
<1>6. ASSUME NEW d \in Deletes,
             (\E m \in Meetings : DeleteReads(d, m)) \/ CleanLooks(d) \/ CleanUnlinks(d)
      PROVE  UNCHANGED <<crashes, leaked, orphaned>>
  BY <1>6 DEF DeleteReads, CleanLooks, CleanUnlinks
<1>7. ASSUME NEW d \in Deletes, DeleteCommits(d)
      PROVE  UNCHANGED <<crashes, orphaned>> /\ leaked' \subseteq Recordings
  BY <1>1, <1>3, <1>7, HandlerTypes DEF DeleteCommits
<1>8. ASSUME NEW s \in Meetings, NEW t \in Comparisons, ScriptReads(s, t)
      PROVE  UNCHANGED <<crashes, leaked, orphaned>>
  BY <1>8 DEF ScriptReads
<1>9. ASSUME ScriptCommits
      PROVE  UNCHANGED crashes /\ leaked' \subseteq Recordings /\ orphaned' \subseteq Comparisons
  <2>1. script.target \in Comparisons /\ script.target \in Meetings
    BY <1>9, ScriptTypes DEF ScriptCommits, Meetings
  <2> QED
    BY <1>1, <1>3, <1>9, <2>1 DEF ScriptCommits
<1>10. CASE FilesCrash
  <2>1. AtWork \subseteq Recordings
    BY HandlerTypes DEF AtWork
  <2>2. crashes' \in 0 .. MaxCrashes
    BY <1>1, <1>10, FilesAssumption DEF FilesCrash
  <2> QED
    BY <1>1, <1>10, <2>1, <2>2 DEF FilesCrash
<1>11. CASE UNCHANGED filesVars
  BY <1>2, <1>11 DEF filesVars
<1> QED
  BY <1>1, <1>4, <1>5, <1>6, <1>7, <1>8, <1>9, <1>10, <1>11 DEF FilesMove, FilesStep

\* What could not be removed stays on record.
LEMMA StuckStep ==
    ASSUME FilesInv, FilesMove
    PROVE  stuck' \in [Recordings -> SUBSET Files]
<1>1. /\ stuck \in [Recordings -> SUBSET Files]
      /\ disk \in [Recordings -> SUBSET Files]
  BY DEF FilesInv, FilesTypeOK
<1>2. ASSUME NEW r, NEW files \in SUBSET Files, CannotRemove(r, files)
      PROVE  stuck' \in [Recordings -> SUBSET Files]
  BY <1>1, <1>2 DEF CannotRemove
<1>3. ASSUME NEW r \in Recordings, Discard(r) PROVE stuck' \in [Recordings -> SUBSET Files]
  BY <1>1, <1>2, <1>3 DEF Discard
<1>4. ASSUME NEW d \in Deletes, CleanUnlinks(d) PROVE stuck' \in [Recordings -> SUBSET Files]
  <2>1. {NextFile(d)} \in SUBSET Files
    BY DEF NextFile, Files, Audio
  <2> QED
    BY <1>1, <1>2, <1>4, <2>1 DEF CleanUnlinks
<1>5. ASSUME NEW r \in Recordings, Receive(r) \/ Convert(r) \/ UnlinkSource(r) \/ Register(r)
      PROVE  UNCHANGED stuck
  BY <1>5 DEF Receive, Convert, UnlinkSource, Register
<1>6. ASSUME NEW m \in Meetings, Process(m) \/ Processed(m) PROVE UNCHANGED stuck
  BY <1>6 DEF Process, Processed
<1>7. ASSUME NEW d \in Deletes,
             (\E m \in Meetings : DeleteReads(d, m)) \/ DeleteCommits(d) \/ CleanLooks(d)
      PROVE  UNCHANGED stuck
  BY <1>7 DEF DeleteReads, DeleteCommits, CleanLooks
<1>8. ASSUME ScriptCommits \/ (\E m \in Meetings, t \in Comparisons : ScriptReads(m, t))
      PROVE  UNCHANGED stuck
  BY <1>8 DEF ScriptCommits, ScriptReads
<1>9. CASE FilesCrash \/ UNCHANGED filesVars
  BY <1>1, <1>9 DEF FilesCrash, filesVars
<1> QED
  BY <1>1, <1>3, <1>4, <1>5, <1>6, <1>7, <1>8, <1>9 DEF FilesMove, FilesStep

LEMMA FilesInvInit == FilesInit => FilesInv
<1> SUFFICES ASSUME FilesInit PROVE FilesInv
  OBVIOUS
<1> USE FilesAssumption DEF FilesInit
<1>1. \A m \in Meetings : meeting[m] = NoMeeting /\ ~Exists(m)
  BY DEF Exists, NoMeeting
<1>2. FilesTypeOK
  BY <1>1 DEF FilesTypeOK, NoMeeting, Exists, IdleDelete, IdleScript
<1>3. RefersToSettled
  BY <1>1 DEF RefersToSettled, DeleteStates, ScriptStates, IdleDelete, IdleScript, Meetings
<1>4. Uploading /\ EmptiedUnheld /\ AudioKept /\ Owned
  BY <1>1 DEF Uploading, EmptiedUnheld, AudioKept, Owned, IdleDelete
<1> QED
  BY <1>2, <1>3, <1>4 DEF FilesInv

LEMMA FilesInvStep == FilesInv /\ FilesMove => FilesInv'
<1> SUFFICES ASSUME FilesInv, FilesMove PROVE FilesInv'
  OBVIOUS
<1>1. FilesTypeOK'
  <2>1. \A d \in Deletes : delete'[d] \in DeleteStates
    BY DeletesStep
  <2>2. /\ delete' \in [Deletes -> [at : {"idle", "reading", "cleaning", "unlinking"},
                                   meeting : Meetings \cup {None}, dir : Recordings \cup {None},
                                   todo : SUBSET Audio]]
        /\ \A d \in Deletes : delete'[d].at # "idle" => delete'[d].todo # {}
    BY <2>1, DeletesStep, DeleteStatesTyped
  <2>3. script' \in [at : {"idle", "reading"}, source : Meetings \cup {None},
                     target : Comparisons \cup {None}, dir : Recordings \cup {None},
                     fresh : BOOLEAN]
    BY ScriptStep, ScriptStatesTyped
  <2> QED
    BY <2>2, <2>3, RowsStep, DisksStep, ScriptStep, HistoryStep, StuckStep DEF FilesTypeOK, Row
<1>2. RefersToSettled'
  BY ReferencesStep, OwnDirectoryStep, DeletesStep, ScriptStep
     DEF RefersToSettled, DeleteStates, ScriptStates, IdleDelete, IdleScript, Meetings
<1> QED
  BY <1>1, <1>2, DisksStep, AudioStep, OwnedStep DEF FilesInv

LEMMA FilesInvAlways == Spec => []FilesInv
<1>1. Init => FilesInv
  BY FilesInvInit DEF Init
<1>2. [Next]_vars => FilesMove
  BY DEF Next, Crash, FilesMove, vars, filesVars, Ask, AskFails, Answered, Clear
<1>3. FilesInv /\ [Next]_vars => FilesInv'
  BY <1>2, FilesInvStep
<1> QED
  BY <1>1, <1>3, PTL DEF Spec

\* A meeting keeps both its files as long as it exists, however many meetings share
\* them, whatever is deleted and whenever the API crashes (delete_meeting,
\* _cleanup_unreferenced_artifacts).
THEOREM AudioTheorem == Spec => []AudioKept
<1>1. FilesInv => AudioKept
  BY DEF FilesInv
<1> QED
  BY <1>1, FilesInvAlways, PTL

\* A file without a meeting could not be removed, is being worked on or is of the kinds
\* that are left behind: a failed removal costs the files that failed and no others
\* (_cleanup_unreferenced_artifacts).
THEOREM OwnersTheorem == Spec => []FilesHaveOwners
<1>1. FilesInv => FilesHaveOwners
  <2> SUFFICES ASSUME FilesInv, NEW r \in Recordings, NEW f \in disk[r], f \notin stuck[r]
               PROVE  Referenced(r) \/ r \in AtWork \cup leaked
    BY DEF FilesHaveOwners
  <2>1. f \in disk[r] /\ f \notin stuck[r]
    OBVIOUS
  <2>2. upload[r] # "none"
    BY DEF FilesInv, Uploading
  <2>3. CASE upload[r] = "over"
    <3>1. FileOwned(r, f)
      BY <2>1, <2>3 DEF FilesInv, Owned
    <3> QED
      BY <3>1 DEF FileOwned, AtWork
  <2>4. CASE upload[r] # "over"
    BY <2>2, <2>4 DEF AtWork
  <2> QED
    BY <2>3, <2>4
<1> QED
  BY <1>1, FilesInvAlways, PTL

-----------------------------------------------------------------------------
(* Conversations.                                                            *)

\* A conversation is a sequence of complete pairs.
Pairs(rows) ==
    /\ \E S : rows \in Seq(S)
    /\ Len(rows) % 2 = 0
    /\ \A i \in DOMAIN rows : rows[i].role = IF i % 2 = 1 THEN "user" ELSE "assistant"

ChatInv ==
    /\ DOMAIN chat = Meetings
    /\ \A m \in Meetings : Pairs(chat[m]) /\ (chat[m] # <<>> => Exists(m))
    /\ ask \in [Asks -> [at : {"idle", "asking"}, meeting : Meetings \cup {None},
                         turns : Transcripts \cup {<<>>}]]
    /\ \A q \in Asks : ask[q].at = "asking" => ask[q].meeting \in Meetings

LEMMA NoPairs == Pairs(<<>>)
BY DEF Pairs

\* An exchange at the end leaves the pairs complete.
LEMMA PairsAppend ==
    ASSUME NEW rows, Pairs(rows), NEW sources, NEW cited
    PROVE  Pairs(rows \o <<Question, Answer(sources, cited)>>)
<1> DEFINE Q == Question
           A == Answer(sources, cited)
           two == <<Q, A>>
<1>1. PICK S : rows \in Seq(S)
  BY DEF Pairs
<1> DEFINE T == S \cup {Q, A}
<1>2. rows \in Seq(T) /\ two \in Seq(T) /\ Len(two) = 2 /\ two[1] = Q /\ two[2] = A
  BY <1>1
<1>3. Q.role = "user" /\ A.role = "assistant"
  BY DEF Question, Answer
<1>4. Len(rows) \in Nat /\ DOMAIN rows = 1 .. Len(rows) /\ Len(rows) % 2 = 0
  BY <1>1 DEF Pairs
<1> HIDE DEF two, T, Q, A
<1>5. /\ rows \o two \in Seq(T) /\ Len(rows \o two) = Len(rows) + 2
      /\ \A i \in 1 .. Len(rows) + 2 :
            (rows \o two)[i] = IF i <= Len(rows) THEN rows[i] ELSE two[i - Len(rows)]
  <2>1. /\ rows \o two \in Seq(T) /\ Len(rows \o two) = Len(rows) + Len(two)
        /\ \A i \in 1 .. Len(rows) + Len(two) :
              (rows \o two)[i] = IF i <= Len(rows) THEN rows[i] ELSE two[i - Len(rows)]
    BY <1>2, ConcatProperties, Zenon
  <2> QED
    BY <1>2, <2>1
<1>6. (Len(rows) + 2) % 2 = 0 /\ (Len(rows) + 1) % 2 = 1
  BY <1>4
<1>7. ASSUME NEW i \in 1 .. Len(rows) + 2
      PROVE  (rows \o two)[i].role = IF i % 2 = 1 THEN "user" ELSE "assistant"
  <2>1. CASE i <= Len(rows)
    <3>1. i \in DOMAIN rows /\ (rows \o two)[i] = rows[i]
      BY <1>4, <1>5, <2>1
    <3>2. rows[i].role = IF i % 2 = 1 THEN "user" ELSE "assistant"
      BY <3>1 DEF Pairs
    <3> QED
      BY <3>1, <3>2
  <2>2. CASE i = Len(rows) + 1
    <3>1. ~(i <= Len(rows)) /\ i - Len(rows) = 1
      BY <1>4, <2>2
    <3>2. (rows \o two)[i] = Q
      BY <1>2, <1>5, <3>1
    <3>3. i % 2 = 1
      BY <1>6, <2>2
    <3> QED
      BY <1>3, <3>2, <3>3
  <2>3. CASE i = Len(rows) + 2
    <3>1. ~(i <= Len(rows)) /\ i - Len(rows) = 2
      BY <1>4, <2>3
    <3>2. (rows \o two)[i] = A
      BY <1>2, <1>5, <3>1
    <3>3. i % 2 # 1
      BY <1>6, <2>3
    <3> QED
      BY <1>3, <3>2, <3>3
  <2>4. i <= Len(rows) \/ i = Len(rows) + 1 \/ i = Len(rows) + 2
    BY <1>4
  <2> QED
    BY <2>1, <2>2, <2>3, <2>4
<1>8. DOMAIN (rows \o two) = 1 .. Len(rows) + 2
  BY <1>5
<1>9. Pairs(rows \o two)
  BY <1>5, <1>6, <1>7, <1>8 DEF Pairs
<1> QED
  BY <1>9 DEF two, Q, A

LEMMA ChatInvInit == Init => ChatInv
BY NoPairs DEF Init, ChatInv, IdleAsk

LEMMA ChatInvStep ==
    ASSUME FilesInv, ChatInv, [Next]_vars
    PROVE  ChatInv'
<1>1. /\ DOMAIN chat = Meetings
      /\ \A m \in Meetings : Pairs(chat[m]) /\ (chat[m] # <<>> => Exists(m))
      /\ ask \in [Asks -> [at : {"idle", "asking"}, meeting : Meetings \cup {None},
                           turns : Transcripts \cup {<<>>}]]
      /\ \A q \in Asks : ask[q].at = "asking" => ask[q].meeting \in Meetings
  BY DEF ChatInv
<1>2. CASE FilesStep /\ ChatFollows
  BY <1>1, <1>2, NoPairs DEF ChatFollows, ChatInv, Exists
<1>3. CASE Crash
  <2>1. UNCHANGED <<chat, meeting>> /\ ask' = [q \in Asks |-> IdleAsk]
    BY <1>3 DEF Crash, FilesCrash
  <2> QED
    BY <1>1, <2>1 DEF ChatInv, Exists, IdleAsk
<1>4. ASSUME NEW q \in Asks, NEW m \in Meetings, Ask(q, m) PROVE ChatInv'
  <2>1. UNCHANGED <<chat, meeting>>
    BY <1>4 DEF Ask, filesVars
  <2>2. meeting[m].turns \in Transcripts \cup {<<>>}
    BY Typed
  <2>3. ask' = [ask EXCEPT ![q] = [at |-> "asking", meeting |-> m, turns |-> meeting[m].turns]]
    BY <1>4 DEF Ask
  <2> QED
    BY <1>1, <2>1, <2>2, <2>3 DEF ChatInv, Exists
<1>5. ASSUME NEW q \in Asks, AskFails(q) PROVE ChatInv'
  BY <1>1, <1>5 DEF AskFails, filesVars, ChatInv, Exists, IdleAsk
<1>6. ASSUME NEW q \in Asks, NEW raw \in Raw, Answered(q, raw) PROVE ChatInv'
  <2> DEFINE m == ask[q].meeting
  <2>1. m \in Meetings /\ UNCHANGED meeting /\ ask' = [ask EXCEPT ![q] = IdleAsk]
    BY <1>1, <1>6 DEF Answered, filesVars
  <2>2. CASE UNCHANGED chat
    BY <1>1, <2>1, <2>2 DEF ChatInv, Exists, IdleAsk
  <2>3. CASE ~UNCHANGED chat
    <3>1. PICK sources, cited :
              chat' = [chat EXCEPT ![m] = @ \o <<Question, Answer(sources, cited)>>]
      BY <1>6, <2>3 DEF Answered
    <3>2. Exists(m)
      BY <1>6, <2>3 DEF Answered, ForeignKey
    <3> DEFINE after == chat[m] \o <<Question, Answer(sources, cited)>>
    <3>3. Pairs(after)
      BY <1>1, <2>1, PairsAppend
    <3>4. chat' = [chat EXCEPT ![m] = after]
      BY <3>1
    <3> HIDE DEF after, m
    <3>5. DOMAIN chat' = Meetings /\ \A n \in Meetings : chat'[n] = IF n = m THEN after ELSE chat[n]
      BY <1>1, <3>4
    <3>6. \A n \in Meetings : Pairs(chat'[n]) /\ (chat'[n] # <<>> => Exists(n)')
      BY <1>1, <2>1, <3>2, <3>3, <3>5 DEF Exists
    <3> QED
      BY <1>1, <2>1, <3>5, <3>6 DEF ChatInv, IdleAsk
  <2> QED
    BY <2>2, <2>3
<1>7. ASSUME NEW m \in Meetings, Clear(m) PROVE ChatInv'
  <2>1. UNCHANGED <<meeting, ask>> /\ chat' = [chat EXCEPT ![m] = <<>>]
    BY <1>7 DEF Clear, filesVars
  <2> QED
    BY <1>1, <2>1, NoPairs DEF ChatInv, Exists
<1>8. CASE UNCHANGED vars
  BY <1>1, <1>8 DEF vars, chatVars, filesVars, ChatInv, Exists
<1> QED
  BY <1>2, <1>3, <1>4, <1>5, <1>6, <1>7, <1>8 DEF Next

LEMMA ChatInvAlways == Spec => []ChatInv
<1>1. Init => ChatInv
  BY ChatInvInit
<1>2. FilesInv /\ ChatInv /\ [Next]_vars => ChatInv'
  BY ChatInvStep
<1> QED
  BY <1>1, <1>2, FilesInvAlways, PTL DEF Spec

\* A conversation is complete pairs of question and answer, and goes with its
\* meeting, whoever asks, clears or deletes at the same time (answer_meeting_question,
\* clear_chat_messages, delete_meeting).
THEOREM PairsTheorem == Spec => []CompletePairs
<1>1. ChatInv => CompletePairs
  BY DEF ChatInv, CompletePairs, Pairs
<1> QED
  BY <1>1, ChatInvAlways, PTL

\* Every variable keeps its type.
THEOREM TypeCorrect == Spec => []TypeOK
<1>1. FilesInv /\ ChatInv => TypeOK
  <2> SUFFICES ASSUME FilesInv, ChatInv PROVE TypeOK
    OBVIOUS
  <2>1. ASSUME NEW m \in Meetings, NEW i \in DOMAIN chat[m]
        PROVE  chat[m][i].role \in {"user", "assistant"}
    BY <2>1 DEF ChatInv, Pairs
  <2> QED
    BY <2>1 DEF TypeOK, FilesInv, ChatInv
<1> QED
  BY <1>1, FilesInvAlways, ChatInvAlways, PTL
-----------------------------------------------------------------------------
(* The turns shown under an answer.                                          *)

\* The ordinals that are kept are ordinals of the transcript.
LEMMA KeptOrdinals ==
    ASSUME NEW raw \in Raw, NEW turns
    PROVE  Keeps(raw, turns) \in Seq(Ordinals(turns))
<1>1. Len(raw) \in Nat /\ DOMAIN raw = 1 .. Len(raw)
  BY ChatAssumption
<1>2. ASSUME NEW k \in 1 .. Len(raw), NEW kept \in Seq(Ordinals(turns))
      PROVE  Keep(kept, raw[k], turns) \in Seq(Ordinals(turns))
  BY DEF Keep
<1>3. KeepLoop!KeepsAll(turns, <<>>, raw, Seq(Ordinals(turns)))
  BY <1>1, <1>2 DEF KeepLoop!KeepsAll, KeepLoop!IsList
<1>4. KeepLoop!Fold(turns, <<>>, raw) \in Seq(Ordinals(turns))
  BY <1>3, KeepLoop!FoldStays
<1>5. Keeps(raw, turns) = KeepLoop!Fold(turns, <<>>, raw)
  BY DEF Keeps, FoldLeft, MapThenFoldSet, KeepLoop!Fold, Max, KeepLoop!Top
<1> QED
  BY <1>4, <1>5

\* Under ordinals of the transcript its turns are shown, one for each.
LEMMA ShownTurns ==
    ASSUME NEW turns, NEW row, NEW sources \in Seq(Ordinals(turns)), row.sources = sources
    PROVE  Shown(row, turns) = [i \in DOMAIN sources |-> turns[sources[i] + 1]]
<1> DEFINE part == [k \in 0 .. Len(sources) |-> [i \in 1 .. k |-> turns[sources[i] + 1]]]
           stage == [k \in 0 .. Len(sources) |-> {part[k]}]
<1>1. /\ Len(sources) \in Nat /\ DOMAIN sources = 1 .. Len(sources)
      /\ \A k \in 1 .. Len(sources) : sources[k] \in Ordinals(turns)
  OBVIOUS
<1>2. /\ \A k \in 0 .. Len(sources) : part[k] = [i \in 1 .. k |-> turns[sources[i] + 1]]
      /\ \A k \in 0 .. Len(sources) : stage[k] = {part[k]}
  OBVIOUS
<1> HIDE DEF part, stage
<1>3. <<>> \in stage[0]
  <2>1. 0 \in 0 .. Len(sources) /\ 1 .. 0 = {}
    BY <1>1
  <2>2. part[0] = [i \in 1 .. 0 |-> turns[sources[i] + 1]]
    BY <1>2, <2>1, Zenon
  <2>3. part[0] = <<>>
    <3> DEFINE f == [i \in 1 .. 0 |-> turns[sources[i] + 1]]
    <3>1. f \in Seq({}) /\ Len(f) = 0
      BY <2>1
    <3>2. f = <<>>
      <4> HIDE DEF f
      <4> QED
        BY <3>1
    <3> QED
      BY <2>2, <3>2
  <2> QED
    BY <1>2, <2>1, <2>3
<1>4. ASSUME NEW k \in 1 .. Len(sources), NEW shown \in stage[k - 1]
      PROVE  Show(shown, sources[k], turns) \in stage[k]
  <2>1. k \in 0 .. Len(sources) /\ k - 1 \in 0 .. Len(sources)
    BY <1>1
  <2>2. shown = [i \in 1 .. k - 1 |-> turns[sources[i] + 1]]
    <3>1. stage[k - 1] = {part[k - 1]}
      BY <1>2, <2>1
    <3>2. part[k - 1] = [i \in 1 .. k - 1 |-> turns[sources[i] + 1]]
      BY <1>2, <2>1, Zenon
    <3> QED
      BY <3>1, <3>2
  <2>3. Show(shown, sources[k], turns) = Append(shown, turns[sources[k] + 1])
    BY <1>1 DEF Show
  <2>4. Append(shown, turns[sources[k] + 1]) = [i \in 1 .. k |-> turns[sources[i] + 1]]
    BY <2>1, <2>2
  <2> QED
    BY <1>2, <2>1, <2>3, <2>4
<1>5. ShowLoop!Keeps(turns, <<>>, sources, stage)
  BY <1>1, <1>3, <1>4 DEF ShowLoop!Keeps, ShowLoop!IsList
<1>6. ShowLoop!Fold(turns, <<>>, sources) \in stage[Len(sources)]
  BY <1>5, ShowLoop!FoldReaches
<1>7. Shown(row, turns) = ShowLoop!Fold(turns, <<>>, sources)
  BY DEF Shown, FoldLeft, MapThenFoldSet, ShowLoop!Fold, Max, ShowLoop!Top
<1>8. Shown(row, turns) \in {part[Len(sources)]}
  BY <1>1, <1>2, <1>6, <1>7
<1>9. part[Len(sources)] = [i \in DOMAIN sources |-> turns[sources[i] + 1]]
  <2>1. Len(sources) \in 0 .. Len(sources) /\ DOMAIN sources = 1 .. Len(sources)
    BY <1>1
  <2>2. part[Len(sources)] = [i \in 1 .. Len(sources) |-> turns[sources[i] + 1]]
    BY <1>2, <2>1, Zenon
  <2> QED
    BY <2>1, <2>2, Zenon
<1> QED
  BY <1>8, <1>9

\* The script has not written meeting m a second time.
WrittenOnce(m) == m \in Comparisons => written[m] <= 1

\* Meeting m has been made, and can be made again only by the script.
Made(m) ==
    /\ m \in Comparisons => written[m] >= 1
    /\ m \in Recordings => upload[m] = "over"

\* The question q rests on the transcript its meeting still has.
QuestionHolds(q) ==
    LET m == ask[q].meeting
    IN  /\ Made(m)
        /\ Exists(m) => meeting[m].status = "completed"
        /\ WrittenOnce(m) /\ Exists(m) => meeting[m].turns = ask[q].turns

\* Conversations and questions are about completed transcripts.
SourcesInv ==
    /\ \A m \in Meetings : Exists(m) => Made(m)
    /\ \A m \in Meetings : chat[m] # <<>> => meeting[m].status = "completed"
    /\ \A q \in Asks : ask[q].at = "asking" => QuestionHolds(q)
    /\ SourcesShowWhatWasCited

\* A transcript that is complete stays until it is deleted or written over by the
\* script, and a meeting that is gone stays gone unless the script makes it again.
LEMMA TranscriptStays ==
    ASSUME FilesInv, FilesMove, NEW m \in Meetings
    PROVE  /\ WrittenOnce(m)' => WrittenOnce(m)
           /\ Made(m) => Made(m)'
           /\ Exists(m)' => Exists(m) \/ Made(m)'
           /\ Made(m) /\ WrittenOnce(m)' /\ Exists(m)' => Exists(m)
           /\ (Made(m) /\ (Exists(m) => meeting[m].status = "completed") /\ Exists(m)')
                 => meeting'[m].status = "completed"
           /\ (Made(m) /\ WrittenOnce(m)' /\ meeting[m].status = "completed" /\ Exists(m)')
                 => meeting'[m] = meeting[m]
<1>1. /\ meeting \in [Meetings -> Row] /\ written \in [Comparisons -> 0 .. MaxScripts]
      /\ Recordings \cap Comparisons = {} /\ MaxScripts \in Nat
  BY FilesAssumption DEF FilesInv, FilesTypeOK, Row
<1>2. \A r \in Recordings : upload[r] = "over" => upload'[r] = "over"
  <2>1. upload \in [Recordings -> {"none", "received", "converted", "refused", "stored", "over"}]
    BY DEF FilesInv, FilesTypeOK
  <2> QED
    BY <2>1 DEF FilesMove, FilesStep, FilesCrash, filesVars, Receive, Convert, Discard, UnlinkSource,
                Register, UploadTo, Process, Processed, DeleteReads, DeleteCommits, CleanLooks,
                CleanUnlinks, ScriptReads, ScriptCommits
<1>3. CASE UNCHANGED <<meeting, written>>
  BY <1>1, <1>2, <1>3 DEF Exists, Made, WrittenOnce
<1>4. ASSUME NEW r \in Recordings, Registered(r) PROVE m = r \/ meeting'[m] = meeting[m]
  BY <1>1, <1>4 DEF Registered, Rewritten
<1>5. CASE \E r \in Recordings : Registered(r)
  <2>1. PICK r \in Recordings : Registered(r)
    BY <1>5
  <2>2. UNCHANGED written /\ upload[r] = "stored" /\ upload'[r] = "over"
    <3>1. upload \in [Recordings -> {"none", "received", "converted", "refused", "stored", "over"}]
      BY DEF FilesInv, FilesTypeOK
    <3> QED
      BY <2>1, <3>1 DEF Registered, UploadTo
  <2>3. r \notin Comparisons
    BY <1>1
  <2>4. CASE m = r
    BY <2>2, <2>3, <2>4 DEF Made, WrittenOnce
  <2>5. CASE m # r
    BY <1>2, <1>4, <2>1, <2>2, <2>5 DEF Exists, Made, WrittenOnce
  <2> QED
    BY <2>4, <2>5
<1>6. CASE \E n \in Meetings, x \in Row : Moved(n, x)
  <2>1. PICK n \in Meetings, x \in Row : Moved(n, x)
    BY <1>6
  <2>2. /\ UNCHANGED written /\ Exists(n) /\ meeting[n].status # "completed"
        /\ m # n => meeting'[m] = meeting[m]
    BY <1>1, <2>1 DEF Moved, Rewritten
  <2> QED
    BY <1>2, <2>2 DEF Exists, Made, WrittenOnce
<1>7. CASE \E d \in Deletes : DeleteCommits(d)
  <2>1. UNCHANGED written /\ (meeting'[m] = meeting[m] \/ ~Exists(m)')
    BY <1>1, <1>7 DEF DeleteCommits, NoMeeting, Exists
  <2> QED
    BY <1>2, <2>1 DEF Exists, Made, WrittenOnce
<1>8. CASE \E x \in Row : Compared(script.target, x)
  <2> DEFINE t == script.target
  <2>1. t \in Comparisons /\ written' = [written EXCEPT ![t] = @ + 1]
    BY <1>8, ScriptTypes DEF Compared
  <2>2. /\ m # t => meeting'[m] = meeting[m]
        /\ m = t => meeting'[m].status = "completed"
    BY <1>1, <1>8 DEF Compared, Rewritten
  <2>3. CASE m = t
    <3>1. m \notin Recordings /\ written'[m] = written[m] + 1 /\ written[m] \in Nat
      BY <1>1, <2>1, <2>3
    <3> QED
      BY <2>1, <2>2, <2>3, <3>1 DEF Made, WrittenOnce
  <2>4. CASE m # t
    <3>1. m \in Comparisons => written'[m] = written[m]
      BY <1>1, <2>1, <2>4
    <3> QED
      BY <1>2, <2>2, <2>4, <3>1 DEF Exists, Made, WrittenOnce
  <2> QED
    BY <2>3, <2>4
<1> QED
  BY <1>3, <1>5, <1>6, <1>7, <1>8, RowChanges
\* An exchange leaves the earlier rows where they are.
LEMMA RowsAppend ==
    ASSUME NEW rows, Pairs(rows), NEW question, NEW answer
    PROVE  \A i \in DOMAIN (rows \o <<question, answer>>) :
              LET row == (rows \o <<question, answer>>)[i]
              IN  (i \in DOMAIN rows /\ row = rows[i]) \/ row = question \/ row = answer
<1> DEFINE two == <<question, answer>>
<1>1. PICK S : rows \in Seq(S)
  BY DEF Pairs
<1> DEFINE T == S \cup {question, answer}
<1>2. /\ rows \in Seq(T) /\ two \in Seq(T) /\ Len(two) = 2
      /\ two[1] = question /\ two[2] = answer
      /\ Len(rows) \in Nat /\ DOMAIN rows = 1 .. Len(rows)
  BY <1>1
<1> HIDE DEF two, T
<1>3. /\ rows \o two \in Seq(T) /\ Len(rows \o two) = Len(rows) + Len(two)
      /\ \A i \in 1 .. Len(rows) + Len(two) :
            (rows \o two)[i] = IF i <= Len(rows) THEN rows[i] ELSE two[i - Len(rows)]
  BY <1>2, ConcatProperties, Zenon
<1>4. DOMAIN (rows \o two) = 1 .. Len(rows) + 2
  BY <1>2, <1>3
<1>5. ASSUME NEW i \in 1 .. Len(rows) + 2
      PROVE  \/ i \in DOMAIN rows /\ (rows \o two)[i] = rows[i]
             \/ (rows \o two)[i] = question \/ (rows \o two)[i] = answer
  <2>1. i <= Len(rows) \/ i - Len(rows) = 1 \/ i - Len(rows) = 2
    BY <1>2
  <2>2. (rows \o two)[i] = IF i <= Len(rows) THEN rows[i] ELSE two[i - Len(rows)]
    BY <1>2, <1>3
  <2> QED
    BY <1>2, <2>1, <2>2
<1>6. \A i \in DOMAIN (rows \o two) :
         \/ i \in DOMAIN rows /\ (rows \o two)[i] = rows[i]
         \/ (rows \o two)[i] = question \/ (rows \o two)[i] = answer
  BY <1>4, <1>5
<1> QED
  BY <1>6 DEF two

LEMMA SourcesInit == Init => SourcesInv
BY FilesAssumption DEF Init, FilesInit, SourcesInv, SourcesShowWhatWasCited, IdleAsk, Exists,
                       NoMeeting, Meetings

\* What the files do under a conversation.
LEMMA SourcesFollow ==
    ASSUME FilesInv, ChatInv, SourcesInv, FilesMove,
           \/ ChatFollows
           \/ UNCHANGED <<chat, meeting>> /\ ask' \in {ask, [q \in Asks |-> IdleAsk]}
    PROVE  SourcesInv'
<1>1. ASSUME NEW m \in Meetings, Exists(m)' PROVE Made(m)'
  BY <1>1, TranscriptStays DEF SourcesInv
<1>2. ASSUME NEW m \in Meetings, chat'[m] # <<>>
      PROVE  chat'[m] = chat[m] /\ Exists(m) /\ Exists(m)'
  BY <1>2 DEF ChatInv, ChatFollows, Exists
<1>3. ASSUME NEW m \in Meetings, chat'[m] # <<>> PROVE meeting'[m].status = "completed"
  <2>1. Made(m) /\ meeting[m].status = "completed" /\ Exists(m)'
    BY <1>2, <1>3 DEF SourcesInv
  <2> QED
    BY <2>1, TranscriptStays
<1>4. ASSUME NEW q \in Asks, ask'[q].at = "asking" PROVE QuestionHolds(q)'
  <2> DEFINE m == ask[q].meeting
  <2>1. ask'[q] = ask[q] /\ m \in Meetings /\ QuestionHolds(q)
    BY <1>4 DEF ChatFollows, IdleAsk, ChatInv, SourcesInv
  <2>2. Made(m)'
    BY <2>1, TranscriptStays DEF QuestionHolds
  <2>3. Exists(m)' => meeting'[m].status = "completed"
    BY <2>1, TranscriptStays DEF QuestionHolds
  <2>4. WrittenOnce(m)' /\ Exists(m)' => meeting'[m].turns = ask[q].turns
    BY <2>1, TranscriptStays DEF QuestionHolds
  <2> QED
    BY <2>1, <2>2, <2>3, <2>4 DEF QuestionHolds
<1>5. SourcesShowWhatWasCited'
  <2> SUFFICES ASSUME NEW m \in Meetings, WrittenOnce(m)', NEW i \in DOMAIN chat'[m]
               PROVE  Shown(chat'[m][i], meeting'[m].turns) = chat'[m][i].cited
    BY DEF SourcesShowWhatWasCited, WrittenOnce
  <2>1. chat'[m] # <<>>
    OBVIOUS
  <2>2. chat'[m] = chat[m] /\ Exists(m) /\ Exists(m)' /\ Made(m) /\ meeting[m].status = "completed"
    BY <1>2, <2>1 DEF SourcesInv
  <2>3. WrittenOnce(m) /\ meeting'[m] = meeting[m]
    BY <2>2, TranscriptStays
  <2> QED
    BY <2>2, <2>3 DEF SourcesInv, SourcesShowWhatWasCited, WrittenOnce
<1> QED
  BY <1>1, <1>3, <1>4, <1>5 DEF SourcesInv

\* An answer is stored under the turns it was given for.
LEMMA SourcesAnswered ==
    ASSUME FilesInv, ChatInv, SourcesInv, NEW q \in Asks, NEW raw \in Raw, Answered(q, raw)
    PROVE  SourcesInv'
<1> DEFINE m == ask[q].meeting
           turns == ask[q].turns
           kept == Keeps(raw, turns)
           cited == [i \in DOMAIN kept |-> turns[kept[i] + 1]]
           two == <<Question, Answer(kept, cited)>>
<1>1. m \in Meetings /\ QuestionHolds(q) /\ UNCHANGED filesVars
  BY DEF Answered, ChatInv, SourcesInv
<1>2. /\ ask' = [ask EXCEPT ![q] = IdleAsk]
      /\ chat' = IF Exists(m) THEN [chat EXCEPT ![m] = @ \o two] ELSE chat
  BY DEF Answered, ForeignKey
<1>3. \A n \in Meetings :
        /\ Exists(n)' <=> Exists(n)
        /\ Made(n)' <=> Made(n)
        /\ WrittenOnce(n)' <=> WrittenOnce(n)
        /\ meeting'[n] = meeting[n]
  BY <1>1 DEF filesVars, Exists, Made, WrittenOnce
<1>4. ASSUME NEW p \in Asks, ask'[p].at = "asking" PROVE QuestionHolds(p)'
  <2>1. ask'[p] = ask[p] /\ ask[p].meeting \in Meetings /\ QuestionHolds(p)
    BY <1>2, <1>4 DEF IdleAsk, ChatInv, SourcesInv
  <2> QED
    BY <1>3, <2>1 DEF QuestionHolds
<1>5. kept \in Seq(Ordinals(turns))
  BY KeptOrdinals
<1>6. Answer(kept, cited).sources = kept /\ Answer(kept, cited).cited = cited
  BY DEF Answer
<1>7. Shown(Answer(kept, cited), turns) = Answer(kept, cited).cited
  <2> HIDE DEF kept, turns
  <2> QED
    BY <1>5, <1>6, ShownTurns
<1>8. Shown(Question, turns) = Question.cited
  <2> DEFINE none == <<>>
             f == [i \in DOMAIN none |-> turns[none[i] + 1]]
  <2>1. /\ Question.sources = none /\ Question.cited = none /\ none \in Seq(Ordinals(turns))
        /\ DOMAIN none = {}
    BY DEF Question
  <2>2. f = none
    <3>1. f \in Seq({}) /\ Len(f) = 0
      OBVIOUS
    <3> HIDE DEF f
    <3> QED
      BY <3>1
  <2> HIDE DEF none, turns
  <2>3. Shown(Question, turns) = f
    BY <2>1, ShownTurns
  <2> QED
    BY <2>1, <2>2, <2>3
<1> HIDE DEF two, cited, kept
<1>9. DOMAIN chat = Meetings /\ Pairs(chat[m])
  BY <1>1 DEF ChatInv
<1>10. ASSUME NEW n \in Meetings, chat'[n] # <<>> PROVE meeting'[n].status = "completed"
  BY <1>1, <1>2, <1>3, <1>9, <1>10 DEF SourcesInv, QuestionHolds
<1>11. SourcesShowWhatWasCited'
  <2> SUFFICES ASSUME NEW n \in Meetings, WrittenOnce(n)', NEW i \in DOMAIN chat'[n]
               PROVE  Shown(chat'[n][i], meeting'[n].turns) = chat'[n][i].cited
    BY DEF SourcesShowWhatWasCited, WrittenOnce
  <2>1. ASSUME NEW j \in DOMAIN chat[n]
        PROVE  Shown(chat[n][j], meeting[n].turns) = chat[n][j].cited
    BY <1>3 DEF SourcesInv, SourcesShowWhatWasCited, WrittenOnce
  <2>2. CASE ~Exists(m) \/ n # m
    <3>1. chat'[n] = chat[n]
      BY <1>2, <1>9, <2>2
    <3> QED
      BY <1>3, <2>1, <3>1
  <2>3. CASE Exists(m) /\ n = m
    <3>1. chat'[n] = chat[m] \o two
      BY <1>1, <1>2, <1>9, <2>3
    <3>2. meeting[n].turns = turns
      BY <1>1, <1>3, <2>3 DEF QuestionHolds
    <3> DEFINE row == chat'[n][i]
    <3>3. (i \in DOMAIN chat[m] /\ row = chat[m][i]) \/ row = Question \/ row = Answer(kept, cited)
      <4>1. i \in DOMAIN (chat[m] \o two) /\ row = (chat[m] \o two)[i]
        BY <3>1
      <4>2. \A j \in DOMAIN (chat[m] \o two) :
               LET r == (chat[m] \o two)[j]
               IN  (j \in DOMAIN chat[m] /\ r = chat[m][j]) \/ r = Question \/ r = Answer(kept, cited)
        BY <1>9, RowsAppend DEF two
      <4> QED
        BY <4>1, <4>2
    <3> HIDE DEF row, turns
    <3>4. Shown(row, meeting[n].turns) = row.cited
      BY <1>7, <1>8, <2>1, <2>3, <3>2, <3>3
    <3> QED
      BY <1>3, <3>4 DEF row
  <2> QED
    BY <2>2, <2>3
<1> QED
  BY <1>3, <1>4, <1>10, <1>11 DEF SourcesInv

LEMMA SourcesStep ==
    ASSUME FilesInv, ChatInv, SourcesInv, [Next]_vars
    PROVE  SourcesInv'
<1>1. CASE FilesStep /\ ChatFollows
  BY <1>1, SourcesFollow DEF FilesMove
<1>2. CASE Crash
  <2>1. FilesCrash /\ UNCHANGED <<chat, meeting>> /\ ask' = [q \in Asks |-> IdleAsk]
    BY <1>2 DEF Crash, FilesCrash
  <2> QED
    BY <2>1, SourcesFollow DEF FilesMove
<1>3. CASE UNCHANGED vars
  <2>1. UNCHANGED filesVars /\ UNCHANGED <<chat, meeting>> /\ ask' = ask
    BY <1>3 DEF vars, chatVars, filesVars
  <2> QED
    BY <2>1, SourcesFollow DEF FilesMove
<1>4. ASSUME UNCHANGED filesVars,
             \A m \in Meetings : chat'[m] \in {chat[m], <<>>},
             \A q \in Asks :
                \/ ask'[q] \in {ask[q], IdleAsk}
                \/ /\ ask'[q].meeting \in Meetings /\ Ready(ask'[q].meeting)
                   /\ ask'[q].turns = meeting[ask'[q].meeting].turns
      PROVE  SourcesInv'
  <2>1. \A n \in Meetings :
          /\ Exists(n)' <=> Exists(n)
          /\ Made(n)' <=> Made(n)
          /\ WrittenOnce(n)' <=> WrittenOnce(n)
          /\ meeting'[n] = meeting[n]
    BY <1>4 DEF filesVars, Exists, Made, WrittenOnce
  <2>2. ASSUME NEW q \in Asks, ask'[q].at = "asking" PROVE QuestionHolds(q)'
    <3>1. CASE ask'[q] \in {ask[q], IdleAsk}
      <4>1. ask'[q] = ask[q] /\ ask[q].meeting \in Meetings /\ QuestionHolds(q)
        BY <2>2, <3>1 DEF IdleAsk, ChatInv, SourcesInv
      <4> QED
        BY <2>1, <4>1 DEF QuestionHolds
    <3>2. CASE /\ ask'[q].meeting \in Meetings /\ Ready(ask'[q].meeting)
               /\ ask'[q].turns = meeting[ask'[q].meeting].turns
      <4>1. Exists(ask'[q].meeting) /\ Made(ask'[q].meeting)
        BY <3>2 DEF Ready, Exists, SourcesInv
      <4> QED
        BY <2>1, <3>2, <4>1 DEF QuestionHolds, Ready
    <3> QED
      BY <1>4, <3>1, <3>2
  <2>3. \A m \in Meetings : chat'[m] # <<>> => meeting'[m].status = "completed"
    BY <1>4, <2>1 DEF SourcesInv
  <2>4. SourcesShowWhatWasCited'
    <3> SUFFICES ASSUME NEW m \in Meetings, WrittenOnce(m)', NEW i \in DOMAIN chat'[m]
                 PROVE  Shown(chat'[m][i], meeting'[m].turns) = chat'[m][i].cited
      BY DEF SourcesShowWhatWasCited, WrittenOnce
    <3>1. chat'[m] = chat[m]
      BY <1>4
    <3> QED
      BY <2>1, <3>1 DEF SourcesInv, SourcesShowWhatWasCited, WrittenOnce
  <2> QED
    BY <2>1, <2>2, <2>3, <2>4 DEF SourcesInv
<1>5. ASSUME NEW q \in Asks, NEW m \in Meetings, Ask(q, m) PROVE SourcesInv'
  <2>1. /\ UNCHANGED filesVars /\ UNCHANGED chat /\ Ready(m) /\ DOMAIN ask = Asks
        /\ ask' = [ask EXCEPT ![q] = [at |-> "asking", meeting |-> m, turns |-> meeting[m].turns]]
    BY <1>5 DEF Ask, ChatInv
  <2> QED
    BY <1>4, <2>1
<1>6. ASSUME NEW q \in Asks, AskFails(q) PROVE SourcesInv'
  <2>1. /\ UNCHANGED filesVars /\ UNCHANGED chat /\ DOMAIN ask = Asks
        /\ ask' = [ask EXCEPT ![q] = IdleAsk]
    BY <1>6 DEF AskFails, ChatInv
  <2> QED
    BY <1>4, <2>1
<1>7. ASSUME NEW m \in Meetings, Clear(m) PROVE SourcesInv'
  <2>1. /\ UNCHANGED filesVars /\ UNCHANGED ask /\ DOMAIN chat = Meetings
        /\ chat' = [chat EXCEPT ![m] = <<>>]
    BY <1>7 DEF Clear, ChatInv
  <2> QED
    BY <1>4, <2>1
<1>8. ASSUME NEW q \in Asks, NEW raw \in Raw, Answered(q, raw) PROVE SourcesInv'
  BY <1>8, SourcesAnswered
<1> QED
  BY <1>1, <1>2, <1>3, <1>5, <1>6, <1>7, <1>8 DEF Next

\* The turns shown under an answer are those it was given for, whatever is asked,
\* deleted, processed or written at the same time, unless the script has written the
\* meeting a second time (_parse_answer, _chat_message_out).
THEOREM SourcesTheorem == Spec => []SourcesShowWhatWasCited
<1>1. Init => SourcesInv
  BY SourcesInit
<1>2. FilesInv /\ ChatInv /\ SourcesInv /\ [Next]_vars => SourcesInv'
  BY SourcesStep
<1>3. SourcesInv => SourcesShowWhatWasCited
  BY DEF SourcesInv
<1> QED
  BY <1>1, <1>2, <1>3, FilesInvAlways, ChatInvAlways, PTL DEF Spec
==============================================================================
