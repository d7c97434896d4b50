-------------------------- MODULE SpeakerNamesProofs -------------------------
(* What holds of the names of speakers for every number of recordings,       *)
(* labels and names, every limit of the store and every bound.               *)
EXTENDS SpeakerNames, TLAPS, FiniteSetTheorems

-----------------------------------------------------------------------------
(* Types.                                                                    *)

Sessions == [stored : BOOLEAN, seen : 0 .. MaxClock, names : Naming, confirmed : SUBSET Labels]

UploadStates ==
    [at : {"none", "converting", "alone", "registered", "copying", "over"},
     todo : SUBSET Labels, size : 0 .. Cardinality(Labels)]

Rows == [status : {"none", "uploaded", "processing", "completed", "failed"},
         names : Naming, lines : SUBSET Labels, labels : SUBSET Labels]

WorkerStates == [at : {"idle", "claimed", "reading", "inferring"}, lines : SUBSET Labels, names : Naming]

Lates == [rec : Recordings, label : Labels, name : Names \cup {NoName}]

Histories == [latest : Naming, lastUse : 0 .. MaxClock, lost : BOOLEAN,
              doubtful : SUBSET Labels, dropped : SUBSET Labels]

\* TypeOK without the limit of the store and without the counters.
Types ==
    /\ clock \in 0 .. MaxClock
    /\ session \in [Recordings -> Sessions]
    /\ panel \in [Recordings -> {"idle", "recording", "plain", "uploading", "done", "failed"}]
    /\ upload \in [Recordings -> UploadStates]
    /\ meeting \in [Recordings -> Rows]
    /\ worker \in [Recordings -> WorkerStates]
    /\ late \subseteq Lates
    /\ history \in [Recordings -> Histories]

LEMMA NamedCount ==
    ASSUME NEW n \in Naming
    PROVE  Named(n) \in SUBSET Labels /\ Cardinality(Named(n)) \in 0 .. Cardinality(Labels)
<1>1. Named(n) \subseteq Labels
  BY DEF Named
<1>2. IsFiniteSet(Labels)
  BY NamesAssumption
<1>3. /\ IsFiniteSet(Named(n)) /\ Cardinality(Named(n)) <= Cardinality(Labels)
      /\ Cardinality(Named(n)) \in Nat /\ Cardinality(Labels) \in Nat
  BY <1>1, <1>2, FS_Subset, FS_CardinalityType
<1> QED
  BY <1>1, <1>3

LEMMA PrunedTyped ==
    ASSUME Types
    PROVE  /\ Pruned \in [Recordings -> Sessions]
           /\ \A r \in Recordings :
                 /\ Pruned[r].seen = session[r].seen
                 /\ Pruned[r].names = session[r].names
                 /\ Pruned[r].confirmed = session[r].confirmed
                 /\ Pruned[r].stored <=> session[r].stored /\ Fresh(r)
BY DEF Types, Pruned, Sessions, Fresh

LEMMA TouchedTyped ==
    ASSUME Types, NEW r \in Recordings
    PROVE  /\ Touched(r) \in [Recordings -> Sessions]
           /\ \A q \in Recordings :
                 /\ Touched(r)[q].names = session[q].names
                 /\ Touched(r)[q].confirmed = session[q].confirmed
                 /\ Touched(r)[q].stored <=> session[q].stored /\ Fresh(q)
                 /\ q # r => Touched(r)[q].seen = session[q].seen
           /\ Touched(r)[r].stored => Touched(r)[r].seen = clock
BY PrunedTyped DEF Types, Touched, Sessions

LEMMA MoveTyped ==
    ASSUME Types, NEW r \in Recordings, NEW to \in {"registered", "over"}, Move(r, to)
    PROVE  upload' \in [Recordings -> UploadStates]
<1>1. 0 \in 0 .. Cardinality(Labels)
  BY FS_CardinalityType, NamesAssumption
<1>2. [at |-> to, todo |-> {}, size |-> 0] \in UploadStates
  BY <1>1 DEF UploadStates
<1> QED
  BY <1>2 DEF Move, Types

\* A single name changes.
LEMMA RenamedTyped ==
    ASSUME NEW names \in Naming, NEW l \in Labels, NEW n \in Names \cup {NoName}
    PROVE  [names EXCEPT ![l] = n] \in Naming
BY DEF Naming

LEMMA IdleTyped ==
    ASSUME Types, NEW r \in Recordings, Idle(r)
    PROVE  worker' \in [Recordings -> WorkerStates]
<1>1. [at |-> "idle", lines |-> {}, names |-> NoNames] \in WorkerStates
  BY DEF WorkerStates, NoNames, Naming
<1> QED
  BY <1>1 DEF Idle, Types

LEMMA TypesStep ==
    ASSUME Types, [Next]_vars
    PROVE  Types'
<1>1. /\ clock \in 0 .. MaxClock
      /\ session \in [Recordings -> Sessions]
      /\ panel \in [Recordings -> {"idle", "recording", "plain", "uploading", "done", "failed"}]
      /\ upload \in [Recordings -> UploadStates]
      /\ meeting \in [Recordings -> Rows]
      /\ worker \in [Recordings -> WorkerStates]
      /\ late \subseteq Lates
      /\ history \in [Recordings -> Histories]
  BY DEF Types
<1>2. NoNames \in Naming
  BY DEF NoNames, Naming
<1>3. CASE Tick
  BY <1>1, <1>3, NamesAssumption DEF Tick, Types
<1>4. CASE Restart
  <2>1. session' \in [Recordings -> Sessions]
    BY <1>1, <1>4 DEF Restart, Sessions
  <2>2. [at |-> "over", todo |-> {}, size |-> 0] \in UploadStates
    BY FS_CardinalityType, NamesAssumption DEF UploadStates
  <2>3. upload' \in [Recordings -> UploadStates]
    BY <1>1, <1>4, <2>2 DEF Restart
  <2> QED
    BY <1>1, <1>4, <2>1, <2>3 DEF Restart, Types
<1>5. ASSUME NEW q \in late, ArriveLate(q) PROVE Types'
  <2>1. q \in Lates /\ q.rec \in Recordings /\ q.label \in Labels /\ q.name \in Names \cup {NoName}
    BY <1>1 DEF Lates
  <2>2. Touched(q.rec) \in [Recordings -> Sessions]
    BY <2>1, TouchedTyped
  <2>3. session' \in [Recordings -> Sessions]
    BY <1>5, <2>1, <2>2, SMTT(40) DEF ArriveLate, SetLive, Sessions, Naming
  <2>4. history' \in [Recordings -> Histories]
    BY <1>1, <1>5, <2>1, SMTT(40) DEF ArriveLate, Note, Histories
  <2> QED
    BY <1>1, <1>5, <2>3, <2>4 DEF ArriveLate, Types
<1>6. ASSUME NEW r \in Recordings, Start(r) PROVE Types'
  <2>1. PICK room \in [Recordings -> Sessions] :
            session' = [room EXCEPT ![r].stored = TRUE, ![r].seen = clock]
    <3>1. PICK o : session' = [(IF Full(Pruned) THEN Without(Pruned, o) ELSE Pruned)
                                  EXCEPT ![r].stored = TRUE, ![r].seen = clock]
      BY <1>6 DEF Start
    <3>2. Without(Pruned, o) \in [Recordings -> Sessions]
      BY PrunedTyped DEF Without, Sessions
    <3> QED
      BY <3>1, <3>2, PrunedTyped
  <2>2. session' \in [Recordings -> Sessions]
    BY <1>1, <2>1, ZenonT(40) DEF Sessions
  <2>3. history' \in [Recordings -> Histories]
    BY <1>1, <1>6, SMTT(40) DEF Start, Note, Histories
  <2>4. panel' \in [Recordings -> {"idle", "recording", "plain", "uploading", "done", "failed"}]
    BY <1>1, <1>6 DEF Start
  <2> QED
    BY <1>1, <1>6, <2>2, <2>3, <2>4 DEF Start, Types
<1>7. ASSUME NEW r \in Recordings, LiveFails(r) PROVE Types'
  <2>1. session' \in [Recordings -> Sessions]
    BY <1>1, <1>7 DEF LiveFails, Without, Sessions
  <2> QED
    BY <1>1, <1>7, <2>1 DEF LiveFails, Types
<1>8. ASSUME NEW r \in Recordings, Ask(r) PROVE Types'
  <2>1. history' \in [Recordings -> Histories]
    BY <1>1, <1>8 DEF Ask, Note, Histories
  <2> QED
    BY <1>1, <1>8, <2>1, TouchedTyped DEF Ask, Types
<1>9. ASSUME NEW r \in Recordings, NEW l \in Labels, Hear(r, l) PROVE Types'
  <2>1. session' \in [Recordings -> Sessions]
    BY <1>9, TouchedTyped DEF Hear, Sessions
  <2>2. history' \in [Recordings -> Histories]
    BY <1>1, <1>9 DEF Hear, Note, Histories
  <2> QED
    BY <1>1, <1>9, <2>1, <2>2 DEF Hear, Types
<1>10. ASSUME NEW r \in Recordings, NEW l \in Labels, NEW n \in Names \cup {NoName}, Rename(r, l, n)
       PROVE  Types'
  <2>1. Touched(r) \in [Recordings -> Sessions]
    BY TouchedTyped
  <2>2. session' \in [Recordings -> Sessions]
    BY <1>10, <2>1 DEF Rename, SetLive, Sessions, Naming
  <2> DEFINE v == IF Accepted(r, l, n) THEN n ELSE history[r].latest[l]
             x == [history[r] EXCEPT !.lastUse = clock, !.latest = [@ EXCEPT ![l] = v]]
  <2>3. v \in Names \cup {NoName}
    BY <1>1 DEF Histories, Naming
  <2>4. [history[r].latest EXCEPT ![l] = v] \in Naming
    BY <1>1, <2>3, RenamedTyped DEF Histories
  <2>5. history' = [history EXCEPT ![r] = x]
    BY <1>1, <1>10 DEF Rename, Histories
  <2> HIDE DEF v
  <2>6. x \in Histories
    BY <1>1, <2>4 DEF Histories
  <2>7. history' \in [Recordings -> Histories]
    BY <1>1, <2>5, <2>6
  <2> QED
    BY <1>1, <1>10, <2>2, <2>7 DEF Rename, Types
<1>11. ASSUME NEW r \in Recordings, NEW l \in Labels, NEW n \in Names \cup {NoName}, Break(r, l, n)
       PROVE  Types'
  <2>1. history' \in [Recordings -> Histories]
    BY <1>1, <1>11 DEF Break, Note, Histories
  <2>2. late' \subseteq Lates
    BY <1>1, <1>11 DEF Break, Lates
  <2> QED
    BY <1>1, <1>11, <2>1, <2>2 DEF Break, Types
<1>12. ASSUME NEW r \in Recordings, Stop(r) PROVE Types'
  BY <1>1, <1>12 DEF Stop, Types, UploadStates
<1>13. ASSUME NEW r \in Recordings, Refuse(r) PROVE Types'
  <2>1. upload' \in [Recordings -> UploadStates]
    BY <1>1, <1>13, FS_CardinalityType, NamesAssumption DEF Refuse, Move, UploadStates
  <2> QED
    BY <1>1, <1>13, <2>1 DEF Refuse, Answer, Types
<1>14. ASSUME NEW r \in Recordings, Register(r) PROVE Types'
  <2>1. upload' \in [Recordings -> UploadStates]
    BY <1>14, MoveTyped DEF Register
  <2>2. meeting' \in [Recordings -> Rows]
    BY <1>1, <1>14 DEF Register, Rows
  <2>3. panel' \in [Recordings -> {"idle", "recording", "plain", "uploading", "done", "failed"}]
    BY <1>1, <1>14 DEF Register, Answer
  <2> QED
    BY <1>1, <1>14, <2>1, <2>2, <2>3 DEF Register, Types
<1>15. ASSUME NEW r \in Recordings, Finalize(r) PROVE Types'
  <2>1. Named(session[r].names) \in SUBSET Labels
        /\ Cardinality(Named(session[r].names)) \in 0 .. Cardinality(Labels)
    BY <1>1, NamedCount DEF Sessions
  <2>2. upload' \in [Recordings -> UploadStates]
    <3>1. [at |-> "copying", todo |-> Named(session[r].names),
           size |-> Cardinality(Named(session[r].names))] \in UploadStates
      BY <2>1 DEF UploadStates
    <3> QED
      BY <1>1, <1>15, <3>1, MoveTyped DEF Finalize
  <2>3. panel' \in [Recordings -> {"idle", "recording", "plain", "uploading", "done", "failed"}]
    BY <1>1, <1>15 DEF Finalize, Answer
  <2>4. PICK b \in BOOLEAN : history' = [history EXCEPT ![r].lastUse = clock, ![r].lost = b]
    BY <1>15 DEF Finalize
  <2>5. history' \in [Recordings -> Histories]
    BY <1>1, <2>4, ZenonT(40) DEF Histories
  <2> QED
    BY <1>1, <1>15, <2>2, <2>3, <2>5, TouchedTyped DEF Finalize, Types
<1>16. ASSUME NEW r \in Recordings, NEW l \in Labels, CopyName(r, l) PROVE Types'
  <2>1. upload' \in [Recordings -> UploadStates]
    BY <1>1, <1>16 DEF CopyName, UploadStates
  <2>2. session[r].names[l] \in Names \cup {NoName} /\ meeting[r].names \in Naming
    BY <1>1 DEF Sessions, Rows, Naming
  <2>3. [meeting[r].names EXCEPT ![l] = session[r].names[l]] \in Naming
    BY <2>2, RenamedTyped
  <2>4. meeting' = [meeting EXCEPT ![r] =
                       [meeting[r] EXCEPT !.names = [@ EXCEPT ![l] = session[r].names[l]]]]
    BY <1>16 DEF CopyName
  <2>5. meeting' \in [Recordings -> Rows]
    BY <1>1, <2>3, <2>4, ZenonT(40) DEF Rows
  <2> QED
    BY <1>1, <1>16, <2>1, <2>5 DEF CopyName, Types
<1>17. ASSUME NEW r \in Recordings, CopyFails(r) PROVE Types'
  <2>1. upload' \in [Recordings -> UploadStates]
    BY <1>1, <1>17, FS_CardinalityType, NamesAssumption DEF CopyFails, Move, UploadStates
  <2> QED
    BY <1>1, <1>17, <2>1 DEF CopyFails, Answer, Types
<1>18. ASSUME NEW r \in Recordings, CopyLines(r) PROVE Types'
  <2>1. upload' \in [Recordings -> UploadStates]
    BY <1>1, <1>18, FS_CardinalityType, NamesAssumption DEF CopyLines, Move, UploadStates
  <2>2. meeting' \in [Recordings -> Rows]
    BY <1>1, <1>18, SMTT(40) DEF CopyLines, Rows, Sessions
  <2>3. session' \in [Recordings -> Sessions]
    BY <1>1, <1>18 DEF CopyLines, Without, Sessions
  <2> QED
    BY <1>1, <1>18, <2>1, <2>2, <2>3 DEF CopyLines, Answer, Types
<1>19. ASSUME NEW r \in Recordings, Claim(r) PROVE Types'
  <2>1. meeting' \in [Recordings -> Rows]
    BY <1>1, <1>19, SMTT(40) DEF Claim, Types, Rows
  <2>2. worker' \in [Recordings -> WorkerStates]
    BY <1>1, <1>19 DEF Claim, Types, WorkerStates
  <2> QED
    BY <1>1, <1>19, <2>1, <2>2 DEF Claim, Types
<1>20. ASSUME NEW r \in Recordings, ReadLines(r) PROVE Types'
  BY <1>1, <1>20, ZenonT(40) DEF ReadLines, Types, Rows, WorkerStates
<1>21. ASSUME NEW r \in Recordings, ReadNames(r) PROVE Types'
  BY <1>1, <1>2, <1>21, ZenonT(40) DEF ReadNames, Types, Rows, WorkerStates
<1>22. ASSUME NEW r \in Recordings, Fail(r) PROVE Types'
  <2>1. meeting' \in [Recordings -> Rows]
    BY <1>1, <1>22, ZenonT(40) DEF Fail, Rows
  <2> QED
    BY <1>1, <1>22, <2>1, IdleTyped DEF Fail, Types
<1>23. ASSUME NEW r \in Recordings, NEW K \in SUBSET Labels, NEW T \in SUBSET Labels,
              NEW hosted \in BOOLEAN, Finish(r, K, T, hosted)
       PROVE  Types'
  <2>1. Reconciled(r, K) \in Naming
    BY <1>1 DEF Reconciled, Naming, WorkerStates, Rows
  <2>2. meeting' \in [Recordings -> Rows]
    <3>1. meeting[r].names \in Naming
      BY <1>1 DEF Rows
    <3>2. PICK names \in Naming : meeting' = [meeting EXCEPT ![r].status = "completed",
                                                  ![r].labels = T, ![r].names = names]
      BY <1>23, <2>1, <3>1 DEF Finish
    <3>3. meeting' = [meeting EXCEPT ![r] = [meeting[r] EXCEPT !.status = "completed",
                                                  !.labels = T, !.names = names]]
      BY <3>2
    <3> QED
      BY <1>1, <3>3, ZenonT(40) DEF Rows
  <2>3. history' \in [Recordings -> Histories]
    BY <1>1, <1>23, SMTT(40) DEF Finish, Histories
  <2>4. worker' \in [Recordings -> WorkerStates]
    BY <1>23, IdleTyped DEF Finish
  <2> QED
    BY <1>1, <1>23, <2>2, <2>3, <2>4 DEF Finish, Types
<1>24. ASSUME NEW r \in Recordings, NEW l \in Labels, NEW n \in Names \cup {NoName}, Edit(r, l, n)
       PROVE  Types'
  <2>1. meeting' \in [Recordings -> Rows]
    BY <1>1, <1>24, ZenonT(40) DEF Edit, Rows, Naming
  <2>2. history' \in [Recordings -> Histories]
    <3>1. [history[r].latest EXCEPT ![l] = n] \in Naming
      BY <1>1, RenamedTyped DEF Histories
    <3>2. PICK D \in SUBSET Labels :
              history' = [history EXCEPT ![r].latest[l] = n, ![r].doubtful = D, ![r].dropped = @ \ {l}]
      BY <1>1, <1>24 DEF Edit, Histories
    <3>3. history' = [history EXCEPT ![r] = [history[r] EXCEPT !.latest = [@ EXCEPT ![l] = n],
                                                  !.doubtful = D, !.dropped = @ \ {l}]]
      BY <3>2
    <3> QED
      BY <1>1, <3>1, <3>3, ZenonT(40) DEF Histories
  <2> QED
    BY <1>1, <1>24, <2>1, <2>2 DEF Edit, Types
<1>25. CASE UNCHANGED vars
  BY <1>1, <1>25 DEF vars, Types
<1> QED
  BY <1>3, <1>4, <1>5, <1>6, <1>7, <1>8, <1>9, <1>10, <1>11, <1>12, <1>13, <1>14, <1>15, <1>16,
     <1>17, <1>18, <1>19, <1>20, <1>21, <1>22, <1>23, <1>24, <1>25 DEF Next

-----------------------------------------------------------------------------
(* The inductive invariant of the names.                                     *)

Sure(r) == Labels \ history[r].doubtful

\* The panel and the upload go together, and the meeting follows the upload.
Phases(r) ==
    /\ upload[r].at = "none" <=> panel[r] \in {"idle", "recording", "plain"}
    /\ upload[r].at \in {"converting", "alone", "registered", "copying"} <=> panel[r] = "uploading"
    /\ upload[r].at \in {"none", "converting", "alone"} => meeting[r].status = "none"
    /\ meeting[r].status = "none" =>
           /\ meeting[r].names = NoNames /\ worker[r].at = "idle"
           /\ upload[r].at \notin {"registered", "copying"}
    /\ upload[r].at # "over" => meeting[r].lines = {}
    /\ worker[r].lines # {} => meeting[r].lines # {}

\* What has been acknowledged is in the session until it is copied.
Remembered(r) ==
    /\ Named(session[r].names) \subseteq session[r].confirmed
    /\ panel[r] = "plain" \/ upload[r].at = "alone" =>
           \A l \in Sure(r) : history[r].latest[l] = NoName
    /\ upload[r].at \in {"none", "converting", "registered"} =>
           \A l \in Sure(r) : session[r].names[l] = history[r].latest[l]

\* What has been copied is in the meeting.
Copied(r) ==
    /\ upload[r].at = "registered" => \A l \in Sure(r) : meeting[r].names[l] = NoName
    /\ upload[r].at = "copying" =>
           \A l \in Sure(r) : IF l \in upload[r].todo
                              THEN session[r].names[l] = history[r].latest[l]
                              ELSE meeting[r].names[l] = history[r].latest[l]

\* n is the name of label l, or the final pass has dropped it.
IsNameOf(n, r, l) ==
    n = history[r].latest[l] \/ (l \in history[r].dropped /\ n = NoName)

\* The meeting has all the names once it has the timelines or the upload has
\* answered, and so has a final pass that found timelines.
AllThere(r) ==
    /\ upload[r].at = "over" /\ (meeting[r].lines # {} \/ (panel[r] = "done" /\ ~history[r].lost)) =>
           \A l \in Sure(r) : IsNameOf(meeting[r].names[l], r, l)
    /\ worker[r].at = "inferring" /\ worker[r].lines # {} =>
           \A l \in Sure(r) : IsNameOf(worker[r].names[l], r, l)

NamesOf(r) == Phases(r) /\ Remembered(r) /\ Copied(r) /\ AllThere(r)

\* A rename that went astray is counted as doubtful.
LateDoubtful == \A q \in late : q.label \in history[q.rec].doubtful

NamesInv ==
    /\ Types
    /\ LateDoubtful
    /\ \A r \in Recordings : NamesOf(r)

\* Nothing the invariant asks of recording q has changed.
SameRows(q) == meeting'[q] = meeting[q] /\ worker'[q] = worker[q]
SameUpload(q) == panel'[q] = panel[q] /\ upload'[q] = upload[q]
SameSession(q) == session'[q].names = session[q].names /\ session'[q].confirmed = session[q].confirmed
SameHistory(q) ==
    /\ history'[q].latest = history[q].latest /\ history'[q].doubtful = history[q].doubtful
    /\ history'[q].dropped = history[q].dropped /\ history'[q].lost = history[q].lost
Untouched(q) == SameRows(q) /\ SameUpload(q) /\ SameSession(q) /\ SameHistory(q)

LEMMA UntouchedStays ==
    ASSUME NEW q, NamesOf(q), Untouched(q)
    PROVE  NamesOf(q)'
<1> USE DEF Untouched, SameRows, SameUpload, SameSession, SameHistory
<1>1. Phases(q)'
  BY DEF NamesOf, Phases
<1>2. Remembered(q)'
  BY DEF NamesOf, Remembered, Sure, Named
<1>3. Copied(q)'
  BY DEF NamesOf, Copied, Sure
<1>4. AllThere(q)'
  BY DEF NamesOf, AllThere, Sure, IsNameOf
<1> QED
  BY <1>1, <1>2, <1>3, <1>4 DEF NamesOf

\* What a request that only looks at a session leaves as it was.
LEMMA TouchedSame ==
    ASSUME Types, NEW r \in Recordings, session' = Touched(r)
    PROVE  \A q \in Recordings : SameSession(q)
BY TouchedTyped DEF SameSession

LEMMA OnlyUse ==
    ASSUME Types, NEW r \in Recordings, Note(r, "lastUse", clock)
    PROVE  \A q \in Recordings : SameHistory(q)
BY DEF Note, Types, Histories, SameHistory

\* Time, restarts, and the store.
LEMMA StoreNames ==
    ASSUME NamesInv,
           \/ Tick \/ Restart
           \/ \E r \in Recordings : Start(r) \/ LiveFails(r) \/ Ask(r) \/ (\E l \in Labels : Hear(r, l))
    PROVE  \A r \in Recordings : NamesOf(r)'
<1>1. Types /\ \A r \in Recordings : NamesOf(r)
  BY DEF NamesInv
<1>2. CASE Tick
  BY <1>1, <1>2, UntouchedStays
     DEF Tick, Untouched, SameRows, SameUpload, SameSession, SameHistory
<1>3. ASSUME Restart, NEW r \in Recordings PROVE NamesOf(r)'
  <2>1. SameRows(r) /\ SameSession(r) /\ SameHistory(r)
    BY <1>1, <1>3 DEF Restart, Types, Sessions, SameRows, SameSession, SameHistory
  <2>2. CASE SameUpload(r)
    BY <1>1, <2>1, <2>2, UntouchedStays DEF Untouched
  <2>3. CASE ~SameUpload(r)
    <3>1. Phases(r)
      BY <1>1 DEF NamesOf
    <3>2. upload'[r].at = "over" /\ panel'[r] \in {"failed", "done"} /\ (panel'[r] = "done" => panel[r] = "done")
      BY <1>1, <1>3, <2>3, <3>1 DEF Restart, Types, UploadStates, Phases, SameUpload
    <3>3. Phases(r)'
      BY <2>1, <3>1, <3>2 DEF Phases, SameRows
    <3>4. Remembered(r)' /\ Copied(r)'
      BY <1>1, <2>1, <3>2 DEF NamesOf, Remembered, Copied, SameSession, Named
    <3>5. panel[r] = "done" => upload[r].at = "over"
      BY <1>1, <3>1 DEF Phases, Types, UploadStates
    <3>6. upload[r].at # "over" => meeting[r].lines = {}
      BY <3>1 DEF Phases
    <3>7. AllThere(r)'
      BY <1>1, <2>1, <3>2, <3>5, <3>6 DEF NamesOf, AllThere, IsNameOf, Sure, SameRows, SameHistory
    <3> QED
      BY <3>3, <3>4, <3>7 DEF NamesOf
  <2> QED
    BY <2>2, <2>3
<1>4. ASSUME NEW r \in Recordings, Start(r), NEW q \in Recordings PROVE NamesOf(q)'
  <2>1. SameSession(q)
    <3>1. PICK o : session' = [(IF Full(Pruned) THEN Without(Pruned, o) ELSE Pruned)
                                  EXCEPT ![r].stored = TRUE, ![r].seen = clock]
      BY <1>4 DEF Start
    <3>2. /\ Without(Pruned, o) \in [Recordings -> Sessions]
          /\ Without(Pruned, o)[q].names = Pruned[q].names
          /\ Without(Pruned, o)[q].confirmed = Pruned[q].confirmed
      BY <1>1, PrunedTyped, ZenonT(40) DEF Without, Sessions
    <3>3. PICK room \in [Recordings -> Sessions] :
              /\ session' = [room EXCEPT ![r].stored = TRUE, ![r].seen = clock]
              /\ room[q].names = session[q].names /\ room[q].confirmed = session[q].confirmed
      BY <1>1, <3>1, <3>2, PrunedTyped
    <3> QED
      BY <3>3 DEF SameSession, Sessions
  <2>2. SameHistory(q)
    BY <1>1, <1>4, OnlyUse DEF Start
  <2>3. CASE q # r
    BY <1>1, <1>4, <2>1, <2>2, <2>3, UntouchedStays DEF Start, Types, Untouched, SameRows, SameUpload
  <2>4. CASE q = r
    <3>1. SameRows(r) /\ UNCHANGED upload /\ panel[r] = "idle" /\ panel'[r] = "recording"
      BY <1>1, <1>4 DEF Start, Types, SameRows
    <3>2. Phases(r)' /\ Remembered(r)' /\ Copied(r)' /\ AllThere(r)'
      BY <1>1, <2>1, <2>2, <2>4, <3>1
         DEF NamesOf, Phases, Remembered, Copied, AllThere, IsNameOf, Sure, Named,
             SameSession, SameHistory, SameRows
    <3> QED
      BY <2>4, <3>2 DEF NamesOf
  <2> QED
    BY <2>3, <2>4
<1>5. ASSUME NEW r \in Recordings, LiveFails(r), NEW q \in Recordings PROVE NamesOf(q)'
  <2>1. SameSession(q) /\ SameHistory(q) /\ SameRows(q)
    BY <1>1, <1>5 DEF LiveFails, Without, Types, Sessions, SameSession, SameHistory, SameRows
  <2>2. CASE q # r
    BY <1>1, <1>5, <2>1, <2>2, UntouchedStays DEF LiveFails, Types, Untouched, SameUpload
  <2>3. CASE q = r
    <3>1. UNCHANGED upload /\ panel[r] = "recording" /\ panel'[r] = "plain" /\ session[r].confirmed = {}
      BY <1>1, <1>5 DEF LiveFails, Types
    <3>2. upload[r].at = "none"
      BY <1>1, <3>1 DEF NamesOf, Phases
    <3>3. \A l \in Sure(r) : history[r].latest[l] = NoName
      BY <1>1, <3>1, <3>2 DEF NamesOf, Remembered, Named, Sure
    <3>4. Phases(r)'
      BY <1>1, <2>1, <2>3, <3>1, <3>2 DEF NamesOf, Phases, SameRows
    <3>5. Remembered(r)'
      BY <1>1, <2>1, <2>3, <3>1, <3>2, <3>3 DEF NamesOf, Remembered, Named, Sure, SameSession, SameHistory
    <3>6. Copied(r)' /\ AllThere(r)'
      BY <1>1, <2>1, <2>3, <3>1, <3>2 DEF NamesOf, Copied, AllThere, IsNameOf, Sure, SameHistory, SameRows
    <3> QED
      BY <2>3, <3>4, <3>5, <3>6 DEF NamesOf
  <2> QED
    BY <2>2, <2>3
<1>6. ASSUME NEW r \in Recordings, Ask(r) PROVE \A q \in Recordings : NamesOf(q)'
  BY <1>1, <1>6, TouchedSame, OnlyUse, UntouchedStays DEF Ask, Untouched, SameRows, SameUpload
<1>7. ASSUME NEW r \in Recordings, NEW l \in Labels, Hear(r, l), NEW q \in Recordings PROVE NamesOf(q)'
  <2>1. SameHistory(q) /\ SameRows(q) /\ SameUpload(q)
    BY <1>1, <1>7, OnlyUse DEF Hear, SameRows, SameUpload
  <2>2. /\ session'[q].names = session[q].names
        /\ session[q].confirmed \subseteq session'[q].confirmed
    <3>1. Touched(r) \in [Recordings -> Sessions]
      BY <1>1, TouchedTyped
    <3> DEFINE C == IF Pruned[r].stored THEN Touched(r)[r].confirmed \cup {l}
                                         ELSE Touched(r)[r].confirmed
    <3>2. session' = [Touched(r) EXCEPT ![r].confirmed = C]
      BY <1>7 DEF Hear
    <3>3. Touched(r)[r].confirmed \subseteq C
      OBVIOUS
    <3> HIDE DEF C
    <3> QED
      BY <1>1, <3>1, <3>2, <3>3, TouchedTyped DEF Sessions
  <2> QED
    BY <1>1, <2>1, <2>2
       DEF NamesOf, Phases, Remembered, Copied, AllThere, IsNameOf, Sure, Named,
           SameHistory, SameRows, SameUpload
<1> QED
  BY <1>2, <1>3, <1>4, <1>5, <1>6, <1>7

\* The facts about recording r that its actions use.
LEMMA TypedRecord ==
    ASSUME Types, NEW r \in Recordings
    PROVE  /\ session[r] \in Sessions /\ upload[r] \in UploadStates /\ meeting[r] \in Rows
           /\ worker[r] \in WorkerStates /\ history[r] \in Histories
           /\ panel[r] \in {"idle", "recording", "plain", "uploading", "done", "failed"}
BY DEF Types

\* A rename reaches the session only for a label that is confirmed there.
LEMMA SetLiveNames ==
    ASSUME Types, NEW r \in Recordings, NEW l \in Labels, NEW n \in Names \cup {NoName},
           SetLive(r, l, n)
    PROVE  /\ \A q \in Recordings : session'[q].confirmed = session[q].confirmed
           /\ \A q \in Recordings \ {r} : session'[q].names = session[q].names
           /\ \A m \in Labels : session'[r].names[m] = IF m = l /\ Accepted(r, l, n)
                                                      THEN n ELSE session[r].names[m]
<1>1. Touched(r) \in [Recordings -> Sessions]
  BY TouchedTyped
<1> DEFINE v == IF Accepted(r, l, n) THEN n ELSE Touched(r)[r].names[l]
<1>2. session' = [Touched(r) EXCEPT ![r] = [Touched(r)[r] EXCEPT !.names = [@ EXCEPT ![l] = v]]]
  BY DEF SetLive
<1>3. v = IF Accepted(r, l, n) THEN n ELSE session[r].names[l]
  BY TouchedTyped
<1> HIDE DEF v
<1>4. /\ session'[r].names = [Touched(r)[r].names EXCEPT ![l] = v]
      /\ session'[r].confirmed = Touched(r)[r].confirmed
      /\ \A q \in Recordings \ {r} : session'[q] = Touched(r)[q]
  BY <1>1, <1>2 DEF Sessions
<1>5. session[r].names \in Naming /\ Touched(r)[r].names = session[r].names
  BY TouchedTyped, TypedRecord DEF Sessions
<1> QED
  BY <1>3, <1>4, <1>5, TouchedTyped DEF Naming

\* Renames, whether acknowledged, astray or late.
LEMMA RenameNames ==
    ASSUME NamesInv, NEW r \in Recordings, NEW l \in Labels, NEW n \in Names \cup {NoName},
           \/ Rename(r, l, n) \/ Break(r, l, n)
           \/ [rec |-> r, label |-> l, name |-> n] \in late
              /\ ArriveLate([rec |-> r, label |-> l, name |-> n]),
           NEW q \in Recordings
    PROVE  NamesOf(q)'
<1>1. Types /\ NamesOf(q) /\ NamesOf(r)
  BY DEF NamesInv
<1>2. CASE Rename(r, l, n)
  <2>1. /\ SameRows(q) /\ SameUpload(q)
        /\ SetLive(r, l, n)
        /\ panel[r] = "recording"
    BY <1>2 DEF Rename, SameRows, SameUpload
  <2>2. /\ \A m \in Labels : history'[r].latest[m] = IF m = l /\ Accepted(r, l, n)
                                                    THEN n ELSE history[r].latest[m]
        /\ history'[r].doubtful = history[r].doubtful
        /\ q # r => SameHistory(q)
    <3> DEFINE v == IF Accepted(r, l, n) THEN n ELSE history[r].latest[l]
    <3>1. history' = [history EXCEPT ![r] = [history[r] EXCEPT !.lastUse = clock,
                                                               !.latest = [@ EXCEPT ![l] = v]]]
      BY <1>1, <1>2, TypedRecord DEF Rename, Histories
    <3>2. v = IF Accepted(r, l, n) THEN n ELSE history[r].latest[l]
      OBVIOUS
    <3> HIDE DEF v
    <3>3. /\ history'[r].latest = [history[r].latest EXCEPT ![l] = v]
          /\ history'[r].doubtful = history[r].doubtful
          /\ q # r => SameHistory(q)
      BY <1>1, <3>1, TypedRecord DEF SameHistory, Types, Histories
    <3>4. history[r].latest \in Naming
      BY <1>1, TypedRecord DEF Histories
    <3> QED
      BY <3>2, <3>3, <3>4 DEF Naming
  <2>3. CASE q # r
    BY <1>1, <2>1, <2>2, <2>3, SetLiveNames, UntouchedStays DEF Untouched, SameSession
  <2>4. CASE q = r
    <3>1. upload[r].at = "none" /\ worker[r].at = "idle"
      BY <1>1, <2>1, TypedRecord DEF NamesOf, Phases, UploadStates
    <3>2. Phases(r)'
      BY <1>1, <2>1, <2>4 DEF NamesOf, Phases, SameRows, SameUpload
    <3>3. Named(session'[r].names) \subseteq session'[r].confirmed
      <4>1. Named(session[r].names) \subseteq session[r].confirmed
        BY <1>1 DEF NamesOf, Remembered
      <4>2. SUFFICES ASSUME NEW m \in Labels, session'[r].names[m] # NoName
                     PROVE  m \in session[r].confirmed
        BY <1>1, <2>1, SetLiveNames DEF Named
      <4>3. session'[r].names[m] = IF m = l /\ Accepted(r, l, n) THEN n ELSE session[r].names[m]
        BY <1>1, <2>1, SetLiveNames
      <4> QED
        BY <4>1, <4>2, <4>3 DEF Named, Accepted
    <3>4. \A m \in Sure(r)' : session'[r].names[m] = history'[r].latest[m]
      BY <1>1, <2>1, <2>2, <3>1, SetLiveNames DEF NamesOf, Remembered, Sure
    <3>5. Remembered(r)'
      BY <2>1, <2>4, <3>1, <3>3, <3>4 DEF Remembered, SameUpload, Named
    <3>6. Copied(r)' /\ AllThere(r)'
      BY <2>1, <2>4, <3>1 DEF Copied, AllThere, SameUpload, SameRows
    <3> QED
      BY <2>4, <3>2, <3>5, <3>6 DEF NamesOf
  <2> QED
    BY <2>3, <2>4
<1>3. CASE Break(r, l, n)
  <2>1. /\ SameRows(q) /\ SameUpload(q) /\ SameSession(q)
        /\ history'[q].latest = history[q].latest /\ history'[q].dropped = history[q].dropped
        /\ history'[q].lost = history[q].lost
        /\ Sure(q)' \subseteq Sure(q)
    BY <1>1, <1>3, TypedRecord
       DEF Break, Note, Types, Histories, Sure, SameRows, SameUpload, SameSession
  <2> QED
    BY <1>1, <2>1
       DEF NamesOf, Phases, Remembered, Copied, AllThere, IsNameOf, Named,
           SameRows, SameUpload, SameSession
<1>4. CASE /\ [rec |-> r, label |-> l, name |-> n] \in late
           /\ ArriveLate([rec |-> r, label |-> l, name |-> n])
  <2>1. /\ SameRows(q) /\ SameUpload(q) /\ SameHistory(q)
        /\ SetLive(r, l, n)
        /\ l \in history[r].doubtful
    BY <1>1, <1>4, OnlyUse DEF ArriveLate, NamesInv, LateDoubtful, SameRows, SameUpload
  <2>2. /\ session'[q].confirmed = session[q].confirmed
        /\ \A m \in Sure(q) : session'[q].names[m] = session[q].names[m]
        /\ Named(session'[q].names) \subseteq session[q].confirmed
    <3>1. Named(session[q].names) \subseteq session[q].confirmed
      BY <1>1 DEF NamesOf, Remembered
    <3>2. CASE q # r
      BY <1>1, <2>1, <3>1, <3>2, SetLiveNames
    <3>3. CASE q = r
      <4>1. \A m \in Labels : session'[r].names[m] = IF m = l /\ Accepted(r, l, n)
                                                     THEN n ELSE session[r].names[m]
        BY <1>1, <2>1, SetLiveNames
      <4>2. session'[r].confirmed = session[r].confirmed
        BY <1>1, <2>1, SetLiveNames
      <4>3. Named(session'[r].names) \subseteq session[r].confirmed
        BY <3>1, <3>3, <4>1 DEF Named, Accepted
      <4> QED
        BY <2>1, <3>3, <4>1, <4>2, <4>3 DEF Sure
    <3> QED
      BY <3>2, <3>3
  <2>3. Phases(q)'
    BY <1>1, <2>1 DEF NamesOf, Phases, SameRows, SameUpload
  <2>4. Remembered(q)'
    BY <1>1, <2>1, <2>2 DEF NamesOf, Remembered, Sure, SameUpload, SameHistory, Named
  <2>5. Copied(q)' /\ AllThere(q)'
    BY <1>1, <2>1, <2>2
       DEF NamesOf, Copied, AllThere, IsNameOf, Sure, SameUpload, SameHistory, SameRows
  <2> QED
    BY <2>3, <2>4, <2>5 DEF NamesOf
<1> QED
  BY <1>2, <1>3, <1>4

\* The end of a recording and its upload.
LEMMA UploadNames ==
    ASSUME NamesInv, NEW r \in Recordings,
           \/ Stop(r) \/ Refuse(r) \/ Register(r) \/ Finalize(r) \/ CopyFails(r) \/ CopyLines(r)
           \/ \E l \in Labels : CopyName(r, l),
           NEW q \in Recordings
    PROVE  NamesOf(q)'
<1>1. Types /\ NamesOf(q) /\ NamesOf(r)
  BY DEF NamesInv
<1>2. Phases(r) /\ Remembered(r) /\ Copied(r) /\ AllThere(r)
  BY <1>1 DEF NamesOf
<1>3. SameSession(q)
  BY <1>1, TouchedSame, SMTT(40) DEF Stop, Refuse, Register, Finalize, CopyFails, CopyLines, CopyName,
                           Without, SameSession, Types, Sessions
<1>4. /\ history'[q].latest = history[q].latest /\ history'[q].doubtful = history[q].doubtful
      /\ history'[q].dropped = history[q].dropped
      /\ q # r => history'[q].lost = history[q].lost
  BY <1>1 DEF Stop, Refuse, Register, Finalize, CopyFails, CopyLines, CopyName, Types, Histories
<1>5. CASE q # r
  <2>1. SameRows(q) /\ SameUpload(q)
    BY <1>1, <1>5 DEF Stop, Refuse, Register, Finalize, CopyFails, CopyLines, CopyName, Move,
                      Answer, Types, SameRows, SameUpload
  <2> QED
    BY <1>1, <1>3, <1>4, <1>5, <2>1, UntouchedStays DEF Untouched, SameHistory
<1>6. CASE q = r
  <2>1. Named(session[r].names)' = Named(session[r].names)
    BY <1>3, <1>6 DEF SameSession, Named
  <2>2. UNCHANGED worker
    BY DEF Stop, Refuse, Register, Finalize, CopyFails, CopyLines, CopyName
  <2>3. CASE Stop(r)
    <3>1. /\ panel[r] \in {"recording", "plain"} /\ panel'[r] = "uploading" /\ UNCHANGED meeting
          /\ upload'[r].at = IF panel[r] = "plain" THEN "alone" ELSE "converting"
          /\ SameHistory(r)
      BY <1>1, <2>3 DEF Stop, Types, UploadStates, SameHistory
    <3>2. Phases(r)'
      BY <1>2, <2>2, <3>1 DEF Phases
    <3>3. Remembered(r)'
      BY <1>2, <1>3, <1>6, <2>1, <3>1
         DEF Phases, Remembered, Sure, SameSession, SameHistory
    <3>4. Copied(r)' /\ AllThere(r)'
      BY <1>2, <2>2, <3>1 DEF Copied, AllThere, IsNameOf, Sure, SameHistory
    <3> QED
      BY <1>6, <3>2, <3>3, <3>4 DEF NamesOf
  <2>4. CASE Refuse(r) \/ CopyFails(r)
    <3>1. /\ upload[r].at \in {"converting", "alone", "copying"} /\ UNCHANGED meeting
          /\ upload'[r].at = "over" /\ panel'[r] = "failed" /\ SameHistory(r)
      BY <1>1, <2>4 DEF Refuse, CopyFails, Move, Answer, Types, SameHistory
    <3>2. Phases(r)'
      BY <1>2, <2>2, <3>1 DEF Phases
    <3>3. Remembered(r)' /\ Copied(r)'
      BY <1>2, <1>3, <1>6, <2>1, <3>1 DEF Remembered, Copied, SameSession
    <3>4. AllThere(r)'
      BY <1>2, <2>2, <3>1 DEF Phases, AllThere, IsNameOf, Sure, SameHistory
    <3> QED
      BY <1>6, <3>2, <3>3, <3>4 DEF NamesOf
  <2>5. CASE Register(r)
    <3>1. /\ upload[r].at \in {"converting", "alone"} /\ panel[r] = "uploading"
          /\ meeting[r].names = NoNames /\ meeting[r].lines = {} /\ worker[r].at = "idle"
          /\ worker[r].lines = {}
      BY <1>2, <2>5 DEF Register, Phases
    <3>2. /\ meeting'[r].status = "uploaded" /\ meeting'[r].names = NoNames /\ meeting'[r].lines = {}
          /\ SameHistory(r)
          /\ upload[r].at = "converting" => upload'[r].at = "registered" /\ panel'[r] = "uploading"
          /\ upload[r].at = "alone" => upload'[r].at = "over" /\ panel'[r] = "done"
      BY <1>1, <2>5, <3>1 DEF Register, Move, Answer, Types, Rows, SameHistory
    <3>3. Phases(r)'
      BY <2>2, <3>1, <3>2 DEF Phases
    <3>4. Remembered(r)'
      BY <1>2, <1>3, <1>6, <2>1, <3>1, <3>2 DEF Remembered, Sure, SameSession, SameHistory
    <3>5. Copied(r)'
      BY <3>1, <3>2 DEF Copied, Sure, NoNames
    <3>6. AllThere(r)'
      BY <1>2, <2>2, <3>1, <3>2 DEF Remembered, AllThere, IsNameOf, Sure, NoNames, SameHistory
    <3> QED
      BY <1>6, <3>3, <3>4, <3>5, <3>6 DEF NamesOf
  <2>6. CASE Finalize(r)
    <3>1. /\ upload[r].at = "registered" /\ panel[r] = "uploading" /\ meeting[r].lines = {}
          /\ worker[r].lines = {} /\ UNCHANGED meeting
      BY <1>2, <2>6 DEF Finalize, Phases
    <3>2. CASE Pruned[r].stored
      <4>1. /\ upload'[r].at = "copying" /\ upload'[r].todo = Named(session[r].names)
            /\ UNCHANGED panel
        BY <1>1, <2>6, <3>2 DEF Finalize, Types
      <4>2. Phases(r)'
        BY <1>2, <2>2, <3>1, <4>1 DEF Phases
      <4>3. Remembered(r)'
        BY <1>2, <1>3, <1>6, <2>1, <3>1, <4>1 DEF Remembered, SameSession
      <4>4. Copied(r)'
        BY <1>2, <1>3, <1>4, <1>6, <3>1, <4>1 DEF Remembered, Copied, Sure, Named, SameSession
      <4>5. AllThere(r)'
        BY <2>2, <3>1, <4>1 DEF AllThere
      <4> QED
        BY <1>6, <4>2, <4>3, <4>4, <4>5 DEF NamesOf
    <3>3. CASE ~Pruned[r].stored
      <4>1. upload'[r].at = "over" /\ panel'[r] = "done" /\ history'[r].lost
        BY <1>1, <2>6, <3>3 DEF Finalize, Move, Answer, Types, Histories
      <4>2. Phases(r)' /\ AllThere(r)'
        BY <1>2, <2>2, <3>1, <4>1 DEF Phases, AllThere
      <4>3. Remembered(r)' /\ Copied(r)'
        BY <1>2, <1>3, <1>6, <2>1, <4>1 DEF Remembered, Copied, SameSession
      <4> QED
        BY <1>6, <4>2, <4>3 DEF NamesOf
    <3> QED
      BY <3>2, <3>3
  <2>7. ASSUME NEW l \in Labels, CopyName(r, l) PROVE NamesOf(q)'
    <3>1. /\ upload[r].at = "copying" /\ l \in upload[r].todo
          /\ upload'[r].at = "copying" /\ upload'[r].todo = upload[r].todo \ {l}
          /\ UNCHANGED <<panel, history>>
      BY <1>1, <2>7 DEF CopyName, Types, UploadStates
    <3>2. /\ meeting'[r].names = [meeting[r].names EXCEPT ![l] = session[r].names[l]]
          /\ meeting'[r].lines = meeting[r].lines /\ meeting'[r].status = meeting[r].status
      BY <1>1, <2>7 DEF CopyName, Types, Rows
    <3>3. meeting[r].lines = {} /\ worker[r].lines = {} /\ meeting[r].names \in Naming
      BY <1>1, <1>2, <3>1, TypedRecord DEF Phases, Rows
    <3>4. Phases(r)'
      BY <1>2, <2>2, <3>1, <3>2, <3>3 DEF Phases
    <3>5. Remembered(r)' /\ AllThere(r)'
      BY <1>2, <1>3, <1>6, <2>1, <2>2, <3>1, <3>3 DEF Phases, Remembered, AllThere, SameSession
    <3>6. Copied(r)'
      BY <1>2, <1>3, <1>6, <3>1, <3>2, <3>3 DEF Copied, Sure, SameSession, Naming
    <3> QED
      BY <1>6, <3>4, <3>5, <3>6 DEF NamesOf
  <2>8. CASE CopyLines(r)
    <3>1. /\ upload[r].at = "copying" /\ upload[r].todo = {} /\ panel'[r] = "done"
          /\ upload'[r].at = "over" /\ SameHistory(r)
          /\ meeting'[r].names = meeting[r].names /\ meeting'[r].status = meeting[r].status
      BY <1>1, <2>8 DEF CopyLines, Move, Answer, Types, Rows, SameHistory
    <3>2. worker[r].lines = {}
      BY <1>2, <3>1 DEF Phases
    <3>3. Phases(r)'
      BY <1>2, <2>2, <3>1, <3>2 DEF Phases
    <3>4. Remembered(r)' /\ Copied(r)'
      BY <1>2, <1>3, <1>6, <2>1, <3>1 DEF Remembered, Copied, SameSession
    <3>5. AllThere(r)'
      BY <1>2, <2>2, <3>1, <3>2 DEF Copied, AllThere, IsNameOf, Sure, SameHistory
    <3> QED
      BY <1>6, <3>3, <3>4, <3>5 DEF NamesOf
  <2> QED
    BY <2>3, <2>4, <2>5, <2>6, <2>7, <2>8
<1> QED
  BY <1>5, <1>6

\* The final pass and the meeting page.
LEMMA MeetingNames ==
    ASSUME NamesInv, NEW r \in Recordings,
           \/ Claim(r) \/ ReadLines(r) \/ ReadNames(r) \/ Fail(r)
           \/ \E K, T \in SUBSET Labels, hosted \in BOOLEAN : Finish(r, K, T, hosted)
           \/ \E l \in Labels, n \in Names \cup {NoName} : Edit(r, l, n),
           NEW q \in Recordings
    PROVE  NamesOf(q)'
<1>1. Types /\ NamesOf(q) /\ NamesOf(r)
  BY DEF NamesInv
<1>2. Phases(r) /\ Remembered(r) /\ Copied(r) /\ AllThere(r)
  BY <1>1 DEF NamesOf
<1>3. SameSession(q) /\ SameUpload(q)
  BY DEF Claim, ReadLines, ReadNames, Fail, Finish, Edit, SameSession, SameUpload
<1>4. CASE q # r
  <2>1. SameRows(q) /\ SameHistory(q)
    BY <1>1, <1>4, ZenonT(40) DEF Claim, ReadLines, ReadNames, Fail, Finish, Edit, Idle, Types, SameRows, SameHistory
  <2> QED
    BY <1>1, <1>3, <2>1, UntouchedStays DEF Untouched
<1>5. CASE q = r
  <2>1. CASE Claim(r) \/ ReadLines(r) \/ ReadNames(r) \/ Fail(r)
    <3>1. SameHistory(r)
      BY <2>1 DEF Claim, ReadLines, ReadNames, Fail, SameHistory
    <3>2. /\ meeting'[r].names = meeting[r].names /\ meeting'[r].lines = meeting[r].lines
          /\ meeting[r].status # "none" /\ meeting'[r].status # "none"
      BY <1>1, <1>2, <2>1, TypedRecord
         DEF Claim, ReadLines, ReadNames, Fail, Phases, Types, Rows, WorkerStates
    <3>3. /\ worker'[r].lines \in {{}, worker[r].lines, meeting[r].lines}
          /\ worker'[r].at = "inferring" /\ worker'[r].lines # {} =>
                 worker'[r].lines = worker[r].lines /\ worker'[r].names = meeting[r].names
      BY <1>1, <2>1, TypedRecord
         DEF Claim, ReadLines, ReadNames, Fail, Idle, Types, WorkerStates
    <3>4. Phases(r)'
      BY <1>2, <1>3, <1>5, <3>2, <3>3 DEF Phases, SameUpload
    <3>5. Remembered(r)' /\ Copied(r)'
      BY <1>2, <1>3, <1>5, <3>1, <3>2
         DEF Remembered, Copied, Sure, Named, SameUpload, SameSession, SameHistory
    <3>6. AllThere(r)'
      BY <1>2, <1>3, <1>5, <3>1, <3>2, <3>3, TypedRecord, <1>1
         DEF Phases, AllThere, IsNameOf, Sure, SameUpload, SameHistory, UploadStates
    <3> QED
      BY <1>5, <3>4, <3>5, <3>6 DEF NamesOf
  <2>2. ASSUME NEW K \in SUBSET Labels, NEW T \in SUBSET Labels, NEW hosted \in BOOLEAN,
               Finish(r, K, T, hosted)
        PROVE  NamesOf(q)'
    <3> DEFINE given == IF hosted THEN Reconciled(r, K) ELSE meeting[r].names
    <3>1. /\ meeting' = [meeting EXCEPT ![r].status = "completed", ![r].labels = T, ![r].names = given]
          /\ worker[r].at = "inferring"
      BY <2>2 DEF Finish
    <3>2. given = IF hosted /\ worker[r].lines # {}
                  THEN [l \in Labels |-> IF l \in K THEN worker[r].names[l] ELSE NoName]
                  ELSE meeting[r].names
      BY DEF Reconciled
    <3> HIDE DEF given
    <3>3. /\ meeting'[r].names = given /\ meeting'[r].lines = meeting[r].lines
          /\ meeting'[r].status = "completed" /\ meeting[r].status # "none"
      BY <1>1, <1>2, <3>1 DEF Phases, Types, Rows
    <3>4. /\ worker'[r].at = "idle" /\ worker'[r].lines = {}
          /\ history'[r].latest = history[r].latest /\ history'[r].doubtful = history[r].doubtful
          /\ history'[r].lost = history[r].lost
          /\ history[r].dropped \subseteq history'[r].dropped
          /\ hosted /\ worker[r].lines # {} => Labels \ K \subseteq history'[r].dropped
      BY <1>1, <2>2 DEF Finish, Idle, Types, Histories
    <3>5. Phases(r)'
      BY <1>2, <1>3, <1>5, <3>3, <3>4 DEF Phases, SameUpload
    <3>6. Remembered(r)'
      BY <1>2, <1>3, <1>5, <3>4 DEF Remembered, Sure, Named, SameUpload, SameSession
    <3>7. upload[r].at # "over" => given = meeting[r].names
      BY <1>2, <3>2 DEF Phases
    <3>8. Copied(r)'
      BY <1>2, <1>3, <1>5, <3>3, <3>4, <3>7 DEF Copied, Sure, SameUpload, SameSession
    <3>9. AllThere(r)'
      <4>1. CASE hosted /\ worker[r].lines # {}
        <5>1. ASSUME NEW l \in Sure(r) PROVE IsNameOf(meeting[r].names[l], r, l)'
          <6>1. l \in Labels /\ IsNameOf(worker[r].names[l], r, l)
            BY <1>2, <3>1, <4>1 DEF AllThere, Sure
          <6>2. CASE l \in K
            BY <3>2, <3>3, <3>4, <4>1, <6>1, <6>2 DEF IsNameOf
          <6>3. CASE l \notin K
            BY <3>2, <3>3, <3>4, <4>1, <6>1, <6>3 DEF IsNameOf
          <6> QED
            BY <6>2, <6>3
        <5> QED
          BY <3>4, <5>1 DEF AllThere, Sure
      <4>2. CASE ~(hosted /\ worker[r].lines # {})
        <5>1. meeting'[r].names = meeting[r].names
          BY <3>2, <3>3, <4>2
        <5> QED
          BY <1>2, <1>3, <1>5, <3>3, <3>4, <5>1 DEF AllThere, IsNameOf, Sure, SameUpload
      <4> QED
        BY <4>1, <4>2
    <3> QED
      BY <1>5, <3>5, <3>6, <3>8, <3>9 DEF NamesOf
  <2>3. ASSUME NEW l \in Labels, NEW n \in Names \cup {NoName}, Edit(r, l, n) PROVE NamesOf(q)'
    <3>1. /\ meeting[r].status # "none" /\ UNCHANGED worker
          /\ meeting'[r].status = meeting[r].status /\ meeting'[r].lines = meeting[r].lines
          /\ \A m \in Labels : meeting'[r].names[m] = IF m = l THEN n ELSE meeting[r].names[m]
      <4>1. meeting[r].names \in Naming
        BY <1>1, TypedRecord DEF Rows
      <4>2. meeting' = [meeting EXCEPT ![r] = [meeting[r] EXCEPT !.names = [@ EXCEPT ![l] = n]]]
        BY <2>3 DEF Edit
      <4>3. /\ meeting'[r].names = [meeting[r].names EXCEPT ![l] = n]
            /\ meeting'[r].status = meeting[r].status /\ meeting'[r].lines = meeting[r].lines
        BY <1>1, <4>2, TypedRecord DEF Types, Rows
      <4>4. \A m \in Labels : meeting'[r].names[m] = IF m = l THEN n ELSE meeting[r].names[m]
        BY <4>1, <4>3 DEF Naming
      <4> QED
        BY <2>3, <4>3, <4>4 DEF Edit
    <3>2. /\ \A m \in Labels : history'[r].latest[m] = IF m = l THEN n ELSE history[r].latest[m]
          /\ history[r].doubtful \subseteq history'[r].doubtful
          /\ BeingWritten(r, l) => l \in history'[r].doubtful
          /\ history'[r].dropped = history[r].dropped \ {l}
          /\ history'[r].lost = history[r].lost
      <4> DEFINE D == IF BeingWritten(r, l) THEN history[r].doubtful \cup {l} ELSE history[r].doubtful
      <4>1. history' = [history EXCEPT ![r] = [history[r] EXCEPT !.latest = [@ EXCEPT ![l] = n],
                                                  !.doubtful = D, !.dropped = @ \ {l}]]
        BY <2>3, ZenonT(40) DEF Edit
      <4>2. history[r].doubtful \subseteq D /\ (BeingWritten(r, l) => l \in D)
        OBVIOUS
      <4> HIDE DEF D
      <4>3. history[r].latest \in Naming
        BY <1>1, TypedRecord DEF Histories
      <4> QED
        BY <1>1, <4>1, <4>2, <4>3, TypedRecord DEF Types, Histories, Naming
    <3>3. upload[r].at \notin {"none", "converting", "alone"} /\ panel[r] # "plain"
      BY <1>2, <3>1 DEF Phases
    <3>4. Phases(r)'
      BY <1>2, <1>3, <1>5, <3>1, <3>3 DEF Phases, SameUpload
    <3>5. Sure(r)' \subseteq Sure(r) /\ (BeingWritten(r, l) => l \notin Sure(r)')
      BY <3>2 DEF Sure
    <3>6. Remembered(r)'
      <4>1. Named(session[r].names)' \subseteq session'[r].confirmed
        BY <1>2, <1>3, <1>5 DEF Remembered, Named, SameSession
      <4>2. CASE upload[r].at = "registered"
        BY <1>2, <1>3, <1>5, <3>2, <3>3, <3>5, <4>1, <4>2
           DEF Remembered, BeingWritten, Sure, SameUpload, SameSession
      <4>3. CASE upload[r].at # "registered"
        BY <1>3, <1>5, <3>3, <4>1, <4>3 DEF Remembered, SameUpload
      <4> QED
        BY <4>2, <4>3
    <3>7. Copied(r)'
      <4>1. CASE upload[r].at = "registered"
        <5>1. \A m \in Sure(r)' : meeting[r].names[m] = NoName /\ m # l
          BY <1>2, <3>5, <4>1 DEF Copied, BeingWritten
        <5> QED
          BY <1>3, <1>5, <3>1, <3>2, <4>1, <5>1 DEF Copied, Sure, SameUpload
      <4>2. CASE upload[r].at = "copying"
        <5>1. \A m \in Sure(r)' : m \in Labels /\ m \in Sure(r) /\ (m = l => m \notin upload[r].todo)
          BY <3>5, <4>2 DEF BeingWritten, Sure
        <5> QED
          BY <1>2, <1>3, <1>5, <3>1, <3>2, <4>2, <5>1 DEF Copied, SameUpload, SameSession
      <4> QED
        BY <1>3, <1>5, <4>1, <4>2 DEF Copied, SameUpload
    <3>8. AllThere(r)'
      <4>1. ASSUME NEW m \in Sure(r)', IsNameOf(meeting[r].names[m], r, m)
            PROVE  IsNameOf(meeting[r].names[m], r, m)'
        BY <3>1, <3>2, <4>1 DEF IsNameOf, Sure
      <4>2. ASSUME NEW m \in Sure(r)', worker[r].at = "inferring", IsNameOf(worker[r].names[m], r, m)
            PROVE  IsNameOf(worker[r].names[m], r, m)'
        BY <3>1, <3>2, <3>5, <4>2 DEF IsNameOf, Sure, BeingWritten
      <4>3. ASSUME upload'[r].at = "over",
                   meeting'[r].lines # {} \/ (panel'[r] = "done" /\ ~history'[r].lost), NEW m \in Sure(r)'
            PROVE  IsNameOf(meeting[r].names[m], r, m)'
        <5>1. meeting[r].lines # {} \/ (panel[r] = "done" /\ ~history[r].lost)
          BY <1>3, <1>5, <3>1, <3>2, <4>3 DEF SameUpload
        <5>2. CASE m # l
          <6>1. IsNameOf(meeting[r].names[m], r, m)
            BY <1>2, <1>3, <1>5, <3>5, <4>3, <5>1 DEF AllThere, SameUpload
          <6> QED
            BY <4>1, <6>1
        <5>3. CASE m = l
          BY <3>1, <3>2, <5>3 DEF IsNameOf
        <5> QED
          BY <5>2, <5>3
      <4>4. ASSUME worker'[r].at = "inferring", worker'[r].lines # {}, NEW m \in Sure(r)'
            PROVE  IsNameOf(worker[r].names[m], r, m)'
        <5>1. IsNameOf(worker[r].names[m], r, m)
          BY <1>2, <3>1, <3>5, <4>4 DEF AllThere
        <5> QED
          BY <3>1, <4>2, <4>4, <5>1
      <4> QED
        BY <4>3, <4>4 DEF AllThere
    <3> QED
      BY <1>5, <3>4, <3>6, <3>7, <3>8 DEF NamesOf
  <2> QED
    BY <2>1, <2>2, <2>3
<1> QED
  BY <1>4, <1>5

\* A rename that has not arrived yet is doubtful, whatever happens meanwhile.
LEMMA LateStep ==
    ASSUME NamesInv, [Next]_vars
    PROVE  LateDoubtful'
<1>1. Types /\ \A q \in late : q \in Lates /\ q.label \in history[q.rec].doubtful
  BY DEF NamesInv, Types, LateDoubtful
<1>2. \A q \in late : q.rec \in Recordings
  BY <1>1 DEF Lates
<1>3. ASSUME late' \subseteq late,
             \A r \in Recordings : history[r].doubtful \subseteq history'[r].doubtful
      PROVE  LateDoubtful'
  BY <1>1, <1>2, <1>3 DEF LateDoubtful
<1>4. ASSUME NEW r \in Recordings, NEW l \in Labels, NEW n \in Names \cup {NoName}, Break(r, l, n)
      PROVE  LateDoubtful'
  <2>1. /\ \A q \in Recordings : history[q].doubtful \subseteq history'[q].doubtful
        /\ l \in history'[r].doubtful
    BY <1>1, <1>4 DEF Break, Note, Types, Histories
  <2>2. late' = late \cup {[rec |-> r, label |-> l, name |-> n]}
    BY <1>4 DEF Break
  <2> QED
    BY <1>1, <1>2, <2>1, <2>2 DEF LateDoubtful
<1>5. ASSUME NEW q \in late, ArriveLate(q) PROVE LateDoubtful'
  <2>1. \A r \in Recordings : history'[r].doubtful = history[r].doubtful
    BY <1>1, <1>2, <1>5, OnlyUse DEF ArriveLate, SameHistory
  <2> QED
    BY <1>3, <1>5, <2>1 DEF ArriveLate
<1>6. CASE Tick \/ Restart
  BY <1>3, <1>6 DEF Tick, Restart
<1>7. ASSUME NEW r \in Recordings,
             \/ Start(r) \/ LiveFails(r) \/ Ask(r) \/ Stop(r) \/ Refuse(r) \/ Register(r)
             \/ Finalize(r) \/ CopyFails(r) \/ CopyLines(r)
             \/ Claim(r) \/ ReadLines(r) \/ ReadNames(r) \/ Fail(r)
      PROVE  LateDoubtful'
  <2>1. CASE Start(r) \/ Ask(r)
    <3>1. \A q \in Recordings : history'[q].doubtful = history[q].doubtful
      BY <1>1, <2>1, OnlyUse DEF Start, Ask, SameHistory
    <3> QED
      BY <1>3, <2>1, <3>1 DEF Start, Ask
  <2>2. CASE Finalize(r)
    <3>1. PICK b : history' = [history EXCEPT ![r].lastUse = clock, ![r].lost = b]
      BY <2>2 DEF Finalize
    <3>2. \A q \in Recordings : history'[q].doubtful = history[q].doubtful
      BY <1>1, <3>1 DEF Types, Histories
    <3> QED
      BY <1>3, <2>2, <3>2 DEF Finalize
  <2>3. CASE \/ LiveFails(r) \/ Stop(r) \/ Refuse(r) \/ Register(r) \/ CopyFails(r) \/ CopyLines(r)
             \/ Claim(r) \/ ReadLines(r) \/ ReadNames(r) \/ Fail(r)
    BY <1>3, <2>3 DEF LiveFails, Stop, Refuse, Register, CopyFails, CopyLines,
                      Claim, ReadLines, ReadNames, Fail
  <2> QED
    BY <1>7, <2>1, <2>2, <2>3
<1>8. ASSUME NEW r \in Recordings, NEW l \in Labels, Hear(r, l) \/ CopyName(r, l)
      PROVE  LateDoubtful'
  <2>1. CASE Hear(r, l)
    <3>1. \A q \in Recordings : history'[q].doubtful = history[q].doubtful
      BY <1>1, <2>1, OnlyUse DEF Hear, SameHistory
    <3> QED
      BY <1>3, <2>1, <3>1 DEF Hear
  <2>2. CASE CopyName(r, l)
    BY <1>3, <2>2 DEF CopyName
  <2> QED
    BY <1>8, <2>1, <2>2
<1>9. ASSUME NEW r \in Recordings, NEW l \in Labels, NEW n \in Names \cup {NoName}, Rename(r, l, n)
      PROVE  LateDoubtful'
  <2>1. PICK names : history' = [history EXCEPT ![r].lastUse = clock, ![r].latest = names]
    BY <1>9 DEF Rename
  <2>2. \A q \in Recordings : history'[q].doubtful = history[q].doubtful
    BY <1>1, <2>1 DEF Types, Histories
  <2> QED
    BY <1>3, <1>9, <2>2 DEF Rename
<1>10. ASSUME NEW r \in Recordings, NEW l \in Labels, NEW n \in Names \cup {NoName}, Edit(r, l, n)
       PROVE  LateDoubtful'
  <2>1. PICK names, D : /\ history' = [history EXCEPT ![r].latest = names, ![r].doubtful = D,
                                                      ![r].dropped = @ \ {l}]
                        /\ history[r].doubtful \subseteq D
    <3> DEFINE D == IF BeingWritten(r, l) THEN history[r].doubtful \cup {l} ELSE history[r].doubtful
    <3>1. history' = [history EXCEPT ![r].latest = [@ EXCEPT ![l] = n], ![r].doubtful = D,
                                     ![r].dropped = @ \ {l}]
      BY <1>10 DEF Edit
    <3>2. history[r].doubtful \subseteq D
      OBVIOUS
    <3> QED
      BY <3>1, <3>2
  <2>2. \A q \in Recordings : history[q].doubtful \subseteq history'[q].doubtful
    BY <1>1, <2>1 DEF Types, Histories
  <2> QED
    BY <1>3, <1>10, <2>2 DEF Edit
<1>11. ASSUME NEW r \in Recordings, NEW K \in SUBSET Labels, NEW T \in SUBSET Labels,
              NEW hosted \in BOOLEAN, Finish(r, K, T, hosted)
       PROVE  LateDoubtful'
  BY <1>1, <1>3, <1>11 DEF Finish, Types, Histories
<1>12. CASE UNCHANGED vars
  BY <1>3, <1>12 DEF vars
<1> QED
  BY <1>4, <1>5, <1>6, <1>7, <1>8, <1>9, <1>10, <1>11, <1>12 DEF Next

LEMMA NamesInit == Init => NamesInv
<1> SUFFICES ASSUME Init PROVE NamesInv
  OBVIOUS
<1>1. NoNames \in Naming /\ Named(NoNames) = {}
  BY DEF NoNames, Naming, Named
<1>2. 0 \in 0 .. Cardinality(Labels) /\ 0 \in 0 .. MaxClock
  BY FS_CardinalityType, NamesAssumption
<1>3. Types
  BY <1>1, <1>2 DEF Init, Types, Sessions, UploadStates, Rows, WorkerStates, Histories
<1>4. \A r \in Recordings : NamesOf(r)
  BY <1>1 DEF Init, NamesOf, Phases, Remembered, Copied, AllThere, Sure
<1> QED
  BY <1>3, <1>4 DEF Init, NamesInv, LateDoubtful

LEMMA NamesStep ==
    ASSUME NamesInv, [Next]_vars
    PROVE  NamesInv'
<1>1. Types'
  BY TypesStep DEF NamesInv
<1>2. ASSUME NEW q \in Recordings PROVE NamesOf(q)'
  <2>1. CASE UNCHANGED vars
    BY <1>2, <2>1, UntouchedStays
       DEF vars, NamesInv, Untouched, SameRows, SameUpload, SameSession, SameHistory
  <2>2. ASSUME NEW p \in late, ArriveLate(p) PROVE NamesOf(q)'
    <3>1. PICK r \in Recordings, l \in Labels, n \in Names \cup {NoName} :
              p = [rec |-> r, label |-> l, name |-> n]
      BY DEF NamesInv, Types, Lates
    <3> QED
      BY <1>2, <2>2, <3>1, RenameNames
  <2> QED
    BY <1>2, <2>1, <2>2, StoreNames, RenameNames, UploadNames, MeetingNames DEF Next
<1> QED
  BY <1>1, <1>2, LateStep DEF NamesInv

THEOREM NamesInvAlways == Spec => []NamesInv
BY NamesInit, NamesStep, PTL DEF Spec

\* A final pass that finds timelines finds all the names as well.
THEOREM ReadsAllTheorem == Spec => []ReadsAllNames
<1>1. NamesInv => ReadsAllNames
  <2> SUFFICES ASSUME NamesInv, NEW r \in Recordings,
                      worker[r].at = "inferring", worker[r].lines # {},
                      NEW l \in Labels \ history[r].doubtful
               PROVE  worker[r].names[l] \in {history[r].latest[l]} \cup
                          (IF l \in history[r].dropped THEN {NoName} ELSE {})
    BY DEF ReadsAllNames
  <2>1. IsNameOf(worker[r].names[l], r, l)
    BY DEF NamesInv, NamesOf, AllThere, Sure
  <2> QED
    BY <2>1 DEF IsNameOf
<1> QED
  BY <1>1, NamesInvAlways, PTL

\* A meeting at rest carries the last name acknowledged for each of its labels.
THEOREM KeptTheorem == Spec => []NamesKept
<1>1. NamesInv => NamesKept
  <2> SUFFICES ASSUME NamesInv, NEW r \in Recordings, panel[r] = "done", ~history[r].lost,
                      NEW l \in Labels \ (history[r].doubtful \cup history[r].dropped)
               PROVE  meeting[r].names[l] = history[r].latest[l]
    BY DEF NamesKept
  <2>1. upload[r].at = "over"
    BY TypedRecord DEF NamesInv, NamesOf, Phases, UploadStates
  <2>2. IsNameOf(meeting[r].names[l], r, l)
    BY <2>1 DEF NamesInv, NamesOf, AllThere, Sure
  <2> QED
    BY <2>2 DEF IsNameOf
<1> QED
  BY <1>1, NamesInvAlways, PTL

-----------------------------------------------------------------------------
(* The store of sessions.                                                    *)

Counters == used \in [renames : 0 .. MaxRenames, late : 0 .. MaxLate, edits : 0 .. MaxEdits,
                      restarts : 0 .. MaxRestarts, runs : 0 .. MaxRuns]

\* A session in the store was last asked for at the time noted in it.
Used == \A r \in Recordings :
    /\ session[r].stored => session[r].seen = history[r].lastUse
    /\ panel[r] = "idle" => ~session[r].stored

WithinLimit == Cardinality(Stored(session)) <= MaxSessions

StoreInv == Types /\ Counters /\ Used /\ WithinLimit

LEMMA CountersStep ==
    ASSUME Counters, [Next]_vars
    PROVE  Counters'
<1>1. used.renames \in Nat /\ used.late \in Nat /\ used.edits \in Nat /\ used.restarts \in Nat
      /\ used.runs \in Nat
  BY DEF Counters
<1>2. {MaxRenames, MaxLate, MaxEdits, MaxRestarts, MaxRuns} \subseteq Nat
  BY NamesAssumption
<1> USE DEF Counters
<1>3. ASSUME UNCHANGED used PROVE Counters'
  BY <1>3
<1>4. CASE Tick \/ UNCHANGED vars \/ \E q \in late : ArriveLate(q)
  BY <1>3, <1>4 DEF Tick, ArriveLate, vars
<1>5. CASE Restart
  BY <1>1, <1>2, <1>5 DEF Restart, Count
<1>6. ASSUME NEW r \in Recordings, Claim(r) PROVE Counters'
  BY <1>1, <1>2, <1>6 DEF Claim, Count
<1>7. ASSUME NEW r \in Recordings, NEW l \in Labels, NEW n \in Names \cup {NoName},
             Rename(r, l, n) \/ Break(r, l, n) \/ Edit(r, l, n)
      PROVE  Counters'
  BY <1>1, <1>2, <1>7 DEF Rename, Break, Edit, Count
<1>8. ASSUME NEW r \in Recordings,
             \/ Start(r) \/ LiveFails(r) \/ Ask(r) \/ Stop(r) \/ Refuse(r) \/ Register(r)
             \/ Finalize(r) \/ CopyFails(r) \/ CopyLines(r) \/ ReadLines(r) \/ ReadNames(r) \/ Fail(r)
             \/ (\E l \in Labels : Hear(r, l) \/ CopyName(r, l))
             \/ (\E K, T \in SUBSET Labels, hosted \in BOOLEAN : Finish(r, K, T, hosted))
      PROVE  Counters'
  BY <1>3, <1>8 DEF Start, LiveFails, Ask, Stop, Refuse, Register, Finalize, CopyFails, CopyLines,
                    ReadLines, ReadNames, Fail, Hear, CopyName, Finish
<1> QED
  BY <1>4, <1>5, <1>6, <1>7, <1>8 DEF Next

\* A session that is not in the store stays out of it.
LEMMA FewerStored ==
    ASSUME WithinLimit, Stored(session') \subseteq Stored(session), Stored(session) \subseteq Recordings
    PROVE  WithinLimit'
<1>1. IsFiniteSet(Stored(session))
  BY FS_Subset, NamesAssumption
<1>2. /\ Cardinality(Stored(session')) <= Cardinality(Stored(session))
      /\ Cardinality(Stored(session)) \in Nat /\ Cardinality(Stored(session')) \in Nat
  BY <1>1, FS_Subset, FS_CardinalityType
<1> QED
  BY <1>2, NamesAssumption DEF WithinLimit, Stored

\* A request for a session prunes the store and notes its use.
LEMMA AskStore ==
    ASSUME Types, Used, NEW r \in Recordings,
           history'[r].lastUse = clock,
           \A q \in Recordings \ {r} : history'[q].lastUse = history[q].lastUse,
           \A q \in Recordings : /\ session'[q].stored = Touched(r)[q].stored
                                 /\ session'[q].seen = Touched(r)[q].seen,
           \A q \in Recordings : panel'[q] = "idle" => panel[q] = "idle"
    PROVE  /\ Used'
           /\ Stored(session') \subseteq Stored(session)
           /\ \A q \in Recordings : session[q].stored /\ ~session'[q].stored =>
                  clock - history[q].lastUse > TTL
<1>1. \A q \in Recordings : session'[q].stored <=> session[q].stored /\ Fresh(q)
  BY TouchedTyped
<1>2. \A q \in Recordings : session'[q].stored => session'[q].seen = history'[q].lastUse
  BY <1>1, TouchedTyped DEF Used
<1>3. ASSUME NEW q \in Recordings, session[q].stored, ~session'[q].stored
      PROVE  clock - history[q].lastUse > TTL
  <2>1. session[q].seen = history[q].lastUse /\ ~(clock - session[q].seen <= TTL)
    BY <1>1, <1>3 DEF Used, Fresh
  <2>2. history[q].lastUse \in Int /\ clock \in Int /\ TTL \in Int
    BY TypedRecord, NamesAssumption DEF Types, Histories
  <2> QED
    BY <2>1, <2>2
<1> QED
  BY <1>1, <1>2, <1>3 DEF Used, Stored

AllLeave == \A r \in Recordings : LeavesForAReason(r)

\* Requests for a session.
LEMMA AskersStep ==
    ASSUME StoreInv, NEW r \in Recordings,
           \/ Ask(r) \/ Finalize(r)
           \/ (\E l \in Labels : Hear(r, l))
           \/ (\E l \in Labels, n \in Names \cup {NoName} : Rename(r, l, n))
           \/ (\E q \in late : q.rec = r /\ ArriveLate(q))
    PROVE  Used' /\ WithinLimit' /\ AllLeave
<1>1. Types /\ Used /\ WithinLimit
  BY DEF StoreInv
<1>2. Touched(r) \in [Recordings -> Sessions]
  BY <1>1, TouchedTyped
<1>3. \A q \in Recordings : /\ session'[q].stored = Touched(r)[q].stored
                            /\ session'[q].seen = Touched(r)[q].seen
  <2>1. CASE Ask(r) \/ Finalize(r)
    BY <2>1 DEF Ask, Finalize
  <2>2. ASSUME NEW l \in Labels, Hear(r, l)
        PROVE  \A q \in Recordings : /\ session'[q].stored = Touched(r)[q].stored
                                     /\ session'[q].seen = Touched(r)[q].seen
    BY <1>2, <2>2 DEF Hear, Sessions
  <2>3. ASSUME NEW l, NEW n, SetLive(r, l, n)
        PROVE  \A q \in Recordings : /\ session'[q].stored = Touched(r)[q].stored
                                     /\ session'[q].seen = Touched(r)[q].seen
    <3>1. PICK names : session' = [Touched(r) EXCEPT ![r].names = names]
      <4> DEFINE names == [Touched(r)[r].names EXCEPT ![l] = IF Accepted(r, l, n) THEN n ELSE @]
      <4>1. session' = [Touched(r) EXCEPT ![r].names = names]
        BY <2>3 DEF SetLive
      <4> QED
        BY <4>1
    <3> QED
      BY <1>2, <3>1 DEF Sessions
  <2> QED
    BY <2>1, <2>2, <2>3 DEF Rename, ArriveLate
<1>4. /\ history'[r].lastUse = clock
      /\ \A q \in Recordings \ {r} : history'[q].lastUse = history[q].lastUse
  <2>1. CASE Note(r, "lastUse", clock)
    BY <1>1, <2>1 DEF Note, Types, Histories
  <2>2. ASSUME NEW names, history' = [history EXCEPT ![r].lastUse = clock, ![r].latest = names]
        PROVE  /\ history'[r].lastUse = clock
               /\ \A q \in Recordings \ {r} : history'[q].lastUse = history[q].lastUse
    BY <1>1, <2>2 DEF Types, Histories
  <2>3. ASSUME NEW l \in Labels, NEW n \in Names \cup {NoName}, Rename(r, l, n)
        PROVE  \E names : history' = [history EXCEPT ![r].lastUse = clock, ![r].latest = names]
    <3> DEFINE names == [history[r].latest EXCEPT ![l] = IF Accepted(r, l, n) THEN n ELSE @]
    <3>1. history' = [history EXCEPT ![r].lastUse = clock, ![r].latest = names]
      BY <2>3 DEF Rename
    <3> QED
      BY <3>1
  <2>4. CASE Finalize(r)
    <3>1. PICK b : history' = [history EXCEPT ![r].lastUse = clock, ![r].lost = b]
      BY <2>4 DEF Finalize
    <3> QED
      BY <1>1, <3>1 DEF Types, Histories
  <2> QED
    BY <2>1, <2>2, <2>3, <2>4 DEF Ask, Hear, ArriveLate
<1>5. \A q \in Recordings : panel'[q] = "idle" => panel[q] = "idle"
  BY <1>1 DEF Ask, Finalize, Hear, Rename, ArriveLate, Answer, Types
<1>6. /\ Used'
      /\ Stored(session') \subseteq Stored(session)
      /\ \A q \in Recordings : session[q].stored /\ ~session'[q].stored =>
             clock - history[q].lastUse > TTL
  BY <1>1, <1>3, <1>4, <1>5, AskStore
<1>7. WithinLimit'
  BY <1>1, <1>6, FewerStored DEF Stored
<1> QED
  BY <1>6, <1>7 DEF AllLeave, LeavesForAReason

\* Actions that give a place in the store up, or leave the store alone.
LEMMA GiversStep ==
    ASSUME StoreInv,
           \A q \in Recordings : /\ session'[q].stored => session[q].stored
                                 /\ session'[q].seen = session[q].seen
                                 /\ history'[q].lastUse = history[q].lastUse
                                 /\ panel'[q] = "idle" => panel[q] = "idle",
           \A q \in Recordings : session[q].stored /\ ~session'[q].stored =>
               panel'[q] \in {"plain", "done"} \/ used'.restarts > used.restarts
    PROVE  Used' /\ WithinLimit' /\ AllLeave
<1>1. Used'
  BY DEF StoreInv, Used
<1>2. Stored(session') \subseteq Stored(session) /\ Stored(session) \subseteq Recordings
  BY DEF Stored
<1>3. WithinLimit'
  BY <1>2, FewerStored DEF StoreInv
<1> QED
  BY <1>1, <1>3 DEF AllLeave, LeavesForAReason

\* A recording starts: when the store is full, the one longest out of use goes.
LEMMA StartStep ==
    ASSUME StoreInv, NEW r \in Recordings, Start(r)
    PROVE  Used' /\ WithinLimit' /\ AllLeave
<1>1. Types /\ Used /\ WithinLimit
  BY DEF StoreInv
<1>2. PICK o \in Stored(Pruned) \cup {r} :
          /\ session' = [(IF Full(Pruned) THEN Without(Pruned, o) ELSE Pruned)
                            EXCEPT ![r].stored = TRUE, ![r].seen = clock]
          /\ Full(Pruned) => o \in Stored(Pruned) /\ MakesRoom(Pruned, o)
  BY DEF Start
<1>3. Pruned \in [Recordings -> Sessions] /\ Without(Pruned, o) \in [Recordings -> Sessions]
  BY <1>1, PrunedTyped DEF Without, Sessions
<1>4. /\ session'[r].stored /\ session'[r].seen = clock
      /\ \A q \in Recordings \ {r} :
             /\ session'[q].seen = session[q].seen
             /\ session'[q].stored <=> session[q].stored /\ Fresh(q) /\ ~(Full(Pruned) /\ q = o)
  <2>1. PICK room \in [Recordings -> Sessions] :
            /\ session' = [room EXCEPT ![r].stored = TRUE, ![r].seen = clock]
            /\ \A q \in Recordings : /\ room[q].seen = session[q].seen
                                     /\ room[q].stored <=> session[q].stored /\ Fresh(q)
                                                           /\ ~(Full(Pruned) /\ q = o)
    <3>1. CASE Full(Pruned)
      <4>1. \A q \in Recordings : /\ Without(Pruned, o)[q].seen = Pruned[q].seen
                                  /\ Without(Pruned, o)[q].stored <=> Pruned[q].stored /\ q # o
        BY <1>3 DEF Without, Sessions
      <4> QED
        BY <1>1, <1>2, <1>3, <3>1, <4>1, PrunedTyped, ZenonT(40)
    <3>2. CASE ~Full(Pruned)
      BY <1>1, <1>2, <1>3, <3>2, PrunedTyped
    <3> QED
      BY <3>1, <3>2
  <2> QED
    BY <2>1 DEF Sessions
<1>5. /\ history'[r].lastUse = clock
      /\ \A q \in Recordings \ {r} : history'[q].lastUse = history[q].lastUse
      /\ \A q \in Recordings : panel'[q] = "idle" => q # r /\ panel[q] = "idle"
  BY <1>1 DEF Start, Note, Types, Histories
<1>6. Used'
  BY <1>1, <1>4, <1>5 DEF Used
<1>7. /\ Stored(Pruned) \subseteq Stored(session) /\ Stored(session) \subseteq Recordings
      /\ ~session[r].stored
  BY <1>1, PrunedTyped DEF Start, Stored, Used
<1>8. /\ IsFiniteSet(Stored(session)) /\ IsFiniteSet(Stored(Pruned))
      /\ Cardinality(Stored(Pruned)) <= Cardinality(Stored(session))
      /\ Cardinality(Stored(Pruned)) \in Nat /\ Cardinality(Stored(session)) \in Nat
  BY <1>7, FS_Subset, FS_CardinalityType, NamesAssumption
<1>9. WithinLimit'
  <2>1. CASE Full(Pruned)
    <3>1. Stored(session') \subseteq (Stored(Pruned) \ {o}) \cup {r}
      BY <1>1, <1>4, <2>1, PrunedTyped DEF Stored
    <3>2. /\ IsFiniteSet(Stored(Pruned) \ {o})
          /\ Cardinality(Stored(Pruned) \ {o}) = Cardinality(Stored(Pruned)) - 1
      BY <1>2, <1>8, <2>1, FS_RemoveElement
    <3>3. /\ IsFiniteSet((Stored(Pruned) \ {o}) \cup {r})
          /\ Cardinality((Stored(Pruned) \ {o}) \cup {r}) <= Cardinality(Stored(Pruned))
      <4> DEFINE X == Stored(Pruned) \ {o}
      <4>1. IsFiniteSet(X) /\ Cardinality(X) = Cardinality(Stored(Pruned)) - 1
        BY <3>2
      <4> HIDE DEF X
      <4>2. /\ IsFiniteSet(X \cup {r})
            /\ Cardinality(X \cup {r}) = IF r \in X THEN Cardinality(X) ELSE Cardinality(X) + 1
        BY <4>1, FS_AddElement
      <4>3. IsFiniteSet(X \cup {r}) /\ Cardinality(X \cup {r}) <= Cardinality(Stored(Pruned))
        BY <1>8, <4>1, <4>2
      <4> QED
        BY <4>3 DEF X
    <3>4. Cardinality(Stored(session')) <= Cardinality(Stored(Pruned))
      BY <1>8, <3>1, <3>3, FS_Subset, FS_CardinalityType
    <3> QED
      BY <1>1, <1>8, <3>1, <3>3, <3>4, FS_Subset, FS_CardinalityType, NamesAssumption
         DEF WithinLimit, Stored
  <2>2. CASE ~Full(Pruned)
    <3>1. Stored(session') \subseteq Stored(Pruned) \cup {r}
      BY <1>1, <1>4, <2>2, PrunedTyped DEF Stored
    <3>2. /\ IsFiniteSet(Stored(Pruned) \cup {r})
          /\ Cardinality(Stored(Pruned) \cup {r}) <= Cardinality(Stored(Pruned)) + 1
      BY <1>8, FS_AddElement, SMTT(40)
    <3>3. Cardinality(Stored(session')) <= Cardinality(Stored(Pruned)) + 1
      BY <1>8, <3>1, <3>2, FS_Subset, FS_CardinalityType
    <3>4. Cardinality(Stored(session')) \in Nat
      BY <3>1, <3>2, FS_Subset, FS_CardinalityType
    <3> QED
      BY <1>8, <2>2, <3>3, <3>4, NamesAssumption DEF WithinLimit, Full, Stored
  <2> QED
    BY <2>1, <2>2
<1>10. ASSUME NEW q \in Recordings, session[q].stored, ~session'[q].stored
       PROVE  LeavesForAReason(q)
  <2>1. CASE ~Fresh(q)
    <3>1. history[q].lastUse \in Int /\ clock \in Int /\ TTL \in Int
      BY <1>1, TypedRecord, NamesAssumption DEF Types, Histories
    <3> QED
      BY <1>1, <1>10, <2>1, <3>1 DEF Fresh, Used, LeavesForAReason
  <2>2. CASE Fresh(q)
    <3>1. Full(Pruned) /\ q = o /\ MakesRoom(Pruned, q)
      BY <1>2, <1>4, <1>10, <2>2
    <3>2. Cardinality(Stored(session)) >= MaxSessions /\ Cardinality(Stored(Pruned)) = Cardinality(Stored(session))
      BY <1>1, <1>8, <3>1, NamesAssumption DEF Full, WithinLimit
    <3>3. Stored(Pruned) = Stored(session)
      BY <1>7, <1>8, <3>2, FS_Subset
    <3>4. \A p \in Stored(session) : history[q].lastUse <= history[p].lastUse
      BY <1>1, <1>7, <1>10, <3>1, <3>3, PrunedTyped DEF MakesRoom, Used, Stored
    <3> QED
      BY <1>4, <1>7, <3>2, <3>4 DEF LeavesForAReason
  <2> QED
    BY <2>1, <2>2
<1> QED
  BY <1>6, <1>9, <1>10 DEF AllLeave, LeavesForAReason

LEMMA StoreStep ==
    ASSUME StoreInv, [Next]_vars
    PROVE  StoreInv' /\ [WithinLimit' /\ AllLeave]_vars
<1>1. Types' /\ Counters'
  BY TypesStep, CountersStep DEF StoreInv
<1>2. Types /\ used.restarts \in Nat
  BY DEF StoreInv, Counters
<1>3. Used' /\ WithinLimit' /\ AllLeave
  <2>1. CASE Tick \/ UNCHANGED vars
    BY <2>1, GiversStep DEF Tick, vars
  <2>2. CASE Restart
    <3>1. used'.restarts > used.restarts
      BY <1>2, <2>2 DEF Restart, Count, StoreInv, Counters
    <3> QED
      BY <1>2, <2>2, <3>1, GiversStep DEF Restart, Types, Sessions
  <2>3. ASSUME NEW q \in late, ArriveLate(q) PROVE Used' /\ WithinLimit' /\ AllLeave
    BY <1>2, <2>3, AskersStep DEF Types, Lates
  <2>4. ASSUME NEW r \in Recordings, LiveFails(r) PROVE Used' /\ WithinLimit' /\ AllLeave
    BY <1>2, <2>4, GiversStep DEF LiveFails, Without, Types, Sessions
  <2>5. ASSUME NEW r \in Recordings, CopyLines(r) PROVE Used' /\ WithinLimit' /\ AllLeave
    BY <1>2, <2>5, GiversStep DEF CopyLines, Without, Answer, Types, Sessions
  <2>6. ASSUME NEW r \in Recordings,
               \/ Stop(r) \/ Refuse(r) \/ Register(r) \/ CopyFails(r)
               \/ Claim(r) \/ ReadLines(r) \/ ReadNames(r) \/ Fail(r)
               \/ \E l \in Labels : CopyName(r, l)
        PROVE  Used' /\ WithinLimit' /\ AllLeave
    <3>1. UNCHANGED <<session, history>> /\ \A q \in Recordings : panel'[q] = "idle" => panel[q] = "idle"
      BY <1>2, <2>6 DEF Stop, Refuse, Register, CopyFails, Claim, ReadLines, ReadNames, Fail,
                        CopyName, Answer, Types
    <3> QED
      BY <3>1, GiversStep
  <2>7. ASSUME NEW r \in Recordings, NEW l \in Labels, NEW n \in Names \cup {NoName},
               Break(r, l, n) \/ Edit(r, l, n)
        PROVE  Used' /\ WithinLimit' /\ AllLeave
    <3>1. CASE Break(r, l, n)
      BY <1>2, <3>1, GiversStep DEF Break, Note, Types, Histories
    <3>2. CASE Edit(r, l, n)
      <4> DEFINE names == [history[r].latest EXCEPT ![l] = n]
                 D == IF BeingWritten(r, l) THEN history[r].doubtful \cup {l} ELSE history[r].doubtful
      <4>1. history' = [history EXCEPT ![r].latest = names, ![r].doubtful = D, ![r].dropped = @ \ {l}]
        BY <3>2 DEF Edit
      <4> HIDE DEF names, D
      <4>2. \A q \in Recordings : history'[q].lastUse = history[q].lastUse
        BY <1>2, <4>1 DEF Types, Histories
      <4> QED
        BY <3>2, <4>2, GiversStep DEF Edit
    <3> QED
      BY <2>7, <3>1, <3>2
  <2>8. ASSUME NEW r \in Recordings, NEW K \in SUBSET Labels, NEW T \in SUBSET Labels,
               NEW hosted \in BOOLEAN, Finish(r, K, T, hosted)
        PROVE  Used' /\ WithinLimit' /\ AllLeave
    BY <1>2, <2>8, GiversStep DEF Finish, Types, Histories
  <2> QED
    BY <2>1, <2>2, <2>3, <2>4, <2>5, <2>6, <2>7, <2>8, AskersStep, StartStep DEF Next
<1> QED
  BY <1>1, <1>3 DEF StoreInv

LEMMA StoreInit == Init => StoreInv
<1> SUFFICES ASSUME Init PROVE StoreInv
  OBVIOUS
<1>1. Types
  BY NamesInit DEF NamesInv
<1>2. Counters
  BY NamesAssumption DEF Init, Counters
<1>3. Stored(session) = {}
  BY DEF Init, Stored
<1>4. WithinLimit
  BY <1>3, FS_EmptySet, NamesAssumption DEF WithinLimit
<1> QED
  BY <1>1, <1>2, <1>4 DEF Init, StoreInv, Used

\* Sessions stay in the store while they are used, and the store keeps its limit,
\* for every limit and every TTL.
THEOREM StoreTheorem == Spec => SessionsLastWhileUsed
<1>1. StoreInv /\ [Next]_vars => [/\ Cardinality(Stored(session')) <= MaxSessions
                                  /\ \A r \in Recordings : LeavesForAReason(r)]_vars
  BY StoreStep DEF WithinLimit, AllLeave
<1>2. StoreInv /\ [Next]_vars => StoreInv'
  BY StoreStep
<1> QED
  BY <1>1, <1>2, StoreInit, PTL DEF Spec, SessionsLastWhileUsed

\* Type correctness.
THEOREM TypeCorrect == Spec => []TypeOK
<1>1. StoreInv => TypeOK
  BY DEF StoreInv, Types, Counters, WithinLimit, TypeOK, Sessions, UploadStates, Rows,
         WorkerStates, Lates, Histories
<1>2. StoreInv /\ [Next]_vars => StoreInv'
  BY StoreStep
<1> QED
  BY <1>1, <1>2, StoreInit, PTL DEF Spec
==============================================================================
