----------------------------- MODULE MeetingChat ------------------------------
(***************************************************************************)
(* Questions about a completed meeting (services/meeting_chat.py,          *)
(* chat_about_meeting, get_chat and clear_chat in routers/meetings.py)     *)
(* while meetings are deleted and rewritten around them (MeetingFiles).    *)
(*                                                                         *)
(* An exchange is what its two rows are: a question, an answer with the    *)
(* ordinals of the turns it rests on.  cited records the turns the answer  *)
(* was given for.                                                          *)
(***************************************************************************)
EXTENDS MeetingFiles, Integers, SequencesExt

CONSTANTS
    Asks,      \* handlers of chat_about_meeting
    Raw,       \* the ordinals a model may answer with
    MaxRows    \* bound on the rows of a conversation when a question is asked

ASSUME ChatAssumption == MaxRows \in Nat /\ Raw \subseteq Seq(Int)

VARIABLES
    chat,      \* the rows of each conversation, oldest first
    ask        \* the handlers

chatVars == <<chat, ask>>
vars == <<filesVars, chatVars>>

IdleAsk == [at |-> "idle", meeting |-> None, turns |-> <<>>]
Question == [role |-> "user", sources |-> <<>>, cited |-> <<>>]
Answer(sources, cited) == [role |-> "assistant", sources |-> sources, cited |-> cited]

Init ==
    /\ FilesInit
    /\ chat = [m \in Meetings |-> <<>>]
    /\ ask = [q \in Asks |-> IdleAsk]

Ordinals(turns) == {i - 1 : i \in DOMAIN turns}

\* _parse_answer: the ordinals the transcript has, each of them once.
Keep(kept, o, turns) ==
    IF o \in Ordinals(turns) \ ToSet(kept) THEN Append(kept, o) ELSE kept
Keeps(raw, turns) == FoldLeft(LAMBDA kept, o : Keep(kept, o, turns), <<>>, raw)

\* _chat_message_out: the turns of a row's sources, as the transcript has them now.
Show(shown, o, turns) ==
    IF o \in Ordinals(turns) THEN Append(shown, turns[o + 1]) ELSE shown
Shown(row, turns) == FoldLeft(LAMBDA shown, o : Show(shown, o, turns), <<>>, row.sources)

-----------------------------------------------------------------------------
\* answer_meeting_question refuses a meeting without a completed transcript.
Ready(m) == meeting[m].status = "completed"

\* Fault: the question is stored before the answer is there.
AskStoresQuestion(q, m) ==
    /\ ask[q].at = "idle"
    /\ Ready(m)
    /\ Len(chat[m]) < MaxRows
    /\ ask' = [ask EXCEPT ![q] = [at |-> "asking", meeting |-> m, turns |-> meeting[m].turns]]
    /\ chat' = [chat EXCEPT ![m] = Append(@, Question)]
    /\ UNCHANGED filesVars

\* The transcript is read, the prompt built, the LLM asked.
Ask(q, m) ==
    /\ ask[q].at = "idle"
    /\ Ready(m)
    /\ Len(chat[m]) < MaxRows
    /\ ask' = [ask EXCEPT ![q] = [at |-> "asking", meeting |-> m, turns |-> meeting[m].turns]]
    /\ UNCHANGED <<filesVars, chat>>

\* The call fails (502, 503 or an error): nothing is stored.
AskFails(q) ==
    /\ ask[q].at = "asking"
    /\ ask' = [ask EXCEPT ![q] = IdleAsk]
    /\ UNCHANGED <<filesVars, chat>>

\* Fault: foreign keys are not enforced.
ForeignKeyOff(m) == TRUE

\* The rows refer to the meeting (PRAGMA foreign_keys).
ForeignKey(m) == Exists(m)

\* The exchange is stored in one commit, if there is still a meeting to refer to.
Answered(q, raw) ==
    LET m == ask[q].meeting
        kept == Keeps(raw, ask[q].turns)
        cited == [i \in DOMAIN kept |-> ask[q].turns[kept[i] + 1]]
    IN  /\ ask[q].at = "asking"
        /\ ask' = [ask EXCEPT ![q] = IdleAsk]
        /\ chat' = IF ForeignKey(m)
                   THEN [chat EXCEPT ![m] = @ \o <<Question, Answer(kept, cited)>>]
                   ELSE chat
        /\ UNCHANGED filesVars

\* clear_chat.
Clear(m) ==
    /\ Exists(m) /\ chat[m] # <<>>
    /\ chat' = [chat EXCEPT ![m] = <<>>]
    /\ UNCHANGED <<filesVars, ask>>

\* A conversation goes with its meeting (delete_meeting, ON DELETE CASCADE).
ChatFollows ==
    /\ chat' = [m \in Meetings |-> IF meeting'[m].status = "none" THEN <<>> ELSE chat[m]]
    /\ UNCHANGED ask

Crash ==
    /\ FilesCrash
    /\ ask' = [q \in Asks |-> IdleAsk]
    /\ UNCHANGED chat

Next ==
    \/ FilesStep /\ ChatFollows
    \/ Crash
    \/ \E q \in Asks :
          \/ \E m \in Meetings : Ask(q, m)
          \/ AskFails(q)
          \/ \E raw \in Raw : Answered(q, raw)
    \/ \E m \in Meetings : Clear(m)

Spec == Init /\ [][Next]_vars

-----------------------------------------------------------------------------
\* Every variable has its type.
TypeOK ==
    /\ FilesTypeOK
    /\ ask \in [Asks -> [at : {"idle", "asking"}, meeting : Meetings \cup {None},
                         turns : Transcripts \cup {<<>>}]]
    /\ \A m \in Meetings : \A i \in DOMAIN chat[m] : chat[m][i].role \in {"user", "assistant"}

\* "The stored history is always complete question/answer pairs, so a failed call
\* leaves nothing behind" (answer_meeting_question), whoever asks, clears or crashes
\* meanwhile, and there is none without its meeting.
CompletePairs ==
    \A m \in Meetings :
        /\ chat[m] # <<>> => Exists(m)
        /\ Len(chat[m]) % 2 = 0
        /\ \A i \in DOMAIN chat[m] :
              chat[m][i].role = IF i % 2 = 1 THEN "user" ELSE "assistant"

\* The turns shown under an answer are the turns it was given for (_parse_answer,
\* _chat_message_out), as long as the script does not write the meeting a second
\* time: a completed transcript is final, and an answer that outlives its meeting is
\* not stored.
SourcesShowWhatWasCited ==
    \A m \in Meetings : (m \in Comparisons => written[m] <= 1) =>
        \A i \in DOMAIN chat[m] : Shown(chat[m][i], meeting[m].turns) = chat[m][i].cited
==============================================================================
