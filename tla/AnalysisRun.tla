----------------------------- MODULE AnalysisRun -----------------------------
(***************************************************************************)
(* One run of process_analysis (services/analysis_pipeline.py): the        *)
(* transcript is read, the LLM is asked, its answer is validated, repaired *)
(* at most once and stored with the display names of the speakers.  A call *)
(* of the LLM (OpenAICompatibleProvider.analyze, services/llm_provider.py) *)
(* tries the configured models in order, each of them a bounded number of  *)
(* times.                                                                  *)
(*                                                                         *)
(* The four lists of an analysis are one set of items; a text is what it   *)
(* says of the speakers: a label, a display name, neither, or it is blank. *)
(* Who else touches the row in the meantime is in MeetingJobs.             *)
(***************************************************************************)
EXTENDS Integers, Sequences, SequencesExt

CONSTANTS
    Turns,         \* the transcript: the speaker of each turn, turn 1 has ordinal 0
    Unknown,       \* the label of unresolved speech
    DisplayNames,  \* the names users type
    Settings,      \* the settings the worker may have been started with
    ModelNames,    \* the names of models in them, and what an endpoint calls these
    MaxRetries,    \* llm_max_retries
    Answers,       \* what a model may answer
    Unparsable,    \* an answer that is not an analysis
    NoOne          \* no name, no owner, no model, no analysis

Plain == "plain"          \* a text that mentions nobody
Blank == "blank"          \* an empty text, or one of spaces

Speakers == {Turns[t] : t \in DOMAIN Turns}
Labels   == Speakers \ {Unknown}
Namings  == [Labels -> DisplayNames \cup {NoOne}]
Ordinals == {t - 1 : t \in DOMAIN Turns}
Texts    == Speakers \cup DisplayNames \cup {Plain, Blank}

Items    == [text : Texts, sources : SUBSET Int, owner : Speakers \cup DisplayNames \cup {NoOne}]
Payloads == [summary : Texts, items : SUBSET Items]

ASSUME AnalysisAssumption ==
    /\ MaxRetries \in Nat
    /\ Turns \in Seq(Speakers)
    /\ Answers \subseteq Payloads \cup {Unparsable}
    /\ NoOne \notin Speakers \cup DisplayNames \cup ModelNames
    /\ {Plain, Blank} \cap (Speakers \cup DisplayNames) = {}
    /\ Settings \subseteq [primary : ModelNames, fallback : ModelNames \cup {NoOne},
                           others : Seq(ModelNames), opencode : BOOLEAN]

VARIABLES
    settings,  \* the models of the settings, and whether the endpoint is opencode.ai
    names,     \* the display name of each label when the transcript was read
    pc,        \* where process_analysis stands
    models,    \* the models to try, in order
    call,      \* the call of the LLM: 1, or 2 for the repair
    index,     \* the model being tried
    attempt,   \* attempts made on it before this one
    answer,    \* the answer that has been accepted
    repairs,   \* repair_attempts
    row,       \* the analysis row: status, analysis, error, repair_attempts
    asked,     \* history: requests made, by call and model
    dropped    \* history: requests made to a model when it was given up, 0 before

vars == <<settings, names, pc, models, call, index, attempt, answer, repairs, row, asked, dropped>>

-----------------------------------------------------------------------------
(* The models.                                                              *)

AddNew(list, m) == IF m \in ToSet(list) THEN list ELSE Append(list, m)
Distinct(list) == FoldLeft(AddNew, <<>>, list)

\* candidate_llm_models: the primary model, then the fallbacks.
CandidateModels(s) ==
    Distinct(<<s.primary>> \o (IF s.fallback = NoOne THEN <<>> ELSE <<s.fallback>>) \o s.others)

\* One name is written differently for one endpoint.
EndpointName(s, m) ==
    IF s.opencode /\ m = "deepseek-v4-flash-free" THEN "deepseek-v4-flash" ELSE m

\* Fault: the names are not compared again after they have been rewritten.
ResolveModelsOnce(s) ==
    LET list == CandidateModels(s) IN [i \in DOMAIN list |-> EndpointName(s, list[i])]

\* _resolve_models.
ResolveModels(s) ==
    LET list == CandidateModels(s) IN Distinct([i \in DOMAIN list |-> EndpointName(s, list[i])])

ASSUME EndpointAssumption ==
    \A s \in Settings, m \in ModelNames : EndpointName(s, m) \in ModelNames

-----------------------------------------------------------------------------
(* The checks of an answer.                                                 *)

\* validate_payload: the schema, then semantic_errors.
ItemIsGrounded(i) ==
    /\ i.text # Blank
    /\ i.sources # {} /\ i.sources \subseteq Ordinals
    /\ i.owner \in Labels \cup {NoOne}

Grounded(p) == p.summary # Blank /\ \A i \in p.items : ItemIsGrounded(i)

Valid(a) == a # Unparsable /\ Grounded(a)

\* alias_mapping: the named speakers in the order in which they first speak.
AddNamed(list, s, n) == IF s \in DOMAIN n /\ n[s] # NoOne THEN AddNew(list, s) ELSE list
NamedSpeakers(n) == FoldLeft(LAMBDA list, s : AddNamed(list, s, n), <<>>, Turns)

\* Fault: only the first speaker is renamed.
RenamedOnce(t, n) ==
    LET named == NamedSpeakers(n)
    IN  IF named # <<>> /\ t = named[1] THEN n[named[1]] ELSE t

\* replace: one speaker after the other, each in what the last one has left.
Rename(text, s, n) == IF text = s THEN n[s] ELSE text
Renamed(t, n) == FoldLeft(LAMBDA text, s : Rename(text, s, n), t, NamedSpeakers(n))

\* Fault: the owner is renamed as well.
InProseAndOwner(p, n) ==
    [summary |-> Renamed(p.summary, n),
     items |-> {[i EXCEPT !.text = Renamed(@, n), !.owner = Renamed(@, n)] : i \in p.items}]

\* apply_aliases_to_prose.
InProse(p, n) ==
    [summary |-> Renamed(p.summary, n),
     items |-> {[i EXCEPT !.text = Renamed(@, n)] : i \in p.items}]

\* Every analysis that may be stored.
NamedAnalyses == {InProse(a, n) : a \in {b \in Answers : Valid(b)}, n \in Namings}

-----------------------------------------------------------------------------
Init ==
    /\ settings \in Settings
    /\ names \in Namings
    /\ pc = "reading"
    /\ models = ResolveModels(settings)
    /\ call = 1
    /\ index = 1
    /\ attempt = 0
    /\ answer = Unparsable
    /\ repairs = 0
    /\ row = [status |-> "processing", stored |-> NoOne, error |-> "none", repairs |-> 0]
    /\ asked = [c \in {1, 2} |-> [i \in DOMAIN models |-> 0]]
    /\ dropped = asked

Errors == {"configuration", "size", "http", "response", "connection", "invalid", "other"}

\* The except branch: the error goes to the row, with the repairs made so far.
Fails(error) ==
    /\ pc' = "ended"
    /\ row' = [row EXCEPT !.status = "failed", !.error = error, !.repairs = repairs]

\* The transcript is read, the prompt built and the provider made; each may be
\* refused (process_analysis, build_provider).
Read ==
    /\ pc = "reading"
    /\ \/ /\ pc' = "asking"
          /\ UNCHANGED row
       \/ \E error \in {"configuration", "size"} : Fails(error)
    /\ UNCHANGED <<settings, names, models, call, index, attempt, answer, repairs, asked, dropped>>

\* httpx.post to the model being tried.
Request == asked' = [asked EXCEPT ![call][index] = @ + 1]

\* Fault: the last fallback is never tried.
NextModelButLast(error) ==
    IF index < Len(models) - 1
    THEN /\ index' = index + 1
         /\ attempt' = 0
         /\ UNCHANGED <<pc, row>>
    ELSE /\ Fails(error)
         /\ UNCHANGED <<index, attempt>>

\* The model is given up: the next one, or the error of the last one.
NextModel(error) ==
    IF index < Len(models)
    THEN /\ index' = index + 1
         /\ attempt' = 0
         /\ UNCHANGED <<pc, row>>
    ELSE /\ Fails(error)
         /\ UNCHANGED <<index, attempt>>

LastAttempt == attempt >= MaxRetries

\* No connection, a timeout, HTTP 429 or 5xx: the same model again after a pause.
TryAgain ==
    /\ pc = "asking"
    /\ Request
    /\ \E error \in {"connection", "http"} :
           IF LastAttempt
           THEN NextModel(error)
           ELSE attempt' = attempt + 1 /\ UNCHANGED <<index, pc, row>>
    /\ UNCHANGED <<settings, names, models, call, answer, repairs, dropped>>

\* Fault: a model that has refused is asked again.
GiveUpModelRetries ==
    /\ pc = "asking"
    /\ Request
    /\ dropped' = [dropped EXCEPT ![call][index] = asked[call][index] + 1]
    /\ \E error \in {"http", "response"} :
           IF LastAttempt
           THEN NextModel(error)
           ELSE attempt' = attempt + 1 /\ UNCHANGED <<index, pc, row>>
    /\ UNCHANGED <<settings, names, models, call, answer, repairs>>

\* Any other HTTP error, or an envelope without content: not on this model again.
GiveUpModel ==
    /\ pc = "asking"
    /\ Request
    /\ dropped' = [dropped EXCEPT ![call][index] = asked[call][index] + 1]
    /\ \E error \in {"http", "response"} : NextModel(error)
    /\ UNCHANGED <<settings, names, models, call, answer, repairs>>

\* Fault: process_analysis handles the errors of the provider only.
BreakEscapes ==
    /\ pc = "asking"
    /\ Request
    /\ pc' = "ended"
    /\ UNCHANGED <<settings, names, models, call, index, attempt, answer, repairs, row, dropped>>

\* An exception analyze does not catch ends the run, with models left to try.
Break ==
    /\ pc = "asking"
    /\ Request
    /\ Fails("other")
    /\ UNCHANGED <<settings, names, models, call, index, attempt, answer, repairs, dropped>>

\* Fault: the repair is counted when it has succeeded.
ReplyCountsLate(a) ==
    /\ pc = "asking"
    /\ Request
    /\ \/ /\ Valid(a)
          /\ pc' = "storing"
          /\ answer' = a
          /\ repairs' = call - 1
          /\ UNCHANGED <<call, index, attempt, row>>
       \/ /\ ~Valid(a) /\ call = 1
          /\ call' = 2
          /\ index' = 1
          /\ attempt' = 0
          /\ UNCHANGED <<pc, answer, repairs, row>>
       \/ /\ ~Valid(a) /\ call = 2
          /\ Fails("invalid")
          /\ UNCHANGED <<call, index, attempt, answer, repairs>>
    /\ UNCHANGED <<settings, names, models, dropped>>

\* An answer: valid, to be repaired, or wrong a second time.
Reply(a) ==
    /\ pc = "asking"
    /\ Request
    /\ \/ /\ Valid(a)
          /\ pc' = "storing"
          /\ answer' = a
          /\ UNCHANGED <<call, index, attempt, repairs, row>>
       \/ /\ ~Valid(a) /\ call = 1
          /\ call' = 2
          /\ index' = 1
          /\ attempt' = 0
          /\ repairs' = 1
          /\ UNCHANGED <<pc, answer, row>>
       \/ /\ ~Valid(a) /\ call = 2
          /\ Fails("invalid")
          /\ UNCHANGED <<call, index, attempt, answer, repairs>>
    /\ UNCHANGED <<settings, names, models, dropped>>

\* Fault: what was written before the failure is not rolled back.
StoreKeepsPart ==
    /\ pc = "storing"
    /\ pc' = "ended"
    /\ \E status \in {"completed", "failed"} :
           row' = [status |-> status, stored |-> InProse(answer, names), error |-> "none",
                   repairs |-> repairs]
    /\ UNCHANGED <<settings, names, models, call, index, attempt, answer, repairs, asked, dropped>>

\* The row is written; the database may refuse.
Store ==
    /\ pc = "storing"
    /\ \/ /\ pc' = "ended"
          /\ row' = [status |-> "completed", stored |-> InProse(answer, names), error |-> "none",
                     repairs |-> repairs]
       \/ Fails("other")
    /\ UNCHANGED <<settings, names, models, call, index, attempt, answer, repairs, asked, dropped>>

Ask ==
    \/ TryAgain
    \/ GiveUpModel
    \/ Break
    \/ \E a \in Answers : Reply(a)

Next == Read \/ Ask \/ Store

Spec == Init /\ [][Next]_vars

\* A request is answered or times out, and the coroutine is resumed.
FairSpec == Spec /\ WF_vars(Read) /\ WF_vars(Ask) /\ WF_vars(Store)

-----------------------------------------------------------------------------
Rows ==
    [status : {"processing", "completed", "failed"}, stored : NamedAnalyses \cup {NoOne},
     error : Errors \cup {"none"}, repairs : {0, 1}]

\* Every variable has its type.
TypeOK ==
    /\ settings \in Settings
    /\ names \in Namings
    /\ pc \in {"reading", "asking", "storing", "ended"}
    /\ models \in Seq(ModelNames) \ {<<>>}
    /\ call \in {1, 2}
    /\ index \in DOMAIN models
    /\ attempt \in 0 .. MaxRetries
    /\ answer \in Payloads \cup {Unparsable}
    /\ repairs \in {0, 1}
    /\ row \in Rows
    /\ asked \in [{1, 2} -> [DOMAIN models -> 0 .. MaxRetries + 1]]
    /\ dropped \in [{1, 2} -> [DOMAIN models -> 0 .. MaxRetries + 1]]

\* Model i has had its chance in call c.
Exhausted(c, i) == dropped[c][i] > 0 \/ asked[c][i] = MaxRetries + 1

\* A call does what its loops promise (analyze): a model that refuses or answers
\* nonsense is not asked again, an overloaded one at most MaxRetries + 1 times, the
\* next one only when those before it have been given up.
CallDiscipline ==
    \A c \in {1, 2} : \A i \in DOMAIN models :
        /\ asked[c][i] <= MaxRetries + 1
        /\ dropped[c][i] \in {0, asked[c][i]}
        /\ asked[c][i] > 0 => \A j \in 1 .. i - 1 : Exhausted(c, j)

\* No model is asked under two names of the settings: one that has refused is not
\* asked again as its own fallback (candidate_llm_models, _resolve_models).
NoModelTwice ==
    \A c \in {1, 2} : \A i, j \in DOMAIN models :
        (asked[c][i] > 0 /\ asked[c][j] > 0 /\ models[i] = models[j]) => i = j

\* The LLM is reported unavailable only when every model has been tried, in the
\* call that failed (the fallback loop of analyze).
FailsWhenExhausted ==
    row.error \in {"connection", "http", "response"} =>
        \A i \in DOMAIN models : Exhausted(call, i)

\* What is stored cites turns of the transcript and gives no task to unresolved
\* speech, whichever call it comes from and whatever names were put into its prose
\* (process_analysis, validate_payload, apply_aliases_to_prose).
CompletedIsGrounded == row.status = "completed" => Grounded(row.stored)

\* The repair is reported exactly when the LLM has been asked for one, also when it
\* failed (repair_attempts in process_analysis).
RepairsReported ==
    row.status # "processing" =>
        (row.repairs = 1 <=> \E i \in DOMAIN models : asked[2][i] > 0)

\* The name a text should carry in place of t.
OwnName(t) == IF t \in Labels /\ names[t] # NoOne THEN names[t] ELSE t

\* "Canonical labels are deterministically replaced with the meeting's display
\* aliases" (apply_aliases_to_prose): every speaker a text mentions appears under
\* the name typed for that speaker.
ProseNamesSpeakers ==
    row.status = "completed" =>
        /\ row.stored.summary = OwnName(answer.summary)
        /\ row.stored.items = {[i EXCEPT !.text = OwnName(@)] : i \in answer.items}

\* Every run ends and says so in its row, whatever the provider answers (bounded
\* retries, one repair, one handler for every exception).
Finishes == <>(row.status # "processing")

\* A run keeps the promise of AnalysisOutcome: it ends once, with an answer that
\* passed the checks or with an error (process_analysis).
Outcome == INSTANCE AnalysisOutcome WITH
    Analyses <- NamedAnalyses,
    Nothing <- NoOne,
    status <- row.status,
    stored <- row.stored,
    repairs <- row.repairs
ImplementsOutcome == Outcome!Spec
==============================================================================
