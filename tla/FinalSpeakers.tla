---------------------------- MODULE FinalSpeakers ----------------------------
(***************************************************************************)
(* The end of a transcription (_run_inference and process_meeting in       *)
(* services/pipeline.py): the speakers of the full-file result get their   *)
(* Kişi numbers, the names typed during the recording move with them, and  *)
(* the words are grouped into turns (form_turns).                          *)
(*                                                                         *)
(* Word i of the result is said in WordSpans[i]; `words[i]` is its         *)
(* provider speaker, 0 when the provider gave none. A name is known by the *)
(* live label it was typed for.                                            *)
(***************************************************************************)
EXTENDS SpeakerMatching

CONSTANTS
    Labels,      \* live labels, Kişi 1, 2, ...
    Timelines,   \* the committed spans a label may have
    WordSpans,   \* when the words are said
    Diarized     \* speakers the provider may tell apart

ASSUME FinalAssumption ==
    /\ Labels \subseteq Nat \ {0} /\ IsFiniteSet(Labels) /\ Diarized \subseteq Nat \ {0}
    /\ Timelines \subseteq Seq(Int \X Int) /\ WordSpans \in Seq(Int \X Int)

Unknown == 0     \* UNKNOWN_SPEAKER, "Bilinmeyen"

VARIABLES
    hosted,      \* result.provider == "elevenlabs", as chosen when the meeting was queued
    timelines,   \* meeting_live_speakers
    names,       \* meeting_speaker_aliases: label to the label it was typed for
    words,
    done,
    labels,      \* provider speaker to final label
    turns        \* the transcript: [speaker, from, to], with word numbers

finalVars == <<hosted, timelines, names, words, done, labels, turns>>

Said(ws) == Range(ws) \ {0}

\* provider_intervals: the spans of each provider speaker, in the order of the words.
ProviderIntervals(ws) ==
    [q \in Said(ws) |->
        FlattenSeq([i \in DOMAIN ws |-> IF ws[i] = q THEN <<WordSpans[i]>> ELSE <<>>])]

\* Dictionaries of speakers are filled in the order of the words.
FirstWord(q, ws) == Min({i \in DOMAIN ws : ws[i] = q})

\* label_speakers: Kişi N by first appearance.
LabelSpeakers(ws) ==
    [q \in Said(ws) |-> Cardinality({r \in Said(ws) : FirstWord(r, ws) <= FirstWord(q, ws)})]

LabelOf(ls, q) == IF q \in DOMAIN ls THEN ls[q] ELSE Unknown

\* form_turns: a word continues the last turn if it has the same label.
AddWord(ts, i, speaker) ==
    IF ts # <<>> /\ Last(ts).speaker = speaker[i]
    THEN [ts EXCEPT ![Len(ts)].to = i]
    ELSE Append(ts, [speaker |-> speaker[i], from |-> i, to |-> i])
FormTurns(ws, ls) ==
    LET speaker == [i \in DOMAIN ws |-> LabelOf(ls, ws[i])]
    IN  FoldLeft(LAMBDA ts, i : AddWord(ts, i, speaker), <<>>, [i \in DOMAIN ws |-> i])

FinalInit ==
    /\ hosted \in BOOLEAN
    /\ timelines \in UNION {[L -> Timelines] : L \in SUBSET Labels}
    /\ names = [l \in DOMAIN timelines |-> l]
    /\ words \in [DOMAIN WordSpans -> {0} \cup Diarized]
    /\ done = FALSE
    /\ labels = <<>>
    /\ turns = <<>>

\* A meeting recorded live: labels and names follow the evidence.
FinishLive ==
    /\ ~done
    /\ timelines # <<>> /\ hosted /\ Said(words) # {}
    /\ LET provider == ProviderIntervals(words)
           place    == [q \in Said(words) |-> FirstWord(q, words)]
       IN  /\ labels' = RemapFinal(timelines, provider, place)
           /\ names' = ReconcileAliases(timelines, provider, place, names)
    /\ turns' = FormTurns(words, labels')
    /\ done' = TRUE
    /\ UNCHANGED <<hosted, timelines, words>>

\* Any other meeting: labels by first appearance, names untouched.
FinishPlain ==
    /\ ~done
    /\ timelines = <<>> \/ ~hosted \/ Said(words) = {}
    /\ labels' = LabelSpeakers(words)
    /\ turns' = FormTurns(words, labels')
    /\ done' = TRUE
    /\ UNCHANGED <<hosted, timelines, names, words>>

FinalNext == FinishLive \/ FinishPlain

FinalSpec == FinalInit /\ [][FinalNext]_finalVars

-----------------------------------------------------------------------------
\* The final labels are dense and no two voices share one: Kişi 1 to Kişi M for
\* the M speakers of the final pass (remap_final_speakers).
DenseLabels == done => labels \in Bijection(Said(words), 1 .. Cardinality(Said(words)))

\* The transcript holds every word once and in order, each under the label of its
\* speaker; a turn ends only where the label changes, and a word nobody is known
\* to have said is never lent to a neighbour (form_turns).
TurnsAreMaximalRuns ==
    done =>
        /\ turns = <<>> <=> words = <<>>
        /\ words # <<>> => turns[1].from = 1 /\ Last(turns).to = Len(words)
        /\ \A k \in DOMAIN turns :
               /\ turns[k].from <= turns[k].to
               /\ \A i \in turns[k].from .. turns[k].to : turns[k].speaker = LabelOf(labels, words[i])
               /\ k > 1 => /\ turns[k].from = turns[k - 1].to + 1
                           /\ turns[k].speaker # turns[k - 1].speaker

\* What is stored of the transcript of a recording (process_meeting).
WellFormedTranscript == DenseLabels /\ TurnsAreMaximalRuns

\* Name f is at a final speaker who shares enough speech with the live label it
\* was typed for, and clearly more than with any other label that has enough.
Evidenced(f) ==
    \E q \in DOMAIN labels :
        /\ labels[q] = f
        /\ LET spans == ProviderIntervals(words)[q]
               with == [l \in DOMAIN timelines |-> Shared(timelines[l], spans)]
               enough == {l \in DOMAIN timelines : /\ with[l] >= MinOverlap
                                                  /\ 10 * with[l] >= 3 * Total(spans)}
               own == with[names[f]]
           IN  /\ names[f] \in enough
               /\ \A l \in enough \ {names[f]} : 10 * (own - with[l]) >= Max({30, 2 * own})
               /\ \A l \in DOMAIN timelines \ {names[f]} : with[l] < own

\* A name goes to a final speaker only on the evidence of shared speech; an
\* ambiguous or unmatched speaker inherits nothing (reconcile_final_aliases).
NamesOnEvidence ==
    (done /\ hosted /\ Said(words) # {}) => \A f \in DOMAIN names : Evidenced(f)

\* The edges match_speakers hands to maximum_weight_matching, and what comes back.
ClearEdges(scores, provider) ==
    LET accepted == Accepted(scores, provider)
        clear    == {q \in {e[2] : e \in accepted} : ~TooClose(q, accepted, scores)}
    IN  [e \in {BestEdge(q, accepted, scores) : q \in clear} |-> scores[e]]
Edges(provider) == ClearEdges(Scores(timelines, provider), provider)

IsMaximum(m, scores) ==
    \A other \in Matchings(scores) : WeightOf(other, scores) <= WeightOf(m, scores)
FindsMaximum(edges) == IsMaximum(MaximumWeightMatching(edges), edges)

\* No edge is much weaker than the strongest one: the weakest costs less than infinity,
\* whatever the tie-break adds.
CloseTogether(edges) ==
    LET n   == Max({Cardinality({e[i] : e \in DOMAIN edges}) : i \in {1, 2}})
        top == Max(Range(edges))
        low == Min(Range(edges))
    IN  Cost(top, low, n) + n * n <= Infinity(top, n)

\* "Deterministic maximum-weight one-to-one matching" (maximum_weight_matching).
MaximumWeight == done => FindsMaximum(Edges(ProviderIntervals(words)))

\* It is one as long as no edge is much weaker than the strongest one.
WhenClose(edges) == (edges # <<>> /\ CloseTogether(edges)) => FindsMaximum(edges)
MaximumWhenClose == done => WhenClose(Edges(ProviderIntervals(words)))
==============================================================================
