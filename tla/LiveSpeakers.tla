---------------------------- MODULE LiveSpeakers -----------------------------
(***************************************************************************)
(* The speaker registry of one live session (LiveSessionStore.apply_window *)
(* in services/live_sessions.py): each window of the recording comes with  *)
(* clusters of speech that are linked to the known speakers, kept as       *)
(* candidates, or promoted to a new Kişi N.                                *)
(*                                                                         *)
(* Time is counted in tenths of a second. Window n ends at the n-th        *)
(* attempt of the tracker in the browser. What the provider hears is any   *)
(* grouping of the turns of talk that fall into the window; LiveVoices     *)
(* says which ones come. `talk` is the recording, chosen at the start.     *)
(* `from` of a candidate and `origin` are history: the windows a speaker   *)
(* has been promoted on.                                                   *)
(***************************************************************************)
EXTENDS SpeakerMatching

CONSTANTS
    Talks,         \* the recordings: records of the fields below
    Clusters       \* the most speakers the provider tells apart in a window

\* turns         the spans of talk, in the order of time
\* maxSpeakers   session.max_speakers
\* maxIntervals  MAX_INTERVALS_PER_SPEAKER
\* windows       the windows of the recording
\* repeats       bound on windows that are applied twice
\* faithful      does the provider tell the voices apart?
ASSUME LiveAssumption ==
    /\ Clusters \in Nat
    /\ \A t \in Talks : /\ t.turns \in Seq(Int \X Int)
                        /\ t.maxSpeakers \in Nat \ {0} /\ t.maxIntervals \in Nat \ {0}
                        /\ t.windows \in Nat /\ t.repeats \in Nat /\ t.faithful \in BOOLEAN

Step     == 40     \* STEP_SECONDS
Lookback == 120    \* LOOKBACK_SECONDS
Horizon  == 120    \* TEMPORAL_HORIZON_SECONDS
ToleranceWide == 100   \* Fault: clusters are joined across ten seconds.
Tolerance == 20        \* of _clusters_are_continuous
MinSnapshots == 2  \* MIN_CANDIDATE_SNAPSHOTS
ConfirmMargin == 10    \* CONFIRM_MARGIN_SECONDS

VARIABLES
    talk,        \* the recording
    speakers,    \* Kişi N to the spans committed to it
    confirmed,   \* confirmed_labels_set
    candidates,  \* clusters waiting for evidence: [spans, seen, last, from]
    snapshot,    \* last_snapshot
    sequence,    \* number of the last window applied
    repeats,     \* windows applied twice so far
    shown,       \* pairs <<cluster, label>> the last window showed as confirmed
    origin       \* speaker to the windows it was promoted on

vars == <<talk, speakers, confirmed, candidates, snapshot, sequence, repeats, shown, origin>>

Init ==
    /\ talk \in Talks
    /\ speakers = <<>>
    /\ confirmed = {}
    /\ candidates = <<>>
    /\ snapshot = <<>>
    /\ sequence = 0
    /\ repeats = 0
    /\ shown = {}
    /\ origin = <<>>

WindowEnd(n) == Step * (n + 1)
Window(n) == <<Max({0, WindowEnd(n) - Lookback}), WindowEnd(n)>>
StablePart(n) == <<Window(n)[1], WindowEnd(n) - Step>>

\* The spans that are kept at the cap.
Newest(spans) ==
    IF Len(spans) <= talk.maxIntervals THEN spans
    ELSE SubSeq(spans, Len(spans) - talk.maxIntervals + 1, Len(spans))

\* dict.setdefault(label, []).extend(spans)
Extend(f, label, spans) ==
    IF label \in DOMAIN f THEN [f EXCEPT ![label] = @ \o spans] ELSE Put(f, label, spans)

LatestEnd(spans) == Max({spans[i][2] : i \in DOMAIN spans})

-----------------------------------------------------------------------------
(* apply_window, on the session s = [speakers, confirmed, candidates,       *)
(* snapshot, origin].                                                       *)

\* Fault: a fragment merged into a label is shown as confirmed too.
IsConfirmedAnyway(match, q) == match.margin[q] >= 0

\* _is_confirmed, for a cluster with speech in the stable part.
IsConfirmed(match, q) == match.evidence[q] = "overlap" /\ match.margin[q] >= ConfirmMargin

\* The stable part of a linked cluster is committed; all of it is the reference
\* for the next window.
Commit(s, match, provider, stable, q) ==
    LET label == match.label[q]
        own   == Extend(s.speakers, label, stable[q])
    IN  [s EXCEPT !.speakers = [own EXCEPT ![label] = Newest(@)],
                  !.snapshot = Extend(@, label, provider[q]),
                  !.confirmed = IF stable[q] # <<>> /\ IsConfirmed(match, q)
                                THEN @ \cup {label} ELSE @]

Continuous(spans, others) ==
    \E i \in DOMAIN spans, j \in DOMAIN others : Gap(spans[i], others[j]) <= Tolerance

\* Fault: two clusters of one window count as two windows.
MayAddAlways(candidate, n) == TRUE

\* Evidence must come from an earlier window.
MayAdd(candidate, n) == candidate.last # n

\* _register_candidate
Register(s, spans, n) ==
    LET same == {k \in DOMAIN s.candidates : /\ MayAdd(s.candidates[k], n)
                                             /\ Continuous(s.candidates[k].spans, spans)}
    IN  IF same = {}
        THEN [s EXCEPT !.candidates =
                 Append(@, [spans |-> spans, seen |-> 1, last |-> n, from |-> {n}])]
        ELSE [s EXCEPT !.candidates[Min(same)] =
                 [spans |-> Newest(@.spans \o spans), seen |-> @.seen + 1, last |-> n,
                  from |-> @.from \cup {n}]]

\* _stale_confirmed_speakers: confirmed speakers not heard for Horizon before the
\* window, counting what this window links to them.
Stale(s, match, provider, n) ==
    LET heard(l) == {LatestEnd(provider[q]) : q \in {r \in DOMAIN match.label : match.label[r] = l}}
                    \cup (IF s.speakers[l] = <<>> THEN {} ELSE {LatestEnd(s.speakers[l])})
    IN  {l \in s.confirmed : /\ heard(l) # {}
                             /\ Window(n)[1] - Max(heard(l)) > Horizon}

\* Fault: the bound on the speakers is forgotten.
MayPromoteBeyond(s, match, provider, n) == Stale(s, match, provider, n) = {}

\* Fault: the stale speakers are forgotten.
MayPromoteUnlessFull(s, match, provider, n) == Cardinality(DOMAIN s.speakers) < talk.maxSpeakers

\* _may_promote
MayPromote(s, match, provider, n) ==
    /\ Cardinality(DOMAIN s.speakers) < talk.maxSpeakers
    /\ Stale(s, match, provider, n) = {}

\* next_canonical_label
NextLabel(labels) == CHOOSE l \in 1 .. Cardinality(labels) + 1 :
                         l \notin labels /\ \A m \in 1 .. l - 1 : m \in labels

\* One candidate of the promotion loop; `gone` are the ones promoted so far.
Promote(s, k, w) ==
    LET c      == s.candidates[k]
        label  == NextLabel(DOMAIN s.speakers)
        stable == Clip(c.spans, StablePart(w.n))
    IN  IF c.seen >= MinSnapshots /\ MayPromote(s, w.match, w.provider, w.n)
        THEN [s EXCEPT !.speakers  = Extend(@, label, stable),
                       !.snapshot  = Extend(@, label, c.spans),
                       !.confirmed = IF stable # <<>> THEN @ \cup {label} ELSE @,
                       !.origin    = Put(@, label, c.from),
                       !.gone      = @ \cup {k}]
        ELSE s

\* The loops of apply_window one after the other, over what the window w brings:
\* linked clusters, unmatched ones, candidates, and the removal of the promoted
\* candidates.
Link(s, q, w) == IF q \in DOMAIN w.match.label THEN Commit(s, w.match, w.provider, w.stable, q) ELSE s
Wait(s, q, w) == IF q \in w.match.unmatched THEN Register(s, w.provider[q], w.n) ELSE s

CommitAll(s, w) == FoldLeft(LAMBDA t, q : Link(t, q, w), s, [q \in 1 .. Clusters |-> q])
RegisterAll(s, w) == FoldLeft(LAMBDA t, q : Wait(t, q, w), s, [q \in 1 .. Clusters |-> q])
PromoteAll(s, w) == FoldLeft(LAMBDA t, k : Promote(t, k, w), s, [k \in DOMAIN s.candidates |-> k])
DropPromoted(s) ==
    [s EXCEPT !.candidates =
        FlattenSeq([k \in DOMAIN @ |-> IF k \in s.gone THEN <<>> ELSE <<@[k]>>])]

\* What the answer shows as confirmed: linked clusters, and new labels as 0.
Shown(s, old, match, stable) ==
    {<<q, match.label[q]>> : q \in {r \in DOMAIN match.label :
                                        stable[r] # <<>> /\ IsConfirmed(match, r)}}
    \cup {<<0, l>> : l \in (DOMAIN s.speakers \ DOMAIN old) \cap s.confirmed}

AppliedMatch(s, w) ==
    LET linked   == CommitAll([s EXCEPT !.snapshot = <<>>], w)
        promoted == PromoteAll(RegisterAll(linked, w), w)
    IN  DropPromoted([promoted EXCEPT !.shown = Shown(promoted, s.speakers, w.match, w.stable)])

\* The whole of apply_window for the clusters of window n.
Applied(s, provider, n) ==
    AppliedMatch(s,
        [match    |-> MatchWindow(IF s.snapshot # <<>> THEN s.snapshot ELSE s.speakers,
                                  provider, Window(n)),
         provider |-> provider,
         stable   |-> Table([q \in DOMAIN provider |-> Clip(provider[q], StablePart(n))]),
         n        |-> n])

-----------------------------------------------------------------------------
(* What a window brings.                                                    *)

\* Clusters of the turns in window n: `group` gives each turn its cluster, 0 when
\* the provider heard nobody. Clusters are named in the order they start to speak.
InWindow(turns, n) == {t \in DOMAIN turns : Overlap(turns[t], Window(n)) > 0}
GroupingsOf(turns, n) ==
    {g \in [InWindow(turns, n) -> 0 .. Clusters] :
        \A t \in DOMAIN g : g[t] > 1 => \E u \in DOMAIN g : u < t /\ g[u] = g[t] - 1}
Groupings == [t \in Talks |-> [n \in 1 .. t.windows |-> GroupingsOf(t.turns, n)]]
Heard(g, n) ==
    LET of(q) == FlattenSeq([t \in DOMAIN talk.turns |->
                     IF t \in DOMAIN g /\ g[t] = q THEN <<talk.turns[t]>> ELSE <<>>])
    IN  Table([q \in Range(g) \ {0} |-> Clip(of(q), Window(n))])

Become(s) ==
    /\ speakers' = s.speakers
    /\ confirmed' = s.confirmed
    /\ candidates' = s.candidates
    /\ snapshot' = s.snapshot
    /\ origin' = s.origin
    /\ shown' = s.shown

Fold(n, provider) ==
    Become(Applied([speakers |-> speakers, confirmed |-> confirmed, candidates |-> candidates,
                    snapshot |-> snapshot, origin |-> origin, gone |-> {}, shown |-> {}],
                   provider, n))

\* The next window of the recording, grouped as g.
ApplyNext(g) ==
    /\ Fold(sequence + 1, Heard(g, sequence + 1))
    /\ sequence' = sequence + 1
    /\ UNCHANGED <<talk, repeats>>

\* The last window once more, from a request that was cut off and sent again. A
\* cut-off request that ends only after the next window was applied is left out.
ApplyAgain(g) ==
    /\ Fold(sequence, Heard(g, sequence))
    /\ repeats' = repeats + 1
    /\ UNCHANGED <<talk, sequence>>

-----------------------------------------------------------------------------
\* The speakers are Kişi 1 to Kişi n without a gap, never more than the user said
\* there are, and none keeps more spans than the cap, whatever a window adds
\* (next_canonical_label, max_speakers, speaker.committed).
DenseAndBounded ==
    /\ DOMAIN speakers = 1 .. Cardinality(DOMAIN speakers)
    /\ Cardinality(DOMAIN speakers) <= talk.maxSpeakers
    /\ \A l \in DOMAIN speakers : Len(speakers[l]) <= talk.maxIntervals

\* "One snapshot alone is never enough": every speaker has been promoted on
\* evidence from at least two different windows, also when a window is applied
\* twice or holds two clusters of the same voice.
PromotedOnTwoWindows == \A l \in DOMAIN origin : Cardinality(origin[l]) >= MinSnapshots

\* A window never shows two of its voices under one confirmed label: what a merge
\* or a pause has put together stays provisional (_is_confirmed).
OneVoicePerLabel == \A a, b \in shown : a[2] = b[2] => a = b

\* Whoever takes one of the places of max_speakers has committed speech, so a name
\* has something to follow in the final pass: the clusters a candidate is made of lie
\* close enough together to reach into the stable part of the window that promotes
\* it, although the code commits only what is there (apply_window).
SpeakersHaveSpeech == \A l \in DOMAIN speakers : speakers[l] # <<>>
==============================================================================
