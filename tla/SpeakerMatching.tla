--------------------------- MODULE SpeakerMatching ---------------------------
(***************************************************************************)
(* Linking the speakers of one diarization result to the speakers already  *)
(* known, by the time they speak at (services/speaker_matching.py).        *)
(*                                                                         *)
(* Time is counted in tenths of a second. A span is a pair <<start, end>>; *)
(* canonical and provider speakers are numbered in the order the code      *)
(* sorts their names in, and both sides are functions from those numbers   *)
(* to sequences of spans (a span may occur twice, and then counts twice).  *)
(***************************************************************************)
EXTENDS Integers, FiniteSets, SequencesExt, TLC

\* f itself: the comparison makes TLC compute its values once.
Table(f) == IF f = f THEN f ELSE <<>>

\* f with y at x.
Put(f, x, y) == [z \in DOMAIN f \cup {x} |-> IF z = x THEN y ELSE f[z]]

MinOverlap      == 4     \* MIN_OVERLAP_SECONDS
GapTolerance    == 20    \* DEFAULT_GAP_TOLERANCE_SECONDS
ContinuationGap == 20    \* CONTINUATION_GAP_SECONDS
MergeGap        == 3     \* MERGE_GAP_SECONDS
FragmentMax     == 10    \* FRAGMENT_MAX_SECONDS
Scale           == 10000 \* cost units of maximum_weight_matching per tenth

-----------------------------------------------------------------------------
(* Spans.                                                                   *)

Overlap(l, r) == Max({0, Min({l[2], r[2]}) - Max({l[1], r[1]})})
\* Fault: only the gap to a later span is seen.
GapAhead(l, r) == Max({0, r[1] - l[2]})

Gap(l, r) == Max({0, r[1] - l[2], l[1] - r[2]})
Clip(spans, w) ==
    FlattenSeq([i \in DOMAIN spans |->
        IF Overlap(spans[i], w) > 0
        THEN <<<<Max({spans[i][1], w[1]}), Min({spans[i][2], w[2]})>>>>
        ELSE <<>>])

PairsOf(ls, rs) == (DOMAIN ls) \X (DOMAIN rs)
Total(spans) == FoldLeft(LAMBDA sum, s : sum + s[2] - s[1], 0, spans)
SharedWith(l, rs) == FoldLeft(LAMBDA sum, r : sum + Overlap(l, r), 0, rs)
Shared(ls, rs) == FoldLeft(LAMBDA sum, l : sum + SharedWith(l, rs), 0, ls)
Disjoint(ls, rs) == Shared(ls, rs) = 0

\* sorted(S), for numbers.
InOrder(S) == [k \in 1 .. Cardinality(S) |-> CHOOSE x \in S : Cardinality({y \in S : y <= x}) = k]

\* score_pairs: the overlap of every pair that has one.
Scores(canonical, provider) ==
    LET all == Table([e \in (DOMAIN canonical) \X (DOMAIN provider) |->
                         Shared(canonical[e[1]], provider[e[2]])])
    IN  Table(RestrictValues(all, LAMBDA s : s > 0))

-----------------------------------------------------------------------------
(* maximum_weight_matching: the Hungarian method on a square cost matrix.   *)
(* `scores` maps pairs <<canonical, provider>> to overlaps.                 *)

\* The "infinity" the search starts from.
Infinity(top, n) == (top * Scale + 1) * (n + 1)

\* Fault: the cost grows with the overlap.
CostByWeight(top, weight, n) == weight * Scale * (n * n + 1)

\* The cost of a pair before the tie-break.
Cost(top, weight, n) == (top - weight) * Scale * (n * n + 1)

\* One round of the search: the reduced costs of the row in column s.j are compared,
\* and the open column with the least one, if it is below infinity, is next. m is the
\* matrix: [cost, n, infinity].
Look(s, m) ==
    LET Cols  == 0 .. m.n
        used  == s.used \cup {s.j}
        row   == s.p[s.j]
        open  == (1 .. m.n) \ used
        reach == [j \in open |-> m.cost[<<row, j>>] - s.u[row] - s.v[j]]
        near  == {j \in open : reach[j] < s.minv[j]}
        minv  == [j \in Cols |-> IF j \in near THEN reach[j] ELSE s.minv[j]]
        least == {j \in open : /\ minv[j] < m.infinity
                               /\ \A k \in open : minv[j] < minv[k] \/ (minv[j] = minv[k] /\ j <= k)}
        next  == IF least = {} THEN 0 ELSE CHOOSE j \in least : TRUE
        delta == IF least = {} THEN m.infinity ELSE minv[next]
        rows  == {s.p[j] : j \in used}
    IN  [s EXCEPT
            !.used = used,
            !.j    = next,
            !.way  = [j \in Cols |-> IF j \in near THEN s.j ELSE s.way[j]],
            !.u    = [r \in Cols |-> IF r \in rows THEN s.u[r] + delta ELSE s.u[r]],
            !.v    = [j \in Cols |-> IF j \in used THEN s.v[j] - delta ELSE s.v[j]],
            !.minv = [j \in Cols |-> IF j \in used THEN minv[j] ELSE minv[j] - delta],
            !.done = s.p[next] = 0]
Search(s, m) == IF s.done THEN s ELSE Look(s, m)

\* One step back along the path that was found.
Shift(s) == IF s.j = 0 THEN s
            ELSE [s EXCEPT !.p[s.j] = s.p[s.way[s.j]], !.j = s.way[s.j]]

\* One row of the outer loop: the search for a column for row i, and the reassignment
\* along the path. The column the path ends in, 0, is free for the next row.
PlaceRow(st, i, m) ==
    LET start == [u |-> st.u, v |-> st.v, p |-> [st.p EXCEPT ![0] = i], j |-> 0, used |-> {},
                  way |-> st.way, minv |-> [j \in 0 .. m.n |-> m.infinity], done |-> FALSE]
        found == FoldLeft(LAMBDA s, k : Search(s, m), start, [k \in 1 .. 2 * (m.n + 1) |-> k])
        moved == FoldLeft(LAMBDA s, k : Shift(s), found, [k \in 1 .. m.n + 1 |-> k])
        Kept(s) == [u |-> s.u, v |-> s.v, p |-> [s.p EXCEPT ![s.j] = 0], way |-> s.way]
    IN  Kept(moved)

\* The pairs of the final assignment p, rows to columns, that have a score.
ScoredPairs(p, cs, ps, scores) ==
    LET kept == {j \in DOMAIN ps : p[j] \in DOMAIN cs /\ <<cs[p[j]], ps[j]>> \in DOMAIN scores}
    IN  [q \in {ps[j] : j \in kept} |-> cs[p[CHOOSE j \in kept : ps[j] = q]]]

\* Rows are the canonical speakers cs, columns the provider's ps.
MatchRows(cs, ps, n, top, scores) ==
    LET Weight(i, j) == IF <<cs[i], ps[j]>> \in DOMAIN scores THEN scores[<<cs[i], ps[j]>>] ELSE 0
        cost == Table([ij \in (1 .. n) \X (1 .. n) |->
                    IF ij[1] \in DOMAIN cs /\ ij[2] \in DOMAIN ps
                    THEN Cost(top, Weight(ij[1], ij[2]), n) + (ij[1] - 1) * n + ij[2] - 1
                    ELSE 0])
        zero == [k \in 0 .. n |-> 0]
        m    == [cost |-> cost, n |-> n, infinity |-> Infinity(top, n)]
        end  == FoldLeft(LAMBDA st, i : PlaceRow(st, i, m),
                         [u |-> zero, v |-> zero, p |-> zero, way |-> zero],
                         [i \in 1 .. n |-> i])
    IN  ScoredPairs(end.p, cs, ps, scores)

\* Provider to canonical, on pairs that have a score.
MaximumWeightMatching(scores) ==
    LET cs == InOrder({e[1] : e \in DOMAIN scores})
        ps == InOrder({e[2] : e \in DOMAIN scores})
    IN  IF scores = <<>> THEN <<>>
        ELSE MatchRows(cs, ps, Max({Len(cs), Len(ps)}), Max(Range(scores)), scores)

\* The weight of a matching, and the matchings to compare it with.
WeightOf(m, scores) == MapThenSumSet(LAMBDA q : scores[<<m[q], q>>], DOMAIN m)
Matchings(scores) ==
    UNION {{m \in [Q -> {e[1] : e \in DOMAIN scores}] :
               IsInjective(m) /\ \A q \in Q : <<m[q], q>> \in DOMAIN scores} :
           Q \in SUBSET {e[2] : e \in DOMAIN scores}}

-----------------------------------------------------------------------------
(* match_speakers.                                                          *)

\* Edges with enough overlap: MIN_OVERLAP_SECONDS and MIN_OVERLAP_RATIO.
Accepted(scores, provider) ==
    {e \in DOMAIN scores : /\ scores[e] >= MinOverlap
                           /\ 10 * scores[e] >= 3 * Total(provider[e[2]])}

\* The best edge of provider speaker q: ties go to the lower label.
EdgesOf(q, edges) == {e \in edges : e[2] = q}
BestEdge(q, edges, scores) ==
    CHOOSE e \in EdgesOf(q, edges) :
        \A f \in EdgesOf(q, edges) :
            scores[f] < scores[e] \/ (scores[f] = scores[e] /\ e[1] <= f[1])

\* Fault: no margin is asked for.
TooCloseNever(q, edges, scores) == FALSE

\* The runner-up is within MIN_MARGIN_SECONDS or MIN_MARGIN_RATIO of the best.
TooClose(q, edges, scores) ==
    LET best == BestEdge(q, edges, scores)
    IN  \E f \in EdgesOf(q, edges) \ {best} :
            10 * (scores[best] - scores[f]) < Max({30, 2 * scores[best]})

\* The gap from a provider speaker to a canonical one, and the canonical
\* speakers within the tolerance.
GapBetween(ps, cs) == Min({Gap(ps[ij[1]], cs[ij[2]]) : ij \in PairsOf(ps, cs)})
Near(q, provider, effective) ==
    {c \in DOMAIN effective : /\ PairsOf(provider[q], effective[c]) # {}
                              /\ GapBetween(provider[q], effective[c]) <= GapTolerance}

\* What becomes of provider speaker q, whose nearest canonical speaker is c: it is
\* linked, left ambiguous between two, or left over.
LinkOne(gap, c, q, near, provider, st) ==
    LET torn   == \E d \in near[q] \ {c} :
                      2 * GapBetween(provider[q], st.effective[d]) <= Max({3 * gap, 2 * gap + 10})
        Joins(holder) ==
            IF Disjoint(provider[q], provider[holder]) THEN gap <= MergeGap
            ELSE Total(provider[q]) <= FragmentMax
        Link(evidence) == [st EXCEPT !.matching = Put(@, q, c),
                                     !.evidence = Put(@, q, evidence),
                                     !.effective[c] = @ \o provider[q],
                                     !.pending = @ \ {q}]
        LeftOver == [st EXCEPT !.pending = @ \ {q}]
    IN  IF torn THEN [LeftOver EXCEPT !.ambiguous = @ \cup {q}]
        ELSE IF c \notin DOMAIN st.assigned
             THEN IF gap > ContinuationGap THEN LeftOver
                  ELSE [Link("gap") EXCEPT !.assigned = Put(@, c, q)]
        ELSE IF Joins(st.assigned[c]) THEN Link("merged-fragment")
        ELSE LeftOver

\* One round of the loop over the pending provider speakers takes the nearest one.
LinkNearest(provider, st) ==
    LET near   == Table([q \in st.pending |-> Near(q, provider, st.effective)])
        offers == UNION {{<<GapBetween(provider[q], st.effective[c]), c, q>> : c \in near[q]} :
                         q \in st.pending}
        Before(a, b) == \/ a[1] < b[1]
                        \/ a[1] = b[1] /\ a[2] < b[2]
                        \/ a[1] = b[1] /\ a[2] = b[2] /\ a[3] <= b[3]
        first  == {a \in offers : \A b \in offers : Before(a, b)}
        Take(best) == LinkOne(best[1], best[2], best[3], near, provider, st)
    IN  IF first = {} THEN st ELSE Take(CHOOSE a \in first : TRUE)

\* Best score of q minus the runner-up.
Margin(q, scores) ==
    LET own  == EdgesOf(q, DOMAIN scores)
        best == BestEdge(q, own, scores)
    IN  IF own = {} THEN 0
        ELSE scores[best] - Max({0} \cup {scores[f] : f \in own \ {best}})

\* Links across gaps, from the links by overlap.
LinkGaps(st, provider) ==
    FoldLeft(LAMBDA t, k : LinkNearest(provider, t), st,
             [k \in 1 .. Cardinality(st.pending) |-> k])

ByOverlap(matching, close, canonical, provider) ==
    [matching  |-> matching,
     evidence  |-> [q \in DOMAIN matching |-> "overlap"],
     assigned  |-> [c \in Range(matching) |-> CHOOSE q \in DOMAIN matching : matching[q] = c],
     effective |-> canonical,
     pending   |-> (DOMAIN provider) \ (DOMAIN matching \cup close),
     ambiguous |-> close]

Result(st, scores, provider) ==
    [label     |-> st.matching,
     evidence  |-> st.evidence,
     margin    |-> [q \in DOMAIN st.matching |-> Margin(q, scores)],
     ambiguous |-> st.ambiguous,
     unmatched |-> (DOMAIN provider) \ (DOMAIN st.matching \cup st.ambiguous)]

\* match_speakers with (live) or without (final) links across gaps.
MatchOn(scores, canonical, provider, live) ==
    LET accepted == Accepted(scores, provider)
        close    == {q \in {e[2] : e \in accepted} : TooClose(q, accepted, scores)}
        edges    == {e \in accepted : e[2] \notin close /\ e = BestEdge(e[2], accepted, scores)}
        linked   == ByOverlap(Table(MaximumWeightMatching([e \in edges |-> scores[e]])),
                              close, canonical, provider)
    IN  Result(IF live THEN LinkGaps(linked, provider) ELSE linked, scores, provider)

MatchWindow(canonical, provider, w) ==
    LET clipped(f) == Table([x \in DOMAIN f |-> Clip(f[x], w)])
    IN  MatchOn(Scores(clipped(canonical), clipped(provider)), canonical, provider, TRUE)

MatchFinal(canonical, provider) ==
    MatchOn(Scores(canonical, provider), canonical, provider, FALSE)

-----------------------------------------------------------------------------
(* The final pass: remap_final_speakers, reconcile_final_aliases.           *)

FirstSpeech(spans) == IF spans = <<>> THEN 0 ELSE Min({spans[i][1] : i \in DOMAIN spans})

\* Fault: a live label outside the dense pool is kept.
InPoolAlways(label, total) == TRUE

\* Final labels are Kişi 1 .. Kişi total.
InPool(label, total) == label \in 1 .. total

\* Provider speaker a comes before b, or is b: by first speech, then by place in the
\* dictionary of intervals (sorted is stable).
NotAfter(a, b, provider, place) ==
    \/ FirstSpeech(provider[a]) < FirstSpeech(provider[b])
    \/ FirstSpeech(provider[a]) = FirstSpeech(provider[b]) /\ place[a] <= place[b]

\* `own` are the labels that are kept; the rest get the free labels in order.
FillLabels(own, provider, place) ==
    LET free == (1 .. Cardinality(DOMAIN provider)) \ Range(own)
        rest == (DOMAIN provider) \ DOMAIN own
        Rank(q)  == Cardinality({r \in rest : NotAfter(r, q, provider, place)})
    IN  [q \in DOMAIN provider |-> IF q \in rest THEN InOrder(free)[Rank(q)] ELSE own[q]]

\* remap_final_speakers, on the result of the match.
RemapOn(label, provider, place) ==
    FillLabels(RestrictValues(label, LAMBDA l : InPool(l, Cardinality(DOMAIN provider))),
               provider, place)

\* reconcile_final_aliases: the names of the live labels at the final labels.
ReconcileOn(label, final, aliases) ==
    LET named == {q \in DOMAIN label : label[q] \in DOMAIN aliases}
    IN  [f \in {final[q] : q \in named} |->
             aliases[label[CHOOSE q \in named : final[q] = f]]]

RemapFinal(canonical, provider, place) ==
    RemapOn(MatchFinal(canonical, provider).label, provider, place)

ReconcileAliases(canonical, provider, place, aliases) ==
    ReconcileOn(MatchFinal(canonical, provider).label,
                RemapFinal(canonical, provider, place), aliases)
==============================================================================
