----------------------------- MODULE LiveVoices ------------------------------
(***************************************************************************)
(* LiveSpeakers with the voices of a recording: who says which turn is     *)
(* chosen at the start. The provider hears the turns of a window in any    *)
(* grouping, or, in a faithful talk, as they are spoken, so that only the  *)
(* linking of the windows is left to go wrong.                             *)
(***************************************************************************)
EXTENDS LiveSpeakers

CONSTANT Voices
Nobody == "nobody"   \* a turn that is not spoken

VARIABLES
    voice,     \* the voice of each turn
    shownAs    \* history: pairs <<voice, label>> shown as confirmed

allVars == <<vars, voice, shownAs>>

VoicesInit ==
    /\ Init
    /\ voice \in IF talk.faithful THEN [DOMAIN talk.turns -> Voices \cup {Nobody}]
                 ELSE {[t \in DOMAIN talk.turns |-> Nobody]}
    /\ shownAs = {}

Faithful(g) ==
    talk.faithful => /\ \A t \in DOMAIN g : g[t] = 0 <=> voice[t] = Nobody
                     /\ \A t, u \in DOMAIN g : g[t] = g[u] <=> voice[t] = voice[u]

\* The voices of cluster q of grouping g that speak in the stable part of window n.
StableVoices(g, q, n) ==
    {voice[t] : t \in {u \in DOMAIN g : /\ g[u] = q
                                        /\ Overlap(talk.turns[u], StablePart(n)) > 0}}

\* The voices that the answer to window n, heard as g, shows under confirmed labels.
Shows(g, n) ==
    /\ shownAs' = IF talk.faithful
                  THEN shownAs \cup UNION {{<<v, p[2]>> : v \in StableVoices(g, p[1], n)} :
                                         p \in {r \in shown' : r[1] # 0}}
                  ELSE shownAs
    /\ UNCHANGED voice

HearNext ==
    /\ sequence < talk.windows
    /\ \E g \in Groupings[talk][sequence + 1] :
           Faithful(g) /\ ApplyNext(g) /\ Shows(g, sequence + 1)

HearAgain ==
    /\ sequence > 0
    /\ repeats < talk.repeats
    /\ \E g \in Groupings[talk][sequence] :
           Faithful(g) /\ ApplyAgain(g) /\ Shows(g, sequence)

Next == HearNext \/ HearAgain

Spec == VoicesInit /\ [][Next]_allVars

-----------------------------------------------------------------------------
\* A label never changes hands: as long as the breaks between turns are longer
\* than the gap tolerance, the speech confirmed under one label is of one voice,
\* whoever falls silent or comes back in the meantime (apply_window).
PureLabels == \A a, b \in shownAs : a[2] = b[2] => a[1] = b[1]

\* No new speaker is made in a window that starts a horizon after a confirmed
\* speaker was last heard, unless that one is heard again (_may_promote). The
\* horizon counts to the start of the window: the new speech may be up to two
\* horizons away from the old.
NoNewSpeakerInSilence ==
    [][\A l \in confirmed :
           (DOMAIN speakers' # DOMAIN speakers /\ speakers[l] # <<>>) =>
               \/ Window(sequence')[1] - LatestEnd(speakers[l]) <= Horizon
               \/ l \in DOMAIN snapshot']_allVars
==============================================================================
