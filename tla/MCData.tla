------------------------------- MODULE MCData --------------------------------
(* An instance of MeetingChat, and with it of MeetingFiles, for TLC: two      *)
(* recordings and a comparison that may be of either of them.                 *)
EXTENDS MeetingChat, TLC

CONSTANTS r1, r2, c1, d1, d2, q1, q2, x, y, z

MCRaw == {<<1, 0, 2, 1>>}
MCTranscripts == {<<x, y>>, <<z>>}
\* One failure at a time: a crash or a file that cannot be removed.
OneFailure == crashes + Cardinality(Stuck) <= 1
Symmetry == Permutations({r1, r2}) \cup Permutations({d1, d2}) \cup Permutations({q1, q2})
==============================================================================
