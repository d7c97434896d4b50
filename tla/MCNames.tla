------------------------------- MODULE MCNames -------------------------------
(* An instance of SpeakerNames for TLC: one recording that is uploaded and    *)
(* two whose tabs are closed, which only compete for places in the store.     *)
EXTENDS SpeakerNames, TLC

CONSTANTS r1, r2, r3, l1, a

Voices == [r \in {r1, r2, r3} |-> IF r = r1 THEN {l1} ELSE {}]

Symmetry == Permutations({r2, r3})
==============================================================================
