------------------------------- MODULE MCLive --------------------------------
(* Three recordings for TLC. In the first the provider hears anything: one    *)
(* turn of talk in each step of four seconds, after breaks of 0.2, 1.5 and    *)
(* 2.5 seconds in turn, on either side of the thresholds of 0.3 and 2         *)
(* seconds. In the second it tells the voices apart: seven short turns with   *)
(* breaks of 2.5 seconds, more than the gap tolerance of a match. In the      *)
(* third somebody speaks, is silent beyond the horizon, and then the provider *)
(* hears anything in three more turns.                                        *)
EXTENDS LiveVoices

MCTalks ==
    {[turns |-> <<<<0, 37>>, <<39, 75>>, <<90, 120>>, <<145, 159>>, <<161, 190>>, <<205, 240>>>>,
      maxSpeakers |-> 2, maxIntervals |-> 4, windows |-> 4, repeats |-> 1, faithful |-> FALSE],
     [turns |-> [t \in 1 .. 7 |-> <<40 * (t - 1), 40 * (t - 1) + 15>>],
      maxSpeakers |-> 3, maxIntervals |-> 20, windows |-> 7, repeats |-> 1, faithful |-> TRUE],
     [turns |-> <<<<0, 37>>, <<245, 275>>, <<285, 310>>, <<325, 350>>>>,
      maxSpeakers |-> 3, maxIntervals |-> 20, windows |-> 8, repeats |-> 1, faithful |-> FALSE]}
==============================================================================
