------------------------------- MODULE MCJobs -------------------------------
(* Instances of MeetingJobs for TLC: two worker processes with one slot     *)
(* each, which is the default concurrency.                                  *)
EXTENDS MeetingJobs, TLC

CONSTANTS s1, s2, p1, p2

TwoProcesses == (s1 :> p1) @@ (s2 :> p2)
OneProcess   == (s1 :> p1) @@ (s2 :> p1)
==============================================================================
