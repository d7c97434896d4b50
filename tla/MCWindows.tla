------------------------------ MODULE MCWindows ------------------------------
(* Instances of LiveWindows for TLC: recordings of six steps, so that a      *)
(* window can fail twice and others still follow.                             *)
EXTENDS LiveWindows
==============================================================================
