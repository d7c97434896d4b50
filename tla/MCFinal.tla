------------------------------- MODULE MCFinal -------------------------------
(* Instances of FinalSpeakers for TLC. The words are two short ones, a long   *)
(* one and a middling one, so that weak and strong evidence meet; one of the  *)
(* timelines has its span committed by two windows.                           *)
EXTENDS FinalSpeakers

MCWordSpans == <<<<0, 5>>, <<20, 28>>, <<40, 120>>, <<130, 150>>>>
MCTimelines == {<<<<40, 120>>>>, <<<<20, 90>>, <<40, 90>>>>, <<<<90, 150>>>>}
==============================================================================
