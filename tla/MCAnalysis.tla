----------------------------- MODULE MCAnalysis ------------------------------
(* Instances of AnalysisRun for TLC: three turns, one of them unresolved; the *)
(* answers are one valid analysis for each text, and one for each mistake.    *)
EXTENDS AnalysisRun

CONSTANTS K1, K2, K0, Ali, Ece

MCTurns == <<K1, K0, K2, K1>>

Item(t, src, o) == [text |-> t, sources |-> src, owner |-> o]
MCAnswers ==
    {Unparsable}
    \cup {[summary |-> Blank, items |-> {}]}
    \cup {[summary |-> K2, items |-> {Item(t, {0, 2}, o)}] : t \in {K1, Ali}, o \in {K2, NoOne}}
    \cup {[summary |-> Plain, items |-> {Item(K2, {1}, NoOne), i}] :
              i \in {Item(Blank, {1}, K1), Item(K1, {}, K1), Item(K1, {3, 4}, NoOne),
                     Item(K1, {-1}, NoOne), Item(K2, {0}, K0), Item(K2, {0}, Ali)}}

Fast == "deepseek-v4-flash"
Free == "deepseek-v4-flash-free"
MCModelNames == {Fast, Free, "m"}
Setting(f, o, oc) == [primary |-> Fast, fallback |-> f, others |-> o, opencode |-> oc]
MCSettings == {Setting(NoOne, <<>>, FALSE), Setting(Free, <<"m", Fast>>, TRUE)}
==============================================================================
