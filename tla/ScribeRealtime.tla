--------------------------- MODULE ScribeRealtime ----------------------------
(***************************************************************************)
(* The realtime transcript client of the browser (lib/scribe-realtime.ts): *)
(* a web socket that is opened with a fresh token for every attempt and    *)
(* opened again a bounded number of times when it drops.                   *)
(*                                                                         *)
(* `socket` is the client of the live pipeline the panel started last. Its *)
(* messages are text and left out.                                         *)
(***************************************************************************)
EXTENDS MeetingApi

MaxReconnects == 2

\* at: idle    before open()
\*     token   connect() waits for a token
\*     shaking the socket has been made and is not open yet
\*     open    connected
\*     waiting the timer of the next attempt runs
\*     failed  given up
\*     closed  closed by the panel
\* `ended` is closedByUser.
VARIABLE socket

NewSocket == [at |-> "idle", tries |-> 0, ended |-> FALSE]

\* The client holds a connection or is about to make one.
Busy(s) == s.at \in {"token", "shaking", "open", "waiting"} /\ ~(s.at = "token" /\ s.ended)

\* open(): what an earlier close() said is forgotten.
Opened(s) == [at |-> "token", tries |-> 0, ended |-> FALSE]

\* Fault: a token that is on its way opens the socket after close().
ClosedIfMade(s) == [s EXCEPT !.at = IF @ = "token" THEN @ ELSE "closed"]

\* close(): a socket is closed at once, a timer finds the client closed, a token that
\* is on its way is dropped when it comes.
Closed(s) == [s EXCEPT !.ended = TRUE, !.at = IF @ = "token" THEN @ ELSE "closed"]

TokenArrives ==
    /\ socket.at = "token"
    /\ socket' = [socket EXCEPT !.at = IF socket.ended THEN "closed" ELSE "shaking"]
    /\ UNCHANGED faults

\* No token, no further attempt (the catch of connect).
TokenFails ==
    /\ socket.at = "token"
    /\ Fault
    /\ socket' = [socket EXCEPT !.at = IF socket.ended THEN "closed" ELSE "failed"]

Connects ==
    /\ socket.at = "shaking"
    /\ socket' = [socket EXCEPT !.at = "open", !.tries = 0]
    /\ UNCHANGED faults

\* onclose of a socket nobody closed.
Drops ==
    /\ socket.at \in {"shaking", "open"}
    /\ Fault
    /\ socket' = IF socket.tries < MaxReconnects
                 THEN [socket EXCEPT !.at = "waiting", !.tries = @ + 1]
                 ELSE [socket EXCEPT !.at = "failed"]

\* The timer calls connect().
Reconnects ==
    /\ socket.at = "waiting"
    /\ socket' = [socket EXCEPT !.at = "token"]
    /\ UNCHANGED faults

SocketStep == TokenArrives \/ TokenFails \/ Connects \/ Drops \/ Reconnects
==============================================================================
