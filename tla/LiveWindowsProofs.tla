-------------------------- MODULE LiveWindowsProofs --------------------------
(* What holds of the live windows for recordings of every length and for any *)
(* number of failures.                                                       *)
EXTENDS LiveWindows, SequenceTheorems, TLAPS

USE DEF FirstAttempt, MaxWindowRetries

-----------------------------------------------------------------------------
(* Type correctness, with the pace at which the tracker makes requests.     *)

\* The number of a window follows from its end; a window in flight has been heard; two
\* requests at most have been made for each window so far.
Pace ==
    /\ seq = attempt - 1
    /\ waiting # 0 => attempt <= heard
    /\ Len(requests) <= 2 * (attempt - 2) + failures + (IF waiting = 0 /\ ~stopped THEN 0 ELSE 1)

PaceInv == TypeOK /\ Pace

LEMMA Bounds ==
    /\ MaxSteps \in Nat \ {0} /\ MaxProviderFaults \in Nat /\ MaxCuts \in Nat
    /\ CutsWhileHandled \in BOOLEAN
BY WindowsAssumption

LEMMA PaceInit == Init => PaceInv
<1> SUFFICES ASSUME Init PROVE PaceInv
  OBVIOUS
<1>1. heard \in 0 .. MaxSteps /\ attempt \in Windows /\ seq \in 1 .. MaxSteps + 1
  BY Bounds DEF Init, Windows
<1>2. /\ requests \in Seq(Sendings) /\ labelled \in Seq(Windows) /\ Len(requests) = 0
      /\ applied \in Seq(1 .. Len(requests))
  BY DEF Init
<1>3. faults \in [provider : 0 .. MaxProviderFaults, cut : 0 .. MaxCuts]
  BY Bounds DEF Init
<1>4. /\ failures \in 0 .. MaxWindowRetries - 1 /\ timer = FALSE /\ stopped = FALSE
      /\ waiting = 0 /\ Len(requests) <= MaxRequests /\ expected \in 1 .. MaxSteps + 1
  BY <1>2, Bounds DEF Init, MaxRequests
<1>5. TypeOK
  BY <1>1, <1>2, <1>3, <1>4 DEF TypeOK
<1>6. Pace
  BY <1>2 DEF Init, Pace
<1> QED
  BY <1>5, <1>6 DEF PaceInv

\* What SendNext does when the number follows from the window.
LEMMA Sends ==
    ASSUME requests \in Seq(Sendings), NEW h \in 0 .. MaxSteps, NEW a \in Nat, a >= 2,
           SendNext(h, a, a - 1)
    PROVE  /\ requests' \in Seq(Sendings)
           /\ waiting' \in {0, Len(requests')}
           /\ waiting' # 0 => a <= h
           /\ Len(requests') = Len(requests) + (IF waiting' = 0 THEN 0 ELSE 1)
           /\ \A i \in 1 .. Len(requests) : requests'[i] = requests[i]
           /\ waiting' # 0 => requests'[waiting'] =
                                 [seq |-> a - 1, end |-> a, at |-> "sent", cut |-> FALSE]
<1>1. CASE h >= a
  <2> DEFINE r == [seq |-> a - 1, end |-> a, at |-> "sent", cut |-> FALSE]
  <2>1. requests' = Append(requests, r) /\ waiting' = Len(requests) + 1
    BY <1>1 DEF SendNext
  <2>2. r \in Sendings
    BY <1>1, Bounds DEF Sendings, Windows, Places
  <2> QED
    BY <1>1, <2>1, <2>2
<1>2. CASE ~(h >= a)
  BY <1>2 DEF SendNext
<1> QED
  BY <1>1, <1>2

\* A step of the server changes one request, and not its number nor its window.
LEMMA Moves ==
    ASSUME requests \in Seq(Sendings), NEW i \in 1 .. Len(requests), NEW place \in Places,
           NEW c \in BOOLEAN, requests' = [requests EXCEPT ![i].cut = c, ![i].at = place]
    PROVE  /\ requests' \in Seq(Sendings) /\ Len(requests') = Len(requests)
           /\ requests'[i] = [requests[i] EXCEPT !.cut = c, !.at = place]
           /\ \A k \in 1 .. Len(requests) : k # i => requests'[k] = requests[k]
<1> DEFINE e == [requests[i] EXCEPT !.cut = c, !.at = place]
<1>1. requests[i] \in Sendings
  BY ElementOfSeq
<1>2. e \in Sendings
  BY <1>1 DEF Sendings
<1>3. requests' = [requests EXCEPT ![i] = e]
  OBVIOUS
<1> HIDE DEF e
<1>4. /\ [requests EXCEPT ![i] = e] \in Seq(Sendings)
      /\ Len([requests EXCEPT ![i] = e]) = Len(requests)
      /\ \A k \in 1 .. Len(requests) :
            [requests EXCEPT ![i] = e][k] = IF k = i THEN e ELSE requests[k]
  BY <1>2, ExceptSeq
<1>5. /\ requests' \in Seq(Sendings) /\ Len(requests') = Len(requests)
      /\ requests'[i] = e
      /\ \A k \in 1 .. Len(requests) : k # i => requests'[k] = requests[k]
  BY <1>3, <1>4
<1> QED
  BY <1>5 DEF e

LEMMA Wider ==
    ASSUME NEW m \in Nat, NEW n \in Nat, m <= n, NEW s \in Seq(1 .. m)
    PROVE  s \in Seq(1 .. n)
OBVIOUS

\* The types and bounds a step reads.
LEMMA Typed ==
    ASSUME PaceInv
    PROVE  /\ heard \in 0 .. MaxSteps /\ attempt \in Windows /\ attempt \in Nat /\ attempt >= 2
           /\ seq = attempt - 1 /\ failures \in {0, 1} /\ stopped \in BOOLEAN /\ timer \in BOOLEAN
           /\ requests \in Seq(Sendings) /\ Len(requests) \in Nat
           /\ (waiting = 0 /\ ~stopped) => Len(requests) <= 2 * (attempt - 2) + failures
           /\ Len(requests) <= 2 * (attempt - 2) + failures + 1
           /\ waiting # 0 => attempt <= heard /\ waiting = Len(requests)
<1>1. /\ heard \in 0 .. MaxSteps /\ attempt \in Windows /\ attempt \in Nat /\ attempt >= 2
      /\ failures \in {0, 1} /\ stopped \in BOOLEAN /\ timer \in BOOLEAN
      /\ requests \in Seq(Sendings) /\ Len(requests) \in Nat /\ waiting \in {0, Len(requests)}
  BY DEF PaceInv, TypeOK, Windows
<1>2. CASE waiting = 0 /\ ~stopped
  BY <1>1, <1>2 DEF PaceInv, Pace
<1>3. CASE ~(waiting = 0 /\ ~stopped)
  BY <1>1, <1>3 DEF PaceInv, Pace
<1> QED
  BY <1>1, <1>2, <1>3

\* A step of the tracker that ends with SendNext for window a.
LEMMA SendKeeps ==
    ASSUME PaceInv, NEW h \in 0 .. MaxSteps, NEW a \in Windows, SendNext(h, a, a - 1),
           heard' = h, heard <= h, attempt' = a, seq' = a - 1,
           failures' \in 0 .. MaxWindowRetries - 1, timer' \in BOOLEAN, ~timer', stopped' \in BOOLEAN,
           labelled' \in Seq(Windows), UNCHANGED <<serverVars, faults>>,
           Len(requests) <= 2 * (a - 2) + failures'
    PROVE  PaceInv'
<1> USE Bounds
<1>1. requests \in Seq(Sendings) /\ Len(requests) \in Nat /\ a \in Nat /\ a >= 2
  BY DEF PaceInv, TypeOK, Windows
<1>2. /\ requests' \in Seq(Sendings) /\ Len(requests') \in Nat
      /\ waiting' \in {0, Len(requests')}
      /\ waiting' # 0 => a <= h
      /\ waiting' = 0 => Len(requests') = Len(requests)
      /\ waiting' # 0 => Len(requests') = Len(requests) + 1
      /\ Len(requests) <= Len(requests')
  <2>1. /\ requests' \in Seq(Sendings)
        /\ waiting' \in {0, Len(requests')}
        /\ waiting' # 0 => a <= h
        /\ Len(requests') = Len(requests) + (IF waiting' = 0 THEN 0 ELSE 1)
    BY <1>1, Sends
  <2> QED
    BY <1>1, <2>1
<1>3. Pace'
  BY <1>1, <1>2 DEF Pace
<1>4. Len(requests') <= MaxRequests
  <2>1. CASE waiting' = 0
    BY <1>1, <1>2, <2>1 DEF Windows, MaxRequests
  <2>2. CASE waiting' # 0
    BY <1>1, <1>2, <2>2 DEF Windows, MaxRequests
  <2> QED
    BY <2>1, <2>2
<1>5. applied' \in Seq(1 .. Len(requests'))
  BY <1>1, <1>2, Wider DEF PaceInv, TypeOK, serverVars
<1>6. a - 1 \in 1 .. MaxSteps + 1
  BY DEF Windows
<1>7. TypeOK'
  BY <1>2, <1>4, <1>5, <1>6 DEF PaceInv, TypeOK, serverVars
<1> QED
  BY <1>3, <1>7 DEF PaceInv

LEMMA PushKeeps == ASSUME PaceInv, Push PROVE PaceInv'
<1> USE Bounds, Typed
<1>1. heard + 1 \in 0 .. MaxSteps /\ heard' = heard + 1 /\ heard <= heard + 1
  BY DEF Push
<1>2. CASE waiting = 0 /\ ~timer
  <2>1. SendNext(heard + 1, attempt, attempt - 1)
    BY <1>2 DEF Push
  <2>2. /\ attempt' = attempt /\ seq' = attempt - 1 /\ failures' \in 0 .. MaxWindowRetries - 1
        /\ timer' \in BOOLEAN /\ ~timer' /\ stopped' \in BOOLEAN /\ labelled' \in Seq(Windows)
        /\ UNCHANGED <<serverVars, faults>>
        /\ Len(requests) <= 2 * (attempt - 2) + failures'
    BY <1>2 DEF Push, PaceInv, TypeOK
  <2> QED
    BY <1>1, <2>1, <2>2, SendKeeps
<1>3. CASE ~(waiting = 0 /\ ~timer)
  <2>1. /\ UNCHANGED <<waiting, requests, attempt, seq, failures, timer, stopped, labelled,
                       expected, applied, faults>>
    BY <1>3 DEF Push, serverVars
  <2>2. TypeOK'
    BY <1>1, <2>1 DEF PaceInv, TypeOK
  <2>3. Pace'
    BY <1>1, <2>1 DEF PaceInv, Pace
  <2> QED
    BY <2>2, <2>3 DEF PaceInv
<1> QED
  BY <1>2, <1>3

LEMMA SuccessKeeps == ASSUME PaceInv, Success PROVE PaceInv'
<1> USE Bounds, Typed
<1>1. waiting # 0 /\ attempt + 1 \in Windows /\ seq + 1 = (attempt + 1) - 1
  BY SMTT(40) DEF Success, Windows
<1>2. SendNext(heard, attempt + 1, (attempt + 1) - 1)
  BY <1>1 DEF Success
<1>3. labelled' \in Seq(Windows)
  <2>1. requests[waiting] \in Sendings
    BY <1>1, ElementOfSeq
  <2>2. requests[waiting].end \in Windows /\ labelled \in Seq(Windows)
    BY <2>1 DEF PaceInv, TypeOK, Sendings
  <2> QED
    BY <2>2, AppendProperties DEF Success
<1>4. /\ heard' = heard /\ heard <= heard /\ attempt' = attempt + 1 /\ seq' = (attempt + 1) - 1
      /\ failures' \in 0 .. MaxWindowRetries - 1
      /\ UNCHANGED <<serverVars, faults>>
      /\ Len(requests) <= 2 * ((attempt + 1) - 2) + failures'
  BY <1>1 DEF Success
<1>5. timer' \in BOOLEAN /\ ~timer' /\ stopped' \in BOOLEAN
  BY <1>1 DEF Success, PaceInv, TypeOK
<1> QED
  BY <1>1, <1>2, <1>3, <1>4, <1>5, SendKeeps

LEMMA FailureKeeps == ASSUME PaceInv, Failure PROVE PaceInv'
<1> USE Bounds, Typed
<1>1. waiting # 0 /\ ~timer /\ labelled' \in Seq(Windows)
  BY DEF Failure, PaceInv, TypeOK
<1>2. CASE GivesUp
  <2>1. attempt + 1 \in Windows /\ seq + 1 = (attempt + 1) - 1
    BY <1>1, SMTT(40) DEF Windows
  <2>2. SendNext(heard, attempt + 1, (attempt + 1) - 1)
    BY <1>2, <2>1 DEF Failure
  <2>3. /\ heard' = heard /\ heard <= heard /\ attempt' = attempt + 1 /\ seq' = (attempt + 1) - 1
        /\ failures' \in 0 .. MaxWindowRetries - 1
        /\ timer' \in BOOLEAN /\ ~timer' /\ stopped' \in BOOLEAN
        /\ UNCHANGED <<serverVars, faults>>
        /\ Len(requests) <= 2 * ((attempt + 1) - 2) + failures'
    BY <1>1, <1>2, <2>1 DEF Failure
  <2> QED
    BY <1>1, <2>1, <2>2, <2>3, SendKeeps
<1>3. CASE ~GivesUp
  <2>1. /\ failures = 0 /\ failures' = 1 /\ timer' = TRUE /\ waiting' = 0
        /\ UNCHANGED <<heard, seq, attempt, requests, stopped, labelled, expected, applied, faults>>
    BY <1>3 DEF Failure, GivesUp, serverVars
  <2>2. TypeOK'
    BY <1>1, <2>1 DEF PaceInv, TypeOK
  <2>3. Pace'
    BY <1>1, <2>1 DEF Pace
  <2> QED
    BY <2>2, <2>3 DEF PaceInv
<1> QED
  BY <1>2, <1>3

LEMMA RetryKeeps == ASSUME PaceInv, Retry PROVE PaceInv'
<1> USE Bounds, Typed
<1>1. waiting = 0
  BY DEF Retry, PaceInv, TypeOK
<1>2. SendNext(heard, attempt, attempt - 1)
  BY DEF Retry
<1>3. /\ heard' = heard /\ heard <= heard /\ attempt' = attempt /\ seq' = attempt - 1
      /\ failures' \in 0 .. MaxWindowRetries - 1
      /\ UNCHANGED <<serverVars, faults>>
      /\ Len(requests) <= 2 * (attempt - 2) + failures'
  BY <1>1 DEF Retry
<1>4. timer' \in BOOLEAN /\ ~timer' /\ stopped' \in BOOLEAN /\ labelled' \in Seq(Windows)
  BY DEF Retry, PaceInv, TypeOK
<1> QED
  BY <1>2, <1>3, <1>4, SendKeeps

\* A step that leaves the tracker and the number of requests alone.
LEMMA ServerKeeps ==
    ASSUME PaceInv, requests' \in Seq(Sendings), Len(requests') = Len(requests),
           UNCHANGED <<heard, trackerVars>>, expected' \in 1 .. MaxSteps + 1,
           applied' \in Seq(1 .. Len(requests)),
           faults' \in [provider : 0 .. MaxProviderFaults, cut : 0 .. MaxCuts]
    PROVE  PaceInv'
<1>1. Pace'
  BY DEF PaceInv, Pace, trackerVars
<1>2. TypeOK'
  BY DEF PaceInv, TypeOK, trackerVars
<1> QED
  BY <1>1, <1>2 DEF PaceInv

LEMMA HandlerKeeps ==
    ASSUME PaceInv, NEW i \in 1 .. Len(requests), Arrive(i) \/ Apply(i) \/ ProviderFails(i) \/ Cut(i)
    PROVE  PaceInv'
<1> USE Bounds, Typed
<1>1. requests[i] \in Sendings
  BY ElementOfSeq
<1>2. /\ expected \in 1 .. MaxSteps + 1 /\ applied \in Seq(1 .. Len(requests))
      /\ faults \in [provider : 0 .. MaxProviderFaults, cut : 0 .. MaxCuts]
  BY DEF PaceInv, TypeOK
<1>3. ASSUME NEW place \in Places, Place(i, place)
      PROVE  requests' \in Seq(Sendings) /\ Len(requests') = Len(requests)
  <2> DEFINE e == [requests[i] EXCEPT !.at = place]
  <2>1. e \in Sendings
    BY <1>1 DEF Sendings
  <2>2. requests' = [requests EXCEPT ![i] = e]
    BY <1>3 DEF Place
  <2> QED
    BY <2>1, <2>2, ExceptSeq
<1>4. CASE Arrive(i)
  <2>1. Place(i, "diarizing") \/ Place(i, "refused")
    BY <1>4 DEF Arrive
  <2> QED
    BY <1>2, <1>3, <1>4, <2>1, ServerKeeps DEF Arrive, Places, serverVars
<1>5. CASE Apply(i)
  <2>0. requests[i].seq \in 1 .. MaxSteps
    BY <1>1 DEF Sendings
  <2>1. expected' \in 1 .. MaxSteps + 1
    BY <2>0, <1>5, SMTT(40) DEF Apply
  <2>2. applied' \in Seq(1 .. Len(requests))
    BY <1>2, <1>5, AppendProperties DEF Apply
  <2> QED
    BY <1>2, <1>3, <1>5, <2>1, <2>2, ServerKeeps DEF Apply, Places
<1>6. CASE ProviderFails(i)
  <2>1. faults.provider + 1 \in 0 .. MaxProviderFaults
    BY <1>2, <1>6, SMTT(40) DEF ProviderFails
  <2>2. faults' \in [provider : 0 .. MaxProviderFaults, cut : 0 .. MaxCuts]
    BY <1>2, <1>6, <2>1 DEF ProviderFails
  <2> QED
    BY <1>2, <1>3, <1>6, <2>2, ServerKeeps DEF ProviderFails, Places, serverVars
<1>7. CASE Cut(i)
  <2>0. faults.cut + 1 \in 0 .. MaxCuts
    BY <1>2, <1>7, SMTT(40) DEF Cut
  <2>1. faults' \in [provider : 0 .. MaxProviderFaults, cut : 0 .. MaxCuts]
    BY <1>2, <1>7, <2>0 DEF Cut
  <2>2. PICK place \in {requests[i].at} \cup (IF requests[i].at = "sent" THEN {"refused"} ELSE {}) :
            requests' = [requests EXCEPT ![i].cut = TRUE, ![i].at = place]
    BY <1>7 DEF Cut
  <2>3. place \in Places
    BY <1>1, <2>2 DEF Sendings, Places
  <2>4. requests' \in Seq(Sendings) /\ Len(requests') = Len(requests)
    BY <2>2, <2>3, Moves
  <2> QED
    BY <1>2, <1>7, <2>1, <2>4, ServerKeeps DEF Cut, serverVars
<1> QED
  BY <1>4, <1>5, <1>6, <1>7

LEMMA PaceNext == PaceInv /\ [Next]_vars => PaceInv'
<1> SUFFICES ASSUME PaceInv, [Next]_vars PROVE PaceInv'
  OBVIOUS
<1>1. CASE Tracker
  <2>1. CASE LateAnswer
    <3>1. /\ waiting' = 0
          /\ UNCHANGED <<heard, attempt, seq, failures, timer, stopped, labelled, requests,
                         expected, applied, faults>>
      BY <2>1 DEF LateAnswer, serverVars
    <3>2. TypeOK'
      BY <3>1 DEF PaceInv, TypeOK
    <3>3. stopped
      BY <2>1 DEF LateAnswer
    <3>4. Pace'
      BY <3>1, <3>3, Typed DEF Pace
    <3> QED
      BY <3>2, <3>4 DEF PaceInv
  <2> QED
    BY <1>1, <2>1, PushKeeps, SuccessKeeps, FailureKeeps, RetryKeeps DEF Tracker
<1>2. CASE Stop
  <2>1. /\ stopped' = TRUE /\ timer' = FALSE
        /\ UNCHANGED <<heard, attempt, seq, failures, waiting, labelled, requests, expected,
                       applied, faults>>
    BY <1>2 DEF Stop, serverVars
  <2>2. TypeOK'
    BY <2>1 DEF PaceInv, TypeOK
  <2>3. Pace'
    BY <2>1, Typed DEF Pace
  <2> QED
    BY <2>2, <2>3 DEF PaceInv
<1>3. ASSUME NEW i \in 1 .. Len(requests), Handle(i) \/ ProviderFails(i) \/ Cut(i)
      PROVE  PaceInv'
  BY <1>3, HandlerKeeps DEF Handle
<1>4. CASE UNCHANGED vars
  <2>1. UNCHANGED <<heard, attempt, seq, failures, timer, waiting, stopped, labelled, requests,
                    expected, applied, faults>>
    BY <1>4 DEF vars, trackerVars, serverVars
  <2>2. TypeOK'
    BY <2>1 DEF PaceInv, TypeOK
  <2>3. Pace'
    BY <2>1 DEF PaceInv, Pace
  <2> QED
    BY <2>2, <2>3 DEF PaceInv
<1> QED
  BY <1>1, <1>2, <1>3, <1>4 DEF Next

\* Type correctness, for recordings of every length and any number of failures; the
\* tracker never makes more than two requests for a window.
THEOREM TypeCorrect == Spec => []TypeOK
<1>1. PaceInv => TypeOK
  BY DEF PaceInv
<1> QED
  BY <1>1, PaceInit, PaceNext, PTL DEF Spec

-----------------------------------------------------------------------------
(* The order of the windows, when every connection lasts until its handler  *)
(* is done.                                                                 *)

\* Every request carries the number of its window; the ones the tracker does not wait
\* for any more have been answered, and so have those that were cut off.
Orderly ==
    \A i \in 1 .. Len(requests) :
        /\ requests[i].end = requests[i].seq + 1
        /\ i # waiting => Answered(i)
        /\ requests[i].cut => Answered(i)

\* The window being diarized is the one the session expects; the applied windows are
\* numbered without a gap, and what has been done has been applied.
Counted ==
    /\ expected = Len(applied) + 1
    /\ \A i \in 1 .. Len(requests) :
          /\ requests[i].at = "diarizing" => requests[i].seq = expected
          /\ requests[i].at = "done" => \E j \in 1 .. Len(applied) : applied[j] = i
    /\ \A j \in 1 .. Len(applied) : requests[applied[j]].seq = j

Labelled ==
    \A w \in 1 .. Len(labelled) :
        \E j \in 1 .. Len(applied) : requests[applied[j]].end = labelled[w]

OrderInv == PaceInv /\ Orderly /\ Counted /\ Labelled

LEMMA AppliedTyped ==
    ASSUME PaceInv
    PROVE  /\ applied \in Seq(1 .. Len(requests)) /\ Len(applied) \in Nat
           /\ \A j \in 1 .. Len(applied) : applied[j] \in 1 .. Len(requests)
           /\ labelled \in Seq(Windows) /\ Len(labelled) \in Nat
           /\ \A i \in 1 .. Len(requests) : requests[i] \in Sendings
<1>1. /\ applied \in Seq(1 .. Len(requests)) /\ labelled \in Seq(Windows)
      /\ requests \in Seq(Sendings)
  BY DEF PaceInv, TypeOK
<1> QED
  BY <1>1, ElementOfSeq

LEMMA OrderInit == Init => OrderInv
<1> SUFFICES ASSUME Init PROVE OrderInv
  OBVIOUS
<1>1. Orderly /\ Counted /\ Labelled
  BY DEF Init, Orderly, Counted, Labelled
<1> QED
  BY <1>1, PaceInit DEF OrderInv

\* When all requests have been answered, the next one may go out.
LEMMA SendOrder ==
    ASSUME OrderInv, \A i \in 1 .. Len(requests) : Answered(i),
           NEW h \in 0 .. MaxSteps, NEW a \in Nat, a >= 2, SendNext(h, a, a - 1),
           UNCHANGED serverVars
    PROVE  /\ Orderly' /\ Counted' /\ (UNCHANGED labelled => Labelled')
           /\ \A j \in 1 .. Len(applied) : requests'[applied[j]] = requests[applied[j]]
<1>1. /\ requests' \in Seq(Sendings) /\ Len(requests) \in Nat
      /\ waiting' \in {0, Len(requests')}
      /\ Len(requests') = Len(requests) + (IF waiting' = 0 THEN 0 ELSE 1)
      /\ \A i \in 1 .. Len(requests) : requests'[i] = requests[i]
      /\ waiting' # 0 => requests'[waiting'] =
                            [seq |-> a - 1, end |-> a, at |-> "sent", cut |-> FALSE]
  BY Sends, Typed DEF OrderInv
<1>2. \A i \in 1 .. Len(requests') :
         i \in 1 .. Len(requests) \/ (i = waiting' /\ waiting' # 0)
  BY <1>1
<1>3. \A i \in 1 .. Len(requests) : Answered(i)'
  BY <1>1 DEF Answered
<1>4. Orderly'
  <2>1. ASSUME NEW i \in 1 .. Len(requests)
        PROVE  requests'[i].end = requests'[i].seq + 1 /\ Answered(i)'
    BY <1>1, <1>3 DEF OrderInv, Orderly
  <2>2. ASSUME NEW i \in 1 .. Len(requests'), i = waiting', waiting' # 0
        PROVE  requests'[i].end = requests'[i].seq + 1 /\ ~requests'[i].cut
    BY <1>1, <2>2
  <2> QED
    BY <1>2, <2>1, <2>2 DEF Orderly
<1>5. /\ expected' = expected /\ applied' = applied
      /\ \A j \in 1 .. Len(applied) : requests'[applied[j]] = requests[applied[j]]
  BY <1>1, AppliedTyped DEF OrderInv, serverVars
<1>6. Counted'
  <2>1. ASSUME NEW i \in 1 .. Len(requests')
        PROVE  /\ requests'[i].at = "diarizing" => requests'[i].seq = expected
               /\ requests'[i].at = "done" => \E j \in 1 .. Len(applied) : applied[j] = i
    BY <1>1, <1>2, <2>1 DEF OrderInv, Counted
  <2>2. /\ expected = Len(applied) + 1
        /\ \A j \in 1 .. Len(applied) : requests'[applied[j]].seq = j
    BY <1>5 DEF OrderInv, Counted
  <2> QED
    BY <1>5, <2>1, <2>2 DEF Counted
<1>7. UNCHANGED labelled => Labelled'
  BY <1>5 DEF OrderInv, Labelled
<1> QED
  BY <1>4, <1>5, <1>6, <1>7

\* Steps that change neither the requests nor the session.
LEMMA QuietOrder ==
    ASSUME OrderInv, UNCHANGED <<requests, serverVars, labelled>>,
           waiting' = waiting \/ \A i \in 1 .. Len(requests) : Answered(i)
    PROVE  Orderly' /\ Counted' /\ Labelled'
<1>1. requests' = requests /\ expected' = expected /\ applied' = applied /\ labelled' = labelled
  BY DEF serverVars
<1>2. Orderly'
  BY <1>1 DEF OrderInv, Orderly, Answered
<1>3. Counted' /\ Labelled'
  BY <1>1 DEF OrderInv, Counted, Labelled
<1> QED
  BY <1>2, <1>3

LEMMA TrackerOrder ==
    ASSUME OrderInv, Tracker \/ Stop
    PROVE  Orderly' /\ Counted' /\ Labelled'
<1> USE Typed DEF OrderInv
<1>1. Rejected(waiting) \/ (waiting # 0 /\ requests[waiting].at = "done") =>
          (waiting # 0 => \A i \in 1 .. Len(requests) : Answered(i))
  BY DEF Orderly, Rejected, Answered
<1>2. waiting = 0 => \A i \in 1 .. Len(requests) : Answered(i)
  BY DEF Orderly
<1>3. CASE Push
  <2>1. CASE waiting = 0 /\ ~timer
    <3>1. heard + 1 \in 0 .. MaxSteps /\ SendNext(heard + 1, attempt, attempt - 1)
      BY <1>3, <2>1, Bounds DEF Push
    <3> QED
      BY <1>2, <1>3, <2>1, <3>1, SendOrder DEF Push
  <2>2. CASE ~(waiting = 0 /\ ~timer)
    BY <1>3, <2>2, QuietOrder DEF Push
  <2> QED
    BY <2>1, <2>2
<1>4. CASE Success
  <2>1. /\ waiting \in 1 .. Len(requests) /\ requests[waiting].at = "done"
        /\ \A i \in 1 .. Len(requests) : Answered(i)
    BY <1>1, <1>4 DEF Success
  <2>2. SendNext(heard, attempt + 1, (attempt + 1) - 1)
    BY <1>4 DEF Success
  <2>3. /\ Orderly' /\ Counted'
        /\ \A j \in 1 .. Len(applied) : requests'[applied[j]] = requests[applied[j]]
    BY <1>4, <2>1, <2>2, SendOrder DEF Success
  <2>4. PICK j \in 1 .. Len(applied) : applied[j] = waiting
    BY <2>1 DEF Counted
  <2>5. labelled' = Append(labelled, requests[waiting].end) /\ applied' = applied
    BY <1>4 DEF Success, serverVars
  <2>6. ASSUME NEW w \in 1 .. Len(labelled')
        PROVE  \E k \in 1 .. Len(applied) : requests'[applied[k]].end = labelled'[w]
    <3>1. CASE w \in 1 .. Len(labelled)
      <4>1. labelled'[w] = labelled[w]
        BY <2>5, <3>1, AppliedTyped
      <4> QED
        BY <2>3, <3>1, <4>1 DEF Labelled
    <3>2. CASE w \notin 1 .. Len(labelled)
      <4>1. labelled'[w] = requests[waiting].end
        BY <2>5, <3>2, AppliedTyped, SMTT(40)
      <4> QED
        BY <2>3, <2>4, <4>1
    <3> QED
      BY <3>1, <3>2
  <2>7. Labelled'
    BY <2>5, <2>6 DEF Labelled
  <2> QED
    BY <2>3, <2>7
<1>5. CASE Failure
  <2>1. \A i \in 1 .. Len(requests) : Answered(i)
    BY <1>1, <1>5 DEF Failure
  <2>2. CASE GivesUp
    <3>1. SendNext(heard, attempt + 1, (attempt + 1) - 1)
      BY <1>5, <2>2 DEF Failure
    <3> QED
      BY <1>5, <2>1, <3>1, SendOrder DEF Failure
  <2>3. CASE ~GivesUp
    BY <1>5, <2>1, <2>3, QuietOrder DEF Failure
  <2> QED
    BY <2>2, <2>3
<1>6. CASE Retry
  <2>1. waiting = 0 /\ SendNext(heard, attempt, attempt - 1)
    BY <1>6 DEF Retry, PaceInv, TypeOK
  <2> QED
    BY <1>2, <1>6, <2>1, SendOrder DEF Retry
<1>7. CASE LateAnswer
  <2>1. \A i \in 1 .. Len(requests) : Answered(i)
    BY <1>7 DEF LateAnswer, Orderly
  <2> QED
    BY <1>7, <2>1, QuietOrder DEF LateAnswer
<1>8. CASE Stop
  BY <1>8, QuietOrder DEF Stop
<1> QED
  BY <1>3, <1>4, <1>5, <1>6, <1>7, <1>8 DEF Tracker

\* A request that changes its place keeps its number and its window.
LEMMA MoveOrder ==
    ASSUME OrderInv, NEW i \in 1 .. Len(requests), NEW place \in Places, Place(i, place)
    PROVE  /\ Len(requests') = Len(requests)
           /\ requests'[i] = [requests[i] EXCEPT !.at = place]
           /\ \A k \in 1 .. Len(requests) : k # i => requests'[k] = requests[k]
           /\ \A k \in 1 .. Len(requests) : /\ requests'[k].seq = requests[k].seq
                                            /\ requests'[k].end = requests[k].end
                                            /\ requests'[k].cut = requests[k].cut
<1>1. requests \in Seq(Sendings) /\ requests[i] \in Sendings
  BY AppliedTyped, Typed DEF OrderInv
<1> DEFINE e == [requests[i] EXCEPT !.at = place]
<1>2. /\ e \in Sendings /\ e.seq = requests[i].seq /\ e.end = requests[i].end
      /\ e.cut = requests[i].cut
  BY <1>1 DEF Sendings
<1>3. requests' = [requests EXCEPT ![i] = e]
  BY DEF Place
<1> HIDE DEF e
<1>4. /\ Len(requests') = Len(requests)
      /\ \A k \in 1 .. Len(requests) : requests'[k] = IF k = i THEN e ELSE requests[k]
  BY <1>1, <1>2, <1>3, ExceptSeq
<1> QED
  BY <1>2, <1>4 DEF e

LEMMA HandlerOrder ==
    ASSUME OrderInv, ~CutsWhileHandled, NEW i \in 1 .. Len(requests),
           Arrive(i) \/ Apply(i) \/ ProviderFails(i) \/ Cut(i)
    PROVE  Orderly' /\ Counted' /\ Labelled'
<1> USE DEF OrderInv
<1>0. /\ \A j \in 1 .. Len(applied) : applied[j] \in 1 .. Len(requests)
      /\ applied \in Seq(1 .. Len(requests)) /\ Len(applied) \in Nat
      /\ requests[i] \in Sendings
  BY AppliedTyped
<1>1. CASE Arrive(i)
  <2>1. /\ requests[i].at = "sent" /\ UNCHANGED <<waiting, labelled, expected, applied>>
        /\ \/ Place(i, "diarizing") /\ requests[i].seq = expected
           \/ Place(i, "refused")
    BY <1>1 DEF Arrive, Accept, trackerVars, serverVars
  <2>2. PICK place \in {"diarizing", "refused"} :
            Place(i, place) /\ (place = "diarizing" => requests[i].seq = expected)
    BY <2>1
  <2>3. /\ Len(requests') = Len(requests)
        /\ requests'[i] = [requests[i] EXCEPT !.at = place]
        /\ \A k \in 1 .. Len(requests) : k # i => requests'[k] = requests[k]
        /\ \A k \in 1 .. Len(requests) : /\ requests'[k].seq = requests[k].seq
                                         /\ requests'[k].end = requests[k].end
                                         /\ requests'[k].cut = requests[k].cut
    BY <2>2, MoveOrder DEF Places
  <2>4. requests'[i].at = place
    BY <1>0, <2>3 DEF Sendings
  <2>5. waiting = i /\ ~requests[i].cut
    BY <2>1 DEF Orderly, Answered
  <2>6. Orderly'
    BY <2>1, <2>3, <2>5 DEF Orderly, Answered
  <2>7. Counted'
    <3>1. ASSUME NEW k \in 1 .. Len(requests)
          PROVE  /\ requests'[k].at = "diarizing" => requests'[k].seq = expected
                 /\ requests'[k].at = "done" => \E j \in 1 .. Len(applied) : applied[j] = k
      <4>1. CASE k = i
        BY <2>2, <2>3, <2>4, <4>1
      <4>2. CASE k # i
        BY <2>3, <4>2 DEF Counted
      <4> QED
        BY <4>1, <4>2
    <3>2. \A j \in 1 .. Len(applied) : requests'[applied[j]].seq = j
      BY <1>0, <2>3 DEF Counted
    <3> QED
      BY <2>1, <2>3, <3>1, <3>2 DEF Counted
  <2>8. Labelled'
    BY <1>0, <2>1, <2>3, SMTT(40) DEF Labelled
  <2> QED
    BY <2>6, <2>7, <2>8
<1>2. CASE Apply(i)
  <2>1. /\ requests[i].at = "diarizing" /\ Place(i, "done") /\ applied' = Append(applied, i)
        /\ expected' = requests[i].seq + 1 /\ UNCHANGED <<waiting, labelled>>
    BY <1>2 DEF Apply, trackerVars
  <2>2. /\ Len(requests') = Len(requests)
        /\ requests'[i] = [requests[i] EXCEPT !.at = "done"]
        /\ \A k \in 1 .. Len(requests) : k # i => requests'[k] = requests[k]
        /\ \A k \in 1 .. Len(requests) : /\ requests'[k].seq = requests[k].seq
                                         /\ requests'[k].end = requests[k].end
                                         /\ requests'[k].cut = requests[k].cut
    BY <2>1, MoveOrder DEF Places
  <2>3. requests'[i].at = "done"
    BY <1>0, <2>2 DEF Sendings
  <2>4. waiting = i /\ ~requests[i].cut /\ requests[i].seq = expected
    BY <2>1 DEF Orderly, Counted, Answered
  <2>5. Orderly'
    BY <2>1, <2>2, <2>3, <2>4 DEF Orderly, Answered
  <2>6. /\ Len(applied') = Len(applied) + 1 /\ applied'[Len(applied) + 1] = i
        /\ \A j \in 1 .. Len(applied) : applied'[j] = applied[j]
    BY <1>0, <2>1, AppendProperties
  <2>7. \A k \in 1 .. Len(requests) : k # i => requests'[k].at # "diarizing"
    BY <2>2, <2>4 DEF Orderly, Answered
  <2>8. ASSUME NEW j \in 1 .. Len(applied') PROVE requests'[applied'[j]].seq = j
    <3>1. j \in 1 .. Len(applied) \/ j = Len(applied) + 1
      BY <1>0, <2>6
    <3> QED
      BY <1>0, <2>2, <2>4, <2>6, <3>1 DEF Counted
  <2>9. ASSUME NEW k \in 1 .. Len(requests), requests'[k].at = "done"
        PROVE  \E j \in 1 .. Len(applied') : applied'[j] = k
    <3>1. CASE k = i
      BY <1>0, <2>6, <3>1
    <3>2. CASE k # i
      <4>1. PICK j \in 1 .. Len(applied) : applied[j] = k
        BY <2>2, <2>9, <3>2 DEF Counted
      <4> QED
        BY <1>0, <2>6, <4>1
    <3> QED
      BY <3>1, <3>2
  <2>10. expected' = Len(applied') + 1
    BY <1>0, <2>1, <2>4, <2>6 DEF Counted
  <2>11. Counted'
    BY <2>2, <2>3, <2>7, <2>8, <2>9, <2>10 DEF Counted
  <2>12. Labelled'
    <3>1. ASSUME NEW w \in 1 .. Len(labelled)
          PROVE  \E j \in 1 .. Len(applied') : requests'[applied'[j]].end = labelled[w]
      <4>1. PICK j \in 1 .. Len(applied) : requests[applied[j]].end = labelled[w]
        BY DEF Labelled
      <4> QED
        BY <1>0, <2>2, <2>6, <4>1
    <3> QED
      BY <2>1, <3>1 DEF Labelled
  <2> QED
    BY <2>5, <2>11, <2>12
<1>3. CASE ProviderFails(i)
  <2>1. /\ requests[i].at = "diarizing" /\ Place(i, "failed")
        /\ UNCHANGED <<waiting, labelled, expected, applied>>
    BY <1>3 DEF ProviderFails, trackerVars, serverVars
  <2>2. /\ Len(requests') = Len(requests)
        /\ requests'[i] = [requests[i] EXCEPT !.at = "failed"]
        /\ \A k \in 1 .. Len(requests) : k # i => requests'[k] = requests[k]
        /\ \A k \in 1 .. Len(requests) : /\ requests'[k].seq = requests[k].seq
                                         /\ requests'[k].end = requests[k].end
                                         /\ requests'[k].cut = requests[k].cut
    BY <2>1, MoveOrder DEF Places
  <2>3. requests'[i].at = "failed"
    BY <1>0, <2>2 DEF Sendings
  <2>4. Orderly'
    BY <2>1, <2>2, <2>3 DEF Orderly, Answered
  <2>5. Counted'
    <3>1. ASSUME NEW k \in 1 .. Len(requests)
          PROVE  /\ requests'[k].at = "diarizing" => requests'[k].seq = expected
                 /\ requests'[k].at = "done" => \E j \in 1 .. Len(applied) : applied[j] = k
      <4>1. CASE k = i
        BY <2>3, <4>1
      <4>2. CASE k # i
        BY <2>2, <4>2 DEF Counted
      <4> QED
        BY <4>1, <4>2
    <3>2. \A j \in 1 .. Len(applied) : requests'[applied[j]].seq = j
      BY <1>0, <2>2 DEF Counted
    <3> QED
      BY <2>1, <2>2, <3>1, <3>2 DEF Counted
  <2>6. Labelled'
    BY <1>0, <2>1, <2>2 DEF Labelled
  <2> QED
    BY <2>4, <2>5, <2>6
<1>4. CASE Cut(i)
  <2>1. /\ requests[i].at \in {"done", "refused", "failed"} /\ i = waiting
        /\ UNCHANGED <<waiting, labelled, expected, applied>>
        /\ \E place \in {requests[i].at} :
              requests' = [requests EXCEPT ![i].cut = TRUE, ![i].at = place]
    BY <1>4 DEF Cut, Answered, trackerVars, serverVars
  <2>2. requests' = [requests EXCEPT ![i].cut = TRUE, ![i].at = requests[i].at]
    BY <2>1
  <2>3. /\ Len(requests') = Len(requests)
        /\ requests'[i] = [requests[i] EXCEPT !.cut = TRUE, !.at = requests[i].at]
        /\ \A k \in 1 .. Len(requests) : k # i => requests'[k] = requests[k]
    <3>1. requests \in Seq(Sendings) /\ i \in 1 .. Len(requests)
      BY AppliedTyped, Typed
    <3>2. requests[i].at \in Places
      BY <2>1, Zenon DEF Places
    <3> HIDE <1>0, <2>1
    <3> QED
      BY <2>2, <3>1, <3>2, Moves
  <2>4. \A k \in 1 .. Len(requests) : /\ requests'[k].seq = requests[k].seq
                                      /\ requests'[k].end = requests[k].end
                                      /\ requests'[k].at = requests[k].at
    <3>1. /\ requests'[i].seq = requests[i].seq
          /\ requests'[i].end = requests[i].end
          /\ requests'[i].at = requests[i].at
      BY <1>0, <2>3 DEF Sendings
    <3> QED
      BY <2>3, <3>1, Zenon
  <2>5. Orderly'
    BY <2>1, <2>3, <2>4 DEF Orderly, Answered
  <2>6. Counted'
    <3>1. \A k \in 1 .. Len(requests) :
             /\ requests'[k].at = "diarizing" => requests'[k].seq = expected
             /\ requests'[k].at = "done" => \E j \in 1 .. Len(applied) : applied[j] = k
      BY <2>4 DEF Counted
    <3>2. \A j \in 1 .. Len(applied) : requests'[applied[j]].seq = j
      BY <1>0, <2>4 DEF Counted
    <3> QED
      BY <2>1, <2>3, <3>1, <3>2 DEF Counted
  <2>7. Labelled'
    <3>1. \A j \in 1 .. Len(applied) : requests'[applied[j]].end = requests[applied[j]].end
      BY <1>0, <2>4
    <3>2. ASSUME NEW w \in 1 .. Len(labelled)
          PROVE  \E j \in 1 .. Len(applied) : requests'[applied[j]].end = labelled[w]
      <4>1. PICK j \in 1 .. Len(applied) : requests[applied[j]].end = labelled[w]
        BY DEF Labelled
      <4> QED
        BY <3>1, <4>1
    <3>3. labelled' = labelled /\ applied' = applied
      BY <2>1
    <3> QED
      BY <3>2, <3>3 DEF Labelled
  <2> QED
    BY <2>5, <2>6, <2>7
<1> QED
  BY <1>1, <1>2, <1>3, <1>4

LEMMA OrderNext ==
    ASSUME ~CutsWhileHandled
    PROVE  OrderInv /\ [Next]_vars => OrderInv'
<1> SUFFICES ASSUME OrderInv, [Next]_vars PROVE OrderInv'
  OBVIOUS
<1>1. PaceInv'
  BY PaceNext DEF OrderInv
<1>2. CASE Tracker \/ Stop
  BY <1>1, <1>2, TrackerOrder DEF OrderInv
<1>3. ASSUME NEW i \in 1 .. Len(requests), Handle(i) \/ ProviderFails(i) \/ Cut(i)
      PROVE  OrderInv'
  BY <1>1, <1>3, HandlerOrder DEF OrderInv, Handle
<1>4. CASE UNCHANGED vars
  BY <1>1, <1>4, QuietOrder DEF OrderInv, vars, trackerVars
<1> QED
  BY <1>2, <1>3, <1>4 DEF Next

\* The session takes the windows in the order of the audio, each number once, and only
\* a window that was taken labels lines, in every recording in which no connection
\* breaks before its handler is done.
THEOREM OrderTheorem ==
    ASSUME ~CutsWhileHandled
    PROVE  Spec => []AppliedInOrder
<1>1. OrderInv => AppliedInOrder
  <2> SUFFICES ASSUME OrderInv PROVE AppliedInOrder
    OBVIOUS
  <2>1. \A j \in 1 .. Len(applied) : /\ applied[j] \in 1 .. Len(requests)
                                     /\ requests[applied[j]].seq = j
                                     /\ requests[applied[j]].end = j + 1
    BY AppliedTyped DEF OrderInv, Orderly, Counted
  <2>2. \A j \in 1 .. Len(applied) : \A k \in 1 .. j - 1 : k \in 1 .. Len(applied) /\ k + 1 < j + 1
    BY AppliedTyped DEF OrderInv
  <2> QED
    BY <2>1, <2>2 DEF AppliedInOrder, OrderInv, Labelled
<1> QED
  BY <1>1, OrderInit, OrderNext, PTL DEF Spec
==============================================================================
