-------------------------- MODULE AnalysisRunProofs --------------------------
(* What holds of a run of the analysis for every transcript, every list of   *)
(* models, every bound on the retries and every set of answers.              *)
EXTENDS AnalysisRun, TLAPS

\* The three loops over lists.
DistinctLoop == INSTANCE Folding WITH Op <- LAMBDA list, m, c : AddNew(list, m)
NamedLoop == INSTANCE Folding WITH Op <- AddNamed
RenameLoop == INSTANCE Folding WITH Op <- Rename

-----------------------------------------------------------------------------
(* The inductive invariant: TypeOK, CallDiscipline and what follows.        *)

\* The call in progress: the attempts are the requests made to the model being tried,
\* the models before it are exhausted, those after it untouched.
Trying ==
    pc \in {"reading", "asking"} =>
        /\ asked[call][index] = attempt
        /\ dropped[call][index] = 0
        /\ \A j \in 1 .. index - 1 : Exhausted(call, j)
        /\ \A j \in DOMAIN models : j > index => asked[call][j] = 0

\* The second call is the repair, and it has made a request once it is over.
Repairing ==
    /\ repairs = call - 1
    /\ pc = "reading" => call = 1
    /\ call = 1 => \A i \in DOMAIN models : asked[2][i] = 0
    /\ (pc \in {"storing", "ended"} /\ call = 2) => \E i \in DOMAIN models : asked[2][i] > 0

\* The row follows the run.
Reporting ==
    /\ row.status = "processing" <=> pc # "ended"
    /\ pc # "ended" => row.error = "none" /\ row.stored = NoOne
    /\ pc = "ended" => row.repairs = repairs
    /\ pc = "storing" => answer \in Answers /\ Valid(answer)

RunInv ==
    /\ TypeOK
    /\ CallDiscipline
    /\ Trying
    /\ Repairing
    /\ Reporting
    /\ FailsWhenExhausted

Counts(max) == [{1, 2} -> [DOMAIN models -> 0 .. max]]

-----------------------------------------------------------------------------
(* The loops over lists.                                                    *)

NoRepeats(list) == \A i, j \in DOMAIN list : list[i] = list[j] => i = j

\* The list without repetitions: its elements are those of the other, each once.
LEMMA DistinctList ==
    ASSUME NEW M, NEW list \in Seq(M)
    PROVE  /\ Distinct(list) \in Seq(M)
           /\ NoRepeats(Distinct(list))
           /\ list # <<>> => Distinct(list) # <<>>
<1> DEFINE stage == [k \in 0 .. Len(list) |-> {l \in Seq(M) : NoRepeats(l) /\ (k > 0 => l # <<>>)}]
<1>1. Len(list) \in Nat /\ DOMAIN list = 1 .. Len(list) /\ \A k \in DOMAIN list : list[k] \in M
  OBVIOUS
<1>2. \A k \in 0 .. Len(list) :
          stage[k] = {l \in Seq(M) : NoRepeats(l) /\ (k > 0 => l # <<>>)}
  OBVIOUS
<1>3. <<>> \in stage[0]
  BY <1>1, <1>2 DEF NoRepeats
<1>4. ASSUME NEW k \in 1 .. Len(list), NEW l \in stage[k - 1]
      PROVE  AddNew(l, list[k]) \in stage[k]
  <2>1. l \in Seq(M) /\ NoRepeats(l) /\ list[k] \in M
    BY <1>1
  <2>2. CASE list[k] \in ToSet(l)
    <3>1. l # <<>>
      BY <2>2 DEF ToSet
    <3> QED
      BY <2>1, <2>2, <3>1 DEF AddNew
  <2>3. CASE list[k] \notin ToSet(l)
    <3>1. \A i \in DOMAIN l : l[i] # list[k]
      BY <2>3 DEF ToSet
    <3>2. /\ Append(l, list[k]) \in Seq(M) /\ Append(l, list[k]) # <<>>
          /\ NoRepeats(Append(l, list[k]))
      <4>1. /\ Append(l, list[k]) \in Seq(M) /\ Append(l, list[k]) # <<>>
            /\ Len(l) \in Nat /\ DOMAIN l = 1 .. Len(l)
            /\ DOMAIN Append(l, list[k]) = 1 .. Len(l) + 1
            /\ Append(l, list[k])[Len(l) + 1] = list[k]
            /\ \A i \in DOMAIN l : Append(l, list[k])[i] = l[i]
        BY <2>1
      <4>2. NoRepeats(Append(l, list[k]))
        BY <2>1, <3>1, <4>1 DEF NoRepeats
      <4> QED
        BY <4>1, <4>2
    <3>3. AddNew(l, list[k]) = Append(l, list[k])
      BY <2>3 DEF AddNew
    <3>4. k \in 0 .. Len(list)
      BY <1>1
    <3> QED
      BY <3>2, <3>3, <3>4
  <2> QED
    BY <2>2, <2>3
<1> HIDE DEF stage
<1>5. DistinctLoop!Keeps(0, <<>>, list, stage)
  BY <1>1, <1>3, <1>4 DEF DistinctLoop!Keeps, DistinctLoop!IsList
<1>6. DistinctLoop!Fold(0, <<>>, list) \in stage[Len(list)]
  BY <1>5, DistinctLoop!FoldReaches
<1>7. Distinct(list) = DistinctLoop!Fold(0, <<>>, list)
  BY DEF Distinct, FoldLeft, MapThenFoldSet, DistinctLoop!Fold, Max, DistinctLoop!Top
<1>8. Distinct(list) \in stage[Len(list)] /\ Len(list) \in 0 .. Len(list)
  BY <1>1, <1>6, <1>7
<1> QED
  BY <1>1, <1>2, <1>8

\* The models to try are names of models, at least one, none of them twice.
LEMMA ModelList ==
    ASSUME NEW s \in Settings
    PROVE  ResolveModels(s) \in Seq(ModelNames) \ {<<>>} /\ NoRepeats(ResolveModels(s))
<1> DEFINE fallback == IF s.fallback = NoOne THEN <<>> ELSE <<s.fallback>>
           all == <<s.primary>> \o fallback \o s.others
           list == CandidateModels(s)
           endpoint == [i \in DOMAIN list |-> EndpointName(s, list[i])]
<1>1. /\ s.primary \in ModelNames /\ s.fallback \in ModelNames \cup {NoOne}
      /\ s.others \in Seq(ModelNames)
  BY AnalysisAssumption
<1>2. fallback \in Seq(ModelNames)
  BY <1>1
<1>3. all \in Seq(ModelNames) /\ all # <<>>
  <2> HIDE DEF fallback
  <2> QED
    BY <1>1, <1>2
<1>4. list = Distinct(all)
  BY DEF CandidateModels
<1> HIDE DEF all, list
<1>5. list \in Seq(ModelNames) /\ list # <<>>
  BY <1>3, <1>4, DistinctList
<1>6. endpoint \in Seq(ModelNames) /\ endpoint # <<>>
  <2>1. \A i \in DOMAIN list : EndpointName(s, list[i]) \in ModelNames
    BY <1>5, EndpointAssumption
  <2>2. Len(list) \in Nat \ {0} /\ DOMAIN list = 1 .. Len(list)
    BY <1>5
  <2> QED
    BY <2>1, <2>2
<1>7. ResolveModels(s) = Distinct(endpoint)
  BY DEF ResolveModels, list
<1> HIDE DEF endpoint
<1> QED
  BY <1>6, <1>7, DistinctList

-----------------------------------------------------------------------------
LEMMA Retries == MaxRetries \in Nat
BY AnalysisAssumption

\* A sequence has its indices up to its length.
LEMMA ModelsDomain ==
    ASSUME TypeOK
    PROVE  /\ Len(models) \in Nat \ {0} /\ DOMAIN models = 1 .. Len(models)
           /\ index \in 1 .. Len(models)
BY DEF TypeOK

LEMMA InvInit == Init => RunInv
<1> SUFFICES ASSUME Init PROVE RunInv
  OBVIOUS
<1> USE Retries DEF Init
<1>1. models \in Seq(ModelNames) \ {<<>>}
  BY ModelList
<1>2. Len(models) \in Nat \ {0} /\ DOMAIN models = 1 .. Len(models)
  BY <1>1
<1>3. /\ asked \in Counts(MaxRetries + 1) /\ dropped \in Counts(MaxRetries + 1)
      /\ \A c \in {1, 2} : \A i \in DOMAIN models : asked[c][i] = 0 /\ dropped[c][i] = 0
  BY DEF Counts
<1>4. TypeOK
  BY <1>1, <1>2, <1>3, Retries DEF TypeOK, Rows, Errors, Counts
<1> QED
  BY <1>2, <1>3, <1>4 DEF RunInv, CallDiscipline, Trying, Repairing, Reporting,
                          FailsWhenExhausted, Exhausted

\* What a request does to the counts, whether or not the model is given up with it.
LEMMA RequestCounts ==
    ASSUME RunInv, pc = "asking", Request, UNCHANGED models,
           \/ UNCHANGED dropped
           \/ dropped' = [dropped EXCEPT ![call][index] = asked[call][index] + 1]
    PROVE  /\ asked' \in Counts(MaxRetries + 1) /\ dropped' \in Counts(MaxRetries + 1)
           /\ asked'[call][index] = attempt + 1
           /\ dropped'[call][index] \in {0, attempt + 1}
           /\ (dropped' # dropped) => dropped'[call][index] = attempt + 1
           /\ \A c \in {1, 2} : \A i \in DOMAIN models :
                 (c # call \/ i # index) => /\ asked'[c][i] = asked[c][i]
                                            /\ dropped'[c][i] = dropped[c][i]
           /\ CallDiscipline'
           /\ \A c \in {1, 2}, j \in 1 .. index - 1 : c = call => Exhausted(c, j)'
<1> USE Retries
<1>1. /\ asked \in Counts(MaxRetries + 1) /\ dropped \in Counts(MaxRetries + 1)
      /\ call \in {1, 2} /\ index \in DOMAIN models /\ attempt \in 0 .. MaxRetries
      /\ asked[call][index] = attempt /\ dropped[call][index] = 0
      /\ \A j \in 1 .. index - 1 : Exhausted(call, j)
  BY DEF RunInv, TypeOK, Trying, Counts
<1>2. DOMAIN models = 1 .. Len(models) /\ Len(models) \in Nat /\ index \in 1 .. Len(models)
  BY ModelsDomain DEF RunInv
<1>3. /\ asked' \in Counts(MaxRetries + 1)
      /\ asked'[call][index] = attempt + 1
      /\ \A c \in {1, 2} : \A i \in DOMAIN models :
            (c # call \/ i # index) => asked'[c][i] = asked[c][i]
  BY <1>1 DEF Request, Counts
<1>4. /\ dropped' \in Counts(MaxRetries + 1)
      /\ dropped'[call][index] \in {0, attempt + 1}
      /\ (dropped' # dropped) => dropped'[call][index] = attempt + 1
      /\ \A c \in {1, 2} : \A i \in DOMAIN models :
            (c # call \/ i # index) => dropped'[c][i] = dropped[c][i]
  <2>1. CASE UNCHANGED dropped
    BY <1>1, <2>1 DEF Counts
  <2>2. CASE dropped' = [dropped EXCEPT ![call][index] = asked[call][index] + 1]
    BY <1>1, <2>2 DEF Counts
  <2> QED
    BY <2>1, <2>2
<1>5. \A c \in {1, 2}, j \in 1 .. index - 1 : c = call => Exhausted(c, j)'
  BY <1>1, <1>2, <1>3, <1>4 DEF Exhausted
<1>6. ASSUME NEW c \in {1, 2}, NEW i \in DOMAIN models
      PROVE  /\ asked'[c][i] <= MaxRetries + 1
             /\ dropped'[c][i] \in {0, asked'[c][i]}
             /\ asked'[c][i] > 0 => \A j \in 1 .. i - 1 : Exhausted(c, j)'
  <2>1. CASE c = call /\ i = index
    BY <1>1, <1>3, <1>4, <1>5, <2>1
  <2>2. CASE c # call \/ i # index
    <3>1. /\ asked[c][i] <= MaxRetries + 1
          /\ dropped[c][i] \in {0, asked[c][i]}
          /\ asked[c][i] > 0 => \A j \in 1 .. i - 1 : Exhausted(c, j)
      BY DEF RunInv, CallDiscipline
    <3>2. asked'[c][i] = asked[c][i] /\ dropped'[c][i] = dropped[c][i]
      BY <1>3, <1>4, <2>2
    <3>3. ASSUME asked[c][i] > 0, NEW j \in 1 .. i - 1 PROVE Exhausted(c, j)'
      <4>1. j \in DOMAIN models /\ Exhausted(c, j)
        BY <1>2, <3>1, <3>3
      <4>2. CASE c # call \/ j # index
        BY <1>3, <1>4, <4>1, <4>2 DEF Exhausted
      <4>3. CASE c = call /\ j = index
        BY <1>1, <1>2, <3>3, <4>3 DEF RunInv, Trying
      <4> QED
        BY <4>2, <4>3
    <3> QED
      BY <3>1, <3>2, <3>3
  <2> QED
    BY <2>1, <2>2
<1>7. CallDiscipline'
  BY <1>6 DEF CallDiscipline
<1> QED
  BY <1>3, <1>4, <1>5, <1>7

-----------------------------------------------------------------------------
(* Every step keeps the invariant.                                          *)

\* The types a step reads.
LEMMA Typed ==
    ASSUME RunInv
    PROVE  /\ Len(models) \in Nat \ {0} /\ DOMAIN models = 1 .. Len(models)
           /\ index \in 1 .. Len(models) /\ call \in {1, 2} /\ attempt \in 0 .. MaxRetries
           /\ repairs \in {0, 1} /\ repairs = call - 1
           /\ answer \in Payloads \cup {Unparsable}
           /\ row \in Rows
<1>1. TypeOK
  BY DEF RunInv
<1> QED
  BY <1>1, ModelsDomain DEF RunInv, TypeOK, Repairing

LEMMA TypeStays ==
    ASSUME RunInv, UNCHANGED <<settings, names, models>>,
           pc' \in {"asking", "storing", "ended"}, call' \in {1, 2}, index' \in DOMAIN models,
           attempt' \in 0 .. MaxRetries, answer' \in Payloads \cup {Unparsable},
           repairs' \in {0, 1}, row' \in Rows,
           asked' \in Counts(MaxRetries + 1), dropped' \in Counts(MaxRetries + 1)
    PROVE  TypeOK'
BY DEF RunInv, TypeOK, Counts

\* A failure ends the run; what it says of the models has to be shown where it occurs.
LEMMA FailsRow ==
    ASSUME RunInv, NEW error \in Errors, Fails(error)
    PROVE  /\ row' \in Rows
           /\ row'.status = "failed" /\ row'.error = error /\ row'.repairs = repairs
           /\ pc' = "ended"
BY Typed DEF Fails, Rows

LEMMA DisciplineStays ==
    ASSUME CallDiscipline, UNCHANGED <<models, asked, dropped>> PROVE CallDiscipline'
<1>1. ASSUME NEW c \in {1, 2}, NEW i \in DOMAIN models
      PROVE  /\ asked'[c][i] <= MaxRetries + 1
             /\ dropped'[c][i] \in {0, asked'[c][i]}
             /\ asked'[c][i] > 0 => \A j \in 1 .. i - 1 : Exhausted(c, j)'
  BY DEF CallDiscipline, Exhausted
<1> QED
  BY <1>1 DEF CallDiscipline

LEMMA ReadKeeps == ASSUME RunInv, Read PROVE RunInv'
<1>1. CASE pc' = "asking" /\ UNCHANGED row
  <2>1. /\ UNCHANGED <<settings, names, models, call, index, attempt, answer, repairs, row,
                       asked, dropped>>
        /\ pc = "reading"
    BY <1>1 DEF Read
  <2>2. TypeOK'
    BY <1>1, <2>1 DEF RunInv, TypeOK
  <2>3. CallDiscipline' /\ Trying'
    BY <1>1, <2>1 DEF RunInv, CallDiscipline, Trying, Exhausted
  <2>4. Repairing' /\ Reporting' /\ FailsWhenExhausted'
    BY <1>1, <2>1 DEF RunInv, Repairing, Reporting, FailsWhenExhausted, Exhausted
  <2> QED
    BY <2>2, <2>3, <2>4 DEF RunInv
<1>2. ASSUME NEW error \in {"configuration", "size"}, Fails(error) PROVE RunInv'
  <2>1. /\ row' \in Rows
        /\ row'.status = "failed" /\ row'.error = error /\ row'.repairs = repairs
        /\ pc' = "ended"
    BY <1>2, FailsRow DEF Errors
  <2>2. TypeOK'
    BY <2>1 DEF RunInv, TypeOK, Read
  <2>3. /\ UNCHANGED <<settings, names, models, call, index, attempt, answer, repairs, asked,
                       dropped>>
        /\ pc = "reading"
    BY DEF Read
  <2>4. CallDiscipline'
    BY <2>3, DisciplineStays DEF RunInv
  <2>5. Trying'
    BY <2>1 DEF Trying
  <2>6. Repairing'
    BY <2>1, <2>3 DEF RunInv, Repairing
  <2>7. Reporting' /\ FailsWhenExhausted'
    BY <1>2, <2>1, <2>3 DEF Reporting, FailsWhenExhausted
  <2> QED
    BY <2>2, <2>4, <2>5, <2>6, <2>7 DEF RunInv
<1> QED
  BY <1>1, <1>2 DEF Read

LEMMA RetryKeeps ==
    ASSUME RunInv, pc = "asking", Request, ~LastAttempt, attempt' = attempt + 1,
           UNCHANGED <<settings, names, pc, models, call, index, answer, repairs, row, dropped>>
    PROVE  RunInv'
<1> USE Retries
<1>1. TypeOK'
  BY RequestCounts, SMTT(40) DEF RunInv, TypeOK, LastAttempt, Counts
<1>2. CallDiscipline'
  BY RequestCounts
<1>3. Trying'
  <2>1. asked'[call][index] = attempt + 1 /\ dropped[call][index] = 0
    BY RequestCounts DEF RunInv, Trying
  <2>2. \A j \in 1 .. index - 1 : Exhausted(call, j)'
    BY RequestCounts, Typed DEF Exhausted
  <2>3. \A j \in DOMAIN models : j > index => asked'[call][j] = asked[call][j]
    BY RequestCounts, Typed
  <2>4. \A j \in DOMAIN models : j > index => asked'[call][j] = 0
    BY <2>3 DEF RunInv, Trying
  <2> QED
    BY <2>1, <2>2, <2>4 DEF Trying
<1>4. Repairing'
  BY RequestCounts, Typed DEF RunInv, Repairing
<1>5. Reporting' /\ FailsWhenExhausted'
  BY DEF RunInv, Reporting, FailsWhenExhausted
<1> QED
  BY <1>1, <1>2, <1>3, <1>4, <1>5 DEF RunInv

LEMMA NextModelKeeps ==
    ASSUME RunInv, pc = "asking", Request,
           NEW error \in {"connection", "http", "response"}, NextModel(error),
           \/ LastAttempt /\ UNCHANGED dropped
           \/ dropped' = [dropped EXCEPT ![call][index] = asked[call][index] + 1],
           UNCHANGED <<settings, names, models, call, answer, repairs>>
    PROVE  RunInv'
<1> USE Retries
<1>1. dropped'[call][index] > 0 \/ asked'[call][index] = MaxRetries + 1
  <2>1. asked[call][index] = attempt /\ dropped[call][index] = 0
    BY DEF RunInv, Trying
  <2>2. CASE LastAttempt /\ UNCHANGED dropped
    BY <2>2, RequestCounts, Typed DEF LastAttempt
  <2>3. CASE dropped' = [dropped EXCEPT ![call][index] = asked[call][index] + 1]
    BY <2>1, <2>3, RequestCounts, Typed DEF RunInv, TypeOK
  <2> QED
    BY <2>2, <2>3
<1>2. \A j \in 1 .. index : Exhausted(call, j)'
  <2>1. \A j \in 1 .. index - 1 : Exhausted(call, j)'
    BY RequestCounts, Typed DEF Exhausted
  <2>2. \A j \in 1 .. index : j \in 1 .. index - 1 \/ j = index
    BY Typed
  <2>3. \A j \in 1 .. index : j = index => Exhausted(call, j)'
    BY <1>1 DEF Exhausted
  <2> QED
    BY <2>1, <2>2, <2>3
<1>3. /\ asked' \in Counts(MaxRetries + 1) /\ dropped' \in Counts(MaxRetries + 1)
      /\ CallDiscipline'
      /\ asked'[call][index] > 0
      /\ \A j \in DOMAIN models : j > index =>
            asked'[call][j] = asked[call][j] /\ dropped'[call][j] = dropped[call][j]
      /\ call = 1 => \A i \in DOMAIN models : asked'[2][i] = asked[2][i]
  <2>1. /\ asked' \in Counts(MaxRetries + 1) /\ dropped' \in Counts(MaxRetries + 1)
        /\ CallDiscipline' /\ asked'[call][index] = attempt + 1
        /\ \A c \in {1, 2} : \A i \in DOMAIN models :
              (c # call \/ i # index) => /\ asked'[c][i] = asked[c][i]
                                         /\ dropped'[c][i] = dropped[c][i]
    BY RequestCounts
  <2> QED
    BY <2>1, Typed
<1>4. CASE index < Len(models)
  <2>1. index' = index + 1 /\ attempt' = 0 /\ index + 1 \in DOMAIN models /\ UNCHANGED <<pc, row>>
    BY <1>4, Typed DEF NextModel
  <2>2. TypeOK'
    BY <1>3, <2>1, Typed, TypeStays
  <2>3. \A j \in DOMAIN models : j > index => asked'[call][j] = 0 /\ dropped'[call][j] = 0
    BY <1>3, Typed DEF RunInv, Trying, CallDiscipline
  <2>4. Trying'
    BY <1>2, <2>1, <2>3, Typed DEF Trying
  <2>5. Repairing' /\ Reporting' /\ FailsWhenExhausted'
    BY <1>3, <2>1 DEF RunInv, Repairing, Reporting, FailsWhenExhausted
  <2> QED
    BY <1>3, <2>2, <2>4, <2>5 DEF RunInv
<1>5. CASE ~(index < Len(models))
  <2>1. /\ row' \in Rows
        /\ row'.status = "failed" /\ row'.error = error /\ row'.repairs = repairs
        /\ pc' = "ended" /\ UNCHANGED <<index, attempt>>
    BY <1>5, FailsRow DEF NextModel, Errors
  <2>2. TypeOK'
    BY <1>3, <2>1, Typed, TypeStays
  <2>3. Trying' /\ Reporting'
    BY <2>1 DEF Trying, Reporting
  <2>4. Repairing'
    BY <1>3, <2>1, Typed DEF RunInv, Repairing
  <2>5. FailsWhenExhausted'
    BY <1>2, <1>5, Typed DEF FailsWhenExhausted
  <2> QED
    BY <1>3, <2>2, <2>3, <2>4, <2>5 DEF RunInv
<1> QED
  BY <1>4, <1>5

LEMMA BreakKeeps == ASSUME RunInv, Break PROVE RunInv'
<1> USE Retries
<1>1. /\ row' \in Rows /\ row'.status = "failed" /\ row'.error = "other"
      /\ row'.repairs = repairs /\ pc' = "ended"
  BY FailsRow DEF Break, Errors
<1>2. /\ pc = "asking" /\ Request
      /\ UNCHANGED <<settings, names, models, call, index, attempt, answer, repairs, dropped>>
  BY DEF Break
<1>3. /\ asked' \in Counts(MaxRetries + 1) /\ dropped' \in Counts(MaxRetries + 1)
      /\ CallDiscipline' /\ asked'[call][index] = attempt + 1
      /\ \A c \in {1, 2} : \A i \in DOMAIN models :
            (c # call \/ i # index) => asked'[c][i] = asked[c][i]
  BY <1>2, RequestCounts
<1>4. TypeOK'
  BY <1>1, <1>2, <1>3, Typed, TypeStays
<1>5. Repairing'
  BY <1>1, <1>2, <1>3, Typed DEF RunInv, Repairing
<1>6. Trying' /\ Reporting' /\ FailsWhenExhausted'
  BY <1>1, <1>2 DEF Trying, Reporting, FailsWhenExhausted
<1> QED
  BY <1>3, <1>4, <1>5, <1>6 DEF RunInv

LEMMA ReplyKeeps == ASSUME RunInv, NEW a \in Answers, Reply(a) PROVE RunInv'
<1> USE Retries
<1>1. /\ pc = "asking" /\ Request /\ UNCHANGED <<settings, names, models, dropped>>
  BY DEF Reply
<1>2. /\ asked' \in Counts(MaxRetries + 1) /\ dropped' \in Counts(MaxRetries + 1)
      /\ CallDiscipline' /\ asked'[call][index] = attempt + 1
      /\ \A c \in {1, 2} : \A i \in DOMAIN models :
            (c # call \/ i # index) => asked'[c][i] = asked[c][i]
  BY <1>1, RequestCounts
<1>3. a \in Payloads \cup {Unparsable}
  BY AnalysisAssumption
<1>4. row.error = "none" /\ row.status = "processing" /\ row.stored = NoOne
  BY <1>1 DEF RunInv, Reporting
<1>5. CASE Valid(a) /\ pc' = "storing" /\ answer' = a
           /\ UNCHANGED <<call, index, attempt, repairs, row>>
  <2>1. TypeOK'
    BY <1>1, <1>2, <1>3, <1>5, Typed, TypeStays
  <2>2. Repairing'
    BY <1>1, <1>2, <1>5, Typed DEF RunInv, Repairing
  <2>3. Trying' /\ Reporting' /\ FailsWhenExhausted'
    BY <1>4, <1>5 DEF Trying, Reporting, FailsWhenExhausted, Valid, Grounded
  <2> QED
    BY <1>2, <2>1, <2>2, <2>3 DEF RunInv
<1>6. CASE /\ call = 1 /\ call' = 2 /\ index' = 1 /\ attempt' = 0 /\ repairs' = 1
           /\ UNCHANGED <<pc, answer, row>>
  <2>1. 1 \in DOMAIN models
    BY Typed
  <2>2. TypeOK'
    BY <1>1, <1>2, <1>6, <2>1, Typed, TypeStays
  <2>3. \A i \in DOMAIN models : asked'[2][i] = 0
    BY <1>2, <1>6, Typed DEF RunInv, Repairing
  <2>4. \A i \in DOMAIN models : dropped'[2][i] = 0
    BY <1>1, <1>2, <2>3 DEF CallDiscipline
  <2>5. Trying'
    BY <1>6, <1>1, <2>1, <2>3, <2>4 DEF Trying
  <2>6. Repairing' /\ Reporting' /\ FailsWhenExhausted'
    BY <1>1, <1>4, <1>6 DEF Repairing, Reporting, FailsWhenExhausted
  <2> QED
    BY <1>2, <2>2, <2>5, <2>6 DEF RunInv
<1>7. CASE call = 2 /\ Fails("invalid") /\ UNCHANGED <<call, index, attempt, answer, repairs>>
  <2>1. /\ row' \in Rows /\ row'.status = "failed" /\ row'.error = "invalid"
        /\ row'.repairs = repairs /\ pc' = "ended"
    BY <1>7, FailsRow DEF Errors
  <2>2. TypeOK'
    BY <1>1, <1>2, <1>7, <2>1, Typed, TypeStays
  <2>3. Repairing'
    BY <1>1, <1>2, <1>7, <2>1, Typed DEF RunInv, Repairing
  <2>4. Trying' /\ Reporting' /\ FailsWhenExhausted'
    BY <1>7, <2>1 DEF Trying, Reporting, FailsWhenExhausted
  <2> QED
    BY <1>2, <2>2, <2>3, <2>4 DEF RunInv
<1> QED
  BY <1>5, <1>6, <1>7 DEF Reply

\* What Store writes is one of the analyses that may be stored.
LEMMA StoredIsNamed == ASSUME RunInv, Store PROVE InProse(answer, names) \in NamedAnalyses
BY DEF RunInv, TypeOK, Reporting, Store, NamedAnalyses

LEMMA StoreKeeps == ASSUME RunInv, Store PROVE RunInv'
<1>1. /\ row' \in Rows /\ row'.status # "processing" /\ row'.repairs = repairs
      /\ row'.error \notin {"connection", "http", "response"} /\ pc' = "ended"
  <2>1. CASE Fails("other")
    BY <2>1, FailsRow DEF Errors
  <2>2. CASE row' = [status |-> "completed", stored |-> InProse(answer, names), error |-> "none",
                     repairs |-> repairs]
    BY <2>2, Typed, StoredIsNamed DEF Store, Rows, Fails
  <2> QED
    BY <2>1, <2>2 DEF Store
<1>2. /\ pc = "storing"
      /\ UNCHANGED <<settings, names, models, call, index, attempt, answer, repairs, asked, dropped>>
  BY DEF Store
<1>3. asked \in Counts(MaxRetries + 1) /\ dropped \in Counts(MaxRetries + 1)
  BY DEF RunInv, TypeOK, Counts
<1>4. TypeOK'
  BY <1>1, <1>2, <1>3, Typed, TypeStays
<1>5. CallDiscipline'
  BY <1>2, DisciplineStays DEF RunInv
<1>6. Repairing'
  BY <1>1, <1>2 DEF RunInv, Repairing
<1>7. Trying' /\ Reporting' /\ FailsWhenExhausted'
  BY <1>1, <1>2 DEF Trying, Reporting, FailsWhenExhausted
<1> QED
  BY <1>4, <1>5, <1>6, <1>7 DEF RunInv

LEMMA InvStutters == ASSUME RunInv, UNCHANGED vars PROVE RunInv'
<1>1. CallDiscipline'
  BY DisciplineStays DEF vars, RunInv
<1>2. TypeOK' /\ Trying' /\ Repairing'
  BY DEF vars, RunInv, TypeOK, Trying, Repairing, Exhausted
<1>3. Reporting' /\ FailsWhenExhausted'
  BY DEF vars, RunInv, Reporting, FailsWhenExhausted, Exhausted, Valid, Grounded
<1> QED
  BY <1>1, <1>2, <1>3 DEF RunInv

LEMMA InvNext == RunInv /\ [Next]_vars => RunInv'
<1> SUFFICES ASSUME RunInv, [Next]_vars PROVE RunInv'
  OBVIOUS
<1>1. CASE Read
  BY <1>1, ReadKeeps
<1>2. CASE TryAgain
  <2>1. /\ pc = "asking" /\ Request
        /\ UNCHANGED <<settings, names, models, call, answer, repairs, dropped>>
    BY <1>2 DEF TryAgain
  <2>2. ASSUME ~LastAttempt PROVE RunInv'
    BY <1>2, <2>1, <2>2, RetryKeeps DEF TryAgain
  <2>3. ASSUME LastAttempt PROVE RunInv'
    BY <1>2, <2>1, <2>3, NextModelKeeps DEF TryAgain
  <2> QED
    BY <2>2, <2>3
<1>3. CASE GiveUpModel
  BY <1>3, NextModelKeeps DEF GiveUpModel
<1>4. CASE Break
  BY <1>4, BreakKeeps
<1>5. ASSUME NEW a \in Answers, Reply(a) PROVE RunInv'
  BY <1>5, ReplyKeeps
<1>6. CASE Store
  BY <1>6, StoreKeeps
<1>7. CASE UNCHANGED vars
  BY <1>7, InvStutters
<1> QED
  BY <1>1, <1>2, <1>3, <1>4, <1>5, <1>6, <1>7 DEF Next, Ask

LEMMA InvAlways == Spec => []RunInv
BY InvInit, InvNext, PTL DEF Spec

-----------------------------------------------------------------------------
(* The theorems.                                                            *)

\* Type correctness, for any number of models, retries and turns.
THEOREM TypeCorrect == Spec => []TypeOK
BY InvAlways, PTL DEF RunInv

\* A call asks every model at most MaxRetries + 1 times, one that has refused never
\* again, and the next one only when those before it are exhausted.
THEOREM DisciplineTheorem == Spec => []CallDiscipline
BY InvAlways, PTL DEF RunInv

\* An error of the provider is reported only when every model has been exhausted.
THEOREM ExhaustionTheorem == Spec => []FailsWhenExhausted
BY InvAlways, PTL DEF RunInv

\* repair_attempts tells exactly whether the LLM was asked for a repair.
THEOREM RepairTheorem == Spec => []RepairsReported
<1>1. RunInv => RepairsReported
  <2> SUFFICES ASSUME RunInv, row.status # "processing"
               PROVE  row.repairs = 1 <=> \E i \in DOMAIN models : asked[2][i] > 0
    BY DEF RepairsReported
  <2>1. pc = "ended" /\ row.repairs = call - 1 /\ call \in {1, 2}
    BY Typed DEF RunInv, Reporting
  <2>2. call = 1 => \A i \in DOMAIN models : asked[2][i] = 0
    BY DEF RunInv, Repairing
  <2>3. call = 2 => \E i \in DOMAIN models : asked[2][i] > 0
    BY <2>1 DEF RunInv, Repairing
  <2> QED
    BY <2>1, <2>2, <2>3
<1> QED
  BY <1>1, InvAlways, PTL

-----------------------------------------------------------------------------
(* The models of a run, and what it stores.                                 *)

\* No two models have the same name; a completed run has stored the answer it has
\* accepted, under the names it has read.
StoredInv ==
    /\ NoRepeats(models)
    /\ row.status = "completed" =>
          /\ pc = "ended"
          /\ answer \in Answers /\ Valid(answer)
          /\ row.stored = InProse(answer, names)

LEMMA StoredInit == Init => StoredInv
BY ModelList DEF Init, StoredInv

LEMMA StoredNext == RunInv /\ StoredInv /\ [Next]_vars => StoredInv'
<1> SUFFICES ASSUME RunInv, StoredInv, [Next]_vars PROVE StoredInv'
  OBVIOUS
<1>1. models' = models /\ names' = names
  BY DEF Next, vars, Read, Ask, TryAgain, GiveUpModel, Break, Reply, Store
<1>2. NoRepeats(models)'
  BY <1>1 DEF StoredInv, NoRepeats
<1>3. row \in Rows
  BY DEF RunInv, TypeOK
<1>4. \A error \in Errors : Fails(error) => row'.status = "failed"
  BY <1>3 DEF Fails, Rows
<1>5. CASE Store
  <2>1. answer \in Answers /\ Valid(answer) /\ answer' = answer
    BY <1>5 DEF RunInv, Reporting, Store
  <2>2. row'.status = "completed" => pc' = "ended" /\ row'.stored = InProse(answer, names)
    <3>1. pc' = "ended" /\ ("other" \in Errors)
      BY <1>5 DEF Store, Fails, Errors
    <3>2. \/ row'.status = "failed"
          \/ row'.stored = InProse(answer, names)
      BY <1>5, <1>4, <3>1 DEF Store
    <3> QED
      BY <3>1, <3>2
  <2>3. InProse(answer', names') = InProse(answer, names) /\ (Valid(answer) => Valid(answer'))
    BY <1>1, <2>1
  <2> QED
    BY <1>2, <2>1, <2>2, <2>3 DEF StoredInv
<1>6. ASSUME row.status # "completed", row' = row \/ row'.status = "failed" PROVE StoredInv'
  BY <1>2, <1>6 DEF StoredInv
<1>7. CASE pc = "ended" /\ UNCHANGED vars
  BY <1>7 DEF StoredInv, vars, NoRepeats
<1>8. pc # "ended" => row.status # "completed"
  BY DEF StoredInv
<1>9. CASE UNCHANGED vars /\ pc # "ended"
  BY <1>6, <1>8, <1>9 DEF vars
<1>10. CASE Read
  BY <1>6, <1>8, <1>4, <1>10 DEF Read, Errors
<1>11. CASE Ask
  <2>1. pc = "asking" /\ (row' = row \/ \E error \in Errors : Fails(error))
    BY <1>11 DEF Ask, TryAgain, GiveUpModel, Break, Reply, NextModel, Errors
  <2> QED
    BY <1>6, <1>8, <1>4, <2>1
<1> QED
  BY <1>5, <1>7, <1>9, <1>10, <1>11 DEF Next

LEMMA StoredAlways == Spec => []StoredInv
BY InvAlways, StoredInit, StoredNext, PTL DEF Spec

\* No model is asked twice in a call under two names of the settings.
THEOREM OneNameTheorem == Spec => []NoModelTwice
<1>1. StoredInv => NoModelTwice
  BY DEF StoredInv, NoRepeats, NoModelTwice
<1> QED
  BY <1>1, StoredAlways, PTL

\* The named speakers have labels and names, and every speaker with both is among them.
LEMMA NamedList ==
    ASSUME NEW n \in Namings
    PROVE  /\ NamedSpeakers(n) \in Seq({s \in Labels : n[s] # NoOne})
           /\ \A s \in Labels : n[s] # NoOne => s \in ToSet(NamedSpeakers(n))
<1> DEFINE M == {s \in Labels : n[s] # NoOne}
           Before(k) == {s \in M : \E t \in 1 .. k : Turns[t] = s}
           stage == [k \in 0 .. Len(Turns) |-> {l \in Seq(M) : Before(k) \subseteq ToSet(l)}]
<1>1. /\ Len(Turns) \in Nat /\ DOMAIN Turns = 1 .. Len(Turns)
      /\ Turns \in Seq(Speakers) /\ DOMAIN n = Labels
  BY AnalysisAssumption DEF Namings
<1>2. \A k \in 0 .. Len(Turns) : stage[k] = {l \in Seq(M) : Before(k) \subseteq ToSet(l)}
  OBVIOUS
<1>3. <<>> \in stage[0]
  BY <1>1, <1>2
<1>4. ASSUME NEW k \in 1 .. Len(Turns), NEW l \in stage[k - 1]
      PROVE  AddNamed(l, Turns[k], n) \in stage[k]
  <2>1. l \in Seq(M) /\ Before(k - 1) \subseteq ToSet(l) /\ k \in 0 .. Len(Turns)
    BY <1>1
  <2>2. \A s \in Before(k) : s \in Before(k - 1) \/ s = Turns[k]
    BY <1>1
  <2>3. CASE Turns[k] \in M /\ Turns[k] \notin ToSet(l)
    <3>1. AddNamed(l, Turns[k], n) = Append(l, Turns[k])
      BY <1>1, <2>3 DEF AddNamed, AddNew
    <3>2. Append(l, Turns[k]) \in Seq(M)
      BY <2>1, <2>3
    <3>3. ToSet(l) \subseteq ToSet(Append(l, Turns[k])) /\ Turns[k] \in ToSet(Append(l, Turns[k]))
      <4>1. /\ Len(Append(l, Turns[k])) = Len(l) + 1 /\ Len(l) \in Nat
            /\ DOMAIN l = 1 .. Len(l) /\ DOMAIN Append(l, Turns[k]) = 1 .. Len(l) + 1
            /\ Append(l, Turns[k])[Len(l) + 1] = Turns[k]
            /\ \A i \in DOMAIN l : Append(l, Turns[k])[i] = l[i]
        BY <2>1, <2>3
      <4> QED
        BY <4>1 DEF ToSet
    <3> QED
      BY <2>1, <2>2, <3>1, <3>2, <3>3
  <2>4. CASE ~(Turns[k] \in M /\ Turns[k] \notin ToSet(l))
    <3>1. AddNamed(l, Turns[k], n) = l
      BY <1>1, <2>4 DEF AddNamed, AddNew
    <3>2. Before(k) \subseteq ToSet(l)
      BY <2>1, <2>2, <2>4
    <3> QED
      BY <2>1, <3>1, <3>2
  <2> QED
    BY <2>3, <2>4
<1> HIDE DEF stage
<1>5. NamedLoop!Keeps(n, <<>>, Turns, stage)
  BY <1>1, <1>3, <1>4 DEF NamedLoop!Keeps, NamedLoop!IsList
<1>6. NamedLoop!Fold(n, <<>>, Turns) \in stage[Len(Turns)]
  BY <1>5, NamedLoop!FoldReaches
<1>7. NamedSpeakers(n) = NamedLoop!Fold(n, <<>>, Turns)
  BY DEF NamedSpeakers, FoldLeft, MapThenFoldSet, NamedLoop!Fold, Max, NamedLoop!Top
<1>8. NamedSpeakers(n) \in Seq(M) /\ Before(Len(Turns)) \subseteq ToSet(NamedSpeakers(n))
  <2>1. Len(Turns) \in 0 .. Len(Turns)
    BY <1>1
  <2> HIDE DEF Before, M
  <2> QED
    BY <1>2, <1>6, <1>7, <2>1
<1>9. \A s \in M : s \in Before(Len(Turns))
  BY <1>1 DEF Labels, Speakers
<1> QED
  BY <1>8, <1>9

\* A text that is not blank stays so under its names.
LEMMA RenamedText ==
    ASSUME NEW n \in Namings, NEW t \in Texts \ {Blank}
    PROVE  Renamed(t, n) \in Texts \ {Blank}
<1> DEFINE L == NamedSpeakers(n)
<1>1. L \in Seq({s \in Labels : n[s] # NoOne})
  BY NamedList
<1> HIDE DEF L
<1>2. Len(L) \in Nat /\ DOMAIN L = 1 .. Len(L)
  BY <1>1
<1>3. ASSUME NEW k \in 1 .. Len(L), NEW text \in Texts \ {Blank}
      PROVE  Rename(text, L[k], n) \in Texts \ {Blank}
  <2>1. L[k] \in Labels /\ n[L[k]] \in DisplayNames
    BY <1>1, <1>2 DEF Namings
  <2>2. n[L[k]] \in Texts \ {Blank}
    BY <2>1, AnalysisAssumption DEF Texts
  <2> QED
    BY <2>2 DEF Rename
<1>4. RenameLoop!KeepsAll(n, t, L, Texts \ {Blank})
  BY <1>2, <1>3 DEF RenameLoop!KeepsAll, RenameLoop!IsList
<1>5. RenameLoop!Fold(n, t, L) \in Texts \ {Blank}
  BY <1>4, RenameLoop!FoldStays
<1>6. Renamed(t, n) = RenameLoop!Fold(n, t, L)
  BY DEF Renamed, L, FoldLeft, MapThenFoldSet, RenameLoop!Fold, Max, RenameLoop!Top
<1> QED
  BY <1>5, <1>6

\* What is stored of an answer that has been accepted is as grounded as the answer.
LEMMA ProseIsGrounded ==
    ASSUME NEW a \in Answers, NEW n \in Namings, Valid(a)
    PROVE  Grounded(InProse(a, n))
<1>1. a \in Payloads /\ Grounded(a)
  BY AnalysisAssumption DEF Valid
<1>2. Renamed(a.summary, n) # Blank
  BY <1>1, RenamedText DEF Payloads, Grounded
<1>3. ASSUME NEW i \in a.items
      PROVE  ItemIsGrounded([i EXCEPT !.text = Renamed(@, n)])
  <2>1. i \in Items /\ ItemIsGrounded(i)
    BY <1>1 DEF Payloads, Grounded
  <2>2. Renamed(i.text, n) # Blank
    BY <2>1, RenamedText DEF Items, ItemIsGrounded
  <2> QED
    BY <2>1, <2>2 DEF ItemIsGrounded, Items
<1> QED
  BY <1>2, <1>3 DEF Grounded, InProse

\* What a run stores cites turns of the transcript and gives no task to unresolved
\* speech, for every answer, every naming and every transcript.
THEOREM GroundedTheorem == Spec => []CompletedIsGrounded
<1>1. RunInv /\ StoredInv => CompletedIsGrounded
  <2> SUFFICES ASSUME RunInv, StoredInv, row.status = "completed" PROVE Grounded(row.stored)
    BY DEF CompletedIsGrounded
  <2>1. answer \in Answers /\ Valid(answer) /\ row.stored = InProse(answer, names)
    BY DEF StoredInv
  <2>2. names \in Namings
    BY DEF RunInv, TypeOK
  <2> QED
    BY <2>1, <2>2, ProseIsGrounded
<1> QED
  BY <1>1, InvAlways, StoredAlways, PTL

\* What the loop over the labels makes of a text when no name is a label.
LEMMA RenamedOwn ==
    ASSUME NEW n \in Namings, NEW t, DisplayNames \cap Labels = {}
    PROVE  Renamed(t, n) = IF t \in Labels /\ n[t] # NoOne THEN n[t] ELSE t
<1> DEFINE L == NamedSpeakers(n)
           Passed(k) == \E j \in 1 .. k : L[j] = t
           stage == [k \in 0 .. Len(L) |-> {IF Passed(k) THEN n[t] ELSE t}]
<1>1. /\ L \in Seq({s \in Labels : n[s] # NoOne})
      /\ \A s \in Labels : n[s] # NoOne => s \in ToSet(L)
  BY NamedList
<1> HIDE DEF L
<1>2. Len(L) \in Nat /\ DOMAIN L = 1 .. Len(L)
  BY <1>1
<1>3. \A k \in 0 .. Len(L) : stage[k] = {IF Passed(k) THEN n[t] ELSE t}
  OBVIOUS
<1>4. t \in stage[0]
  BY <1>2, <1>3
<1>5. ASSUME NEW k \in 1 .. Len(L), NEW text \in stage[k - 1]
      PROVE  Rename(text, L[k], n) \in stage[k]
  <2>1. /\ text = (IF Passed(k - 1) THEN n[t] ELSE t)
        /\ stage[k] = {IF Passed(k) THEN n[t] ELSE t}
    BY <1>2, <1>3
  <2>2. Passed(k) <=> Passed(k - 1) \/ L[k] = t
    BY <1>2
  <2>3. L[k] \in Labels
    BY <1>1, <1>2
  <2>4. CASE Passed(k - 1)
    <3>1. t \in Labels /\ n[t] # NoOne
      BY <1>1, <1>2, <2>4
    <3>2. n[t] \in DisplayNames
      BY <3>1 DEF Namings
    <3>3. n[t] # L[k]
      BY <2>3, <3>2
    <3> QED
      BY <2>1, <2>2, <2>4, <3>3 DEF Rename
  <2>5. CASE ~Passed(k - 1)
    BY <2>1, <2>2, <2>5 DEF Rename
  <2> QED
    BY <2>4, <2>5
<1> HIDE DEF stage
<1>6. RenameLoop!Keeps(n, t, L, stage)
  BY <1>2, <1>4, <1>5 DEF RenameLoop!Keeps, RenameLoop!IsList
<1>7. RenameLoop!Fold(n, t, L) \in stage[Len(L)]
  BY <1>6, RenameLoop!FoldReaches
<1>8. Renamed(t, n) = RenameLoop!Fold(n, t, L)
  BY DEF Renamed, L, FoldLeft, MapThenFoldSet, RenameLoop!Fold, Max, RenameLoop!Top
<1>9. Renamed(t, n) = IF Passed(Len(L)) THEN n[t] ELSE t
  BY <1>2, <1>3, <1>7, <1>8
<1>10. Passed(Len(L)) <=> t \in Labels /\ n[t] # NoOne
  BY <1>1, <1>2 DEF ToSet
<1> QED
  BY <1>9, <1>10

\* When no name is the label of a speaker, everything a stored text says of a named
\* speaker is under that speaker's own name.
THEOREM ProseTheorem ==
    ASSUME DisplayNames \cap Labels = {}
    PROVE  Spec => []ProseNamesSpeakers
<1>1. RunInv /\ StoredInv => ProseNamesSpeakers
  <2> SUFFICES ASSUME RunInv, StoredInv, row.status = "completed"
               PROVE  /\ row.stored.summary = OwnName(answer.summary)
                      /\ row.stored.items = {[i EXCEPT !.text = OwnName(@)] : i \in answer.items}
    BY DEF ProseNamesSpeakers
  <2>1. names \in Namings /\ row.stored = InProse(answer, names)
    BY DEF RunInv, TypeOK, StoredInv
  <2>2. \A t : Renamed(t, names) = OwnName(t)
    BY <2>1, RenamedOwn DEF OwnName
  <2> QED
    BY <2>1, <2>2 DEF InProse
<1> QED
  BY <1>1, InvAlways, StoredAlways, PTL

LEMMA OutcomeFails ==
    ASSUME RunInv, pc # "ended", NEW error \in Errors, Fails(error)
    PROVE  Outcome!Next
<1>1. row.status = "processing" /\ row \in Rows /\ repairs \in {0, 1}
  BY Typed DEF RunInv, Reporting
<1>2. Outcome!Fail(repairs)
  BY <1>1 DEF Fails, Rows, Outcome!Fail
<1> QED
  BY <1>1, <1>2 DEF Outcome!Next

LEMMA OutcomeStep ==
    RunInv /\ [Next]_vars => [Outcome!Next]_<<row.status, row.stored, row.repairs>>
<1> SUFFICES ASSUME RunInv, [Next]_vars
             PROVE  Outcome!Next \/ UNCHANGED row
  OBVIOUS
<1>1. CASE Read
  BY <1>1, OutcomeFails DEF Read, Errors
<1>2. ASSUME pc = "asking", NEW error \in {"connection", "http", "response"}, NextModel(error)
      PROVE  Outcome!Next \/ UNCHANGED row
  BY <1>2, OutcomeFails DEF NextModel, Errors
<1>3. CASE TryAgain \/ GiveUpModel
  BY <1>2, <1>3 DEF TryAgain, GiveUpModel
<1>4. CASE Break
  BY <1>4, OutcomeFails DEF Break, Errors
<1>5. ASSUME NEW a \in Answers, Reply(a) PROVE Outcome!Next \/ UNCHANGED row
  BY <1>5, OutcomeFails DEF Reply, Errors
<1>6. CASE Store
  <2>1. CASE Fails("other")
    BY <1>6, <2>1, OutcomeFails DEF Store, Errors
  <2>2. CASE row' = [status |-> "completed", stored |-> InProse(answer, names),
                     error |-> "none", repairs |-> repairs]
    <3>1. row.status = "processing" /\ repairs \in {0, 1}
      BY <1>6, Typed DEF Store, RunInv, Reporting
    <3>2. InProse(answer, names) \in NamedAnalyses
      BY <1>6, StoredIsNamed
    <3>3. Outcome!Complete(InProse(answer, names), repairs)
      BY <2>2, <3>1 DEF Outcome!Complete
    <3> QED
      BY <3>1, <3>2, <3>3 DEF Outcome!Next
  <2> QED
    BY <1>6, <2>1, <2>2 DEF Store
<1>7. CASE UNCHANGED vars
  BY <1>7 DEF vars
<1> QED
  BY <1>1, <1>3, <1>4, <1>5, <1>6, <1>7 DEF Next, Ask

\* A run implements AnalysisOutcome: it ends once, with an analysis that passed the
\* checks, under the names typed, or with an error and nothing stored.
THEOREM OutcomeTheorem == Spec => ImplementsOutcome
<1>1. Init => Outcome!Init
  BY DEF Init, Outcome!Init
<1>2. RunInv /\ [Next]_vars => [Outcome!Next]_<<row.status, row.stored, row.repairs>>
  BY OutcomeStep
<1> QED
  BY <1>1, <1>2, InvAlways, PTL DEF Spec, ImplementsOutcome, Outcome!Spec
==============================================================================
