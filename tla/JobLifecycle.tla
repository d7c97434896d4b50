---------------------------- MODULE JobLifecycle ----------------------------
(* What the job queue promises its users: a job is owned by at most one     *)
(* worker, only its owner ends it, an ended job keeps its result until it   *)
(* is discarded, and a job goes back to the queue only when its owner is    *)
(* gone.                                                                    *)
EXTENDS Naturals

CONSTANTS Jobs, Workers, Results, NoResult

VARIABLES
    state,   \* the status of a job
    owners,  \* the workers that own it
    result   \* what it has produced

Init ==
    /\ state = [j \in Jobs |-> "none"]
    /\ owners = [j \in Jobs |-> {}]
    /\ result = [j \in Jobs |-> NoResult]

Move(j, from, to) ==
    /\ state[j] \in from
    /\ state' = [state EXCEPT ![j] = to]

Submit(j) == Move(j, {"none"}, "uploaded") /\ UNCHANGED <<owners, result>>

Enqueue(j) == Move(j, {"uploaded", "failed"}, "queued") /\ UNCHANGED <<owners, result>>

Claim(j, w) ==
    /\ Move(j, {"queued"}, "processing")
    /\ owners[j] = {}
    /\ owners' = [owners EXCEPT ![j] = {w}]
    /\ UNCHANGED result

End(j, w, to, r) ==
    /\ owners[j] = {w}
    /\ Move(j, {"processing"}, to)
    /\ owners' = [owners EXCEPT ![j] = {}]
    /\ result' = [result EXCEPT ![j] = r]

Complete(j, w, r) == r \in Results /\ End(j, w, "completed", r)

Fail(j, w) == End(j, w, "failed", NoResult)

\* Workers die; the jobs they owned are left without an owner.
Die(W) ==
    /\ owners' = [j \in Jobs |-> owners[j] \ W]
    /\ UNCHANGED <<state, result>>

Recover(J) ==
    /\ \A j \in J : state[j] = "processing" /\ owners[j] = {}
    /\ state' = [j \in Jobs |-> IF j \in J THEN "queued" ELSE state[j]]
    /\ UNCHANGED <<owners, result>>

\* A job may be given up at any time, and its owner with it.
Discard(j) ==
    /\ state[j] # "none"
    /\ state' = [state EXCEPT ![j] = "deleted"]
    /\ owners' = [owners EXCEPT ![j] = {}]
    /\ result' = [result EXCEPT ![j] = NoResult]

Next ==
    \/ \E j \in Jobs : Submit(j) \/ Enqueue(j) \/ Discard(j)
    \/ \E j \in Jobs, w \in Workers :
          Claim(j, w) \/ Fail(j, w) \/ \E r \in Results : Complete(j, w, r)
    \/ \E W \in SUBSET Workers : Die(W)
    \/ \E J \in SUBSET Jobs : Recover(J)

Spec == Init /\ [][Next]_<<state, owners, result>>
==============================================================================
