------------------------ MODULE MappingJobLifecycle ------------------------
(***************************************************************************)
(* What the mapping-job API promises to a client that submits a job and    *)
(* polls it, with no thread, lock, lease or table in sight: a job is       *)
(* accepted only below the capacity, settles exactly once, keeps its       *)
(* outcome for as long as it is remembered, and once forgotten never comes *)
(* back.  MappingJobs implements it when storage does not fail.            *)
(***************************************************************************)
EXTENDS Naturals, FiniteSets

CONSTANTS JobIds, MAX_ACTIVE_JOBS

VARIABLE view       \* what a poll of each job id would answer

Outcomes == {"completed", "failed", "canceled"}
Views == {"unsubmitted", "active", "forgotten"} \cup Outcomes

In(states) == {j \in JobIds : view[j] \in states}

\* The view after job ids in gone are forgotten and id j shows state v.
Shows(j, v, gone) ==
    view' = [i \in JobIds |-> IF i = j THEN v
                              ELSE IF i \in gone THEN "forgotten" ELSE view[i]]

LifecycleInit == view = [j \in JobIds |-> "unsubmitted"]

\* Accepting a job may forget settled ones.
Submit(j) ==
    /\ view[j] = "unsubmitted"
    /\ Cardinality(In({"active"})) < MAX_ACTIVE_JOBS
    /\ \E gone \in SUBSET In(Outcomes) : Shows(j, "active", gone)

\* So may settling one, but never the one that settles.
Settle(j) ==
    /\ view[j] = "active"
    /\ \E outcome \in Outcomes, gone \in SUBSET In(Outcomes) :
          Shows(j, outcome, gone)

Forget ==
    \E gone \in SUBSET In(Outcomes) :
        view' = [i \in JobIds |-> IF i \in gone THEN "forgotten" ELSE view[i]]

\* A restart fails every active job at once.
Interrupt ==
    view' = [i \in JobIds |-> IF view[i] = "active" THEN "failed" ELSE view[i]]

LifecycleNext ==
    \/ \E j \in JobIds : Submit(j) \/ Settle(j)
    \/ Forget
    \/ Interrupt

LifecycleSafety == LifecycleInit /\ [][LifecycleNext]_view

\* Every accepted job settles.
LifecycleSpec == LifecycleSafety /\ \A j \in JobIds : WF_view(Settle(j))
=============================================================================
