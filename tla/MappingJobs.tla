---------------------------- MODULE MappingJobs ----------------------------
(***************************************************************************)
(* The asynchronous mapping-job runtime of                                 *)
(* backend/app/services/mapping_job_service.py over its SQLite store.      *)
(*                                                                         *)
(* Three parties act on the shared job table:                              *)
(*   - the event loop, which runs one request handler at a time: start,    *)
(*     cancel, get_status and runtime_status;                              *)
(*   - one daemon thread per started job, running _run_worker;             *)
(*   - the operating system, which may restart the process.                *)
(* Every method of MappingJobStore holds self._lock for its whole body, so *)
(* one locked body is one action here, and a thread is a program counter   *)
(* over the locked bodies that _run_worker calls one after the other.      *)
(* A storage call may raise (disk full, "database is locked" after the     *)
(* busy timeout): such a fault is an action too, bounded by MaxFaults.     *)
(*                                                                         *)
(* Data is abstracted to presence: a response, an error text, a lease, a   *)
(* worker id are there or not.  Wall-clock time is abstracted to the order *)
(* of the updated_at stamps of finished jobs (later) plus a free choice of *)
(* how far the retention clock has moved.                                  *)
(***************************************************************************)
EXTENDS Naturals, FiniteSets

CONSTANTS
    JobIds,             \* uuid4 values the process will hand out
    MAX_ACTIVE_JOBS,
    MAX_FINISHED_JOBS,
    MaxCheckpoints,     \* bound: progress messages one worker emits
    MaxRestarts,        \* bound: restarts of the process
    MaxFaults           \* bound: storage calls that raise

ASSUME BoundsAssumption ==
    /\ MAX_ACTIVE_JOBS \in Nat \ {0}
    /\ MAX_FINISHED_JOBS \in Nat \ {0}
    /\ MaxCheckpoints \in Nat
    /\ MaxRestarts \in Nat
    /\ MaxFaults \in Nat

ASSUME JobIdsAssumption == IsFiniteSet(JobIds)

VARIABLES
    store,      \* the mapping_jobs table
    later,      \* later[j]: finished jobs stamped after finished job j
    pc,         \* where the thread of each job is, "none" without one
    emitted,    \* progress messages the worker of each job has emitted
    submitted,  \* ids handed out so far; uuid4 never repeats one
    promised,   \* history: the status a cancel was accepted at while a
                \* check of the thread was still ahead, "none" otherwise
    restarts, faults

vars == <<store, later, pc, emitted, submitted, promised, restarts, faults>>
-----------------------------------------------------------------------------
ACTIVE_JOB_STATUSES == {"queued", "running", "cancel_requested"}
FINISHED_JOB_STATUSES == {"completed", "failed", "canceled"}

\* "absent" stands for a missing row: the store's get_job raises KeyError.
MappingJob ==
    [status : ACTIVE_JOB_STATUSES \cup FINISHED_JOB_STATUSES \cup {"absent"},
     cancel_requested : BOOLEAN, canceled_at : BOOLEAN,
     worker_id : BOOLEAN, lease : BOOLEAN, recovery_signal : BOOLEAN,
     response : BOOLEAN, error : BOOLEAN]

NoJob ==
    [status |-> "absent", cancel_requested |-> FALSE, canceled_at |-> FALSE,
     worker_id |-> FALSE, lease |-> FALSE, recovery_signal |-> FALSE,
     response |-> FALSE, error |-> FALSE]

QueuedJob == [NoJob EXCEPT !.status = "queued"]

Active(s) == {j \in JobIds : s[j].status \in ACTIVE_JOB_STATUSES}
Finished(s) == {j \in JobIds : s[j].status \in FINISHED_JOB_STATUSES}

\* A broken _touch_job_locked that never drops a lease.
TouchKeepingLease(job) ==
    [job EXCEPT !.lease = job.lease \/ job.worker_id]

\* _touch_job_locked: an active claimed job renews its lease, a finished one
\* drops it, a job that is active but not yet claimed keeps what it has.
Touch(job) ==
    [job EXCEPT !.lease = IF job.status \in FINISHED_JOB_STATUSES THEN FALSE
                          ELSE job.lease \/ job.worker_id]

\* The order of the updated_at stamps once job j of table s is saved.
Stamped(s, l, j) ==
    [i \in JobIds |-> IF i = j \/ i \notin Finished(s) THEN {}
                      ELSE IF j \in Finished(s) THEN l[i] \cup {j} ELSE l[i]]

-----------------------------------------------------------------------------
(* Retention: prune_finished_jobs.                                         *)

\* Broken prunes: without the overflow cut, newest first, blind to the status.
PrunableByAgeOnly(s, l, fresh) ==
    {gone \in SUBSET (Finished(s) \ fresh) :
        \A g \in gone, k \in Finished(s) \ gone : k \in l[g]}

PrunableNewestFirst(s, l, fresh) ==
    {gone \in SUBSET Finished(s) :
        /\ Cardinality(Finished(s) \ gone) <= MAX_FINISHED_JOBS
        /\ \A g \in gone, k \in Finished(s) \ gone : k \notin l[g]}

PrunableAnyRow(s, l, fresh) ==
    {gone \in SUBSET (Active(s) \cup Finished(s)) :
        Cardinality(Finished(s) \ gone) <= MAX_FINISHED_JOBS}

\* The sets of rows one prune of table s may delete: the finished jobs older
\* than the TTL, and of the others the oldest beyond MAX_FINISHED_JOBS.  The
\* clock is free, so any cut through the stamps can be the TTL; jobs with
\* one and the same stamp expire together, and the overflow cut may separate
\* them (there sorted() goes on to compare the random ids).  Jobs saved in
\* the same locked body (fresh) are milliseconds old and cannot have expired.
Prunable(s, l, fresh) ==
    {gone \in SUBSET Finished(s) :
        LET kept == Finished(s) \ gone IN
        /\ Cardinality(kept) <= MAX_FINISHED_JOBS
        /\ \A g \in gone, k \in kept : g \notin l[k]
        /\ Cardinality(kept) < MAX_FINISHED_JOBS =>
              /\ gone \cap fresh = {}
              /\ \A g \in gone, k \in kept : k \in l[g]}

Without(s, gone) == [j \in JobIds |-> IF j \in gone THEN NoJob ELSE s[j]]
StampsWithout(l, gone) ==
    [j \in JobIds |-> IF j \in gone THEN {} ELSE l[j] \ gone]

-----------------------------------------------------------------------------
(* The thread of a job.                                                    *)

\* The locked bodies of _run_worker in their order.  "work" is the worker
\* callback between two of its progress messages.
\*   first_check     _is_cancel_requested before anything else
\*   early_note, early_canceled     canceled before execution
\*   claim, set_running, note_started
\*   callback_note, callback_check  one progress checkpoint
\*   final_check     _is_cancel_requested on the returned response
\*   late_note, late_canceled       canceled by that check, inside the try
\*   set_response, note_completed, set_completed
\*   cancel_note, set_canceled      the except ProgressCallbackCancelled
\*   fail_note, set_error, set_failed   the except Exception
BeforeTry == {"first_check", "early_note", "early_canceled", "claim",
              "set_running", "note_started"}
InCallback == {"callback_note", "callback_check"}
InTry == {"final_check", "late_note", "late_canceled", "set_response",
          "note_completed", "set_completed"}
InHandlers == {"cancel_note", "set_canceled",
               "fail_note", "set_error", "set_failed"}
PCs == BeforeTry \cup InCallback \cup InTry \cup InHandlers \cup {"work", "none"}

\* The points from which the thread still reads the cancel flag before it
\* stores a response.
CheckAhead == {"first_check", "claim", "set_running", "note_started", "work",
               "callback_note", "callback_check", "final_check"}

\* A broken handler that notes the cancellation and forgets the status.
AfterNoteForgettingCancel ==
    [early_note |-> "early_canceled", note_started |-> "work",
     callback_note |-> "callback_check", late_note |-> "late_canceled",
     note_completed |-> "set_completed", cancel_note |-> "none",
     fail_note |-> "set_error"]

AfterNote ==
    [early_note |-> "early_canceled", note_started |-> "work",
     callback_note |-> "callback_check", late_note |-> "late_canceled",
     note_completed |-> "set_completed", cancel_note |-> "set_canceled",
     fail_note |-> "set_error"]

FinalStatus ==
    [early_canceled |-> "canceled", late_canceled |-> "canceled",
     set_canceled |-> "canceled", set_completed |-> "completed",
     set_failed |-> "failed"]

\* Where an exception raised at point p goes: _emit_progress swallows what a
\* progress callback raises (cancellation apart), the try turns it into a
\* failure, and outside the try it ends the thread.
Handler(p) == IF p \in InCallback THEN "work"
              ELSE IF p \in InTry THEN "fail_note" ELSE "none"

Present(j) == store[j].status # "absent"

CancelSeen(j) ==
    store[j].status = "cancel_requested" \/ store[j].cancel_requested

Goto(j, to) == pc' = [pc EXCEPT ![j] = to]

\* Save row j of the table and stamp it.
Save(j, job) ==
    LET s == [store EXCEPT ![j] = Touch(job)] IN
    /\ store' = s
    /\ later' = Stamped(s, later, j)

Fault == faults < MaxFaults /\ faults' = faults + 1

FirstCheck(j) ==
    /\ pc[j] = "first_check"
    /\ Goto(j, IF CancelSeen(j) THEN "early_note" ELSE "claim")
    /\ UNCHANGED <<store, later, emitted, submitted, promised, restarts, faults>>

\* append_activity: reads the row, appends the event line, saves the row.
Note(j) ==
    /\ pc[j] \in DOMAIN AfterNote
    /\ Present(j)
    /\ Save(j, store[j])
    /\ Goto(j, AfterNote[pc[j]])
    /\ UNCHANGED <<emitted, submitted, promised, restarts, faults>>

Claimed(job) ==
    [job EXCEPT !.worker_id = TRUE, !.lease = TRUE, !.recovery_signal = FALSE]

Claim(j) ==
    /\ pc[j] = "claim"
    /\ Present(j)
    /\ Save(j, Claimed(store[j]))
    /\ Goto(j, "set_running")
    /\ UNCHANGED <<emitted, submitted, promised, restarts, faults>>

\* The row _set_status writes: the status is overwritten whatever it was, and
\* no caller passes "cancel_requested", so the cancel flag is reset.
WithStatus(job, status) ==
    [job EXCEPT !.status = status, !.cancel_requested = FALSE,
                !.canceled_at = (status = "canceled")]

SetRunning(j) ==
    /\ pc[j] = "set_running"
    /\ Present(j)
    /\ Save(j, WithStatus(store[j], "running"))
    /\ Goto(j, "note_started")
    /\ UNCHANGED <<emitted, submitted, promised, restarts, faults>>

\* The worker emits its next progress message, returns or raises.
Work(j) ==
    /\ pc[j] = "work"
    /\ \/ /\ emitted[j] < MaxCheckpoints
          /\ emitted' = [emitted EXCEPT ![j] = @ + 1]
          /\ Goto(j, "callback_note")
       \/ /\ Goto(j, "final_check")
          /\ UNCHANGED emitted
       \/ /\ Goto(j, "fail_note")
          /\ UNCHANGED emitted
    /\ UNCHANGED <<store, later, submitted, promised, restarts, faults>>

CallbackCheck(j) ==
    /\ pc[j] = "callback_check"
    /\ Goto(j, IF CancelSeen(j) THEN "cancel_note" ELSE "work")
    /\ UNCHANGED <<store, later, emitted, submitted, promised, restarts, faults>>

\* A broken _run_worker that does not look at the flag after the worker returns.
FinalCheckSkipped(j) ==
    /\ pc[j] = "final_check"
    /\ Goto(j, "set_response")
    /\ UNCHANGED <<store, later, emitted, submitted, promised, restarts, faults>>

FinalCheck(j) ==
    /\ pc[j] = "final_check"
    /\ Goto(j, IF CancelSeen(j) THEN "late_note" ELSE "set_response")
    /\ UNCHANGED <<store, later, emitted, submitted, promised, restarts, faults>>

WithResponse(job) == [job EXCEPT !.response = TRUE]
WithError(job) == [job EXCEPT !.error = TRUE]

SetResponse(j) ==
    /\ pc[j] = "set_response"
    /\ Present(j)
    /\ Save(j, WithResponse(store[j]))
    /\ Goto(j, "note_completed")
    /\ UNCHANGED <<emitted, submitted, promised, restarts, faults>>

SetError(j) ==
    /\ pc[j] = "set_error"
    /\ Present(j)
    /\ Save(j, WithError(store[j]))
    /\ Goto(j, "set_failed")
    /\ UNCHANGED <<emitted, submitted, promised, restarts, faults>>

\* _set_status with a finished status: save, then prune in the same locked
\* body, then the thread ends.  When the prune raises, the row is saved.
Finish(j) ==
    /\ pc[j] \in DOMAIN FinalStatus
    /\ Present(j)
    /\ LET s == [store EXCEPT
                    ![j] = Touch(WithStatus(store[j], FinalStatus[pc[j]]))]
           l == Stamped(s, later, j)
       IN \/ /\ \E gone \in Prunable(s, l, {j}) :
                   /\ store' = Without(s, gone)
                   /\ later' = StampsWithout(l, gone)
             /\ Goto(j, "none")
             /\ UNCHANGED faults
          \/ /\ Fault
             /\ store' = s
             /\ later' = l
             /\ Goto(j, Handler(pc[j]))
    /\ UNCHANGED <<emitted, submitted, promised, restarts>>

\* A locked body raises before it saves anything: get_job of a deleted row
\* (the cancel check alone catches that KeyError), or a storage fault.
Raise(j) ==
    /\ pc[j] \notin {"none", "work"}
    /\ \/ /\ ~Present(j)
          /\ pc[j] \notin {"first_check", "callback_check", "final_check"}
          /\ UNCHANGED faults
       \/ Fault
    /\ Goto(j, Handler(pc[j]))
    /\ UNCHANGED <<store, later, emitted, submitted, promised, restarts>>

ThreadStep(j) ==
    \/ FirstCheck(j) \/ Note(j) \/ Claim(j) \/ SetRunning(j) \/ Work(j)
    \/ CallbackCheck(j) \/ FinalCheck(j) \/ SetResponse(j) \/ SetError(j)
    \/ Finish(j) \/ Raise(j)

-----------------------------------------------------------------------------
(* Requests, one handler at a time on the event loop.                      *)

\* A broken capacity test, off by one, and the code's.
AboveCapacity(s) == Cardinality(Active(s)) > MAX_ACTIVE_JOBS
AtCapacity(s) == Cardinality(Active(s)) >= MAX_ACTIVE_JOBS

\* start: prune, refuse at capacity, save a queued row, then start a thread
\* outside the lock; threading.Thread.start may raise after the row is saved.
Start(j) ==
    /\ j \notin submitted
    /\ \E gone \in Prunable(store, later, {}) :
          LET s == Without(store, gone) IN
          /\ ~AtCapacity(s)
          /\ store' = [s EXCEPT ![j] = QueuedJob]
          /\ later' = StampsWithout(later, gone)
    /\ submitted' = submitted \cup {j}
    /\ \/ /\ Goto(j, "first_check")
          /\ UNCHANGED faults
       \/ /\ Fault
          /\ UNCHANGED pc
    /\ UNCHANGED <<emitted, promised, restarts>>

\* get_status and runtime_status, the start that is refused at capacity, and
\* the cancel that finds no row, a finished job or one already being canceled
\* all do just this: prune.
Prune ==
    /\ \E gone \in Prunable(store, later, {}) :
          /\ store' = Without(store, gone)
          /\ later' = StampsWithout(later, gone)
    /\ UNCHANGED <<pc, emitted, submitted, promised, restarts, faults>>

CancelRequested(job) ==
    [job EXCEPT !.status = "cancel_requested", !.cancel_requested = TRUE]

\* cancel of an active job that is not yet being canceled: prune, mark the
\* row, append the activity line that promises a stop at the next checkpoint.
Cancel(j) ==
    /\ store[j].status \in {"queued", "running"}
    /\ \E gone \in Prunable(store, later, {}) :
          /\ store' = [Without(store, gone) EXCEPT
                          ![j] = Touch(CancelRequested(store[j]))]
          /\ later' = StampsWithout(later, gone)
    /\ promised' = [promised EXCEPT
                       ![j] = IF pc[j] \in CheckAhead THEN store[j].status
                              ELSE @]
    /\ UNCHANGED <<pc, emitted, submitted, restarts, faults>>

-----------------------------------------------------------------------------
(* The process.                                                            *)

\* Broken recoveries: no error text, and a job that was being canceled left
\* as it was.
RecoveredWithoutError(job) ==
    [job EXCEPT !.status = "failed", !.lease = FALSE,
                !.recovery_signal = TRUE, !.cancel_requested = FALSE]

RecoveredUnlessCanceling(job) ==
    IF job.status = "cancel_requested" THEN job
    ELSE [job EXCEPT !.status = "failed", !.lease = FALSE,
                     !.recovery_signal = TRUE, !.error = TRUE]

\* fail_active_mapping_jobs.
Recovered(job) ==
    [job EXCEPT !.status = "failed", !.lease = FALSE,
                !.recovery_signal = TRUE, !.error = TRUE,
                !.cancel_requested = FALSE]

\* The process dies with its daemon threads and comes up again: importing
\* the module constructs the SQLite store, whose constructor fails every job
\* left active, all with one stamp.
Restart ==
    /\ restarts < MaxRestarts
    /\ restarts' = restarts + 1
    /\ store' = [j \in JobIds |-> IF j \in Active(store)
                                  THEN Recovered(store[j]) ELSE store[j]]
    /\ later' = [j \in JobIds |-> IF j \in Finished(store)
                                  THEN later[j] \cup Active(store) ELSE {}]
    /\ pc' = [j \in JobIds |-> "none"]
    /\ UNCHANGED <<emitted, submitted, promised, faults>>

-----------------------------------------------------------------------------
Init ==
    /\ store = [j \in JobIds |-> NoJob]
    /\ later = [j \in JobIds |-> {}]
    /\ pc = [j \in JobIds |-> "none"]
    /\ emitted = [j \in JobIds |-> 0]
    /\ submitted = {}
    /\ promised = [j \in JobIds |-> "none"]
    /\ restarts = 0
    /\ faults = 0

Next ==
    \/ \E j \in JobIds : Start(j) \/ Cancel(j) \/ ThreadStep(j)
    \/ Prune
    \/ Restart

Spec == Init /\ [][Next]_vars

\* A thread that can take a step takes it: every lock is released after a
\* bounded body and the worker callback terminates.  Nothing is assumed of
\* requests and restarts.
FairSpec == Spec /\ \A j \in JobIds : WF_vars(ThreadStep(j))

-----------------------------------------------------------------------------
(* Properties.                                                             *)

\* Every row of the table has a status _run_worker, cancel or the recovery
\* knows, and every thread is at one of the locked bodies of _run_worker.
TypeOK ==
    /\ store \in [JobIds -> MappingJob]
    /\ later \in [JobIds -> SUBSET JobIds]
    /\ pc \in [JobIds -> PCs]
    /\ emitted \in [JobIds -> 0..MaxCheckpoints]
    /\ submitted \in SUBSET JobIds
    /\ promised \in [JobIds -> {"none", "queued", "running"}]
    /\ restarts \in 0..MaxRestarts
    /\ faults \in 0..MaxFaults

\* start's count under the lock keeps the number of jobs in an active status
\* within MAX_ACTIVE_JOBS, whatever the threads write between two starts.
CapacityRespected == Cardinality(Active(store)) <= MAX_ACTIVE_JOBS

\* The table never holds more rows than both limits together: a restart turns
\* active jobs into finished ones past the retention limit, but start prunes
\* before it adds a row, so the excess never accumulates over restarts.
StoreBounded ==
    Cardinality(Active(store) \cup Finished(store))
        <= MAX_ACTIVE_JOBS + MAX_FINISHED_JOBS

\* What a client reads with a final status is there: a completed job has its
\* response, a failed one its error (set_response and _set_error run before
\* _set_status, in separate locked bodies, with restarts and faults between),
\* and a canceled one has its time stamp and no response.  A row with both the
\* response and an error comes of a fault after the response was stored (the
\* final prune raised) or of a restart before "completed" was saved, and of
\* nothing the threads and requests do among themselves.
OutcomeMatchesArtifacts ==
    \A j \in JobIds :
        /\ store[j].status = "completed" => store[j].response
        /\ store[j].status = "failed" => store[j].error
        /\ store[j].status = "canceled" =>
               store[j].canceled_at /\ ~store[j].response
        /\ store[j].response /\ store[j].error => faults + restarts > 0

\* A lease is held exactly while a job is active and claimed by a worker:
\* neither a finish nor a recovery leaves one behind, and a cancel request on
\* a job nobody claimed takes none.
LeaseFollowsClaim ==
    \A j \in JobIds :
        store[j].lease <=> j \in Active(store) /\ store[j].worker_id

\* A cancel accepted for a running job while one of the thread's cancel
\* checks is still ahead is never answered with a completed job.
AcceptedCancelPreventsCompletion ==
    \A j \in JobIds : promised[j] = "running" => store[j].status # "completed"

\* What the activity line of cancel promises, for a job in any active status:
\* "the current step will stop at the next progress checkpoint".
EveryAcceptedCancelPreventsCompletion ==
    \A j \in JobIds : promised[j] # "none" => store[j].status # "completed"

\* Jobs left active without a thread, which hold capacity until a restart:
\* a storage fault strands at most one, and without a fault there are none.
StrandedByFaults ==
    Cardinality({j \in Active(store) : pc[j] = "none"}) <= faults

\* The prune at the end of a finishing _set_status never deletes the job that
\* has just finished: its client can still poll the outcome.
OwnResultSurvives ==
    [][\A j \in JobIds :
          (pc[j] \in DOMAIN FinalStatus /\ pc'[j] = "none" /\ Present(j)
              /\ UNCHANGED <<restarts, faults>>)
          => store'[j].status = FinalStatus[pc[j]]]_vars

\* Every active job leaves the active statuses: the worker settles it, or a
\* restart fails it.  No request has to help.
EveryJobSettles ==
    \A j \in JobIds : j \in Active(store) ~> j \notin Active(store)

-----------------------------------------------------------------------------
(* The inductive strengthening: what ties a row to the thread that owns it. *)

FailPCs == {"fail_note", "set_error", "set_failed"}
BeforeRunning == BeforeTry \ {"note_started"}
ResponseStored == {"note_completed", "set_completed"}
PastChecks == ResponseStored \cup {"set_response"}

\* Row row of a job, its thread at p, its cancel accepted at status accepted,
\* its id known to have been handed out.
RowInv(row, p, accepted, known) ==
    \* an id that was not handed out has left no trace
    /\ ~known => row = NoJob /\ p = "none" /\ accepted = "none"
    \* a thread that has not failed owns an active row
    /\ p \notin FailPCs \cup {"none"} => row.status \in ACTIVE_JOB_STATUSES
    /\ p \in BeforeRunning => row.status \in {"queued", "cancel_requested"}
    \* the response is stored on the way to completed and nowhere else
    /\ p \in ResponseStored => row.response
    /\ p \notin ResponseStored \cup FailPCs \cup {"none"} => ~row.response
    /\ row.status = "completed" => row.response
    /\ row.status = "canceled" => row.canceled_at /\ ~row.response
    \* the error is stored before the failed status
    /\ p = "set_failed" /\ row.status # "absent" => row.error
    /\ row.status = "failed" => row.error
    \* the lease follows the claim
    /\ row.lease <=> row.status \in ACTIVE_JOB_STATUSES /\ row.worker_id
    \* an accepted cancel stays visible until a check has seen it
    /\ accepted = "running" =>
          \/ row.status \in {"failed", "canceled", "absent"}
          \/ row.status = "cancel_requested" /\ p \notin BeforeRunning \cup PastChecks

RowsConsistent ==
    \A j \in JobIds : RowInv(store[j], pc[j], promised[j], j \in submitted)

\* The error is stored by the error path alone, and undisturbed, a job that
\* has its response is not on it.
OneOutcome ==
    \A j \in JobIds :
        /\ pc[j] \notin {"set_failed", "none"} => ~store[j].error
        /\ store[j].response /\ (store[j].error \/ pc[j] \in FailPCs) =>
               faults + restarts > 0

-----------------------------------------------------------------------------
(* The client's view, for the refinement of MappingJobLifecycle.           *)

ClientView ==
    [j \in JobIds |-> IF j \notin submitted THEN "unsubmitted"
                      ELSE IF j \in Active(store) THEN "active"
                      ELSE IF ~Present(j) THEN "forgotten"
                      ELSE store[j].status]

Lifecycle == INSTANCE MappingJobLifecycle WITH view <- ClientView

\* Every run of the job runtime is, to its clients, a run of the lifecycle,
\* its promise that accepted jobs settle included.
ImplementsLifecycle == Lifecycle!LifecycleSpec
=============================================================================
