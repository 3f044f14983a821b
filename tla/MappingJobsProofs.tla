------------------------- MODULE MappingJobsProofs -------------------------
(***************************************************************************)
(* Theorems about MappingJobs, for every set of job ids, every limit and   *)
(* every number of checkpoints, restarts and storage faults: first what a  *)
(* row says of its job, then what is counted (capacity, table size,        *)
(* stranded jobs, the retention that never drops a job at its own finish), *)
(* with storage that does not fail, the safety part of the refinement of   *)
(* MappingJobLifecycle (its liveness part is model-checked), and last the  *)
(* count that falls with every step of a thread.                           *)
(***************************************************************************)
EXTENDS MappingJobs, FiniteSetTheorems, TLAPS

-----------------------------------------------------------------------------
(* The tables of _run_worker, point by point.                              *)

\* After an activity line the thread goes to the next point of _run_worker.
LEMMA NoteTargets ==
    /\ DOMAIN AfterNote = {"early_note", "note_started", "callback_note",
                           "late_note", "note_completed", "cancel_note", "fail_note"}
    /\ AfterNote["early_note"] = "early_canceled"
    /\ AfterNote["note_started"] = "work"
    /\ AfterNote["callback_note"] = "callback_check"
    /\ AfterNote["late_note"] = "late_canceled"
    /\ AfterNote["note_completed"] = "set_completed"
    /\ AfterNote["cancel_note"] = "set_canceled"
    /\ AfterNote["fail_note"] = "set_error"
  BY DEF AfterNote

\* The five points that write a final status.
LEMMA FinalStatuses ==
    /\ DOMAIN FinalStatus = {"early_canceled", "late_canceled", "set_canceled",
                             "set_completed", "set_failed"}
    /\ FinalStatus["early_canceled"] = "canceled"
    /\ FinalStatus["late_canceled"] = "canceled"
    /\ FinalStatus["set_canceled"] = "canceled"
    /\ FinalStatus["set_completed"] = "completed"
    /\ FinalStatus["set_failed"] = "failed"
  BY DEF FinalStatus

\* An exception goes to the worker, to the except clause or out of the thread.
LEMMA HandlerTargets ==
    ASSUME NEW p \in PCs
    PROVE  /\ p \in InCallback => Handler(p) = "work"
           /\ p \in InTry => Handler(p) = "fail_note"
           /\ p \notin InCallback \cup InTry => Handler(p) = "none"
  BY DEF Handler, InCallback, InTry

-----------------------------------------------------------------------------
(* Rows, stamps and prunes keep their types.                               *)

\* The rows the code builds are rows.
LEMMA RowTypes ==
    /\ NoJob \in MappingJob
    /\ QueuedJob \in MappingJob
    /\ \A job \in MappingJob :
          /\ Touch(job) \in MappingJob
          /\ Recovered(job) \in MappingJob
          /\ CancelRequested(job) \in MappingJob
          /\ Claimed(job) \in MappingJob
          /\ WithResponse(job) \in MappingJob
          /\ WithError(job) \in MappingJob
          /\ \A st \in FINISHED_JOB_STATUSES \cup {"running"} :
                WithStatus(job, st) \in MappingJob
<1>1. NoJob \in MappingJob /\ QueuedJob \in MappingJob
  BY DEF NoJob, QueuedJob, MappingJob, ACTIVE_JOB_STATUSES
<1>2. ASSUME NEW job \in MappingJob
      PROVE  /\ Touch(job) \in MappingJob
             /\ Claimed(job) \in MappingJob
             /\ WithResponse(job) \in MappingJob
             /\ WithError(job) \in MappingJob
  BY DEF MappingJob, Touch, Claimed, WithResponse, WithError
<1>3. ASSUME NEW job \in MappingJob
      PROVE  Recovered(job) \in MappingJob /\ CancelRequested(job) \in MappingJob
  BY DEF MappingJob, Recovered, CancelRequested,
         ACTIVE_JOB_STATUSES, FINISHED_JOB_STATUSES
<1>4. ASSUME NEW job \in MappingJob, NEW st \in FINISHED_JOB_STATUSES \cup {"running"}
      PROVE  WithStatus(job, st) \in MappingJob
  BY DEF MappingJob, WithStatus, ACTIVE_JOB_STATUSES
<1>5. QED  BY <1>1, <1>2, <1>3, <1>4

\* _touch_job_locked touches the lease alone.
LEMMA TouchFields ==
    ASSUME NEW job \in MappingJob
    PROVE  /\ Touch(job).lease = IF job.status \in FINISHED_JOB_STATUSES THEN FALSE
                                 ELSE job.lease \/ job.worker_id
           /\ Touch(job).status = job.status
           /\ Touch(job).worker_id = job.worker_id
           /\ Touch(job).response = job.response
           /\ Touch(job).error = job.error
           /\ Touch(job).canceled_at = job.canceled_at
  BY DEF MappingJob, Touch

\* A claim takes the worker id and the lease.
LEMMA ClaimedFields ==
    ASSUME NEW job \in MappingJob
    PROVE  /\ Claimed(job).worker_id
           /\ Claimed(job).lease
           /\ Claimed(job).status = job.status
           /\ Claimed(job).response = job.response
           /\ Claimed(job).error = job.error
           /\ Claimed(job).canceled_at = job.canceled_at
  BY DEF MappingJob, Claimed

\* set_response stores the response and _set_error the error, nothing else.
LEMMA ArtifactFields ==
    ASSUME NEW job \in MappingJob
    PROVE  /\ WithResponse(job).response
           /\ WithResponse(job).error = job.error
           /\ WithResponse(job).status = job.status
           /\ WithResponse(job).worker_id = job.worker_id
           /\ WithResponse(job).lease = job.lease
           /\ WithResponse(job).canceled_at = job.canceled_at
           /\ WithError(job).error
           /\ WithError(job).response = job.response
           /\ WithError(job).status = job.status
           /\ WithError(job).worker_id = job.worker_id
           /\ WithError(job).lease = job.lease
           /\ WithError(job).canceled_at = job.canceled_at
  BY DEF MappingJob, WithResponse, WithError

\* _set_status writes the status and its time stamp.
LEMMA StatusFields ==
    ASSUME NEW job \in MappingJob, NEW st
    PROVE  /\ WithStatus(job, st).status = st
           /\ WithStatus(job, st).canceled_at = (st = "canceled")
           /\ WithStatus(job, st).response = job.response
           /\ WithStatus(job, st).error = job.error
           /\ WithStatus(job, st).worker_id = job.worker_id
           /\ WithStatus(job, st).lease = job.lease
  BY DEF MappingJob, WithStatus

\* A cancel request writes the status and the flag.
LEMMA CancelFields ==
    ASSUME NEW job \in MappingJob
    PROVE  /\ CancelRequested(job).status = "cancel_requested"
           /\ CancelRequested(job).response = job.response
           /\ CancelRequested(job).error = job.error
           /\ CancelRequested(job).worker_id = job.worker_id
           /\ CancelRequested(job).lease = job.lease
           /\ CancelRequested(job).canceled_at = job.canceled_at
  BY DEF MappingJob, CancelRequested

\* The recovery fails a job with an error and takes its lease away.
LEMMA RecoveredFields ==
    ASSUME NEW job \in MappingJob
    PROVE  /\ Recovered(job).status = "failed"
           /\ Recovered(job).error
           /\ ~Recovered(job).lease
           /\ Recovered(job).response = job.response
  BY DEF MappingJob, Recovered

\* Saving a row and deleting rows yield a table and stamps again.
LEMMA TableTypes ==
    ASSUME NEW s \in [JobIds -> MappingJob], NEW l \in [JobIds -> SUBSET JobIds]
    PROVE  /\ \A j \in JobIds : Stamped(s, l, j) \in [JobIds -> SUBSET JobIds]
           /\ \A gone : /\ Without(s, gone) \in [JobIds -> MappingJob]
                        /\ StampsWithout(l, gone) \in [JobIds -> SUBSET JobIds]
  BY RowTypes DEF Stamped, Without, StampsWithout

\* _touch_job_locked and the store's upsert keep the table's type.
LEMMA SaveType ==
    ASSUME TypeOK, NEW j \in JobIds, NEW job \in MappingJob, Save(j, job)
    PROVE  store' \in [JobIds -> MappingJob] /\ later' \in [JobIds -> SUBSET JobIds]
  BY RowTypes, TableTypes DEF TypeOK, Save

\* Every point of _run_worker leads to a point of _run_worker.
LEMMA StepTargets ==
    /\ \A p \in DOMAIN AfterNote : AfterNote[p] \in PCs
    /\ \A p \in PCs : Handler(p) \in PCs
    /\ \A p \in DOMAIN FinalStatus : FinalStatus[p] \in FINISHED_JOB_STATUSES
  BY NoteTargets, HandlerTargets, FinalStatuses
     DEF PCs, BeforeTry, InCallback, InTry, InHandlers, FINISHED_JOB_STATUSES

-----------------------------------------------------------------------------
(* Type correctness.                                                       *)

\* The thread's steps keep every variable in its type.
LEMMA ThreadStepType ==
    ASSUME TypeOK, NEW j \in JobIds, ThreadStep(j)
    PROVE  TypeOK'
<1> USE BoundsAssumption
<1>0. \A p \in {"early_note", "claim", "set_running", "note_started",
                "callback_note", "work", "final_check", "cancel_note", "late_note",
                "set_response", "note_completed", "set_failed", "fail_note", "none"} :
         p \in PCs
  BY DEF PCs, BeforeTry, InCallback, InTry, InHandlers
<1>1. store[j] \in MappingJob /\ pc[j] \in PCs
  BY DEF TypeOK
<1>2. CASE FirstCheck(j)
  BY <1>0, <1>2 DEF FirstCheck, Goto, TypeOK
<1>3. CASE Note(j)
  BY <1>1, <1>3, SaveType, StepTargets DEF Note, Goto, TypeOK
<1>4. CASE Claim(j)
  <2>1. Claimed(store[j]) \in MappingJob
    BY <1>1, RowTypes
  <2>2. QED  BY <1>0, <1>4, <2>1, SaveType DEF Claim, Goto, TypeOK
<1>5. CASE SetRunning(j)
  <2>1. WithStatus(store[j], "running") \in MappingJob
    BY <1>1, RowTypes
  <2>2. QED  BY <1>0, <1>5, <2>1, SaveType DEF SetRunning, Goto, TypeOK
<1>6. CASE Work(j)
  BY <1>0, <1>6 DEF Work, Goto, TypeOK
<1>7. CASE CallbackCheck(j)
  BY <1>0, <1>7 DEF CallbackCheck, Goto, TypeOK
<1>8. CASE FinalCheck(j)
  BY <1>0, <1>8 DEF FinalCheck, Goto, TypeOK
<1>9. CASE SetResponse(j)
  <2>1. WithResponse(store[j]) \in MappingJob
    BY <1>1, RowTypes
  <2>2. QED  BY <1>0, <1>9, <2>1, SaveType DEF SetResponse, Goto, TypeOK
<1>10. CASE SetError(j)
  <2>1. WithError(store[j]) \in MappingJob
    BY <1>1, RowTypes
  <2>2. QED  BY <1>0, <1>10, <2>1, SaveType DEF SetError, Goto, TypeOK
<1>11. CASE Finish(j)
  <2> DEFINE s == [store EXCEPT ![j] = Touch(WithStatus(store[j], FinalStatus[pc[j]]))]
             l == Stamped(s, later, j)
  <2>1. FinalStatus[pc[j]] \in FINISHED_JOB_STATUSES
    BY <1>11, StepTargets DEF Finish
  <2>2. s \in [JobIds -> MappingJob]
    BY <1>1, <2>1, RowTypes DEF TypeOK
  <2>3. l \in [JobIds -> SUBSET JobIds]
    BY <2>2, TableTypes DEF TypeOK
  <2> HIDE DEF s, l
  <2>4. store' \in [JobIds -> MappingJob] /\ later' \in [JobIds -> SUBSET JobIds]
    <3>1. \/ \E gone : store' = Without(s, gone) /\ later' = StampsWithout(l, gone)
          \/ store' = s /\ later' = l
      BY <1>11 DEF Finish, s, l
    <3>2. QED  BY <2>2, <2>3, <3>1, TableTypes
  <2>5. faults' \in 0..MaxFaults
    BY <1>11 DEF Finish, Fault, TypeOK
  <2>6. pc' \in [JobIds -> PCs]
    BY <1>0, <1>1, <1>11, StepTargets DEF Finish, Goto, TypeOK
  <2>7. QED  BY <1>11, <2>4, <2>5, <2>6 DEF Finish, TypeOK
<1>12. CASE Raise(j)
  BY <1>1, <1>12, StepTargets DEF Raise, Fault, Goto, TypeOK
<1>13. QED
  BY <1>2, <1>3, <1>4, <1>5, <1>6, <1>7, <1>8, <1>9, <1>10, <1>11, <1>12
     DEF ThreadStep

\* So does a request about a job.
LEMMA RequestType ==
    ASSUME TypeOK, NEW j \in JobIds, Start(j) \/ Cancel(j)
    PROVE  TypeOK'
<1> USE BoundsAssumption
<1>1. "first_check" \in PCs /\ "none" \in PCs
  BY DEF PCs, BeforeTry
<1>2. CASE Start(j)
  <2>1. PICK gone \in Prunable(store, later, {}) :
           /\ store' = [Without(store, gone) EXCEPT ![j] = QueuedJob]
           /\ later' = StampsWithout(later, gone)
    BY <1>2 DEF Start
  <2>2. store' \in [JobIds -> MappingJob] /\ later' \in [JobIds -> SUBSET JobIds]
    BY <2>1, RowTypes, TableTypes DEF TypeOK
  <2>3. QED  BY <1>1, <1>2, <2>2 DEF Start, Fault, Goto, TypeOK
<1>3. CASE Cancel(j)
  <2>1. Touch(CancelRequested(store[j])) \in MappingJob
    BY RowTypes DEF TypeOK
  <2>2. store' \in [JobIds -> MappingJob] /\ later' \in [JobIds -> SUBSET JobIds]
    BY <1>3, <2>1, TableTypes DEF TypeOK, Cancel
  <2>3. promised' \in [JobIds -> {"none", "queued", "running"}]
    BY <1>3 DEF TypeOK, Cancel
  <2>4. QED  BY <1>3, <2>2, <2>3 DEF Cancel, TypeOK
<1>4. QED  BY <1>2, <1>3

\* Prunes and restarts do so too.
LEMMA EnvironmentType ==
    ASSUME TypeOK, Prune \/ Restart
    PROVE  TypeOK'
<1> USE BoundsAssumption
<1>1. CASE Prune
  BY <1>1, TableTypes DEF Prune, TypeOK
<1>2. CASE Restart
  <2>1. store' \in [JobIds -> MappingJob]
    BY <1>2, RowTypes DEF Restart, TypeOK
  <2>2. later' \in [JobIds -> SUBSET JobIds]
    BY <1>2 DEF Restart, TypeOK, Active
  <2>3. pc' \in [JobIds -> PCs]
    BY <1>2 DEF Restart, PCs
  <2>4. QED  BY <1>2, <2>1, <2>2, <2>3 DEF Restart, TypeOK
<1>3. QED  BY <1>1, <1>2

\* No step leaves the types.
LEMMA TypeStep == TypeOK /\ [Next]_vars => TypeOK'
<1> SUFFICES ASSUME TypeOK, [Next]_vars PROVE TypeOK'
  OBVIOUS
<1>1. CASE \E j \in JobIds : Start(j) \/ Cancel(j) \/ ThreadStep(j)
  BY <1>1, ThreadStepType, RequestType
<1>2. CASE Prune \/ Restart
  BY <1>2, EnvironmentType
<1>3. CASE UNCHANGED vars
  BY <1>3 DEF vars, TypeOK
<1>4. QED  BY <1>1, <1>2, <1>3 DEF Next

\* Every reachable table, stamp order and thread position has its type.
THEOREM TypeCorrect == Spec => []TypeOK
<1>1. Init => TypeOK
  BY RowTypes, BoundsAssumption DEF Init, TypeOK, PCs
<1>2. QED  BY <1>1, TypeStep, PTL DEF Spec

-----------------------------------------------------------------------------
(* The table and the threads agree.                                        *)

\* A row that a prune deletes was finished, so no live thread expects it.
LEMMA DeletedRow ==
    ASSUME NEW row \in MappingJob, NEW p \in PCs, NEW accepted, NEW known,
           RowInv(row, p, accepted, known), row.status \in FINISHED_JOB_STATUSES
    PROVE  RowInv(NoJob, p, accepted, known)
  BY DEF RowInv, NoJob, MappingJob, FINISHED_JOB_STATUSES, ACTIVE_JOB_STATUSES, FailPCs,
         BeforeRunning, ResponseStored, PCs, BeforeTry, InCallback, InTry, InHandlers

\* What a prune leaves of row i.
LEMMA PrunedRow ==
    ASSUME NEW s, NEW l, NEW fresh, NEW gone \in Prunable(s, l, fresh), NEW i \in JobIds
    PROVE  \/ Without(s, gone)[i] = s[i] /\ i \notin gone
           \/ Without(s, gone)[i] = NoJob /\ s[i].status \in FINISHED_JOB_STATUSES
  BY DEF Without, Prunable, Finished

\* The locked bodies that save row j and nothing else.
LEMMA SavedRow ==
    ASSUME TypeOK, NEW j \in JobIds, NEW job, Save(j, job)
    PROVE  /\ store'[j] = Touch(job)
           /\ \A i \in JobIds \ {j} : store'[i] = store[i]
  BY DEF TypeOK, Save

\* Each step of a thread keeps its own row in agreement with where it is.
LEMMA OwnRow ==
    ASSUME TypeOK, RowsConsistent, NEW j \in JobIds, ThreadStep(j)
    PROVE  RowInv(store'[j], pc'[j], promised'[j], j \in submitted')
<1> DEFINE row == store[j]
<1> USE DEF ACTIVE_JOB_STATUSES, FINISHED_JOB_STATUSES, FailPCs, BeforeRunning,
            ResponseStored, PastChecks, BeforeTry, InCallback, InTry, InHandlers
<1>1. /\ row \in MappingJob /\ pc[j] \in PCs
      /\ promised[j] \in {"none", "queued", "running"}
      /\ RowInv(row, pc[j], promised[j], j \in submitted)
  BY DEF TypeOK, RowsConsistent
<1>2. ASSUME NEW to, Goto(j, to) PROVE pc'[j] = to
  BY <1>2 DEF TypeOK, Goto
<1>3. CASE FirstCheck(j)
  BY <1>1, <1>2, <1>3 DEF FirstCheck, RowInv, CancelSeen
<1>4. CASE Note(j)
  <2> DEFINE saved == Touch(row)
  <2>1. /\ store'[j] = saved
        /\ pc[j] \in DOMAIN AfterNote /\ pc'[j] = AfterNote[pc[j]]
        /\ row.status # "absent"
        /\ UNCHANGED <<promised, submitted>>
    BY <1>2, <1>4, SavedRow DEF Note, Present
  <2>2. /\ saved \in MappingJob
        /\ saved.lease = IF row.status \in FINISHED_JOB_STATUSES THEN FALSE
                         ELSE row.lease \/ row.worker_id
        /\ saved.status = row.status
        /\ saved.worker_id = row.worker_id
        /\ saved.response = row.response
        /\ saved.error = row.error
        /\ saved.canceled_at = row.canceled_at
    BY <1>1, RowTypes, TouchFields
  <2> HIDE DEF saved
  <2>3. RowInv(saved, AfterNote[pc[j]], promised[j], j \in submitted)
    BY <1>1, <2>1, <2>2, NoteTargets DEF MappingJob, RowInv
  <2>4. QED  BY <2>1, <2>3
<1>5. CASE Claim(j)
  <2> DEFINE new == Claimed(row)
             saved == Touch(new)
  <2>1. /\ store'[j] = saved
        /\ pc[j] = "claim" /\ pc'[j] = "set_running"
        /\ UNCHANGED <<promised, submitted>>
    BY <1>2, <1>5, SavedRow DEF Claim
  <2>2. new \in MappingJob
    BY <1>1, RowTypes
  <2>3. /\ new.status = row.status
        /\ new.worker_id
        /\ new.lease
        /\ new.response = row.response
        /\ new.error = row.error
        /\ new.canceled_at = row.canceled_at
    BY <1>1, ClaimedFields
  <2> HIDE DEF new
  <2>4. /\ saved \in MappingJob
        /\ saved.lease = IF new.status \in FINISHED_JOB_STATUSES THEN FALSE
                         ELSE new.lease \/ new.worker_id
        /\ saved.status = new.status
        /\ saved.worker_id = new.worker_id
        /\ saved.response = new.response
        /\ saved.error = new.error
        /\ saved.canceled_at = new.canceled_at
    BY <2>2, RowTypes, TouchFields
  <2> HIDE DEF saved
  <2>5. RowInv(saved, "set_running", promised[j], j \in submitted)
    BY <1>1, <2>1, <2>2, <2>3, <2>4 DEF MappingJob, RowInv
  <2>6. QED  BY <2>1, <2>5
<1>6. CASE SetRunning(j)
  <2> DEFINE new == WithStatus(row, "running")
             saved == Touch(new)
  <2>1. /\ store'[j] = saved
        /\ pc[j] = "set_running" /\ pc'[j] = "note_started"
        /\ UNCHANGED <<promised, submitted>>
    BY <1>2, <1>6, SavedRow DEF SetRunning
  <2>2. new \in MappingJob
    BY <1>1, RowTypes
  <2>3. /\ new.status = "running"
        /\ new.worker_id = row.worker_id
        /\ new.lease = row.lease
        /\ new.response = row.response
        /\ new.error = row.error
        /\ ~new.canceled_at
    <3>1. row \in MappingJob
      BY <1>1
    <3>2. /\ WithStatus(row, "running").status = "running"
          /\ WithStatus(row, "running").canceled_at = ("running" = "canceled")
          /\ WithStatus(row, "running").response = row.response
          /\ WithStatus(row, "running").error = row.error
          /\ WithStatus(row, "running").worker_id = row.worker_id
          /\ WithStatus(row, "running").lease = row.lease
      BY ONLY <3>1, StatusFields
    <3> QED
      BY ONLY <3>2
  <2> HIDE DEF new
  <2>4. /\ saved \in MappingJob
        /\ saved.lease = IF new.status \in FINISHED_JOB_STATUSES THEN FALSE
                         ELSE new.lease \/ new.worker_id
        /\ saved.status = new.status
        /\ saved.worker_id = new.worker_id
        /\ saved.response = new.response
        /\ saved.error = new.error
        /\ saved.canceled_at = new.canceled_at
    BY <2>2, RowTypes, TouchFields
  <2> HIDE DEF saved
  <2>5. RowInv(saved, "note_started", promised[j], j \in submitted)
    BY <1>1, <2>1, <2>2, <2>3, <2>4 DEF MappingJob, RowInv
  <2>6. QED  BY <2>1, <2>5
<1>7. CASE Work(j)
  <2>1. pc'[j] \in {"callback_note", "final_check", "fail_note"}
    BY <1>2, <1>7 DEF Work
  <2>2. QED  BY <1>1, <1>7, <2>1 DEF Work, RowInv
<1>8. CASE CallbackCheck(j)
  BY <1>1, <1>2, <1>8 DEF CallbackCheck, RowInv, CancelSeen
<1>9. CASE FinalCheck(j)
  BY <1>1, <1>2, <1>9 DEF FinalCheck, RowInv, CancelSeen
<1>10. CASE SetResponse(j)
  <2> DEFINE new == WithResponse(row)
             saved == Touch(new)
  <2>1. /\ store'[j] = saved
        /\ pc[j] = "set_response" /\ pc'[j] = "note_completed"
        /\ UNCHANGED <<promised, submitted>>
    BY <1>2, <1>10, SavedRow DEF SetResponse
  <2>2. new \in MappingJob
    BY <1>1, RowTypes
  <2>3. /\ new.status = row.status
        /\ new.worker_id = row.worker_id
        /\ new.lease = row.lease
        /\ new.response
        /\ new.error = row.error
        /\ new.canceled_at = row.canceled_at
    BY <1>1, ArtifactFields
  <2> HIDE DEF new
  <2>4. /\ saved \in MappingJob
        /\ saved.lease = IF new.status \in FINISHED_JOB_STATUSES THEN FALSE
                         ELSE new.lease \/ new.worker_id
        /\ saved.status = new.status
        /\ saved.worker_id = new.worker_id
        /\ saved.response = new.response
        /\ saved.error = new.error
        /\ saved.canceled_at = new.canceled_at
    BY <2>2, RowTypes, TouchFields
  <2> HIDE DEF saved
  <2>5. RowInv(saved, "note_completed", promised[j], j \in submitted)
    BY <1>1, <2>1, <2>2, <2>3, <2>4 DEF MappingJob, RowInv
  <2>6. QED  BY <2>1, <2>5
<1>11. CASE SetError(j)
  <2> DEFINE new == WithError(row)
             saved == Touch(new)
  <2>1. /\ store'[j] = saved
        /\ pc[j] = "set_error" /\ pc'[j] = "set_failed"
        /\ row.status # "absent"
        /\ UNCHANGED <<promised, submitted>>
    BY <1>2, <1>11, SavedRow DEF SetError, Present
  <2>2. new \in MappingJob
    BY <1>1, RowTypes
  <2>3. /\ new.status = row.status
        /\ new.worker_id = row.worker_id
        /\ new.lease = row.lease
        /\ new.response = row.response
        /\ new.error
        /\ new.canceled_at = row.canceled_at
    BY <1>1, ArtifactFields
  <2> HIDE DEF new
  <2>4. /\ saved \in MappingJob
        /\ saved.lease = IF new.status \in FINISHED_JOB_STATUSES THEN FALSE
                         ELSE new.lease \/ new.worker_id
        /\ saved.status = new.status
        /\ saved.worker_id = new.worker_id
        /\ saved.response = new.response
        /\ saved.error = new.error
        /\ saved.canceled_at = new.canceled_at
    BY <2>2, RowTypes, TouchFields
  <2> HIDE DEF saved
  <2>5. RowInv(saved, "set_failed", promised[j], j \in submitted)
    BY <1>1, <2>1, <2>2, <2>3, <2>4 DEF MappingJob, RowInv
  <2>6. QED  BY <2>1, <2>5
<1>12. CASE Finish(j)
  <2> DEFINE new == WithStatus(row, FinalStatus[pc[j]])
             final == Touch(new)
  <2>0. /\ pc[j] \in DOMAIN FinalStatus
        /\ FinalStatus[pc[j]] \in FINISHED_JOB_STATUSES
        /\ row.status # "absent"
    BY <1>1, <1>12, StepTargets DEF Finish, Present
  <2>1. new \in MappingJob /\ new.status \in FINISHED_JOB_STATUSES
    BY <1>1, <2>0, RowTypes, StatusFields
  <2>2a. /\ new.status = FinalStatus[pc[j]]
         /\ new.canceled_at = (FinalStatus[pc[j]] = "canceled")
         /\ new.response = row.response /\ new.error = row.error
    BY <1>1, StatusFields, SMTT(60)
  <2>2b. \/ store'[j] \in {final, NoJob} /\ pc'[j] = "none"
         \/ store'[j] = final /\ pc'[j] \in {"none", "fail_note"}
    BY <1>1, <1>2, <1>12, HandlerTargets, FinalStatuses
       DEF Finish, Without, TypeOK
  <2> HIDE DEF new
  <2>2c. /\ final \in MappingJob /\ final.status = new.status /\ ~final.lease
         /\ final.canceled_at = new.canceled_at
         /\ final.response = new.response /\ final.error = new.error
    BY <2>1, RowTypes, TouchFields
  <2> HIDE DEF final
  <2>2. RowInv(final, "none", promised[j], j \in submitted)
    BY <1>1, <2>0, <2>2a, <2>2c, FinalStatuses DEF MappingJob, RowInv
  <2>3. RowInv(final, "fail_note", promised[j], j \in submitted)
    BY <1>1, <2>0, <2>2a, <2>2c, FinalStatuses DEF MappingJob, RowInv
  <2>5. RowInv(NoJob, "none", promised[j], j \in submitted)
    BY <1>1, <2>1, <2>2a, <2>2c, <2>2, DeletedRow DEF PCs
  <2>6. QED  BY <1>12, <2>2, <2>3, <2>2b, <2>5 DEF Finish
<1>13. CASE Raise(j)
  <2>1. pc'[j] = Handler(pc[j])
    BY <1>2, <1>13 DEF Raise
  <2>2. QED  BY <1>1, <1>13, <2>1, HandlerTargets DEF Raise, RowInv, PCs
<1>14. QED
  BY <1>3, <1>4, <1>5, <1>6, <1>7, <1>8, <1>9, <1>10, <1>11, <1>12, <1>13
     DEF ThreadStep

\* A prune leaves every row in agreement with the thread that owns it.
LEMMA RowAfterPrune ==
    ASSUME TypeOK, RowsConsistent, NEW i \in JobIds,
           NEW s, s[i] = store[i], NEW l, NEW fresh, NEW gone \in Prunable(s, l, fresh)
    PROVE  RowInv(Without(s, gone)[i], pc[i], promised[i], i \in submitted)
<1>1. /\ store[i] \in MappingJob /\ pc[i] \in PCs
      /\ RowInv(store[i], pc[i], promised[i], i \in submitted)
  BY DEF TypeOK, RowsConsistent
<1>2. CASE Without(s, gone)[i] = s[i]
  BY <1>1, <1>2
<1>3. CASE Without(s, gone)[i] = NoJob /\ s[i].status \in FINISHED_JOB_STATUSES
  BY <1>1, <1>3, DeletedRow
<1>4. QED  BY <1>2, <1>3, PrunedRow

\* A step of a thread leaves the other rows alone or prunes them.
LEMMA OtherRows ==
    ASSUME TypeOK, RowsConsistent, NEW j \in JobIds, ThreadStep(j),
           NEW i \in JobIds \ {j}
    PROVE  RowInv(store'[i], pc'[i], promised'[i], i \in submitted')
<1>1. pc'[i] = pc[i] /\ promised'[i] = promised[i] /\ submitted' = submitted
  BY DEF TypeOK, ThreadStep, FirstCheck, Note, Claim, SetRunning, Work, CallbackCheck,
         FinalCheck, SetResponse, SetError, Finish, Raise, Goto
<1>2. CASE ~Finish(j)
  <2>1. store'[i] = store[i]
    BY <1>2 DEF TypeOK, ThreadStep, FirstCheck, Note, Claim, SetRunning, Work,
                CallbackCheck, FinalCheck, SetResponse, SetError, Raise, Save
  <2>2. QED  BY <1>1, <2>1 DEF RowsConsistent
<1>3. CASE Finish(j)
  <2> DEFINE s == [store EXCEPT ![j] = Touch(WithStatus(store[j], FinalStatus[pc[j]]))]
             l == Stamped(s, later, j)
  <2>1. s[i] = store[i]
    BY DEF TypeOK
  <2>2. \/ \E gone \in Prunable(s, l, {j}) : store' = Without(s, gone)
        \/ store' = s
    BY <1>3 DEF Finish
  <2> HIDE DEF s, l
  <2>3. CASE store' = s
    BY <1>1, <2>1, <2>3 DEF RowsConsistent
  <2>4. CASE \E gone \in Prunable(s, l, {j}) : store' = Without(s, gone)
    BY <1>1, <2>1, <2>4, RowAfterPrune
  <2>5. QED  BY <2>2, <2>3, <2>4
<1>4. QED  BY <1>2, <1>3

\* A start adds a queued row with its thread, or without when the thread does
\* not come up, and prunes others.
LEMMA StartRows ==
    ASSUME TypeOK, RowsConsistent, NEW j \in JobIds, Start(j), NEW i \in JobIds
    PROVE  RowInv(store'[i], pc'[i], promised'[i], i \in submitted')
<1>1. PICK gone \in Prunable(store, later, {}) :
         store' = [Without(store, gone) EXCEPT ![j] = QueuedJob]
  BY DEF Start
<1>2. j \notin submitted /\ submitted' = submitted \cup {j} /\ promised' = promised
  BY DEF Start
<1>3. CASE i = j
  <2>1. store'[j] = QueuedJob
    BY <1>1 DEF Without
  <2>2. promised[j] = "none" /\ pc[j] = "none"
    BY <1>2 DEF RowsConsistent, RowInv
  <2>3. pc'[j] \in {"first_check", "none"}
    BY <2>2 DEF Start, Goto, TypeOK
  <2>4. RowInv(QueuedJob, pc'[j], "none", TRUE)
    BY <2>3 DEF RowInv, QueuedJob, NoJob, ACTIVE_JOB_STATUSES, FailPCs, BeforeRunning,
                BeforeTry, ResponseStored
  <2>5. QED  BY <1>2, <1>3, <2>1, <2>2, <2>4
<1>4. CASE i # j
  <2>1. pc'[i] = pc[i]
    BY <1>4 DEF Start, Goto, TypeOK
  <2>2. store'[i] = Without(store, gone)[i]
    BY <1>1, <1>4 DEF Without
  <2>3. (i \in submitted') = (i \in submitted)
    BY <1>2, <1>4
  <2>4. QED  BY <1>2, <2>1, <2>2, <2>3, RowAfterPrune
<1>5. QED  BY <1>3, <1>4

\* A cancel marks an active row and prunes others; it is promised only while a
\* check of the thread is ahead.
LEMMA CancelRows ==
    ASSUME TypeOK, RowsConsistent, NEW j \in JobIds, Cancel(j), NEW i \in JobIds
    PROVE  RowInv(store'[i], pc'[i], promised'[i], i \in submitted')
<1> DEFINE row == store[j]
           new == CancelRequested(row)
           saved == Touch(new)
<1>1. PICK gone \in Prunable(store, later, {}) :
         store' = [Without(store, gone) EXCEPT ![j] = saved]
  BY DEF Cancel
<1>2. /\ row.status \in {"queued", "running"}
      /\ pc' = pc /\ submitted' = submitted
      /\ promised' = [promised EXCEPT
                         ![j] = IF pc[j] \in CheckAhead THEN row.status ELSE @]
  BY DEF Cancel
<1>3. CASE i = j
  <2>1. /\ row \in MappingJob /\ pc[j] \in PCs
        /\ promised[j] \in {"none", "queued", "running"}
        /\ RowInv(row, pc[j], promised[j], j \in submitted)
    BY DEF TypeOK, RowsConsistent
  <2>2. /\ new \in MappingJob
        /\ new.status = "cancel_requested"
        /\ new.worker_id = row.worker_id /\ new.lease = row.lease
        /\ new.response = row.response /\ new.error = row.error
    BY <2>1, RowTypes, CancelFields
  <2> HIDE DEF new
  <2>3. /\ saved \in MappingJob
        /\ saved.status = "cancel_requested"
        /\ saved.worker_id = row.worker_id /\ saved.lease = (row.lease \/ row.worker_id)
        /\ saved.response = row.response /\ saved.error = row.error
    BY <2>2, RowTypes, TouchFields DEF FINISHED_JOB_STATUSES
  <2> HIDE DEF saved
  <2>4. store'[j] = saved
    BY <1>1 DEF Without
  <2>5. promised'[j] = IF pc[j] \in CheckAhead THEN row.status ELSE promised[j]
    BY <1>2 DEF TypeOK
  <2>6. RowInv(saved, pc[j], promised'[j], j \in submitted)
    BY <1>2, <2>1, <2>3, <2>5
       DEF RowInv, MappingJob, NoJob, ACTIVE_JOB_STATUSES, FailPCs, BeforeRunning,
           BeforeTry, ResponseStored, PastChecks, CheckAhead
  <2>7. QED  BY <1>2, <1>3, <2>4, <2>6
<1>4. CASE i # j
  <2>1. promised'[i] = promised[i]
    BY <1>2, <1>4 DEF TypeOK
  <2>2. store'[i] = Without(store, gone)[i]
    BY <1>1, <1>4 DEF Without
  <2>3. QED  BY <1>2, <2>1, <2>2, RowAfterPrune
<1>5. QED  BY <1>3, <1>4

\* A restart ends every thread and fails every row left active.
LEMMA RestartRows ==
    ASSUME TypeOK, RowsConsistent, Restart, NEW i \in JobIds
    PROVE  RowInv(store'[i], pc'[i], promised'[i], i \in submitted')
<1> DEFINE row == store[i]
           new == Recovered(row)
<1>1. /\ row \in MappingJob /\ pc[i] \in PCs
      /\ RowInv(row, pc[i], promised[i], i \in submitted)
  BY DEF TypeOK, RowsConsistent
<1>2. /\ store'[i] = IF row.status \in ACTIVE_JOB_STATUSES THEN new ELSE row
      /\ pc'[i] = "none" /\ promised' = promised /\ submitted' = submitted
  BY DEF Restart, Active
<1>3. /\ new.status = "failed" /\ new.error /\ ~new.lease /\ new \in MappingJob
  BY <1>1, RowTypes, RecoveredFields
<1> HIDE DEF new
<1>4. RowInv(new, "none", promised[i], i \in submitted) \/ row = NoJob
  BY <1>1, <1>3 DEF RowInv, MappingJob, ACTIVE_JOB_STATUSES, FailPCs, BeforeRunning,
                    BeforeTry, ResponseStored, PastChecks
<1>5. row.status \notin ACTIVE_JOB_STATUSES
         => RowInv(row, "none", promised[i], i \in submitted)
  BY <1>1 DEF RowInv, MappingJob, ACTIVE_JOB_STATUSES, FailPCs, BeforeRunning,
              BeforeTry, ResponseStored, PastChecks
<1>6. NoJob.status \notin ACTIVE_JOB_STATUSES
  BY DEF NoJob, ACTIVE_JOB_STATUSES
<1>7. QED  BY <1>2, <1>4, <1>5, <1>6

\* In every reachable state each row agrees with the thread that owns it: the
\* invariant behind the properties of the job runtime.
THEOREM RowsAgree == Spec => []RowsConsistent
<1>1. Init => RowsConsistent
  BY DEF Init, RowsConsistent, RowInv, NoJob, ACTIVE_JOB_STATUSES, FailPCs,
         BeforeRunning, BeforeTry, ResponseStored
<1>2. TypeOK /\ RowsConsistent /\ [Next]_vars => RowsConsistent'
  <2> SUFFICES ASSUME TypeOK, RowsConsistent, [Next]_vars, NEW i \in JobIds
               PROVE  RowInv(store'[i], pc'[i], promised'[i], i \in submitted')
    BY DEF RowsConsistent
  <2>1. CASE \E j \in JobIds : ThreadStep(j)
    BY <2>1, OwnRow, OtherRows
  <2>2. CASE \E j \in JobIds : Start(j)
    BY <2>2, StartRows
  <2>3. CASE \E j \in JobIds : Cancel(j)
    BY <2>3, CancelRows
  <2>4. CASE Prune
    BY <2>4, RowAfterPrune DEF Prune
  <2>5. CASE Restart
    BY <2>5, RestartRows
  <2>6. CASE UNCHANGED vars
    BY <2>6 DEF vars, RowsConsistent
  <2>7. QED  BY <2>1, <2>2, <2>3, <2>4, <2>5, <2>6 DEF Next
<1>3. QED  BY <1>1, <1>2, TypeCorrect, PTL DEF Spec

\* What a step does to the artifacts of row i: nothing, unless its own thread
\* stores one, or the row is new, pruned or recovered.
LEMMA ArtifactsKept ==
    ASSUME TypeOK, RowsConsistent, [Next]_vars, NEW i \in JobIds,
           ~(SetResponse(i) \/ SetError(i)), restarts' = restarts
    PROVE  \/ store'[i].response = store[i].response /\ store'[i].error = store[i].error
           \/ ~store'[i].response /\ ~store'[i].error
<1> DEFINE Kept == \/ /\ store'[i].response = store[i].response
                      /\ store'[i].error = store[i].error
                   \/ ~store'[i].response /\ ~store'[i].error
<1>1. store[i] \in MappingJob /\ pc[i] \in PCs
  BY DEF TypeOK
<1>2. ~NoJob.response /\ ~NoJob.error /\ ~QueuedJob.response /\ ~QueuedJob.error
  BY DEF NoJob, QueuedJob
<1>3. ASSUME NEW s, NEW l, NEW fresh, NEW gone \in Prunable(s, l, fresh),
             store'[i] = Without(s, gone)[i],
             s[i].response = store[i].response /\ s[i].error = store[i].error
      PROVE  Kept
  BY <1>2, <1>3, PrunedRow
<1>4. ASSUME NEW j \in JobIds, ThreadStep(j) PROVE Kept
  <2>1. CASE Note(j) \/ Claim(j) \/ SetRunning(j)
    <3>1. PICK job : store' = [store EXCEPT ![j] = Touch(job)] /\ job \in MappingJob
                     /\ job.response = store[j].response /\ job.error = store[j].error
      <4>1. store[j] \in MappingJob
        BY DEF TypeOK
      <4>2. CASE Note(j)
        BY <4>1, <4>2 DEF Note, Save
      <4>3. CASE Claim(j)
        BY <4>1, <4>3, RowTypes, ClaimedFields DEF Claim, Save
      <4>4. CASE SetRunning(j)
        <5> DEFINE running == WithStatus(store[j], "running")
        <5>1. running \in MappingJob
          BY <4>1, RowTypes
        <5>2. running.response = store[j].response /\ running.error = store[j].error
          BY <4>1, StatusFields
        <5>3. store' = [store EXCEPT ![j] = Touch(running)]
          BY <4>4 DEF SetRunning, Save
        <5> HIDE DEF running
        <5> QED
          BY <5>1, <5>2, <5>3
      <4> QED
        BY <2>1, <4>2, <4>3, <4>4
    <3>2. Touch(job).response = job.response /\ Touch(job).error = job.error
      BY <3>1, TouchFields
    <3> QED
      BY <3>1, <3>2 DEF TypeOK
  <2>2. CASE SetResponse(j) \/ SetError(j)
    <3>1. i # j
      BY <2>2
    <3> QED
      BY <2>2, <3>1 DEF SetResponse, SetError, Save, TypeOK
  <2>3. CASE Finish(j)
    <3> DEFINE s == [store EXCEPT ![j] = Touch(WithStatus(store[j], FinalStatus[pc[j]]))]
               l == Stamped(s, later, j)
    <3>1. s[i].response = store[i].response /\ s[i].error = store[i].error
      <4>1. CASE i = j
        <5>1. FinalStatus[pc[j]] \in FINISHED_JOB_STATUSES
          BY <2>3, StepTargets DEF Finish
        <5>2. WithStatus(store[j], FinalStatus[pc[j]]) \in MappingJob
          BY <1>1, <4>1, <5>1, RowTypes
        <5>3. /\ WithStatus(store[j], FinalStatus[pc[j]]).response = store[j].response
              /\ WithStatus(store[j], FinalStatus[pc[j]]).error = store[j].error
          BY <1>1, <4>1, StatusFields
        <5>4. /\ Touch(WithStatus(store[j], FinalStatus[pc[j]])).response = store[j].response
              /\ Touch(WithStatus(store[j], FinalStatus[pc[j]])).error = store[j].error
          BY <5>2, <5>3, TouchFields
        <5> QED
          BY <4>1, <5>4 DEF TypeOK
      <4>2. CASE i # j
        BY <4>2 DEF TypeOK
      <4> QED
        BY <4>1, <4>2
    <3>2. \/ \E gone \in Prunable(s, l, {j}) : store' = Without(s, gone)
          \/ store' = s
      BY <2>3 DEF Finish
    <3> HIDE DEF s, l
    <3> QED
      BY <1>3, <3>1, <3>2
  <2>4. CASE FirstCheck(j) \/ Work(j) \/ CallbackCheck(j) \/ FinalCheck(j) \/ Raise(j)
    BY <2>4 DEF FirstCheck, Work, CallbackCheck, FinalCheck, Raise
  <2> QED
    BY <1>4, <2>1, <2>2, <2>3, <2>4 DEF ThreadStep
<1>5. ASSUME NEW j \in JobIds, Start(j) PROVE Kept
  <2>1. PICK gone \in Prunable(store, later, {}) :
           store' = [Without(store, gone) EXCEPT ![j] = QueuedJob]
    BY <1>5 DEF Start
  <2>2. store'[i] = QueuedJob \/ store'[i] = Without(store, gone)[i]
    BY <2>1 DEF Without
  <2> QED
    BY <1>2, <1>3, <2>2
<1>6. ASSUME NEW j \in JobIds, Cancel(j) PROVE Kept
  <2>1. PICK gone \in Prunable(store, later, {}) :
           store' = [Without(store, gone) EXCEPT ![j] = Touch(CancelRequested(store[j]))]
    BY <1>6 DEF Cancel
  <2>2. CASE i = j
    <3>1. CancelRequested(store[i]) \in MappingJob
      BY <1>1, RowTypes
    <3>2. /\ Touch(CancelRequested(store[i])).response = store[i].response
          /\ Touch(CancelRequested(store[i])).error = store[i].error
      BY <1>1, <3>1, TouchFields, CancelFields
    <3> QED
      BY <2>1, <2>2, <3>2 DEF Without
  <2>3. CASE i # j
    <3>1. store'[i] = Without(store, gone)[i]
      BY <2>1, <2>3 DEF Without
    <3> QED
      BY <1>3, <3>1
  <2> QED
    BY <2>2, <2>3
<1>7. CASE Prune
  BY <1>3, <1>7 DEF Prune
<1>8. ~Restart
  BY BoundsAssumption DEF Restart, TypeOK
<1>9. CASE UNCHANGED vars
  BY <1>9 DEF vars
<1>10. QED
  BY <1>4, <1>5, <1>6, <1>7, <1>8, <1>9 DEF Next

\* Faults and restarts are only counted up.
LEMMA CountersRise ==
    ASSUME TypeOK, [Next]_vars
    PROVE  /\ faults + restarts > 0 => faults' + restarts' > 0
           /\ faults' > faults \/ restarts' # restarts => faults' + restarts' > 0
<1>1. faults \in Nat /\ restarts \in Nat
  BY BoundsAssumption DEF TypeOK
<1>2. faults' = faults \/ faults' = faults + 1
  <2>1. ASSUME NEW j \in JobIds, ThreadStep(j) PROVE faults' = faults \/ faults' = faults + 1
    BY <2>1 DEF ThreadStep, Fault, FirstCheck, Note, Claim, SetRunning, Work, CallbackCheck,
       FinalCheck, SetResponse, SetError, Finish, Raise
  <2>2. ASSUME NEW j \in JobIds, Start(j) \/ Cancel(j)
        PROVE  faults' = faults \/ faults' = faults + 1
    BY <2>2 DEF Start, Cancel, Fault
  <2>3. Prune \/ Restart \/ UNCHANGED vars => faults' = faults
    BY DEF Prune, Restart, vars
  <2> QED
    BY <2>1, <2>2, <2>3 DEF Next
<1>3. restarts' = restarts \/ restarts' = restarts + 1
  <2>1. ASSUME NEW j \in JobIds, ThreadStep(j) PROVE restarts' = restarts
    BY <2>1 DEF ThreadStep, FirstCheck, Note, Claim, SetRunning, Work, CallbackCheck,
       FinalCheck, SetResponse, SetError, Finish, Raise
  <2>2. ASSUME NEW j \in JobIds, Start(j) \/ Cancel(j) PROVE restarts' = restarts
    BY <2>2 DEF Start, Cancel
  <2>3. /\ Prune \/ UNCHANGED vars => restarts' = restarts
        /\ Restart => restarts' = restarts + 1
    BY DEF Prune, Restart, vars
  <2> QED
    BY <2>1, <2>2, <2>3 DEF Next
<1>4. faults' + restarts' \in {faults + restarts, faults + restarts + 1,
                             faults + restarts + 2}
  BY <1>1, <1>2, <1>3
<1>5. faults + restarts > 0 => faults' + restarts' > 0
  BY <1>1, <1>4
<1>6. faults' > faults => faults' + restarts' > 0
  BY <1>1, <1>2, <1>3
<1>7. restarts' # restarts => faults' + restarts' > 0
  BY <1>1, <1>2, <1>3
<1> QED
  BY <1>5, <1>6, <1>7

\* Outside SetError a thread enters the error path from the worker, which has
\* no response yet, or by a fault; a thread that starts finds no error.
LEMMA FailuresEntered ==
    ASSUME TypeOK, RowsConsistent, [Next]_vars, NEW i \in JobIds,
           ~(SetResponse(i) \/ SetError(i))
    PROVE  /\ pc'[i] \notin {"set_failed", "none"} =>
                 pc[i] \notin {"set_failed", "none"} \/ ~store'[i].error
           /\ pc'[i] \in FailPCs =>
                 pc[i] \in FailPCs \/ ~store[i].response \/ faults' > faults
<1> DEFINE Entered ==
       /\ pc'[i] \notin {"set_failed", "none"} =>
             pc[i] \notin {"set_failed", "none"} \/ ~store'[i].error
       /\ pc'[i] \in FailPCs =>
             pc[i] \in FailPCs \/ ~store[i].response \/ faults' > faults
<1> SUFFICES Entered
  OBVIOUS
<1>1. pc[i] \in PCs /\ RowInv(store[i], pc[i], promised[i], i \in submitted)
  BY DEF TypeOK, RowsConsistent
<1>2. faults \in Nat /\ (Fault => faults' > faults)
  BY BoundsAssumption DEF TypeOK, Fault
<1>3. ASSUME NEW to, Goto(i, to) PROVE pc'[i] = to
  BY <1>3 DEF TypeOK, Goto
<1>4. pc'[i] = pc[i] => Entered
  BY DEF FailPCs
<1>5. CASE FirstCheck(i) \/ Claim(i) \/ SetRunning(i) \/ CallbackCheck(i) \/ FinalCheck(i)
  BY <1>3, <1>5 DEF FirstCheck, Claim, SetRunning, CallbackCheck, FinalCheck, FailPCs
<1>6. CASE Note(i)
  BY <1>3, <1>6, NoteTargets DEF Note, FailPCs
<1>7. CASE Work(i)
  <2>1. ~store[i].response
    BY <1>1, <1>7 DEF Work, RowInv, ResponseStored, FailPCs
  <2> QED
    BY <1>7, <2>1 DEF Work
<1>8. CASE Finish(i)
  <2>1. pc'[i] = "none" \/ (Fault /\ pc'[i] = Handler(pc[i]))
    BY <1>3, <1>8 DEF Finish
  <2>2. pc[i] # "none" /\ (pc[i] = "set_failed" => Handler(pc[i]) = "none")
    BY <1>1, <1>8, FinalStatuses, HandlerTargets DEF Finish, InCallback, InTry
  <2> QED
    BY <1>2, <2>1, <2>2 DEF FailPCs
<1>9. CASE Raise(i)
  <2>1. pc'[i] = Handler(pc[i]) /\ pc[i] # "none" /\ (~Present(i) \/ Fault)
    BY <1>3, <1>9 DEF Raise
  <2>2. pc[i] = "set_failed" => Handler(pc[i]) = "none"
    BY <1>1, HandlerTargets DEF InCallback, InTry
  <2>3. Handler(pc[i]) \in FailPCs => pc[i] \in InTry
    BY <1>1, HandlerTargets DEF FailPCs
  <2>4. pc[i] \in InTry => Present(i)
    BY <1>1 DEF RowInv, InTry, FailPCs, Present, ACTIVE_JOB_STATUSES
  <2> QED
    BY <1>2, <2>1, <2>2, <2>3, <2>4
<1>10. ASSUME NEW j \in JobIds \ {i}, ThreadStep(j) PROVE Entered
  <2>1. pc'[i] = pc[i]
    BY <1>10 DEF TypeOK, Goto, ThreadStep, FirstCheck, Note, Claim, SetRunning, Work,
       CallbackCheck, FinalCheck, SetResponse, SetError, Finish, Raise
  <2> QED
    BY <1>4, <2>1
<1>11. ASSUME NEW j \in JobIds, Start(j) PROVE Entered
  <2>1. CASE i # j
    BY <1>4, <1>11, <2>1 DEF Start, Goto, TypeOK
  <2>2. CASE i = j
    <3>1. PICK gone : store' = [Without(store, gone) EXCEPT ![i] = QueuedJob]
      BY <1>11, <2>2 DEF Start
    <3>2. ~store'[i].error
      BY <3>1 DEF Without, QueuedJob, NoJob
    <3>3. pc'[i] = "first_check" \/ pc'[i] = pc[i]
      BY <1>3, <1>11, <2>2 DEF Start
    <3> QED
      BY <1>4, <3>2, <3>3 DEF FailPCs
  <2> QED
    BY <2>1, <2>2
<1>12. CASE Prune \/ UNCHANGED vars \/ \E j \in JobIds : Cancel(j)
  BY <1>4, <1>12 DEF Prune, vars, Cancel
<1>13. CASE Restart
  BY <1>13 DEF Restart, FailPCs
<1> HIDE DEF Entered
<1>14. ASSUME NEW j \in JobIds, ThreadStep(j) PROVE Entered
  <2>1. CASE i # j
    BY <1>10, <1>14, <2>1
  <2>2. CASE i = j
    BY <1>5, <1>6, <1>7, <1>8, <1>9, <1>14, <2>2 DEF ThreadStep
  <2> QED
    BY <2>1, <2>2
<1> QED
  BY <1>11, <1>12, <1>13, <1>14 DEF Next

\* Only a fault or a restart leads from a stored response to an error.
LEMMA OneOutcomeStep ==
    ASSUME TypeOK, RowsConsistent, OneOutcome, [Next]_vars
    PROVE  OneOutcome'
<1>1. /\ faults + restarts > 0 => faults' + restarts' > 0
      /\ faults' > faults \/ restarts' # restarts => faults' + restarts' > 0
  BY CountersRise
<1> SUFFICES ASSUME NEW i \in JobIds
             PROVE  /\ pc'[i] \notin {"set_failed", "none"} => ~store'[i].error
                    /\ store'[i].response /\ (store'[i].error \/ pc'[i] \in FailPCs) =>
                           faults' + restarts' > 0
  BY DEF OneOutcome
<1> DEFINE row == store[i]
<1>2. /\ row \in MappingJob /\ pc[i] \in PCs
      /\ RowInv(row, pc[i], promised[i], i \in submitted)
      /\ pc[i] \notin {"set_failed", "none"} => ~row.error
      /\ row.response /\ (row.error \/ pc[i] \in FailPCs) => faults + restarts > 0
  BY DEF TypeOK, RowsConsistent, OneOutcome
<1>3. CASE SetResponse(i)
  <2>1. pc[i] = "set_response" /\ pc'[i] = "note_completed"
    BY <1>3 DEF SetResponse, Goto, TypeOK
  <2>2. WithResponse(row) \in MappingJob /\ WithResponse(row).error = row.error
    BY <1>2, RowTypes, ArtifactFields
  <2>3. store'[i] = Touch(WithResponse(row))
    BY <1>3, SavedRow DEF SetResponse
  <2>4. Touch(WithResponse(row)).error = WithResponse(row).error
    BY <2>2, TouchFields
  <2> QED
    BY <1>2, <2>1, <2>2, <2>3, <2>4 DEF FailPCs
<1>4. CASE SetError(i)
  <2>1. pc[i] = "set_error" /\ pc'[i] = "set_failed"
    BY <1>4 DEF SetError, Goto, TypeOK
  <2>2. WithError(row) \in MappingJob /\ WithError(row).response = row.response
    BY <1>2, RowTypes, ArtifactFields
  <2>3. store'[i] = Touch(WithError(row))
    BY <1>4, SavedRow DEF SetError
  <2>4. Touch(WithError(row)).response = WithError(row).response
    BY <2>2, TouchFields
  <2>5. store'[i].response => faults + restarts > 0
    BY <1>2, <2>1, <2>2, <2>3, <2>4 DEF FailPCs
  <2> QED
    BY <1>1, <2>1, <2>5
<1>5. CASE restarts' # restarts
  <2>1. Restart
    BY <1>5 DEF Next, vars, Start, Cancel, Prune, ThreadStep, FirstCheck, Note, Claim,
       SetRunning, Work, CallbackCheck, FinalCheck, SetResponse, SetError, Finish, Raise
  <2>2. pc'[i] = "none"
    BY <2>1 DEF Restart
  <2>3. faults' + restarts' > 0
    BY <1>1, <1>5
  <2> QED
    BY <2>2, <2>3
<1>6. CASE ~(SetResponse(i) \/ SetError(i)) /\ restarts' = restarts
  <2>1. \/ store'[i].response = row.response /\ store'[i].error = row.error
        \/ ~store'[i].response /\ ~store'[i].error
    BY <1>6, ArtifactsKept
  <2>2. pc'[i] \notin {"set_failed", "none"} => ~store'[i].error
    BY <1>2, <1>6, <2>1, FailuresEntered
  <2>3. pc'[i] \in FailPCs => pc[i] \in FailPCs \/ ~row.response \/ faults' > faults
    BY <1>6, FailuresEntered
  <2>4. store'[i].response /\ (store'[i].error \/ pc'[i] \in FailPCs) =>
           (row.response /\ (row.error \/ pc[i] \in FailPCs)) \/ faults' > faults
    BY <2>1, <2>3
  <2>5. faults + restarts > 0 \/ faults' > faults => faults' + restarts' > 0
    BY <1>1
  <2> QED
    BY <1>2, <2>2, <2>4, <2>5
<1>7. QED  BY <1>3, <1>4, <1>5, <1>6

\* What a client reads with a final status is there, and no row has the
\* artifacts of two outcomes unless a fault or a restart came between them.
THEOREM OutcomesHaveArtifacts == Spec => []OutcomeMatchesArtifacts
<1>1. RowsConsistent /\ OneOutcome => OutcomeMatchesArtifacts
  BY DEF RowsConsistent, RowInv, OneOutcome, OutcomeMatchesArtifacts
<1>2. Init => OneOutcome
  BY DEF Init, OneOutcome, NoJob
<1>3. QED  BY <1>1, <1>2, OneOutcomeStep, RowsAgree, TypeCorrect, PTL DEF Spec

\* A lease is held exactly while a claimed job is active.
THEOREM LeasesFollowClaims == Spec => []LeaseFollowsClaim
<1>1. TypeOK /\ RowsConsistent => LeaseFollowsClaim
  <2> SUFFICES ASSUME TypeOK, RowsConsistent, NEW j \in JobIds
               PROVE  store[j].lease <=> j \in Active(store) /\ store[j].worker_id
    BY DEF LeaseFollowsClaim
  <2>1. store[j].lease <=> store[j].status \in ACTIVE_JOB_STATUSES /\ store[j].worker_id
    BY DEF RowsConsistent, RowInv
  <2>2. QED  BY <2>1 DEF Active
<1>2. QED  BY <1>1, RowsAgree, TypeCorrect, PTL

\* A running job whose cancel was accepted in time never completes.
THEOREM AcceptedCancelsHold == Spec => []AcceptedCancelPreventsCompletion
<1>1. RowsConsistent => AcceptedCancelPreventsCompletion
  BY DEF RowsConsistent, RowInv, AcceptedCancelPreventsCompletion
<1>2. QED  BY <1>1, RowsAgree, PTL
-----------------------------------------------------------------------------
(* Which steps add rows, and which add active rows.                        *)

Rows(s) == Active(s) \cup Finished(s)

\* The sets the limits count are finite.
LEMMA CountedSets ==
    ASSUME NEW s
    PROVE  /\ IsFiniteSet(Active(s)) /\ IsFiniteSet(Finished(s)) /\ IsFiniteSet(Rows(s))
           /\ Cardinality(Active(s)) \in Nat
           /\ Cardinality(Finished(s)) \in Nat
           /\ Cardinality(Rows(s)) \in Nat
           /\ Cardinality(Rows(s)) <= Cardinality(Active(s)) + Cardinality(Finished(s))
<1>1. Active(s) \in SUBSET JobIds /\ Finished(s) \in SUBSET JobIds
  BY DEF Active, Finished
<1>2. IsFiniteSet(Active(s)) /\ IsFiniteSet(Finished(s))
  BY <1>1, FS_Subset, JobIdsAssumption
<1>3. /\ IsFiniteSet(Rows(s))
      /\ Cardinality(Rows(s)) = Cardinality(Active(s)) + Cardinality(Finished(s))
                                   - Cardinality(Active(s) \cap Finished(s))
  BY <1>2, FS_Union DEF Rows
<1>4. IsFiniteSet(Active(s) \cap Finished(s))
  BY <1>2, FS_Subset
<1>5. /\ Cardinality(Active(s)) \in Nat /\ Cardinality(Finished(s)) \in Nat
      /\ Cardinality(Rows(s)) \in Nat
      /\ Cardinality(Active(s) \cap Finished(s)) \in Nat
  BY <1>2, <1>3, <1>4, FS_CardinalityType
<1>6. QED  BY <1>2, <1>3, <1>5

\* One more element counts for at most one.
LEMMA OneMore ==
    ASSUME NEW S, IsFiniteSet(S), NEW x
    PROVE  IsFiniteSet(S \cup {x}) /\ Cardinality(S \cup {x}) <= Cardinality(S) + 1
<1>1. Cardinality(S) \in Nat
  BY FS_CardinalityType
<1>2. /\ IsFiniteSet(S \cup {x})
      /\ Cardinality(S \cup {x}) = IF x \in S THEN Cardinality(S) ELSE Cardinality(S) + 1
  BY FS_AddElement
<1>3. QED  BY <1>1, <1>2

\* A prune takes rows away, none of them active.
LEMMA PruneShrinks ==
    ASSUME NEW s, NEW l, NEW fresh, NEW gone \in Prunable(s, l, fresh)
    PROVE  /\ Active(Without(s, gone)) = Active(s)
           /\ Finished(Without(s, gone)) = Finished(s) \ gone
           /\ Cardinality(Finished(Without(s, gone))) <= MAX_FINISHED_JOBS
<1>1. gone \in SUBSET Finished(s) /\ Cardinality(Finished(s) \ gone) <= MAX_FINISHED_JOBS
  BY DEF Prunable
<1>2. NoJob.status \notin ACTIVE_JOB_STATUSES /\ NoJob.status \notin FINISHED_JOB_STATUSES
  BY DEF NoJob, ACTIVE_JOB_STATUSES, FINISHED_JOB_STATUSES
<1>3. \A j \in JobIds : Without(s, gone)[j] = IF j \in gone THEN NoJob ELSE s[j]
  BY DEF Without
<1>4. Active(Without(s, gone)) = Active(s)
  BY <1>1, <1>2, <1>3 DEF Active, Finished, ACTIVE_JOB_STATUSES, FINISHED_JOB_STATUSES
<1>5. Finished(Without(s, gone)) = Finished(s) \ gone
  BY <1>1, <1>2, <1>3 DEF Finished
<1>6. QED  BY <1>1, <1>4, <1>5

\* Saving a row keeps its status.
LEMMA SavedStatus ==
    ASSUME TypeOK, NEW j \in JobIds, NEW job \in MappingJob, Save(j, job)
    PROVE  store'[j].status = job.status
  BY SavedRow, TouchFields

\* Outside the finishing steps a thread keeps its row's status, or moves it
\* from one active status to another.
LEMMA ThreadKeepsPhase ==
    ASSUME TypeOK, RowsConsistent, NEW j \in JobIds, ThreadStep(j), ~Finish(j)
    PROVE  Active(store') = Active(store) /\ Finished(store') = Finished(store)
<1>1. \A i \in JobIds \ {j} : store'[i] = store[i]
  BY DEF TypeOK, ThreadStep, FirstCheck, Note, Claim, SetRunning, Work,
         CallbackCheck, FinalCheck, SetResponse, SetError, Raise, Save
<1>2. store[j] \in MappingJob
  BY DEF TypeOK
<1>3. \/ store'[j].status = store[j].status
      \/ store'[j].status \in ACTIVE_JOB_STATUSES /\ store[j].status \in ACTIVE_JOB_STATUSES
  <2>1. CASE Note(j)
    BY <1>2, <2>1, SavedStatus DEF Note
  <2>2. CASE Claim(j)
    <3>1. Claimed(store[j]) \in MappingJob /\ Claimed(store[j]).status = store[j].status
      BY <1>2, RowTypes, ClaimedFields
    <3>2. QED  BY <2>2, <3>1, SavedStatus DEF Claim
  <2>3. CASE SetResponse(j)
    <3>1. /\ WithResponse(store[j]) \in MappingJob
          /\ WithResponse(store[j]).status = store[j].status
      BY <1>2, RowTypes, ArtifactFields
    <3>2. QED  BY <2>3, <3>1, SavedStatus DEF SetResponse
  <2>4. CASE SetError(j)
    <3>1. WithError(store[j]) \in MappingJob /\ WithError(store[j]).status = store[j].status
      BY <1>2, RowTypes, ArtifactFields
    <3>2. QED  BY <2>4, <3>1, SavedStatus DEF SetError
  <2>5. CASE SetRunning(j)
    <3>1. WithStatus(store[j], "running") \in MappingJob
      BY <1>2, RowTypes
    <3>2. WithStatus(store[j], "running").status = "running"
      BY <1>2, StatusFields
    <3>5. store'[j].status = "running"
      BY <2>5, <3>1, <3>2, SavedStatus DEF SetRunning
    <3>3. store[j].status \in ACTIVE_JOB_STATUSES
      BY <2>5 DEF SetRunning, RowsConsistent, RowInv, FailPCs
    <3>4. QED  BY <3>5, <3>3 DEF ACTIVE_JOB_STATUSES
  <2>6. CASE FirstCheck(j) \/ Work(j) \/ CallbackCheck(j) \/ FinalCheck(j) \/ Raise(j)
    BY <2>6 DEF FirstCheck, Work, CallbackCheck, FinalCheck, Raise
  <2>7. QED  BY <2>1, <2>2, <2>3, <2>4, <2>5, <2>6 DEF ThreadStep
<1>4. ACTIVE_JOB_STATUSES \cap FINISHED_JOB_STATUSES = {}
  BY DEF ACTIVE_JOB_STATUSES, FINISHED_JOB_STATUSES
<1>5. QED  BY <1>1, <1>3, <1>4 DEF Active, Finished

\* A finishing step turns one active row, or a row that was being failed, into
\* a finished one.
LEMMA FinishMovesRow ==
    ASSUME TypeOK, NEW j \in JobIds, Finish(j)
    PROVE  /\ Active(store') = Active(store) \ {j}
           /\ Finished(store') \subseteq Finished(store) \cup {j}
           /\ store[j].status # "absent"
<1> DEFINE new == WithStatus(store[j], FinalStatus[pc[j]])
           s == [store EXCEPT ![j] = Touch(new)]
           l == Stamped(s, later, j)
<1>0. store[j] \in MappingJob
  BY DEF TypeOK
<1>1. FinalStatus[pc[j]] \in FINISHED_JOB_STATUSES /\ store[j].status # "absent"
  BY StepTargets DEF Finish, Present
<1>2. new \in MappingJob
  BY <1>0, <1>1, RowTypes
<1>9. new.status = FinalStatus[pc[j]]
  BY <1>0, StatusFields
<1> HIDE DEF new
<1>3. Touch(new).status \in FINISHED_JOB_STATUSES
  BY <1>1, <1>2, <1>9, TouchFields
<1>4. s[j] = Touch(new) /\ \A i \in JobIds \ {j} : s[i] = store[i]
  BY DEF TypeOK
<1>5. (\E gone \in Prunable(s, l, {j}) : store' = Without(s, gone)) \/ store' = s
  BY DEF Finish, new
<1> HIDE DEF s, l
<1>6. ACTIVE_JOB_STATUSES \cap FINISHED_JOB_STATUSES = {}
  BY DEF ACTIVE_JOB_STATUSES, FINISHED_JOB_STATUSES
<1>7. Active(s) = Active(store) \ {j} /\ Finished(s) = Finished(store) \cup {j}
  BY <1>3, <1>4, <1>6 DEF Active, Finished
<1>8. QED  BY <1>1, <1>5, <1>7, PruneShrinks

\* The requests and the process: only a start adds a row, an active one.
LEMMA RequestsMoveRows ==
    ASSUME TypeOK
    PROVE  /\ Prune => /\ Active(store') = Active(store)
                       /\ Finished(store') \subseteq Finished(store)
           /\ \A j \in JobIds : Cancel(j) =>
                       /\ Active(store') = Active(store)
                       /\ Finished(store') \subseteq Finished(store)
           /\ Restart => /\ Active(store') = {}
                         /\ Rows(store') \subseteq Rows(store)
           /\ \A j \in JobIds : Start(j) =>
                       /\ Active(store') = Active(store) \cup {j}
                       /\ Cardinality(Active(store)) < MAX_ACTIVE_JOBS
                       /\ \E kept \in SUBSET Finished(store) :
                             /\ Cardinality(kept) <= MAX_FINISHED_JOBS
                             /\ Finished(store') \subseteq kept
<1> USE BoundsAssumption
<1>1. ASSUME Prune
      PROVE  Active(store') = Active(store) /\ Finished(store') \subseteq Finished(store)
  BY <1>1, PruneShrinks DEF Prune
<1>2. ASSUME NEW j \in JobIds, Cancel(j)
      PROVE  Active(store') = Active(store) /\ Finished(store') \subseteq Finished(store)
  <2> DEFINE new == CancelRequested(store[j])
  <2>1. PICK gone \in Prunable(store, later, {}) :
           store' = [Without(store, gone) EXCEPT ![j] = Touch(new)]
    BY <1>2 DEF Cancel
  <2>2. store[j] \in MappingJob /\ j \in Active(store)
    BY <1>2 DEF Cancel, TypeOK, Active, ACTIVE_JOB_STATUSES
  <2>3. new \in MappingJob
    BY <2>2, RowTypes
  <2>4. new.status = "cancel_requested"
    BY <2>2, CancelFields
  <2> HIDE DEF new
  <2>5. Touch(new).status = "cancel_requested"
    BY <2>3, <2>4, TouchFields
  <2>6. /\ Active(Without(store, gone)) = Active(store)
        /\ Finished(Without(store, gone)) \subseteq Finished(store)
    BY PruneShrinks
  <2>7. /\ store'[j] = Touch(new)
        /\ \A i \in JobIds \ {j} : store'[i] = Without(store, gone)[i]
    BY <2>1 DEF Without
  <2>8. QED
    BY <2>2, <2>5, <2>6, <2>7 DEF Active, Finished, ACTIVE_JOB_STATUSES, FINISHED_JOB_STATUSES
<1>3. ASSUME Restart
      PROVE  Active(store') = {} /\ Rows(store') \subseteq Rows(store)
  <2>1. \A i \in JobIds : i \in Active(store) => store'[i].status = "failed"
    BY <1>3, RecoveredFields DEF Restart, TypeOK
  <2>2. \A i \in JobIds : i \notin Active(store) => store'[i] = store[i]
    BY <1>3 DEF Restart
  <2>3. QED
    BY <2>1, <2>2 DEF Rows, Active, Finished, ACTIVE_JOB_STATUSES, FINISHED_JOB_STATUSES
<1>4. ASSUME NEW j \in JobIds, Start(j)
      PROVE  /\ Active(store') = Active(store) \cup {j}
             /\ Cardinality(Active(store)) < MAX_ACTIVE_JOBS
             /\ \E kept \in SUBSET Finished(store) :
                   /\ Cardinality(kept) <= MAX_FINISHED_JOBS
                   /\ Finished(store') \subseteq kept
  <2>1. PICK gone \in Prunable(store, later, {}) :
           /\ ~AtCapacity(Without(store, gone))
           /\ store' = [Without(store, gone) EXCEPT ![j] = QueuedJob]
    BY <1>4 DEF Start
  <2> DEFINE s == Without(store, gone)
  <2>2. /\ Active(s) = Active(store)
        /\ Finished(s) \in SUBSET Finished(store)
        /\ Cardinality(Finished(s)) <= MAX_FINISHED_JOBS
    BY PruneShrinks
  <2>3. Cardinality(Active(store)) < MAX_ACTIVE_JOBS
    BY <2>1, <2>2, CountedSets DEF AtCapacity
  <2>4. store'[j] = QueuedJob /\ \A i \in JobIds \ {j} : store'[i] = s[i]
    BY <2>1 DEF Without
  <2>5. QueuedJob.status = "queued"
    BY DEF QueuedJob, NoJob
  <2> HIDE DEF s
  <2>6. Active(store') = Active(s) \cup {j} /\ Finished(store') \subseteq Finished(s)
    BY <2>4, <2>5 DEF Active, Finished, ACTIVE_JOB_STATUSES, FINISHED_JOB_STATUSES
  <2>7. QED  BY <2>2, <2>3, <2>6
<1>5. QED  BY <1>1, <1>2, <1>3, <1>4

-----------------------------------------------------------------------------
(* The two limits.                                                         *)

\* The number of active jobs stays within MAX_ACTIVE_JOBS.
THEOREM CapacityHolds == Spec => []CapacityRespected
<1>1. Init => CapacityRespected
  <2> SUFFICES ASSUME Init PROVE CapacityRespected
    OBVIOUS
  <2>1. Active(store) = {}
    BY DEF Init, Active, NoJob, ACTIVE_JOB_STATUSES
  <2>2. QED  BY <2>1, FS_EmptySet, BoundsAssumption DEF CapacityRespected
<1>2. TypeOK /\ RowsConsistent /\ CapacityRespected /\ [Next]_vars => CapacityRespected'
  <2> SUFFICES ASSUME TypeOK, RowsConsistent, CapacityRespected, [Next]_vars
               PROVE  Cardinality(Active(store')) <= MAX_ACTIVE_JOBS
    BY DEF CapacityRespected, Active
  <2>1. ASSUME Active(store') \subseteq Active(store)
        PROVE  Cardinality(Active(store')) <= MAX_ACTIVE_JOBS
    <3>1. Cardinality(Active(store')) <= Cardinality(Active(store))
      BY <2>1, CountedSets, FS_Subset
    <3>2. QED  BY <3>1, CountedSets, BoundsAssumption DEF CapacityRespected
  <2>2. CASE \E j \in JobIds : ThreadStep(j)
    BY <2>1, <2>2, ThreadKeepsPhase, FinishMovesRow
  <2>3. CASE \E j \in JobIds : Start(j)
    <3>1. PICK j \in JobIds : Start(j)
      BY <2>3
    <3>2. /\ Active(store') \subseteq Active(store) \cup {j}
          /\ Cardinality(Active(store)) < MAX_ACTIVE_JOBS
      BY <3>1, RequestsMoveRows
    <3>3. /\ IsFiniteSet(Active(store) \cup {j})
          /\ Cardinality(Active(store) \cup {j}) <= Cardinality(Active(store)) + 1
      BY CountedSets, OneMore
    <3>4. Cardinality(Active(store')) <= Cardinality(Active(store) \cup {j})
      BY <3>2, <3>3, FS_Subset
    <3>5. Cardinality(Active(store) \cup {j}) \in Nat
      BY <3>3, FS_CardinalityType
    <3>6. QED  BY <3>2, <3>3, <3>4, <3>5, CountedSets, BoundsAssumption
  <2>4. CASE Prune \/ Restart \/ \E j \in JobIds : Cancel(j)
    BY <2>1, <2>4, RequestsMoveRows
  <2>5. CASE UNCHANGED vars
    BY <2>1, <2>5 DEF vars
  <2>6. QED  BY <2>2, <2>3, <2>4, <2>5 DEF Next
<1>3. QED  BY <1>1, <1>2, TypeCorrect, RowsAgree, PTL DEF Spec

\* The table never outgrows both limits together, over any number of restarts.
THEOREM StoreStaysBounded == Spec => []StoreBounded
<1>1. Init => StoreBounded
  <2> SUFFICES ASSUME Init PROVE StoreBounded
    OBVIOUS
  <2>1. Active(store) \cup Finished(store) = {}
    BY DEF Init, Active, Finished, NoJob, ACTIVE_JOB_STATUSES, FINISHED_JOB_STATUSES
  <2>2. QED  BY <2>1, FS_EmptySet, BoundsAssumption DEF StoreBounded
<1>2. TypeOK /\ RowsConsistent /\ StoreBounded /\ [Next]_vars => StoreBounded'
  <2> DEFINE Limit == MAX_ACTIVE_JOBS + MAX_FINISHED_JOBS
  <2> SUFFICES ASSUME TypeOK, RowsConsistent, StoreBounded, [Next]_vars
               PROVE  Cardinality(Rows(store')) <= Limit
    BY DEF StoreBounded, Rows, Active, Finished
  <2>1. ASSUME Rows(store') \subseteq Rows(store)
        PROVE  Cardinality(Rows(store')) <= Limit
    <3>1. Cardinality(Rows(store')) <= Cardinality(Rows(store))
      BY <2>1, CountedSets, FS_Subset
    <3>2. Cardinality(Rows(store)) <= Limit
      BY DEF StoreBounded, Rows
    <3>3. QED  BY <3>1, <3>2, CountedSets, BoundsAssumption
  <2>2. CASE \E j \in JobIds : ThreadStep(j)
    <3>1. PICK j \in JobIds : ThreadStep(j)
      BY <2>2
    <3>2. CASE Finish(j)
      <4>1. j \in Rows(store)
        BY <3>2, FinishMovesRow DEF Rows, Active, Finished, TypeOK, MappingJob
      <4>2. QED  BY <2>1, <3>2, <4>1, FinishMovesRow DEF Rows
    <3>3. CASE ~Finish(j)
      BY <2>1, <3>1, <3>3, ThreadKeepsPhase DEF Rows
    <3>4. QED  BY <3>2, <3>3
  <2>3. CASE \E j \in JobIds : Start(j)
    <3>1. PICK j \in JobIds : Start(j)
      BY <2>3
    <3>2. /\ Active(store') \subseteq Active(store) \cup {j}
          /\ Cardinality(Active(store)) < MAX_ACTIVE_JOBS
      BY <3>1, RequestsMoveRows
    <3>3. PICK kept \in SUBSET Finished(store) :
             Cardinality(kept) <= MAX_FINISHED_JOBS /\ Finished(store') \subseteq kept
      BY <3>1, RequestsMoveRows
    <3>4. IsFiniteSet(kept) /\ Cardinality(Finished(store')) <= Cardinality(kept)
      BY <3>3, CountedSets, FS_Subset
    <3>5. Cardinality(kept) \in Nat
      BY <3>4, FS_CardinalityType
    <3>6. /\ IsFiniteSet(Active(store) \cup {j})
          /\ Cardinality(Active(store) \cup {j}) <= Cardinality(Active(store)) + 1
      BY CountedSets, OneMore
    <3>7. Cardinality(Active(store')) <= Cardinality(Active(store) \cup {j})
      BY <3>2, <3>6, FS_Subset
    <3>8. Cardinality(Active(store) \cup {j}) \in Nat
      BY <3>6, FS_CardinalityType
    <3>9. QED
      BY <3>2, <3>3, <3>4, <3>5, <3>6, <3>7, <3>8, CountedSets, BoundsAssumption
  <2>4. CASE Prune \/ Restart \/ \E j \in JobIds : Cancel(j)
    BY <2>1, <2>4, RequestsMoveRows DEF Rows
  <2>5. CASE UNCHANGED vars
    BY <2>1, <2>5 DEF vars
  <2>6. QED  BY <2>2, <2>3, <2>4, <2>5 DEF Next
<1>3. QED  BY <1>1, <1>2, TypeCorrect, RowsAgree, PTL DEF Spec

-----------------------------------------------------------------------------
(* Faults and stranded jobs.                                               *)

Stranded(s, p) == {j \in Active(s) : p[j] = "none"}

\* A thread that leaves an active row behind has spent a storage fault.
LEMMA ThreadStrands ==
    ASSUME TypeOK, RowsConsistent, NEW j \in JobIds, ThreadStep(j)
    PROVE  \/ Stranded(store', pc') \subseteq Stranded(store, pc) /\ faults' >= faults
           \/ /\ Stranded(store', pc') \subseteq Stranded(store, pc) \cup {j}
              /\ faults' = faults + 1
<1> USE BoundsAssumption
<1>1. Active(store') \subseteq Active(store)
  BY ThreadKeepsPhase, FinishMovesRow
<1>2. \A i \in JobIds \ {j} : pc'[i] = pc[i]
  BY DEF TypeOK, ThreadStep, FirstCheck, Note, Claim, SetRunning, Work, CallbackCheck,
         FinalCheck, SetResponse, SetError, Finish, Raise, Goto
<1>3. Stranded(store', pc') \subseteq Stranded(store, pc) \cup {j}
  BY <1>1, <1>2 DEF Stranded, Active
<1>4. faults \in Nat /\ (faults' = faults \/ faults' = faults + 1)
  BY DEF TypeOK, ThreadStep, FirstCheck, Note, Claim, SetRunning, Work, CallbackCheck,
         FinalCheck, SetResponse, SetError, Finish, Raise, Fault
<1>5. CASE faults' = faults + 1
  BY <1>3, <1>5
<1>6. CASE faults' = faults
  <2>1. pc'[j] # "none" \/ j \notin Active(store')
    <3>1. CASE Finish(j)
      BY <3>1, FinishMovesRow
    <3>2. CASE Raise(j)
      <4>1. store[j].status = "absent" /\ store' = store
        BY <1>4, <1>6, <3>2 DEF Raise, Fault, Present
      <4>2. QED  BY <4>1 DEF Active, ACTIVE_JOB_STATUSES
    <3>3. CASE Note(j)
      BY <3>3, NoteTargets DEF Note, Goto, TypeOK
    <3>4. CASE FirstCheck(j) \/ Claim(j) \/ SetRunning(j) \/ Work(j) \/ CallbackCheck(j)
               \/ FinalCheck(j) \/ SetResponse(j) \/ SetError(j)
      BY <3>4 DEF FirstCheck, Claim, SetRunning, Work, CallbackCheck,
                  FinalCheck, SetResponse, SetError, Goto, TypeOK
    <3>5. QED  BY <3>1, <3>2, <3>3, <3>4 DEF ThreadStep
  <2>2. QED  BY <1>3, <1>4, <1>6, <2>1 DEF Stranded
<1>7. QED  BY <1>4, <1>5, <1>6

\* Every job that is active without a thread was stranded by a fault of its own.
THEOREM OnlyFaultsStrand == Spec => []StrandedByFaults
<1>1. Init => StrandedByFaults
  <2> SUFFICES ASSUME Init PROVE StrandedByFaults
    OBVIOUS
  <2>1. {j \in Active(store) : pc[j] = "none"} = {} /\ faults = 0
    BY DEF Init, Active, NoJob, ACTIVE_JOB_STATUSES
  <2>2. QED  BY <2>1, FS_EmptySet DEF StrandedByFaults
<1>2. TypeOK /\ RowsConsistent /\ StrandedByFaults /\ [Next]_vars => StrandedByFaults'
  <2> DEFINE S == Stranded(store, pc)
             T == Stranded(store', pc')
  <2> SUFFICES ASSUME TypeOK, RowsConsistent, StrandedByFaults, [Next]_vars
               PROVE  Cardinality(T) <= faults'
    BY DEF StrandedByFaults, Stranded, Active
  <2>1. IsFiniteSet(S) /\ Cardinality(S) \in Nat /\ Cardinality(S) <= faults /\ faults \in Nat
    <3>1. S \in SUBSET Active(store)
      BY DEF Stranded
    <3>2. IsFiniteSet(S) /\ Cardinality(S) \in Nat
      BY <3>1, CountedSets, FS_Subset, FS_CardinalityType
    <3>3. Cardinality(S) <= faults /\ faults \in Nat
      BY BoundsAssumption DEF StrandedByFaults, Stranded, TypeOK
    <3>4. QED  BY <3>2, <3>3
  <2> HIDE DEF S, T
  <2>2. ASSUME T \subseteq S, faults' \in Nat, faults' >= faults PROVE Cardinality(T) <= faults'
    <3>1. Cardinality(T) <= Cardinality(S) /\ IsFiniteSet(T)
      BY <2>1, <2>2, FS_Subset
    <3>2. Cardinality(T) \in Nat
      BY <3>1, FS_CardinalityType
    <3>3. QED  BY <2>1, <2>2, <3>1, <3>2
  <2>3. ASSUME NEW j, T \subseteq S \cup {j}, faults' = faults + 1
        PROVE  Cardinality(T) <= faults'
    <3>1. IsFiniteSet(S \cup {j}) /\ Cardinality(S \cup {j}) <= Cardinality(S) + 1
      BY <2>1, OneMore
    <3>2. Cardinality(T) <= Cardinality(S \cup {j}) /\ IsFiniteSet(T)
      BY <2>3, <3>1, FS_Subset
    <3>3. Cardinality(T) \in Nat /\ Cardinality(S \cup {j}) \in Nat
      BY <3>1, <3>2, FS_CardinalityType
    <3>4. QED  BY <2>1, <2>3, <3>1, <3>2, <3>3
  <2>4. faults' \in Nat
    <3>1. [Next]_vars /\ TypeOK => TypeOK'
      BY TypeStep
    <3>2. QED  BY <3>1, BoundsAssumption DEF TypeOK
  <2>5. CASE \E j \in JobIds : ThreadStep(j)
    BY <2>2, <2>3, <2>4, <2>5, ThreadStrands DEF S, T
  <2>6. CASE \E j \in JobIds : Start(j)
    <3>1. PICK j \in JobIds : Start(j)
      BY <2>6
    <3>2. Active(store') \subseteq Active(store) \cup {j}
      BY <3>1, RequestsMoveRows
    <3>3. \A i \in JobIds \ {j} : pc'[i] = pc[i]
      BY <3>1 DEF Start, Goto, TypeOK
    <3>4. T \subseteq S \cup {j}
      BY <3>2, <3>3 DEF S, T, Stranded, Active
    <3>5. CASE faults' = faults + 1
      BY <2>3, <3>4, <3>5
    <3>6. CASE faults' # faults + 1
      <4>1. faults' = faults /\ pc'[j] = "first_check"
        BY <3>1, <3>6 DEF Start, Fault, Goto, TypeOK
      <4>2. T \subseteq S
        BY <3>4, <4>1 DEF T, Stranded
      <4>3. QED  BY <2>1, <2>2, <2>4, <4>1, <4>2
    <3>7. QED  BY <3>5, <3>6
  <2>7. CASE Prune \/ \E j \in JobIds : Cancel(j)
    <3>1. Active(store') = Active(store) /\ pc' = pc /\ faults' = faults
      BY <2>7, RequestsMoveRows DEF Prune, Cancel
    <3>2. QED  BY <2>1, <2>2, <3>1 DEF S, T, Stranded
  <2>8. CASE Restart
    <3>1. Active(store') = {} /\ faults' = faults
      BY <2>8, RequestsMoveRows DEF Restart
    <3>2. QED  BY <2>1, <2>2, <3>1 DEF T, Stranded
  <2>9. CASE UNCHANGED vars
    BY <2>1, <2>2, <2>9 DEF vars, S, T
  <2>10. QED  BY <2>5, <2>6, <2>7, <2>8, <2>9 DEF Next
<1>3. QED  BY <1>1, <1>2, TypeCorrect, RowsAgree, PTL DEF Spec

-----------------------------------------------------------------------------
(* Retention and the job that has just finished.                           *)

\* A prune never deletes the job saved in the same locked body: either the
\* overflow cut keeps some other job, and then j carries the latest stamp, or
\* only the TTL deletes, and j cannot have expired.
LEMMA FreshRowKept ==
    ASSUME NEW s, NEW j \in JobIds, NEW k \in [JobIds -> SUBSET JobIds],
           NEW gone \in Prunable(s, Stamped(s, k, j), {j})
    PROVE  j \notin gone
<1> DEFINE l == Stamped(s, k, j)
           kept == Finished(s) \ gone
<1> SUFFICES ASSUME j \in gone PROVE FALSE
  OBVIOUS
<1>1. gone \in SUBSET Finished(s) /\ \A g \in gone, i \in kept : g \notin l[i]
  BY DEF Prunable
<1>2. \A i \in kept : i \in Finished(s) /\ i # j /\ i \in JobIds
  BY DEF Finished
<1>3. \A i \in kept : j \in l[i]
  BY <1>1, <1>2 DEF Stamped
<1>4. kept = {}
  BY <1>1, <1>3
<1>5. Cardinality(kept) < MAX_FINISHED_JOBS
  BY <1>4, FS_EmptySet, BoundsAssumption
<1>6. gone \cap {j} = {}
  BY <1>5 DEF Prunable
<1>7. QED  BY <1>6

\* A job whose thread ends by writing a final status is there to be polled.
THEOREM OwnResultKept == Spec => OwnResultSurvives
<1> DEFINE Kept == \A j \in JobIds :
              (pc[j] \in DOMAIN FinalStatus /\ pc'[j] = "none" /\ Present(j)
                  /\ UNCHANGED <<restarts, faults>>)
              => store'[j].status = FinalStatus[pc[j]]
<1>1. TypeOK /\ [Next]_vars => [Kept]_vars
  <2> SUFFICES ASSUME TypeOK, Next, NEW j \in JobIds,
                      pc[j] \in DOMAIN FinalStatus, pc'[j] = "none", Present(j),
                      UNCHANGED <<restarts, faults>>
               PROVE  store'[j].status = FinalStatus[pc[j]]
    OBVIOUS
  <2> DEFINE new == WithStatus(store[j], FinalStatus[pc[j]])
             s == [store EXCEPT ![j] = Touch(new)]
             l == Stamped(s, later, j)
  <2>1. faults \in Nat /\ restarts \in Nat
    BY BoundsAssumption DEF TypeOK
  <2>2. ThreadStep(j)
    <3>1. CASE \E i \in JobIds : ThreadStep(i)
      <4>1. PICK i \in JobIds : ThreadStep(i)
        BY <3>1
      <4>2. pc[j] # "none"
        BY FinalStatuses
      <4>3. i # j => pc'[j] = pc[j]
        BY <4>1 DEF TypeOK, ThreadStep, FirstCheck, Note, Claim, SetRunning, Work,
           CallbackCheck, FinalCheck, SetResponse, SetError, Finish, Raise, Goto
      <4>4. QED  BY <4>1, <4>2, <4>3
    <3>2. CASE \E i \in JobIds : Start(i)
      BY <3>2, FinalStatuses DEF Start, Goto, TypeOK
    <3>3. CASE Prune \/ \E i \in JobIds : Cancel(i)
      BY <3>3, FinalStatuses DEF Prune, Cancel
    <3>4. CASE Restart
      BY <2>1, <3>4 DEF Restart
    <3>5. QED  BY <3>1, <3>2, <3>3, <3>4 DEF Next
  <2>3. Finish(j) /\ faults' # faults + 1
    <3>1. faults' # faults + 1
      BY <2>1
    <3>2. ~Raise(j)
      BY <3>1 DEF Raise, Fault
    <3>3. ~Note(j)
      BY FinalStatuses, NoteTargets DEF Note
    <3>4. ~(FirstCheck(j) \/ Claim(j) \/ SetRunning(j) \/ Work(j) \/ CallbackCheck(j)
               \/ FinalCheck(j) \/ SetResponse(j) \/ SetError(j))
      BY FinalStatuses DEF FirstCheck, Claim, SetRunning, Work, CallbackCheck,
                           FinalCheck, SetResponse, SetError
    <3>5. QED  BY <2>2, <3>1, <3>2, <3>3, <3>4 DEF ThreadStep
  <2>4. PICK gone \in Prunable(s, l, {j}) : store' = Without(s, gone)
    BY <2>3 DEF Finish, Fault
  <2>5. store[j] \in MappingJob
    BY DEF TypeOK
  <2>6. new \in MappingJob
    BY <2>5, StepTargets, RowTypes
  <2>7. new.status = FinalStatus[pc[j]]
    BY <2>5, StatusFields
  <2>8. s[j] = Touch(new)
    BY DEF TypeOK
  <2>9. j \notin gone
    BY FreshRowKept DEF TypeOK
  <2> HIDE DEF new, s
  <2>10. store'[j] = Touch(new)
    BY <2>4, <2>8, <2>9 DEF Without
  <2>11. QED  BY <2>6, <2>7, <2>10, TouchFields
<1>2. QED  BY <1>1, TypeCorrect, PTL DEF Spec, OwnResultSurvives
-----------------------------------------------------------------------------
(* Without faults a live thread owns an active row.                        *)

ThreadsOwnActiveRows == \A j \in JobIds : pc[j] # "none" => j \in Active(store)

\* Without faults a thread leaves its row active until the step that ends it.
LEMMA ThreadsOwnStep ==
    ASSUME MaxFaults = 0, TypeOK, TypeOK', RowsConsistent, ThreadsOwnActiveRows, [Next]_vars
    PROVE  ThreadsOwnActiveRows'
<1> SUFFICES ASSUME NEW i \in JobIds, pc'[i] # "none" PROVE i \in Active(store')
  BY DEF ThreadsOwnActiveRows, Active
<1>1. CASE \E j \in JobIds : ThreadStep(j)
  <2>1. PICK j \in JobIds : ThreadStep(j)
    BY <1>1
  <2>2. i # j => pc'[i] = pc[i]
    BY <2>1 DEF TypeOK, ThreadStep, FirstCheck, Note, Claim, SetRunning, Work,
       CallbackCheck, FinalCheck, SetResponse, SetError, Finish, Raise, Goto
  <2>3. pc[j] # "none"
    BY <2>1, NoteTargets, FinalStatuses
       DEF ThreadStep, FirstCheck, Note, Claim, SetRunning, Work,
           CallbackCheck, FinalCheck, SetResponse, SetError, Finish, Raise
  <2>4. i \in Active(store)
    BY <2>2, <2>3 DEF ThreadsOwnActiveRows
  <2>5. CASE Finish(j)
    <3>1. ~Fault
      BY DEF TypeOK, Fault
    <3>2. pc'[j] = "none"
      BY <2>5, <3>1 DEF Finish, Goto, TypeOK
    <3>3. QED  BY <2>4, <2>5, <3>2, FinishMovesRow
  <2>6. CASE ~Finish(j)
    BY <2>1, <2>4, <2>6, ThreadKeepsPhase
  <2>7. QED  BY <2>5, <2>6
<1>2. CASE \E j \in JobIds : Start(j)
  <2>1. PICK j \in JobIds : Start(j)
    BY <1>2
  <2>2. Active(store') = Active(store) \cup {j}
    BY <2>1, RequestsMoveRows
  <2>3. i # j => pc'[i] = pc[i]
    BY <2>1 DEF Start, Goto, TypeOK
  <2>4. QED  BY <2>2, <2>3 DEF ThreadsOwnActiveRows
<1>3. CASE Prune \/ \E j \in JobIds : Cancel(j)
  BY <1>3, RequestsMoveRows DEF Prune, Cancel, ThreadsOwnActiveRows
<1>4. CASE Restart
  BY <1>4 DEF Restart
<1>5. CASE UNCHANGED vars
  BY <1>5 DEF vars, ThreadsOwnActiveRows
<1>6. QED  BY <1>1, <1>2, <1>3, <1>4, <1>5 DEF Next

-----------------------------------------------------------------------------
(* What a client sees.                                                     *)

\* The client's active jobs are the active rows and its outcomes the finished
\* ones, which carry their status.
LEMMA ViewOfRows ==
    ASSUME TypeOK, RowsConsistent
    PROVE  /\ Lifecycle!In({"active"}) = Active(store)
           /\ Lifecycle!In(Lifecycle!Outcomes) = Finished(store)
           /\ \A j \in JobIds : j \in Active(store) => ClientView[j] = "active"
           /\ \A j \in Finished(store) : ClientView[j] = store[j].status
           /\ \A j \in JobIds : j \notin submitted => ClientView[j] = "unsubmitted"
           /\ \A j \in submitted : j \notin Active(store) \cup Finished(store)
                 => ClientView[j] = "forgotten"
<1>1. \A j \in JobIds : j \notin submitted => store[j].status = "absent"
  BY DEF RowsConsistent, RowInv, NoJob
<1>2. (\A j \in JobIds : store[j] \in MappingJob) /\ submitted \subseteq JobIds
  BY DEF TypeOK
<1>3. \A j \in JobIds : j \in Active(store) => ClientView[j] = "active"
  BY <1>1 DEF ClientView, Active, ACTIVE_JOB_STATUSES
<1>4. \A j \in Finished(store) : ClientView[j] = store[j].status
  BY <1>1 DEF ClientView, Active, Finished, Present, ACTIVE_JOB_STATUSES, FINISHED_JOB_STATUSES
<1>5. \A j \in JobIds : j \notin submitted => ClientView[j] = "unsubmitted"
  BY DEF ClientView
<1>6. \A j \in submitted : j \notin Active(store) \cup Finished(store)
                 => ClientView[j] = "forgotten"
  <2> SUFFICES ASSUME NEW j \in submitted, j \notin Active(store) \cup Finished(store)
               PROVE  ClientView[j] = "forgotten"
    OBVIOUS
  <2>1. /\ j \in JobIds
        /\ store[j].status \notin ACTIVE_JOB_STATUSES \cup FINISHED_JOB_STATUSES
    BY <1>2 DEF Active, Finished
  <2>3. store[j].status \in ACTIVE_JOB_STATUSES \cup FINISHED_JOB_STATUSES \cup {"absent"}
    BY <1>2, <2>1 DEF MappingJob
  <2>4. QED  BY <2>1, <2>3 DEF ClientView, Present, Active
<1>7. Lifecycle!In({"active"}) = Active(store)
  BY <1>3, <1>4, <1>5, <1>6 DEF Lifecycle!In, Active, Finished, FINISHED_JOB_STATUSES
<1>8. Lifecycle!In(Lifecycle!Outcomes) = Finished(store)
  BY <1>3, <1>4, <1>5, <1>6
     DEF Lifecycle!In, Lifecycle!Outcomes, Active, Finished, FINISHED_JOB_STATUSES
<1>9. QED  BY <1>3, <1>4, <1>5, <1>6, <1>7, <1>8

\* The job of row i shows what it showed, or is forgotten if i was pruned.
LEMMA OtherViews ==
    ASSUME TypeOK, RowsConsistent, NEW i \in JobIds,
           NEW gone \in SUBSET Finished(store),
           store'[i] = (IF i \in gone THEN NoJob ELSE store[i]),
           i \in submitted' <=> i \in submitted
    PROVE  ClientView'[i] = IF i \in gone THEN "forgotten" ELSE ClientView[i]
<1>1. CASE i \in gone
  <2>1. i \in submitted'
    BY <1>1 DEF RowsConsistent, RowInv, Finished, NoJob, FINISHED_JOB_STATUSES
  <2>2. store'[i].status = "absent"
    BY <1>1 DEF NoJob
  <2>3. QED  BY <1>1, <2>1, <2>2 DEF ClientView, Active, Present, ACTIVE_JOB_STATUSES
<1>2. CASE i \notin gone
  BY <1>2 DEF ClientView, Active, Present
<1>3. QED  BY <1>1, <1>2

\* A finishing step settles its job, and forgets those it prunes.
LEMMA FinishSettles ==
    ASSUME MaxFaults = 0, TypeOK, RowsConsistent, ThreadsOwnActiveRows,
           NEW j \in JobIds, Finish(j)
    PROVE  Lifecycle!Settle(j)
<1> DEFINE new == WithStatus(store[j], FinalStatus[pc[j]])
           s == [store EXCEPT ![j] = Touch(new)]
           l == Stamped(s, later, j)
           outcome == FinalStatus[pc[j]]
<1>1. ~Fault
  BY DEF TypeOK, Fault
<1>2. PICK gone \in Prunable(s, l, {j}) : store' = Without(s, gone)
  BY <1>1 DEF Finish
<1>3. j \notin gone
  BY FreshRowKept DEF TypeOK
<1>4. outcome \in FINISHED_JOB_STATUSES /\ store[j] \in MappingJob
  BY StepTargets DEF Finish, TypeOK
<1>5. new \in MappingJob
  BY <1>4, RowTypes
<1>6. new.status = outcome
  BY <1>4, StatusFields
<1>7. /\ s[j] = Touch(new)
      /\ \A i \in JobIds \ {j} : s[i] = store[i]
  BY DEF TypeOK
<1> HIDE DEF new
<1>8. Touch(new).status = outcome
  BY <1>5, <1>6, TouchFields
<1>9. gone \in SUBSET (Finished(store) \ {j})
  BY <1>3, <1>7 DEF Prunable, Finished
<1>10. /\ store'[j].status = outcome
       /\ \A i \in JobIds \ {j} : store'[i] = IF i \in gone THEN NoJob ELSE store[i]
  BY <1>2, <1>3, <1>7, <1>8 DEF Without
<1> HIDE DEF s, l
<1>11. submitted' = submitted
  BY DEF Finish
<1>12. j \in Active(store)
  BY FinalStatuses DEF Finish, ThreadsOwnActiveRows
<1>13. j \in submitted
  BY <1>12 DEF RowsConsistent, RowInv, Active, NoJob, ACTIVE_JOB_STATUSES
<1>14. ClientView'[j] = outcome
  BY <1>4, <1>10, <1>11, <1>13
     DEF ClientView, Active, Present, ACTIVE_JOB_STATUSES, FINISHED_JOB_STATUSES
<1>15. \A i \in JobIds \ {j} :
          ClientView'[i] = IF i \in gone THEN "forgotten" ELSE ClientView[i]
  BY <1>9, <1>10, <1>11, OtherViews
<1>16. Lifecycle!Shows(j, outcome, gone)
  <2>1. ClientView' = [i \in JobIds |-> ClientView'[i]]
    BY DEF ClientView
  <2>2. QED  BY <1>14, <1>15, <2>1 DEF Lifecycle!Shows
<1>17. gone \in SUBSET Lifecycle!In(Lifecycle!Outcomes) /\ ClientView[j] = "active"
  BY <1>9, <1>12, ViewOfRows
<1>18. outcome \in Lifecycle!Outcomes
  BY <1>4 DEF Lifecycle!Outcomes, FINISHED_JOB_STATUSES
<1> HIDE DEF outcome
<1>19. QED  BY <1>16, <1>17, <1>18 DEF Lifecycle!Settle

\* A start submits its job, and forgets those it prunes.
LEMMA StartSubmits ==
    ASSUME TypeOK, RowsConsistent, NEW j \in JobIds, Start(j)
    PROVE  Lifecycle!Submit(j)
<1>1. PICK gone \in Prunable(store, later, {}) :
         store' = [Without(store, gone) EXCEPT ![j] = QueuedJob]
  BY DEF Start
<1>2. gone \in SUBSET Finished(store)
  BY DEF Prunable
<1>3. j \notin submitted /\ submitted' = submitted \cup {j}
  BY DEF Start
<1>4. /\ store'[j] = QueuedJob
      /\ \A i \in JobIds \ {j} : store'[i] = IF i \in gone THEN NoJob ELSE store[i]
  BY <1>1 DEF Without
<1>5. ClientView'[j] = "active"
  BY <1>3, <1>4 DEF ClientView, Active, QueuedJob, NoJob, ACTIVE_JOB_STATUSES
<1>6. \A i \in JobIds \ {j} :
         ClientView'[i] = IF i \in gone THEN "forgotten" ELSE ClientView[i]
  BY <1>2, <1>3, <1>4, OtherViews
<1>7. Lifecycle!Shows(j, "active", gone)
  <2>1. ClientView' = [i \in JobIds |-> ClientView'[i]]
    BY DEF ClientView
  <2>2. QED  BY <1>5, <1>6, <2>1 DEF Lifecycle!Shows
<1>8. Lifecycle!Cardinality(Lifecycle!In({"active"})) < MAX_ACTIVE_JOBS
  <2>1. Cardinality(Lifecycle!In({"active"})) < MAX_ACTIVE_JOBS
    BY ViewOfRows, RequestsMoveRows
  <2>2. \A S : Lifecycle!Cardinality(S) = Cardinality(S)
    BY DEF Lifecycle!Cardinality, Cardinality
  <2>3. QED  BY <2>1, <2>2
<1>9. ClientView[j] = "unsubmitted" /\ gone \in SUBSET Lifecycle!In(Lifecycle!Outcomes)
  BY <1>2, <1>3, ViewOfRows
<1>10. QED  BY <1>7, <1>8, <1>9 DEF Lifecycle!Submit

\* A prune forgets, and so does a cancel, which shows its job active as before.
LEMMA RequestsForget ==
    ASSUME TypeOK, RowsConsistent, Prune \/ \E j \in JobIds : Cancel(j)
    PROVE  Lifecycle!Forget
<1> SUFFICES ASSUME NEW gone \in SUBSET Finished(store),
                    \A i \in JobIds :
                       ClientView'[i] = IF i \in gone THEN "forgotten" ELSE ClientView[i]
             PROVE  Lifecycle!Forget
  <2>1. CASE Prune
    <3>1. PICK gone \in Prunable(store, later, {}) : store' = Without(store, gone)
      BY <2>1 DEF Prune
    <3>2. /\ gone \in SUBSET Finished(store) /\ submitted' = submitted
          /\ \A i \in JobIds : store'[i] = IF i \in gone THEN NoJob ELSE store[i]
      BY <2>1, <3>1 DEF Prune, Prunable, Without
    <3>3. QED  BY <3>2, OtherViews
  <2>2. CASE \E j \in JobIds : Cancel(j)
    <3>1. PICK j \in JobIds : Cancel(j)
      BY <2>2
    <3> DEFINE new == CancelRequested(store[j])
    <3>2. PICK gone \in Prunable(store, later, {}) :
             store' = [Without(store, gone) EXCEPT ![j] = Touch(new)]
      BY <3>1 DEF Cancel
    <3>3. new \in MappingJob
      BY RowTypes DEF TypeOK
    <3>4. new.status = "cancel_requested"
      BY CancelFields DEF TypeOK
    <3> HIDE DEF new
    <3>5. Touch(new).status = "cancel_requested"
      BY <3>3, <3>4, TouchFields
    <3>6. /\ store'[j].status = "cancel_requested"
          /\ \A i \in JobIds \ {j} : store'[i] = IF i \in gone THEN NoJob ELSE store[i]
      BY <3>2, <3>5 DEF Without
    <3>7. /\ gone \in SUBSET Finished(store) /\ submitted' = submitted
          /\ store[j].status \in {"queued", "running"}
      BY <3>1 DEF Cancel, Prunable
    <3>8. j \in Active(store) /\ j \in submitted
      <4>1. j \in Active(store)
        BY <3>7 DEF Active, ACTIVE_JOB_STATUSES
      <4>2. j \notin submitted => store[j].status = "absent"
        BY DEF RowsConsistent, RowInv, NoJob
      <4>3. QED  BY <3>7, <4>1, <4>2
    <3>9. j \notin gone
      BY <3>7 DEF Finished, FINISHED_JOB_STATUSES
    <3>10. ClientView'[j] = ClientView[j]
      <4>1. j \in Active(store')
        BY <3>6 DEF Active, ACTIVE_JOB_STATUSES
      <4>2. QED  BY <3>7, <3>8, <4>1 DEF ClientView
    <3>11. QED  BY <3>6, <3>7, <3>9, <3>10, OtherViews
  <2>3. QED  BY <2>1, <2>2
<1>1. ClientView' = [i \in JobIds |-> IF i \in gone THEN "forgotten" ELSE ClientView[i]]
  <2>1. ClientView' = [i \in JobIds |-> ClientView'[i]]
    BY DEF ClientView
  <2>2. QED  BY <2>1
<1>2. gone \in SUBSET Lifecycle!In(Lifecycle!Outcomes)
  BY ViewOfRows
<1>3. QED  BY <1>1, <1>2 DEF Lifecycle!Forget

\* A restart interrupts.
LEMMA RestartInterrupts ==
    ASSUME TypeOK, RowsConsistent, Restart
    PROVE  Lifecycle!Interrupt
<1>1. \A i \in JobIds : ClientView'[i] = IF ClientView[i] = "active" THEN "failed"
                                         ELSE ClientView[i]
  <2> SUFFICES ASSUME NEW i \in JobIds
               PROVE  ClientView'[i] = IF ClientView[i] = "active" THEN "failed"
                                       ELSE ClientView[i]
    OBVIOUS
  <2>1. submitted' = submitted
    BY DEF Restart
  <2>2. CASE i \in Active(store)
    <3>1. store'[i].status = "failed"
      BY <2>2, RecoveredFields DEF Restart, TypeOK
    <3>2. i \in submitted
      BY <2>2 DEF RowsConsistent, RowInv, Active, NoJob, ACTIVE_JOB_STATUSES
    <3>3. ClientView'[i] = "failed"
      BY <2>1, <3>1, <3>2 DEF ClientView, Active, Present, ACTIVE_JOB_STATUSES
    <3>4. QED  BY <2>2, <3>3, ViewOfRows
  <2>3. CASE i \notin Active(store)
    <3>1. store'[i] = store[i]
      BY <2>3 DEF Restart
    <3>2. ClientView'[i] = ClientView[i]
      BY <2>1, <3>1 DEF ClientView, Active, Present
    <3>3. ClientView[i] # "active"
      <4>1. i \in Lifecycle!In({"active"}) <=> i \in Active(store)
        BY ViewOfRows
      <4>2. QED  BY <2>3, <4>1 DEF Lifecycle!In
    <3>4. QED  BY <3>2, <3>3
  <2>4. QED  BY <2>2, <2>3
<1>2. ClientView' = [i \in JobIds |-> ClientView'[i]]
  BY DEF ClientView
<1>3. QED  BY <1>1, <1>2 DEF Lifecycle!Interrupt

\* Between its start and its finish a thread shows clients nothing new.
LEMMA ThreadStutters ==
    ASSUME TypeOK, RowsConsistent, ThreadsOwnActiveRows,
           NEW j \in JobIds, ThreadStep(j), ~Finish(j)
    PROVE  ClientView' = ClientView
<1>1. /\ submitted' = submitted
      /\ \A i \in JobIds \ {j} : store'[i] = store[i]
  BY DEF TypeOK, ThreadStep, FirstCheck, Note, Claim, SetRunning, Work,
         CallbackCheck, FinalCheck, SetResponse, SetError, Raise, Save
<1>2. pc[j] # "none"
  BY NoteTargets, FinalStatuses
     DEF ThreadStep, FirstCheck, Note, Claim, SetRunning, Work,
         CallbackCheck, FinalCheck, SetResponse, SetError, Finish, Raise
<1>3. j \in Active(store) /\ j \in Active(store')
  BY <1>2, ThreadKeepsPhase DEF ThreadsOwnActiveRows
<1>4. \A i \in JobIds \ {j} : ClientView'[i] = ClientView[i]
  BY <1>1 DEF ClientView, Active, Present
<1>5. ClientView'[j] = ClientView[j]
  BY <1>1, <1>3 DEF ClientView
<1>6. ClientView' = [i \in JobIds |-> ClientView'[i]]
      /\ ClientView = [i \in JobIds |-> ClientView[i]]
  BY DEF ClientView
<1>7. QED  BY <1>4, <1>5, <1>6

\* With storage that does not fail, the job runtime keeps every safety promise
\* of the client's lifecycle: jobs are accepted below the capacity, settle
\* once, keep their outcome until they are forgotten, and never come back.
THEOREM LifecycleImplemented ==
    ASSUME MaxFaults = 0
    PROVE  Spec => Lifecycle!LifecycleSafety
<1>1. Init => Lifecycle!LifecycleInit
  BY DEF Init, Lifecycle!LifecycleInit, ClientView
<1>2. Init => ThreadsOwnActiveRows
  BY DEF Init, ThreadsOwnActiveRows
<1>3. TypeOK /\ TypeOK' /\ RowsConsistent /\ ThreadsOwnActiveRows /\ [Next]_vars
        => ThreadsOwnActiveRows' /\ [Lifecycle!LifecycleNext]_ClientView
  <2> SUFFICES ASSUME TypeOK, TypeOK', RowsConsistent, ThreadsOwnActiveRows, [Next]_vars
               PROVE  Lifecycle!LifecycleNext \/ ClientView' = ClientView
    BY ThreadsOwnStep
  <2>1. CASE \E j \in JobIds : Finish(j)
    BY <2>1, FinishSettles DEF Lifecycle!LifecycleNext
  <2>2. CASE \E j \in JobIds : ThreadStep(j) /\ ~Finish(j)
    BY <2>2, ThreadStutters
  <2>3. CASE \E j \in JobIds : Start(j)
    BY <2>3, StartSubmits DEF Lifecycle!LifecycleNext
  <2>4. CASE Prune \/ \E j \in JobIds : Cancel(j)
    BY <2>4, RequestsForget DEF Lifecycle!LifecycleNext
  <2>5. CASE Restart
    BY <2>5, RestartInterrupts DEF Lifecycle!LifecycleNext
  <2>6. CASE UNCHANGED vars
    BY <2>6 DEF vars, ClientView, Active, Present
  <2>7. QED  BY <2>1, <2>2, <2>3, <2>4, <2>5, <2>6 DEF Next
<1>4. QED
  BY <1>1, <1>2, <1>3, TypeCorrect, RowsAgree, PTL DEF Spec, Lifecycle!LifecycleSafety

-----------------------------------------------------------------------------
(* Progress: a thread started for a job ends.                              *)

\* The locked bodies and worker steps a thread at point p can still make on
\* the longest way through _run_worker, outside its progress checkpoints.
Bodies(p) ==
    CASE p = "none" -> 0
      [] p \in {"early_canceled", "set_canceled", "set_failed"} -> 1
      [] p \in {"early_note", "cancel_note", "set_error"} -> 2
      [] p = "fail_note" -> 3
      [] p \in {"late_canceled", "set_completed"} -> 4
      [] p \in {"late_note", "note_completed"} -> 5
      [] p = "set_response" -> 6
      [] p = "final_check" -> 7
      [] p = "work" -> 8
      [] p = "callback_check" -> 9
      [] p = "callback_note" -> 10
      [] p = "note_started" -> 11
      [] p = "set_running" -> 12
      [] p = "claim" -> 13
      [] p = "first_check" -> 14

\* Three more for each progress message the worker has not emitted yet.
BeforeReturn == {"first_check", "claim", "set_running", "note_started", "work"}
                    \cup InCallback
StepsFrom(p, e) ==
    Bodies(p) + (IF p \in BeforeReturn THEN 3 * (MaxCheckpoints - e) ELSE 0)
StepsAhead(j) == StepsFrom(pc[j], emitted[j])

\* The count point by point.
LEMMA BodiesOfPoints ==
    /\ Bodies("none") = 0
    /\ Bodies("early_canceled") = 1 /\ Bodies("set_canceled") = 1
    /\ Bodies("set_failed") = 1
    /\ Bodies("early_note") = 2 /\ Bodies("cancel_note") = 2
    /\ Bodies("set_error") = 2
    /\ Bodies("fail_note") = 3
    /\ Bodies("late_canceled") = 4 /\ Bodies("set_completed") = 4
    /\ Bodies("late_note") = 5 /\ Bodies("note_completed") = 5
    /\ Bodies("set_response") = 6 /\ Bodies("final_check") = 7
    /\ Bodies("work") = 8
    /\ Bodies("callback_check") = 9 /\ Bodies("callback_note") = 10
    /\ Bodies("note_started") = 11 /\ Bodies("set_running") = 12
    /\ Bodies("claim") = 13 /\ Bodies("first_check") = 14
  BY DEF Bodies

\* The count is a number, zero only at the end.
LEMMA BodiesRange ==
    ASSUME NEW p \in PCs
    PROVE  /\ Bodies(p) \in 0..14
           /\ p # "none" => Bodies(p) \in 1..14
           /\ p \in InTry => Bodies(p) > 3
           /\ p \in InCallback => Bodies(p) > 8
  BY BodiesOfPoints DEF PCs, BeforeTry, InCallback, InTry, InHandlers

\* The points before the worker's return are those named.
LEMMA PointsBeforeReturn ==
    /\ InCallback \subseteq BeforeReturn
    /\ {"first_check", "claim", "set_running", "note_started", "work",
        "callback_note", "callback_check"} = BeforeReturn
    /\ InTry \cap BeforeReturn = {}
  BY DEF BeforeReturn, InCallback, InTry

\* What is left outside the checkpoints falls as long as no message is
\* emitted and no thread goes back before the worker's return.
LEMMA StepsFall ==
    ASSUME NEW p \in PCs, NEW q \in PCs, NEW e \in 0..MaxCheckpoints,
           Bodies(q) < Bodies(p), q \in BeforeReturn => p \in BeforeReturn
    PROVE  StepsFrom(q, e) < StepsFrom(p, e)
<1> USE BoundsAssumption
<1> DEFINE rest == 3 * (MaxCheckpoints - e)
<1>1. rest \in Nat
  OBVIOUS
<1>2. Bodies(p) \in Nat /\ Bodies(q) \in Nat
  BY BodiesRange
<1> HIDE DEF rest
<1>3. /\ StepsFrom(p, e) = Bodies(p) + (IF p \in BeforeReturn THEN rest ELSE 0)
      /\ StepsFrom(q, e) = Bodies(q) + (IF q \in BeforeReturn THEN rest ELSE 0)
  BY DEF StepsFrom, rest
<1>4. QED  BY <1>1, <1>2, <1>3

\* The count is a number within three steps a message of its start.
LEMMA StepsRange ==
    ASSUME NEW p \in PCs, NEW e \in 0..MaxCheckpoints
    PROVE  StepsFrom(p, e) \in 0..(14 + 3 * MaxCheckpoints)
<1> USE BoundsAssumption
<1> DEFINE rest == 3 * (MaxCheckpoints - e)
<1>1. rest \in 0..(3 * MaxCheckpoints)
  OBVIOUS
<1>2. Bodies(p) \in 0..14
  BY BodiesRange
<1>3. StepsFrom(p, e) = Bodies(p) + (IF p \in BeforeReturn THEN rest ELSE 0)
  BY DEF StepsFrom
<1> HIDE DEF rest
<1>4. QED  BY <1>1, <1>2, <1>3

\* A progress message costs its two locked bodies and the way back.
LEMMA MessageCosts ==
    ASSUME NEW e \in 0..MaxCheckpoints, e < MaxCheckpoints
    PROVE  StepsFrom("callback_note", e + 1) < StepsFrom("work", e)
<1> USE BoundsAssumption
<1>1. /\ StepsFrom("callback_note", e + 1) = 10 + 3 * (MaxCheckpoints - (e + 1))
      /\ StepsFrom("work", e) = 8 + 3 * (MaxCheckpoints - e)
  BY BodiesOfPoints, PointsBeforeReturn DEF StepsFrom
<1>2. QED  BY <1>1

\* Each step of a thread, exceptions and storage faults included, brings it
\* nearer its end.
LEMMA ThreadNearsEnd ==
    ASSUME TypeOK, NEW j \in JobIds, ThreadStep(j)
    PROVE  StepsAhead(j)' < StepsAhead(j)
<1> DEFINE Falls(q) == /\ pc'[j] = q /\ emitted' = emitted
                       /\ q \in PCs /\ Bodies(q) < Bodies(pc[j])
                       /\ q \in BeforeReturn => pc[j] \in BeforeReturn
<1>1. /\ pc[j] \in PCs /\ emitted[j] \in 0..MaxCheckpoints
      /\ \A q : Goto(j, q) => pc'[j] = q
  BY DEF TypeOK, Goto
<1>2. {"early_note", "claim", "set_running", "note_started", "callback_note",
       "work", "final_check", "cancel_note", "late_note", "set_response",
       "note_completed", "set_failed", "fail_note", "none"} \subseteq PCs
  BY DEF PCs, BeforeTry, InCallback, InTry, InHandlers
<1>3. ASSUME NEW q, Falls(q)
      PROVE  StepsAhead(j)' < StepsAhead(j)
  <2>1. StepsFrom(q, emitted[j]) < StepsFrom(pc[j], emitted[j])
    BY <1>1, <1>3, StepsFall
  <2>2. QED  BY <1>3, <2>1 DEF StepsAhead
<1>4. Handler(pc[j]) \in PCs
  BY <1>1, StepTargets
<1>5. ASSUME pc[j] \notin {"none", "work"}
      PROVE  /\ Bodies(Handler(pc[j])) < Bodies(pc[j])
             /\ Handler(pc[j]) \in BeforeReturn => pc[j] \in BeforeReturn
  BY <1>1, <1>5, HandlerTargets, BodiesOfPoints, BodiesRange, PointsBeforeReturn
<1>6. CASE FirstCheck(j)
  <2>1. PICK q \in {"early_note", "claim"} : pc'[j] = q
    BY <1>1, <1>6 DEF FirstCheck
  <2>2. Falls(q)
    BY <1>2, <1>6, <2>1, BodiesOfPoints, PointsBeforeReturn DEF FirstCheck
  <2>3. QED  BY <1>3, <2>2
<1>7. CASE Note(j)
  <2>1. pc'[j] = AfterNote[pc[j]]
    BY <1>1, <1>7 DEF Note
  <2>2. Falls(AfterNote[pc[j]])
    <3>1. pc[j] \in DOMAIN AfterNote /\ emitted' = emitted
      BY <1>7 DEF Note
    <3>2. AfterNote[pc[j]] \in PCs
      BY <3>1, StepTargets
    <3>3. /\ Bodies(AfterNote[pc[j]]) < Bodies(pc[j])
          /\ AfterNote[pc[j]] \in BeforeReturn => pc[j] \in BeforeReturn
      BY <3>1, NoteTargets, BodiesOfPoints, PointsBeforeReturn
    <3>4. QED  BY <2>1, <3>1, <3>2, <3>3
  <2>3. QED  BY <1>3, <2>2
<1>8. CASE Claim(j)
  <2>1. Falls("set_running")
    BY <1>1, <1>2, <1>8, BodiesOfPoints, PointsBeforeReturn DEF Claim
  <2>2. QED  BY <1>3, <2>1
<1>9. CASE SetRunning(j)
  <2>1. Falls("note_started")
    BY <1>1, <1>2, <1>9, BodiesOfPoints, PointsBeforeReturn DEF SetRunning
  <2>2. QED  BY <1>3, <2>1
<1>10. CASE Work(j)
  <2>1. pc[j] = "work"
    BY <1>10 DEF Work
  <2>2. CASE emitted[j] < MaxCheckpoints
             /\ emitted' = [emitted EXCEPT ![j] = @ + 1] /\ Goto(j, "callback_note")
    <3>1. pc'[j] = "callback_note" /\ emitted'[j] = emitted[j] + 1
      BY <1>1, <2>2 DEF TypeOK
    <3>2. StepsFrom("callback_note", emitted[j] + 1) < StepsFrom("work", emitted[j])
      BY <1>1, <2>2, MessageCosts
    <3>3. QED  BY <2>1, <3>1, <3>2 DEF StepsAhead
  <2>3. CASE emitted' = emitted /\ Goto(j, "final_check")
    <3>1. Falls("final_check")
      BY <1>1, <1>2, <2>1, <2>3, BodiesOfPoints, PointsBeforeReturn
    <3>2. QED  BY <1>3, <3>1
  <2>4. CASE emitted' = emitted /\ Goto(j, "fail_note")
    <3>1. Falls("fail_note")
      BY <1>1, <1>2, <2>1, <2>4, BodiesOfPoints, PointsBeforeReturn
    <3>2. QED  BY <1>3, <3>1
  <2>5. QED  BY <1>10, <2>2, <2>3, <2>4 DEF Work
<1>11. CASE CallbackCheck(j)
  <2>1. PICK q \in {"cancel_note", "work"} : pc'[j] = q
    BY <1>1, <1>11 DEF CallbackCheck
  <2>2. Falls(q)
    BY <1>2, <1>11, <2>1, BodiesOfPoints, PointsBeforeReturn DEF CallbackCheck
  <2>3. QED  BY <1>3, <2>2
<1>12. CASE FinalCheck(j)
  <2>1. PICK q \in {"late_note", "set_response"} : pc'[j] = q
    BY <1>1, <1>12 DEF FinalCheck
  <2>2. Falls(q)
    BY <1>2, <1>12, <2>1, BodiesOfPoints, PointsBeforeReturn DEF FinalCheck
  <2>3. QED  BY <1>3, <2>2
<1>13. CASE SetResponse(j)
  <2>1. Falls("note_completed")
    BY <1>1, <1>2, <1>13, BodiesOfPoints, PointsBeforeReturn DEF SetResponse
  <2>2. QED  BY <1>3, <2>1
<1>14. CASE SetError(j)
  <2>1. Falls("set_failed")
    BY <1>1, <1>2, <1>14, BodiesOfPoints, PointsBeforeReturn DEF SetError
  <2>2. QED  BY <1>3, <2>1
<1>15. CASE Finish(j)
  <2>1. pc[j] \in DOMAIN FinalStatus /\ emitted' = emitted
    BY <1>15 DEF Finish
  <2>2. pc'[j] = "none" \/ pc'[j] = Handler(pc[j])
    BY <1>1, <1>15 DEF Finish
  <2>3. pc[j] \notin {"none", "work"}
    BY <2>1, FinalStatuses
  <2>4. Falls("none") \/ Falls(Handler(pc[j]))
    <3>1. Bodies("none") < Bodies(pc[j]) /\ "none" \notin BeforeReturn
      BY <1>1, <2>3, BodiesOfPoints, BodiesRange, PointsBeforeReturn
    <3>2. QED  BY <1>2, <1>4, <1>5, <2>1, <2>2, <2>3, <3>1
  <2>5. QED  BY <1>3, <2>4
<1>16. CASE Raise(j)
  <2>1. pc[j] \notin {"none", "work"} /\ pc'[j] = Handler(pc[j]) /\ emitted' = emitted
    BY <1>1, <1>16 DEF Raise
  <2>2. Falls(Handler(pc[j]))
    BY <1>4, <1>5, <2>1
  <2>3. QED  BY <1>3, <2>2
<1>17. QED
  BY <1>6, <1>7, <1>8, <1>9, <1>10, <1>11, <1>12, <1>13, <1>14, <1>15, <1>16
     DEF ThreadStep

\* Only a start gives a thread more steps to make.
LEMMA OnlyStartsAdd ==
    ASSUME TypeOK, TypeOK', [Next]_vars, NEW j \in JobIds, ~Start(j)
    PROVE  StepsAhead(j)' <= StepsAhead(j)
<1>1. StepsAhead(j) \in Nat
  <2>1. StepsAhead(j) \in 0..(14 + 3 * MaxCheckpoints)
    BY StepsRange DEF StepsAhead, TypeOK
  <2>2. QED  BY <2>1, BoundsAssumption
<1>2. ASSUME pc'[j] = pc[j], emitted'[j] = emitted[j]
      PROVE  StepsAhead(j)' <= StepsAhead(j)
  BY <1>1, <1>2 DEF StepsAhead
<1>3. CASE \E k \in JobIds : ThreadStep(k)
  <2>1. PICK k \in JobIds : ThreadStep(k)
    BY <1>3
  <2>2. CASE k = j
    <3>1. StepsAhead(j)' < StepsAhead(j)
      BY <2>1, <2>2, ThreadNearsEnd
    <3>2. StepsAhead(j)' \in Nat
      <4>1. StepsAhead(j)' \in 0..(14 + 3 * MaxCheckpoints)
        BY StepsRange DEF StepsAhead, TypeOK
      <4>2. QED  BY <4>1, BoundsAssumption
    <3>3. QED  BY <1>1, <3>1, <3>2
  <2>3. CASE k # j
    <3>1. \A q : Goto(k, q) => pc'[j] = pc[j]
      BY <2>3 DEF Goto, TypeOK
    <3>2. pc'[j] = pc[j]
      BY <2>1, <3>1 DEF ThreadStep, FirstCheck, Note, Claim, SetRunning, Work,
         CallbackCheck, FinalCheck, SetResponse, SetError, Finish, Raise
    <3>3. emitted'[j] = emitted[j]
      BY <2>1, <2>3 DEF TypeOK, ThreadStep, FirstCheck, Note, Claim, SetRunning, Work,
         CallbackCheck, FinalCheck, SetResponse, SetError, Finish, Raise
    <3>4. QED  BY <1>2, <3>2, <3>3
  <2>4. QED  BY <2>2, <2>3
<1>4. CASE \E k \in JobIds : Start(k)
  <2>1. PICK k \in JobIds : Start(k)
    BY <1>4
  <2>2. k # j
    BY <2>1
  <2>3. pc'[j] = pc[j] /\ emitted' = emitted
    BY <2>1, <2>2 DEF Start, Goto, TypeOK
  <2>4. QED  BY <1>2, <2>3
<1>5. CASE Prune \/ \E k \in JobIds : Cancel(k)
  BY <1>2, <1>5 DEF Prune, Cancel
<1>6. CASE Restart
  <2>1. pc'[j] = "none"
    BY <1>6 DEF Restart
  <2>2. StepsAhead(j)' = 0
    BY <2>1, BodiesOfPoints, PointsBeforeReturn DEF StepsAhead, StepsFrom
  <2>3. QED  BY <1>1, <2>2
<1>7. CASE UNCHANGED vars
  BY <1>2, <1>7 DEF vars
<1>8. QED  BY <1>3, <1>4, <1>5, <1>6, <1>7 DEF Next

\* Every thread ends within fourteen steps and three more a progress
\* message, whatever raises and whoever cancels or prunes meanwhile: each step
\* it makes brings it nearer its end, and nothing but the one start of its job
\* sets it going.  With StrandedByFaults this is why a job cannot stay active.
THEOREM ThreadsWindDown ==
    Spec =>
        /\ [](\A j \in JobIds : StepsAhead(j) \in 0..(14 + 3 * MaxCheckpoints))
        /\ [][\A j \in JobIds : ThreadStep(j) => StepsAhead(j)' < StepsAhead(j)]_vars
        /\ [][\A j \in JobIds : StepsAhead(j)' > StepsAhead(j) => Start(j)]_vars
<1>1. TypeOK => \A j \in JobIds : StepsAhead(j) \in 0..(14 + 3 * MaxCheckpoints)
  BY StepsRange DEF StepsAhead, TypeOK
<1>2. TypeOK => \A j \in JobIds : ThreadStep(j) => StepsAhead(j)' < StepsAhead(j)
  BY ThreadNearsEnd
<1>3. TypeOK /\ TypeOK' /\ [Next]_vars
        => \A j \in JobIds : StepsAhead(j)' > StepsAhead(j) => Start(j)
  <2> SUFFICES ASSUME TypeOK, TypeOK', [Next]_vars, NEW j \in JobIds,
                      StepsAhead(j)' > StepsAhead(j), ~Start(j)
               PROVE  FALSE
    OBVIOUS
  <2>1. StepsAhead(j)' <= StepsAhead(j)
    BY OnlyStartsAdd
  <2>2. StepsAhead(j) \in Nat /\ StepsAhead(j)' \in Nat
    <3>1. /\ StepsAhead(j) \in 0..(14 + 3 * MaxCheckpoints)
          /\ StepsAhead(j)' \in 0..(14 + 3 * MaxCheckpoints)
      BY StepsRange DEF StepsAhead, TypeOK
    <3>2. QED  BY <3>1, BoundsAssumption
  <2>3. QED  BY <2>1, <2>2
<1>4. QED  BY <1>1, <1>2, <1>3, TypeCorrect, PTL DEF Spec
=============================================================================
