-------------------------- MODULE WorkspaceProofs --------------------------
(***************************************************************************)
(* Theorems about Workspace, for every series of uploads and any number of *)
(* revisions, jobs and drafts.                                             *)
(***************************************************************************)
EXTENDS Workspace, TLAPS

-----------------------------------------------------------------------------
(* The inductive invariant.                                                *)

Outputs == [Artifacts -> SUBSET ({NoUpload} \cup Uploads)]
Draft == [upload : Uploads, outputs : Outputs]

\* An upload the server has, in a revision it has reached.
Known(x, data) ==
    x \in Uploads /\ x[1] \in 1..Len(data) /\ x[2] <= data[x[1]]

\* The values of the keys, of the server's tables and of the script.
KeysInv ==
    /\ datasets \in Seq(Nat) /\ Len(datasets) <= Len(Schema)
    /\ \A n \in 1..Len(datasets) : datasets[n] <= MaxRevised[n]
    /\ upload = NoUpload \/ Known(upload, datasets)
    /\ \A d \in 1..Len(drafts) : Known(drafts[d].upload, datasets)
    /\ mapping \in BOOLEAN /\ decisions \in BOOLEAN /\ imported \in BOOLEAN
    /\ outputs \in Outputs
    /\ jobs \in Seq({"running", "completed", "ended"}) /\ Len(jobs) <= MaxJobs
    /\ drafts \in Seq(Draft)
    /\ active \in 0..Len(drafts) /\ tracked \in 0..Len(jobs)

\* A script waits for the tracked job, or holds the answer of one that is no
\* longer tracked.  A job that can still be applied has not been.
ScriptInv ==
    /\ script \in [at : {"idle", "polling", "taken"}, job : 0..Len(jobs)]
    /\ script.at = "polling" => script.job # 0 /\ tracked = script.job
    /\ script.at = "taken" =>
          script.job # 0 /\ tracked = 0 /\ jobs[script.job] = "completed"
    /\ applied \in [JobIds -> Nat]
    /\ \A j \in JobIds :
          /\ applied[j] <= 1
          /\ j > Len(jobs) \/ tracked = j \/ (script.at = "taken" /\ script.job = j) =>
                applied[j] = 0

\* What is on the screen belongs to the upload on the screen, and so does the
\* active draft.
BelongsInv ==
    /\ AreOf(outputs, upload)
    /\ \A d \in 1..Len(drafts) : AreOf(drafts[d].outputs, drafts[d].upload)
    /\ active # 0 => drafts[active].upload = upload

WorkspaceInv == KeysInv /\ ScriptInv /\ BelongsInv

-----------------------------------------------------------------------------
(* The steps, by what they leave alone.                                    *)

\* An update of a sequence changes one element.
LEMMA Updated ==
    ASSUME NEW S, NEW s \in Seq(S), NEW i \in 1..Len(s), NEW x \in S
    PROVE  /\ [s EXCEPT ![i] = x] \in Seq(S)
           /\ Len([s EXCEPT ![i] = x]) = Len(s)
           /\ [s EXCEPT ![i] = x][i] = x
           /\ \A j \in 1..Len(s) : j # i => [s EXCEPT ![i] = x][j] = s[j]
  OBVIOUS

\* The upload in view can be turned into an artifact.
LEMMA UploadOutputs ==
    ASSUME KeysInv
    PROVE  upload \in {NoUpload} \cup Uploads /\ Nothing \in Outputs
  BY DEF KeysInv, Known, Nothing, Outputs

\* A poll or an answer: the script and the jobs, the view unchanged.
LEMMA PollStep ==
    ASSUME WorkspaceInv,
           Generate \/ Resume \/ TakeAnswer \/ LeavePoll \/ \E j \in 1..Len(jobs) : JobEnds(j)
    PROVE  WorkspaceInv'
  <1> USE DEF WorkspaceInv, KeysInv, ScriptInv, Idle, Polling, Taken, Click, JobIds
  <1> USE WorkspaceAssumption
  <1>0. UNCHANGED <<view, datasets, drafts, imported, applied>>
    BY DEF Generate, Resume, TakeAnswer, LeavePoll, JobEnds
  <1>1. BelongsInv' /\ \A x : Known(x, datasets) => Known(x, datasets')
    BY <1>0 DEF view, BelongsInv, Known
  <1>2. CASE Generate
    <2>1. /\ jobs' = Append(jobs, "running") /\ Len(jobs') = Len(jobs) + 1
          /\ jobs' \in Seq({"running", "completed", "ended"}) /\ Len(jobs') <= MaxJobs
          /\ \A j \in 1..Len(jobs) : jobs'[j] = jobs[j]
      BY <1>2 DEF Generate
    <2>2. KeysInv' /\ ScriptInv'
      <3>1. CASE script' = Polling(Len(jobs')) /\ tracked' = Len(jobs')
        <4>1. KeysInv'
          BY <1>0, <1>1, <2>1, <3>1 DEF view
        <4>2. ScriptInv'
          BY <1>0, <2>1, <3>1
        <4> QED
          BY <4>1, <4>2
      <3>2. CASE script' = Idle /\ tracked' = tracked
        <4>1. KeysInv'
          BY <1>0, <1>1, <2>1, <3>2 DEF view
        <4>2. ScriptInv'
          BY <1>0, <2>1, <3>2
        <4> QED
          BY <4>1, <4>2
      <3> QED
        BY <1>2, <3>1, <3>2 DEF Generate
    <2> QED
      BY <1>1, <2>2
  <1>3. CASE Resume
    BY <1>0, <1>1, <1>3 DEF view, Resume
  <1>4. CASE TakeAnswer
    <2>1. /\ script.at = "polling" /\ tracked' = 0 /\ jobs' = jobs
          /\ script' = IF jobs[script.job] = "completed" THEN Taken(script.job) ELSE Idle
      BY <1>4 DEF TakeAnswer, ClearTracked
    <2> QED
      BY <1>0, <1>1, <2>1 DEF view
  <1>5. CASE LeavePoll
    <2>1. KeysInv'
      BY <1>0, <1>1, <1>5 DEF view, LeavePoll
    <2>2. ScriptInv'
      BY <1>0, <1>5 DEF LeavePoll
    <2> QED
      BY <1>1, <2>1, <2>2
  <1>6. ASSUME NEW j \in 1..Len(jobs), JobEnds(j) PROVE WorkspaceInv'
    <2>1. PICK s \in {"completed", "ended"} : jobs' = [jobs EXCEPT ![j] = s]
      BY <1>6 DEF JobEnds
    <2>2. /\ jobs' \in Seq({"running", "completed", "ended"}) /\ Len(jobs') = Len(jobs)
          /\ \A i \in 1..Len(jobs) : i # j => jobs'[i] = jobs[i]
      BY <2>1
    <2>3. script.at = "taken" => script.job # j
      BY <1>6 DEF JobEnds
    <2> QED
      BY <1>0, <1>1, <1>6, <2>2, <2>3 DEF view, JobEnds
  <1> QED
    BY <1>2, <1>3, <1>4, <1>5, <1>6

\* What keeps the invariant of a click that is not about jobs.
LEMMA ClickScript ==
    ASSUME WorkspaceInv, Click, UNCHANGED <<tracked, jobs, applied>>
    PROVE  ScriptInv'
  BY DEF WorkspaceInv, ScriptInv, Click, Idle

\* An upload, its enrichment or a reset starts the view anew.
LEMMA UploadStep ==
    ASSUME WorkspaceInv, NewUpload \/ ApplyCompanionMetadata \/ ResetFlow
    PROVE  WorkspaceInv'
  <1> USE DEF WorkspaceInv, KeysInv
  <1> USE WorkspaceAssumption
  <1>1. /\ Click /\ ResetMapping
        /\ UNCHANGED <<tracked, jobs, drafts, imported, applied>>
    BY DEF NewUpload, ApplyCompanionMetadata, ResetFlow
  <1>2. ScriptInv'
    BY <1>1, ClickScript
  <1>3. BelongsInv'
    BY <1>1 DEF ResetMapping, BelongsInv, AreOf, Nothing
  <1>4. /\ datasets' \in Seq(Nat) /\ Len(datasets') <= Len(Schema)
        /\ \A n \in 1..Len(datasets') : datasets'[n] <= MaxRevised[n]
        /\ upload' = NoUpload \/ Known(upload', datasets')
        /\ \A x : Known(x, datasets) => Known(x, datasets')
    <2>1. CASE NewUpload
      <3>1. /\ datasets' = Append(datasets, 0) /\ Len(datasets') = Len(datasets) + 1
            /\ upload' = <<Len(datasets'), 0>> /\ Len(datasets') <= Len(Schema)
        BY <2>1 DEF NewUpload
      <3>2. upload' \in Uploads
        BY <3>1 DEF Uploads
      <3>3. /\ datasets' \in Seq(Nat) /\ datasets'[Len(datasets')] = 0
            /\ \A n \in 1..Len(datasets) : datasets'[n] = datasets[n]
        BY <3>1
      <3>4. \A x : Known(x, datasets) => Known(x, datasets')
        BY <3>1, <3>3 DEF Known
      <3>5. \A n \in 1..Len(datasets') : datasets'[n] <= MaxRevised[n]
        BY <3>1, <3>3
      <3> QED
        BY <3>1, <3>2, <3>3, <3>4, <3>5 DEF Known
    <2>2. CASE ApplyCompanionMetadata
      <3> DEFINE n == upload[1]
      <3>1. /\ upload \in Uploads /\ n \in 1..Len(datasets) /\ datasets[n] < MaxRevised[n]
            /\ datasets' = [datasets EXCEPT ![n] = datasets[n] + 1]
            /\ upload' = <<n, datasets'[n]>>
        BY <2>2 DEF ApplyCompanionMetadata, Known
      <3> HIDE DEF n
      <3>1a. datasets[n] \in Nat /\ datasets[n] + 1 \in Nat
        BY <3>1
      <3>2. /\ datasets' \in Seq(Nat) /\ Len(datasets') = Len(datasets)
            /\ datasets'[n] = datasets[n] + 1
            /\ \A m \in 1..Len(datasets) : m # n => datasets'[m] = datasets[m]
        BY <3>1, <3>1a, Updated
      <3>3. /\ n \in 1..Len(Schema) /\ datasets'[n] <= MaxRevised[n]
            /\ datasets'[n] \in 0..MaxRevised[n]
        <4>1. Len(Schema) \in Nat /\ Len(datasets) \in Nat /\ Len(datasets) <= Len(Schema)
          OBVIOUS
        <4>2. n \in 1..Len(Schema)
          BY <3>1, <4>1
        <4>3. MaxRevised[n] \in Nat
          BY <4>2
        <4> QED
          BY <3>1, <3>1a, <3>2, <4>2, <4>3
      <3>4. upload' \in Uploads
        <4>1. upload' \in {n} \X (0..MaxRevised[n])
          BY <3>1, <3>3
        <4> QED
          BY <3>3, <4>1 DEF Uploads
      <3>5. Known(upload', datasets')
        BY <3>1, <3>2, <3>4 DEF Known
      <3>6. \A x : Known(x, datasets) => Known(x, datasets')
        <4> SUFFICES ASSUME NEW x, Known(x, datasets) PROVE Known(x, datasets')
          OBVIOUS
        <4>1. x[1] \in 1..Len(datasets) /\ x[2] \in Nat /\ x[2] <= datasets[x[1]]
          BY DEF Known, Uploads
        <4>2. datasets[x[1]] \in Nat
          BY <4>1
        <4>3. datasets'[x[1]] \in {datasets[x[1]], datasets[x[1]] + 1}
          BY <3>2, <4>1
        <4>4. x[2] <= datasets'[x[1]]
          <5> DEFINE low == x[2]  old == datasets[x[1]]  new == datasets'[x[1]]
          <5>1. low \in Nat /\ old \in Nat /\ low <= old /\ (new = old \/ new = old + 1)
            BY <4>1, <4>2, <4>3
          <5> HIDE DEF low, old, new
          <5>2. low <= new
            BY <5>1
          <5> QED
            BY <5>2 DEF low, new
        <4> QED
          BY <3>2, <4>1, <4>4 DEF Known
      <3>7. ASSUME NEW m \in 1..Len(datasets') PROVE datasets'[m] <= MaxRevised[m]
        <4>1. CASE m = n
          BY <3>3, <4>1
        <4>2. CASE m # n
          BY <3>2, <4>2
        <4> QED
          BY <4>1, <4>2
      <3> QED
        BY <3>2, <3>5, <3>6, <3>7
    <2>3. CASE ResetFlow
      BY <2>3 DEF ResetFlow, Known
    <2> QED
      BY <2>1, <2>2, <2>3
  <1>5. KeysInv'
    <2>1. /\ mapping' = FALSE /\ decisions' = FALSE /\ outputs' = Nothing /\ active' = 0
          /\ Nothing \in Outputs
      BY <1>1, UploadOutputs DEF ResetMapping
    <2>2. \A d \in 1..Len(drafts') : Known(drafts'[d].upload, datasets')
      BY <1>1, <1>4
    <2>3. /\ imported' \in BOOLEAN /\ tracked' \in 0..Len(jobs')
          /\ jobs' \in Seq({"running", "completed", "ended"}) /\ Len(jobs') <= MaxJobs
      BY <1>1
    <2>4. drafts' \in Seq(Draft) /\ active' \in 0..Len(drafts')
      BY <1>1, <2>1
    <2> HIDE DEF WorkspaceInv, KeysInv
    <2> QED
      BY <1>4, <2>1, <2>2, <2>3, <2>4 DEF KeysInv
  <1> QED
    BY <1>2, <1>3, <1>5

\* The keys after a step that leaves uploads, jobs and drafts alone.
LEMMA SameUpload ==
    ASSUME WorkspaceInv,
           UNCHANGED <<upload, datasets, active, jobs, drafts>>,
           mapping' \in BOOLEAN, decisions' \in BOOLEAN, imported' \in BOOLEAN,
           outputs' \in Outputs, AreOf(outputs', upload), tracked' \in 0..Len(jobs)
    PROVE  KeysInv' /\ BelongsInv'
  BY DEF WorkspaceInv, KeysInv, Known, BelongsInv

\* The response of a job is applied to the view it finds.
LEMMA ApplyStep ==
    ASSUME WorkspaceInv, ApplyResponse
    PROVE  WorkspaceInv'
  <1> USE WorkspaceAssumption
  <1>1. /\ script.at = "taken" /\ script' = Idle /\ tracked' = 0
        /\ mapping' = TRUE /\ decisions' = TRUE /\ outputs' = Nothing
        /\ applied' = [applied EXCEPT ![script.job] = @ + 1]
        /\ UNCHANGED <<upload, active, datasets, jobs, drafts, imported>>
    BY DEF ApplyResponse, ClearTracked
  <1>2. KeysInv' /\ BelongsInv'
    <2>1. outputs' \in Outputs /\ AreOf(outputs', upload) /\ imported \in BOOLEAN
          /\ 0 \in 0..Len(jobs)
      BY <1>1, UploadOutputs DEF WorkspaceInv, KeysInv, AreOf, Nothing
    <2> QED
      BY <1>1, <2>1, SameUpload
  <1>3. ScriptInv'
    <2>1. script.job \in JobIds /\ applied[script.job] = 0
      BY <1>1 DEF WorkspaceInv, KeysInv, ScriptInv, JobIds
    <2>2. applied' \in [JobIds -> Nat] /\ \A j \in JobIds : applied'[j] <= 1
      BY <1>1, <2>1 DEF WorkspaceInv, ScriptInv
    <2>3. \A j \in JobIds : j > Len(jobs) => applied'[j] = 0
      BY <1>1, <2>1 DEF WorkspaceInv, KeysInv, ScriptInv, JobIds
    <2> QED
      BY <1>1, <2>2, <2>3 DEF WorkspaceInv, KeysInv, ScriptInv, Idle, JobIds
  <1> QED
    BY <1>2, <1>3 DEF WorkspaceInv

\* Edits, reuse, imports and generation keep the upload in view.
LEMMA DecisionStep ==
    ASSUME WorkspaceInv,
           \/ Edit \/ ReuseMappingSet \/ ImportFields \/ UndoImport
           \/ GeneratePreview \/ GenerateCode \/ Refine \/ AcceptRefinement
           \/ DiscardRefinement
    PROVE  WorkspaceInv'
  <1> USE DEF WorkspaceInv
  <1>1. /\ Click
        /\ UNCHANGED <<upload, datasets, active, tracked, jobs, drafts, applied>>
        /\ mapping' \in BOOLEAN /\ decisions' \in BOOLEAN /\ imported' \in BOOLEAN
    BY DEF Edit, ReuseMappingSet, ImportFields, UndoImport, GeneratePreview,
           GenerateCode, Refine, AcceptRefinement, DiscardRefinement, Produce,
           KeysInv
  <1>2. outputs' \in Outputs /\ AreOf(outputs', upload)
    <2>0. outputs \in Outputs /\ AreOf(outputs, upload)
          /\ upload \in {NoUpload} \cup Uploads /\ Nothing \in Outputs
      BY UploadOutputs DEF KeysInv, BelongsInv
    <2> USE DEF Outputs, AreOf, Artifacts, Nothing
    <2>1. CASE Edit \/ ReuseMappingSet \/ ImportFields \/ UndoImport
      BY <2>0, <2>1 DEF Edit, ReuseMappingSet, ImportFields, UndoImport
    <2>2. CASE GeneratePreview \/ GenerateCode
      BY <2>0, <2>2 DEF GeneratePreview, GenerateCode, Produce
    <2>3. CASE Refine \/ AcceptRefinement \/ DiscardRefinement
      BY <2>0, <2>3 DEF Refine, AcceptRefinement, DiscardRefinement, Produce
    <2> QED
      BY <2>1, <2>2, <2>3
  <1>3. KeysInv' /\ BelongsInv'
    <2>1. tracked' \in 0..Len(jobs)
      BY <1>1 DEF KeysInv
    <2> QED
      BY <1>1, <1>2, <2>1, SameUpload
  <1> QED
    BY <1>1, <1>3, ClickScript

\* Saving and resuming drafts.
LEMMA DraftStep ==
    ASSUME WorkspaceInv,
           SaveDraft \/ SaveDecisions \/ \E d \in 1..Len(drafts) : ResumeDraft(d)
    PROVE  WorkspaceInv'
  <1> USE DEF WorkspaceInv, KeysInv
  <1>1. Click /\ UNCHANGED <<datasets, tracked, jobs, imported, applied>>
    BY DEF SaveDraft, SaveDecisions, ResumeDraft, view
  <1>2. ScriptInv'
    BY <1>1, ClickScript
  <1>3. CASE SaveDraft
    <2> DEFINE new == [upload |-> upload, outputs |-> outputs]
    <2>1. /\ drafts' = Append(drafts, new) /\ active' \in {active, Len(drafts')}
          /\ UNCHANGED <<upload, mapping, decisions, outputs>>
          /\ upload \in Uploads
      BY <1>3 DEF SaveDraft, Known
    <2>2. new \in Draft
      BY <2>1 DEF Draft
    <2>3. /\ drafts' \in Seq(Draft) /\ Len(drafts') = Len(drafts) + 1
          /\ \A d \in 1..Len(drafts) : drafts'[d] = drafts[d]
          /\ drafts'[Len(drafts')] = new
      BY <2>1, <2>2
    <2>4. BelongsInv'
      BY <2>1, <2>3 DEF BelongsInv
    <2>5. \A d \in 1..Len(drafts') : Known(drafts'[d].upload, datasets')
      <3>1. \A x : Known(x, datasets) => Known(x, datasets')
        BY <1>1 DEF Known
      <3>2. Known(upload, datasets)
        BY <1>3 DEF SaveDraft
      <3>3. \A d \in 1..Len(drafts') : d \in 1..Len(drafts) \/ d = Len(drafts')
        BY <2>3
      <3> SUFFICES ASSUME NEW d \in 1..Len(drafts') PROVE Known(drafts'[d].upload, datasets')
        OBVIOUS
      <3>4. CASE d \in 1..Len(drafts)
        <4>1. drafts'[d] = drafts[d] /\ Known(drafts[d].upload, datasets)
          BY <2>3, <3>4
        <4> QED
          BY <3>1, <4>1
      <3>5. CASE d = Len(drafts')
        <4>1. drafts'[d].upload = upload
          BY <2>3, <3>5
        <4> QED
          BY <3>1, <3>2, <4>1
      <3> QED
        BY <3>3, <3>4, <3>5
    <2>6. upload' = NoUpload \/ Known(upload', datasets')
      BY <1>1, <2>1 DEF Known
    <2>7. active' \in 0..Len(drafts')
      BY <2>1, <2>3
    <2> QED
      BY <1>1, <1>2, <2>1, <2>3, <2>4, <2>5, <2>6, <2>7
  <1>4. CASE SaveDecisions
    <2>1. /\ active \in 1..Len(drafts) /\ UNCHANGED view
          /\ drafts' = [drafts EXCEPT ![active].outputs = outputs]
      BY <1>4 DEF SaveDecisions
    <2>2. \A d \in 1..Len(drafts) : drafts[d] \in Draft
      OBVIOUS
    <2>3. [drafts[active] EXCEPT !.outputs = outputs] \in Draft
      BY <2>1, <2>2 DEF Draft
    <2>4. /\ drafts' \in Seq(Draft) /\ Len(drafts') = Len(drafts)
          /\ \A d \in 1..Len(drafts) : d # active => drafts'[d] = drafts[d]
          /\ drafts'[active].outputs = outputs
          /\ drafts'[active].upload = drafts[active].upload
      BY <2>1, <2>2, <2>3 DEF Draft
    <2>5. BelongsInv'
      BY <2>1, <2>4 DEF BelongsInv, view
    <2> QED
      BY <1>1, <1>2, <2>1, <2>4, <2>5 DEF Known, view
  <1>5. ASSUME NEW d \in 1..Len(drafts), ResumeDraft(d) PROVE WorkspaceInv'
    <2>1. /\ upload' = drafts[d].upload /\ active' = d
          /\ mapping' = TRUE /\ decisions' = TRUE
          /\ outputs' = drafts[d].outputs /\ drafts' = drafts
      BY <1>5 DEF ResumeDraft
    <2>2. drafts[d] \in Draft
      OBVIOUS
    <2>3. BelongsInv'
      BY <2>1 DEF BelongsInv
    <2> QED
      BY <1>1, <1>2, <2>1, <2>2, <2>3 DEF Draft, Known
  <1> QED
    BY <1>3, <1>4, <1>5

-----------------------------------------------------------------------------
(* The theorems.                                                           *)

\* Every step keeps the invariant.
LEMMA WorkspaceStep ==
    ASSUME WorkspaceInv, [Next]_vars
    PROVE  WorkspaceInv'
  <1>1. CASE UNCHANGED vars
    BY <1>1 DEF vars, view, WorkspaceInv, KeysInv, ScriptInv, BelongsInv, Known
  <1> QED
    BY <1>1, PollStep, UploadStep, ApplyStep, DecisionStep, DraftStep DEF Next

\* The invariant is inductive, hence holds in every reachable state.
THEOREM WorkspaceConsistent == Spec => []WorkspaceInv
  <1>1. Init => WorkspaceInv
    <2> SUFFICES ASSUME Init PROVE WorkspaceInv
      OBVIOUS
    <2> USE WorkspaceAssumption DEF Init
    <2>1. KeysInv
      <3>1. outputs \in Outputs
        BY DEF Outputs, Nothing
      <3>2. /\ datasets = <<>> /\ Len(datasets) = 0 /\ Len(Schema) \in Nat
            /\ jobs = <<>> /\ Len(jobs) = 0 /\ drafts = <<>> /\ Len(drafts) = 0
        OBVIOUS
      <3>3. datasets \in Seq(Nat) /\ Len(datasets) <= Len(Schema)
        BY <3>2
      <3>4. jobs \in Seq({"running", "completed", "ended"}) /\ Len(jobs) <= MaxJobs
        BY <3>2
      <3>5. drafts \in Seq(Draft)
        BY <3>2
      <3>6. /\ \A n \in 1..Len(datasets) : datasets[n] <= MaxRevised[n]
            /\ \A d \in 1..Len(drafts) : Known(drafts[d].upload, datasets)
        BY <3>2
      <3>7. active \in 0..Len(drafts) /\ tracked \in 0..Len(jobs)
        BY <3>2
      <3>8. /\ upload = NoUpload /\ mapping \in BOOLEAN /\ decisions \in BOOLEAN
            /\ imported \in BOOLEAN
        OBVIOUS
      <3> HIDE DEF Init
      <3> QED
        BY <3>1, <3>3, <3>4, <3>5, <3>6, <3>7, <3>8 DEF KeysInv
    <2>2. ScriptInv
      BY DEF ScriptInv, Idle, JobIds
    <2>3. BelongsInv
      BY DEF BelongsInv, AreOf, Nothing
    <2> QED
      BY <2>1, <2>2, <2>3 DEF WorkspaceInv
  <1> QED
    BY <1>1, WorkspaceStep, PTL DEF Spec

\* The keys of the session fit each other and the server's tables.
THEOREM WorkspaceTypeCorrect == Spec => []WorkspaceTypeOK
  <1>1. WorkspaceInv => WorkspaceTypeOK
    BY DEF WorkspaceInv, KeysInv, Known, ScriptInv, WorkspaceTypeOK, Outputs
  <1> QED
    BY <1>1, WorkspaceConsistent, PTL

\* Artifacts stay with the upload they were made over, on the screen and in
\* drafts.
THEOREM OutputsStayWithUpload == Spec => []OutputsAreOfUpload
  <1>1. WorkspaceInv => OutputsAreOfUpload
    BY DEF WorkspaceInv, BelongsInv, OutputsAreOfUpload
  <1> QED
    BY <1>1, WorkspaceConsistent, PTL

\* A mapping job overwrites the reviewer's decisions once at most.
THEOREM ResponsesAppliedOnce == Spec => []AppliedOnce
  <1>1. WorkspaceInv => AppliedOnce
    BY DEF WorkspaceInv, ScriptInv, AppliedOnce
  <1> QED
    BY <1>1, WorkspaceConsistent, PTL

\* The decisions of one upload never go into a draft of another.
THEOREM DraftsStayWithUpload == Spec => DraftsKeepTheirUpload
  <1> DEFINE Kept == \A d \in 1..Len(drafts) :
                        drafts'[d] # drafts[d] => upload = drafts[d].upload
  <1>1. WorkspaceInv /\ [Next]_vars => [Kept]_vars
    <2> SUFFICES ASSUME WorkspaceInv, Next,
                        NEW d \in 1..Len(drafts), drafts'[d] # drafts[d]
                 PROVE  upload = drafts[d].upload
      OBVIOUS
    <2>1. CASE SaveDraft
      BY <2>1 DEF SaveDraft, WorkspaceInv, KeysInv
    <2>2. CASE SaveDecisions
      BY <2>2 DEF SaveDecisions, WorkspaceInv, KeysInv, BelongsInv
    <2>3. SaveDraft \/ SaveDecisions
      BY DEF Next, NewUpload, ApplyCompanionMetadata, ResetFlow, Generate, Resume,
             TakeAnswer, LeavePoll, ApplyResponse, JobEnds, Edit, ReuseMappingSet,
             ImportFields, UndoImport, GeneratePreview, GenerateCode, Refine,
             AcceptRefinement, DiscardRefinement, Produce, ResumeDraft
    <2> QED
      BY <2>1, <2>2, <2>3
  <1> QED
    BY <1>1, WorkspaceConsistent, PTL DEF Spec, DraftsKeepTheirUpload
=============================================================================
