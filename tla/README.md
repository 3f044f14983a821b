# A verification development for Semantra

Semantra maps the columns of a source dataset to a target schema or to a canonical glossary. A
FastAPI backend (`backend/app`) keeps its state in SQLite, in process memory and in CSV files of
knowledge; a Streamlit client (`streamlit_ui`) keeps a workspace per browser session next to it;
`semantra_agent` is an SDK over the same services. This directory holds TLA+ models of the parts of
it that keep state, the TLC configurations that check them, and TLAPS proofs about them.

`PROJECT.json` records the same in a form tools can read: which lines each definition models
(`map`), which runs check what, for every property a broken variant of the code that violates it
(`mutants`: the operators commented "A broken ..." in the modules), the hazards, and the theorems.

## 1. How the system runs

These facts about the code decide what is one action and what interleaves.

- Every route is an `async def` whose body never awaits, except `file.read()` in `upload.py` and
  `knowledge.py`. A handler therefore runs to its end on the one event loop: **two handlers never
  interleave**, and a handler is one action unless something else can see or break its middle.
- What does run beside the event loop: one **daemon thread per mapping job**
  (`mapping_job_service.py`), which shares the job table, the knowledge tables and the process-wide
  settings with the handlers.
- Every persistence method opens its own SQLite connection and transaction
  (`persistence_service.connection`, lines 61-75). A handler of several storage calls is several
  transactions: **a fault or a crash may leave it half done**.
- **Clients** interleave their requests: each works on what it read earlier, gives up after 60
  seconds (`streamlit_ui/api.py`) and does not know whether its request was handled. What a click
  does in two requests may be left after the first.
- A Streamlit **session** runs one script. A click stops the script that runs, wherever it waits or
  writes a status line, and starts the handler behind the button: a session's handlers do not
  interleave, but each may be cut short by the next. (This is how the client uses Streamlit 1.56;
  the framework itself is external.)
- **Operators** edit the CSV sources on disk, and the process restarts.

## 2. Inventory

| Component | State | Operations | What is hard | What makes it correct | Modelled in |
|---|---|---|---|---|---|
| Mapping-job runtime (`mapping_job_service.py`, tables `mapping_jobs`, `mapping_job_events`) | a row per job: status, cancel flag, stamps, worker, lease, response, error | start, cancel, get_status, runtime_status, the worker thread, prune, recovery at start | thread against handlers; check-then-write across locked bodies; storage faults; restarts; retention | capacity and retention hold; an outcome has its artifacts; an accepted cancel wins; every job settles | MappingJobs |
| Knowledge overlays (`knowledge_overlay_versions`, `_entries`) | versions with a status and entries | create, activate, deactivate, roll back, archive, approve a canonical gap | handlers of several transactions | at most one active; archived for good; an approval loses nothing | KnowledgeOverlays |
| Stewardship queue and canonical-gap triage (`knowledge_stewardship_items`) | items with key and status; the consoles' lists | upsert, change status, approve, reject, promote to the glossary | decisions of two calls from stale lists; the glossary written before the item | the queue tells what was earned; no approval past a rejection | Stewardship, over KnowledgeOverlays |
| Knowledge runtime (`metadata_knowledge_service.py`, `knowledge_runtime_repository.py`) | source files, persisted snapshot and stamp, in-memory tables, match caches | refresh, reseed, registry change, glossary authoring, overlay change, match | four load paths over the same state; edits on disk; unlocked caches; failures half-way | a stamp never hides a change; memory and snapshot come from the same versions; matches come from the tables served | KnowledgeRuntime |
| Draft sessions (`draft_sessions`; the workspace of `workspace_decision_views.py`) | a versioned draft with owner; each client's workspace | create, list, get, PUT, PUT decision-state, PUT review-state; resume, save, stale reload, upload | optimistic concurrency; late and lost answers | no lost update; a version names one content; owned drafts stay private | DraftSessions |
| Mapping-set governance and catalog (`mapping_sets`, `mapping_catalog_*`, audit log) | versions of a set, status, catalog projection, audit | create, change status, apply, catalog search, field reuse | a client picks from an old list; audit in a transaction of its own; versions per name, catalog per integration | versions grow with the sets; the newest approved set is the one offered; the log tells every status and every reuse | MappingGovernance |
| Candidate scoring and LLM validation (`mapping_service.py`, `llm_service.py`) | the rankings of a run; the call in flight | rank, gate, attempt, answer, assign, assemble | answers of any shape; recommendations against the assignment; settings switched under the run | a run ends; accepted targets are unique; what it says of a recommendation is true | MappingPipeline (partly) |
| Target assignment (`assign_unique_targets`, `solve_min_cost_assignment`) | the arrays of the Hungarian algorithm | its two nested loops | padding, ties, zero weights, pairs without a score | one target per source, each used once, best total; it ends | TargetAssignment |
| Corrections, evaluation, process-wide settings | correction history, reusable rules, a feedback switch, the scoring profile | append, promote a rule, evaluate with switches changed, choose a profile | process-wide switches seen by job threads | an evaluation leaves the settings as it found them; an undisturbed run has one setting | MappingPipeline (the switches) |
| Workspace user interface (`streamlit_ui`) | `st.session_state`: upload, mapping, decisions, artifacts, active draft, tracked job, import snapshot | upload, metadata, reset, generate, poll, resume, reuse, import, undo, edit, preview, code, refine, drafts | a dozen handlers each with its own list of keys to clear; keys that survive an upload; polls cut short | artifacts and drafts belong to the upload; a response is applied once | Workspace (partly) |
| Upload store (`upload_store.py`) | memory cache over `uploaded_datasets` | save, read through, merge companion metadata | little: see section 8 | memory equals table | - |
| LLM and speech providers, bounded assistants | none | prompts, retries, JSON salvage | text | the retry loop (MappingPipeline) | - |
| Source field hints, decision log, runtime capacity guard | small tables; a semaphore | upsert; append; acquire | little: see section 8 | - | - |
| Transformation, preview, code generation, file parsing, profiling | none (saved test sets) | text and pandas over one request | - | - | - |
| Configuration, roles, observability | settings | reload | a reload under running jobs | - | - |
| `semantra_agent`, knowledge build scripts | none | linear graph, adapters; offline generators | - | - | - |

How they interact: a job thread ranks with the knowledge runtime's tables, memoises into its caches,
reads the process-wide settings that evaluations and admins switch, hands the ranked scores to the
assignment and appends to the decision log; overlay changes and canonical-gap approvals end in
`metadata_knowledge_service.refresh()`; an approval is let through by the item in the stewardship
queue; promotion of stewardship items writes the glossary file and reloads; clients hold copies of
drafts, mapping sets, queue items and catalog lists and write back with or without a version; a
session polls the mapping job it started, applies its response, and keeps the results in drafts.

## 3. The modules

| System module | Instantiated by | Theorems in |
|---|---|---|
| MappingJobs, refining MappingJobLifecycle | MCMappingJobs | MappingJobsProofs |
| KnowledgeOverlays | (Stewardship) | StewardshipProofs |
| Stewardship, refining KnowledgeOverlays | MCStewardship | StewardshipProofs |
| KnowledgeRuntime | itself | KnowledgeRuntimeProofs |
| DraftSessions | MCDraftSessions | DraftSessionsProofs |
| MappingGovernance | MCMappingGovernance | MappingGovernanceProofs |
| TargetAssignment | MCTargetAssignment | TargetAssignmentProofs |
| MappingPipeline | itself (`llm_reply`) | MappingPipelineProofs |
| MappingRun: MappingPipeline with TargetAssignment in it, refining MappingPipeline | itself | MappingPipelineProofs |
| Workspace | MCWorkspace | WorkspaceProofs |

### MappingJobs, MappingJobLifecycle, MCMappingJobs

`MappingJobs` models `MappingJobStore` over its SQLite store. Every method holds the store's lock
for its body, so **one locked body is one action**; a thread is a program counter `pc[j]` over the
bodies `_run_worker` calls: first check, notes, claim, set running, the worker with its progress
callbacks, final check, set response, set completed, and the error and cancel paths. `store[j]` is
the row; a response, an error, a lease are there or not. Wall-clock time appears only as the order
of the `updated_at` stamps (`later`), which retention goes by, and a prune may take any cut the
clock could make (`Prunable`). A storage call may raise (`Raise`): before the `try` this ends the
thread, in it it leads to the error path. `Restart` drops the threads and recovers the rows as
`_recover_interrupted_jobs` does.

`MappingJobLifecycle` is the abstract specification: what polling a job id answers
(unsubmitted, active, an outcome, forgotten). `MappingJobs` implements it through `ClientView`.

### KnowledgeOverlays

The two overlay tables and the admin requests on them. Requests of one transaction are one action;
creating a version and approving a gap take two and three, `handler` is the request in progress,
and `CutShort` ends it between two of them. Entries are sets of aliases.

### KnowledgeRuntime

Source files are their versions; the persisted snapshot, the in-memory tables, the canonical
aliases and the field contexts are recorded by the versions they were derived from. Saving and
loading are not inverse (`Saved`, `Loaded`): the rows hold the contexts of a knowledge concept but
not which of them are in the index from field names, and the loader
(`metadata_knowledge_service.py:1853`) enters all of them, the parsers (2140, 2478) only some. So
the tables carry `indexed`, and `runtimeSource` how they were built. `ServesSnapshot` says that
memory and rows come from the same versions, and that a process whose source is the snapshot has
exactly the tables a restart would load; of a process that parsed the files that is false, and
section 6 reports it. `step` and `mode` walk one
request through its load path (`refresh`, reseed, authoring sync, start); operators' edits, a
matching thread, an exception and a crash may come between any two steps. `NoStamp` is no stamp.
All sources but the glossary are one file, the registry.

### DraftSessions, MCDraftSessions

The rows of `draft_sessions` and their handlers (one action each: they run to the end on the event
loop), and the clients: a workspace with the active draft, the version last told, its decisions
and review filters. A content is the set of marks the users made in it. Requests are on the wire
until handled; a client may give up at any time, after which its request is late (it can be
handled whenever) or its answer lost. `seen` and `knew` are history: what was on the screen of the
author of a request when it was sent. `MayAccess` is the actor check, skipped when either side is
unknown, as in the code.

### MappingGovernance, MCMappingGovernance

`sets[s]` and `catalog[s]` are the row of mapping set s in `mapping_sets` and its projection in
`mapping_catalog_entries`, written in one transaction; `audit[s]` is what the log tells of s: the
status it names last and whether it names an approval. `Create`, `UpdateStatus` and `Apply` are the
routes; each ends with the audit entry, a transaction of its own, or is `CutShort` before it.
`NextVersion` is the numbering per name, `Latest` and `LatestApproved` the order in which the
catalog lists an integration. A client has what it was shown as approved (`offered`), a field reuse
shortlist and the sets its workspace took decisions from; the lists may be of any age. The
decisions of a saved set never change, so a set stands for them. `Apply` checks the status on the
server, and the workspace then holds the set alone ("Reuse in Workspace") or merged with decisions of
any of the sets it held before, those for sources the new set does not decide ("Apply saved mapping
set"; `Merge`); `ImportFields` is the plain GET of the set that the field import uses.

### Stewardship, MCStewardship

The queue over the overlays, in one module that extends `KnowledgeOverlays` and composes with its
actions. One canonical gap is followed from triage through approval into an overlay, and one alias
of an overlay through promotion into the glossary. A console (`seen`, `pending`) decides from the
items it fetched last, however old; a decision on a gap is two calls, the approval or the audited
rejection and then the status of the item, between which anything may happen and after the first
of which the console may be left (`GiveUp`). `ApproveGap` carries the API's own gate and the copy of
the active overlay; it is the first transaction of `KnowledgeOverlays`' approval, whose other two and
whose cut are taken over by `OverlayHandler`. "Approve and persist" of the workspace is the same
request without a console. Promotion writes the glossary and then the item (`promoting`).

### TargetAssignment, MCTargetAssignment

The assignment of a schema: `SolverInit` pads the scores of any rectangular schema to the square cost
matrix of `assign_unique_targets`, and one action is one pass of one loop of
`solve_min_cost_assignment`: the choice of a row, one search pass over the unused columns with its
update of the duals, one step of the augmentation. Ties between columns are broken by position as in
the code. Weights are integers where the code has floats. What the result is compared with is a
definition that knows nothing of the algorithm: every matching of the scored pairs (`Matchings`),
and the sum of its weights. `MCTargetAssignment` adds that the solver returns.

### MappingPipeline

One run of `generate_mapping_candidates` on its job thread: `Rank` field by field, reading the
process-wide settings anew each time; `Gate`, `Attempt`, `AnswerNoObject` and `Answer` for the
validator, with every answer a provider can give (a failing transport, text that is no JSON, JSON
that is no object, a target inside or outside the closed set, no match) on each attempt; `Assign`,
in one step any one-to-one assignment of greatest weight; `Assemble` with its outcomes per field. Scores are three levels (low, middle, at or above automatic acceptance), which
is all the control flow tells apart. Beside it the event loop serves the evaluations that switch
the scoring profile, the weight overrides or correction feedback and restore them, each assignment
of theirs a step of its own, for the thread reads between them; and the admin's choice of a profile.

### MappingRun

The same run with the code of `assign_unique_targets` in the place of `Assign`. `BuildMatrix` numbers
the ranked targets in the order in which the rankings name them first (`Namings`, the `dict.fromkeys`
of the code), fills in the weights and sets up the solver's arrays; `Solve` is one pass of
`TargetAssignment`, between any two of which the event loop may serve its requests; `Return` reads
the columns back as targets (`AssignedBySource`). MappingPipeline is the abstract specification of
this run: `AssignsAsSpecified` says that the steps up to the return are stutters and the return is an
`Assign`.

### Workspace, MCWorkspace

The keys of one session and the handlers that write them. `upload` is the dataset in view with the
revision that companion metadata gave it; an artifact (preview, code, refinement) is the set of the
upload it was made over. The four reset lists of the code are told apart by what they keep:
`_reset_workspace_mapping_state` (uploads), `reset_flow_state`, the reuse of a mapping set, and
`_apply_mapping_response`. `script` is the poll in progress: `TakeAnswer` is the poll's terminal
status, which forgets the tracked job; `ApplyResponse` follows unless a click comes first
(`LeavePoll`). `SaveDecisions` sends no dataset, and a save refused as stale reloads the draft, which is
`ResumeDraft(active)`; `Conflicts` is the restore check by mode and columns (its comparison of the
backend's address and its exception for an empty column list are left out: a session talks to one
backend, and every upload has columns). `applied` is history.

## 4. What the runs check

| Run | Instance | Shows |
|---|---|---|
| `jobs_safety` | 4 jobs, 2 active at once, 1 retained, no checkpoints, 1 restart, 1 fault, ids symmetric | `OutcomeMatchesArtifacts`, `LeaseFollowsClaim`, `AcceptedCancelPreventsCompletion`, `StrandedByFaults`, `CapacityRespected`, `StoreBounded`, `OwnResultSurvives` |
| `jobs_liveness` | 2 jobs, 1 checkpoint, 1 restart, no faults, no symmetry | `EveryJobSettles` and `ImplementsLifecycle` |
| `jobs_lost_cancel` | 1 job | finding: a cancel overwritten by the starting thread |
| `stewardship` | 2 consoles (symmetric), 2 versions, 2 aliases, 1 handler cut short | the overlay tables (`AtMostOneActive`, `HalfCreatedByFaults`, `ApprovalKeepsEntries`, `ArchivedForGood`) under the queue; `QueueIsEarned`, `NoApprovalPastReject`; `OverlaysAsSpecified`, the refinement |
| `knowledge` | 2 edits, 1 overlay, 1 thread, 1 exception, 1 crash | `RefreshStampHonest`, `ServesSnapshot`, `ActiveOverlayApplied`, `OnlyOverlappedMatchesStale` |
| `knowledge_drift` | 2 edits, nothing else | finding: authoring stamps a registry it did not read |
| `drafts` | 2 actors and a client without one, 1 draft, 2 marks, 5 requests, 1 timeout | `VersionNamesContent`, `NoBlindOverwrite`, `OwnedDraftsArePrivate` |
| `governance` | 3 sets under 2 names (symmetric) in 1 integration, 1 client, 1 handler cut short | `VersionsFollowIds`, `LatestApprovedIsNewest`, `AuditTellsStatus`, `ReuseAccountedFor` |
| `assignment` | every schema of up to 3 by 3, each pair unscored or of weight 1 or 3 | `MatchingComplete`, `DualsCertify`, `BestTotal` (no matching of scored pairs weighs more), `Solved` |
| `pipeline` (of MappingRun) | 2 fields, 2 targets, closed set of 2, 2 attempts, 2 profiles, 1 switching request; matrices of up to 2 by 2 | `AcceptedAreOneToOne`, `PreferredTargetTaken`, `RunsUndisturbed`, `PipelineEnds`; `AssignsAsSpecified`, the refinement |
| `llm_reply` | 1 field, 2 targets | finding: an unusable reply fails the run |
| `workspace` | 2 kinds of schema, the second enriched once, 1 job, 2 drafts | `WorkspaceTypeOK`, `OutputsAreOfUpload`, `AppliedOnce`, `DraftsKeepTheirUpload` |

The type invariants of the other modules are proved and not repeated by a run.

**Bounds.** Every bound is a constant of the module and stands in a guard. Four jobs are one more
than two active and one retained may be, with two threads side by side; checkpoints multiply the
positions of a worker and are in the liveness run. One restart and one fault at any point meet every
pair of locked bodies, and the proofs cover any number. Two overlay versions give a replaced and an
active one, which is what an approval copies from; a third only adds rollback choices, and the proofs
cover any number, as they cover any number of consoles. Two edits give an edit before and one during
a load, by operator or by request. Five requests are a create, a resume by another client, two
competing saves and the reload a stale answer leads to; one timeout gives one late request, the
case the proofs generalise. Three mapping sets give two versions of a name and one of another; a
set goes through any sequence of statuses. Schemas of three by three include wide and tall ones,
fields that compete for one target and augmentations along a path of three; two weights and "unscored"
give ties, the greedy trap and zero-weight pairs. Two fields are what it takes to compete, and a
switch may fall between any two reads; `Weights` are the six that a score and the validator's pick
make. Two uploads with different columns, one of which exists in
two revisions, give a resume that conflicts and one that does not; two drafts, an active and another.

**Deadlock** is checked except in `stewardship`, `pipeline`, `llm_reply` and `workspace`: there every
id, request or upload may be used up and the run be over. The other systems always have a request, a
poll or an edit left, or stutter by one.

**Fairness** is assumed of the threads alone. `MappingJobs!FairSpec` asks weak fairness of each job
thread: a thread waits only for the store's lock, every locked body ends, and the worker callback is
a loop over the columns of a schema whose LLM calls have timeouts. `MappingRun!FairRunSpec` (and
`MappingPipeline!FairSpec`) ask it of the run's own steps, for the same reasons; the switching
requests need not come. `TargetAssignment!SolverFairSpec` asks that a sequential loop runs on.
That the steps these threads take lead to an end does not rest on fairness: it is proved (the
WindDown theorems of section 5). Nothing is assumed of requests,
prunes, restarts, clients or consoles. No liveness is claimed with storage faults: a fault outside
the `try` strands a job (`StrandedByFaults` counts them).

## 5. What is proved

The proofs hold for every value of the constants under the assumptions stated with them (numbers
are naturals, the job ids and the targets are finite sets, capacity and retention positive, weights
naturals; no target is called `no_match` or `none`; a run's schemas and weights are among those
`MaxSize` and `Weights` name for its matrices).

- **MappingJobsProofs.** `RowsConsistent`, the inductive invariant, ties a row to the position of
  its thread: which statuses a row can have while the thread is where, where the response and the
  error are stored, and that an accepted cancel stays in the row until a check that will see it. The
  properties of the runs are not inductive alone: that a completed job has a response, say, needs
  that the thread about to complete it has stored one. Each of type correctness, leases
  and accepted cancels follows from it. Outcomes also need `OneOutcome`: without faults and restarts
  a thread enters the error path from the worker alone, which has no response yet, so that no row
  gets both a response and an error. Then cardinality arguments: capacity (start adds one row
  only below the limit, nothing else makes a row active), the size of the table, stranded jobs
  counted by faults, and that the finishing prune keeps its own job. Last the refinement: each step
  is a step or a stutter of the lifecycle, for `MaxFaults = 0`. The assumption is needed: when the
  prune after "completed" was saved raises, the code's error path turns the job into a failed one, a
  change of outcome the lifecycle forbids. `ThreadsWindDown` counts the locked bodies ahead of a
  thread, with three steps for each progress message still to come: every step of the thread lowers
  the count, the way through the error paths and storage faults included, and only the start of its
  job raises it.
- **StewardshipProofs, the overlays.** Types, one active version, archived for good, and that approvals
  keep entries, from an invariant that says what the approval in progress carries; and, counting
  the versions without entries other than the one a request is about to fill, that each is a handler
  that was cut short.
- **StewardshipProofs, the queue.** `QueueDrivesOverlays`: every step of the composed system is a step or a
  stutter of KnowledgeOverlays, so that its theorems hold under the queue
  (`OverlaysHoldUnderQueue`). `EarnedInv` strengthens `QueueIsEarned` by what is on its way: a second
  call that will record an approval, a console's list that still shows one, an approval whose copy is
  not active yet. Without these the property is not inductive: a stale console may write back
  what it saw. `RejectionsHold` needs that nothing changes the gap while the handler of an approval
  runs.
- **KnowledgeRuntimeProofs.** For every step of every load path, what the request knows: which
  versions the tables, the local hash and the rows have. The properties of the run follow; that
  memory is what a load of the rows makes rests on a load being undone by a save (`LoadThenSave`),
  while the converse is false.
  That the memoised match is current rests on an own invariant over the matches in progress.
- **DraftSessionsProofs.** All four properties, for any number of clients, drafts, requests and
  timeouts. The invariant `DraftInv` says what a version number is worth: whoever holds a version
  of a draft, in a workspace or in a request however late, has had on the screen everything stored
  under it (`Knows`), although a client that saves is told the next version without being shown the
  content. `WaitInv` is needed for that: a client does not move on while the one request that may be
  answered is under way. The steps of the server come down to one form (`Served`) and those of the
  clients to four (`Sends`, `Hears`, `Works`, `Timeout`), each with its lemma.
- **MappingGovernanceProofs.** All five properties. `SetsInv` adds that ids are handed out in order
  and that the catalog equals the table; from it and the numbering follows that the first approved
  record of an integration filed under one name is the newest. `CountInv` counts the sets the log
  is wrong about over everything that may still be reused, lists of any age included (`Reusable`):
  counting over the workspaces alone is not inductive.
- **TargetAssignmentProofs.** For schemas and weights of every size: no index leaves its array
  (`AssignmentTypeSafe`); when the solver returns every row has a column and no column two rows
  (`MatchingIsComplete`); and the duals are feasible and tight on the matched pairs
  (`DualsAreCertificate`). The invariant is one of the search tree: the column under treatment and
  the columns used before it form a tree rooted in column 0 whose edges (`way`) are tight; `above` is
  the history variable for its order, and while rows shift along the path one column is a hole
  (`Holding`). `AssignmentIsBest` goes from the certificate to the optimum: no matching of scored
  pairs weighs more than the one returned. It is an argument about sums over matchings of any size.
  The library's induction takes an operator and cannot be used, so a sum is here a function on the
  finite subsets that satisfies the sum's equation (`IsSum`), induction over finite sets is a
  minimal counterexample among sets (`FiniteInduction`), and weak duality follows from both.
  `SearchFindsColumn` and `SolverWindsDown`: every pass finds its column, and lowers a bounded
  number, so the `while True` loops of the code end.
- **MappingPipelineProofs, the run.** For any number of fields, targets, profiles and requests, types
  (`PipelineTypes`) among them. `SwitchInv` says
  what an evaluation has switched at each of its steps and that it has saved what to restore;
  `ScoredInv`, that a run nobody switched settings under has read those it started with
  (`UndisturbedRuns`). `AcceptedInv` says with which target a field can be accepted at all, from which
  and from the assignment being a matching follows `AcceptedOneToOne`. `PreferredTargets` is an
  exchange argument: were the recommended target free and the field's own no better, moving the
  field to it would make a heavier assignment. It needs `RankInv`, that a ranking names each target
  once and that the validator's pick is in it.
- **MappingPipelineProofs, the run with the solver.** `RunImplementsPipeline`: every step of
  MappingRun is a step or a stutter of MappingPipeline. `RunInv` says that while the solver works its
  matrix is that of the rankings under the numbering chosen, on which `AssignmentIsBest` applies; the
  proof then carries matchings of columns to assignments of targets and back, weight for weight. So
  what holds of MappingPipeline holds of the run with its solver (`RunsAreSafe`). `RunsWindDown` joins
  the counts: gates, attempts and passes that are left fall lexicographically with every step of the
  thread, and the event loop's steps leave them alone.
- **WorkspaceProofs.** All four properties, for every series of uploads and any number of revisions,
  jobs and drafts. `BelongsInv` adds that the active draft is one of the upload in view, which every
  reset list has to keep; `ScriptInv` that a job which can still be applied (running, tracked or
  taken) never was, which is why a job that is no longer tracked cannot be polled again.

Every safety invariant and every action property of the passing runs is stated by one of these
theorems. Only model-checked is liveness under fairness (`EveryJobSettles`, the liveness part of
`ImplementsLifecycle`, `Solved`, `PipelineEnds`), which is out of the prover's reach; the WindDown
theorems prove the part of it that is safety, that the steps of a thread are bounded in number, and
what is left is that the thread can always take its next one. The mapping of jobs with faults to the
lifecycle is neither claimed nor checked.

## 6. Findings

1. **A cancel can be lost** (`jobs_lost_cancel`). `cancel()` accepts a request for a queued job and
   tells the client that the step will stop. If the thread is between its first check and
   `_set_status("running")`, the write of `running` clears the request and the job completes.
   Cancels accepted while the job is running are never lost (proved).
2. **Authoring hides drift** (`knowledge_drift`). After an operator's edit of the registry, a
   glossary import stamps the snapshot with the hash of all files, the registry included, and no
   refresh or restart reads it again.
3. **An unusable reply fails the run** (`llm_reply`). The documentation promises that the heuristic
   ranking stays in force. `parse_llm_json_payload` returns any JSON value, and `call_validator` reads
   `parsed.get("error")` outside its `try`: a list or a string raises, and the mapping run fails for
   one field. So does a JSON error raised by the transport on the last attempt, which is reported
   with a `raw_response` no attempt has bound.

Observed while modelling, of which no text of the repository says otherwise, so that no run states
a violation:

- Rollback activates the validated version of the highest id, also one that was never in force.
- A field import reads the chosen mapping set with a plain GET and does not check that it is still
  approved; that it was once is proved (`ReuseAccountedFor`).
- `latest_version` goes by version number, which counts per name, while the catalog groups by
  integration, so that a set of another name may rank first.
- Choosing a scoring profile (`observability.py:97`) takes effect in the middle of running jobs:
  `RunsUndisturbed` is about runs nobody overlapped.
- A field the validator rejected still takes part in the assignment. Another field that recommends
  the target it is given is told that the target "was already assigned elsewhere"
  (`mapping_service.py:270`), while the response leaves that target free; `PreferredTargetTaken` is
  about the assignment, not the response.
- "Save stewardship fields" writes back the status the console saw and so undoes a decision made
  since; "Approve and persist" of the workspace leaves the item `ready_for_approval`.
- "Reset flow" (`help.en.md:88`) leaves the tracked job, the decision audit, the transformation
  design and the import snapshot. A tracked job resumed after another upload applies the mapping of
  the earlier dataset; "Undo last field import" after an upload restores the decisions of the earlier
  one (`catalog_views.py:1472`); the audit map survives an upload (`workspace_views.py:2592`).
- When a click lands between the poll's clearing of the tracked job (`workspace_views.py:225`) and
  `_apply_mapping_response`, the response of a completed job is no longer reachable from the session.
- "Reuse in Workspace" clears the code and keeps a pending refinement (`catalog_views.py:1231`). It is
  not drawn, because refinements are drawn with the code, and generating code drops it, but readers
  that prefer it to the code (`api.py:564`) and a saved draft still have it.
- A restart with a current stamp changes matches. `refresh` means the rows only to "skip expensive
  file parsing when DB is current" (`metadata_knowledge_service.py:966`), but loading them
  (1853-1856) enters the field name of every concept context into the index from field names, which
  parsing does not do for contexts that come with a concept (2478, 2140): a field such as
  MARA.LAEDA resolves after the restart and not before. The added entries also count in
  `has_noncanonical_entry` (1601-1608), so that an alias may lose its promotion.
- "Revert refined mapping" restores the state of the time of the preview, not of the acceptance
  (`workspace_review_views.py:423`); a proposal of the LLM for one field skips its stale check when the
  row's or the proposal's target is empty (`workspace_decision_views.py:932`) and survives an upload.
- Saving corrections whose answer was lost stores them twice, which counts towards the two that make
  a reusable rule; a saved "rejected" row stays pending and is saved again (`mapping_state.py:366`).

## 7. Plan

Done: the job runtime and its lifecycle, knowledge overlays and the queue over them, the knowledge
runtime, drafts, governance, the assignment, the pipeline of a run, the two composed, the workspace,
and proofs about all of them. Left, most important first:

1. **ReviewDecisions**: the review editor row by row (statuses, refinements and their revert, LLM
   proposals, corrections), under Workspace.
2. Composition of MappingJobs and MappingRun: the worker's steps as the run's.
3. An abstract specification of a shared versioned document that DraftSessions implements, and the
   proof of the refinement.

## 8. Not modelled

- **Upload store.** A write-through cache over one table, read through on a miss. Every access is in a
  handler on the one event loop, or a job thread's of a handle it already loaded, so that no two
  accesses interleave and cache and table agree by construction.
- **Runtime capacity guard.** Taken and released inside one synchronous handler: it never sees a
  second holder.
- **Source field hints, decision log.** One upsert, one append, each one transaction and read by the
  handler that wrote it. **Corrections**: one insert each; promotion of a rule is idempotent.
- **Scoring signals, prompts, providers, assistants, speech, JSON salvage, code generation, preview,
  file parsing and profiling** are functions of one request over numbers and text: there is no order
  of events to get wrong, and a model would repeat the code.
- **Admin, catalog and benchmark views** beyond the handlers named above render what they fetch.
  **Roles and configuration** are read-only per request; a configuration reload that points
  persistence at another database under running jobs is listed as a hazard.
- **`semantra_agent`** is protocols, adapters and a linear two-node graph without shared state. The
  knowledge build scripts are run by hand, offline.
- Of what is modelled: a file rewrite is atomic in `KnowledgeRuntime` (a crash in the middle of one
  is a hazard in the list); clearing methods (`clear_*`) are called by tests only; Workspace leaves
  out the keys of analysis, copilot and transformation design and the audit map.

Because of this the map covers only part of the repository's lines: most of the rest is rendering,
prompts, parsing and scoring, which hold no state between requests.
