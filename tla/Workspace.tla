----------------------------- MODULE Workspace -----------------------------
(***************************************************************************)
(* One browser session's workspace (streamlit_ui/workspace_views.py,       *)
(* workspace_decision_views.py, catalog_views.py, mapping_state.py and     *)
(* reset_flow_state of streamlit_app.py): the keys of st.session_state     *)
(* that hold the upload, the mapping, the decisions, the generated         *)
(* artifacts, the active draft and the tracked mapping job.                *)
(*                                                                         *)
(* Every button is a handler in the one script of the session.  A click    *)
(* stops the script that runs: that is how a poll for a mapping job is     *)
(* left, at one of its status lines, and how the answer to a request that  *)
(* the server has carried out is lost.  Between two such points a handler  *)
(* writes its keys in one go, and is one action.                           *)
(*                                                                         *)
(* An upload is a dataset and the revision companion metadata gave it.  A  *)
(* generated artifact is the set of the upload it was made over; NoUpload  *)
(* among them: a mapping set reused from the catalog can be turned into    *)
(* code without any in view.                                               *)
(***************************************************************************)
EXTENDS Naturals, Sequences

CONSTANTS
    Schema,     \* <<..>>: mode and column names of the datasets, in order of upload
    MaxRevised, \* <<..>>, bound: enrichments of each by companion metadata
    MaxJobs,    \* bound: mapping jobs started
    MaxDrafts   \* bound: drafts saved

ASSUME WorkspaceAssumption ==
    /\ Schema \in Seq(STRING) /\ MaxRevised \in [1..Len(Schema) -> Nat]
    /\ MaxJobs \in Nat /\ MaxDrafts \in Nat

VARIABLES
    upload,     \* upload_response: the upload in view
    datasets,   \* the server's datasets: the revision each has reached
    mapping,    \* is there a mapping_response?
    decisions,  \* does the editor hold an active decision?
    outputs,    \* preview_response, codegen_response, codegen_refinement_response
    active,     \* active_draft_session, or 0
    tracked,    \* active_mapping_job, or 0
    script,     \* what the running script waits for
    jobs,       \* the server's mapping jobs
    drafts,     \* the server's draft sessions
    imported,   \* is there a catalog_last_field_import to undo?
    applied     \* history: how often each job's response was applied

view == <<upload, mapping, decisions, outputs, active>>
vars == <<view, datasets, tracked, script, jobs, drafts, imported, applied>>
-----------------------------------------------------------------------------
Uploads == UNION {{n} \X (0..MaxRevised[n]) : n \in 1..Len(Schema)}
NoUpload == <<0, 0>>
JobIds == 1..MaxJobs
Artifacts == {"preview", "code", "refinement"}
Nothing == [a \in Artifacts |-> {}]

Idle == [at |-> "idle", job |-> 0]
Polling(j) == [at |-> "polling", job |-> j]
Taken(j) == [at |-> "taken", job |-> j]

Init ==
    /\ upload = NoUpload /\ datasets = <<>> /\ mapping = FALSE /\ decisions = FALSE
    /\ outputs = Nothing /\ active = 0 /\ tracked = 0 /\ script = Idle
    /\ jobs = <<>> /\ drafts = <<>> /\ imported = FALSE
    /\ applied = [j \in JobIds |-> 0]

\* A click: the handler behind it starts, whatever ran before has ended.
Click == script' = Idle
-----------------------------------------------------------------------------
(* Setup: uploads.                                                         *)

ResetKeepingRefinement ==
    /\ mapping' = FALSE /\ decisions' = FALSE /\ active' = 0
    /\ outputs' = [Nothing EXCEPT !["refinement"] = outputs["refinement"]]

ResetKeepingDraft ==
    /\ mapping' = FALSE /\ decisions' = FALSE
    /\ outputs' = Nothing /\ active' = active

\* _reset_workspace_mapping_state: another upload starts a new mapping.  The
\* tracked job and the snapshot of the last import are left alone.
ResetMapping ==
    /\ mapping' = FALSE /\ decisions' = FALSE
    /\ outputs' = Nothing /\ active' = 0

NewUpload ==
    /\ Click
    /\ Len(datasets) < Len(Schema)
    /\ datasets' = Append(datasets, 0)
    /\ upload' = <<Len(datasets'), 0>>
    /\ ResetMapping
    /\ UNCHANGED <<tracked, jobs, drafts, imported, applied>>

\* Companion metadata describes the columns of the dataset anew; their names
\* stay.
ApplyCompanionMetadata ==
    /\ Click
    /\ upload # NoUpload /\ datasets[upload[1]] < MaxRevised[upload[1]]
    /\ LET n == upload[1] IN
       /\ datasets' = [datasets EXCEPT ![n] = @ + 1]
       /\ upload' = <<n, datasets'[n]>>
    /\ ResetMapping
    /\ UNCHANGED <<tracked, jobs, drafts, imported, applied>>

\* reset_flow_state: also leaves the tracked job and the import snapshot.
ResetFlow ==
    /\ Click
    /\ upload' = NoUpload /\ ResetMapping
    /\ UNCHANGED <<datasets, tracked, jobs, drafts, imported, applied>>
-----------------------------------------------------------------------------
(* Setup: mapping jobs.                                                    *)

KeepTracked == tracked' = tracked

\* _clear_active_mapping_job
ClearTracked == tracked' = 0

\* The job is started.  When a click has come in the meantime the script
\* ends before it notes the job.
Generate ==
    /\ upload # NoUpload /\ Len(jobs) < MaxJobs
    /\ jobs' = Append(jobs, "running")
    /\ \/ script' = Polling(Len(jobs')) /\ tracked' = Len(jobs')
       \/ Click /\ UNCHANGED tracked
    /\ UNCHANGED <<view, datasets, drafts, imported, applied>>

Resume ==
    /\ upload # NoUpload /\ tracked # 0
    /\ script' = Polling(tracked)
    /\ UNCHANGED <<view, datasets, tracked, jobs, drafts, imported, applied>>

\* poll_mapping_job reads a terminal status: the job is no longer tracked,
\* whether or not the response is then applied.
TakeAnswer ==
    /\ script.at = "polling"
    /\ LET j == script.job IN
       /\ jobs[j] # "running"
       /\ script' = IF jobs[j] = "completed" THEN Taken(j) ELSE Idle
    /\ ClearTracked
    /\ UNCHANGED <<view, datasets, jobs, drafts, imported, applied>>

\* The poll ends without a terminal status: its ten minutes are over, a
\* request fails, or a click leads elsewhere.  The job stays tracked.  After
\* the answer was taken a click only loses it.
LeavePoll ==
    /\ script # Idle /\ Click
    /\ UNCHANGED <<view, datasets, tracked, jobs, drafts, imported, applied>>

\* _apply_mapping_response
ApplyResponse ==
    /\ script.at = "taken" /\ script' = Idle
    /\ mapping' = TRUE /\ decisions' = TRUE /\ outputs' = Nothing
    /\ ClearTracked
    /\ applied' = [applied EXCEPT ![script.job] = @ + 1]
    /\ UNCHANGED <<upload, active, datasets, jobs, drafts, imported>>

\* On the server the job completes, fails or is canceled.
JobEnds(j) ==
    /\ jobs[j] = "running"
    /\ \E s \in {"completed", "ended"} : jobs' = [jobs EXCEPT ![j] = s]
    /\ UNCHANGED <<view, datasets, tracked, script, drafts, imported, applied>>
-----------------------------------------------------------------------------
(* Review, decisions and catalog.                                          *)

\* A manual mapping, its removal, an imported file, a saved mapping set: the
\* decisions change, and what was generated from the earlier ones stays.
Edit ==
    /\ Click
    /\ mapping /\ decisions' \in BOOLEAN
    /\ UNCHANGED <<upload, mapping, outputs, active, datasets, tracked, jobs, drafts,
                   imported, applied>>

\* _apply_mapping_set_detail_to_workspace: a reused mapping set replaces the
\* mapping and what was generated, but not a pending refinement.
ReuseMappingSet ==
    /\ Click
    /\ mapping' = TRUE /\ decisions' = TRUE
    /\ outputs' = [Nothing EXCEPT !["refinement"] = outputs["refinement"]]
    /\ UNCHANGED <<upload, active, datasets, tracked, jobs, drafts, imported, applied>>

\* _merge_mapping_set_fields_into_workspace
ImportFields ==
    /\ Click
    /\ decisions' = TRUE /\ imported' = TRUE /\ outputs' = Nothing
    /\ UNCHANGED <<upload, mapping, active, datasets, tracked, jobs, drafts, applied>>

\* _restore_last_field_import
UndoImport ==
    /\ Click
    /\ imported /\ imported' = FALSE
    /\ decisions' \in BOOLEAN /\ outputs' = Nothing
    /\ UNCHANGED <<upload, mapping, active, datasets, tracked, jobs, drafts, applied>>
-----------------------------------------------------------------------------
(* Output.                                                                 *)

CanGenerate == mapping /\ decisions

Produce(new) ==
    /\ Click
    /\ outputs' = new
    /\ UNCHANGED <<upload, mapping, decisions, active, datasets, tracked, jobs, drafts,
                   imported, applied>>

GeneratePreview ==
    /\ CanGenerate /\ upload # NoUpload
    /\ Produce([outputs EXCEPT !["preview"] = {upload}])

GenerateCode ==
    /\ CanGenerate
    /\ Produce([outputs EXCEPT !["code"] = {upload}, !["refinement"] = {}])

\* _workspace_refinement_source_response: a refinement is refined further.
Refine ==
    /\ mapping
    /\ outputs["code"] # {}
    /\ Produce([outputs EXCEPT !["refinement"] = IF @ # {} THEN @ ELSE outputs["code"]])

\* "Accept refined version" and "Discard refinement" are drawn with the code.
AcceptRefinement ==
    /\ mapping /\ outputs["code"] # {} /\ outputs["refinement"] # {}
    /\ Produce([outputs EXCEPT !["code"] = outputs["refinement"], !["refinement"] = {}])

DiscardRefinement ==
    /\ mapping /\ outputs["code"] # {} /\ outputs["refinement"] # {}
    /\ Produce([outputs EXCEPT !["refinement"] = {}])
-----------------------------------------------------------------------------
(* Draft sessions.                                                         *)

\* "Save draft session"; when the answer is lost the draft is not active.
SaveDraft ==
    /\ Click
    /\ upload # NoUpload /\ mapping /\ decisions
    /\ Len(drafts) < MaxDrafts
    /\ drafts' = Append(drafts, [upload |-> upload, outputs |-> outputs])
    /\ active' \in {active, Len(drafts')}
    /\ UNCHANGED <<upload, mapping, decisions, outputs, datasets, tracked, jobs,
                   imported, applied>>

\* "Save decisions to active draft" sends the decisions and what was
\* generated, not the upload they are about.  A save refused as stale reloads
\* the draft instead, which is ResumeDraft(active).
SaveDecisions ==
    /\ Click
    /\ mapping /\ active # 0
    /\ drafts' = [drafts EXCEPT ![active].outputs = outputs]
    /\ UNCHANGED <<view, datasets, tracked, jobs, imported, applied>>

\* _draft_session_restore_conflict_reason: another upload is in view, and its
\* mode or its columns differ.  Every upload has columns, and the session
\* talks to one backend, so neither exception of the code is met.
Conflicts(d) == upload # NoUpload /\ Schema[upload[1]] # Schema[drafts[d].upload[1]]

\* _apply_draft_session_detail_to_workspace
ResumeDraft(d) ==
    /\ Click
    /\ ~ Conflicts(d)
    /\ upload' = drafts[d].upload /\ active' = d
    /\ mapping' = TRUE /\ decisions' = TRUE
    /\ outputs' = drafts[d].outputs
    /\ UNCHANGED <<datasets, tracked, jobs, drafts, imported, applied>>
-----------------------------------------------------------------------------
Next ==
    \/ NewUpload \/ ApplyCompanionMetadata \/ ResetFlow
    \/ Generate \/ Resume \/ TakeAnswer \/ LeavePoll \/ ApplyResponse
    \/ \E j \in 1..Len(jobs) : JobEnds(j)
    \/ Edit \/ ReuseMappingSet \/ ImportFields \/ UndoImport
    \/ GeneratePreview \/ GenerateCode \/ Refine \/ AcceptRefinement \/ DiscardRefinement
    \/ SaveDraft \/ SaveDecisions \/ \E d \in 1..Len(drafts) : ResumeDraft(d)

Spec == Init /\ [][Next]_vars
-----------------------------------------------------------------------------
(* Properties.                                                             *)

\* The keys fit together: the upload in view is a revision the server's
\* dataset has reached, the active draft exists, a script that polls does so
\* for the tracked job, and an answer taken is that of a completed job which
\* is no longer tracked, so that no second poll for it can be started.
WorkspaceTypeOK ==
    /\ upload \in {NoUpload} \cup Uploads
    /\ upload # NoUpload => upload[1] <= Len(datasets) /\ upload[2] <= datasets[upload[1]]
    /\ mapping \in BOOLEAN /\ decisions \in BOOLEAN /\ imported \in BOOLEAN
    /\ outputs \in [Artifacts -> SUBSET ({NoUpload} \cup Uploads)]
    /\ active \in 0..Len(drafts) /\ tracked \in 0..Len(jobs)
    /\ script.at = "polling" => tracked = script.job
    /\ script.at = "taken" => tracked = 0 /\ jobs[script.job] = "completed"
    /\ applied \in [JobIds -> Nat]

AreOf(out, u) == \A a \in Artifacts : out[a] \subseteq {u}

\* A preview, code or refinement on the screen was made over the upload on
\* the screen, and those kept in a draft over the upload kept in it, however
\* uploads, resumes, reuse, refinements and lost answers follow each other
\* (workspace_views.py:2575, workspace_decision_views.py:669).
OutputsAreOfUpload ==
    /\ AreOf(outputs, upload)
    /\ \A d \in 1..Len(drafts) : AreOf(drafts[d].outputs, drafts[d].upload)

\* Decisions are saved into an existing draft only while the upload that
\* draft was created with is in view: the request does not name the upload,
\* so nothing on the server would notice (workspace_decision_views.py:798).
DraftsKeepTheirUpload ==
    [][\A d \in 1..Len(drafts) :
          drafts'[d] # drafts[d] => upload = drafts[d].upload]_vars

\* The response of a mapping job replaces mapping and decisions at most once,
\* whatever was clicked while it ran: a reviewer's later edits are never
\* overwritten by the job they started from (workspace_views.py:191, 3691).
AppliedOnce == \A j \in JobIds : applied[j] <= 1
=============================================================================
