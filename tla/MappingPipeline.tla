-------------------------- MODULE MappingPipeline --------------------------
(***************************************************************************)
(* One mapping run: generate_mapping_candidates of                         *)
(* backend/app/services/mapping_service.py with the LLM validator of       *)
(* llm_service.py, on the thread of a mapping job, while the event loop    *)
(* serves the requests that switch process-wide settings under it: the     *)
(* benchmark evaluations of evaluation_service.py, which switch the        *)
(* scoring profile, the weight overrides or correction feedback for their  *)
(* own runs and switch them back, and the admin's choice of a profile.     *)
(*                                                                         *)
(* A score is one of three levels: 1 low confidence, 2 in between, 3 at or *)
(* above auto_accept and the top of the LLM band, which coincide.  The     *)
(* signals behind it are not modelled: ranking a source chooses any sorted *)
(* list of scored targets.                                                 *)
(***************************************************************************)
EXTENDS Naturals, FiniteSets, Sequences, FiniteSetsExt

CONSTANTS
    NumSources,         \* bound: source fields, ranked and validated in order
    Targets,
    TopK,               \* settings.top_k_candidates
    Retries,            \* settings.llm_max_retries
    Profiles,
    DefaultProfile,
    MaxRequests,        \* bound: requests that switch the settings
    NoTarget

ASSUME PipelineAssumption ==
    /\ NumSources \in Nat \ {0} /\ TopK \in Nat \ {0} /\ Retries \in Nat \ {0}
    /\ NoTarget \notin Targets /\ DefaultProfile \in Profiles /\ MaxRequests \in Nat

\* A schema has finitely many target fields, and none of them is called what
\* the validator answers for no match.
ASSUME TargetsAssumption ==
    IsFiniteSet(Targets) /\ "no_match" \notin Targets /\ "none" \notin Targets

Sources == 1..NumSources
Levels == 1..3

VARIABLES
    settings,       \* process-wide: profile, overrides in force, feedback on
    evaluation,     \* where the event loop is in an evaluation, and the
                    \* settings that evaluation saved
    phase,          \* where the mapping run is
    at,             \* the source the phase has come to
    rankings,       \* per_source_scores, each sorted
    decisions,      \* llm_decisions: a target, "no_match" or "none"
    call,           \* the validator call in flight: attempts made, whether
                    \* raw_response is bound
    assigned,       \* assigned_scores
    response,       \* the mapping of each source
    fingerprint,    \* scoring_profile of the response's runtime fingerprint
    configured,     \* history: the settings outside any evaluation
    startedUnder,   \* history: the settings configured when the run started
    asStarted,      \* history: every ranking so far used those settings
    overlapped,     \* history: someone switched settings during the run
    requests        \* bound: requests so far

loopVars == <<settings, evaluation, configured, requests>>
runVars == <<phase, at, rankings, decisions, call, assigned, response,
             fingerprint, asStarted, startedUnder>>
vars == <<loopVars, runVars, overlapped>>
-----------------------------------------------------------------------------
Settings == [profile : Profiles, overrides : BOOLEAN, feedback : BOOLEAN]

Candidate == [target : Targets, score : Levels, picked : BOOLEAN]

\* sorted(scored, key = score, reverse = True) of a scored shortlist.
SortedRankings ==
    {r \in UNION {[1..n -> [target : Targets, score : Levels, picked : {FALSE}]]
                    : n \in 1..Cardinality(Targets)} :
        \A i, j \in DOMAIN r :
            i < j => r[i].target # r[j].target /\ r[i].score >= r[j].score}

ClosedSet(r) == SubSeq(r, 1, IF Len(r) < TopK THEN Len(r) ELSE TopK)
TargetsOf(r) == {r[i].target : i \in DOMAIN r}
CandidateOf(r, t) == CHOOSE c \in {r[i] : i \in DOMAIN r} : c.target = t
ScoreOf(r, t) == CandidateOf(r, t).score

NoCall == [attempt |-> 0, bound |-> FALSE]
NoMapping == [target |-> NoTarget, status |-> "none"]
Unresolved == [target |-> NoTarget, status |-> "needs_review"]

InRun == phase \notin {"idle", "done", "failed"}

-----------------------------------------------------------------------------
(* The run.                                                                *)

\* The start of a job: a request, so no evaluation is under way.
Start ==
    /\ phase = "idle"
    /\ evaluation.at = "idle"
    /\ phase' = "rank"
    /\ startedUnder' = configured
    /\ UNCHANGED <<loopVars, at, rankings, decisions, call, assigned, response,
                   fingerprint, asStarted, overlapped>>

\* rank_targets_for_source reads the settings and the correction feedback
\* anew for every field.
Rank ==
    /\ phase = "rank"
    /\ \E r \in SortedRankings : rankings' = [rankings EXCEPT ![at] = r]
    /\ asStarted' = (asStarted /\ settings = startedUnder)
    /\ IF at < NumSources THEN at' = at + 1 /\ UNCHANGED phase
                          ELSE at' = 1 /\ phase' = "validate"
    /\ UNCHANGED <<loopVars, decisions, call, assigned, response, fingerprint,
                   startedUnder, overlapped>>

\* The gate opens for a score inside the LLM band, for a canonical-looking
\* top candidate without knowledge behind it (rescue mode), and above the band
\* for a strong canonical competitor within the margin.
Gates(r) ==
    {g \in [open : BOOLEAN, rescue : BOOLEAN] :
        /\ g.rescue => g.open /\ r[1].score # 3
        /\ g.open /\ r[1].score = 3 =>
              \E i \in DOMAIN ClosedSet(r) \ {1} : r[i].score # 1}

\* The next source, or the end of the loop over them.
NextSource ==
    IF at < NumSources THEN at' = at + 1 /\ phase' = "validate"
                       ELSE at' = 1 /\ phase' = "assign"

\* apply_llm_validation reaches the next source; use_llm may be off.
Gate ==
    /\ phase = "validate"
    /\ \E g \in Gates(rankings[at]) :
          IF g.open THEN phase' = "call" /\ UNCHANGED at
                    ELSE NextSource
    /\ UNCHANGED <<loopVars, call, rankings, decisions, assigned, response,
                   fingerprint, asStarted, startedUnder, overlapped>>

\* A broken retry loop whose failed attempts are not counted.
AttemptForEver ==
    /\ phase = "call"
    /\ call' = [call EXCEPT !.bound = ~@]
    /\ UNCHANGED <<loopVars, phase, at, rankings, decisions, assigned, response,
                   fingerprint, asStarted, startedUnder, overlapped>>

\* A transport failure or an answer that is no JSON costs an attempt; after
\* the last one the heuristic ranking is kept.  A JSON error raised by the
\* transport itself, on the last attempt, is reported with a raw_response
\* that an earlier answer may or may not have bound.
Attempt ==
    /\ phase = "call"
    /\ call.attempt < Retries
    /\ \E failure \in {"transport", "transport_json", "no_json"} :
          LET last == call.attempt + 1 = Retries
              bound == call.bound \/ failure = "no_json" IN
          IF ~last THEN /\ call' = [call EXCEPT !.attempt = @ + 1, !.bound = bound]
                        /\ UNCHANGED <<phase, at>>
          ELSE IF failure = "transport_json" /\ ~bound
               THEN phase' = "failed" /\ UNCHANGED <<at, call>>
               ELSE NextSource /\ call' = NoCall
    /\ UNCHANGED <<loopVars, rankings, decisions, assigned, response,
                   fingerprint, asStarted, startedUnder, overlapped>>

\* A JSON answer that is no object: reading its "error" key raises.
AnswerNoObject ==
    /\ phase = "call"
    /\ phase' = "failed"
    /\ UNCHANGED <<loopVars, at, rankings, decisions, call, assigned, response,
                   fingerprint, asStarted, startedUnder, overlapped>>

\* A broken validate_result that takes any target name, and the code's.
AnyTarget(r) == Targets
PickableTargets(r) == TargetsOf(ClosedSet(r))

\* What call_validator makes of a JSON object: no result, no_match (its own
\* or a low confidence in rescue mode), or a target of the closed set, of
\* enough confidence.
Verdicts ==
    {"none", "no_match"} \cup PickableTargets(rankings[at])

\* The picked candidate, if it is one, is scored again and the sort moves it
\* to the front of the others.
Repicked(r, t, level) ==
    IF t \notin TargetsOf(ClosedSet(r)) THEN r
    ELSE LET k == CHOOSE i \in DOMAIN r : r[i].target = t IN
         [i \in DOMAIN r |->
            IF i = 1 THEN [target |-> t, score |-> level, picked |-> TRUE]
            ELSE IF i <= k THEN r[i - 1] ELSE r[i]]

Answer ==
    /\ phase = "call"
    /\ \E verdict \in Verdicts :
          /\ decisions' = [decisions EXCEPT ![at] = verdict]
          /\ IF verdict \in Targets
             THEN \E level \in Levels :
                     rankings' = [rankings EXCEPT ![at] = Repicked(@, verdict, level)]
             ELSE UNCHANGED rankings
    /\ call' = NoCall
    /\ NextSource
    /\ UNCHANGED <<loopVars, assigned, response, fingerprint, asStarted,
                   startedUnder, overlapped>>

\* The weight of a pair; the LLM's pick breaks ties only.
WeightInverted(c) == 10 * (4 - c.score) - (IF c.picked THEN 1 ELSE 0)
Weight(c) == 10 * c.score + (IF c.picked THEN 1 ELSE 0)

Assignments ==
    {f \in [Sources -> Targets \cup {NoTarget}] :
        /\ \A s \in Sources : f[s] \in TargetsOf(rankings[s]) \cup {NoTarget}
        /\ \A s, z \in Sources : s # z /\ f[s] = f[z] => f[s] = NoTarget}

\* What a source contributes to the objective with a target, or with none.
Gain(s, t) ==
    IF t = NoTarget THEN 0 ELSE Weight(CandidateOf(rankings[s], t))

Total(f) == MapThenSumSet(LAMBDA s : Gain(s, f[s]), Sources)

\* assign_unique_targets, as TargetAssignment shows it to be: a matching of
\* greatest total weight.
Assign ==
    /\ phase = "assign"
    /\ phase' = "assemble"
    /\ \E f \in Assignments :
          /\ assigned' = f
          /\ \A g \in Assignments : Total(g) <= Total(f)
    /\ UNCHANGED <<loopVars, at, rankings, decisions, call, response,
                   fingerprint, asStarted, startedUnder, overlapped>>

Selected(t, level) ==
    [target |-> t, status |-> IF level = 3 THEN "accepted" ELSE "needs_review"]

\* A broken loop body that gives the fallback target the status of its score.
OutcomesTrustingFallback(s) ==
    IF decisions[s] = "no_match" THEN {Unresolved}
    ELSE IF assigned[s] = NoTarget
    THEN {Selected(rankings[s][1].target, rankings[s][1].score)}
    ELSE {Selected(assigned[s], ScoreOf(rankings[s], assigned[s]))}

\* The selection of one source: rejected by the LLM; left without a unique
\* target and shown its best one for review; left unresolved because the
\* whole closed set is weak; or its assigned target with the status of its
\* score.
Outcomes(s) ==
    LET r == rankings[s]  closed == ClosedSet(r) IN
    IF decisions[s] = "no_match" THEN {Unresolved}
    ELSE IF assigned[s] = NoTarget
    THEN {[target |-> r[1].target, status |-> "needs_review"]}
    ELSE {Selected(assigned[s], ScoreOf(r, assigned[s]))}
         \cup (IF decisions[s] = "none" /\ \A i \in DOMAIN closed : closed[i].score = 1
               THEN {Unresolved} ELSE {})

\* For a source the LLM had picked a target for, a transformation is asked
\* for too, with a single attempt that fails the run as the validator's does.
Assemble ==
    /\ phase = "assemble"
    /\ \/ /\ \E o \in Outcomes(at) : response' = [response EXCEPT ![at] = o]
          /\ IF at < NumSources
             THEN at' = at + 1 /\ UNCHANGED <<phase, fingerprint>>
             ELSE /\ at' = 1
                  /\ phase' = "done"
                  /\ fingerprint' = settings.profile
       \/ /\ decisions[at] \in Targets
          /\ phase' = "failed"
          /\ UNCHANGED <<at, response, fingerprint>>
    /\ UNCHANGED <<loopVars, rankings, decisions, call, assigned, asStarted,
                   startedUnder, overlapped>>

RunStep ==
    Rank \/ Gate \/ Attempt \/ AnswerNoObject \/ Answer \/ Assign \/ Assemble

-----------------------------------------------------------------------------
(* The event loop: one request at a time, each of its assignments a step.  *)

Switch(to, now) ==
    /\ settings' = to
    /\ evaluation' = [at |-> now,
                      saved |-> IF now = "idle" THEN to ELSE evaluation.saved]
    /\ overlapped' = (overlapped \/ InRun)
    /\ UNCHANGED <<configured, requests, runVars>>

Request ==
    /\ evaluation.at = "idle"
    /\ requests < MaxRequests
    /\ requests' = requests + 1
    /\ overlapped' = (overlapped \/ InRun)
    /\ UNCHANGED runVars

\* compare_scoring_profiles, for the next of its profiles.
EnterProfile ==
    /\ Request
    /\ \E profile \in Profiles :
          settings' = [settings EXCEPT !.profile = profile]
    /\ evaluation' = [at |-> "entering", saved |-> settings]
    /\ UNCHANGED configured

DropOverrides ==
    /\ evaluation.at = "entering"
    /\ Switch([settings EXCEPT !.overrides = FALSE], "profile")

\* The finally of scoring_profile_context, whether its cases ran or raised.
LeaveProfile ==
    /\ evaluation.at = "profile"
    /\ Switch([settings EXCEPT !.profile = evaluation.saved.profile], "leaving")

\* A broken restore that leaves the overrides of the evaluation behind.
KeepOverrides ==
    /\ evaluation.at = "leaving"
    /\ Switch(settings, "idle")

RestoreOverrides ==
    /\ evaluation.at = "leaving"
    /\ Switch([settings EXCEPT !.overrides = evaluation.saved.overrides], "idle")

\* evaluate_correction_impact: the baseline runs without correction feedback.
DisableFeedback ==
    /\ Request
    /\ evaluation' = [at |-> "feedback", saved |-> settings]
    /\ settings' = [settings EXCEPT !.feedback = FALSE]
    /\ UNCHANGED configured

EnableFeedback ==
    /\ evaluation.at = "feedback"
    /\ Switch([settings EXCEPT !.feedback = evaluation.saved.feedback], "idle")

\* update_scoring_profile.
UpdateProfile ==
    /\ Request
    /\ \E profile \in Profiles \ {settings.profile} :
          settings' = [settings EXCEPT !.profile = profile]
    /\ configured' = settings'
    /\ evaluation' = [evaluation EXCEPT !.saved = settings']

LoopStep ==
    \/ EnterProfile \/ DropOverrides \/ LeaveProfile \/ RestoreOverrides
    \/ DisableFeedback \/ EnableFeedback \/ UpdateProfile

-----------------------------------------------------------------------------
Init ==
    /\ settings = [profile |-> DefaultProfile, overrides |-> TRUE, feedback |-> TRUE]
    /\ evaluation = [at |-> "idle", saved |-> settings]
    /\ phase = "idle"
    /\ at = 1
    /\ rankings = [s \in Sources |-> <<>>]
    /\ decisions = [s \in Sources |-> "none"]
    /\ call = NoCall
    /\ assigned = [s \in Sources |-> NoTarget]
    /\ response = [s \in Sources |-> NoMapping]
    /\ fingerprint = settings.profile
    /\ configured = settings
    /\ asStarted = TRUE
    /\ startedUnder = settings
    /\ overlapped = FALSE
    /\ requests = 0

Next == Start \/ RunStep \/ LoopStep

Spec == Init /\ [][Next]_vars

\* The job's thread keeps running, and every provider call returns or times
\* out.  Requests need not come.
FairSpec == Spec /\ WF_vars(RunStep)

-----------------------------------------------------------------------------
(* Properties.                                                             *)

\* Every variable holds a value of its kind.
PipelineTypeOK ==
    /\ settings \in Settings /\ configured \in Settings
    /\ evaluation \in [at : {"idle", "entering", "profile", "leaving", "feedback"},
                       saved : Settings]
    /\ phase \in {"idle", "rank", "validate", "call", "assign", "assemble",
                  "done", "failed"}
    /\ at \in Sources
    /\ \A s \in Sources :
          /\ DOMAIN rankings[s] = 1..Len(rankings[s])
          /\ \A i \in DOMAIN rankings[s] : rankings[s][i] \in Candidate
    /\ decisions \in [Sources -> Targets \cup {"no_match", "none"}]
    /\ call \in [attempt : 0..Retries - 1, bound : BOOLEAN]
    /\ assigned \in [Sources -> Targets \cup {NoTarget}]
    /\ response \in [Sources -> [target : Targets \cup {NoTarget},
                                 status : {"none", "accepted", "needs_review"}]]
    /\ fingerprint \in Profiles /\ startedUnder \in Settings
    /\ {asStarted, overlapped} \subseteq BOOLEAN
    /\ requests \in 0..MaxRequests

\* No two fields of a finished run are accepted for one target: the display of
\* the best target for a field the assignment left out may repeat another's
\* target, but never as accepted.
AcceptedAreOneToOne ==
    phase = "done" =>
        \A s, z \in Sources :
            /\ s # z
            /\ response[s].target = response[z].target
            /\ response[s].target # NoTarget
            => "needs_review" \in {response[s].status, response[z].status}

\* What the explanation of a field says of a recommendation the assignment did
\* not follow is true: left without a target, the recommended one is assigned
\* elsewhere; given another, that one scores higher or the recommended one is
\* assigned elsewhere.
PreferredTargetTaken ==
    phase \in {"assemble", "done"} =>
        \A s \in Sources :
            /\ decisions[s] \in Targets
            /\ assigned[s] # decisions[s]
            => \/ \E z \in Sources : assigned[z] = decisions[s]
               \/ /\ assigned[s] # NoTarget
                  /\ ScoreOf(rankings[s], assigned[s])
                        > ScoreOf(rankings[s], decisions[s])

\* An evaluation leaves the configured settings behind, and a run that none of
\* them overlapped was scored throughout with the settings it reports.
RunsUndisturbed ==
    /\ evaluation.at = "idle" => settings = configured
    /\ phase = "done" /\ ~overlapped =>
          asStarted /\ fingerprint = startedUnder.profile

\* A started run ends, whatever the provider answers and however often the
\* settings are switched under it.
PipelineEnds == phase = "rank" ~> phase \in {"done", "failed"}

\* "If the LLM response is invalid, out of schema, ... the LLM result is
\* rejected, heuristic ranking remains in force"
\* (docs/reference/MAPPING_SIGNALS_AND_SCORING.md): no answer of a provider
\* fails the run.
UnusableReplyKeepsRanking == phase # "failed"
=============================================================================
