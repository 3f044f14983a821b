----------------------------- MODULE MappingRun -----------------------------
(***************************************************************************)
(* A mapping run with the solver in it: MappingPipeline, whose assignment  *)
(* is one step that chooses a heaviest one-to-one assignment, with         *)
(* assign_unique_targets of mapping_service.py in its place.  That         *)
(* function numbers the ranked targets, sets up the matrices, runs         *)
(* TargetAssignment pass by pass and reads the matching back, while the    *)
(* event loop goes on serving requests.                                    *)
(***************************************************************************)
EXTENDS MappingPipeline, TargetAssignment

VARIABLE target_names   \* the targets by column; empty until they are numbered

solver == <<solverVars, target_names>>
runSpecVars == <<vars, solver>>

ASSUME RunAssumption ==
    /\ NumSources <= MaxSize /\ Cardinality(Targets) <= MaxSize
    /\ {Weight(c) : c \in Candidate} \subseteq Weights
-----------------------------------------------------------------------------
Ranked == UNION {TargetsOf(rankings[s]) : s \in Sources}

Place(s, t) == CHOOSE i \in DOMAIN rankings[s] : rankings[s][i].target = t

\* t comes up before z when the rankings are read source by source.
Before(t, z) ==
    \E s \in Sources :
        /\ t \in TargetsOf(rankings[s])
        /\ \A y \in 1..s - 1 : z \notin TargetsOf(rankings[y])
        /\ z \in TargetsOf(rankings[s]) => Place(s, t) < Place(s, z)

\* dict.fromkeys: every ranked target once, in the order in which they come up.
Namings ==
    {names \in [1..Cardinality(Ranked) -> Ranked] :
        /\ \A t \in Ranked : \E j \in DOMAIN names : names[j] = t
        /\ \A i, j \in DOMAIN names : i < j => Before(names[i], names[j])}

\* A broken lookup that leaves the LLM's pick out of the weights.
LookupOfScores(names) ==
    [s \in Sources |-> [j \in DOMAIN names |->
        IF names[j] \in TargetsOf(rankings[s])
        THEN 10 * ScoreOf(rankings[s], names[j]) ELSE NoScore]]

\* score_lookup, by the weights of its candidates.
Lookup(names) ==
    [s \in Sources |-> [j \in DOMAIN names |->
        IF names[j] \in TargetsOf(rankings[s])
        THEN Weight(CandidateOf(rankings[s], names[j])) ELSE NoScore]]

\* assign_unique_targets up to the call of the solver, and the arrays that
\* solve_min_cost_assignment starts with.
BuildMatrix ==
    /\ phase = "assign"
    /\ target_names = <<>>
    /\ target_names' \in Namings
    /\ sources' = NumSources
    /\ targets' = Cardinality(Ranked)
    /\ score' = Lookup(target_names')
    /\ \E max_weight \in Largest' :
          costs' = [r \in Real' |-> [c \in Real' |-> max_weight - CellWeight(r, c)']]
    /\ u' = [r \in Columns' |-> 0]
    /\ v' = [c \in Columns' |-> 0]
    /\ p' = [c \in Columns' |-> 0]
    /\ way' = [c \in Columns' |-> 0]
    /\ minv' = [c \in Real' |-> 0]
    /\ used' = {}
    /\ row' = 0
    /\ column' = 0
    /\ solving' = "row"
    /\ above' = [c \in Columns' |-> {}]
    /\ UNCHANGED vars

Solve ==
    /\ phase = "assign"
    /\ target_names # <<>>
    /\ NextRow \/ Search \/ Augment
    /\ UNCHANGED <<vars, target_names>>

\* assigned_by_source: the solver's pairs, with the names of their columns.
AssignedBySource ==
    [s \in Sources |->
        IF \E m \in Assigned : m[1] = s
        THEN target_names[(CHOOSE m \in Assigned : m[1] = s)[2]] ELSE NoTarget]

Return ==
    /\ phase = "assign"
    /\ target_names # <<>>
    /\ solving = "done"
    /\ assigned' = AssignedBySource
    /\ phase' = "assemble"
    /\ UNCHANGED <<loopVars, at, rankings, decisions, call, response,
                   fingerprint, asStarted, startedUnder, overlapped, solver>>

\* A step of the run outside the assignment.
Elsewhere ==
    /\ Rank \/ Gate \/ Attempt \/ AnswerNoObject \/ Answer \/ Assemble
    /\ UNCHANGED solver

ThreadStep == Elsewhere \/ BuildMatrix \/ Solve \/ Return

RunInit ==
    /\ Init
    /\ target_names = <<>>
    /\ sources = 0 /\ targets = 0
    /\ score = <<>> /\ costs = <<>>
    /\ u = <<>> /\ v = <<>> /\ p = <<>> /\ way = <<>> /\ minv = <<>>
    /\ used = {} /\ row = 0 /\ column = 0 /\ solving = "row" /\ above = <<>>

RunNext ==
    \/ (Start \/ LoopStep) /\ UNCHANGED solver
    \/ ThreadStep

RunSpec == RunInit /\ [][RunNext]_runSpecVars

\* As for MappingPipeline: the job's thread keeps running.
FairRunSpec == RunSpec /\ WF_runSpecVars(ThreadStep)

-----------------------------------------------------------------------------
(* Properties.                                                             *)

\* The run with the solver is a run of MappingPipeline: the assignment read
\* back from the solver's columns is a heaviest one of the rankings as they
\* are when it returns, however long it took and whatever the event loop did
\* meanwhile.
AssignsAsSpecified == Spec
=============================================================================
