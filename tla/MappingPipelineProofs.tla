----------------------- MODULE MappingPipelineProofs -----------------------
(***************************************************************************)
(* Theorems about MappingPipeline, for any number of fields, targets,      *)
(* attempts, profiles and switching requests.                              *)
(***************************************************************************)
EXTENDS MappingRun, TargetAssignmentProofs

-----------------------------------------------------------------------------
(* Steps by what they leave alone.                                         *)

\* The run does not write the settings.
LEMMA RunLeavesLoop ==
    ASSUME Start \/ RunStep
    PROVE  UNCHANGED loopVars /\ UNCHANGED overlapped
  BY DEF Start, RunStep, Rank, Gate, Attempt, AnswerNoObject, Answer, Assign, Assemble

\* The event loop does not write the run, and notes that it switched settings
\* under it.
LEMMA LoopLeavesRun ==
    ASSUME LoopStep
    PROVE  UNCHANGED runVars /\ overlapped' = (overlapped \/ InRun)
  BY DEF LoopStep, EnterProfile, DropOverrides, LeaveProfile, RestoreOverrides,
         DisableFeedback, EnableFeedback, UpdateProfile, Switch, Request

-----------------------------------------------------------------------------
(* The switches.                                                           *)

\* Where an evaluation is tells what it has switched, and it has saved what to
\* switch back to.
SwitchInv ==
    /\ settings \in Settings /\ configured \in Settings
    /\ evaluation \in [at : {"idle", "entering", "profile", "leaving", "feedback"},
                       saved : Settings]
    /\ evaluation.at = "idle" => settings = configured
    /\ evaluation.at # "idle" => evaluation.saved = configured
    /\ evaluation.at \in {"entering", "profile", "leaving"} =>
          settings.feedback = configured.feedback
    /\ evaluation.at = "entering" => settings.overrides = configured.overrides
    /\ evaluation.at = "leaving" => settings.profile = configured.profile
    /\ evaluation.at = "feedback" =>
          /\ settings.profile = configured.profile
          /\ settings.overrides = configured.overrides

\* Two settings are the same when their parts are.
LEMMA SameSettings ==
    ASSUME NEW s \in Settings, NEW t \in Settings,
           s.profile = t.profile, s.overrides = t.overrides, s.feedback = t.feedback
    PROVE  s = t
  BY DEF Settings

\* Every switch and every restore keeps that.
LEMMA SwitchStep ==
    ASSUME SwitchInv, [Next]_vars
    PROVE  SwitchInv'
  <1>1. CASE Start \/ RunStep \/ UNCHANGED vars
    BY <1>1, RunLeavesLoop DEF loopVars, vars, SwitchInv
  <1>2. CASE EnterProfile
    BY <1>2 DEF EnterProfile, Request, SwitchInv, Settings
  <1>3. CASE DropOverrides
    BY <1>3 DEF DropOverrides, Switch, SwitchInv, Settings
  <1>4. CASE LeaveProfile
    BY <1>4 DEF LeaveProfile, Switch, SwitchInv, Settings
  <1>5. CASE RestoreOverrides
    <2>1. /\ settings' = [settings EXCEPT !.overrides = configured.overrides]
          /\ evaluation' = [at |-> "idle", saved |-> settings'] /\ configured' = configured
      BY <1>5 DEF RestoreOverrides, Switch, SwitchInv
    <2>2. settings' \in Settings /\ settings' = configured
      BY <1>5, <2>1, SameSettings DEF RestoreOverrides, SwitchInv, Settings
    <2> QED
      BY <2>1, <2>2 DEF SwitchInv
  <1>6. CASE DisableFeedback
    BY <1>6 DEF DisableFeedback, Request, SwitchInv, Settings
  <1>7. CASE EnableFeedback
    <2>1. /\ settings' = [settings EXCEPT !.feedback = configured.feedback]
          /\ evaluation' = [at |-> "idle", saved |-> settings'] /\ configured' = configured
      BY <1>7 DEF EnableFeedback, Switch, SwitchInv
    <2>2. settings' \in Settings /\ settings' = configured
      BY <1>7, <2>1, SameSettings DEF EnableFeedback, SwitchInv, Settings
    <2> QED
      BY <2>1, <2>2 DEF SwitchInv
  <1>8. CASE UpdateProfile
    BY <1>8 DEF UpdateProfile, Request, SwitchInv, Settings
  <1> QED
    BY <1>1, <1>2, <1>3, <1>4, <1>5, <1>6, <1>7, <1>8 DEF Next, LoopStep

-----------------------------------------------------------------------------
(* The settings of a run.                                                  *)

\* While nobody has switched settings under a run, those it reads are those
\* it started with.
ScoredInv ==
    /\ phase = "idle" => asStarted
    /\ InRun /\ ~overlapped =>
          evaluation.at = "idle" /\ configured = startedUnder /\ asStarted
    /\ phase = "done" /\ ~overlapped =>
          asStarted /\ fingerprint = startedUnder.profile

\* Every step of the run and of the event loop keeps that.
LEMMA ScoredStep ==
    ASSUME SwitchInv, ScoredInv, [Next]_vars
    PROVE  ScoredInv'
  <1> USE DEF ScoredInv, InRun
  <1>1. CASE Start
    BY <1>1 DEF Start, loopVars
  <1>2. CASE RunStep
    <2>1. UNCHANGED <<settings, evaluation, configured, overlapped>>
      BY <1>2, RunLeavesLoop DEF loopVars
    <2>2. CASE Rank
      <3>1. /\ phase = "rank" /\ phase' \in {"rank", "validate"}
            /\ asStarted' = (asStarted /\ settings = startedUnder)
            /\ UNCHANGED <<fingerprint, startedUnder>>
        BY <2>2 DEF Rank
      <3>2. ~overlapped => evaluation.at = "idle" /\ configured = startedUnder /\ asStarted
        BY <3>1
      <3>3. ~overlapped => settings = startedUnder
        BY <3>2 DEF SwitchInv
      <3>4. ~overlapped => asStarted'
        BY <3>1, <3>2, <3>3, Zenon
      <3> QED
        BY <2>1, <3>1, <3>2, <3>4
    <2>3. CASE Gate \/ Attempt \/ AnswerNoObject \/ Answer \/ Assign
      BY <2>1, <2>3 DEF Gate, Attempt, AnswerNoObject, Answer, Assign, NextSource
    <2>4. CASE Assemble
      BY <2>1, <2>4 DEF Assemble, SwitchInv
    <2> QED
      BY <1>2, <2>2, <2>3, <2>4 DEF RunStep
  <1>3. CASE LoopStep
    BY <1>3, LoopLeavesRun DEF runVars
  <1>4. CASE UNCHANGED vars
    BY <1>4 DEF vars, loopVars, runVars
  <1> QED
    BY <1>1, <1>2, <1>3, <1>4 DEF Next

-----------------------------------------------------------------------------
(* The accepted targets.                                                   *)

\* A field is accepted with its assigned target only, and no two fields are
\* assigned the same.
AcceptedInv ==
    /\ at \in Sources
    /\ assigned \in [Sources -> Targets \cup {NoTarget}]
    /\ phase \in {"assemble", "done"} =>
          \A s, z \in Sources : s # z /\ assigned[s] = assigned[z] => assigned[s] = NoTarget
    /\ DOMAIN response = Sources
    /\ \A s \in Sources :
          /\ response[s].status \in {"none", "accepted", "needs_review"}
          /\ response[s].status # "none" => phase \in {"assemble", "done", "failed"}
          /\ response[s].status = "accepted" =>
                assigned[s] # NoTarget /\ response[s].target = assigned[s]
    /\ phase = "assign" => at = 1
    /\ phase = "assemble" => \A s \in 1..at - 1 : response[s].status # "none"
    /\ phase = "done" => \A s \in Sources : response[s].status # "none"

\* What the loop body of the response makes of a field.
LEMMA OutcomeOf ==
    ASSUME NEW s \in Sources, NEW o \in Outcomes(s)
    PROVE  /\ o.status \in {"accepted", "needs_review"}
           /\ o.status = "accepted" => assigned[s] # NoTarget /\ o.target = assigned[s]
  BY DEF Outcomes, Selected, Unresolved

\* Every step keeps that; the assignment and the response are what it is about.
LEMMA AcceptedStep ==
    ASSUME AcceptedInv, [Next]_vars
    PROVE  AcceptedInv'
  <1> USE PipelineAssumption DEF AcceptedInv, Sources
  <1>1. CASE Start
    BY <1>1 DEF Start
  <1>2. CASE Rank
    BY <1>2 DEF Rank
  <1>3. CASE Gate
    BY <1>3 DEF Gate, NextSource
  <1>4. CASE Attempt
    BY <1>4 DEF Attempt, NextSource
  <1>5. CASE AnswerNoObject
    BY <1>5 DEF AnswerNoObject
  <1>6. CASE Answer
    BY <1>6 DEF Answer, NextSource
  <1>7. CASE Assign
    <2>1. /\ phase = "assign" /\ phase' = "assemble" /\ UNCHANGED <<at, response>>
          /\ assigned' \in Assignments
      BY <1>7 DEF Assign
    <2>2. \A s \in Sources : response[s].status = "none"
      BY <2>1
    <2> QED
      <3>1. /\ assigned' \in [Sources -> Targets \cup {NoTarget}]
            /\ \A s, z \in Sources :
                  s # z /\ assigned'[s] = assigned'[z] => assigned'[s] = NoTarget
        BY <2>1 DEF Assignments
      <3>2. at' = 1
        BY <2>1
      <3> QED
        BY <2>1, <2>2, <3>1, <3>2
  <1>8. CASE Assemble
    <2>0. phase = "assemble" /\ UNCHANGED assigned
      BY <1>8 DEF Assemble
    <2>1. ASSUME NEW o \in Outcomes(at), response' = [response EXCEPT ![at] = o]
          PROVE  /\ DOMAIN response' = Sources /\ response'[at].status # "none"
                 /\ \A s \in Sources :
                       /\ response'[s].status \in {"none", "accepted", "needs_review"}
                       /\ response'[s].status = "none" => s # at /\ response[s].status = "none"
                       /\ response'[s].status = "accepted" =>
                             assigned[s] # NoTarget /\ response'[s].target = assigned[s]
      <3>1. /\ response'[at] = o /\ DOMAIN response' = Sources
            /\ \A s \in Sources \ {at} : response'[s] = response[s]
        BY <2>1
      <3>2. /\ o.status \in {"accepted", "needs_review"}
            /\ o.status = "accepted" => assigned[at] # NoTarget /\ o.target = assigned[at]
        BY OutcomeOf
      <3> QED
        BY <3>1, <3>2
    <2>2. CASE \E o \in Outcomes(at) :
                  /\ response' = [response EXCEPT ![at] = o]
                  /\ IF at < NumSources THEN at' = at + 1 /\ phase' = phase
                                        ELSE at' = 1 /\ phase' = "done"
      <3>1. PICK o \in Outcomes(at) :
                /\ response' = [response EXCEPT ![at] = o]
                /\ IF at < NumSources THEN at' = at + 1 /\ phase' = phase
                                      ELSE at' = 1 /\ phase' = "done"
        BY <2>2
      <3>2. /\ DOMAIN response' = Sources /\ response'[at].status # "none"
            /\ \A s \in Sources :
                  /\ response'[s].status \in {"none", "accepted", "needs_review"}
                  /\ response'[s].status = "none" => s # at /\ response[s].status = "none"
                  /\ response'[s].status = "accepted" =>
                        assigned[s] # NoTarget /\ response'[s].target = assigned[s]
        BY <2>1, <3>1
      <3>3. \A s \in 1..at : response'[s].status # "none"
        <4>1. \A s \in 1..at : s \in Sources /\ (s \in 1..at - 1 \/ s = at)
          OBVIOUS
        <4> QED
          BY <2>0, <3>2, <4>1
      <3>4. CASE at < NumSources
        <4>1. at' = at + 1 /\ phase' = "assemble" /\ at' \in Sources /\ at' - 1 = at
          BY <2>0, <3>1, <3>4
        <4> QED
          BY <2>0, <3>2, <3>3, <4>1
      <3>5. CASE at = NumSources
        <4>1. at' = 1 /\ phase' = "done" /\ at' \in Sources
          BY <3>1, <3>5
        <4> QED
          BY <2>0, <3>2, <3>3, <3>5, <4>1
      <3> QED
        BY <3>4, <3>5
    <2>4. CASE phase' = "failed" /\ UNCHANGED <<at, response>>
      BY <2>0, <2>4
    <2> QED
      BY <1>8, <2>2, <2>4 DEF Assemble
  <1>9. CASE LoopStep \/ UNCHANGED vars
    BY <1>9, LoopLeavesRun DEF vars, runVars
  <1> QED
    BY <1>1, <1>2, <1>3, <1>4, <1>5, <1>6, <1>7, <1>8, <1>9 DEF Next, RunStep

-----------------------------------------------------------------------------
(* The rankings.                                                           *)

\* A ranking names each target once.
IsRanking(r) ==
    /\ r \in Seq(Candidate) /\ Len(r) >= 1
    /\ \A i, j \in DOMAIN r : r[i].target = r[j].target => i = j

Unpicked(r) == \A i \in DOMAIN r : r[i].picked = FALSE

\* The candidate the validator picked is in front, and the only one picked.
Fronted(r, t) ==
    /\ r[1].target = t /\ r[1].picked = TRUE
    /\ \A i \in DOMAIN r \ {1} : r[i].picked = FALSE

\* Every ranked source has a ranking, in which a candidate is picked when the
\* validator has decided for it and not before.
RankInv ==
    /\ DOMAIN rankings = Sources
    /\ decisions \in [Sources -> Targets \cup {"no_match", "none"}]
    /\ \A s \in Sources : rankings[s] = <<>> \/ IsRanking(rankings[s])
    /\ phase = "idle" => at = 1
    /\ phase = "rank" => \A s \in 1..at - 1 : IsRanking(rankings[s])
    /\ phase \in {"validate", "call", "assign", "assemble", "done"} =>
          \A s \in Sources : IsRanking(rankings[s])
    /\ phase \in {"idle", "rank"} => \A s \in Sources : decisions[s] = "none"
    /\ phase \in {"validate", "call"} =>
          \A s \in at..NumSources : decisions[s] = "none"
    /\ \A s \in Sources :
          IF decisions[s] \in Targets
          THEN IsRanking(rankings[s]) /\ Fronted(rankings[s], decisions[s])
          ELSE Unpicked(rankings[s])

\* rank_targets_for_source returns such a ranking.
LEMMA SortedIsRanking ==
    ASSUME NEW r \in SortedRankings
    PROVE  IsRanking(r) /\ Unpicked(r)
  <1>1. PICK n \in 1..Cardinality(Targets) :
            r \in [1..n -> [target : Targets, score : Levels, picked : {FALSE}]]
    BY DEF SortedRankings
  <1>2. n \in Nat /\ n >= 1 /\ DOMAIN r = 1..n
    BY <1>1, TargetsAssumption, FS_CardinalityType
  <1>3. \A i \in 1..n : r[i] \in Candidate /\ r[i].picked = FALSE
    BY <1>1 DEF Candidate
  <1>4. r \in Seq(Candidate) /\ Len(r) = n
    <2>1. r \in [1..n -> Candidate]
      BY <1>1, <1>2, <1>3
    <2> QED
      BY <1>2, <2>1
  <1>5. \A i, j \in DOMAIN r : r[i].target = r[j].target => i = j
    <2>1. \A i, j \in DOMAIN r : i < j => r[i].target # r[j].target
      BY DEF SortedRankings
    <2> SUFFICES ASSUME NEW i \in 1..n, NEW j \in 1..n, r[i].target = r[j].target
                 PROVE  i = j
      BY <1>2
    <2>2. ~(i < j) /\ ~(j < i)
      BY <2>1, <1>2
    <2> QED
      BY <2>2, <1>2
  <1> QED
    BY <1>2, <1>3, <1>4, <1>5 DEF IsRanking, Unpicked

\* The closed set is the beginning of the ranking.
LEMMA ClosedTargets ==
    ASSUME NEW r, IsRanking(r)
    PROVE  TargetsOf(ClosedSet(r)) \subseteq TargetsOf(r)
  <1> DEFINE n == IF Len(r) < TopK THEN Len(r) ELSE TopK
  <1>1. Len(r) \in Nat /\ n \in 1..Len(r) /\ DOMAIN r = 1..Len(r) /\ r \in Seq(Candidate)
    BY PipelineAssumption DEF IsRanking
  <1> HIDE DEF n
  <1>2. /\ DOMAIN SubSeq(r, 1, n) = 1..n
        /\ \A i \in 1..n : SubSeq(r, 1, n)[i] = r[i] /\ i \in DOMAIN r
    BY <1>1
  <1> QED
    BY <1>2 DEF TargetsOf, ClosedSet, n

\* The sort after an answer moves the picked candidate to the front.
LEMMA RepickedIsRanking ==
    ASSUME NEW r, IsRanking(r), Unpicked(r), NEW level \in Levels,
           NEW t \in Targets, t \in TargetsOf(ClosedSet(r))
    PROVE  IsRanking(Repicked(r, t, level)) /\ Fronted(Repicked(r, t, level), t)
  <1> DEFINE k == CHOOSE i \in DOMAIN r : r[i].target = t
             c == [target |-> t, score |-> level, picked |-> TRUE]
             q == Repicked(r, t, level)
             n == Len(r)
  <1>1. /\ n \in Nat /\ n >= 1 /\ DOMAIN r = 1..n /\ \A i \in 1..n : r[i] \in Candidate
        /\ \A i, j \in 1..n : r[i].target = r[j].target => i = j
        /\ \A i \in 1..n : r[i].picked = FALSE
    BY DEF IsRanking, Unpicked
  <1>2. k \in 1..n /\ r[k].target = t
    <2>1. t \in TargetsOf(r)
      BY ClosedTargets
    <2>2. \E i \in DOMAIN r : r[i].target = t
      BY <2>1 DEF TargetsOf
    <2> QED
      BY <1>1, <2>2
  <1>3. q = [i \in DOMAIN r |->
                IF i = 1 THEN c ELSE IF i <= k THEN r[i - 1] ELSE r[i]]
    BY DEF Repicked
  <1> HIDE DEF k, q, n
  <1>4. /\ DOMAIN q = 1..n /\ q[1] = c
        /\ \A i \in 1..n : i # 1 /\ i <= k => q[i] = r[i - 1]
        /\ \A i \in 1..n : i > k => q[i] = r[i]
    BY <1>1, <1>2, <1>3
  <1>5. c \in Candidate /\ c.target = t /\ c.picked = TRUE
    BY DEF Candidate
  <1>6. \A i \in 1..n : i # 1 => \E j \in 1..n : j # k /\ q[i] = r[j]
    <2> SUFFICES ASSUME NEW i \in 1..n, i # 1 PROVE \E j \in 1..n : j # k /\ q[i] = r[j]
      OBVIOUS
    <2>1. CASE i <= k
      <3>1. i - 1 \in 1..n /\ i - 1 # k
        BY <1>1, <1>2, <2>1
      <3> QED
        BY <1>4, <2>1, <3>1
    <2>2. CASE ~(i <= k)
      BY <1>1, <1>2, <1>4, <2>2
    <2> QED
      BY <2>1, <2>2
  <1>7. \A i \in 1..n : q[i] \in Candidate
    BY <1>1, <1>4, <1>5, <1>6
  <1>8. q \in Seq(Candidate) /\ Len(q) = n
    <2>1. q = [i \in 1..n |-> q[i]]
      BY <1>1, <1>3, <1>4
    <2>2. q \in [1..n -> Candidate]
      BY <1>7, <2>1
    <2> QED
      BY <1>1, <2>2
  <1>9. ASSUME NEW i \in 1..n, i # 1 PROVE q[i].target # t /\ q[i].picked = FALSE
    BY <1>1, <1>2, <1>6, <1>9
  <1>10. ASSUME NEW i \in 1..n, NEW j \in 1..n, i # 1, j # 1, q[i].target = q[j].target
         PROVE  i = j
    <2> DEFINE f(x) == IF x <= k THEN x - 1 ELSE x
    <2>1. f(i) \in 1..n /\ f(j) \in 1..n /\ q[i] = r[f(i)] /\ q[j] = r[f(j)]
      BY <1>1, <1>2, <1>4, <1>10
    <2>2. f(i) = f(j)
      BY <1>1, <1>10, <2>1
    <2> QED
      BY <1>1, <1>2, <1>10, <2>2
  <1>11. \A i, j \in 1..n : q[i].target = q[j].target => i = j
    <2> SUFFICES ASSUME NEW i \in 1..n, NEW j \in 1..n, q[i].target = q[j].target
                 PROVE  i = j
      OBVIOUS
    <2>1. q[1].target = t
      BY <1>4, <1>5
    <2>2. CASE i = 1 \/ j = 1
      BY <1>9, <2>1, <2>2
    <2>3. CASE i # 1 /\ j # 1
      BY <1>10, <2>3
    <2> QED
      BY <2>2, <2>3
  <1>12. IsRanking(q)
    BY <1>1, <1>4, <1>8, <1>11 DEF IsRanking
  <1>13. Fronted(q, t)
    BY <1>4, <1>5, <1>9 DEF Fronted
  <1> QED
    BY <1>12, <1>13 DEF q

\* Every step keeps the rankings so.
LEMMA RankStep ==
    ASSUME AcceptedInv, RankInv, [Next]_vars
    PROVE  RankInv'
  <1>0. at \in 1..NumSources /\ NumSources \in Nat \ {0} /\ Sources = 1..NumSources
    BY PipelineAssumption DEF AcceptedInv, Sources
  <1>1. CASE Start
    <2>1. phase' = "rank" /\ at = 1 /\ UNCHANGED <<at, rankings, decisions>>
      BY <1>1 DEF Start, RankInv
    <2> QED
      BY <1>1, <2>1 DEF Start, RankInv
  <1>2. CASE Rank
    <2>1. PICK r \in SortedRankings : rankings' = [rankings EXCEPT ![at] = r]
      BY <1>2 DEF Rank
    <2>2. /\ phase = "rank" /\ UNCHANGED decisions
          /\ IF at < NumSources THEN at' = at + 1 /\ phase' = "rank"
                                ELSE at' = 1 /\ phase' = "validate"
      BY <1>2 DEF Rank
    <2>3. /\ DOMAIN rankings' = Sources /\ rankings'[at] = r
          /\ \A s \in Sources \ {at} : rankings'[s] = rankings[s]
      BY <1>0, <2>1 DEF RankInv
    <2>4. \A s \in Sources : decisions'[s] = "none" /\ decisions'[s] \notin Targets
      BY <2>2, TargetsAssumption DEF RankInv
    <2>5. IsRanking(r) /\ Unpicked(r)
      BY SortedIsRanking
    <2>6. \A s \in 1..at : IsRanking(rankings'[s])
      <3>1. \A s \in 1..at : s \in Sources /\ (s = at \/ s \in 1..at - 1)
        BY <1>0
      <3> QED
        BY <2>2, <2>3, <2>5, <3>1 DEF RankInv
    <2>7. \A s \in Sources : rankings'[s] = <<>> \/ IsRanking(rankings'[s])
      BY <2>3, <2>5 DEF RankInv
    <2>8. \A s \in Sources : Unpicked(rankings'[s])
      BY <2>2, <2>3, <2>4, <2>5 DEF RankInv
    <2>9. CASE at < NumSources
      <3>1. at' = at + 1 /\ phase' = "rank" /\ at' - 1 = at
        BY <1>0, <2>2, <2>9
      <3> QED
        BY <2>2, <2>3, <2>4, <2>6, <2>7, <2>8, <3>1 DEF RankInv
    <2>10. CASE ~(at < NumSources)
      <3>1. at' = 1 /\ phase' = "validate" /\ 1..at = Sources
        BY <1>0, <2>2, <2>10
      <3> QED
        BY <1>0, <2>2, <2>3, <2>4, <2>6, <2>7, <2>8, <3>1 DEF RankInv
    <2> QED
      BY <2>9, <2>10
  <1>3. CASE Gate \/ Attempt \/ AnswerNoObject
    <2>1. /\ phase \in {"validate", "call"} /\ UNCHANGED <<rankings, decisions>>
          /\ \/ UNCHANGED at /\ phase' \in {"call", "failed"}
             \/ UNCHANGED <<at, phase>>
             \/ NextSource
      BY <1>3 DEF Gate, Attempt, AnswerNoObject
    <2>2. CASE NextSource
      BY <1>0, <2>1, <2>2 DEF NextSource, RankInv
    <2> QED
      BY <2>1, <2>2 DEF RankInv
  <1>4. CASE Answer
    <2>1. PICK verdict \in Verdicts :
              /\ decisions' = [decisions EXCEPT ![at] = verdict]
              /\ IF verdict \in Targets
                 THEN \E level \in Levels :
                         rankings' = [rankings EXCEPT
                                        ![at] = Repicked(rankings[at], verdict, level)]
                 ELSE UNCHANGED rankings
      BY <1>4 DEF Answer
    <2>2. phase = "call" /\ NextSource
      BY <1>4 DEF Answer
    <2>3. /\ IsRanking(rankings[at]) /\ decisions[at] = "none" /\ at \in Sources
          /\ Unpicked(rankings[at])
      BY <1>0, <2>2, TargetsAssumption DEF RankInv
    <2>4. verdict \in Targets \cup {"no_match", "none"}
      <3>1. TargetsOf(rankings[at]) \subseteq Targets
        <4>1. \A i \in DOMAIN rankings[at] : rankings[at][i] \in Candidate
          BY <2>3 DEF IsRanking
        <4> QED
          BY <4>1 DEF TargetsOf, Candidate
      <3> QED
        BY <2>3, <3>1, ClosedTargets DEF Verdicts, PickableTargets
    <2>5. /\ decisions' \in [Sources -> Targets \cup {"no_match", "none"}]
          /\ decisions'[at] = verdict
          /\ \A s \in Sources \ {at} : decisions'[s] = decisions[s]
      BY <2>1, <2>3, <2>4 DEF RankInv
    <2>6. /\ DOMAIN rankings' = Sources
          /\ \A s \in Sources \ {at} : rankings'[s] = rankings[s]
          /\ IsRanking(rankings'[at])
          /\ IF verdict \in Targets THEN Fronted(rankings'[at], verdict)
                                    ELSE Unpicked(rankings'[at])
      <3>1. CASE verdict \in Targets
        <4>1. PICK level \in Levels :
                  rankings' = [rankings EXCEPT
                                 ![at] = Repicked(rankings[at], verdict, level)]
          BY <2>1, <3>1
        <4>2. verdict \in TargetsOf(ClosedSet(rankings[at]))
          BY <3>1, TargetsAssumption DEF Verdicts, PickableTargets
        <4>3. /\ IsRanking(Repicked(rankings[at], verdict, level))
              /\ Fronted(Repicked(rankings[at], verdict, level), verdict)
          BY <2>3, <3>1, <4>2, RepickedIsRanking
        <4> QED
          BY <2>3, <3>1, <4>1, <4>3 DEF RankInv
      <3>2. CASE verdict \notin Targets
        BY <2>1, <2>3, <3>2 DEF RankInv
      <3> QED
        BY <3>1, <3>2
    <2>7. \A s \in Sources : IsRanking(rankings'[s])
      BY <2>2, <2>6 DEF RankInv
    <2>8. \A s \in Sources : IF decisions'[s] \in Targets
                             THEN Fronted(rankings'[s], decisions'[s])
                             ELSE Unpicked(rankings'[s])
      BY <2>5, <2>6 DEF RankInv
    <2>9. phase' = "validate" => \A s \in at'..NumSources : decisions'[s] = "none"
      BY <1>0, <2>2, <2>5 DEF NextSource, RankInv
    <2>10. phase' \in {"validate", "assign"}
      BY <2>2 DEF NextSource
    <2> QED
      BY <2>5, <2>6, <2>7, <2>8, <2>9, <2>10 DEF RankInv
  <1>5. CASE Assign \/ Assemble
    BY <1>5 DEF Assign, Assemble, RankInv
  <1>6. CASE LoopStep \/ UNCHANGED vars
    BY <1>6, LoopLeavesRun DEF vars, runVars, RankInv
  <1> QED
    BY <1>1, <1>2, <1>3, <1>4, <1>5, <1>6 DEF Next, RunStep

-----------------------------------------------------------------------------
(* Sums over the sources.                                                  *)

\* What a source contributes to the total weight of an assignment.
WeightIn(f, s) == Gain(s, f[s])

\* The total weight is the sum of the contributions.
LEMMA TotalIsSumOfGains ==
    ASSUME NEW f, NEW g, NEW w, w = [s \in Sources |-> WeightIn(f, s)],
           IsSum(g, w, Sources)
    PROVE  Total(f) = g[Sources]
  <1> DEFINE pick(T) == CHOOSE x \in T : TRUE
             weight(s) == Gain(s, f[s])
             step(h) == [T \in SUBSET Sources |->
                            IF T = {} THEN 0
                            ELSE weight(pick(T)) + h[T \ {pick(T)}]]
             fold == CHOOSE h : h = step(h)
             sums == [T \in SUBSET Sources |-> g[T]]
  <1>1. Total(f) = fold[Sources]
    BY DEF Total, MapThenSumSet, MapThenFoldSet
  <1>2. \A s \in Sources : weight(s) = w[s]
    BY DEF WeightIn, Gain
  <1> HIDE DEF weight
  <1>3. sums = step(sums)
    <2>1. ASSUME NEW T \in SUBSET Sources
          PROVE  g[T] = IF T = {} THEN 0
                        ELSE weight(pick(T)) + sums[T \ {pick(T)}]
      <3>1. CASE T = {}
        BY <3>1 DEF IsSum
      <3>2. CASE T # {}
        <4>1. pick(T) \in T
          BY <3>2
        <4> HIDE DEF pick
        <4>2. g[T] = w[pick(T)] + g[T \ {pick(T)}]
          BY <4>1 DEF IsSum
        <4>3. sums[T \ {pick(T)}] = g[T \ {pick(T)}]
          OBVIOUS
        <4> QED
          BY <1>2, <3>2, <4>1, <4>2, <4>3
      <3> QED
        BY <3>1, <3>2
    <2> HIDE DEF pick
    <2> QED
      BY <2>1
  <1>4. fold = step(fold)
    <2> HIDE DEF step, sums
    <2> QED
      BY <1>3
  <1> HIDE DEF fold, sums
  <1> DEFINE C == {T \in SUBSET Sources : fold[T] = g[T]}
  <1>5. ASSUME NEW T \in SUBSET Sources, \A x \in T : T \ {x} \in C
        PROVE  T \in C
    <2>1. CASE T = {}
      BY <1>4, <2>1 DEF IsSum
    <2>2. CASE T # {}
      <3>1. pick(T) \in T
        BY <2>2
      <3>2. fold[T] = weight(pick(T)) + fold[T \ {pick(T)}]
        BY <1>4, <2>2
      <3> HIDE DEF pick
      <3>3. fold[T \ {pick(T)}] = g[T \ {pick(T)}]
        BY <1>5, <3>1
      <3>4. g[T] = w[pick(T)] + g[T \ {pick(T)}]
        BY <3>1 DEF IsSum
      <3> QED
        BY <1>2, <3>1, <3>2, <3>3, <3>4
    <2> QED
      BY <2>1, <2>2
  <1> HIDE DEF C
  <1>6. Sources \in C
    <2>1. IsFiniteSet(Sources)
      BY FS_Interval, PipelineAssumption DEF Sources
    <2> QED
      BY <1>5, <2>1, FiniteInduction
  <1> QED
    BY <1>1, <1>6 DEF C

\* Sums of weights that agree on a set agree there.
LEMMA SumsAgree ==
    ASSUME NEW S, IsFiniteSet(S), NEW f, NEW h, NEW a, NEW b,
           IsSum(a, f, S), IsSum(b, h, S),
           NEW U \in SUBSET S, \A x \in U : f[x] = h[x]
    PROVE  a[U] = b[U]
  <1> DEFINE C == {T \in SUBSET U : a[T] = b[T]}
  <1>1. ASSUME NEW T \in SUBSET U, \A x \in T : T \ {x} \in C
        PROVE  T \in C
    <2>1. CASE T = {}
      BY <2>1 DEF IsSum
    <2>2. CASE T # {}
      <3>1. PICK x \in T : TRUE
        BY <2>2
      <3>2. a[T] = f[x] + a[T \ {x}] /\ b[T] = h[x] + b[T \ {x}]
        BY <3>1 DEF IsSum
      <3> QED
        BY <1>1, <3>1, <3>2
    <2> QED
      BY <2>1, <2>2
  <1> HIDE DEF C
  <1>2. U \in C
    BY <1>1, FiniteInduction, FS_Subset
  <1> QED
    BY <1>2 DEF C

\* Reassigning one source changes the total by what that source contributes.
LEMMA OneChange ==
    ASSUME NEW f, NEW h, NEW s \in Sources,
           \A z \in Sources : WeightIn(f, z) \in Int /\ WeightIn(h, z) \in Int,
           \A z \in Sources \ {s} : f[z] = h[z],
           Total(h) <= Total(f)
    PROVE  WeightIn(h, s) <= WeightIn(f, s)
  <1> DEFINE wf == [z \in Sources |-> WeightIn(f, z)]
             wh == [z \in Sources |-> WeightIn(h, z)]
  <1>1. IsFiniteSet(Sources)
    BY FS_Interval, PipelineAssumption DEF Sources
  <1>2. \A z \in Sources : wf[z] \in Int /\ wh[z] \in Int
    OBVIOUS
  <1>3. wf[s] = WeightIn(f, s) /\ wh[s] = WeightIn(h, s)
    OBVIOUS
  <1>4. \A z \in Sources \ {s} : wf[z] = wh[z]
    <2> SUFFICES ASSUME NEW z \in Sources \ {s} PROVE WeightIn(f, z) = WeightIn(h, z)
      OBVIOUS
    <2>1. f[z] = h[z]
      OBVIOUS
    <2> QED
      BY <2>1 DEF WeightIn
  <1> DEFINE vf == wf  vh == wh
  <1>5. vf = [z \in Sources |-> WeightIn(f, z)] /\ vh = [z \in Sources |-> WeightIn(h, z)]
    OBVIOUS
  <1>6. /\ \A z \in Sources : vf[z] \in Int /\ vh[z] \in Int
        /\ vf[s] = WeightIn(f, s) /\ vh[s] = WeightIn(h, s)
        /\ \A z \in Sources \ {s} : vf[z] = vh[z]
    BY <1>2, <1>3, <1>4
  <1> HIDE DEF vf, vh
  <1>7. PICK a : IsSum(a, vf, Sources)
    BY <1>1, <1>6, SumExists
  <1>8. PICK b : IsSum(b, vh, Sources)
    BY <1>1, <1>6, SumExists
  <1>9. Total(f) = a[Sources] /\ Total(h) = b[Sources]
    BY <1>5, <1>7, <1>8, TotalIsSumOfGains
  <1>10. a[Sources \ {s}] = b[Sources \ {s}]
    BY <1>1, <1>6, <1>7, <1>8, SumsAgree
  <1>11. /\ a[Sources] = vf[s] + a[Sources \ {s}]
         /\ b[Sources] = vh[s] + b[Sources \ {s}]
         /\ a[Sources \ {s}] \in Int
    BY <1>7, <1>8 DEF IsSum
  <1> QED
    BY <1>6, <1>9, <1>10, <1>11

\* A ranking finds its candidates by their targets.
LEMMA FoundByTarget ==
    ASSUME NEW r, IsRanking(r), NEW t \in TargetsOf(r)
    PROVE  \E i \in DOMAIN r :
              /\ r[i].target = t /\ r[i] \in Candidate
              /\ CandidateOf(r, t) = r[i]
  <1>1. PICK i \in DOMAIN r : r[i].target = t
    BY DEF TargetsOf
  <1> DEFINE d == CHOOSE c \in {r[j] : j \in DOMAIN r} : c.target = t
  <1>2. d \in {r[j] : j \in DOMAIN r} /\ d.target = t
    BY <1>1
  <1> HIDE DEF d
  <1>3. PICK j \in DOMAIN r : d = r[j]
    BY <1>2
  <1>4. j = i
    BY <1>1, <1>2, <1>3 DEF IsRanking
  <1>5. r[i] \in Candidate
    BY <1>1 DEF IsRanking
  <1> QED
    BY <1>1, <1>3, <1>4, <1>5 DEF d, CandidateOf

\* A source contributes an integer.
LEMMA WeightIsInt ==
    ASSUME RankInv, phase = "assign", NEW h \in Assignments, NEW z \in Sources
    PROVE  WeightIn(h, z) \in Int
  <1>1. CASE h[z] = NoTarget
    BY <1>1 DEF WeightIn, Gain
  <1>2. CASE h[z] # NoTarget
    <2>1. h[z] \in TargetsOf(rankings[z]) /\ IsRanking(rankings[z])
      BY <1>2 DEF Assignments, RankInv
    <2>2. PICK i \in DOMAIN rankings[z] :
              /\ rankings[z][i] \in Candidate
              /\ CandidateOf(rankings[z], h[z]) = rankings[z][i]
      BY <2>1, FoundByTarget
    <2>3. WeightIn(h, z) = Weight(rankings[z][i])
      BY <1>2, <2>2 DEF WeightIn, Gain
    <2>4. rankings[z][i].score \in Int
      BY <2>2 DEF Candidate, Levels
    <2>5. Weight(rankings[z][i]) \in Int
      BY <2>4 DEF Weight
    <2> QED
      BY <2>3, <2>5
  <1> QED
    BY <1>1, <1>2

\* What the heaviest assignment does to a field it does not give the target
\* the validator picked.
LEMMA HeaviestPrefers ==
    ASSUME RankInv, phase = "assign", NEW f \in Assignments,
           \A g \in Assignments : Total(g) <= Total(f),
           NEW s \in Sources, decisions[s] \in Targets, f[s] # decisions[s],
           \A z \in Sources : f[z] # decisions[s]
    PROVE  /\ f[s] # NoTarget
           /\ ScoreOf(rankings[s], f[s]) > ScoreOf(rankings[s], decisions[s])
  <1> DEFINE t == decisions[s]
             r == rankings[s]
             g == [f EXCEPT ![s] = t]
  <1>1. IsRanking(r) /\ Fronted(r, t) /\ \A z \in Sources : IsRanking(rankings[z])
    BY DEF RankInv
  <1>2. t # NoTarget /\ t \in Targets
    BY PipelineAssumption
  <1>3. /\ f \in [Sources -> Targets \cup {NoTarget}]
        /\ \A z \in Sources : f[z] \in TargetsOf(rankings[z]) \cup {NoTarget}
        /\ \A y, z \in Sources : y # z /\ f[y] = f[z] => f[y] = NoTarget
    BY DEF Assignments
  <1>4. 1 \in DOMAIN r /\ t \in TargetsOf(r)
    BY <1>1 DEF IsRanking, Fronted, TargetsOf
  <1>5. g \in Assignments
    <2>1. /\ g \in [Sources -> Targets \cup {NoTarget}] /\ g[s] = t
          /\ \A z \in Sources \ {s} : g[z] = f[z]
      BY <1>2, <1>3
    <2> HIDE DEF g
    <2>2. \A z \in Sources : g[z] \in TargetsOf(rankings[z]) \cup {NoTarget}
      BY <1>3, <1>4, <2>1
    <2>3. \A y, z \in Sources : y # z /\ g[y] = g[z] => g[y] = NoTarget
      BY <1>3, <2>1
    <2> QED
      BY <2>1, <2>2, <2>3 DEF Assignments
  <1>6. g[s] = t /\ \A z \in Sources \ {s} : f[z] = g[z]
    BY <1>3
  <1>7. Total(g) <= Total(f)
    BY <1>5
  <1> HIDE DEF g
  <1>8. \A h \in Assignments : \A z \in Sources : WeightIn(h, z) \in Int
    BY WeightIsInt
  <1>9. WeightIn(g, s) <= WeightIn(f, s)
    BY <1>5, <1>6, <1>7, <1>8, OneChange
  <1>10. /\ WeightIn(g, s) = 10 * r[1].score + 1 /\ ScoreOf(r, t) = r[1].score
         /\ r[1].score \in Nat
    <2>1. PICK i \in DOMAIN r :
              /\ r[i].target = t /\ r[i] \in Candidate
              /\ CandidateOf(r, t) = r[i]
      BY <1>1, <1>4, FoundByTarget
    <2>2. i = 1
      BY <1>1, <1>4, <2>1 DEF IsRanking, Fronted
    <2>3. WeightIn(g, s) = Weight(r[1])
      BY <1>2, <1>6, <2>1, <2>2 DEF WeightIn, Gain
    <2>4. Weight(r[1]) = 10 * r[1].score + 1
      BY <1>1 DEF Weight, Fronted
    <2>5. ScoreOf(r, t) = r[1].score
      BY <2>1, <2>2 DEF ScoreOf
    <2>6. r[1].score \in Nat
      BY <2>1, <2>2 DEF Candidate, Levels
    <2> QED
      BY <2>3, <2>4, <2>5, <2>6
  <1>11. f[s] # NoTarget
    BY <1>9, <1>10 DEF WeightIn, Gain
  <1>12. /\ WeightIn(f, s) = 10 * ScoreOf(r, f[s]) /\ ScoreOf(r, f[s]) \in Nat
    <2>1. f[s] \in TargetsOf(r)
      BY <1>3, <1>11
    <2>2. PICK i \in DOMAIN r :
              /\ r[i].target = f[s] /\ r[i] \in Candidate
              /\ CandidateOf(r, f[s]) = r[i]
      BY <1>1, <2>1, FoundByTarget
    <2>3. i # 1 /\ r[i].picked = FALSE
      BY <1>1, <2>2 DEF Fronted
    <2>4. WeightIn(f, s) = Weight(r[i]) /\ ScoreOf(r, f[s]) = r[i].score
      BY <1>11, <2>2 DEF WeightIn, Gain, ScoreOf
    <2>5. r[i].score \in Nat
      BY <2>2 DEF Candidate, Levels
    <2>6. Weight(r[i]) = 10 * r[i].score
      BY <2>3, <2>5 DEF Weight
    <2> QED
      BY <2>4, <2>5, <2>6
  <1>13. ScoreOf(r, f[s]) > ScoreOf(r, t)
    <2> DEFINE x == ScoreOf(r, f[s])
               y == ScoreOf(r, t)
    <2>1. 10 * y + 1 <= 10 * x /\ x \in Nat /\ y \in Nat
      BY <1>9, <1>10, <1>12
    <2> HIDE DEF x, y
    <2>2. x > y
      BY <2>1
    <2> QED
      BY <2>2 DEF x, y
  <1> QED
    BY <1>11, <1>13

\* Every step keeps the explanations true; the assignment is what it is about.
LEMMA PreferredStep ==
    ASSUME RankInv, PreferredTargetTaken, [Next]_vars
    PROVE  PreferredTargetTaken'
  <1>1. CASE Assign
    <2>1. /\ phase = "assign" /\ UNCHANGED <<rankings, decisions>>
          /\ assigned' \in Assignments
          /\ \A g \in Assignments : Total(g) <= Total(assigned')
      BY <1>1 DEF Assign
    <2> DEFINE f == assigned'
    <2>2. ASSUME NEW s \in Sources, decisions[s] \in Targets, f[s] # decisions[s],
                 \A z \in Sources : f[z] # decisions[s]
          PROVE  /\ f[s] # NoTarget
                 /\ ScoreOf(rankings[s], f[s]) > ScoreOf(rankings[s], decisions[s])
      BY <2>1, <2>2, HeaviestPrefers
    <2> QED
      BY <2>1, <2>2 DEF PreferredTargetTaken, ScoreOf
  <1>2. CASE Assemble
    BY <1>2 DEF Assemble, PreferredTargetTaken, ScoreOf
  <1>3. CASE Start \/ Rank \/ Gate \/ Attempt \/ AnswerNoObject \/ Answer
    BY <1>3 DEF Start, Rank, Gate, Attempt, AnswerNoObject, Answer, NextSource,
                PreferredTargetTaken
  <1>4. CASE LoopStep \/ UNCHANGED vars
    BY <1>4, LoopLeavesRun DEF vars, runVars, PreferredTargetTaken, ScoreOf
  <1> QED
    BY <1>1, <1>2, <1>3, <1>4 DEF Next, RunStep

-----------------------------------------------------------------------------
(* The types.                                                              *)

\* What the loop body of the response makes of a ranked field is a mapping.
LEMMA OutcomeType ==
    ASSUME NEW s \in Sources, IsRanking(rankings[s]), NEW o \in Outcomes(s),
           assigned \in [Sources -> Targets \cup {NoTarget}]
    PROVE  o \in [target : Targets \cup {NoTarget},
                  status : {"none", "accepted", "needs_review"}]
  <1> DEFINE Mapping == [target : Targets \cup {NoTarget},
                         status : {"none", "accepted", "needs_review"}]
  <1>1. rankings[s][1].target \in Targets
    <2>1. rankings[s][1] \in Candidate
      BY DEF IsRanking
    <2> QED
      BY <2>1 DEF Candidate
  <1>2. \/ o = Unresolved
        \/ o = [target |-> rankings[s][1].target, status |-> "needs_review"]
        \/ o = Selected(assigned[s], ScoreOf(rankings[s], assigned[s]))
    BY DEF Outcomes
  <1>3. Unresolved \in Mapping
    BY DEF Unresolved
  <1>4. [target |-> rankings[s][1].target, status |-> "needs_review"] \in Mapping
    BY <1>1
  <1>5. Selected(assigned[s], ScoreOf(rankings[s], assigned[s])) \in Mapping
    BY DEF Selected
  <1> QED
    BY <1>2, <1>3, <1>4, <1>5

\* Every step keeps every variable in its kind.
LEMMA TypeStep ==
    ASSUME SwitchInv, AcceptedInv, RankInv, PipelineTypeOK,
           SwitchInv', AcceptedInv', RankInv', [Next]_vars
    PROVE  PipelineTypeOK'
  <1>1. /\ (settings \in Settings)' /\ (configured \in Settings)'
        /\ (evaluation \in [at : {"idle", "entering", "profile", "leaving", "feedback"},
                            saved : Settings])'
        /\ at' \in Sources
        /\ assigned' \in [Sources -> Targets \cup {NoTarget}]
        /\ decisions' \in [Sources -> Targets \cup {"no_match", "none"}]
    BY DEF SwitchInv, AcceptedInv, RankInv
  <1>2. \A s \in Sources :
           /\ DOMAIN rankings'[s] = 1..Len(rankings'[s])
           /\ \A i \in DOMAIN rankings'[s] : rankings'[s][i] \in Candidate
    <2> SUFFICES ASSUME NEW s \in Sources
                 PROVE  /\ DOMAIN rankings'[s] = 1..Len(rankings'[s])
                        /\ \A i \in DOMAIN rankings'[s] : rankings'[s][i] \in Candidate
      OBVIOUS
    <2>1. rankings'[s] = <<>> \/ IsRanking(rankings'[s])
      BY DEF RankInv
    <2> QED
      BY <2>1 DEF IsRanking
  <1>3. phase' \in {"idle", "rank", "validate", "call", "assign", "assemble",
                    "done", "failed"}
    <2>1. CASE Start \/ RunStep
      BY <2>1 DEF Start, RunStep, Rank, Gate, Attempt, AnswerNoObject, Answer,
                  Assign, Assemble, NextSource, PipelineTypeOK
    <2>2. CASE LoopStep \/ UNCHANGED vars
      BY <2>2, LoopLeavesRun DEF vars, runVars, PipelineTypeOK
    <2> QED
      BY <2>1, <2>2 DEF Next
  <1>4. call' \in [attempt : 0..Retries - 1, bound : BOOLEAN]
    <2>1. call \in [attempt : 0..Retries - 1, bound : BOOLEAN]
      BY DEF PipelineTypeOK
    <2>2. NoCall \in [attempt : 0..Retries - 1, bound : BOOLEAN]
      BY PipelineAssumption DEF NoCall
    <2>3. CASE Attempt
      <3>1. PICK failure \in {"transport", "transport_json", "no_json"} :
               \/ /\ call.attempt + 1 # Retries
                  /\ call' = [call EXCEPT !.attempt = call.attempt + 1,
                                          !.bound = call.bound \/ failure = "no_json"]
               \/ UNCHANGED call
               \/ call' = NoCall
        BY <2>3 DEF Attempt
      <3>2. CASE /\ call.attempt + 1 # Retries
                 /\ call' = [call EXCEPT !.attempt = call.attempt + 1,
                                         !.bound = call.bound \/ failure = "no_json"]
        <4>1. call.attempt + 1 \in 0..Retries - 1
          BY <2>1, <3>2, PipelineAssumption
        <4>2. (call.bound \/ failure = "no_json") \in BOOLEAN
          OBVIOUS
        <4> QED
          BY <2>1, <3>2, <4>1, <4>2
      <3> QED
        BY <2>1, <2>2, <3>1, <3>2
    <2>4. CASE Answer
      BY <2>2, <2>4 DEF Answer
    <2>5. CASE Start \/ Rank \/ Gate \/ AnswerNoObject \/ Assign \/ Assemble
      BY <2>1, <2>5 DEF Start, Rank, Gate, AnswerNoObject, Assign, Assemble
    <2>6. CASE LoopStep \/ UNCHANGED vars
      BY <2>1, <2>6, LoopLeavesRun DEF vars, runVars
    <2> QED
      BY <2>3, <2>4, <2>5, <2>6 DEF Next, RunStep
  <1>5. /\ response' \in [Sources -> [target : Targets \cup {NoTarget},
                                      status : {"none", "accepted", "needs_review"}]]
        /\ fingerprint' \in Profiles
    <2>1. /\ response \in [Sources -> [target : Targets \cup {NoTarget},
                                       status : {"none", "accepted", "needs_review"}]]
          /\ fingerprint \in Profiles /\ settings.profile \in Profiles
      BY DEF PipelineTypeOK, SwitchInv, Settings
    <2>2. CASE Assemble
      <3>1. /\ phase = "assemble" /\ fingerprint' \in {fingerprint, settings.profile}
            /\ \/ \E o \in Outcomes(at) : response' = [response EXCEPT ![at] = o]
               \/ UNCHANGED response
        BY <2>2 DEF Assemble
      <3>2. at \in Sources /\ IsRanking(rankings[at])
        BY <3>1 DEF RankInv, AcceptedInv
      <3>3. assigned \in [Sources -> Targets \cup {NoTarget}]
        BY DEF AcceptedInv
      <3> QED
        BY <2>1, <3>1, <3>2, <3>3, OutcomeType
    <2>3. CASE Start \/ Rank \/ Gate \/ Attempt \/ AnswerNoObject \/ Answer \/ Assign
      BY <2>1, <2>3 DEF Start, Rank, Gate, Attempt, AnswerNoObject, Answer, Assign
    <2>4. CASE LoopStep \/ UNCHANGED vars
      BY <2>1, <2>4, LoopLeavesRun DEF vars, runVars
    <2> QED
      BY <2>2, <2>3, <2>4 DEF Next, RunStep
  <1>6. (startedUnder \in Settings)' /\ ({asStarted, overlapped} \subseteq BOOLEAN)'
    <2>1. startedUnder \in Settings /\ asStarted \in BOOLEAN /\ overlapped \in BOOLEAN
      BY DEF PipelineTypeOK
    <2>2. CASE Start
      BY <2>1, <2>2 DEF Start, SwitchInv
    <2>3. CASE Rank
      <3>1. /\ asStarted' = (asStarted /\ settings = startedUnder)
            /\ UNCHANGED <<startedUnder, overlapped>>
        BY <2>3 DEF Rank
      <3>2. (asStarted /\ settings = startedUnder) \in BOOLEAN
        OBVIOUS
      <3> QED
        BY <2>1, <3>1, <3>2
    <2>4. CASE Gate \/ Attempt \/ AnswerNoObject \/ Answer \/ Assign \/ Assemble
      BY <2>1, <2>4 DEF Gate, Attempt, AnswerNoObject, Answer, Assign, Assemble
    <2>5. CASE LoopStep
      <3>1. UNCHANGED <<startedUnder, asStarted>> /\ overlapped' = (overlapped \/ InRun)
        BY <2>5, LoopLeavesRun DEF runVars
      <3>2. (overlapped \/ InRun) \in BOOLEAN
        OBVIOUS
      <3> QED
        BY <2>1, <3>1, <3>2
    <2>6. CASE UNCHANGED vars
      BY <2>1, <2>6 DEF vars, runVars
    <2> QED
      BY <2>2, <2>3, <2>4, <2>5, <2>6 DEF Next, RunStep
  <1>7. requests' \in 0..MaxRequests
    <2>1. requests \in 0..MaxRequests
      BY DEF PipelineTypeOK
    <2>2. CASE LoopStep
      BY <2>1, <2>2, PipelineAssumption
         DEF LoopStep, EnterProfile, DropOverrides, LeaveProfile, RestoreOverrides,
             DisableFeedback, EnableFeedback, UpdateProfile, Switch, Request
    <2>3. CASE Start \/ RunStep \/ UNCHANGED vars
      BY <2>1, <2>3, RunLeavesLoop DEF loopVars, vars
    <2> QED
      BY <2>2, <2>3 DEF Next
  <1> QED
    BY <1>1, <1>2, <1>3, <1>4, <1>5, <1>6, <1>7 DEF PipelineTypeOK

-----------------------------------------------------------------------------
(* The theorems.                                                           *)

PipelineInv == SwitchInv /\ ScoredInv /\ AcceptedInv /\ RankInv

\* A run starts in it.
LEMMA InitiallyPipelineInv == Init => PipelineInv
  <1> SUFFICES ASSUME Init PROVE PipelineInv
    OBVIOUS
  <1> USE PipelineAssumption DEF Init
  <1>1. SwitchInv
    BY DEF SwitchInv, Settings
  <1>2. ScoredInv
    BY DEF ScoredInv, InRun
  <1>3. AcceptedInv
    BY DEF AcceptedInv, Sources, NoMapping
  <1>4. RankInv
    BY TargetsAssumption DEF RankInv, Unpicked
  <1> QED
    BY <1>1, <1>2, <1>3, <1>4 DEF PipelineInv

\* Every step keeps it.
LEMMA PipelineStep == PipelineInv /\ [Next]_vars => PipelineInv'
  BY SwitchStep, ScoredStep, AcceptedStep, RankStep DEF PipelineInv

\* The invariant is inductive, hence holds in every reachable state.
THEOREM PipelineConsistent == Spec => []PipelineInv
  BY InitiallyPipelineInv, PipelineStep, PTL DEF Spec

\* Evaluations leave the configured settings behind, and a run none of them
\* overlapped is scored with the settings it reports (evaluation_service.py,
\* scoring_profile_context).
THEOREM UndisturbedRuns == Spec => []RunsUndisturbed
  <1>1. PipelineInv => RunsUndisturbed
    BY DEF PipelineInv, SwitchInv, ScoredInv, RunsUndisturbed
  <1> QED
    BY <1>1, PipelineConsistent, PTL

\* No two fields of a finished run are accepted for one target, whatever the
\* validator answered (generate_mapping_candidates).
THEOREM AcceptedOneToOne == Spec => []AcceptedAreOneToOne
  <1>1. PipelineInv => AcceptedAreOneToOne
    <2> SUFFICES ASSUME PipelineInv, phase = "done",
                        NEW s \in Sources, NEW z \in Sources,
                        s # z, response[s].target = response[z].target,
                        response[s].target # NoTarget
                 PROVE  "needs_review" \in {response[s].status, response[z].status}
      BY DEF AcceptedAreOneToOne
    <2> QED
      BY DEF PipelineInv, AcceptedInv
  <1> QED
    BY <1>1, PipelineConsistent, PTL

\* Every variable of a run stays in its kind, with any answers of the
\* provider: no index leaves the sources, no attempt the configured number,
\* and every ranked candidate and every mapping names a target of the schema.
THEOREM PipelineTypes == Spec => []PipelineTypeOK
  <1>1. Init => PipelineTypeOK
    <2> SUFFICES ASSUME Init PROVE PipelineTypeOK
      OBVIOUS
    <2> USE PipelineAssumption DEF Init
    <2>1. /\ settings \in Settings /\ configured \in Settings
          /\ startedUnder \in Settings /\ fingerprint \in Profiles
      BY DEF Settings
    <2>2. evaluation \in [at : {"idle", "entering", "profile", "leaving", "feedback"},
                          saved : Settings]
      BY <2>1
    <2>3. /\ at \in Sources /\ requests \in 0..MaxRequests
          /\ call \in [attempt : 0..Retries - 1, bound : BOOLEAN]
      BY DEF Sources, NoCall
    <2>4. \A s \in Sources :
             /\ DOMAIN rankings[s] = 1..Len(rankings[s])
             /\ \A i \in DOMAIN rankings[s] : rankings[s][i] \in Candidate
      OBVIOUS
    <2>5. response \in [Sources -> [target : Targets \cup {NoTarget},
                                    status : {"none", "accepted", "needs_review"}]]
      BY DEF NoMapping
    <2> QED
      BY <2>1, <2>2, <2>3, <2>4, <2>5 DEF PipelineTypeOK
  <1>2. PipelineInv /\ PipelineInv' /\ PipelineTypeOK /\ [Next]_vars => PipelineTypeOK'
    BY TypeStep DEF PipelineInv
  <1> QED
    BY <1>1, <1>2, PipelineConsistent, PTL DEF Spec

\* What a field is told of a recommendation the assignment did not follow is
\* true (mapping_service.py, the explanation of the selection): for any number
\* of fields and targets, a heaviest one-to-one assignment gives the target
\* the validator picked to that field, or to another, or the field a target of
\* a higher score.
THEOREM PreferredTargets == Spec => []PreferredTargetTaken
  <1>1. Init => PreferredTargetTaken
    BY DEF Init, PreferredTargetTaken
  <1>2. PipelineInv /\ PreferredTargetTaken /\ [Next]_vars => PreferredTargetTaken'
    BY PreferredStep DEF PipelineInv
  <1> QED
    BY <1>1, <1>2, PipelineConsistent, PTL DEF Spec

-----------------------------------------------------------------------------
(* The run with the solver in it.                                          *)

\* names gives each ranked target a column, and each column one of them.
Numbers(names) ==
    /\ names \in [1..Cardinality(Ranked) -> Ranked]
    /\ \A t \in Ranked : \E j \in DOMAIN names : names[j] = t
    /\ \A i, j \in DOMAIN names : names[i] = names[j] => i = j

\* What the solver is given once the targets are numbered: the weights of the
\* rankings, row by row and column by column.
Posed ==
    /\ sources = NumSources /\ targets = Cardinality(Ranked)
    /\ Numbers(target_names)
    /\ score = Lookup(target_names)

\* While a run assigns, the solver works on the rankings of that run.
RunInv ==
    /\ PipelineInv
    /\ phase \in {"idle", "rank", "validate", "call"} => target_names = <<>>
    /\ phase = "assign" /\ target_names # <<>> => SolverInv /\ InputInv /\ Posed

\* The ranked targets are some targets of the schema.
LEMMA RankedTargets ==
    ASSUME RankInv, phase = "assign"
    PROVE  /\ Ranked \subseteq Targets /\ IsFiniteSet(Ranked)
           /\ Cardinality(Ranked) \in 1..MaxSize
           /\ \A s \in Sources : \E t \in Ranked : t \in TargetsOf(rankings[s])
  <1>1. \A s \in Sources : IsRanking(rankings[s])
    BY DEF RankInv
  <1>2. \A s \in Sources : \E t \in Ranked : t \in TargetsOf(rankings[s])
    <2> SUFFICES ASSUME NEW s \in Sources
                 PROVE  rankings[s][1].target \in TargetsOf(rankings[s])
      BY DEF Ranked
    <2>1. 1 \in DOMAIN rankings[s]
      BY <1>1 DEF IsRanking
    <2> QED
      BY <2>1 DEF TargetsOf
  <1>3. Ranked \subseteq Targets
    <2> SUFFICES ASSUME NEW s \in Sources, NEW i \in DOMAIN rankings[s]
                 PROVE  rankings[s][i].target \in Targets
      BY DEF Ranked, TargetsOf
    <2>1. rankings[s][i] \in Candidate
      BY <1>1 DEF IsRanking
    <2> QED
      BY <2>1 DEF Candidate
  <1>4. IsFiniteSet(Ranked) /\ Cardinality(Ranked) <= Cardinality(Targets)
    BY <1>3, TargetsAssumption, FS_Subset
  <1>5. Ranked # {}
    BY <1>2, PipelineAssumption DEF Sources
  <1>6. Cardinality(Ranked) \in Nat /\ Cardinality(Ranked) # 0
        /\ Cardinality(Targets) \in Nat
    BY <1>4, <1>5, TargetsAssumption, FS_CardinalityType, FS_EmptySet
  <1> QED
    BY <1>2, <1>3, <1>4, <1>6, RunAssumption, SizeAssumption

\* dict.fromkeys numbers the ranked targets.
LEMMA NamingsNumber ==
    ASSUME RankInv, phase = "assign", NEW names \in Namings
    PROVE  Numbers(names)
  <1>1. /\ names \in [1..Cardinality(Ranked) -> Ranked]
        /\ \A t \in Ranked : \E j \in DOMAIN names : names[j] = t
        /\ \A i, j \in DOMAIN names : i < j => Before(names[i], names[j])
    BY DEF Namings
  <1>2. \A i \in DOMAIN names : i \in Int
    BY <1>1, RankedTargets
  <1>3. ASSUME NEW t, Before(t, t) PROVE FALSE
    <2>1. PICK s \in Sources : t \in TargetsOf(rankings[s]) /\ Place(s, t) < Place(s, t)
      BY <1>3 DEF Before
    <2>2. \E i \in DOMAIN rankings[s] : rankings[s][i].target = t
      BY <2>1 DEF TargetsOf
    <2>3. Place(s, t) \in DOMAIN rankings[s]
      BY <2>2 DEF Place
    <2>4. rankings[s] \in Seq(Candidate)
      BY DEF RankInv, IsRanking
    <2>5. Place(s, t) \in Int
      BY <2>3, <2>4
    <2> QED
      BY <2>1, <2>5
  <1>4. ASSUME NEW i \in DOMAIN names, NEW j \in DOMAIN names, names[i] = names[j], i # j
        PROVE  FALSE
    <2>1. i < j \/ j < i
      BY <1>2, <1>4
    <2>2. Before(names[i], names[j]) \/ Before(names[j], names[i])
      BY <1>1, <2>1
    <2>3. Before(names[i], names[i])
      BY <1>4, <2>2
    <2> QED
      BY <1>3, <2>3
  <1> QED
    BY <1>1, <1>4 DEF Numbers

\* The weight the solver is given for a pair: the one its source contributes
\* with that target, if it ranks it.
LEMMA LookupOf ==
    ASSUME RankInv, phase = "assign", NEW names, Numbers(names),
           NEW s \in Sources, NEW j \in DOMAIN names
    PROVE  IF names[j] \in TargetsOf(rankings[s])
           THEN /\ Lookup(names)[s][j] = Gain(s, names[j])
                /\ Lookup(names)[s][j] \in Weights
           ELSE Lookup(names)[s][j] = NoScore
  <1>1. IsRanking(rankings[s])
    BY DEF RankInv
  <1>2. names[j] \in Ranked
    BY DEF Numbers
  <1>3. names[j] # NoTarget
    BY <1>2, RankedTargets, PipelineAssumption
  <1>4. CASE names[j] \in TargetsOf(rankings[s])
    <2>1. CandidateOf(rankings[s], names[j]) \in Candidate
      BY <1>1, <1>4, FoundByTarget
    <2>2. Weight(CandidateOf(rankings[s], names[j])) \in Weights
      BY <2>1, RunAssumption
    <2> QED
      BY <1>3, <1>4, <2>2 DEF Lookup, Gain
  <1> QED
    BY <1>4 DEF Lookup

\* Every row and every column of the lookup has a score.
LEMMA LookupScores ==
    ASSUME RankInv, phase = "assign", NEW names, Numbers(names)
    PROVE  Lookup(names) \in Scores(NumSources, Cardinality(Ranked))
  <1> DEFINE sc == Lookup(names)
             n == Cardinality(Ranked)
  <1>1. DOMAIN names = 1..n /\ Sources = 1..NumSources
    BY DEF Numbers, Sources
  <1>2. \A s \in Sources : \A j \in 1..n :
           /\ sc[s][j] \in Weights \cup {NoScore}
           /\ names[j] \in TargetsOf(rankings[s]) => sc[s][j] # NoScore
    <2> SUFFICES ASSUME NEW s \in Sources, NEW j \in 1..n
                 PROVE  /\ sc[s][j] \in Weights \cup {NoScore}
                        /\ names[j] \in TargetsOf(rankings[s]) => sc[s][j] # NoScore
      OBVIOUS
    <2>1. IF names[j] \in TargetsOf(rankings[s])
          THEN sc[s][j] = Gain(s, names[j]) /\ sc[s][j] \in Weights
          ELSE sc[s][j] = NoScore
      BY <1>1, LookupOf
    <2> QED
      BY <2>1, WeightsAssumption
  <1>3. sc \in [1..NumSources -> [1..n -> Weights \cup {NoScore}]]
    BY <1>1, <1>2 DEF Lookup
  <1>4. ASSUME NEW s \in 1..NumSources PROVE \E j \in 1..n : sc[s][j] # NoScore
    <2>1. PICK t \in Ranked : t \in TargetsOf(rankings[s])
      BY <1>1, RankedTargets
    <2>2. PICK j \in 1..n : names[j] = t
      BY <1>1 DEF Numbers
    <2> QED
      BY <1>1, <1>2, <2>1, <2>2
  <1>5. ASSUME NEW j \in 1..n PROVE \E s \in 1..NumSources : sc[s][j] # NoScore
    <2>1. names[j] \in Ranked
      BY <1>1 DEF Numbers
    <2>2. PICK s \in Sources : names[j] \in TargetsOf(rankings[s])
      BY <2>1 DEF Ranked
    <2> QED
      BY <1>1, <1>2, <2>2
  <1> HIDE DEF sc, n
  <1>6. sc \in Scores(NumSources, n)
    BY <1>3, <1>4, <1>5 DEF Scores
  <1> QED
    BY <1>6 DEF sc, n

\* The arrays the solver starts with are those of an initial state of it.
LEMMA BuildStep ==
    ASSUME RankInv, BuildMatrix
    PROVE  SolverInit' /\ Posed'
  <1>1. /\ phase = "assign" /\ target_names' \in Namings
        /\ sources' = NumSources /\ targets' = Cardinality(Ranked)
        /\ score' = Lookup(target_names') /\ rankings' = rankings
    BY DEF BuildMatrix, vars, runVars
  <1>2. Numbers(target_names')
    BY <1>1, NamingsNumber
  <1>3. Ranked' = Ranked
    BY <1>1 DEF Ranked
  <1>4. Posed'
    <2>1. Numbers(target_names)'
      BY <1>2, <1>3 DEF Numbers
    <2>2. Lookup(target_names)' = Lookup(target_names')
      BY <1>1 DEF Lookup
    <2> QED
      BY <1>1, <1>3, <2>1, <2>2 DEF Posed
  <1>5. sources' \in 1..MaxSize /\ targets' \in 1..MaxSize
    BY <1>1, RankedTargets, RunAssumption, PipelineAssumption, SizeAssumption
  <1>6. score' \in Scores(sources', targets')
    BY <1>1, <1>2, LookupScores
  <1>7. CostsOf'
    BY DEF BuildMatrix, CostsOf
  <1>8. SolverInit'
    BY <1>5, <1>6, <1>7 DEF SolverInit, BuildMatrix
  <1> QED
    BY <1>4, <1>8

\* A solver step works on what it was given.
LEMMA SolveStep ==
    ASSUME Solve, SolverInv, InputInv, Posed
    PROVE  (SolverInv /\ InputInv /\ Posed)'
  <1>1. SolverNext
    BY DEF Solve, SolverNext
  <1>2. SolverInv' /\ InputInv'
    BY <1>1, SolverStep, InputStep
  <1>3. /\ sources' = sources /\ targets' = targets /\ score' = score
        /\ target_names' = target_names /\ rankings' = rankings
    BY DEF Solve, NextRow, Search, Augment, input, vars, runVars
  <1>4. Ranked' = Ranked
    BY <1>3 DEF Ranked
  <1>5. Posed'
    <2>1. Numbers(target_names)'
      BY <1>3, <1>4 DEF Numbers, Posed
    <2>2. Lookup(target_names)' = Lookup(target_names)
      BY <1>3 DEF Lookup
    <2> QED
      BY <1>3, <1>4, <2>1, <2>2 DEF Posed
  <1> QED
    BY <1>2, <1>5

\* The pairs of the padded matrix that an assignment of targets stands for.
PairsOf(g) == {m \in Pairs : g[m[1]] = target_names[m[2]]}

\* What the solver's pairs are in terms of the rankings.
LEMMA PairIsRanked ==
    ASSUME RankInv, phase = "assign", Posed
    PROVE  /\ \A m \in Pairs :
                 /\ m[1] \in Sources /\ m[2] \in DOMAIN target_names
                 /\ target_names[m[2]] \in TargetsOf(rankings[m[1]])
                 /\ score[m[1]][m[2]] = Gain(m[1], target_names[m[2]])
                 /\ score[m[1]][m[2]] \in Int
           /\ \A s \in Sources : \A t \in TargetsOf(rankings[s]) :
                 \E j \in DOMAIN target_names :
                    target_names[j] = t /\ <<s, j>> \in Pairs
  <1>1. /\ DOMAIN target_names = 1..targets /\ Sources = 1..sources
        /\ Numbers(target_names) /\ score = Lookup(target_names)
    BY DEF Posed, Numbers, Sources
  <1>2. /\ sources \in Nat /\ targets \in Nat
    BY RankedTargets, PipelineAssumption, SizeAssumption DEF Posed
  <1>3. ASSUME NEW m \in Pairs
        PROVE  /\ m[1] \in Sources /\ m[2] \in DOMAIN target_names
               /\ target_names[m[2]] \in TargetsOf(rankings[m[1]])
               /\ score[m[1]][m[2]] = Gain(m[1], target_names[m[2]])
               /\ score[m[1]][m[2]] \in Int
    <2>1. m[1] \in Sources /\ m[2] \in DOMAIN target_names /\ score[m[1]][m[2]] # NoScore
      BY <1>1 DEF Pairs, Scored
    <2>2. IF target_names[m[2]] \in TargetsOf(rankings[m[1]])
          THEN /\ score[m[1]][m[2]] = Gain(m[1], target_names[m[2]])
               /\ score[m[1]][m[2]] \in Weights
          ELSE score[m[1]][m[2]] = NoScore
      BY <1>1, <2>1, LookupOf
    <2>3. /\ target_names[m[2]] \in TargetsOf(rankings[m[1]])
          /\ score[m[1]][m[2]] = Gain(m[1], target_names[m[2]])
          /\ score[m[1]][m[2]] \in Weights
      BY <2>1, <2>2
    <2>4. Weights \subseteq Int
      BY WeightsAssumption
    <2> QED
      BY <2>1, <2>3, <2>4
  <1>4. ASSUME NEW s \in Sources, NEW t \in TargetsOf(rankings[s])
        PROVE  \E j \in DOMAIN target_names :
                  target_names[j] = t /\ <<s, j>> \in Pairs
    <2>1. t \in Ranked
      BY DEF Ranked
    <2>2. PICK j \in DOMAIN target_names : target_names[j] = t
      BY <1>1, <2>1 DEF Numbers
    <2>3. score[s][j] \in Weights
      BY <1>1, <2>2, LookupOf
    <2>4. Scored(s, j)
      BY <1>1, <1>2, <2>3, WeightsAssumption DEF Scored
    <2> QED
      BY <1>1, <2>2, <2>4 DEF Pairs
  <1> QED
    BY <1>3, <1>4

\* Those pairs weigh what the assignment does: over any of the sources, the
\* sum over the pairs is the sum of what these sources contribute.
LEMMA SameWeight ==
    ASSUME RankInv, phase = "assign", Posed, NEW g \in Assignments
    PROVE  TotalWeight(PairsOf(g)) = Total(g)
  <1> DEFINE wg == [s \in Sources |-> WeightIn(g, s)]
             wp == [m \in Pairs |-> score[m[1]][m[2]]]
  <1>1. /\ Sources = 1..sources /\ sources \in Nat /\ targets \in Nat
        /\ IsFiniteSet(Sources)
    BY RankedTargets, PipelineAssumption, SizeAssumption, FS_Interval DEF Posed, Sources
  <1>2. IsFiniteSet(Pairs)
    <2>1. IsFiniteSet(1..sources) /\ IsFiniteSet(1..targets)
      BY <1>1, FS_Interval
    <2>2. IsFiniteSet((1..sources) \X (1..targets))
      BY <2>1, FS_Product
    <2> QED
      BY <2>2, FS_Subset DEF Pairs
  <1>3. \A s \in Sources : wg[s] \in Int /\ wg[s] = Gain(s, g[s])
    BY WeightIsInt DEF WeightIn
  <1>4. \A s \in Sources : g[s] \in TargetsOf(rankings[s]) \cup {NoTarget}
    BY DEF Assignments
  <1>5. \A m \in PairsOf(g) : m \in Pairs /\ wp[m] = wg[m[1]]
    <2> SUFFICES ASSUME NEW m \in PairsOf(g) PROVE m \in Pairs /\ wp[m] = wg[m[1]]
      OBVIOUS
    <2>1. m \in Pairs /\ g[m[1]] = target_names[m[2]]
      BY DEF PairsOf
    <2>2. m[1] \in Sources /\ score[m[1]][m[2]] = Gain(m[1], target_names[m[2]])
      BY <2>1, PairIsRanked
    <2> QED
      BY <1>3, <2>1, <2>2
  <1>6. PICK gp : IsSum(gp, wp, Pairs)
    <2>1. \A m \in Pairs : wp[m] \in Int
      BY PairIsRanked
    <2> HIDE DEF wp
    <2> QED
      BY <1>2, <2>1, SumExists
  <1>7. PICK gg : IsSum(gg, wg, Sources)
    <2> HIDE DEF wg
    <2> QED
      BY <1>1, <1>3, SumExists
  <1>8. Total(g) = gg[Sources]
    BY <1>7, TotalIsSumOfGains
  <1>9. TotalWeight(PairsOf(g)) = gp[PairsOf(g)]
    <2>1. \A m \in PairsOf(g) : wp[m] = score[m[1]][m[2]]
      BY <1>5
    <2>2. PairsOf(g) \in SUBSET Pairs /\ IsFiniteSet(PairsOf(g))
      BY <1>2, <1>5, FS_Subset
    <2> HIDE DEF wp
    <2> QED
      BY <1>6, <2>1, <2>2, TotalIsSum
  <1> DEFINE part(T) == {m \in PairsOf(g) : m[1] \in T}
             C == {T \in SUBSET Sources : gp[part(T)] = gg[T]}
  <1>10. ASSUME NEW T \in SUBSET Sources, \A s \in T : T \ {s} \in C
         PROVE  T \in C
    <2>1. CASE T = {}
      <3>1. part(T) = {}
        BY <2>1
      <3> HIDE DEF part
      <3>2. gp[{}] = 0 /\ gg[{}] = 0
        BY <1>6, <1>7 DEF IsSum
      <3> QED
        BY <2>1, <3>1, <3>2
    <2>2. CASE T # {}
      <3>1. PICK s \in T : TRUE
        BY <2>2
      <3>2. gg[T] = wg[s] + gg[T \ {s}] /\ gg[T \ {s}] \in Int
        <4> HIDE DEF wg
        <4> QED
          BY <1>7, <3>1 DEF IsSum
      <3>3. gp[part(T \ {s})] = gg[T \ {s}]
        BY <1>10, <3>1
      <3>4. CASE g[s] = NoTarget
        <4>1. \A m \in PairsOf(g) : m[1] # s
          <5> SUFFICES ASSUME NEW m \in PairsOf(g), m[1] = s PROVE FALSE
            OBVIOUS
          <5>1. m \in Pairs /\ target_names[m[2]] = NoTarget
            BY <3>4 DEF PairsOf
          <5>2. NoTarget \in TargetsOf(rankings[s])
            BY <5>1, PairIsRanked
          <5>3. NoTarget \in Ranked
            BY <5>2 DEF Ranked
          <5> QED
            BY <5>3, RankedTargets, PipelineAssumption
        <4>2. part(T) = part(T \ {s})
          BY <4>1
        <4>3. wg[s] = 0
          BY <1>3, <3>4 DEF Gain
        <4> HIDE DEF part, wg
        <4>4. gg[T] = gg[T \ {s}]
          BY <3>2, <4>3
        <4> QED
          BY <3>3, <4>2, <4>4
      <3>5. CASE g[s] # NoTarget
        <4>1. PICK j \in DOMAIN target_names :
                  target_names[j] = g[s] /\ <<s, j>> \in Pairs
          BY <1>4, <3>5, PairIsRanked
        <4> DEFINE k == <<s, j>>
        <4>2. k \in PairsOf(g) /\ k[1] = s /\ k[2] = j
          BY <4>1 DEF PairsOf
        <4>3. \A m \in PairsOf(g) : m[1] = s => m = k
          <5> SUFFICES ASSUME NEW m \in PairsOf(g), m[1] = s PROVE m = k
            OBVIOUS
          <5>1. m \in Pairs /\ target_names[m[2]] = target_names[j]
            BY <4>1 DEF PairsOf
          <5>2. m[2] = j
            BY <4>1, <5>1, PairIsRanked DEF Posed, Numbers
          <5>3. m = <<m[1], m[2]>>
            BY <5>1 DEF Pairs
          <5> QED
            BY <5>2, <5>3
        <4> HIDE DEF k
        <4>4. k \in part(T) /\ part(T) \ {k} = part(T \ {s})
          BY <3>1, <4>2, <4>3
        <4>5. part(T) \in SUBSET Pairs
          BY <1>5
        <4> HIDE DEF part
        <4>6. wp[k] = wg[s]
          BY <1>5, <4>2
        <4> HIDE DEF wg, wp
        <4>7. gp[part(T)] = wp[k] + gp[part(T) \ {k}]
          BY <1>6, <4>4, <4>5 DEF IsSum
        <4> QED
          BY <3>2, <3>3, <4>4, <4>6, <4>7
      <3> QED
        BY <3>4, <3>5
    <2> QED
      BY <2>1, <2>2
  <1> HIDE DEF C
  <1>11. Sources \in C
    BY <1>1, <1>10, FiniteInduction
  <1>12. part(Sources) = PairsOf(g)
    BY <1>5, PairIsRanked
  <1> QED
    BY <1>8, <1>9, <1>11, <1>12 DEF C

\* The pairs of an assignment of targets are a matching, for it gives no
\* target twice and the columns are numbered one to one.
LEMMA PairsMatch ==
    ASSUME RankInv, phase = "assign", Posed, NEW g \in Assignments
    PROVE  PairsOf(g) \in Matchings
  <1> SUFFICES ASSUME NEW k \in PairsOf(g), NEW m \in PairsOf(g), k # m
               PROVE  k[1] # m[1] /\ k[2] # m[2]
    BY DEF Matchings, PairsOf
  <1>1. /\ k \in Pairs /\ m \in Pairs
        /\ g[k[1]] = target_names[k[2]] /\ g[m[1]] = target_names[m[2]]
    BY DEF PairsOf
  <1>2. /\ k[1] \in Sources /\ m[1] \in Sources
        /\ k[2] \in DOMAIN target_names /\ m[2] \in DOMAIN target_names
    BY <1>1, PairIsRanked
  <1>3. k[1] # m[1] \/ k[2] # m[2]
    BY <1>1 DEF Pairs
  <1>4. k[1] = m[1] => k[2] = m[2]
    BY <1>1, <1>2 DEF Posed, Numbers
  <1>5. ASSUME k[1] # m[1], k[2] = m[2] PROVE FALSE
    <2>1. g[k[1]] = g[m[1]]
      BY <1>1, <1>5
    <2>2. g[k[1]] = NoTarget
      BY <1>2, <1>5, <2>1 DEF Assignments
    <2>3. target_names[k[2]] \in Ranked
      BY <1>2 DEF Posed, Numbers
    <2> QED
      BY <1>1, <2>2, <2>3, RankedTargets, PipelineAssumption
  <1> QED
    BY <1>3, <1>4, <1>5

\* What is read back of the solver's columns is the assignment its pairs stand
\* for: no row is in two pairs, no column in two.
LEMMA ReadBack ==
    ASSUME RankInv, phase = "assign", Posed, SolverInv, solving = "done"
    PROVE  AssignedBySource \in Assignments /\ PairsOf(AssignedBySource) = Assigned
  <1> DEFINE f == AssignedBySource
             pair(s) == CHOOSE m \in Assigned : m[1] = s
  <1>1. /\ Sources = 1..sources /\ DOMAIN target_names = 1..targets
        /\ sources \in Nat /\ targets \in Nat
    BY RankedTargets, PipelineAssumption, SizeAssumption DEF Posed, Sources, Numbers
  <1>2. \A m \in Assigned : m \in Pairs /\ p[m[2]] = m[1] /\ m = <<m[1], m[2]>>
    BY DEF Assigned, Pairs
  <1>3. \A k, m \in Assigned : k[1] = m[1] => k = m
    <2> SUFFICES ASSUME NEW k \in Assigned, NEW m \in Assigned, k[1] = m[1]
                 PROVE  k[2] = m[2]
      BY <1>2
    <2>1. k[2] \in Real /\ m[2] \in Real
      BY <1>1 DEF Assigned, Real, Size
    <2>2. p[k[2]] = p[m[2]]
      BY <1>2
    <2> QED
      BY <2>1, <2>2, NoColumnLeft
  <1>4. \A m \in Assigned : f[m[1]] = target_names[m[2]]
    <2> SUFFICES ASSUME NEW m \in Assigned PROVE f[m[1]] = target_names[m[2]]
      OBVIOUS
    <2>1. m[1] \in Sources
      BY <1>2, PairIsRanked
    <2>2. pair(m[1]) \in Assigned /\ pair(m[1])[1] = m[1]
      OBVIOUS
    <2>3. pair(m[1]) = m
      BY <1>3, <2>2
    <2>4. f[m[1]] = target_names[pair(m[1])[2]]
      BY <2>1 DEF AssignedBySource
    <2> QED
      BY <2>3, <2>4
  <1>5. \A s \in Sources : f[s] = NoTarget \/ \E m \in Assigned : m[1] = s
    BY DEF AssignedBySource
  <1> HIDE DEF f, pair
  <1>6. \A s \in Sources : f[s] \in TargetsOf(rankings[s]) \cup {NoTarget}
    <2> SUFFICES ASSUME NEW m \in Assigned
                 PROVE  f[m[1]] \in TargetsOf(rankings[m[1]])
      BY <1>5
    <2> QED
      BY <1>2, <1>4, PairIsRanked
  <1>7. \A k, m \in Assigned : f[k[1]] = f[m[1]] => k = m
    <2> SUFFICES ASSUME NEW k \in Assigned, NEW m \in Assigned, f[k[1]] = f[m[1]]
                 PROVE  k = m
      OBVIOUS
    <2>1. k[2] \in DOMAIN target_names /\ m[2] \in DOMAIN target_names
      BY <1>2, PairIsRanked
    <2>2. target_names[k[2]] = target_names[m[2]]
      BY <1>4
    <2>3. k[2] = m[2]
      BY <2>1, <2>2 DEF Posed, Numbers
    <2> QED
      BY <1>2, <2>3
  <1>8. \A s \in Sources : f[s] \in Targets \cup {NoTarget}
    BY <1>6, RankedTargets DEF Ranked
  <1>9. f \in [Sources -> Targets \cup {NoTarget}]
    <2>1. DOMAIN f = Sources /\ f = [s \in Sources |-> f[s]]
      BY DEF f, AssignedBySource
    <2> QED
      BY <1>8, <2>1
  <1>10. \A s, z \in Sources : s # z /\ f[s] = f[z] => f[s] = NoTarget
    BY <1>5, <1>7
  <1>11. f \in Assignments
    BY <1>6, <1>9, <1>10 DEF Assignments
  <1>12. PairsOf(f) = Assigned
    <2>1. ASSUME NEW m \in PairsOf(f) PROVE m \in Assigned
      <3>1. m \in Pairs /\ f[m[1]] = target_names[m[2]] /\ m = <<m[1], m[2]>>
        BY DEF PairsOf, Pairs
      <3>2. /\ m[1] \in Sources /\ m[2] \in DOMAIN target_names
            /\ target_names[m[2]] \in TargetsOf(rankings[m[1]])
        BY <3>1, PairIsRanked
      <3>3. f[m[1]] # NoTarget
        BY <3>1, <3>2, RankedTargets, PipelineAssumption DEF Ranked
      <3>4. PICK k \in Assigned : k[1] = m[1]
        BY <1>5, <3>2, <3>3
      <3>5. target_names[k[2]] = target_names[m[2]]
        BY <1>4, <3>1, <3>4
      <3>6. k[2] = m[2]
        BY <1>2, <3>2, <3>5, PairIsRanked DEF Posed, Numbers
      <3> QED
        BY <1>2, <3>1, <3>4, <3>6
    <2>2. ASSUME NEW m \in Assigned PROVE m \in PairsOf(f)
      BY <1>2, <1>4 DEF PairsOf
    <2> QED
      BY <2>1, <2>2
  <1> QED
    BY <1>11, <1>12 DEF f

\* When the solver's columns are read back, they are a heaviest assignment.
LEMMA ReturnAssigns ==
    ASSUME RankInv, SolverInv, InputInv, Posed, Return
    PROVE  Assign
  <1>1. /\ phase = "assign" /\ solving = "done" /\ phase' = "assemble"
        /\ assigned' = AssignedBySource
        /\ UNCHANGED <<loopVars, at, rankings, decisions, call, response,
                       fingerprint, asStarted, startedUnder, overlapped>>
    BY DEF Return
  <1>2. AssignedBySource \in Assignments /\ PairsOf(AssignedBySource) = Assigned
    BY <1>1, ReadBack
  <1>3. ASSUME NEW g \in Assignments PROVE Total(g) <= Total(AssignedBySource)
    <2>1. TotalWeight(PairsOf(g)) <= TotalWeight(Assigned)
      BY <1>1, PairsMatch, CertificateIsBest DEF BestTotal
    <2>2. TotalWeight(PairsOf(g)) = Total(g)
      BY <1>1, SameWeight
    <2>3. TotalWeight(Assigned) = Total(AssignedBySource)
      BY <1>1, <1>2, SameWeight
    <2> QED
      BY <2>1, <2>2, <2>3
  <1> QED
    BY <1>1, <1>2, <1>3 DEF Assign

\* Every step of the run with the solver is a step of MappingPipeline, or
\* leaves the state of that as it is.
LEMMA RunStepMaps == RunInv /\ [RunNext]_runSpecVars => [Next]_vars
  <1> SUFFICES ASSUME RunInv, [RunNext]_runSpecVars PROVE [Next]_vars
    OBVIOUS
  <1>1. CASE (Start \/ LoopStep) /\ UNCHANGED solver
    BY <1>1 DEF Next
  <1>2. CASE Elsewhere
    BY <1>2 DEF Elsewhere, Next, RunStep
  <1>3. CASE BuildMatrix \/ Solve
    <2>1. UNCHANGED vars
      BY <1>3 DEF BuildMatrix, Solve
    <2> QED
      BY <2>1
  <1>4. CASE Return
    <2>1. RankInv /\ SolverInv /\ InputInv /\ Posed
      BY <1>4 DEF RunInv, PipelineInv, Return
    <2> QED
      BY <1>4, <2>1, ReturnAssigns DEF Next, RunStep
  <1>5. CASE UNCHANGED runSpecVars
    BY <1>5 DEF runSpecVars
  <1> QED
    BY <1>1, <1>2, <1>3, <1>4, <1>5 DEF RunNext, ThreadStep

\* Every step keeps the solver's work tied to the rankings it was started on.
LEMMA RunInvStep == RunInv /\ [RunNext]_runSpecVars => RunInv'
  <1> SUFFICES ASSUME RunInv, [RunNext]_runSpecVars PROVE RunInv'
    OBVIOUS
  <1>1. PipelineInv'
    BY RunStepMaps, PipelineStep DEF RunInv
  <1>2. CASE BuildMatrix
    <2>1. RankInv /\ phase = "assign" /\ phase' = phase
      BY <1>2 DEF RunInv, PipelineInv, BuildMatrix, vars, runVars
    <2>2. SolverInit' /\ Posed'
      BY <1>2, <2>1, BuildStep
    <2>3. SolverInv'
      <3>1. SolverInit' => SolverInv'
        BY InitiallySolverInv, PTL
      <3> QED
        BY <2>2, <3>1
    <2>4. InputInv'
      BY <2>2 DEF SolverInit, InputInv
    <2> QED
      BY <1>1, <2>1, <2>2, <2>3, <2>4 DEF RunInv
  <1>3. CASE Solve
    <2>1. /\ phase = "assign" /\ phase' = phase
          /\ SolverInv /\ InputInv /\ Posed
      BY <1>3 DEF RunInv, Solve, vars, runVars
    <2>2. SolverInv' /\ InputInv' /\ Posed'
      BY <1>3, <2>1, SolveStep
    <2> QED
      BY <1>1, <2>1, <2>2 DEF RunInv
  <1>4. CASE Return
    BY <1>1, <1>4 DEF RunInv, Return
  <1>5. CASE Elsewhere
    <2>1. /\ UNCHANGED target_names /\ phase # "assign"
          /\ \/ phase \in {"rank", "validate", "call"}
             \/ phase' \in {"assemble", "done", "failed"}
      BY <1>5 DEF Elsewhere, solver, Rank, Gate, Attempt, AnswerNoObject, Answer,
                  Assemble
    <2>2. phase' # "assign" \/ target_names' = <<>>
      BY <2>1 DEF RunInv
    <2> QED
      BY <1>1, <2>1, <2>2 DEF RunInv
  <1>6. CASE Start /\ UNCHANGED solver
    BY <1>1, <1>6 DEF RunInv, Start, solver
  <1>7. CASE (LoopStep /\ UNCHANGED solver) \/ UNCHANGED runSpecVars
    <2>1. UNCHANGED <<runVars, solver>>
      BY <1>7, LoopLeavesRun DEF runSpecVars, vars
    <2>2. phase' = phase /\ target_names' = target_names
      BY <2>1 DEF runVars, solver
    <2>3. ASSUME SolverInv, InputInv, Posed PROVE SolverInv' /\ InputInv' /\ Posed'
      <3>1. UNCHANGED solverVars
        BY <2>1 DEF solver
      <3>2. SolverInv' /\ InputInv'
        BY <2>3, <3>1, SolverStep, InputStep
      <3>3. /\ sources' = sources /\ targets' = targets /\ score' = score
            /\ target_names' = target_names /\ rankings' = rankings
        BY <2>1 DEF runVars, solver, solverVars, input
      <3>4. Ranked' = Ranked
        BY <3>3 DEF Ranked
      <3>5. Numbers(target_names)'
        BY <2>3, <3>3, <3>4 DEF Numbers, Posed
      <3>6. Lookup(target_names)' = Lookup(target_names)
        BY <3>3 DEF Lookup
      <3> QED
        BY <2>3, <3>2, <3>3, <3>4, <3>5, <3>6 DEF Posed
    <2> QED
      BY <1>1, <2>2, <2>3 DEF RunInv
  <1> QED
    BY <1>2, <1>3, <1>4, <1>5, <1>6, <1>7 DEF RunNext, ThreadStep

\* Until a run assigns no target is numbered, and from then on the solver works
\* on that run's rankings, in every reachable state.
LEMMA RunInvariant == RunSpec => []RunInv
  <1>1. RunInit => RunInv
    BY InitiallyPipelineInv DEF RunInit, RunInv, Init
  <1> QED
    BY <1>1, RunInvStep, PTL DEF RunSpec

\* The run with the solver implements the run of MappingPipeline, for schemas
\* and rankings of every size: when assign_unique_targets returns, what it has
\* read back of the solver's columns is a heaviest one-to-one assignment of the
\* rankings, and until then nothing of the run has changed.
THEOREM RunImplementsPipeline == RunSpec => AssignsAsSpecified
  <1>1. RunInit => Init
    BY DEF RunInit
  <1> QED
    BY <1>1, RunInvariant, RunStepMaps, PTL DEF RunSpec, Spec, AssignsAsSpecified

\* So what is proved of a run holds of it with the solver in it: accepted
\* targets are unique, explanations of overruled recommendations true, and
\* undisturbed runs scored with the settings they report.
THEOREM RunsAreSafe ==
    RunSpec => [](AcceptedAreOneToOne /\ PreferredTargetTaken /\ RunsUndisturbed)
  <1>1. RunSpec => Spec
    BY RunImplementsPipeline DEF AssignsAsSpecified
  <1> QED
    BY <1>1, AcceptedOneToOne, PreferredTargets, UndisturbedRuns, PTL

-----------------------------------------------------------------------------
(* Progress.  That a run ends is a liveness property, which TLC checks;    *)
(* what is proved is that a run cannot go round in circles.                *)

\* The phases a run has before it, numbering the targets and solving apart.
PhasesLeft ==
    CASE phase = "rank" -> 5
      [] phase \in {"validate", "call"} -> 4
      [] phase = "assign" /\ target_names = <<>> -> 3
      [] phase = "assign" /\ target_names # <<>> -> 2
      [] phase = "assemble" -> 1
      [] OTHER -> 0

\* The steps the phase can still make: a source at a time, each with the
\* attempts the validator's call may take, or the passes of the solver.
StepsLeft ==
    CASE phase \in {"rank", "assemble"} -> NumSources - at
      [] phase = "validate" -> (NumSources - at) * (Retries + 2) + (Retries + 1)
      [] phase = "call" ->
            (NumSources - at) * (Retries + 2) + (Retries - call.attempt)
      [] phase = "assign" /\ target_names # <<>> -> PassesLeft
      [] OTHER -> 0

\* The thread comes nearer the end of the run: of the phase, or of a pass.
Nearer ==
    \/ PhasesLeft' < PhasesLeft
    \/ PhasesLeft' = PhasesLeft /\ StepsLeft' < StepsLeft

\* What a source still to be validated may take.
LEMMA SourcesLeft ==
    ASSUME at \in Sources
    PROVE  /\ (NumSources - at) * (Retries + 2) \in Nat /\ NumSources - at \in Nat
           /\ at < NumSources =>
                 (NumSources - (at + 1)) * (Retries + 2)
                    = (NumSources - at) * (Retries + 2) - (Retries + 2)
  <1> DEFINE n == NumSources - at
             k == Retries + 2
  <1>1. /\ n \in Nat /\ k \in Nat /\ at \in Nat /\ NumSources \in Nat
        /\ at < NumSources => n >= 1 /\ NumSources - (at + 1) = n - 1
    BY PipelineAssumption DEF Sources
  <1> HIDE DEF n, k
  <1>2. n * k \in Nat /\ n >= 1 => (n - 1) * k = n * k - k
    BY <1>1
  <1>3. n * k \in Nat
    BY <1>1
  <1>4. at < NumSources => (NumSources - (at + 1)) * k = n * k - k
    BY <1>1, <1>2, <1>3
  <1> QED
    BY <1>1, <1>3, <1>4 DEF n, k

\* The counts are natural numbers in every phase.
LEMMA CountsOfRun ==
    ASSUME RunInv, PipelineTypeOK
    PROVE  PhasesLeft \in 0..5 /\ StepsLeft \in Nat
  <1>1. PhasesLeft \in 0..5
    BY DEF PhasesLeft
  <1>2. at \in Sources /\ call.attempt \in 0..Retries - 1 /\ Retries \in Nat
    BY PipelineAssumption DEF PipelineTypeOK
  <1> DEFINE m == (NumSources - at) * (Retries + 2)
  <1>3. m \in Nat /\ NumSources - at \in Nat
    BY <1>2, SourcesLeft
  <1>4. phase = "assign" /\ target_names # <<>> => PassesLeft \in Nat
    BY PassesBounded, CountsAreNat DEF RunInv
  <1>5. StepsLeft \in {NumSources - at, m + (Retries + 1), m + (Retries - call.attempt), 0}
        \/ (phase = "assign" /\ target_names # <<>> /\ StepsLeft = PassesLeft)
    BY DEF StepsLeft
  <1> HIDE DEF m
  <1>6. /\ m + (Retries + 1) \in Nat /\ m + (Retries - call.attempt) \in Nat
    BY <1>2, <1>3
  <1>7. StepsLeft \in Nat
    BY <1>3, <1>4, <1>5, <1>6
  <1> QED
    BY <1>1, <1>7

\* Every step of the thread comes nearer the end.
LEMMA ThreadStepNearer ==
    ASSUME RunInv, PipelineTypeOK, ThreadStep
    PROVE  Nearer
  <1>0. at \in Sources /\ call.attempt \in 0..Retries - 1 /\ Retries \in Nat
    BY PipelineAssumption DEF PipelineTypeOK
  <1> DEFINE m == (NumSources - at) * (Retries + 2)
  <1>1. /\ m \in Nat /\ NumSources - at \in Nat
        /\ at < NumSources =>
              (NumSources - (at + 1)) * (Retries + 2) = m - (Retries + 2)
    BY <1>0, SourcesLeft
  <1>2. ASSUME NextSource, phase \in {"validate", "call"}
        PROVE  Nearer
    <2>1. CASE at < NumSources /\ at' = at + 1 /\ phase' = "validate"
      <3>1. PhasesLeft' = 4 /\ PhasesLeft = 4
        BY <1>2, <2>1 DEF PhasesLeft
      <3>2. StepsLeft' = (m - (Retries + 2)) + (Retries + 1)
        BY <1>1, <2>1 DEF StepsLeft
      <3>3. StepsLeft \in {m + (Retries + 1), m + (Retries - call.attempt)}
        BY <1>2 DEF StepsLeft
      <3> HIDE DEF m
      <3>4. StepsLeft' < StepsLeft
        BY <1>0, <1>1, <3>2, <3>3
      <3> QED
        BY <3>1, <3>4 DEF Nearer
    <2>2. CASE phase' = "assign"
      <3>1. PhasesLeft' <= 3 /\ PhasesLeft' \in Int /\ PhasesLeft = 4
        BY <1>2, <2>2 DEF PhasesLeft
      <3> QED
        BY <3>1 DEF Nearer
    <2> QED
      BY <1>2, <2>1, <2>2 DEF NextSource
  <1>3. ASSUME phase' \in {"done", "failed"}, InRun, phase # "idle"
        PROVE  Nearer
    <2>1. PhasesLeft' = 0
      BY <1>3 DEF PhasesLeft
    <2>2. PhasesLeft \in {1, 2, 3, 4, 5} \/ PhasesLeft = 0
      BY DEF PhasesLeft
    <2>3. phase \in {"rank", "validate", "call", "assign", "assemble"}
      BY <1>3 DEF PipelineTypeOK, InRun
    <2>4. PhasesLeft # 0
      BY <2>3 DEF PhasesLeft
    <2> QED
      BY <2>1, <2>2, <2>4 DEF Nearer
  <1>4. CASE Rank
    <2>1. phase = "rank"
      BY <1>4 DEF Rank
    <2>2. CASE at' = at + 1 /\ phase' = phase
      <3>1. PhasesLeft' = 5 /\ PhasesLeft = 5
        BY <2>1, <2>2 DEF PhasesLeft
      <3>2. StepsLeft' = NumSources - (at + 1) /\ StepsLeft = NumSources - at
        BY <2>1, <2>2 DEF StepsLeft
      <3>3. at \in Int /\ NumSources \in Int
        BY <1>0, PipelineAssumption DEF Sources
      <3> QED
        BY <3>1, <3>2, <3>3 DEF Nearer
    <2>3. CASE phase' = "validate"
      BY <2>1, <2>3 DEF PhasesLeft, Nearer
    <2> QED
      BY <1>4, <2>2, <2>3 DEF Rank
  <1>5. CASE Gate
    <2>1. phase = "validate"
      BY <1>5 DEF Gate
    <2>2. CASE NextSource
      BY <1>2, <2>1, <2>2
    <2>3. CASE phase' = "call" /\ at' = at /\ call' = call
      <3>1. PhasesLeft' = 4 /\ PhasesLeft = 4
        BY <2>1, <2>3 DEF PhasesLeft
      <3>2. StepsLeft' = m + (Retries - call.attempt) /\ StepsLeft = m + (Retries + 1)
        BY <2>1, <2>3 DEF StepsLeft
      <3> HIDE DEF m
      <3>3. StepsLeft' < StepsLeft
        BY <1>0, <1>1, <3>2
      <3> QED
        BY <3>1, <3>3 DEF Nearer
    <2> QED
      BY <1>5, <2>2, <2>3 DEF Gate
  <1>6. CASE Attempt
    <2>1. phase = "call"
      BY <1>6 DEF Attempt
    <2>2. CASE NextSource
      BY <1>2, <2>1, <2>2
    <2>3. CASE phase' = "failed"
      BY <1>3, <2>1, <2>3 DEF InRun
    <2>4. CASE phase' = phase /\ at' = at /\ call'.attempt = call.attempt + 1
      <3>1. PhasesLeft' = 4 /\ PhasesLeft = 4
        BY <2>1, <2>4 DEF PhasesLeft
      <3>2. /\ StepsLeft' = m + (Retries - (call.attempt + 1))
            /\ StepsLeft = m + (Retries - call.attempt)
        BY <2>1, <2>4 DEF StepsLeft
      <3> HIDE DEF m
      <3>3. StepsLeft' < StepsLeft
        BY <1>0, <1>1, <3>2
      <3> QED
        BY <3>1, <3>3 DEF Nearer
    <2>5. call \in [attempt : 0..Retries - 1, bound : BOOLEAN]
      BY DEF PipelineTypeOK
    <2> QED
      BY <1>6, <2>2, <2>3, <2>4, <2>5 DEF Attempt
  <1>7. CASE AnswerNoObject
    BY <1>3, <1>7 DEF AnswerNoObject, InRun
  <1>8. CASE Answer
    BY <1>2, <1>8 DEF Answer
  <1>9. CASE Assemble
    <2>1. phase = "assemble"
      BY <1>9 DEF Assemble
    <2>2. CASE phase' = phase /\ at' = at + 1
      <3>1. PhasesLeft' = 1 /\ PhasesLeft = 1
        BY <2>1, <2>2 DEF PhasesLeft
      <3>2. StepsLeft' = NumSources - (at + 1) /\ StepsLeft = NumSources - at
        BY <2>1, <2>2 DEF StepsLeft
      <3>3. at \in Int /\ NumSources \in Int
        BY <1>0, PipelineAssumption DEF Sources
      <3> QED
        BY <3>1, <3>2, <3>3 DEF Nearer
    <2>3. CASE phase' \in {"done", "failed"}
      BY <1>3, <2>1, <2>3 DEF InRun
    <2> QED
      BY <1>9, <2>2, <2>3 DEF Assemble
  <1>10. CASE BuildMatrix
    <2>1. /\ phase = "assign" /\ phase' = "assign" /\ target_names = <<>>
          /\ target_names' \in Namings
      BY <1>10 DEF BuildMatrix, vars, runVars
    <2>2. RankInv
      BY DEF RunInv, PipelineInv
    <2>3. DOMAIN target_names' = 1..Cardinality(Ranked)
      BY <2>1 DEF Namings
    <2>4. 1 \in DOMAIN target_names'
      BY <2>1, <2>2, <2>3, RankedTargets
    <2>5. target_names' # <<>>
      BY <2>4
    <2> QED
      BY <2>1, <2>5 DEF PhasesLeft, Nearer
  <1>11. CASE Solve
    <2>1. /\ phase = "assign" /\ phase' = "assign"
          /\ target_names # <<>> /\ target_names' = target_names
      BY <1>11 DEF Solve, vars, runVars
    <2>2. PassesLeft' < PassesLeft
      BY <1>11, <2>1, PassStep DEF RunInv, Solve
    <2>3. PhasesLeft' = 2 /\ PhasesLeft = 2
      BY <2>1 DEF PhasesLeft
    <2>4. StepsLeft' = PassesLeft' /\ StepsLeft = PassesLeft
      BY <2>1 DEF StepsLeft
    <2> QED
      BY <2>2, <2>3, <2>4 DEF Nearer
  <1>12. CASE Return
    <2>1. /\ phase = "assign" /\ target_names # <<>> /\ phase' = "assemble"
      BY <1>12 DEF Return
    <2>2. PhasesLeft' = 1 /\ PhasesLeft = 2
      BY <2>1 DEF PhasesLeft
    <2> QED
      BY <2>2 DEF Nearer
  <1> QED
    BY <1>4, <1>5, <1>6, <1>7, <1>8, <1>9, <1>10, <1>11, <1>12
       DEF ThreadStep, Elsewhere

\* Every step the job's thread makes brings the run nearer its end, whatever
\* the provider answers and however many attempts and passes it takes, and
\* switching settings meanwhile never sets it back: no run goes on for ever.
THEOREM RunsWindDown ==
    RunSpec =>
        /\ [](PhasesLeft \in 0..5 /\ StepsLeft \in Nat)
        /\ [][ThreadStep => Nearer]_runSpecVars
        /\ [][LoopStep /\ UNCHANGED solver =>
                 UNCHANGED <<PhasesLeft, StepsLeft>>]_runSpecVars
  <1>1. RunSpec => []PipelineTypeOK
    <2>1. RunSpec => Spec
      BY RunImplementsPipeline DEF AssignsAsSpecified
    <2> QED
      BY <2>1, PipelineTypes, PTL
  <1>2. LoopStep /\ UNCHANGED solver => UNCHANGED <<PhasesLeft, StepsLeft>>
    <2> SUFFICES ASSUME LoopStep, UNCHANGED solver
                 PROVE  UNCHANGED <<PhasesLeft, StepsLeft>>
      OBVIOUS
    <2>1. UNCHANGED runVars
      BY LoopLeavesRun
    <2>2. /\ phase' = phase /\ at' = at /\ call' = call
          /\ target_names' = target_names
      BY <2>1 DEF runVars, solver
    <2>3. PassesLeft' = PassesLeft
      BY DEF solver, solverVars, input, PassesLeft, PassesOfRow, Size
    <2> QED
      BY <2>2, <2>3 DEF PhasesLeft, StepsLeft
  <1>3. RunInv /\ PipelineTypeOK /\ ThreadStep => Nearer
    BY ThreadStepNearer
  <1>4. RunInv /\ PipelineTypeOK => PhasesLeft \in 0..5 /\ StepsLeft \in Nat
    BY CountsOfRun
  <1> QED
    BY <1>1, <1>2, <1>3, <1>4, RunInvariant, PTL
=============================================================================
