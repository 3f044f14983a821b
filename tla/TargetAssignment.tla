-------------------------- MODULE TargetAssignment --------------------------
(***************************************************************************)
(* The global one-to-one assignment of                                     *)
(* backend/app/services/mapping_service.py: assign_unique_targets pads the *)
(* ranked scores of a schema to a square cost matrix and                   *)
(* solve_min_cost_assignment runs the Hungarian algorithm on it.  One      *)
(* action is one pass of one of the algorithm's loops.                     *)
(*                                                                         *)
(* Weights are integers here and floats in the code: the model is about    *)
(* the order of the updates, not about rounding.                           *)
(***************************************************************************)
EXTENDS Integers, FiniteSets, FiniteSetsExt

CONSTANTS
    MaxSize,    \* bound: sources and targets of a schema
    Weights,    \* the values assignment_weight takes
    NoScore     \* a pair that is in no ranking

ASSUME SizeAssumption == MaxSize \in Nat \ {0}
ASSUME WeightsAssumption == Weights \subseteq Nat /\ NoScore \notin Weights

VARIABLES
    sources, targets,   \* source_count, target_count
    score,              \* score_lookup, NoScore where it has no entry
    costs,              \* the padded square matrix
    u, v,               \* dual values of rows and columns
    p,                  \* p[c]: the row column c is matched to, 0 for none
    way,                \* way[c]: the column c is reached from
    minv,               \* slack of the columns; infinite while used is empty
    used,               \* columns whose used flag is set
    row, column, solving,
    above               \* history: columns used before column c was reached

input == <<sources, targets, score, costs>>
solverVars == <<input, u, v, p, way, minv, used, row, column, solving, above>>
-----------------------------------------------------------------------------
Size == IF sources < targets THEN targets ELSE sources
Real == 1..Size         \* the rows, and the columns
Columns == 0..Size      \* with the artificial column 0

\* Every source ranks a target, and a target is in target_names because a
\* source ranks it.
Scores(s, t) ==
    {sc \in [1..s -> [1..t -> Weights \cup {NoScore}]] :
        /\ \A i \in 1..s : \E j \in 1..t : sc[i][j] # NoScore
        /\ \A j \in 1..t : \E i \in 1..s : sc[i][j] # NoScore}

Scored(r, c) == r <= sources /\ c <= targets /\ score[r][c] # NoScore
CellWeight(r, c) == IF Scored(r, c) THEN score[r][c] ELSE 0

\* max_weight: the largest weight of the padded matrix.
Largest ==
    {w \in Weights \cup {0} :
        /\ \A r, c \in Real : CellWeight(r, c) <= w
        /\ \E r, c \in Real : CellWeight(r, c) = w}

\* A broken matrix that keeps the weights of a maximisation.
CostsOfWeights ==
    costs = [r \in Real |-> [c \in Real |-> CellWeight(r, c)]]

CostsOf ==
    \E max_weight \in Largest :
        costs = [r \in Real |-> [c \in Real |-> max_weight - CellWeight(r, c)]]

Slack(r, c) == costs[r][c] - u[r] - v[c]

RowLeft == row < Size

\* The next row enters through column 0, or the matching is complete.
NextRow ==
    /\ solving = "row"
    /\ \/ /\ RowLeft
          /\ row' = row + 1
          /\ p' = [p EXCEPT ![0] = row + 1]
          /\ used' = {}
          /\ column' = 0
          /\ above' = [above EXCEPT ![0] = {}]
          /\ solving' = "search"
       \/ /\ ~RowLeft
          /\ solving' = "done"
          /\ UNCHANGED <<row, p, used, column, above>>
    /\ UNCHANGED <<input, u, v, way, minv>>

\* cur < minv of an unused column, reached from the column just used.
Closer(c) == used = {} \/ Slack(p[column], c) < minv[c]

Relaxed == [c \in Real |-> IF c \notin used \cup {column} /\ Closer(c)
                           THEN Slack(p[column], c) ELSE minv[c]]

\* A broken loop that notes the column before it has compared the distances
\* and before it has skipped the used ones.
ReachedByLast ==
    [c \in Columns |-> IF c \in Real \ used THEN column ELSE way[c]]

Reached ==
    [c \in Columns |-> IF c \in Real \ (used \cup {column}) /\ Closer(c)
                       THEN column ELSE way[c]]

Nearest(c, unused) ==
    /\ c \in unused
    /\ \A d \in unused : Relaxed[c] <= Relaxed[d]
    /\ \A d \in unused : Relaxed[c] = Relaxed[d] => c <= d

\* A broken search that moves the columns and leaves the rows where they are.
RaisedColumnsOnly(now, delta) ==
    /\ u' = u
    /\ v' = [c \in Columns |-> IF c \in now THEN v[c] - delta ELSE v[c]]

\* No row is held by two columns, so each row moves at most once.
Raised(now, delta) ==
    /\ u' = [r \in Columns |-> IF \E c \in now : p[c] = r
                               THEN u[r] + delta ELSE u[r]]
    /\ v' = [c \in Columns |-> IF c \in now THEN v[c] - delta ELSE v[c]]

\* One pass of the search loop: mark the column, relax the others, take the
\* nearest, shift the duals by its distance, stop at a column without a row.
Search ==
    /\ solving = "search"
    /\ LET now == used \cup {column} IN
       \E next \in Real \ now :
          /\ Nearest(next, Real \ now)
          /\ used' = now
          /\ way' = Reached
          /\ minv' = [c \in Real |-> IF c \in now THEN minv[c]
                                     ELSE Relaxed[c] - Relaxed[next]]
          /\ Raised(now, Relaxed[next])
          /\ column' = next
          /\ above' = [above EXCEPT ![next] = now]
          /\ solving' = IF p[next] = 0 THEN "augment" ELSE "search"
    /\ UNCHANGED <<input, p, row>>

\* A broken augmentation that moves the row the wrong way along the path.
AugmentBackwards ==
    /\ solving = "augment"
    /\ p' = [p EXCEPT ![way[column]] = p[column]]
    /\ column' = way[column]
    /\ solving' = IF way[column] = 0 THEN "row" ELSE "augment"
    /\ UNCHANGED <<input, u, v, way, minv, used, row, above>>

\* One pass of the second loop: the column takes the row of the column it was
\* reached from.
Augment ==
    /\ solving = "augment"
    /\ p' = [p EXCEPT ![column] = p[way[column]]]
    /\ column' = way[column]
    /\ solving' = IF way[column] = 0 THEN "row" ELSE "augment"
    /\ UNCHANGED <<input, u, v, way, minv, used, row, above>>

Finished == solving = "done" /\ UNCHANGED solverVars

SolverInit ==
    /\ sources \in 1..MaxSize
    /\ targets \in 1..MaxSize
    /\ score \in Scores(sources, targets)
    /\ CostsOf
    /\ u = [r \in Columns |-> 0]
    /\ v = [c \in Columns |-> 0]
    /\ p = [c \in Columns |-> 0]
    /\ way = [c \in Columns |-> 0]
    /\ minv = [c \in Real |-> 0]
    /\ used = {}
    /\ row = 0
    /\ column = 0
    /\ solving = "row"
    /\ above = [c \in Columns |-> {}]

SolverNext == NextRow \/ Search \/ Augment \/ Finished
SolverSpec == SolverInit /\ [][SolverNext]_solverVars

\* The solver is one sequential loop: it keeps running until it returns.
SolverFairSpec == SolverSpec /\ WF_solverVars(SolverNext)

-----------------------------------------------------------------------------
(* Properties.                                                             *)

\* What assign_unique_targets returns once the solver is done: the matched
\* pairs that are no padding and have a ranked score.
Assigned ==
    {m \in (1..sources) \X (1..targets) : p[m[2]] = m[1] /\ Scored(m[1], m[2])}

Phases == {"row", "search", "augment", "done"}

\* Shapes of the arrays; row and column stay indexes of them.
AssignmentTypeOK ==
    /\ sources \in Nat \ {0} /\ targets \in Nat \ {0}
    /\ costs \in [Real -> [Real -> Int]]
    /\ u \in [Columns -> Int] /\ v \in [Columns -> Int]
    /\ p \in [Columns -> Columns] /\ way \in [Columns -> Columns]
    /\ minv \in [Real -> Int]
    /\ used \in SUBSET Columns
    /\ row \in Columns /\ column \in Columns
    /\ solving \in Phases
    /\ above \in [Columns -> SUBSET Columns]

\* Once it is done the matching is complete on the padded matrix: every row
\* has a column and no two columns share a row, so no source is given two
\* targets and no two sources one target.
MatchingComplete ==
    solving = "done" =>
        /\ \A r \in Real : \E c \in Real : p[c] = r
        /\ \A c, d \in Real : p[c] = p[d] => c = d

\* The duals prove the matching optimal: at every step no slack is negative,
\* and at the end the slack of every matched pair is 0, for every order in
\* which rows displaced each other on the way.
DualsCertify ==
    /\ \A r, c \in Real : Slack(r, c) >= 0
    /\ solving = "done" => \A c \in Real : p[c] # 0 /\ Slack(p[c], c) = 0

Pairs == {a \in (1..sources) \X (1..targets) : Scored(a[1], a[2])}

Matchings ==
    {m \in SUBSET Pairs :
        \A a, b \in m : a # b => a[1] # b[1] /\ a[2] # b[2]}

TotalWeight(m) == MapThenSumSet(LAMBDA a : score[a[1]][a[2]], m)

\* assign_unique_targets picks the matching of greatest total weight, not
\* the one a greedy pass over the sorted edges finds, although padding rows
\* and columns compete for real targets and a pair without a score may be
\* matched and then dropped.
BestTotal ==
    solving = "done" => \A m \in Matchings : TotalWeight(m) <= TotalWeight(Assigned)

-----------------------------------------------------------------------------
(* The inductive strengthening: the invariant of the search tree.          *)

\* While the rows shift along the path, the column they have reached is a
\* hole: its row has moved on to the column before.
Holding == Columns \ (IF solving = "search" THEN {} ELSE {column})

\* The matching is injective outside the hole and covers the rows done.
MatchingInv ==
    /\ solving \in {"row", "done"} => column = 0
    /\ solving = "done" => row = Size
    /\ solving \in {"search", "augment"} => p[0] = row /\ row # 0
    /\ \A c, d \in Holding : p[c] = p[d] /\ p[c] # 0 => c = d
    /\ \A r \in 1..row : \E c \in Holding : p[c] = r
    /\ \A c \in Real : p[c] <= row

\* Complementary slackness.
DualInv ==
    /\ \A r, c \in Real : Slack(r, c) >= 0
    /\ \A c \in Holding \ {0} : p[c] # 0 => Slack(p[c], c) = 0

\* The column under treatment and the columns used before it form a tree
\* rooted in column 0 whose edges, way, are tight.
PathInv ==
    solving \in {"search", "augment"} =>
        LET chain == above[column] \cup {column} IN
        /\ solving = "augment" => column # 0
        /\ column = 0 => above[column] = {}
        /\ \A c \in chain \ {0} : 0 \in above[c]
        /\ \A c \in chain : c \notin above[c] /\ above[c] \subseteq above[column]
        /\ \A c \in chain : \A d \in above[c] : above[d] \subseteq above[c]
        /\ \A c \in chain \ {0} : way[c] \in above[c] /\ Slack(p[way[c]], c) = 0
        /\ \A c \in above[column] : p[c] # 0

\* minv and way hold the nearest tree column of every column outside it.
SearchInv ==
    solving = "search" =>
        /\ used = above[column]
        /\ p[column] # 0
        /\ used # {} =>
              \A c \in Real \ used :
                  /\ way[c] \in used
                  /\ minv[c] = Slack(p[way[c]], c)
                  /\ \A d \in used : minv[c] <= Slack(p[d], c)

SolverInv ==
    AssignmentTypeOK /\ MatchingInv /\ DualInv /\ PathInv /\ SearchInv
=============================================================================
