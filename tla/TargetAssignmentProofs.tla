----------------------- MODULE TargetAssignmentProofs -----------------------
(***************************************************************************)
(* Proofs about the assignment solver, for schemas and weights of every    *)
(* size: the matching is complete when the solver returns, the duals       *)
(* certify it as optimal, no matching weighs more, and the loops end.      *)
(***************************************************************************)
EXTENDS TargetAssignment, FiniteSetTheorems, WellFoundedInduction, TLAPS

USE SizeAssumption, WeightsAssumption

\* The size of the padded matrix is a positive number.
LEMMA SizeNat ==
    ASSUME sources \in Nat \ {0}, targets \in Nat \ {0}
    PROVE  /\ Size \in Nat \ {0}
           /\ Real \subseteq Columns
           /\ Columns = Real \cup {0}
           /\ 0 \in Columns /\ 0 \notin Real
           /\ Real \subseteq Nat \ {0}
  BY DEF Size, Real, Columns

\* The initial state satisfies the strengthened invariant.
LEMMA InitiallySolverInv == SolverInit => SolverInv
<1> SUFFICES ASSUME SolverInit PROVE SolverInv
  OBVIOUS
<1>1. /\ sources \in Nat \ {0} /\ targets \in Nat \ {0}
  BY DEF SolverInit
<1>2. /\ Size \in Nat \ {0} /\ Columns = Real \cup {0} /\ 0 \notin Real
  BY <1>1, SizeNat
<1>3. \A r, c \in Real : CellWeight(r, c) \in Nat
  <2> SUFFICES ASSUME NEW r \in Real, NEW c \in Real, Scored(r, c)
               PROVE  score[r][c] \in Nat
    BY DEF CellWeight
  <2>1. r \in 1..sources /\ c \in 1..targets
    BY <1>1, <1>2 DEF Scored, Real
  <2>2. score \in [1..sources -> [1..targets -> Weights \cup {NoScore}]]
    BY DEF SolverInit, Scores
  <2> QED
    BY <2>1, <2>2 DEF Scored
<1>4. PICK w \in Largest :
          costs = [r \in Real |-> [c \in Real |-> w - CellWeight(r, c)]]
  BY DEF SolverInit, CostsOf
<1>5. w \in Nat /\ \A r, c \in Real : CellWeight(r, c) <= w
  BY <1>4 DEF Largest
<1>6. \A r, c \in Real : costs[r][c] \in Int /\ costs[r][c] >= 0
  BY <1>3, <1>4, <1>5
<1>7. costs \in [Real -> [Real -> Int]]
  BY <1>3, <1>4, <1>5
<1>8. AssignmentTypeOK
  BY <1>1, <1>2, <1>7 DEF SolverInit, AssignmentTypeOK, Phases
<1>9. MatchingInv
  BY <1>1, <1>2 DEF SolverInit, MatchingInv, Holding, Size
<1>10. DualInv
  BY <1>2, <1>6 DEF SolverInit, DualInv, Slack, Holding
<1> QED
  BY <1>8, <1>9, <1>10 DEF SolverInv, PathInv, SearchInv, SolverInit

\* Entering a row starts an empty tree at column 0.
LEMMA NextRowPreserves == SolverInv /\ NextRow => SolverInv'
<1> SUFFICES ASSUME SolverInv, NextRow PROVE SolverInv'
  OBVIOUS
<1> USE DEF SolverInv
<1>1. /\ Size \in Nat \ {0} /\ Columns = Real \cup {0} /\ 0 \notin Real
      /\ Real \subseteq Nat \ {0}
  BY SizeNat DEF AssignmentTypeOK
<1>2. /\ UNCHANGED <<sources, targets, score, costs, u, v, way, minv>>
      /\ Size' = Size /\ Real' = Real /\ Columns' = Columns
      /\ \A r, c : Slack(r, c)' = Slack(r, c)
  BY DEF NextRow, input, Size, Real, Columns, Slack
<1>3. column = 0 /\ solving = "row"
  BY DEF NextRow, MatchingInv
<1>4. Holding = Real
  BY <1>1, <1>3 DEF Holding
<1>5. CASE RowLeft
  <2>1. /\ row' = row + 1 /\ p' = [p EXCEPT ![0] = row + 1] /\ used' = {}
        /\ column' = 0 /\ above' = [above EXCEPT ![0] = {}]
        /\ solving' = "search"
    BY <1>5 DEF NextRow
  <2>2. row + 1 \in Columns /\ row \in Nat
    BY <1>1, <1>5 DEF RowLeft, AssignmentTypeOK, Columns
  <2>3. /\ p' \in [Columns -> Columns] /\ p'[0] = row + 1
        /\ \A c \in Real : p'[c] = p[c] /\ p[c] <= row /\ p[c] \in Nat
    <3>1. p \in [Columns -> Columns]
      BY DEF AssignmentTypeOK
    <3>2. Columns \subseteq Nat
      BY <1>1
    <3>3. \A c \in Real : p[c] <= row /\ p[c] \in Nat
      BY <1>1, <3>1, <3>2 DEF MatchingInv
    <3>4. p' \in [Columns -> Columns]
      BY <2>1, <2>2, <3>1
    <3>5. p'[0] = row + 1 /\ \A c \in Real : p'[c] = p[c]
      BY <1>1, <2>1, <3>1
    <3> QED
      BY <3>3, <3>4, <3>5
  <2>4. AssignmentTypeOK'
    BY <1>1, <1>2, <2>1, <2>2, <2>3 DEF AssignmentTypeOK, Phases
  <2>5. Holding' = Columns
    BY <1>2, <2>1 DEF Holding
  <2>6. MatchingInv'
    <3>1. \A c, d \in Columns : p'[c] = p'[d] /\ p'[c] # 0 => c = d
      BY <1>1, <1>4, <2>2, <2>3 DEF MatchingInv
    <3>2. \A r \in 1..(row + 1) : \E c \in Columns : p'[c] = r
      <4> SUFFICES ASSUME NEW r \in 1..(row + 1) PROVE \E c \in Columns : p'[c] = r
        OBVIOUS
      <4>1. CASE r = row + 1
        BY <4>1, <2>3, <1>1
      <4>2. CASE r # row + 1
        <5>1. r \in 1..row
          BY <4>2, <2>2
        <5> QED
          BY <5>1, <1>1, <1>4, <2>3 DEF MatchingInv
      <4> QED
        BY <4>1, <4>2
    <3>3. \A c \in Real : p'[c] <= row + 1
      BY <2>2, <2>3
    <3> QED
      BY <1>2, <2>1, <2>2, <2>3, <2>5, <3>1, <3>2, <3>3 DEF MatchingInv
  <2>7. DualInv'
    <3>1. \A c \in Real : p'[c] = p[c]
      BY <2>3
    <3>2. \A c \in Real : Slack(p[c], c)' = Slack(p[c], c)
      BY <3>1, <1>2 DEF Slack
    <3> QED
      BY <1>1, <1>2, <1>4, <2>5, <3>1, <3>2 DEF DualInv
  <2>8. PathInv' /\ SearchInv'
    <3>1. above'[0] = {}
      BY <2>1, <1>1 DEF AssignmentTypeOK
    <3> QED
      BY <2>1, <2>2, <2>3, <3>1 DEF PathInv, SearchInv
  <2> QED
    BY <2>4, <2>6, <2>7, <2>8
<1>6. CASE ~RowLeft
  <2>1. solving' = "done" /\ UNCHANGED <<row, p, used, column, above>>
    BY <1>6 DEF NextRow
  <2>2. row = Size
    BY <1>1, <1>6 DEF RowLeft, AssignmentTypeOK, Columns
  <2>3. Holding' = Holding
    BY <1>2, <1>3, <2>1 DEF Holding
  <2>4. AssignmentTypeOK'
    BY <1>2, <2>1 DEF AssignmentTypeOK, Phases
  <2>5. MatchingInv'
    BY <1>2, <1>3, <2>1, <2>2, <2>3 DEF MatchingInv
  <2>6. DualInv'
    <3>1. \A c \in Real : Slack(p[c], c)' = Slack(p[c], c)
      BY <2>1, <1>2 DEF Slack
    <3> QED
      BY <1>1, <1>2, <1>4, <2>1, <2>3, <3>1 DEF DualInv
  <2> QED
    BY <2>1, <2>4, <2>5, <2>6 DEF PathInv, SearchInv
<1> QED
  BY <1>5, <1>6

\* Shifting a row one edge back along the tree keeps the rest of the path
\* tight and moves the hole.
LEMMA AugmentPreserves == SolverInv /\ Augment => SolverInv'
<1> SUFFICES ASSUME SolverInv, Augment PROVE SolverInv'
  OBVIOUS
<1> USE DEF SolverInv
<1> DEFINE next == way[column]
<1>1. /\ Size \in Nat \ {0} /\ Columns = Real \cup {0} /\ 0 \notin Real
      /\ Real \subseteq Nat \ {0} /\ Columns \subseteq Nat
  BY SizeNat DEF AssignmentTypeOK
<1>2. /\ UNCHANGED <<sources, targets, score, costs, u, v, way, minv, used,
                     row, above>>
      /\ Size' = Size /\ Real' = Real /\ Columns' = Columns
      /\ \A r, c : Slack(r, c)' = Slack(r, c)
  BY DEF Augment, input, Size, Real, Columns, Slack
<1>3. /\ solving = "augment" /\ p' = [p EXCEPT ![column] = p[next]]
      /\ column' = next /\ solving' = IF next = 0 THEN "row" ELSE "augment"
  BY DEF Augment
<1>4. /\ column \in Columns /\ way \in [Columns -> Columns]
      /\ p \in [Columns -> Columns] /\ above \in [Columns -> SUBSET Columns]
      /\ row \in Nat
  BY <1>1 DEF AssignmentTypeOK
<1>5. Holding = Columns \ {column} /\ p[0] = row /\ row # 0
  BY <1>3 DEF Holding, MatchingInv
<1>6. /\ \A c \in Columns \ {column}, d \in Columns \ {column} :
            p[c] = p[d] /\ p[c] # 0 => c = d
      /\ \A r \in 1..row : \E c \in Columns \ {column} : p[c] = r
      /\ \A c \in Columns \ {column} : c # 0 /\ p[c] # 0 => Slack(p[c], c) = 0
  BY <1>5 DEF MatchingInv, DualInv
<1>7. /\ column # 0
      /\ \A c \in (above[column] \cup {column}) \ {0} : 0 \in above[c]
      /\ \A c \in above[column] \cup {column} :
            c \notin above[c] /\ above[c] \subseteq above[column]
      /\ \A c \in above[column] \cup {column} : \A d \in above[c] :
            above[d] \subseteq above[c]
      /\ \A c \in (above[column] \cup {column}) \ {0} :
            way[c] \in above[c] /\ Slack(p[way[c]], c) = 0
      /\ \A c \in above[column] : p[c] # 0
  BY <1>3 DEF PathInv
<1>8. column # 0
  BY <1>7
<1>9. /\ next \in above[column] /\ next # column /\ p[next] # 0
      /\ Slack(p[next], column) = 0 /\ next \in Columns
  BY <1>4, <1>7, <1>8
<1>10. /\ p' \in [Columns -> Columns] /\ p'[column] = p[next]
       /\ \A c \in Columns \ {column} : p'[c] = p[c]
  BY <1>3, <1>4, <1>9
<1>11. Holding' = Columns \ {next}
  BY <1>2, <1>3 DEF Holding
<1>12. AssignmentTypeOK'
  BY <1>2, <1>3, <1>9, <1>10 DEF AssignmentTypeOK, Phases
<1>13. MatchingInv'
  <2>1. \A c \in Columns \ {next}, d \in Columns \ {next} :
            p'[c] = p'[d] /\ p'[c] # 0 => c = d
    BY <1>6, <1>9, <1>10
  <2>2. \A r \in 1..row : \E c \in Columns \ {next} : p'[c] = r
    BY <1>4, <1>6, <1>9, <1>10
  <2>3. \A c \in Real : p'[c] <= row
    <3>1. \A c \in Columns : p[c] <= row
      BY <1>1, <1>4, <1>5 DEF MatchingInv
    <3> QED
      BY <1>1, <1>9, <1>10, <3>1
  <2>4. next # 0 => p'[0] = row
    BY <1>1, <1>5, <1>8, <1>10
  <2> QED
    BY <1>2, <1>3, <1>5, <1>11, <2>1, <2>2, <2>3, <2>4 DEF MatchingInv
<1>14. DualInv'
  <2>1. \A c \in (Columns \ {next}) \ {0} : p'[c] # 0 => Slack(p'[c], c) = 0
    BY <1>6, <1>9, <1>10
  <2>2. \A c \in (Columns \ {next}) \ {0} :
            p'[c] # 0 => costs'[p'[c]][c] - u'[p'[c]] - v'[c] = 0
    BY <2>1, <1>2 DEF Slack
  <2> QED
    BY <1>2, <1>11, <2>2 DEF DualInv, Slack
<1>15. PathInv'
  <2> SUFFICES ASSUME next # 0 PROVE PathInv'
    BY <1>3 DEF PathInv
  <2>1. /\ above[next] \subseteq above[column] /\ column \notin above[next]
        /\ next \notin above[next]
    BY <1>7, <1>9
  <2>2. above[next] \cup {next} \subseteq above[column]
    BY <1>9, <2>1
  <2>3. \A c \in above[next] \cup {next} :
            c \notin above[c] /\ above[c] \subseteq above[next]
    BY <1>7, <1>9, <2>2
  <2>4. \A c \in above[next] \cup {next} : \A d \in above[c] :
            above[d] \subseteq above[c]
    BY <1>7, <2>2
  <2>5. \A c \in (above[next] \cup {next}) \ {0} :
            way[c] \in above[c] /\ Slack(p'[way[c]], c) = 0
    <3> SUFFICES ASSUME NEW c \in (above[next] \cup {next}) \ {0}
                 PROVE  way[c] \in above[c] /\ Slack(p'[way[c]], c) = 0
      OBVIOUS
    <3>1. way[c] \in above[c] /\ Slack(p[way[c]], c) = 0
      BY <1>7, <2>2
    <3>2. way[c] \in above[next]
      BY <2>3, <3>1
    <3>3. way[c] \in Columns /\ way[c] # column
      BY <2>1, <2>2, <3>2, <1>4
    <3> QED
      BY <3>1, <3>3, <1>10
  <2>6. \A c \in above[next] : p'[c] # 0
    BY <1>4, <1>7, <1>10, <2>1, <2>2
  <2>7. \A c \in (above[next] \cup {next}) \ {0} : 0 \in above[c]
    BY <1>7, <2>2
  <2>8. above'[column'] = above[next] /\ column' = next
    BY <1>2, <1>3
  <2>9. \A c \in (above[next] \cup {next}) \ {0} :
            costs'[p'[way[c]]][c] - u'[p'[way[c]]] - v'[c] = 0
    BY <2>5, <1>2 DEF Slack
  <2> QED
    BY <1>2, <2>3, <2>4, <2>5, <2>6, <2>7, <2>8, <2>9 DEF PathInv, Slack
<1> QED
  BY <1>3, <1>12, <1>13, <1>14, <1>15 DEF SearchInv

\* One pass of the search grows the tree by its nearest column and keeps the
\* duals feasible and its edges tight.
LEMMA SearchPreserves == SolverInv /\ Search => SolverInv'
<1> SUFFICES ASSUME SolverInv, Search PROVE SolverInv'
  OBVIOUS
<1> USE DEF SolverInv
<1> DEFINE now == used \cup {column}
<1>1. /\ Size \in Nat \ {0} /\ Columns = Real \cup {0} /\ 0 \notin Real
      /\ Real \subseteq Nat \ {0} /\ Columns \subseteq Nat
      /\ 1..row \subseteq Real
  BY SizeNat DEF AssignmentTypeOK, Real, Columns
<1>2. /\ solving = "search"
      /\ UNCHANGED <<sources, targets, score, costs, p, row>>
      /\ Size' = Size /\ Real' = Real /\ Columns' = Columns
  BY DEF Search, input, Size, Real, Columns
<1>3. /\ column \in Columns /\ way \in [Columns -> Columns]
      /\ p \in [Columns -> Columns] /\ above \in [Columns -> SUBSET Columns]
      /\ row \in Nat /\ used \in SUBSET Columns
      /\ u \in [Columns -> Int] /\ v \in [Columns -> Int]
      /\ minv \in [Real -> Int] /\ costs \in [Real -> [Real -> Int]]
  BY <1>1 DEF AssignmentTypeOK
<1>4. /\ Holding = Columns /\ p[0] = row /\ row # 0
      /\ used = above[column] /\ p[column] # 0
  BY <1>2 DEF Holding, MatchingInv, SearchInv
<1>5. PICK next \in Real \ now :
          /\ Nearest(next, Real \ now)
          /\ used' = now
          /\ way' = Reached
          /\ minv' = [c \in Real |-> IF c \in now THEN minv[c]
                                     ELSE Relaxed[c] - Relaxed[next]]
          /\ Raised(now, Relaxed[next])
          /\ column' = next
          /\ above' = [above EXCEPT ![next] = now]
          /\ solving' = IF p[next] = 0 THEN "augment" ELSE "search"
  BY DEF Search
<1> DEFINE delta == Relaxed[next]
<1>6. /\ \A c \in now : p[c] # 0 /\ p[c] \in Real
      /\ now \subseteq Columns
  <2>1. \A c \in used : p[c] # 0
    BY <1>2, <1>4 DEF PathInv
  <2> QED
    BY <2>1, <1>1, <1>3, <1>4
<1>7. /\ \A c \in now : c \notin above[c] /\ above[c] \subseteq used
      /\ \A c \in now : \A d \in above[c] : above[d] \subseteq above[c]
      /\ \A c \in now \ {0} : 0 \in above[c]
      /\ \A c \in now \ {0} : way[c] \in above[c] /\ Slack(p[way[c]], c) = 0
      /\ column = 0 => used = {}
  BY <1>2, <1>4 DEF PathInv
<1>8. 0 \in now
  BY <1>4, <1>7
<1>9. \A r, c \in Real : Slack(r, c) \in Int /\ Slack(r, c) >= 0
  BY <1>1, <1>3 DEF DualInv, Slack
<1>10. \A c \in Columns, d \in Columns : p[c] = p[d] /\ p[c] # 0 => c = d
  BY <1>4 DEF MatchingInv
<1>11. \A c \in Real \ now :
          /\ way'[c] \in now
          /\ Relaxed[c] = Slack(p[way'[c]], c)
          /\ \A d \in now : Relaxed[c] <= Slack(p[d], c)
          /\ Relaxed[c] \in Int /\ Relaxed[c] >= 0
  <2> SUFFICES ASSUME NEW c \in Real \ now
               PROVE  /\ way'[c] \in now
                      /\ Relaxed[c] = Slack(p[way'[c]], c)
                      /\ \A d \in now : Relaxed[c] <= Slack(p[d], c)
                      /\ Relaxed[c] \in Int /\ Relaxed[c] >= 0
    OBVIOUS
  <2>1. /\ way'[c] = IF Closer(c) THEN column ELSE way[c]
        /\ Relaxed[c] = IF Closer(c) THEN Slack(p[column], c) ELSE minv[c]
    BY <1>1, <1>5 DEF Reached, Relaxed
  <2>2. \A d \in now : Slack(p[d], c) \in Int /\ Slack(p[d], c) >= 0
    BY <1>6, <1>9
  <2>3. used # {} => /\ way[c] \in used
                     /\ minv[c] = Slack(p[way[c]], c)
                     /\ \A d \in used : minv[c] <= Slack(p[d], c)
    BY <1>2 DEF SearchInv
  <2>4. CASE Closer(c)
    <3>1. \A d \in used : Slack(p[column], c) <= Slack(p[d], c)
      BY <2>2, <2>3, <2>4, <1>3 DEF Closer
    <3> QED
      BY <2>1, <2>2, <2>4, <3>1
  <2>5. CASE ~Closer(c)
    <3>1. used # {} /\ ~(Slack(p[column], c) < minv[c])
      BY <2>5 DEF Closer
    <3>2. minv[c] \in Int
      BY <1>3
    <3> QED
      BY <2>1, <2>2, <2>3, <2>5, <3>1, <3>2
  <2> QED
    BY <2>4, <2>5
<1>12. delta \in Int /\ delta >= 0 /\ \A c \in Real \ now : delta <= Relaxed[c]
  BY <1>5, <1>11 DEF Nearest
<1> HIDE DEF delta
<1> DEFINE rows == {p[c] : c \in now}
<1>13. /\ \A r \in Columns : u'[r] = IF r \in rows THEN u[r] + delta ELSE u[r]
       /\ \A c \in Columns : v'[c] = IF c \in now THEN v[c] - delta ELSE v[c]
       /\ u' \in [Columns -> Int] /\ v' \in [Columns -> Int]
  BY <1>3, <1>5, <1>12 DEF Raised, delta
<1> DEFINE Left(r, c) == costs'[r][c] - u'[r] - v'[c]
<1>14. \A r, c \in Real :
          Left(r, c) = Slack(r, c) - (IF r \in rows THEN delta ELSE 0)
                                     + (IF c \in now THEN delta ELSE 0)
  BY <1>1, <1>2, <1>3, <1>12, <1>13 DEF Slack
<1> HIDE DEF rows
<1>15. next \in Columns /\ next # 0 /\ next \notin now /\ next \notin used
  BY <1>1, <1>5
<1>16. AssignmentTypeOK'
  <2>1. minv' \in [Real -> Int]
    BY <1>3, <1>5, <1>11, <1>12 DEF delta
  <2>2. way' \in [Columns -> Columns]
    BY <1>3, <1>5 DEF Reached
  <2>3. above' \in [Columns -> SUBSET Columns]
    BY <1>3, <1>5, <1>6
  <2> QED
    BY <1>2, <1>3, <1>5, <1>6, <1>13, <1>15, <2>1, <2>2, <2>3
       DEF AssignmentTypeOK, Phases
<1>17. Holding' = IF p[next] = 0 THEN Columns \ {next} ELSE Columns
  BY <1>2, <1>5 DEF Holding
<1>18. MatchingInv'
  <2>1. \A r \in 1..row : \E c \in Holding' : p[c] = r
    BY <1>4, <1>17, <1>1 DEF MatchingInv
  <2>2. \A c \in Real : p[c] <= row
    BY DEF MatchingInv
  <2>3. \A c, d \in Holding' : p[c] = p[d] /\ p[c] # 0 => c = d
    BY <1>10, <1>17
  <2> QED
    BY <1>2, <1>4, <1>5, <2>1, <2>2, <2>3 DEF MatchingInv
<1>19. DualInv'
  <2>1. \A r, c \in Real : Left(r, c) >= 0
    <3> SUFFICES ASSUME NEW r \in Real, NEW c \in Real PROVE Left(r, c) >= 0
      OBVIOUS
    <3>1. CASE r \in rows /\ c \notin now
      <4>1. PICK d \in now : r = p[d]
        BY <3>1 DEF rows
      <4>2. delta <= Slack(r, c)
        BY <3>1, <4>1, <1>9, <1>11, <1>12
      <4> QED
        BY <3>1, <4>2, <1>9, <1>12, <1>14
    <3>2. CASE ~(r \in rows /\ c \notin now)
      BY <3>2, <1>9, <1>12, <1>14
    <3> QED
      BY <3>1, <3>2
  <2>2. \A c \in Real : p[c] # 0 => Left(p[c], c) = 0
    <3> SUFFICES ASSUME NEW c \in Real, p[c] # 0 PROVE Left(p[c], c) = 0
      OBVIOUS
    <3>1. p[c] \in Real /\ Slack(p[c], c) = 0
      BY <1>1, <1>3, <1>4 DEF DualInv
    <3>2. c \in now => p[c] \in rows
      BY DEF rows
    <3>3. p[c] \in rows => c \in now
      <4> SUFFICES ASSUME NEW d \in now, p[c] = p[d] PROVE c = d
        BY DEF rows
      <4> QED
        BY <1>1, <1>6, <1>10
    <3> QED
      BY <3>1, <3>2, <3>3, <1>12, <1>14
  <2>3. Holding' \ {0} \subseteq Real
    BY <1>1, <1>17
  <2> QED
    BY <1>2, <2>1, <2>2, <2>3 DEF DualInv, Slack
<1>20. /\ above'[next] = now
       /\ \A c \in now : above'[c] = above[c] /\ way'[c] = way[c]
  BY <1>3, <1>5, <1>6, <1>15 DEF Reached
<1>21. /\ way'[next] \in now
       /\ Slack(p[way'[next]], next) = delta
       /\ p[way'[next]] \in rows /\ p[way'[next]] \in Real
  BY <1>5, <1>6, <1>11 DEF rows, delta
<1>22. Left(p[way'[next]], next) = 0
  BY <1>5, <1>9, <1>12, <1>14, <1>15, <1>21
<1>23. \A c \in now \ {0} : /\ way[c] \in above[c]
                            /\ Left(p[way[c]], c) = 0
  <2> SUFFICES ASSUME NEW c \in now \ {0}
               PROVE  way[c] \in above[c] /\ Left(p[way[c]], c) = 0
    OBVIOUS
  <2>1. way[c] \in above[c] /\ way[c] \in now /\ Slack(p[way[c]], c) = 0
    BY <1>7
  <2>2. p[way[c]] \in rows /\ p[way[c]] \in Real /\ c \in Real
    BY <2>1, <1>1, <1>6 DEF rows
  <2> QED
    BY <2>1, <2>2, <1>12, <1>14
<1> HIDE DEF Left
<1>24. PathInv'
  <2> DEFINE chain == now \cup {next}
  <2>1. column' # 0 /\ above'[column'] = now /\ p' = p
    BY <1>2, <1>5, <1>15, <1>20
  <2>2. \A c \in chain : c \notin above'[c] /\ above'[c] \subseteq now
    BY <1>7, <1>15, <1>20
  <2>3. \A c \in chain : \A d \in above'[c] : above'[d] \subseteq above'[c]
    BY <1>7, <1>15, <1>20
  <2>4. \A c \in chain \ {0} : 0 \in above'[c]
    BY <1>7, <1>8, <1>20
  <2>5. \A c \in chain \ {0} : way'[c] \in above'[c] /\ Left(p[way'[c]], c) = 0
    BY <1>20, <1>21, <1>22, <1>23
  <2>6. \A c \in now : p[c] # 0
    BY <1>6
  <2>7. \A c \in chain \ {0} :
            costs'[p'[way'[c]]][c] - u'[p'[way'[c]]] - v'[c] = 0
    BY <2>1, <2>5 DEF Left
  <2>8. \A c \in now : p'[c] # 0
    BY <2>1, <2>6
  <2>9. \A c \in chain \ {0} : way'[c] \in above'[c]
    BY <2>5
  <2> HIDE DEF now
  <2> QED
    BY <1>5, <2>1, <2>2, <2>3, <2>4, <2>7, <2>8, <2>9 DEF PathInv, Slack
<1>25. SearchInv'
  <2>1. \A c \in Real \ now :
            /\ way'[c] \in now
            /\ minv'[c] = Left(p[way'[c]], c)
            /\ \A d \in now : minv'[c] <= Left(p[d], c)
    <3> SUFFICES ASSUME NEW c \in Real \ now
                 PROVE  /\ way'[c] \in now
                        /\ minv'[c] = Left(p[way'[c]], c)
                        /\ \A d \in now : minv'[c] <= Left(p[d], c)
      OBVIOUS
    <3>1. way'[c] \in now /\ minv'[c] = Relaxed[c] - delta
      BY <1>5, <1>11 DEF delta
    <3>2. \A d \in now : /\ Slack(p[d], c) \in Int
                         /\ Left(p[d], c) = Slack(p[d], c) - delta
      <4> SUFFICES ASSUME NEW d \in now
                   PROVE  /\ Slack(p[d], c) \in Int
                          /\ Left(p[d], c) = Slack(p[d], c) - delta
        OBVIOUS
      <4>1. p[d] \in rows /\ p[d] \in Real
        BY <1>6 DEF rows
      <4> QED
        BY <4>1, <1>9, <1>12, <1>14
    <3> QED
      BY <3>1, <3>2, <1>11, <1>12
  <2>2. p' = p /\ used' = now /\ above'[column'] = now /\ column' = next
    BY <1>2, <1>5, <1>20
  <2>3. \A c \in Real \ now :
            /\ way'[c] \in now
            /\ minv'[c] = costs'[p'[way'[c]]][c] - u'[p'[way'[c]]] - v'[c]
            /\ \A d \in now : minv'[c] <= costs'[p'[d]][c] - u'[p'[d]] - v'[c]
    BY <2>1, <2>2 DEF Left
  <2>4. solving' = "search" => p'[column'] # 0
    BY <1>5, <2>2
  <2> HIDE DEF now
  <2> QED
    BY <1>2, <2>2, <2>3, <2>4 DEF SearchInv, Slack
<1> QED
  BY <1>16, <1>18, <1>19, <1>24, <1>25

-----------------------------------------------------------------------------
\* No step of the solver, and no stuttering, breaks the invariant.
LEMMA SolverStep == SolverInv /\ [SolverNext]_solverVars => SolverInv'
<1> SUFFICES ASSUME SolverInv, [SolverNext]_solverVars PROVE SolverInv'
  OBVIOUS
<1>1. CASE NextRow
  BY <1>1, NextRowPreserves
<1>2. CASE Search
  BY <1>2, SearchPreserves
<1>3. CASE Augment
  BY <1>3, AugmentPreserves
<1>4. ASSUME UNCHANGED solverVars PROVE SolverInv'
  <2> USE <1>4 DEF solverVars, input
  <2>1. Size' = Size /\ Real' = Real /\ Columns' = Columns /\ Holding' = Holding
    BY DEF Size, Real, Columns, Holding
  <2>2. AssignmentTypeOK'
    BY <2>1 DEF SolverInv, AssignmentTypeOK
  <2>3. MatchingInv'
    BY <2>1 DEF SolverInv, MatchingInv
  <2>4. DualInv'
    BY <2>1 DEF SolverInv, DualInv, Slack
  <2>5. PathInv'
    BY <2>1 DEF SolverInv, PathInv, Slack
  <2>6. SearchInv'
    BY <2>1 DEF SolverInv, SearchInv, Slack
  <2> QED
    BY <2>2, <2>3, <2>4, <2>5, <2>6 DEF SolverInv
<1>5. CASE Finished
  BY <1>4, <1>5 DEF Finished
<1> QED
  BY <1>1, <1>2, <1>3, <1>4, <1>5 DEF SolverNext

\* What the solver keeps at every step holds in every reachable state.
LEMMA SolverInvariant == SolverSpec => []SolverInv
  BY InitiallySolverInv, SolverStep, PTL DEF SolverSpec

\* The arrays of solve_min_cost_assignment keep their shapes and no index
\* leaves its array, for schemas of every size.
THEOREM AssignmentTypeSafe == SolverSpec => []AssignmentTypeOK
<1>1. SolverInv => AssignmentTypeOK
  BY DEF SolverInv
<1> QED
  BY <1>1, SolverInvariant, PTL

\* A square matrix whose rows all have a column has no column without a row.
LEMMA NoColumnLeft ==
    ASSUME SolverInv, solving = "done"
    PROVE  /\ \A r \in Real : \E c \in Real : p[c] = r
           /\ \A c, d \in Real : p[c] = p[d] => c = d
           /\ \A c \in Real : p[c] # 0
<1>1. /\ Columns = Real \cup {0} /\ 0 \notin Real /\ 1..row = Real
      /\ Real \subseteq Nat \ {0} /\ Size \in Nat
  BY SizeNat DEF SolverInv, AssignmentTypeOK, MatchingInv, Real
<1>2. Holding = Real
  BY <1>1 DEF SolverInv, MatchingInv, Holding
<1>3. \A r \in Real : \E c \in Real : p[c] = r
  BY <1>1, <1>2 DEF SolverInv, MatchingInv
<1> DEFINE g == [r \in Real |-> CHOOSE c \in Real : p[c] = r]
<1>4. \A r \in Real : g[r] \in Real /\ p[g[r]] = r
  BY <1>3
<1> HIDE DEF g
<1>5. g \in [Real -> Real]
  <2>1. g = [r \in Real |-> CHOOSE c \in Real : p[c] = r]
    BY DEF g
  <2> QED
    BY <1>4, <2>1
<1>6. g \in Injection(Real, Real)
  BY <1>4, <1>5 DEF Injection, IsInjective
<1>7. IsFiniteSet(Real)
  BY <1>1, FS_Interval DEF Real
<1>8. g \in Surjection(Real, Real)
  BY <1>6, <1>7, FS_Injection
<1>9. \A c \in Real : \E r \in Real : g[r] = c
  BY <1>8 DEF Surjection
<1>10. \A c \in Real : p[c] \in Real
  BY <1>4, <1>9
<1>11. \A c \in Real : p[c] # 0
  BY <1>1, <1>10
<1>12. \A c, d \in Real : p[c] = p[d] => c = d
  BY <1>2, <1>11 DEF SolverInv, MatchingInv
<1> QED
  BY <1>3, <1>11, <1>12

\* When the solver returns, every row of the padded matrix has a column and
\* no two columns share a row: assign_unique_targets gives no source two
\* targets and no target two sources.
THEOREM MatchingIsComplete == SolverSpec => []MatchingComplete
<1>1. SolverInv => MatchingComplete
  BY NoColumnLeft DEF MatchingComplete
<1> QED
  BY <1>1, SolverInvariant, PTL

\* Complementary slackness, for schemas and weights of every size: the duals
\* the solver leaves behind are feasible and tight on the pairs it matched,
\* which is what makes the matching one of least cost.
THEOREM DualsAreCertificate == SolverSpec => []DualsCertify
<1>1. SolverInv => DualsCertify
  <2> SUFFICES ASSUME SolverInv PROVE DualsCertify
    OBVIOUS
  <2>1. solving = "done" => Holding \ {0} = Real
    BY SizeNat DEF SolverInv, AssignmentTypeOK, MatchingInv, Holding
  <2>2. solving = "done" => \A c \in Real : p[c] # 0 /\ Slack(p[c], c) = 0
    BY <2>1, NoColumnLeft DEF SolverInv, DualInv
  <2> QED
    BY <2>2 DEF DualsCertify, SolverInv, DualInv
<1> QED
  BY <1>1, SolverInvariant, PTL

-----------------------------------------------------------------------------
(* Sums over finite sets.                                                  *)

\* Induction over the subsets of a finite set, as a fact about a set C of
\* them: S is in C if every subset is whose subsets with one element less are.
LEMMA FiniteInduction ==
    ASSUME NEW S, IsFiniteSet(S), NEW C,
           \A T \in SUBSET S : (\A x \in T : T \ {x} \in C) => T \in C
    PROVE  S \in C
<1> SUFFICES ASSUME S \notin C PROVE FALSE
  OBVIOUS
<1> DEFINE B == {T \in SUBSET S : T \notin C}
<1>1. IsWellFoundedOn(StrictSubsetOrdering(S), SUBSET S)
  <2>1. FiniteSubsetsOf(S) = SUBSET S
    BY FS_FiniteSubsetsOfFinite
  <2>2. IsWellFoundedOn(StrictSubsetOrdering(S), FiniteSubsetsOf(S))
    BY FS_StrictSubsetOrderingWellFounded
  <2> QED
    BY <2>1, <2>2
<1>2. PICK T \in B : \A Y \in B : <<Y, T>> \notin StrictSubsetOrdering(S)
  <2>1. B \subseteq SUBSET S /\ B # {}
    OBVIOUS
  <2> HIDE DEF B
  <2> QED
    BY <1>1, <2>1, WFMin, Zenon
<1>3. \A x \in T : T \ {x} \in C
  <2> SUFFICES ASSUME NEW x \in T, T \ {x} \notin C PROVE FALSE
    OBVIOUS
  <2>1. T \ {x} \in B /\ T \in SUBSET S
    OBVIOUS
  <2>2. <<T \ {x}, T>> \in StrictSubsetOrdering(S)
    BY <2>1 DEF StrictSubsetOrdering
  <2> QED
    BY <1>2, <2>1, <2>2
<1> QED
  BY <1>2, <1>3

\* g gives each subset of S the sum of the weights f of its elements: each
\* element can be taken out first.
IsSum(g, f, S) ==
    /\ g \in [SUBSET S -> Int]
    /\ g[{}] = 0
    /\ \A T \in SUBSET S : \A x \in T : g[T] = f[x] + g[T \ {x}]

\* Integer weights on a finite set can be summed.
LEMMA SumExists ==
    ASSUME NEW S, IsFiniteSet(S), NEW f, \A x \in S : f[x] \in Int
    PROVE  \E g : IsSum(g, f, S)
<1> DEFINE C == {T \in SUBSET S : \E g : IsSum(g, f, T)}
<1>1. ASSUME NEW T \in SUBSET S, \A x \in T : T \ {x} \in C
      PROVE  T \in C
  <2>1. CASE T = {}
    <3> DEFINE g == [s \in SUBSET T |-> 0]
    <3>1. IsSum(g, f, T)
      BY <2>1 DEF IsSum
    <3> QED
      BY <3>1
  <2>2. CASE T # {}
    <3>1. PICK x \in T : TRUE
      BY <2>2
    <3>2. PICK h : IsSum(h, f, T \ {x})
      BY <1>1
    <3> DEFINE g == [s \in SUBSET T |-> IF x \in s THEN f[x] + h[s \ {x}] ELSE h[s]]
    <3>3. /\ \A s \in SUBSET T : x \notin s => s \in SUBSET (T \ {x})
          /\ \A s \in SUBSET T : s \ {x} \in SUBSET (T \ {x})
      OBVIOUS
    <3>4. f[x] \in Int /\ \A s \in SUBSET (T \ {x}) : h[s] \in Int
      BY <3>2 DEF IsSum
    <3>5. g \in [SUBSET T -> Int] /\ g[{}] = 0
      BY <3>2, <3>3, <3>4 DEF IsSum
    <3>6. ASSUME NEW s \in SUBSET T, NEW y \in s
          PROVE  g[s] = f[y] + g[s \ {y}]
      <4>1. CASE x \notin s
        BY <4>1, <3>2, <3>3 DEF IsSum
      <4>2. CASE y = x
        BY <4>2
      <4>3. CASE x \in s /\ y # x
        <5>1. h[s \ {x}] = f[y] + h[(s \ {x}) \ {y}]
          BY <4>3, <3>2, <3>3 DEF IsSum
        <5>2. (s \ {x}) \ {y} = (s \ {y}) \ {x} /\ x \in s \ {y}
          BY <4>3
        <5>3. /\ g[s] = f[x] + h[s \ {x}]
              /\ g[s \ {y}] = f[x] + h[(s \ {y}) \ {x}]
          BY <4>3, <5>2
        <5>4. f[y] \in Int /\ h[(s \ {x}) \ {y}] \in Int
          BY <3>3, <3>4
        <5> DEFINE k == h[(s \ {x}) \ {y}]
        <5>5. g[s] = f[x] + (f[y] + k) /\ g[s \ {y}] = f[x] + k
          BY <5>1, <5>2, <5>3
        <5> HIDE DEF g, k
        <5> QED
          BY <5>4, <5>5, <3>4 DEF k
      <4> QED
        BY <4>1, <4>2, <4>3
    <3> HIDE DEF g
    <3>7. IsSum(g, f, T)
      BY <3>5, <3>6 DEF IsSum
    <3> QED
      BY <3>7
  <2> QED
    BY <2>1, <2>2
<1> HIDE DEF C
<1>2. S \in C
  BY <1>1, FiniteInduction
<1> QED
  BY <1>2 DEF C

\* The fold of the model, which takes its elements out in an order of its own,
\* computes that sum.
LEMMA TotalIsSum ==
    ASSUME NEW S, NEW f, NEW g, IsSum(g, f, S),
           NEW m \in SUBSET S, IsFiniteSet(m),
           \A a \in m : f[a] = score[a[1]][a[2]]
    PROVE  TotalWeight(m) = g[m]
<1> DEFINE pick(s) == CHOOSE x \in s : TRUE
           step(h) == [s \in SUBSET m |->
                          IF s = {} THEN 0
                          ELSE score[pick(s)[1]][pick(s)[2]] + h[s \ {pick(s)}]]
           fold == CHOOSE h : h = step(h)
           sums == [s \in SUBSET m |-> g[s]]
<1>1. TotalWeight(m) = fold[m]
  BY DEF TotalWeight, MapThenSumSet, MapThenFoldSet
<1>2. sums = step(sums)
  <2>1. ASSUME NEW s \in SUBSET m
        PROVE  g[s] = IF s = {} THEN 0
                      ELSE score[pick(s)[1]][pick(s)[2]] + sums[s \ {pick(s)}]
    <3>1. CASE s = {}
      BY <3>1 DEF IsSum
    <3>2. CASE s # {}
      <4>1. pick(s) \in s
        BY <3>2
      <4> HIDE DEF pick
      <4>2. g[s] = f[pick(s)] + g[s \ {pick(s)}]
        BY <4>1 DEF IsSum
      <4>3. sums[s \ {pick(s)}] = g[s \ {pick(s)}]
        OBVIOUS
      <4> QED
        BY <3>2, <4>1, <4>2, <4>3
    <3> QED
      BY <3>1, <3>2
  <2> HIDE DEF pick
  <2> QED
    BY <2>1
<1>3. fold = step(fold)
  <2> HIDE DEF step, sums
  <2> QED
    BY <1>2
<1> HIDE DEF fold, sums
<1> DEFINE C == {T \in SUBSET m : fold[T] = g[T]}
<1>4. ASSUME NEW T \in SUBSET m, \A x \in T : T \ {x} \in C
      PROVE  T \in C
  <2>1. CASE T = {}
    BY <1>3, <2>1 DEF IsSum
  <2>2. CASE T # {}
    <3>1. pick(T) \in T
      BY <2>2
    <3>2. fold[T] = score[pick(T)[1]][pick(T)[2]] + fold[T \ {pick(T)}]
      BY <1>3, <2>2
    <3> HIDE DEF pick
    <3> QED
      BY <1>4, <3>1, <3>2 DEF IsSum
  <2> QED
    BY <2>1, <2>2
<1> HIDE DEF C
<1>5. m \in C
  BY <1>4, FiniteInduction
<1> QED
  BY <1>1, <1>5 DEF C

-----------------------------------------------------------------------------
(* From certificate to optimum.                                            *)

OneToOne(m) == \A k, l \in m : k # l => k[1] # l[1] /\ k[2] # l[2]

\* Weak duality: row weights a and column weights b that cover the weight of
\* every pair bound every matching between equally many rows and columns.
LEMMA WeakDuality ==
    ASSUME NEW R, IsFiniteSet(R),
           NEW w, NEW a, NEW b,
           \A r, c \in R :
              /\ a[r] \in Int /\ b[c] \in Int /\ w[<<r, c>>] \in Int
              /\ 0 <= w[<<r, c>>] /\ w[<<r, c>>] <= a[r] + b[c],
           NEW gw, IsSum(gw, w, R \X R),
           NEW ga, IsSum(ga, a, R),
           NEW gb, IsSum(gb, b, R),
           NEW M \in SUBSET (R \X R), OneToOne(M)
    PROVE  gw[M] <= ga[R] + gb[R]
<1> DEFINE Bound(X, Y, m) ==
              /\ Cardinality(X) = Cardinality(Y)
              /\ m \subseteq X \X Y
              /\ OneToOne(m)
              => gw[m] <= ga[X] + gb[Y]
           C == {X \in SUBSET R :
                    \A Y \in SUBSET R, m \in SUBSET (R \X R) : Bound(X, Y, m)}
<1>1. ASSUME NEW X \in SUBSET R, \A x \in X : X \ {x} \in C
      PROVE  X \in C
  <2> SUFFICES ASSUME NEW Y \in SUBSET R, NEW m \in SUBSET (R \X R),
                      Cardinality(X) = Cardinality(Y),
                      m \subseteq X \X Y, OneToOne(m)
               PROVE  gw[m] <= ga[X] + gb[Y]
    OBVIOUS
  <2>1. /\ IsFiniteSet(X) /\ IsFiniteSet(Y)
        /\ Cardinality(X) \in Nat /\ Cardinality(Y) \in Nat
    BY FS_Subset, FS_CardinalityType
  <2>2. ASSUME NEW x \in X, NEW y \in Y, NEW n \in SUBSET (R \X R),
               n \subseteq (X \ {x}) \X (Y \ {y}), OneToOne(n)
        PROVE  /\ gw[n] <= ga[X \ {x}] + gb[Y \ {y}]
               /\ ga[X] = a[x] + ga[X \ {x}] /\ gb[Y] = b[y] + gb[Y \ {y}]
               /\ gw[n] \in Int /\ ga[X \ {x}] \in Int /\ gb[Y \ {y}] \in Int
    <3>1. Cardinality(X \ {x}) = Cardinality(Y \ {y})
      <4>1. Cardinality(X \ {x}) = Cardinality(X) - 1
        BY <2>1, FS_RemoveElement
      <4>2. Cardinality(Y \ {y}) = Cardinality(Y) - 1
        BY <2>1, FS_RemoveElement
      <4> QED
        BY <4>1, <4>2
    <3>2. X \ {x} \in C /\ Y \ {y} \in SUBSET R
      BY <1>1
    <3> QED
      BY <2>2, <3>1, <3>2 DEF IsSum
  <2>3. CASE m # {}
    <3>1. PICK k \in m : TRUE
      BY <2>3
    <3>2. k = <<k[1], k[2]>> /\ k[1] \in X /\ k[2] \in Y
      BY <3>1
    <3> DEFINE n == m \ {k}
    <3>3. n \in SUBSET (R \X R) /\ OneToOne(n)
      BY DEF OneToOne
    <3>4. n \subseteq (X \ {k[1]}) \X (Y \ {k[2]})
      BY <3>1 DEF OneToOne
    <3>5. gw[m] = w[k] + gw[n]
      BY <3>1 DEF IsSum
    <3> HIDE DEF n
    <3>6. /\ gw[n] <= ga[X \ {k[1]}] + gb[Y \ {k[2]}]
          /\ ga[X] = a[k[1]] + ga[X \ {k[1]}]
          /\ gb[Y] = b[k[2]] + gb[Y \ {k[2]}]
          /\ gw[n] \in Int /\ ga[X \ {k[1]}] \in Int /\ gb[Y \ {k[2]}] \in Int
      BY <2>2, <3>2, <3>3, <3>4
    <3>7. /\ w[k] <= a[k[1]] + b[k[2]]
          /\ w[k] \in Int /\ a[k[1]] \in Int /\ b[k[2]] \in Int
      BY <3>2
    <3> QED
      BY <3>5, <3>6, <3>7
  <2>4. CASE m = {} /\ X # {}
    <3>1. Y # {}
      BY <2>1, <2>4, FS_EmptySet
    <3>2. PICK x \in X, y \in Y : TRUE
      BY <2>4, <3>1
    <3>3. OneToOne(m) /\ gw[m] = 0 /\ m \subseteq (X \ {x}) \X (Y \ {y})
      BY <2>4 DEF IsSum
    <3>4. /\ 0 <= ga[X \ {x}] + gb[Y \ {y}]
          /\ ga[X] = a[x] + ga[X \ {x}] /\ gb[Y] = b[y] + gb[Y \ {y}]
          /\ ga[X \ {x}] \in Int /\ gb[Y \ {y}] \in Int
      BY <2>2, <3>3
    <3>5. /\ a[x] \in Int /\ b[y] \in Int /\ w[<<x, y>>] \in Int
          /\ 0 <= w[<<x, y>>] /\ w[<<x, y>>] <= a[x] + b[y]
      OBVIOUS
    <3> QED
      BY <3>3, <3>4, <3>5
  <2>5. CASE m = {} /\ X = {}
    <3>1. Y = {}
      BY <2>1, <2>5, FS_EmptySet
    <3> QED
      BY <2>5, <3>1 DEF IsSum
  <2> QED
    BY <2>3, <2>4, <2>5
<1>2. R \in C
  <2> HIDE DEF C
  <2> QED
    BY <1>1, FiniteInduction
<1> QED
  BY <1>2

\* F are the pairs of E that q, a bijection of columns and rows, matches; the
\* cover a, b is tight on them and costs nothing where q matches no pair of E.
TightOn(R, q, E, F, w, a, b) ==
    /\ \A c \in R : q[c] \in R
    /\ \A r \in R : \E c \in R : q[c] = r
    /\ \A c, d \in R : q[c] = q[d] => c = d
    /\ E \in SUBSET (R \X R)
    /\ F = {m \in E : q[m[2]] = m[1]}
    /\ \A c \in R : a[c] \in Int /\ b[c] \in Int
    /\ \A c \in R : <<q[c], c>> \in E => w[<<q[c], c>>] = a[q[c]] + b[c]
    /\ \A c \in R : <<q[c], c>> \notin E => a[q[c]] + b[c] = 0

\* Strong duality: the pairs a cover is tight on weigh as much as the cover.
LEMMA TightCover ==
    ASSUME NEW R, IsFiniteSet(R),
           NEW q, NEW E, NEW F, NEW w, NEW a, NEW b, TightOn(R, q, E, F, w, a, b),
           NEW gw, IsSum(gw, w, R \X R),
           NEW ga, IsSum(ga, a, R),
           NEW gb, IsSum(gb, b, R)
    PROVE  gw[F] = ga[R] + gb[R]
<1> USE DEF TightOn
<1> DEFINE Edges(Y) == {m \in E : m[2] \in Y /\ q[m[2]] = m[1]}
           Rows(Y) == {q[c] : c \in Y}
           C == {Y \in SUBSET R : gw[Edges(Y)] = ga[Rows(Y)] + gb[Y]}
<1>1. ASSUME NEW Y \in SUBSET R, \A y \in Y : Y \ {y} \in C
      PROVE  Y \in C
  <2>1. CASE Y = {}
    <3>1. Edges(Y) = {} /\ Rows(Y) = {}
      BY <2>1
    <3>2. gw[Edges(Y)] = 0 /\ ga[Rows(Y)] = 0 /\ gb[Y] = 0
      BY <2>1, <3>1, Zenon DEF IsSum
    <3> QED
      BY <3>2
  <2>2. CASE Y # {}
    <3>1. PICK y \in Y : TRUE
      BY <2>2
    <3> DEFINE Z == Y \ {y}
               k == <<q[y], y>>
    <3>2. Rows(Y) \in SUBSET R /\ q[y] \in Rows(Y) /\ Rows(Y) \ {q[y]} = Rows(Z)
      OBVIOUS
    <3>3. Edges(Y) \in SUBSET (R \X R)
      OBVIOUS
    <3>4. k \in E => k \in Edges(Y) /\ Edges(Y) \ {k} = Edges(Z)
      <4>1. \A m \in E : m = <<m[1], m[2]>>
        OBVIOUS
      <4> QED
        BY <4>1
    <3>5. k \notin E => Edges(Y) = Edges(Z)
      <4>1. \A m \in E : m = <<m[1], m[2]>>
        OBVIOUS
      <4> QED
        BY <4>1
    <3>6. gw[Edges(Z)] = ga[Rows(Z)] + gb[Z]
      BY <1>1
    <3>7. Rows(Z) \in SUBSET R /\ Z \in SUBSET R /\ Edges(Z) \in SUBSET (R \X R)
      OBVIOUS
    <3> HIDE DEF Edges, Rows, Z, k
    <3>8. /\ ga[Rows(Y)] = a[q[y]] + ga[Rows(Z)]
          /\ ga[Rows(Z)] \in Int /\ gb[Z] \in Int /\ gw[Edges(Z)] \in Int
      <4>1. ga[Rows(Y)] = a[q[y]] + ga[Rows(Y) \ {q[y]}]
        BY <3>2 DEF IsSum
      <4>2. ga[Rows(Z)] \in Int
        BY <3>7 DEF IsSum
      <4>3. gb[Z] \in Int
        BY <3>7 DEF IsSum
      <4>4. gw[Edges(Z)] \in Int
        BY <3>7 DEF IsSum
      <4> QED
        BY <3>2, <4>1, <4>2, <4>3, <4>4
    <3>9. gb[Y] = b[y] + gb[Z]
      BY DEF IsSum, Z
    <3>10. a[q[y]] \in Int /\ b[y] \in Int
      OBVIOUS
    <3>11. CASE k \in E
      <4>1. gw[Edges(Y)] = w[k] + gw[Edges(Z)]
        <5>1. gw[Edges(Y)] = w[k] + gw[Edges(Y) \ {k}]
          BY <3>3, <3>4, <3>11 DEF IsSum
        <5> QED
          BY <3>4, <3>11, <5>1
      <4>2. w[k] = a[q[y]] + b[y]
        BY <3>11 DEF k
      <4> QED
        BY <3>6, <3>8, <3>9, <3>10, <4>1, <4>2
    <3>12. CASE k \notin E
      <4>1. gw[Edges(Y)] = gw[Edges(Z)]
        BY <3>5, <3>12
      <4>2. a[q[y]] + b[y] = 0
        BY <3>12 DEF k
      <4> QED
        BY <3>6, <3>8, <3>9, <3>10, <4>1, <4>2
    <3> QED
      BY <3>11, <3>12
  <2> QED
    BY <2>1, <2>2
<1>2. R \in C
  <2> HIDE DEF C
  <2> QED
    BY <1>1, FiniteInduction
<1>3. Edges(R) = F /\ Rows(R) = R
  OBVIOUS
<1> QED
  BY <1>2, <1>3

\* What the solver is given does not change: the scores of the rankings and
\* the costs made of them.
InputInv == score \in Scores(sources, targets) /\ CostsOf

\* The scores and the costs stay as they were set up.
LEMMA InputStep == InputInv /\ [SolverNext]_solverVars => InputInv'
<1> SUFFICES ASSUME InputInv, [SolverNext]_solverVars PROVE InputInv'
  OBVIOUS
<1>1. UNCHANGED input
  BY DEF SolverNext, NextRow, Search, Augment, Finished, solverVars
<1>2. /\ sources' = sources /\ targets' = targets /\ score' = score
      /\ costs' = costs /\ Real' = Real
  BY <1>1 DEF input, Real, Size
<1>3. \A r, c : CellWeight(r, c)' = CellWeight(r, c)
  BY <1>2 DEF CellWeight, Scored
<1>4. Largest' = Largest
  BY <1>2, <1>3 DEF Largest
<1>5. CostsOf'
  BY <1>2, <1>3, <1>4 DEF InputInv, CostsOf
<1> QED
  BY <1>2, <1>5 DEF InputInv, Scores

\* They are the ones of the start in every reachable state.
LEMMA InputInvariant == SolverSpec => []InputInv
<1>1. SolverInit => InputInv
  BY DEF SolverInit, InputInv
<1> QED
  BY <1>1, InputStep, PTL DEF SolverSpec

\* The duals certify the returned pairs: none is left out that is worth
\* anything, and no other matching outweighs what they add up to.
LEMMA CertificateIsBest == SolverInv /\ InputInv => BestTotal
<1> SUFFICES ASSUME SolverInv, InputInv, solving = "done", NEW m \in Matchings
             PROVE  TotalWeight(m) <= TotalWeight(Assigned)
  BY DEF BestTotal
<1>1. /\ sources \in Nat \ {0} /\ targets \in Nat \ {0}
      /\ Size \in Nat \ {0} /\ sources <= Size /\ targets <= Size
      /\ Real = 1..Size /\ 0 \notin Real
  BY SizeNat DEF SolverInv, AssignmentTypeOK, Size, Real
<1>2. IsFiniteSet(Real) /\ IsFiniteSet(Real \X Real)
  <2>1. IsFiniteSet(Real)
    BY <1>1, FS_Interval
  <2> QED
    BY <2>1, FS_Product
<1>3. PICK top \in Largest :
          costs = [r \in Real |-> [c \in Real |-> top - CellWeight(r, c)]]
  BY DEF InputInv, CostsOf
<1>4. \A r, c \in Real : CellWeight(r, c) \in Nat
  <2> SUFFICES ASSUME NEW r \in Real, NEW c \in Real, Scored(r, c)
               PROVE  score[r][c] \in Nat
    BY DEF CellWeight
  <2>1. r \in 1..sources /\ c \in 1..targets
    BY <1>1 DEF Scored
  <2>2. score \in [1..sources -> [1..targets -> Weights \cup {NoScore}]]
    BY DEF InputInv, Scores
  <2> QED
    BY <2>1, <2>2 DEF Scored
<1>5. top \in Int
  BY <1>3 DEF Largest
<1> DEFINE w == [k \in Real \X Real |-> CellWeight(k[1], k[2])]
           a == [r \in Real |-> top - u[r]]
           b == [c \in Real |-> 0 - v[c]]
<1>6. /\ \A k \in Real \X Real : w[k] \in Int
      /\ \A r, c \in Real : w[<<r, c>>] = CellWeight(r, c)
      /\ \A r \in Real : a[r] \in Int /\ a[r] = top - u[r]
      /\ \A c \in Real : b[c] \in Int /\ b[c] = 0 - v[c]
  <2>1. \A r \in Real : u[r] \in Int /\ v[r] \in Int
    BY SizeNat DEF SolverInv, AssignmentTypeOK
  <2> QED
    BY <1>4, <1>5, <2>1
<1> HIDE DEF w, a, b
<1>7. \A r, c \in Real : Slack(r, c) = (a[r] + b[c]) - w[<<r, c>>]
  <2> SUFFICES ASSUME NEW r \in Real, NEW c \in Real
               PROVE  Slack(r, c) = (a[r] + b[c]) - w[<<r, c>>]
    OBVIOUS
  <2>1. costs[r][c] = top - CellWeight(r, c)
    BY <1>3
  <2>2. u[r] \in Int /\ v[c] \in Int
    BY SizeNat DEF SolverInv, AssignmentTypeOK
  <2> QED
    BY <1>4, <1>5, <1>6, <2>1, <2>2 DEF Slack
<1>8. PICK gw : IsSum(gw, w, Real \X Real)
  BY <1>2, <1>6, SumExists
<1>9. PICK ga : IsSum(ga, a, Real)
  BY <1>2, <1>6, SumExists
<1>10. PICK gb : IsSum(gb, b, Real)
  BY <1>2, <1>6, SumExists
<1>11. \A n \in SUBSET Pairs : TotalWeight(n) = gw[n]
  <2> SUFFICES ASSUME NEW n \in SUBSET Pairs PROVE TotalWeight(n) = gw[n]
    OBVIOUS
  <2>1. n \in SUBSET (Real \X Real)
    BY <1>1 DEF Pairs
  <2>2. \A k \in n : w[k] = score[k[1]][k[2]]
    BY <2>1 DEF Pairs, CellWeight, w
  <2>3. IsFiniteSet(n)
    BY <1>2, <2>1, FS_Subset
  <2> QED
    BY <1>8, <2>1, <2>2, <2>3, TotalIsSum
<1>12. gw[m] <= ga[Real] + gb[Real]
  <2>1. m \in SUBSET (Real \X Real) /\ OneToOne(m)
    BY <1>1 DEF Matchings, Pairs, OneToOne
  <2>2. \A r, c \in Real :
            /\ a[r] \in Int /\ b[c] \in Int /\ w[<<r, c>>] \in Int
            /\ 0 <= w[<<r, c>>] /\ w[<<r, c>>] <= a[r] + b[c]
    <3> SUFFICES ASSUME NEW r \in Real, NEW c \in Real
                 PROVE  /\ a[r] \in Int /\ b[c] \in Int /\ w[<<r, c>>] \in Int
                        /\ 0 <= w[<<r, c>>] /\ w[<<r, c>>] <= a[r] + b[c]
      OBVIOUS
    <3>1. a[r] \in Int /\ b[c] \in Int /\ w[<<r, c>>] \in Nat
      BY <1>4, <1>6
    <3>2. Slack(r, c) = (a[r] + b[c]) - w[<<r, c>>]
      BY <1>7
    <3>3. Slack(r, c) >= 0
      BY DEF SolverInv, DualInv
    <3> QED
      BY <3>1, <3>2, <3>3
  <2> QED
    BY <1>2, <1>8, <1>9, <1>10, <2>1, <2>2, WeakDuality
<1>13. gw[Assigned] = ga[Real] + gb[Real]
  <2>1. /\ \A r \in Real : \E c \in Real : p[c] = r
        /\ \A c, d \in Real : p[c] = p[d] => c = d
        /\ \A c \in Real : p[c] \in Real
    <3>1. \A c \in Real : p[c] \in Columns
      BY SizeNat DEF SolverInv, AssignmentTypeOK
    <3> QED
      BY <3>1, NoColumnLeft, SizeNat DEF SolverInv, AssignmentTypeOK
  <2>2. Pairs \in SUBSET (Real \X Real)
    BY <1>1 DEF Pairs
  <2>3. Assigned = {k \in Pairs : p[k[2]] = k[1]}
    BY DEF Assigned, Pairs
  <2>4. /\ \A c \in Real : <<p[c], c>> \in Pairs => w[<<p[c], c>>] = a[p[c]] + b[c]
        /\ \A c \in Real : <<p[c], c>> \notin Pairs => a[p[c]] + b[c] = 0
    <3> SUFFICES ASSUME NEW c \in Real
                 PROVE  /\ w[<<p[c], c>>] = a[p[c]] + b[c]
                        /\ <<p[c], c>> \notin Pairs => w[<<p[c], c>>] = 0
      OBVIOUS
    <3>1. p[c] \in Real /\ p[c] # 0
      BY <1>1, <2>1
    <3>2. Holding = Real
      BY SizeNat DEF SolverInv, AssignmentTypeOK, MatchingInv, Holding
    <3>3. Slack(p[c], c) = 0
      BY <1>1, <3>1, <3>2 DEF SolverInv, DualInv
    <3>4. w[<<p[c], c>>] = a[p[c]] + b[c]
      <4>1. /\ w[<<p[c], c>>] \in Int /\ a[p[c]] \in Int /\ b[c] \in Int
        BY <1>4, <1>6, <3>1
      <4>2. Slack(p[c], c) = (a[p[c]] + b[c]) - w[<<p[c], c>>]
        BY <1>7, <3>1
      <4> QED
        BY <3>3, <4>1, <4>2
    <3>5. ASSUME <<p[c], c>> \notin Pairs PROVE w[<<p[c], c>>] = 0
      <4>1. ~Scored(p[c], c)
        BY <1>1, <3>1, <3>5 DEF Pairs, Scored
      <4> QED
        BY <1>6, <3>1, <4>1 DEF CellWeight
    <3> QED
      BY <3>4, <3>5
  <2>5. \A r, c \in Real : a[r] \in Int /\ b[c] \in Int
    BY <1>6
  <2>6. TightOn(Real, p, Pairs, Assigned, w, a, b)
    BY <2>1, <2>2, <2>3, <2>4, <2>5 DEF TightOn
  <2> QED
    BY <1>2, <1>8, <1>9, <1>10, <2>6, TightCover
<1>14. m \in SUBSET Pairs /\ Assigned \in SUBSET Pairs
  BY DEF Matchings, Assigned, Pairs
<1> QED
  BY <1>11, <1>12, <1>13, <1>14

\* Whatever the schema and the weights, assign_unique_targets returns a
\* matching of ranked pairs that no other matching of them outweighs: padding
\* and the pairs dropped for want of a score cost nothing.
THEOREM AssignmentIsBest == SolverSpec => []BestTotal
  BY CertificateIsBest, SolverInvariant, InputInvariant, PTL

-----------------------------------------------------------------------------
(* Progress.  That the solver returns is a liveness property, which TLC     *)
(* checks; what it rests on is proved here: a search always finds a next   *)
(* column, and every pass brings the end nearer.                           *)

\* A nonempty finite set of columns has a first one among the nearest.
LEMMA NearestExists ==
    ASSUME NEW S, IsFiniteSet(S), S # {}, S \subseteq Real,
           \A c \in Real : c \in Int, \A c \in S : Relaxed[c] \in Int
    PROVE  \E c \in S : Nearest(c, S)
<1> DEFINE d(c) == Relaxed[c]
           C == {T \in SUBSET S : T = {} \/ \E c \in T : Nearest(c, T)}
<1>1. \A c \in S : d(c) \in Int /\ c \in Int
  OBVIOUS
<1>2. \A c, T : Nearest(c, T) <=>
          /\ c \in T
          /\ \A e \in T : d(c) <= d(e)
          /\ \A e \in T : d(c) = d(e) => c <= e
  BY DEF Nearest
<1> HIDE DEF d
<1>3. ASSUME NEW T \in SUBSET S, \A x \in T : T \ {x} \in C
      PROVE  T \in C
  <2>1. CASE T = {}
    BY <2>1
  <2>2. CASE T # {}
    <3>1. PICK x \in T : TRUE
      BY <2>2
    <3>2. CASE T \ {x} = {}
      <4>1. \A e \in T : e = x
        BY <3>2
      <4>2. Nearest(x, T)
        BY <1>1, <1>2, <3>1, <4>1
      <4> QED
        BY <3>1, <4>2
    <3>3. CASE T \ {x} # {}
      <4>1. PICK c \in T \ {x} : Nearest(c, T \ {x})
        BY <1>3, <3>1, <3>3
      <4>2. /\ \A e \in T \ {x} : d(c) <= d(e)
            /\ \A e \in T \ {x} : d(c) = d(e) => c <= e
        BY <1>2, <4>1
      <4>3. \A e \in T : e = x \/ e \in T \ {x}
        OBVIOUS
      <4>4. CASE d(x) < d(c) \/ (d(x) = d(c) /\ x <= c)
        <5>1. \A e \in T : d(x) <= d(e)
          BY <1>1, <4>2, <4>3, <4>4
        <5>2. \A e \in T : d(x) = d(e) => x <= e
          BY <1>1, <4>2, <4>3, <4>4
        <5>3. Nearest(x, T)
          BY <1>2, <5>1, <5>2
        <5> QED
          BY <5>3
      <4>5. CASE d(c) < d(x) \/ (d(x) = d(c) /\ c <= x)
        <5>1. \A e \in T : d(c) <= d(e)
          BY <1>1, <4>2, <4>3, <4>5
        <5>2. \A e \in T : d(c) = d(e) => c <= e
          BY <1>1, <4>2, <4>3, <4>5
        <5>3. Nearest(c, T)
          BY <1>2, <5>1, <5>2
        <5> QED
          BY <5>3
      <4> QED
        BY <1>1, <4>4, <4>5
    <3> QED
      BY <3>2, <3>3
  <2> QED
    BY <2>1, <2>2
<1> HIDE DEF C
<1>4. S \in C
  BY <1>3, FiniteInduction
<1> QED
  BY <1>4 DEF C

\* The columns of the search tree and the column under treatment hold distinct
\* rows, so a column is left that is none of them.
LEMMA UnusedColumn ==
    ASSUME SolverInv, solving = "search"
    PROVE  Real \ (used \cup {column}) # {}
<1> SUFFICES ASSUME Real \subseteq used \cup {column} PROVE FALSE
  OBVIOUS
<1>1. /\ Size \in Nat \ {0} /\ Real = 1..Size /\ Columns = 0..Size
      /\ row \in Columns /\ p \in [Columns -> Columns]
  BY SizeNat DEF SolverInv, AssignmentTypeOK, Real, Columns
<1>2. /\ used = above[column] /\ p[column] # 0
      /\ \A c \in above[column] : p[c] # 0
      /\ \A c \in (above[column] \cup {column}) \ {0} : 0 \in above[c]
      /\ \A c \in above[column] \cup {column} : above[c] \subseteq above[column]
      /\ p[0] = row
  BY DEF SolverInv, SearchInv, PathInv, MatchingInv
<1>3. \A c \in Columns : p[c] # 0
  <2>1. \A c \in Real : p[c] # 0
    BY <1>2
  <2>2. row # 0
    BY DEF SolverInv, MatchingInv
  <2> QED
    BY <1>1, <1>2, <2>1, <2>2
<1>4. Holding = Columns
  BY DEF Holding
<1>5. \A c, d \in Columns : p[c] = p[d] => c = d
  BY <1>3, <1>4 DEF SolverInv, MatchingInv
<1>6. p \in [Columns -> Real]
  BY <1>1, <1>3
<1>7. IsFiniteSet(Real) /\ IsFiniteSet(Columns)
      /\ Cardinality(Real) = Size /\ Cardinality(Columns) = Size + 1
  BY <1>1, FS_Interval
<1>8. Cardinality(Real) < Cardinality(Columns)
  BY <1>1, <1>7
<1>9. \E c, d \in Columns : c # d /\ p[c] = p[d]
  BY <1>6, <1>7, <1>8, FS_PigeonHole
<1> QED
  BY <1>5, <1>9

\* The search loop of solve_min_cost_assignment always finds its next column:
\* delta is finite after every pass.
THEOREM SearchFindsColumn ==
    SolverSpec => [](solving = "search" =>
                        \E c : Nearest(c, Real \ (used \cup {column})))
<1>1. ASSUME SolverInv, solving = "search"
      PROVE  \E c : Nearest(c, Real \ (used \cup {column}))
  <2> DEFINE S == Real \ (used \cup {column})
  <2>1. /\ Size \in Nat \ {0} /\ Real = 1..Size /\ Columns = Real \cup {0}
        /\ costs \in [Real -> [Real -> Int]] /\ p \in [Columns -> Columns]
        /\ u \in [Columns -> Int] /\ v \in [Columns -> Int]
        /\ minv \in [Real -> Int] /\ column \in Columns
    BY <1>1, SizeNat DEF SolverInv, AssignmentTypeOK, Real
  <2>2. S # {} /\ IsFiniteSet(S) /\ S \subseteq Real /\ \A c \in Real : c \in Int
    <3>1. IsFiniteSet(Real)
      BY <2>1, FS_Interval
    <3>2. IsFiniteSet(S)
      BY <3>1, FS_Difference
    <3>3. S # {}
      BY <1>1, UnusedColumn
    <3>4. \A c \in Real : c \in Int
      BY <2>1
    <3> QED
      BY <3>2, <3>3, <3>4
  <2>3. \A c \in S : Relaxed[c] \in Int
    <3> SUFFICES ASSUME NEW c \in S PROVE Relaxed[c] \in Int
      OBVIOUS
    <3>0. c \in Real /\ c \in Columns
      BY <2>1
    <3>1. p[column] \in Real
      <4>1. p[column] # 0
        BY <1>1 DEF SolverInv, SearchInv
      <4> QED
        BY <2>1, <4>1
    <3>2. Slack(p[column], c) \in Int
      <4>1. /\ costs[p[column]][c] \in Int /\ u[p[column]] \in Int /\ v[c] \in Int
        <5>1. p[column] \in Columns /\ c \in Columns
          BY <2>1, <3>0
        <5>2. u[p[column]] \in Int /\ v[c] \in Int
          BY <2>1, <5>1
        <5>3. costs[p[column]] \in [Real -> Int]
          BY <2>1, <3>1
        <5> QED
          BY <3>0, <5>2, <5>3
      <4> QED
        BY <4>1 DEF Slack
    <3>3. minv[c] \in Int
      BY <2>1
    <3> QED
      BY <3>2, <3>3 DEF Relaxed
  <2> HIDE DEF S
  <2>4. \E c \in S : Nearest(c, S)
    BY <2>2, <2>3, NearestExists
  <2> QED
    BY <2>4 DEF S
<1>2. SolverInv => (solving = "search" =>
                       \E c : Nearest(c, Real \ (used \cup {column})))
  BY <1>1
<1> QED
  BY <1>2, SolverInvariant, PTL

\* How many passes of its loops the solver can still make: for each row left
\* at most one for each column of the padded matrix, and as many back.
PassesOfRow == 2 * Size + 4

PassesLeft ==
    CASE solving = "row" -> (Size - row) * PassesOfRow + 1
      [] solving = "search" ->
            (Size - row) * PassesOfRow + (Size + 1 - Cardinality(used)) + (Size + 2)
      [] solving = "augment" ->
            (Size - row) * PassesOfRow + Cardinality(above[column]) + 1
      [] OTHER -> 0

\* What the pass counts are counted in.
LEMMA CountsAreNat ==
    ASSUME SolverInv
    PROVE  /\ Size \in Nat \ {0} /\ row \in 0..Size
           /\ PassesOfRow = 2 * Size + 4
           /\ (Size - row) * PassesOfRow \in Nat
           /\ \A S \in SUBSET Columns :
                 /\ IsFiniteSet(S) /\ Cardinality(S) \in 0..Size + 1
                 /\ \A T \in SUBSET S : T # S => Cardinality(T) < Cardinality(S)
<1>1. Size \in Nat \ {0} /\ row \in 0..Size /\ Columns = 0..Size
  BY SizeNat DEF SolverInv, AssignmentTypeOK, Columns
<1>2. (Size - row) * PassesOfRow \in Nat
  <2> DEFINE a == Size - row
             b == 2 * Size + 4
  <2>1. a \in Nat /\ b \in Nat
    BY <1>1
  <2> HIDE DEF a, b
  <2>2. a * b \in Nat
    BY <2>1
  <2> QED
    BY <2>2 DEF a, b, PassesOfRow
<1>3. IsFiniteSet(Columns) /\ Cardinality(Columns) = Size + 1
  BY <1>1, FS_Interval
<1>4. \A S \in SUBSET Columns :
         IsFiniteSet(S) /\ Cardinality(S) <= Size + 1 /\ Cardinality(S) \in Nat
  BY <1>3, FS_Subset, FS_CardinalityType
<1>5. ASSUME NEW S \in SUBSET Columns, NEW T \in SUBSET S, T # S
      PROVE  Cardinality(T) < Cardinality(S)
  BY <1>4, <1>5, FS_Subset, FS_CardinalityType
<1> QED
  BY <1>1, <1>2, <1>4, <1>5 DEF PassesOfRow

\* They are never more than those of all the rows.
LEMMA PassesBounded == SolverInv => PassesLeft \in 0..Size * PassesOfRow + 1
<1> SUFFICES ASSUME SolverInv PROVE PassesLeft \in 0..Size * PassesOfRow + 1
  OBVIOUS
<1> DEFINE left == (Size - row) * PassesOfRow
<1>1. /\ Size \in Nat \ {0} /\ row \in 0..Size /\ left \in Nat
      /\ PassesOfRow = 2 * Size + 4
  BY CountsAreNat
<1>2. /\ left + row * PassesOfRow = Size * PassesOfRow
      /\ row * PassesOfRow \in Nat
      /\ row # 0 => row * PassesOfRow >= PassesOfRow
  <2>1. \A a, b, k \in Nat : a <= b =>
           /\ (b - a) * k + a * k = b * k /\ a * k \in Nat
           /\ a # 0 => a * k >= k
    OBVIOUS
  <2> QED
    BY <1>1, <2>1
<1>3. /\ Cardinality(used) \in 0..Size + 1
      /\ Cardinality(above[column]) \in 0..Size + 1
  <2>1. used \in SUBSET Columns /\ above[column] \in SUBSET Columns
    BY DEF SolverInv, AssignmentTypeOK
  <2> QED
    BY <2>1, CountsAreNat
<1>4. solving \in {"search", "augment"} => row # 0
  BY DEF SolverInv, MatchingInv
<1>5. /\ solving = "row" => PassesLeft = left + 1
      /\ solving = "search" =>
            PassesLeft = left + (Size + 1 - Cardinality(used)) + (Size + 2)
      /\ solving = "augment" => PassesLeft = left + Cardinality(above[column]) + 1
      /\ solving \notin {"row", "search", "augment"} => PassesLeft = 0
  BY DEF PassesLeft
<1> DEFINE done == row * PassesOfRow
           all == Size * PassesOfRow
<1>6. /\ left + done = all /\ done \in Nat
      /\ row # 0 => done >= PassesOfRow
  BY <1>2
<1> HIDE DEF left, done, all
<1>7. PassesLeft \in Int /\ 0 <= PassesLeft /\ PassesLeft <= all + 1
  <2>1. CASE solving = "row"
    BY <1>1, <1>5, <1>6, <2>1
  <2>2. CASE solving = "search"
    <3> DEFINE k == Cardinality(used)
    <3>1. k \in 0..Size + 1 /\ PassesLeft = left + (Size + 1 - k) + (Size + 2)
      BY <1>3, <1>5, <2>2
    <3>2. done >= 2 * Size + 4
      BY <1>1, <1>4, <1>6, <2>2
    <3> HIDE DEF k
    <3> QED
      BY <1>1, <1>6, <3>1, <3>2
  <2>3. CASE solving = "augment"
    <3> DEFINE k == Cardinality(above[column])
    <3>1. k \in 0..Size + 1 /\ PassesLeft = left + k + 1
      BY <1>3, <1>5, <2>3
    <3>2. done >= 2 * Size + 4
      BY <1>1, <1>4, <1>6, <2>3
    <3> HIDE DEF k
    <3> QED
      BY <1>1, <1>6, <3>1, <3>2
  <2>4. CASE solving \notin {"row", "search", "augment"}
    BY <1>1, <1>5, <1>6, <2>4
  <2> QED
    BY <2>1, <2>2, <2>3, <2>4
<1> QED
  BY <1>1, <1>6, <1>7 DEF all

\* A pass leaves one less.
LEMMA PassStep ==
    ASSUME SolverInv, NextRow \/ Search \/ Augment
    PROVE  PassesLeft' < PassesLeft
<1> DEFINE left == (Size - row) * PassesOfRow
<1>1. /\ Size \in Nat \ {0} /\ row \in 0..Size /\ left \in Nat
      /\ PassesOfRow = 2 * Size + 4
  BY CountsAreNat
<1>2. Size' = Size /\ Columns' = Columns /\ PassesOfRow' = PassesOfRow
  <2>1. UNCHANGED input
    BY DEF NextRow, Search, Augment
  <2> QED
    BY <2>1 DEF input, Size, Columns, PassesOfRow
<1>3. used \in SUBSET Columns /\ above[column] \in SUBSET Columns
  BY DEF SolverInv, AssignmentTypeOK
<1>4. CASE NextRow /\ RowLeft
  <2>1. /\ solving = "row" /\ solving' = "search" /\ row' = row + 1 /\ used' = {}
        /\ row < Size
    BY <1>4 DEF NextRow, RowLeft
  <2>2. Cardinality(used') = 0
    BY <2>1, FS_EmptySet
  <2>3. (Size - (row + 1)) * PassesOfRow = left - PassesOfRow
    <3>1. \A a, b, k \in Nat : a < b => (b - (a + 1)) * k = (b - a) * k - k
      OBVIOUS
    <3> QED
      BY <1>1, <2>1, <3>1
  <2>4. PassesLeft' = (left - PassesOfRow) + (Size + 1) + (Size + 2)
    BY <1>1, <1>2, <2>1, <2>2, <2>3 DEF PassesLeft
  <2>5. PassesLeft = left + 1
    BY <2>1 DEF PassesLeft
  <2> HIDE DEF left
  <2> QED
    BY <1>1, <2>4, <2>5
<1>5. CASE NextRow /\ ~RowLeft
  <2>1. solving = "row" /\ solving' = "done"
    BY <1>5 DEF NextRow
  <2>2. PassesLeft = left + 1 /\ PassesLeft' = 0
    BY <2>1 DEF PassesLeft
  <2> QED
    BY <1>1, <2>2
<1>6. CASE Search
  <2> DEFINE now == used \cup {column}
  <2>1. PICK next \in Real \ now :
            /\ used' = now /\ column' = next
            /\ above' = [above EXCEPT ![next] = now]
            /\ solving' = IF p[next] = 0 THEN "augment" ELSE "search"
    BY <1>6 DEF Search
  <2>2. solving = "search" /\ row' = row
    BY <1>6 DEF Search
  <2>3. column \in Columns /\ column \notin used /\ next \in Columns
    <3>1. used = above[column] /\ column \notin above[column]
      BY <2>2 DEF SolverInv, SearchInv, PathInv
    <3> QED
      BY <3>1, SizeNat DEF SolverInv, AssignmentTypeOK
  <2>4. /\ now \in SUBSET Columns /\ now # used /\ used \in SUBSET now
        /\ now # Columns
    BY <1>3, <2>1, <2>3
  <2>5. /\ Cardinality(now) \in 0..Size + 1 /\ Cardinality(used) \in 0..Size + 1
        /\ Cardinality(used) < Cardinality(now)
    BY <1>3, <2>4, CountsAreNat
  <2>6. Cardinality(now) <= Size
    <3>1. Columns \in SUBSET Columns /\ now \in SUBSET Columns
      BY <2>4
    <3>2. /\ Cardinality(now) < Cardinality(Columns)
          /\ Cardinality(Columns) \in 0..Size + 1
      BY <2>4, <3>1, CountsAreNat
    <3> QED
      BY <1>1, <2>5, <3>2
  <2>7. above'[column'] = now
    BY <2>1, <2>3 DEF SolverInv, AssignmentTypeOK
  <2>8. PassesLeft = left + (Size + 1 - Cardinality(used)) + (Size + 2)
    BY <2>2 DEF PassesLeft
  <2>9. \/ PassesLeft' = left + (Size + 1 - Cardinality(now)) + (Size + 2)
        \/ PassesLeft' = left + Cardinality(now) + 1
    BY <1>2, <2>1, <2>2, <2>7 DEF PassesLeft
  <2> HIDE DEF left, now
  <2> QED
    BY <1>1, <2>5, <2>6, <2>8, <2>9
<1>7. CASE Augment
  <2>1. /\ solving = "augment" /\ column' = way[column] /\ row' = row
        /\ solving' = IF way[column] = 0 THEN "row" ELSE "augment"
        /\ above' = above
    BY <1>7 DEF Augment
  <2>2. /\ way[column] \in above[column]
        /\ above[way[column]] \in SUBSET above[column]
        /\ above[way[column]] # above[column]
    <3>1. /\ column # 0 /\ way[column] \in above[column]
          /\ \A c \in above[column] \cup {column} :
                c \notin above[c] /\ above[c] \subseteq above[column]
      BY <2>1 DEF SolverInv, PathInv
    <3> QED
      BY <3>1
  <2>3. /\ Cardinality(above[column]) \in 0..Size + 1
        /\ Cardinality(above[way[column]]) < Cardinality(above[column])
        /\ Cardinality(above[way[column]]) \in 0..Size + 1
    BY <1>3, <2>2, CountsAreNat
  <2>4. PassesLeft = left + Cardinality(above[column]) + 1
    BY <2>1 DEF PassesLeft
  <2>5. \/ PassesLeft' = left + 1
        \/ PassesLeft' = left + Cardinality(above[way[column]]) + 1
    BY <1>2, <2>1 DEF PassesLeft
  <2> HIDE DEF left
  <2> QED
    BY <1>1, <2>3, <2>4, <2>5
<1> QED
  BY <1>4, <1>5, <1>6, <1>7

\* Every pass of the solver's loops leaves fewer to make; of the outer loop it
\* makes one for each row, of the search at most one for each column, and of
\* the augmentation no more than the search has made.
THEOREM SolverWindsDown ==
    SolverSpec =>
        /\ [](PassesLeft \in 0..Size * PassesOfRow + 1)
        /\ [][PassesLeft' < PassesLeft]_solverVars
<1>1. SolverInv /\ [SolverNext]_solverVars => [PassesLeft' < PassesLeft]_solverVars
  BY PassStep DEF SolverNext, Finished
<1> QED
  BY <1>1, PassesBounded, SolverInvariant, PTL DEF SolverSpec
=============================================================================
