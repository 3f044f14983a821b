---------------------- MODULE MappingGovernanceProofs ----------------------
(***************************************************************************)
(* Theorems about MappingGovernance, for any names, integrations and       *)
(* clients, any number of sets and of handlers cut short.                  *)
(***************************************************************************)
EXTENDS MappingGovernance, FiniteSetTheorems, TLAPS

-----------------------------------------------------------------------------
(* The inductive invariant.                                                *)

\* Ids are handed out in order, the catalog has every set as it is, and the
\* versions of a name grow with the ids.
SetsInv ==
    /\ \A s, t \in SetIds : t < s /\ Exists(s) => Exists(t)
    /\ catalog = sets
    /\ VersionsFollowIds

\* The sets whose status the log does not tell.
Untold == {s \in SetIds : audit[s].last # sets[s].status}

\* The sets that may be reused, now or from a list made earlier, and the log
\* tells of no approval.
Reusable ==
    Listed(sets) \cup UNION {offered[c] \cup shortlist[c] \cup workspace[c] : c \in Clients}
Unaccounted == {s \in Reusable : ~audit[s].approval}

CountInv == Cardinality(Untold) <= faults /\ Cardinality(Unaccounted) <= faults

GovernanceInv == GovernanceTypeOK /\ SetsInv /\ CountInv

-----------------------------------------------------------------------------
(* Lemmas.                                                                 *)

\* The row a save writes.
SavedRow(name, integration, v) ==
    [name |-> name, integration |-> integration, version |-> v, status |-> "draft"]

\* A row that a save wrote, and what a status change makes of a row.
LEMMA RowsStayRows ==
    ASSUME NEW name \in Names, NEW i \in Integrations, NEW v \in Nat \ {0},
           NEW row \in Row, NEW status \in Statuses
    PROVE  /\ SavedRow(name, i, v) \in Row
           /\ [row EXCEPT !.status = status] \in Row
           /\ [row EXCEPT !.status = status].status = status
           /\ [row EXCEPT !.status = status].version = row.version
           /\ [row EXCEPT !.status = status].name = row.name
           /\ [row EXCEPT !.status = status].integration = row.integration
           /\ row.version \in Nat \ {0}
  BY DEF SavedRow, Row, Statuses

\* What there is, is a row; what there is not, is NoRow.
LEMMA ExistingSets ==
    ASSUME GovernanceTypeOK, NEW s \in SetIds
    PROVE  /\ Exists(s) <=> sets[s] \in Row
           /\ ~Exists(s) <=> sets[s] = NoRow
           /\ sets[s].status \in Statuses <=> Exists(s)
  BY DEF GovernanceTypeOK, Exists, Row, NoRow, Statuses

\* A handler writes its audit entry or is cut short.
LEMMA AuditStep ==
    ASSUME GovernanceTypeOK, NEW s \in SetIds, NEW status \in Statuses,
           Audited(s, status) \/ CutShort
    PROVE  /\ audit' \in [SetIds -> [last : Statuses \cup {"none"}, approval : BOOLEAN]]
           /\ faults' \in 0..MaxFaults
           /\ \A t \in SetIds : t # s => audit'[t] = audit[t]
           /\ \/ /\ faults' = faults
                 /\ audit'[s].last = status
                 /\ audit'[s].approval <=> audit[s].approval \/ status = "approved"
              \/ faults' = faults + 1 /\ audit' = audit
  <1>1. CASE Audited(s, status)
    <2> DEFINE told == Told(audit[s], status)
    <2>1. told \in [last : Statuses \cup {"none"}, approval : BOOLEAN]
      BY DEF GovernanceTypeOK, Told
    <2>2. told.last = status
      BY DEF Told
    <2>3. told.approval <=> audit[s].approval \/ status = "approved"
      BY Zenon DEF Told
    <2>4. audit' = [audit EXCEPT ![s] = told] /\ faults' = faults
      BY <1>1 DEF Audited
    <2>5. audit'[s] = told /\ \A t \in SetIds : t # s => audit'[t] = audit[t]
      BY <2>4 DEF GovernanceTypeOK
    <2> HIDE DEF told
    <2>6. audit' \in [SetIds -> [last : Statuses \cup {"none"}, approval : BOOLEAN]]
      BY <2>1, <2>4 DEF GovernanceTypeOK
    <2> QED
      BY <2>2, <2>3, <2>4, <2>5, <2>6 DEF GovernanceTypeOK
  <1>2. CASE CutShort
    BY <1>2, GovernanceBoundsAssumption DEF CutShort, GovernanceTypeOK
  <1> QED
    BY <1>1, <1>2

\* A set of ids has a size, and its subsets are no larger.
LEMMA NoMoreInSubset ==
    ASSUME NEW A \in SUBSET SetIds, NEW B \in SUBSET A
    PROVE  /\ IsFiniteSet(A)
           /\ Cardinality(A) \in Nat /\ Cardinality(B) \in Nat
           /\ Cardinality(B) <= Cardinality(A)
  <1>1. IsFiniteSet(SetIds)
    BY FS_Interval, GovernanceBoundsAssumption DEF SetIds
  <1>2. IsFiniteSet(A)
    BY <1>1, FS_Subset
  <1>3. IsFiniteSet(B)
    BY <1>2, FS_Subset
  <1> QED
    BY <1>2, <1>3, FS_Subset, FS_CardinalityType

\* A set of ids that gains at most one member gains at most one in size.
LEMMA AtMostOneMore ==
    ASSUME NEW A \in SUBSET SetIds, NEW s \in SetIds, NEW B \in SUBSET (A \cup {s})
    PROVE  Cardinality(B) <= Cardinality(A) + 1
  <1>1. A \cup {s} \in SUBSET SetIds
    OBVIOUS
  <1>2. /\ Cardinality(B) \in Nat /\ Cardinality(A \cup {s}) \in Nat
        /\ Cardinality(B) <= Cardinality(A \cup {s})
    BY <1>1, NoMoreInSubset
  <1>3. IsFiniteSet(A) /\ Cardinality(A) \in Nat
    BY NoMoreInSubset
  <1>4. Cardinality(A \cup {s}) = IF s \in A THEN Cardinality(A) ELSE Cardinality(A) + 1
    BY <1>3, FS_AddElement
  <1> QED
    BY <1>2, <1>3, <1>4

\* Both counts are of ids, and reuse is of saved sets.
LEMMA CountedSets ==
    ASSUME GovernanceTypeOK
    PROVE  /\ Untold \in SUBSET SetIds /\ Unaccounted \in SUBSET SetIds
           /\ Reusable \subseteq Saved /\ Saved \subseteq SetIds
  BY DEF GovernanceTypeOK, Untold, Unaccounted, Reusable, Listed, Saved

\* The counts grow by one at most, and only with a handler cut short.
LEMMA CountStep ==
    ASSUME GovernanceInv, GovernanceTypeOK', NEW s \in SetIds,
           \/ /\ faults' = faults
              /\ Untold' \subseteq Untold
              /\ Unaccounted' \subseteq Unaccounted
           \/ /\ faults' = faults + 1
              /\ Untold' \subseteq Untold \cup {s}
              /\ Unaccounted' \subseteq Unaccounted \cup {s}
    PROVE  CountInv'
  <1>1. Untold \in SUBSET SetIds /\ Unaccounted \in SUBSET SetIds
    BY CountedSets DEF GovernanceInv
  <1>2. (GovernanceTypeOK => Untold \in SUBSET SetIds /\ Unaccounted \in SUBSET SetIds)'
    BY CountedSets, PTL
  <1>3. Untold' \in SUBSET SetIds /\ Unaccounted' \in SUBSET SetIds
    BY <1>2
  <1>4. faults \in Nat /\ Cardinality(Untold) <= faults /\ Cardinality(Unaccounted) <= faults
    BY GovernanceBoundsAssumption DEF GovernanceInv, GovernanceTypeOK, CountInv
  <1>5. /\ Cardinality(Untold) \in Nat /\ Cardinality(Untold') \in Nat
        /\ Untold' \subseteq Untold => Cardinality(Untold') <= Cardinality(Untold)
        /\ Untold' \subseteq Untold \cup {s} => Cardinality(Untold') <= Cardinality(Untold) + 1
    BY <1>1, <1>3, NoMoreInSubset, AtMostOneMore
  <1>6. /\ Cardinality(Unaccounted) \in Nat /\ Cardinality(Unaccounted') \in Nat
        /\ Unaccounted' \subseteq Unaccounted =>
              Cardinality(Unaccounted') <= Cardinality(Unaccounted)
        /\ Unaccounted' \subseteq Unaccounted \cup {s} =>
              Cardinality(Unaccounted') <= Cardinality(Unaccounted) + 1
    BY <1>1, <1>3, NoMoreInSubset, AtMostOneMore
  <1>7. Cardinality(Untold') <= faults' /\ Cardinality(Unaccounted') <= faults'
    BY <1>4, <1>5, <1>6
  <1> QED
    BY <1>7 DEF CountInv

-----------------------------------------------------------------------------
(* The invariant is inductive: one lemma for each kind of step.            *)

\* A set is saved.
LEMMA CreateKeeps ==
    ASSUME GovernanceInv, NEW s \in SetIds, NEW name \in Names, NEW i \in Integrations,
           Create(s, name, i)
    PROVE  GovernanceInv'
  <1>1. PICK v \in 0..MaxSets :
            /\ NextVersion(name, v)
            /\ sets' = [sets EXCEPT ![s] = SavedRow(name, i, v)]
            /\ catalog' = [catalog EXCEPT ![s] = SavedRow(name, i, v)]
    BY DEF Create, SavedRow
  <1> DEFINE row == SavedRow(name, i, v)
  <1>2. /\ ~Exists(s) /\ \A t \in SetIds : t < s => Exists(t)
        /\ Audited(s, "draft") \/ CutShort
        /\ UNCHANGED <<offered, shortlist, workspace>>
    BY DEF Create
  <1>3. /\ GovernanceTypeOK /\ catalog = sets /\ VersionsFollowIds
        /\ \A t, u \in SetIds : t < u /\ Exists(u) => Exists(t)
    BY DEF GovernanceInv, SetsInv
  <1>4. "draft" \in Statuses
    BY DEF Statuses
  <1>5. /\ audit' \in [SetIds -> [last : Statuses \cup {"none"}, approval : BOOLEAN]]
        /\ faults' \in 0..MaxFaults
        /\ \A t \in SetIds : t # s => audit'[t] = audit[t]
        /\ \/ faults' = faults /\ audit'[s].last = "draft"
           \/ faults' = faults + 1 /\ audit' = audit
    BY <1>2, <1>3, <1>4, AuditStep
  <1>6. /\ v \in Nat \ {0}
        /\ \A t \in Saved : sets[t].name = name => sets[t].version < v
    <2> DEFINE versions == {sets[t].version : t \in {u \in Saved : sets[u].name = name}}
    <2>1. versions \subseteq Nat \ {0}
      BY <1>3, ExistingSets, RowsStayRows DEF Saved, GovernanceTypeOK, Row
    <2>2. IF versions = {} THEN v = 1 ELSE v - 1 \in versions /\ \A w \in versions : w < v
      BY <1>1 DEF NextVersion
    <2>3. v \in Nat
      BY <1>1, GovernanceBoundsAssumption
    <2>4. v # 0 /\ \A w \in versions : w < v
      <3> HIDE DEF versions
      <3> QED
        BY <2>1, <2>2, <2>3
    <2> QED
      BY <2>3, <2>4
  <1>7. /\ row \in Row /\ row.status = "draft" /\ row.name = name /\ row.version = v
    BY <1>4, <1>6, <1>1 DEF SavedRow, Row
  <1>8. /\ sets'[s] = row /\ \A t \in SetIds : t # s => sets'[t] = sets[t]
        /\ sets' \in [SetIds -> Row \cup {NoRow}] /\ catalog' = sets'
    BY <1>1, <1>3, <1>7 DEF GovernanceTypeOK
  <1>9. \A t \in SetIds : Exists(t)' <=> Exists(t) \/ t = s
    BY <1>6, <1>7, <1>8 DEF Exists
  <1>10. Saved' = Saved \cup {s}
    BY <1>9 DEF Saved
  <1>11. GovernanceTypeOK'
    BY <1>2, <1>3, <1>5, <1>8, <1>10 DEF GovernanceTypeOK
  <1>12. \A t \in Saved : t < s
    BY <1>2, <1>3 DEF Saved, SetIds
  <1>13. VersionsFollowIds'
    <2> SUFFICES ASSUME NEW t \in Saved', NEW u \in Saved',
                        sets'[t].name = sets'[u].name, t < u
                 PROVE  sets'[t].version < sets'[u].version
      BY DEF VersionsFollowIds
    <2>1. t # s
      BY <1>10, <1>12 DEF Saved, SetIds
    <2>2. CASE u = s
      BY <1>6, <1>7, <1>8, <1>10, <2>1, <2>2 DEF Saved
    <2>3. CASE u # s
      BY <1>3, <1>8, <1>10, <2>1, <2>3 DEF VersionsFollowIds, Saved
    <2> QED
      BY <2>2, <2>3
  <1>14. SetsInv'
    <2>1. \A t, u \in SetIds : t < u /\ Exists(u)' => Exists(t)'
      BY <1>2, <1>3, <1>9
    <2> QED
      BY <1>8, <1>13, <2>1 DEF SetsInv, Exists
  <1>15. CountInv'
    <2>1. \A t \in SetIds : t \in Untold' => t \in Untold \/ t = s
      BY <1>5, <1>8 DEF Untold
    <2>2. audit'[s].last = "draft" => s \notin Untold'
      BY <1>7, <1>8 DEF Untold
    <2>3. s \notin Reusable /\ Reusable' \subseteq Reusable
      <3>1. Listed(sets)' \subseteq Listed(sets)
        <4> SUFFICES ASSUME NEW t \in Saved', sets'[t].status = "approved"
                     PROVE  t \in Saved /\ sets[t].status = "approved"
          BY DEF Listed
        <4> QED
          BY <1>7, <1>8, <1>10 DEF Saved
      <3>2. s \notin Reusable
        BY <1>2, <1>3, CountedSets DEF Saved
      <3> QED
        BY <1>2, <3>1, <3>2 DEF Reusable
    <2>4. Unaccounted' \subseteq Unaccounted
      BY <1>3, <1>5, <2>3, CountedSets DEF Unaccounted, Saved
    <2>5. \/ faults' = faults /\ Untold' \subseteq Untold
          \/ faults' = faults + 1 /\ Untold' \subseteq Untold \cup {s}
      BY <1>5, <2>1, <2>2 DEF Untold
    <2> QED
      BY <1>11, <2>4, <2>5, CountStep
  <1> QED
    BY <1>11, <1>14, <1>15 DEF GovernanceInv

\* The status of a set changes.
LEMMA UpdateStatusKeeps ==
    ASSUME GovernanceInv, NEW s \in SetIds, NEW status \in Statuses,
           UpdateStatus(s, status)
    PROVE  GovernanceInv'
  <1> DEFINE row == [sets[s] EXCEPT !.status = status]
  <1>1. /\ GovernanceTypeOK /\ catalog = sets /\ VersionsFollowIds
        /\ \A t, u \in SetIds : t < u /\ Exists(u) => Exists(t)
    BY DEF GovernanceInv, SetsInv
  <1>2. /\ Exists(s) /\ (Audited(s, status) \/ CutShort)
        /\ UNCHANGED <<offered, shortlist, workspace>>
        /\ sets' = [sets EXCEPT ![s] = row] /\ catalog' = [catalog EXCEPT ![s] = row]
    BY <1>1 DEF UpdateStatus
  <1>3. sets[s] \in Row
    BY <1>1, <1>2, ExistingSets
  <1>4. /\ row \in Row /\ row.status = status
        /\ row.name = sets[s].name /\ row.version = sets[s].version
    BY <1>3, RowsStayRows DEF Row
  <1>5. /\ audit' \in [SetIds -> [last : Statuses \cup {"none"}, approval : BOOLEAN]]
        /\ faults' \in 0..MaxFaults
        /\ \A t \in SetIds : t # s => audit'[t] = audit[t]
        /\ \/ /\ faults' = faults
              /\ audit'[s].last = status
              /\ audit'[s].approval <=> audit[s].approval \/ status = "approved"
           \/ faults' = faults + 1 /\ audit' = audit
    BY <1>1, <1>2, AuditStep
  <1> HIDE DEF row
  <1>6. /\ sets'[s] = row /\ \A t \in SetIds : t # s => sets'[t] = sets[t]
        /\ sets' \in [SetIds -> Row \cup {NoRow}] /\ catalog' = sets'
    BY <1>1, <1>2, <1>4 DEF GovernanceTypeOK
  <1>7. /\ \A t \in SetIds : sets'[t].version = sets[t].version
        /\ \A t \in Saved : sets'[t].name = sets[t].name
    BY <1>4, <1>6 DEF Saved
  <1>8. Saved' = Saved /\ \A t \in SetIds : Exists(t)' <=> Exists(t)
    BY <1>7 DEF Saved, Exists
  <1>9. GovernanceTypeOK'
    BY <1>1, <1>2, <1>5, <1>6, <1>8 DEF GovernanceTypeOK
  <1>10. SetsInv'
    <2>1. VersionsFollowIds'
      BY <1>1, <1>7, <1>8 DEF VersionsFollowIds, Saved
    <2>2. \A t, u \in SetIds : t < u /\ Exists(u)' => Exists(t)'
      BY <1>1, <1>8
    <2> QED
      BY <1>6, <2>1, <2>2 DEF SetsInv, Exists
  <1>11. CountInv'
    <2>1. /\ \A t \in Untold' : t \in Untold \/ t = s
          /\ audit'[s].last = status => s \notin Untold'
      BY <1>4, <1>5, <1>6 DEF Untold
    <2>2. \A t \in Reusable' : t \in Reusable \/ (t = s /\ status = "approved")
      <3> SUFFICES ASSUME NEW t \in Listed(sets)', t \notin Listed(sets)
                   PROVE  t = s /\ status = "approved"
        BY <1>2 DEF Reusable
      <3>1. t \in Saved /\ sets'[t].status = "approved"
        BY <1>8 DEF Listed
      <3> QED
        BY <1>4, <1>6, <3>1 DEF Listed, Saved
    <2>3. Reusable' \subseteq SetIds
      <3>1. (GovernanceTypeOK => Reusable \subseteq Saved /\ Saved \subseteq SetIds)'
        BY CountedSets, PTL
      <3> QED
        BY <1>9, <3>1
    <2>4. CASE /\ faults' = faults /\ audit'[s].last = status
               /\ audit'[s].approval <=> audit[s].approval \/ status = "approved"
      <3>1. Untold' \subseteq Untold
        BY <2>1, <2>4
      <3>2. Unaccounted' \subseteq Unaccounted
        <4> SUFFICES ASSUME NEW t \in Reusable', ~audit'[t].approval
                     PROVE  t \in Reusable /\ ~audit[t].approval
          BY DEF Unaccounted
        <4>1. CASE t = s
          BY <2>2, <2>4, <4>1
        <4>2. CASE t # s
          BY <1>5, <2>2, <2>3, <4>2
        <4> QED
          BY <4>1, <4>2
      <3> QED
        BY <1>9, <2>4, <3>1, <3>2, CountStep
    <2>5. CASE faults' = faults + 1 /\ audit' = audit
      <3>1. Untold' \subseteq Untold \cup {s}
        BY <2>1
      <3>2. Unaccounted' \subseteq Unaccounted \cup {s}
        BY <2>2, <2>5 DEF Unaccounted
      <3> QED
        BY <1>9, <2>5, <3>1, <3>2, CountStep
    <2> QED
      BY <1>5, <2>4, <2>5
  <1> QED
    BY <1>9, <1>10, <1>11 DEF GovernanceInv

\* A client lists, takes or drops sets, and only from what it was shown.
ClientStep(c) ==
    /\ UNCHANGED <<sets, catalog>>
    /\ \E lists \in SUBSET Reusable :
          \/ /\ offered' = [offered EXCEPT ![c] = lists]
             /\ UNCHANGED <<shortlist, workspace>>
          \/ /\ shortlist' = [shortlist EXCEPT ![c] = lists]
             /\ UNCHANGED <<offered, workspace>>
          \/ /\ workspace' = [workspace EXCEPT ![c] = lists]
             /\ UNCHANGED <<offered, shortlist>>
    /\ \/ UNCHANGED <<audit, faults>>
       \/ \E s \in SetIds :
             /\ sets[s].status = "approved"
             /\ Audited(s, "approved") \/ CutShort

\* What reuse comes to.
LEMMA ReuseSteps ==
    ASSUME GovernanceInv, NEW c \in Clients, Reuse(c)
    PROVE  ClientStep(c)
  <1>1. catalog = sets /\ offered[c] \cup shortlist[c] \cup workspace[c] \subseteq Reusable
    BY DEF GovernanceInv, SetsInv, Reusable
  <1>2. workspace = [workspace EXCEPT ![c] = workspace[c]] /\ {} \subseteq Reusable
    BY DEF GovernanceInv, GovernanceTypeOK
  <1>3. CASE Browse(c)
    <2>1. Listed(sets) \subseteq Reusable /\ Listed(catalog) = Listed(sets)
      BY <1>1 DEF Reusable
    <2> QED
      BY <1>3, <2>1 DEF Browse, ClientStep
  <1>4. CASE FindFields(c)
    <2>1. UNION {LatestApproved(i) : i \in Integrations} \subseteq Reusable
      BY <1>1 DEF LatestApproved, First, Reusable
    <2> QED
      BY <1>4, <2>1 DEF FindFields, ClientStep
  <1>5. CASE Upload(c)
    BY <1>2, <1>5 DEF Upload, ClientStep
  <1>6. ASSUME NEW s \in SetIds, Apply(c, s) PROVE ClientStep(c)
    <2>1. Merge(workspace[c], s) \subseteq SUBSET Reusable /\ workspace[c] \in SUBSET Reusable
      BY <1>1, <1>6 DEF Apply, Merge
    <2>2. ASSUME Audited(s, "approved"), NEW held \in Merge(workspace[c], s),
                 workspace' = [workspace EXCEPT ![c] = held]
          PROVE  ClientStep(c)
      BY <1>6, <2>1, <2>2 DEF Apply, ClientStep
    <2>3. CASE CutShort /\ UNCHANGED workspace
      BY <1>2, <1>6, <2>1, <2>3 DEF Apply, ClientStep
    <2> QED
      BY <1>6, <2>2, <2>3 DEF Apply
  <1>7. ASSUME NEW s \in SetIds, ImportFields(c, s) PROVE ClientStep(c)
    <2>1. workspace[c] \cup {s} \in SUBSET Reusable
      BY <1>1, <1>7 DEF ImportFields
    <2> QED
      BY <1>7, <2>1 DEF ImportFields, ClientStep
  <1> QED
    BY <1>3, <1>4, <1>5, <1>6, <1>7 DEF Reuse

\* A client takes a step.
LEMMA ClientStepKeeps ==
    ASSUME GovernanceInv, NEW c \in Clients, ClientStep(c)
    PROVE  GovernanceInv'
  <1>1. GovernanceTypeOK /\ UNCHANGED <<sets, catalog>>
    BY DEF GovernanceInv, ClientStep
  <1>2. Saved' = Saved /\ Listed(sets)' = Listed(sets) /\ \A t \in SetIds : Exists(t)' <=> Exists(t)
    BY <1>1 DEF Saved, Exists, Listed
  <1>3. Reusable \subseteq Saved /\ Saved \subseteq SetIds
    BY <1>1, CountedSets
  <1>4. /\ offered' \in [Clients -> SUBSET Saved]
        /\ shortlist' \in [Clients -> SUBSET Saved]
        /\ workspace' \in [Clients -> SUBSET Saved]
    BY <1>1, <1>3 DEF ClientStep, GovernanceTypeOK
  <1>5. \A b \in Clients :
            offered'[b] \cup shortlist'[b] \cup workspace'[b] \subseteq Reusable
    <2>1. \A b \in Clients : offered[b] \cup shortlist[b] \cup workspace[b] \subseteq Reusable
      BY DEF Reusable
    <2>2. PICK lists \in SUBSET Reusable :
              \/ /\ offered' = [offered EXCEPT ![c] = lists]
                 /\ UNCHANGED <<shortlist, workspace>>
              \/ /\ shortlist' = [shortlist EXCEPT ![c] = lists]
                 /\ UNCHANGED <<offered, workspace>>
              \/ /\ workspace' = [workspace EXCEPT ![c] = lists]
                 /\ UNCHANGED <<offered, shortlist>>
      BY DEF ClientStep
    <2>3. CASE offered' = [offered EXCEPT ![c] = lists] /\ UNCHANGED <<shortlist, workspace>>
      BY <1>1, <2>1, <2>3 DEF GovernanceTypeOK
    <2>4. CASE shortlist' = [shortlist EXCEPT ![c] = lists] /\ UNCHANGED <<offered, workspace>>
      BY <1>1, <2>1, <2>4 DEF GovernanceTypeOK
    <2>5. CASE workspace' = [workspace EXCEPT ![c] = lists] /\ UNCHANGED <<offered, shortlist>>
      BY <1>1, <2>1, <2>5 DEF GovernanceTypeOK
    <2> QED
      BY <2>2, <2>3, <2>4, <2>5
  <1>6. Reusable' \subseteq Reusable
    BY <1>2, <1>5 DEF Reusable
  <1>7. SetsInv'
    BY <1>1, <1>2 DEF GovernanceInv, SetsInv, VersionsFollowIds, Exists
  <1>8. CASE UNCHANGED <<audit, faults>>
    <2>1. GovernanceTypeOK'
      BY <1>1, <1>2, <1>4, <1>8 DEF GovernanceTypeOK
    <2>2. Untold' = Untold /\ Unaccounted' \subseteq Unaccounted
      BY <1>1, <1>6, <1>8 DEF Untold, Unaccounted
    <2>3. CountInv'
      <3>1. /\ Cardinality(Unaccounted') \in Nat /\ Cardinality(Unaccounted) \in Nat
            /\ Cardinality(Unaccounted') <= Cardinality(Unaccounted)
        BY <1>1, <2>2, CountedSets, NoMoreInSubset
      <3>2. faults \in Nat
        BY <1>1, GovernanceBoundsAssumption DEF GovernanceTypeOK
      <3> QED
        BY <1>8, <2>2, <3>1, <3>2 DEF GovernanceInv, CountInv
    <2> QED
      BY <1>7, <2>1, <2>3 DEF GovernanceInv
  <1>9. ASSUME NEW s \in SetIds, sets[s].status = "approved", Audited(s, "approved") \/ CutShort
        PROVE  GovernanceInv'
    <2>1. "approved" \in Statuses
      BY DEF Statuses
    <2>2. /\ audit' \in [SetIds -> [last : Statuses \cup {"none"}, approval : BOOLEAN]]
          /\ faults' \in 0..MaxFaults
          /\ \A t \in SetIds : t # s => audit'[t] = audit[t]
          /\ \/ /\ faults' = faults
                /\ audit'[s].last = "approved"
                /\ audit'[s].approval
             \/ faults' = faults + 1 /\ audit' = audit
      BY <1>1, <1>9, <2>1, AuditStep
    <2>3. GovernanceTypeOK'
      BY <1>1, <1>2, <1>4, <2>2 DEF GovernanceTypeOK
    <2>4. CASE faults' = faults /\ audit'[s].last = "approved" /\ audit'[s].approval
      <3>1. Untold' \subseteq Untold
        BY <1>1, <1>9, <2>2, <2>4 DEF Untold
      <3>2. Unaccounted' \subseteq Unaccounted
        BY <1>3, <1>6, <2>2, <2>4 DEF Unaccounted
      <3>3. CountInv'
        BY <2>3, <2>4, <3>1, <3>2, CountStep
      <3> QED
        BY <1>7, <2>3, <3>3 DEF GovernanceInv
    <2>5. CASE faults' = faults + 1 /\ audit' = audit
      <3>1. Untold' \subseteq Untold /\ Unaccounted' \subseteq Unaccounted
        BY <1>1, <1>6, <2>5 DEF Untold, Unaccounted
      <3>2. CountInv'
        BY <2>3, <2>5, <3>1, CountStep
      <3> QED
        BY <1>7, <2>3, <3>2 DEF GovernanceInv
    <2> QED
      BY <2>2, <2>4, <2>5
  <1> QED
    BY <1>8, <1>9 DEF ClientStep

\* The empty tables.
LEMMA GovernanceInvInitially == Init => GovernanceInv
  <1> SUFFICES ASSUME Init PROVE GovernanceInv
    OBVIOUS
  <1>1. Saved = {}
    BY DEF Init, Saved, Exists, NoRow
  <1>2. GovernanceTypeOK
    BY <1>1, GovernanceBoundsAssumption DEF Init, GovernanceTypeOK, NoAudit
  <1>3. SetsInv
    BY <1>1 DEF Init, SetsInv, VersionsFollowIds, Exists, NoRow
  <1>4. Untold = {} /\ Unaccounted = {}
    BY <1>1, <1>2, CountedSets DEF Init, Untold, Unaccounted, NoAudit, NoRow
  <1>5. CountInv
    BY <1>4, FS_EmptySet DEF Init, CountInv
  <1> QED
    BY <1>2, <1>3, <1>5 DEF GovernanceInv

\* Every step keeps the invariant.
LEMMA GovernanceInvKept == GovernanceInv /\ [Next]_governanceVars => GovernanceInv'
  <1> SUFFICES ASSUME GovernanceInv, [Next]_governanceVars PROVE GovernanceInv'
    OBVIOUS
  <1>1. ASSUME NEW s \in SetIds, Govern(s) PROVE GovernanceInv'
    BY <1>1, CreateKeeps, UpdateStatusKeeps DEF Govern
  <1>2. ASSUME NEW c \in Clients, Reuse(c) PROVE GovernanceInv'
    BY <1>2, ReuseSteps, ClientStepKeeps
  <1>3. CASE UNCHANGED governanceVars
    <2>1. /\ Untold' = Untold /\ Unaccounted' = Unaccounted /\ Saved' = Saved
          /\ \A s \in SetIds : Exists(s)' <=> Exists(s)
      BY <1>3 DEF governanceVars, Untold, Unaccounted, Reusable, Listed, Saved, Exists
    <2>2. GovernanceTypeOK'
      BY <1>3, <2>1 DEF governanceVars, GovernanceInv, GovernanceTypeOK
    <2>3. SetsInv' /\ CountInv'
      BY <1>3, <2>1 DEF governanceVars, GovernanceInv, SetsInv, CountInv, VersionsFollowIds
    <2> QED
      BY <2>2, <2>3 DEF GovernanceInv
  <1> QED
    BY <1>1, <1>2, <1>3 DEF Next

\* So it always holds.
LEMMA GovernanceInvAlways == Spec => []GovernanceInv
  BY GovernanceInvInitially, GovernanceInvKept, PTL DEF Spec

-----------------------------------------------------------------------------
(* The theorems.                                                           *)

\* Tables, log and clients are well-typed, and clients hold saved sets only.
THEOREM GovernanceTypeCorrect == Spec => []GovernanceTypeOK
  BY GovernanceInvAlways, PTL DEF GovernanceInv

\* No version of a name is handed out twice, and later sets have later ones,
\* whatever is archived, reviewed or reused in between.
THEOREM VersionsGrow == Spec => []VersionsFollowIds
  <1>1. GovernanceInv => VersionsFollowIds
    BY DEF GovernanceInv, SetsInv
  <1> QED
    BY <1>1, GovernanceInvAlways, PTL

\* The latest approved version of an integration filed under one name is the
\* approved set saved last.
THEOREM LatestApprovedIsTheNewest == Spec => []LatestApprovedIsNewest
  <1>1. ASSUME GovernanceInv PROVE LatestApprovedIsNewest
    <2> SUFFICES ASSUME NEW i \in Integrations,
                        \A s, t \in Filed(i) : sets[s].name = sets[t].name
                 PROVE  LatestApproved(i) =
                            {s \in Filed(i) \cap Listed(sets) :
                                \A t \in Filed(i) \cap Listed(sets) : t <= s}
      BY DEF LatestApprovedIsNewest
    <2> DEFINE approved == Filed(i) \cap Listed(sets)
    <2>1. catalog = sets /\ approved \subseteq Saved /\ approved \subseteq Filed(i)
      BY <1>1 DEF GovernanceInv, SetsInv, Filed
    <2>2. LatestApproved(i) = {s \in approved : \A t \in approved \ {s} : Before(s, t)}
      BY <2>1 DEF LatestApproved, First
    <2>3. ASSUME NEW s \in approved, NEW t \in approved \ {s}
          PROVE  Before(s, t) <=> t <= s
      <3>1. /\ s \in SetIds /\ t \in SetIds /\ s \in Saved /\ t \in Saved
            /\ sets[s].name = sets[t].name
            /\ sets[s].version \in Nat /\ sets[t].version \in Nat
        BY <1>1, <2>1, <2>3, ExistingSets, RowsStayRows DEF Saved, GovernanceInv, Row
      <3>2. CASE t < s
        BY <1>1, <2>1, <3>1, <3>2 DEF GovernanceInv, SetsInv, VersionsFollowIds, Before, SetIds
      <3>3. CASE s < t
        BY <1>1, <2>1, <3>1, <3>3 DEF GovernanceInv, SetsInv, VersionsFollowIds, Before, SetIds
      <3> QED
        BY <2>3, <3>1, <3>2, <3>3 DEF SetIds
    <2>4. \A s \in approved : s <= s
      BY DEF Filed, Saved, SetIds
    <2> HIDE DEF approved
    <2>5. LatestApproved(i) = {s \in approved : \A t \in approved : t <= s}
      BY <2>2, <2>3, <2>4
    <2> QED
      BY <2>5 DEF approved
  <1> QED
    BY <1>1, GovernanceInvAlways, PTL

\* The log tells the status of every set, one set for each handler cut short
\* apart.
THEOREM AuditsTellStatuses == Spec => []AuditTellsStatus
  <1>1. GovernanceInv => AuditTellsStatus
    BY DEF GovernanceInv, CountInv, Untold, AuditTellsStatus
  <1> QED
    BY <1>1, GovernanceInvAlways, PTL

\* Nothing reaches a workspace that was never approved, and of all but one
\* set for each handler cut short the log tells the approval.
THEOREM ReuseIsAccountedFor == Spec => []ReuseAccountedFor
  <1>1. ASSUME GovernanceInv PROVE ReuseAccountedFor
    <2> DEFINE taken == {s \in UNION {workspace[c] : c \in Clients} : ~audit[s].approval}
    <2>1. taken \subseteq Unaccounted
      BY DEF Unaccounted, Reusable
    <2>2. Unaccounted \in SUBSET SetIds /\ GovernanceTypeOK
      BY <1>1, CountedSets DEF GovernanceInv
    <2> HIDE DEF taken
    <2>3. /\ Cardinality(taken) <= Cardinality(Unaccounted)
          /\ Cardinality(taken) \in Nat /\ Cardinality(Unaccounted) \in Nat
      BY <2>1, <2>2, NoMoreInSubset
    <2>4. Cardinality(Unaccounted) <= faults /\ faults \in Nat
      BY <1>1, GovernanceBoundsAssumption DEF GovernanceInv, CountInv, GovernanceTypeOK
    <2>5. Cardinality(taken) <= faults
      BY <2>3, <2>4
    <2> QED
      BY <2>5 DEF taken, ReuseAccountedFor
  <1> QED
    BY <1>1, GovernanceInvAlways, PTL
=============================================================================
